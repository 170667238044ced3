SPECIFICATION Spec
CONSTANTS
    MuxerLists <- SomeMuxers
    Identities = {TRUE, FALSE}
    Expectations = {"none", "match", "mismatch", "unreadable"}
    AnyConfig = TRUE
    NetCap = 2
    MaxWrites = 2
    MaxOpens = 1
    HugeWrites = FALSE
    ResetStreams = TRUE
    MaxGarbled = 0
INVARIANTS
    EventStory
    ReadyWithDialedPeer
    NoncesInStep
    MuxerAgreement
    DirectInOrder
CHECK_DEADLOCK FALSE
