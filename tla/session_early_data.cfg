SPECIFICATION FairSpec
CONSTANTS
    MuxerLists <- SomeMuxers
    Identities = {FALSE}
    Expectations = {"none"}
    AnyConfig = FALSE
    NetCap = 2
    MaxWrites = 1
    MaxOpens = 1
    HugeWrites = FALSE
    ResetStreams = FALSE
    MaxGarbled = 0
PROPERTIES
    SentArrives
CHECK_DEADLOCK FALSE
