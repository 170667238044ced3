SPECIFICATION FairSpec
CONSTANTS
    MuxerLists <- SomeMuxers
    Identities = {TRUE, FALSE}
    Expectations = {"none", "mismatch"}
    AnyConfig = FALSE
    NetCap = 1
    MaxWrites = 1
    MaxOpens = 1
    HugeWrites = TRUE
    ResetStreams = FALSE
    MaxGarbled = 1
PROPERTIES
    UpgradeSettles
    CloseReachesPeer
CHECK_DEADLOCK FALSE
