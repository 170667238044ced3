SPECIFICATION FairSpec
CONSTANTS
    Protocols = {a, b}
    HandlerSets = {{a}}
    NativeSets = {{"client", "server"}, {"client"}, {"server"}}
    Failures = TRUE
    Openers = {"client"}
    MaxOpens = 1
    MaxApp = 2
    MaxForeign = 3
    MaxWire = 1
INVARIANTS
    ProtocolAgreed
    DataAfterNegotiation
    OutcomeOnce
    NoDanglingPoll
PROPERTIES
    StreamSettles
CHECK_DEADLOCK FALSE
