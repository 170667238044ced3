SPECIFICATION FairSpec
CONSTANTS
    Peers = {a}
    NoPeer = NoPeer
    MaxFd = 3
    MaxConn = 2
    MaxDials = 2
    MaxListeners = 0
    MaxStops = 1
    MaxInputs = 2
    ResetStreams = FALSE
INVARIANTS
    ConnectionsDriven
PROPERTIES
    DialAnswered
    PeerCloseReported
CHECK_DEADLOCK FALSE
