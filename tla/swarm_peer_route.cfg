SPECIFICATION Spec
CONSTANTS
    Peers = {a}
    NoPeer = NoPeer
    MaxFd = 3
    MaxConn = 2
    MaxDials = 2
    MaxListeners = 0
    MaxStops = 0
    MaxInputs = 2
    ResetStreams = FALSE
INVARIANTS
    PeerReachable
CHECK_DEADLOCK FALSE
