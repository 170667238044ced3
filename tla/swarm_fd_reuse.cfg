SPECIFICATION Spec
CONSTANTS
    Peers = {a}
    NoPeer = NoPeer
    MaxFd = 3
    MaxConn = 2
    MaxDials = 1
    MaxListeners = 1
    MaxStops = 0
    MaxInputs = 2
    ResetStreams = FALSE
INVARIANTS
    ConnectionsDriven
CHECK_DEADLOCK FALSE
