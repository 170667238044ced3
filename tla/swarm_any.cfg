SPECIFICATION Spec
CONSTANTS
    Peers = {a, b}
    NoPeer = NoPeer
    MaxFd = 3
    MaxConn = 2
    MaxDials = 1
    MaxListeners = 1
    MaxStops = 1
    MaxInputs = 2
    ResetStreams = TRUE
INVARIANTS
    SocketsOwned
    NoRegisterThrow
    ClosedReportedOnce
    PeerRouteLive
    DialAnsweredOnce
CHECK_DEADLOCK FALSE
SYMMETRY PeerSymmetry
