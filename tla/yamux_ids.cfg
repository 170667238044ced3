SPECIFICATION Spec
CONSTANTS
    Window = 2
    MaxU32 = 3
    MaxStreamId = 2
    MaxBytes = 0
    MaxIo = 1
    MaxWire = 2
    MaxForeign = 1
INVARIANTS
    IdInv
    AcceptOnce
    NoProtocolError
    NoHalfOpen
CHECK_DEADLOCK FALSE
