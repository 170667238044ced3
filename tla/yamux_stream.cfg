SPECIFICATION FairSpec
CONSTANTS
    Window = 2
    MaxU32 = 3
    MaxStreamId = 1
    MaxBytes = 4
    MaxIo = 2
    MaxWire = 2
    MaxForeign = 0
INVARIANTS
    TypeOK
    EofComplete
    InOrder
    CreditConserved
PROPERTIES
    ImplementsPipe
    WindowRefilled
    EofReached
CHECK_DEADLOCK FALSE
