SPECIFICATION Spec
CONSTANTS
    Delays = {0, 1, 2}
    MaxTimers = 2
    MaxClock = 4
INVARIANTS
    OneShotRuns
CHECK_DEADLOCK FALSE
