SPECIFICATION Spec
CONSTANTS
    Requests = {r1, r2, r3, r4}
    Limit = 2
    Window = 3
    Second = 2
    MaxDelay = 1
    MaxTime = 6
    MaxFaults = 1
SYMMETRY RequestSymmetry
INVARIANTS
    TypeOK
    WindowLimit
    RetryAfterIsEnough
CHECK_DEADLOCK FALSE
