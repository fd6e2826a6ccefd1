SPECIFICATION Spec
CONSTANTS
    Requests = {r1, r2, r3}
    TTL = 3
    MaxTime = 4
    Faults = {"crash"}
    MaxFaults = 1
    MaxHandling = 0
SYMMETRY RequestSymmetry
INVARIANT ReplayWindow
CHECK_DEADLOCK FALSE
