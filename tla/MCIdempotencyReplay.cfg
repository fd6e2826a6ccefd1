SPECIFICATION Spec
CONSTANTS
    Requests = {r1, r2}
    TTL = 1
    MaxTime = 1
    Faults = {}
    MaxFaults = 0
    MaxHandling = 0
SYMMETRY RequestSymmetry
INVARIANT IdenticalReplay
CHECK_DEADLOCK FALSE
