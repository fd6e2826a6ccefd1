SPECIFICATION Spec
CONSTANTS
    Requests = {r1, r2}
    TTL = 1
    MaxTime = 1
    Faults = {"lostInsert"}
    MaxFaults = 1
    MaxHandling = 0
SYMMETRY RequestSymmetry
INVARIANT NoDuplicates
CHECK_DEADLOCK FALSE
