SPECIFICATION Spec
CONSTANTS
    Requests = {r1, r2, r3}
    TTL = 3
    MaxTime = 7
    Faults = {"redis", "database", "lostInsert", "resend", "restart", "crash"}
    MaxFaults = 2
    MaxHandling = 1
SYMMETRY RequestSymmetry
INVARIANTS
    TypeOK
    FewOwners
    RepeatsArePaidFor
PROPERTY ImplementsReference
CHECK_DEADLOCK FALSE
