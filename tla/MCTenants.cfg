SPECIFICATION MCSpec
CONSTANTS
    r1 = r1
    r2 = r2
    r3 = r3
    alpha = alpha
    beta = beta
    Requests = {r1, r2, r3}
    Codes = {alpha, beta}
    Calls = {c1}
    Nobody = nobody
    MaxChanges = 1
    MaxFaults = 1
INVARIANTS
    TypeOK
    OneTenantPerCode
    WholeTenants
    AnswersHold
    CallsAreExplained
PROPERTY EveryRegistrationEnds
CHECK_DEADLOCK FALSE
