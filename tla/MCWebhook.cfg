SPECIFICATION FairSpec
CONSTANTS
    Txns = {t1, t2}
    NoTxn = NoTxn
    Workers = {w1, w2}
    Urls = {u1, u2}
    NoUrl = NoUrl
    MaxRetry = 4
    ConfigTimeout = 5
    RequestTimeout = 5
    MaxSeconds = 2
    MaxChanges = 1
    MaxFaults = 1
INVARIANTS
    TypeOK
    TellsTheTruth
    RightEndpoint
    HonestOutcome
    BusyBounded
PROPERTY EveryCallbackEnds
CHECK_DEADLOCK FALSE
