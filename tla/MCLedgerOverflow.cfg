SPECIFICATION Spec
CONSTANTS
    Txns <- OneTwo
    Amounts <- OneTwo
    MaxInt = 3
    Workers = {w1, w2}
    NoWorker = NoWorker
    MaxFaults = 0
INVARIANT BalanceNeverNegative
CHECK_DEADLOCK FALSE
