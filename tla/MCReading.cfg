SPECIFICATION ReadingSpec
CONSTANTS
    Txns <- Three
    Amounts <- One
    MaxInt = 100
    Workers = {w1, w2}
    NoWorker = NoWorker
    MaxFaults = 1
    AskedLimits <- Limits
    DefaultLimit = 1
    MaxLimit = 1
SYMMETRY WorkerSymmetry
INVARIANTS
    ReadingTypeOK
    PassIsComplete
    MissedWasOvertaken
    SeenIsExplained
    BoundedOvertaking
CHECK_DEADLOCK FALSE
