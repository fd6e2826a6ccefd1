SPECIFICATION FairSpec
CONSTANTS
    Tenants <- Two
    Workers = {w1, w2}
    JobQueueMultiplier = 1
    MaxPending = 1
    MaxChanges = 1
    MaxFaults = 1
    SlowJobsOnly = FALSE
INVARIANTS
    TypeOK
    GracefulStop
PROPERTIES
    NoSendAfterClose
    ShutdownCompletes
    SuspensionTakesHold
    OldestServed
CHECK_DEADLOCK FALSE
