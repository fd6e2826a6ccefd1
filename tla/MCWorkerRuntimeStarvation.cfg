SPECIFICATION FairSpec
CONSTANTS
    Tenants <- Two
    Workers = {w1}
    JobQueueMultiplier = 8
    MaxPending = 1
    MaxChanges = 0
    MaxFaults = 0
    SlowJobsOnly = TRUE
PROPERTY EveryTenantServed
CHECK_DEADLOCK FALSE
