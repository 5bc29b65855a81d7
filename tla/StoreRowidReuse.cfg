\* A rowid is used again after retention.
SPECIFICATION Spec
CONSTANTS
    MaxRetries <- RetryLimits
    q1 = q1
    q2 = q2
    Queues = {q2}
    MaxJobs = 2
    ClaimLimits = {2}
    MaxDispatch = 2
    CleanupOn = TRUE
    Retention = 1
    MaxTime = 2
    MaxCrashes = 0
    MaxFaults = 0
INVARIANTS
    PendingIsFree
CHECK_DEADLOCK FALSE
