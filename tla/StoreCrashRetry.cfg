\* A crash between the two halves of a failure.
SPECIFICATION Spec
CONSTANTS
    MaxRetries <- RetryLimits
    q1 = q1
    q2 = q2
    Queues = {q2}
    MaxJobs = 2
    ClaimLimits = {2}
    MaxDispatch = 2
    CleanupOn = FALSE
    Retention = 1
    MaxTime = 0
    MaxCrashes = 1
    MaxFaults = 0
INVARIANTS
    RetryableFailureReturnsToPending
CHECK_DEADLOCK FALSE
