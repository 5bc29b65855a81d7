\* Crashes and failing calls at every point of every operation.
SPECIFICATION Spec
CONSTANTS
    q1 = q1
    q2 = q2
    Queues = {q2}
    MaxRetries <- RetryLimits
    MaxJobs = 2
    ClaimLimits = {2}
    MaxDispatch = 3
    CleanupOn = FALSE
    Retention = 0
    MaxTime = 0
    MaxCrashes = 1
    MaxFaults = 1
INVARIANTS
    TypeOK
    PendingIsFree
    RunningHoldsClaim
    ExecutionsBounded
    ClaimsAreOwned
    RetriesAreOwned
PROPERTIES
    LastFailureIsFinal
    ImplementsLifecycle
CHECK_DEADLOCK FALSE
