\* Retention beside every other operation.
SPECIFICATION Spec
CONSTANTS
    q1 = q1
    q2 = q2
    Queues = {q1, q2}
    MaxRetries <- RetryLimits
    MaxJobs = 1
    ClaimLimits = {1}
    MaxDispatch = 3
    CleanupOn = TRUE
    Retention = 1
    MaxTime = 2
    MaxCrashes = 1
    MaxFaults = 1
INVARIANTS
    CompletedWasDelivered
PROPERTIES
    CompletedIsFinal
CHECK_DEADLOCK FALSE
