\* Two jobs and a reader of one of them: every job is settled.
SPECIFICATION FairReadSpec
CONSTANTS
    q2 = q2
    Queues = {q2}
    MaxRetries <- RetryLimits
    MaxJobs = 2
    ClaimLimits = {2}
    MaxDispatch = 2
    CleanupOn = FALSE
    Retention = 1
    MaxTime = 0
    MaxCrashes = 0
    MaxFaults = 1
    Asked = {1}
INVARIANTS
    GetJobIsLinearizable
PROPERTIES
    AcceptedJobsSettle
CHECK_DEADLOCK FALSE
