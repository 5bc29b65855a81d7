CONSTANTS
    q1 = q1
    q2 = q2
    Queues <- TwoQueues
    Busy <- OneQueue
    MaxInFlight = 1
    BatchMax = 2
    ProbeBatch = 1
    MaxJobs = 1
    MaxSlots = 2
    FaultKinds = {"pass", "event"}
    MaxFaults = 1
SPECIFICATION FairSpec
PROPERTIES
    PendingMeetsSlot
    FailedPassIsRetried
CHECK_DEADLOCK FALSE
