CONSTANTS
    q1 = q1
    q2 = q2
    MinSize = 1
    MaxSize = 3
    ProbePercent = 125
    BackoffPercent = 75
    Queues <- TwoQueues
    Registered <- FirstQueue
    Capacity = 2
    Callers = 3
    MaxFaults = 1
SPECIFICATION FairSpec
INVARIANTS
    TypeOK
    EveryCallIsHeld
    OvertakenOnce
    UpsertedBeforeEnqueue
    EnqueuesInOrder
PROPERTIES
    ShutdownAnswersAll
    GrowsUnderDemand
CHECK_DEADLOCK FALSE
