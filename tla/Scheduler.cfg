CONSTANTS
    q1 = q1
    q2 = q2
    Queues <- TwoQueues
    Busy <- TwoQueues
    MaxInFlight = 2
    BatchMax = 2
    ProbeBatch = 1
    MaxJobs = 1
    MaxSlots = 2
    FaultKinds = {"pass", "event", "worker", "delivery", "attempt", "completion"}
    MaxFaults = 1
SPECIFICATION Spec
SYMMETRY QueueSymmetry
INVARIANTS
    TypeOK
    OneToken
    NoQueueForgotten
    PermitsConserved
CHECK_DEADLOCK FALSE
