CONSTANTS
    w1 = w1
    Workers <- OneWorker
    Concurrency <- TwoSlots
    MaxDispatch = 4
    SplitFrames = TRUE
    Panics = TRUE
SPECIFICATION FairSpec
INVARIANTS
    TypeOK
    NeverOverbooked
    InFlightIsExact
    WorkerWithinConcurrency
    NoDispatchAfterDraining
    IdleWorkerIsAvailable
    DrainedReportsAll
PROPERTIES
    DrainEnds
    DispatchReturns
CHECK_DEADLOCK FALSE
