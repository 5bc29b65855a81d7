CONSTANTS
    w1 = w1
    Workers <- OneWorker
    Concurrency <- TwoSlots
    MaxDispatch = 2
    SplitFrames = TRUE
    Panics = FALSE
SPECIFICATION Spec
INVARIANTS
    SessionOutlivesJobs
CHECK_DEADLOCK FALSE
