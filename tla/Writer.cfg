CONSTANTS
    MaxTurns = 4
    Capacity = 2
    MinSize = 1
    MaxSize = 3
    ProbePercent = 125
    BackoffPercent = 75
    Callers = 3
SPECIFICATION FairSpec
INVARIANTS
    EveryCallIsHeld
    PassedOverBounded
PROPERTY
    ShutdownAnswersAll
CHECK_DEADLOCK FALSE
