CONSTANTS
    None = None
    q1 = q1
    q2 = q2
    t1 = t1
    t2 = t2
    i1 = i1
    i2 = i2
    env = env
    QueueOrder <- Order
    Sanitized <- Distinct
    Configs <- ChangingConfigs
    Tags <- TwoTags
    Images <- TwoImages
    Settings <- OneSetting
    Registry <- Pulled
    MaxEdits = 2
    MaxFaults = 2
    MaxRestarts = 1
SPECIFICATION FairSpec
INVARIANT
    OneMissingAtATime
PROPERTIES
    LeftAlone
    Converges
