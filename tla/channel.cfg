SPECIFICATION FairSpec
CONSTANTS
    v1 = v1
    v2 = v2
    v3 = v3
    c1 = c1
    c2 = c2
    Nothing = Nothing
    Stopped = Stopped
    Items = {v1, v2, v3}
    Consumers = {c1, c2}
    MaxSize = 2
    MaxGivenUp = 1
INVARIANTS
    TypeOK
    NoWakeUpLost
PROPERTIES
    QueueSpec
    Served
CHECK_DEADLOCK FALSE
