SPECIFICATION Spec
CONSTANTS
    j1 = j1
    j2 = j2
    w1 = w1
    w2 = w2
    id = id
    c1 = c1
    NoJob = NoJob
    Jobs = {j1, j2}
    Workers = {w1, w2}
    Cancellers = {c1}
    Ids = {id}
    IdOf <- SharedId
    Rehydrated = {j2}
    RehydrateFrom = {"Scheduled"}
    Resubmit = TRUE
    MaxSize = 0
    Workflows = 1
    FaultPoints = {"put"}
    MaxFaults = 1
    Preemptive = FALSE
    MaxVersion = 4
INVARIANT TwinsRunOnce
CHECK_DEADLOCK FALSE
