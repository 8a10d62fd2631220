SPECIFICATION Spec
CONSTANTS
    j1 = j1
    w1 = w1
    NoJob = NoJob
    Jobs = {j1}
    Workers = {w1}
    Cancellers = {}
    Ids = {j1}
    IdOf <- OwnId
    Rehydrated = {}
    RehydrateFrom = {}
    Resubmit = FALSE
    MaxSize = 1
    Workflows = 1
    FaultPoints = {}
    MaxFaults = 0
    Preemptive = TRUE
    MaxVersion = 3
INVARIANT FinishedIsDurable
CHECK_DEADLOCK FALSE
