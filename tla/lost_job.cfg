SPECIFICATION Spec
CONSTANTS
    j1 = j1
    w1 = w1
    c1 = c1
    NoJob = NoJob
    Jobs = {j1}
    Workers = {w1}
    Cancellers = {c1}
    Ids = {j1}
    IdOf <- OwnId
    Rehydrated = {}
    RehydrateFrom = {}
    Resubmit = TRUE
    MaxSize = 1
    Workflows = 1
    FaultPoints = {"get"}
    MaxFaults = 1
    Preemptive = FALSE
    MaxVersion = 3
INVARIANT NoJobLost
CHECK_DEADLOCK FALSE
