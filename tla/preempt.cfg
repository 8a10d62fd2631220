SPECIFICATION Spec
CONSTANTS
    j1 = j1
    w1 = w1
    c1 = c1
    NoJob = NoJob
    Jobs = {j1}
    Workers = {w1}
    Cancellers = {c1}
    Ids = {j1}
    IdOf <- OwnId
    Rehydrated = {}
    RehydrateFrom = {}
    Resubmit = TRUE
    MaxSize = 1
    Workflows = 1
    FaultPoints = {"put", "get"}
    MaxFaults = 1
    Preemptive = TRUE
    MaxVersion = 2
INVARIANTS
    RunsAtMostOnce
    CancelledWorkIsSignalled
CHECK_DEADLOCK FALSE
