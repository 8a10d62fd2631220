SPECIFICATION FairSpec
CONSTANTS
    j1 = j1
    j2 = j2
    w1 = w1
    c1 = c1
    NoJob = NoJob
    Jobs = {j1, j2}
    Workers = {w1}
    Cancellers = {c1}
    Ids = {j1, j2}
    IdOf <- OwnId
    Rehydrated = {}
    RehydrateFrom = {}
    Resubmit = TRUE
    MaxSize = 1
    Workflows = 2
    FaultPoints = {"put"}
    MaxFaults = 3
    Preemptive = FALSE
    MaxVersion = 4
INVARIANTS
    TypeOK
    NoJobLost
    SnapshotAgrees
    NoGhostRow
    CancelIsDurable
    NothingLeftBehind
PROPERTIES
    TerminalIsFinal
    Settles
    CancelPersists
    WorkersLeave
CHECK_DEADLOCK FALSE
