SPECIFICATION Spec
CONSTANTS
    c1 = c1
    c2 = c2
    c3 = c3
    id1 = id1
    NoId = NoId
    Backends = {"memory", "sql", "mongodb"}
    Clients = {c1, c2, c3}
    Ids = {id1}
    Statuses <- SmallStatuses
    Versions <- SmallVersions
INVARIANTS
    SkipsAreJustified
    NoLostUpdate
SYMMETRY Symmetry
PROPERTIES
    ImplementsJobStore
    FollowsFSM
