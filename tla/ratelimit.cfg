SPECIFICATION Spec
CONSTANTS
    k1 = k1
    k2 = k2
    q1 = q1
    q2 = q2
    NoKey = NoKey
    Requests = {q1, q2}
    Keys = {k1, k2}
    ValidKeys = {k1}
    MaxRequests = 2
    Ttl = 2
    MaxSize = 1
    MaxTime = 4
    MaxAdmits = 3
INVARIANT WindowKept
PROPERTY RefusalsEnd
CHECK_DEADLOCK FALSE
