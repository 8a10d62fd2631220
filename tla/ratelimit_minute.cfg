SPECIFICATION Spec
CONSTANTS
    k1 = k1
    k2 = k2
    q1 = q1
    NoKey = NoKey
    Requests = {q1}
    Keys = {k1, k2}
    ValidKeys = {k1}
    MaxRequests = 2
    Ttl = 2
    MaxSize = 1
    MaxTime = 3
    MaxAdmits = 3
PROPERTY RefusedOverLimit
CHECK_DEADLOCK FALSE
