SPECIFICATION Spec
CONSTANTS
    Streams = {"s1", "s2", "s3"}
    Ids = {"a", "b"}
    Ips = {"y"}
    IdOf <- SmallIdOf
    IpOf <- SmallIpOf
    e1 = e1
    e2 = e2
    Events = {e1, e2}
    Greeted = {"s2"}
    Generating = {"s2"}
    Raising = {"s2"}
    Unnamed <- SmallUnnamed
    MaxConnections = 2
    MaxConnectionsPerIp = 1
    MaxQueue = 2
    LogMax = 2
    NoStream = NoStream
    NoEvent = NoEvent
    NoIp = NoIp
SYMMETRY EventSymmetry
INVARIANTS
    CapsHold
    Seamless
    InOrderOnce
    EndedIsGone
PROPERTY ClosedIsQuiet
CHECK_DEADLOCK FALSE
