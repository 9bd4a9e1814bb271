CONSTANTS
    s1 = s1
    s2 = s2
    NoCall = NoCall
    Requests = {}
    Subscribers = {s1, s2}
    QueueCap = 1
    WireCap = 1
    RecvCap = 1
    CastCap = 1
    PipeCap = 1
    MaxEvents = 2
SPECIFICATION FairSpec
CHECK_DEADLOCK FALSE
INVARIANTS
    TypeOK
    WaiterIsServed
    NoEventLost
PROPERTIES
    KeepsPromise
    CallReturns
