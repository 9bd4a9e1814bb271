CONSTANTS
    s1 = s1
    s2 = s2
    NoCall = NoCall
    Requests = {}
    Subscribers = {s1, s2}
    QueueCap = 1
    WireCap = 1
    RecvCap = 1
    CastCap = 1
    PipeCap = 1
    MaxEvents = 2
SPECIFICATION BridgeSpec
CHECK_DEADLOCK FALSE
INVARIANT
    PumpRunsUntilClosed
