\* A device connects again before its old connection is closed.
CONSTANTS
    c1 = c1
    c2 = c2
    d1 = d1
    d2 = d2
    t1 = t1
    None = None
    Self = Self
    Conns = {c1, c2}
    Devices = {d1, d2}
    Tasks = {t1}
    PipeCap = 1
    MaxTakeovers = 0
    MaxRequests = 2
    MaxRestarts = 0
SPECIFICATION Spec
CHECK_DEADLOCK FALSE
INVARIANTS
    OnlineHasSink
