CONSTANTS
    t1 = t1
    c1 = c1
    Tasks = {t1}
    Clients = {c1}
    HotCap = 2
    RingCap = 2
    PipeCap = 1
    Width = 3
    Cursors = {0, 1}
    Limit = 3
    MaxEvents = 3
    MaxReplays = 1
    MaxSubscribes = 1
    MaxRestarts = 0
    MaxDbErrors = 0
    MaxPrunes = 0
SPECIFICATION Spec
CHECK_DEADLOCK FALSE
INVARIANT ReplayHeals
