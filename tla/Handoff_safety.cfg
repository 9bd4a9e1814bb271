\* Two devices and three connections, so that a device can be connected
\* twice while another one takes its task; channels of one message.
CONSTANTS
    c1 = c1
    c2 = c2
    c3 = c3
    d1 = d1
    d2 = d2
    t1 = t1
    None = None
    Self = Self
    Conns = {c1, c2, c3}
    Devices = {d1, d2}
    Tasks = {t1}
    PipeCap = 1
    MaxTakeovers = 3
    MaxRequests = 2
    MaxRestarts = 1
SPECIFICATION Spec
SYMMETRY Symmetry
CHECK_DEADLOCK FALSE
INVARIANTS
    TypeOK
    NoDoubleWin
    NoticeFollowsLoss
    SinkOutlives
    WatchersOutlive
PROPERTIES
    KeepsRegister
