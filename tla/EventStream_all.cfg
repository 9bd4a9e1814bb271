\* One client; a ring so small that a replay needs the table; a page of one event; one restart;
\* one failing insert or query, or one run of the retention job.
CONSTANTS
    t1 = t1
    c1 = c1
    Tasks = {t1}
    Clients = {c1}
    HotCap = 1
    RingCap = 1
    PipeCap = 1
    Width = 3
    Cursors = {0, 1}
    Limit = 1
    MaxEvents = 2
    MaxReplays = 1
    MaxSubscribes = 1
    MaxRestarts = 1
    MaxDbErrors = 1
    MaxPrunes = 1
SPECIFICATION FairSpec
CHECK_DEADLOCK FALSE
CONSTRAINT FewAccidents
INVARIANTS
    TypeOK
    LoggedBeforeFanOut
    ColdReplayHeals
PROPERTIES
    ReplayAnswered
    EventArrives
