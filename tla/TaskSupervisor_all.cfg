\* One task with an MCP child; two cancels, one of which waits behind the other for the mutex;
\* a restart or a failing write.
CONSTANTS
    t1 = t1
    none = none
    c1 = c1
    c2 = c2
    Tasks = {t1}
    NoTask = none
    McpTasks = {t1}
    Cancels = {c1, c2}
    Signals = {"int", "kill"}
    MaxChunks = 2
    MaxRestarts = 1
    MaxDbErrors = 1
SPECIFICATION FairSpec
CONSTRAINT FewAccidents
CHECK_DEADLOCK FALSE
INVARIANTS
    TypeOK
    RunningIsWatched
    EntryOutlivesChild
    MutexHeldByWriter
    StoredBeforePublished
    EndHasCause
PROPERTIES
    ExitReported
    KillEnds
    CancelAnswered
    TailSaved
    KeepsLife
