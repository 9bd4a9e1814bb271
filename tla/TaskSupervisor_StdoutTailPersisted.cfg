CONSTANTS
    t1 = t1
    none = none
    c1 = c1
    c2 = c2
    Tasks = {t1}
    NoTask = none
    McpTasks = {}
    Cancels = {c1}
    Signals = {"kill"}
    MaxChunks = 1
    MaxRestarts = 0
    MaxDbErrors = 0
SPECIFICATION FairSpec
CHECK_DEADLOCK FALSE
PROPERTY StdoutTailPersisted
