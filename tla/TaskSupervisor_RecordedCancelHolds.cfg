CONSTANTS
    t1 = t1
    none = none
    c1 = c1
    c2 = c2
    Tasks = {t1}
    NoTask = none
    McpTasks = {t1}
    Cancels = {c1}
    Signals = {"int", "term", "kill"}
    MaxChunks = 0
    MaxRestarts = 0
    MaxDbErrors = 0
SPECIFICATION Spec
CHECK_DEADLOCK FALSE
INVARIANT RecordedCancelHolds
