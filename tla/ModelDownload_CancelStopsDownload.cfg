SPECIFICATION Spec
CONSTANTS
    Calls = {c1}
    Files = {f1, f2, f3, f4}
    NoFile = NoFile
    NoCall = NoCall
    Pieces = 2
    MaxCrashes = 0
    MaxCancels = 1
    MaxDeletes = 0
    MaxLate = 0
    MaxOdd = 0
INVARIANT CancelStopsDownload
