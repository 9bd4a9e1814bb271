SPECIFICATION FairSpec
CONSTANTS
    Calls = {c1, c2}
    Files = {f1, f2, f3}
    NoFile = NoFile
    NoCall = NoCall
    Pieces = 2
    MaxCrashes = 1
    MaxCancels = 1
    MaxDeletes = 1
    MaxLate = 1
    MaxOdd = 1
CONSTRAINTS Undisturbed FewAccidents
INVARIANTS TypeOK PlacedIsWhole PartialIsPrefix
PROPERTY RetriesPlaceModel
