SPECIFICATION Spec
CONSTANTS
    f1 = f1
    f2 = f2
    f3 = f3
    NoLock = NoLock
    NoTile = NoTile
    NoSource = NoSource
    Requests = {r1}
    Fields <- TwoFields
    Tiles <- OneEach
    Fits <- OneSmall
    MaxLocks = 1
    Asks = 3
    Faults = 1
    Losses = 1
CHECK_DEADLOCK FALSE
INVARIANTS
    TileNeverChanges
