SPECIFICATION MixedSpec
CONSTANTS
    f1 = f1
    f2 = f2
    f3 = f3
    NoLock = NoLock
    NoTile = NoTile
    NoSource = NoSource
    Requests = {r1, r2}
    Fields <- ThreeFields
    Tiles <- OneEach
    Fits <- OneSmall
    MaxLocks = 1
    Asks = 4
    Faults = 1
    Losses = 1
    Probers = {p1}
    Places = {x}
    Sampled <- Elements
    WindFields <- Wind
    Permits = 1
    MaxValues = 1
    Calls = 2
    MixedAsks = 1
    WholeGrid = WholeGrid
    NoProber = NoProber
    NoValue = NoValue
CHECK_DEADLOCK FALSE
INVARIANTS
    WorkerTypeOK
    SingleFlight
PROPERTIES
    EveryRequestEnds
    EveryProbeEnds
