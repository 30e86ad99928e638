SPECIFICATION Spec
CONSTANTS
    NoHour = NoHour
    Hours <- ThreeHours
    Urls = {t1}
    Ladders <- SomeShort
    Canonical <- ThreeFrames
    MaxCachedFrames = 2
    MaxInFlight = 2
    PreloadAhead = 1
    Moves = 3
    MaxLoops = 2
CHECK_DEADLOCK FALSE
PROPERTIES
    SpinnerNeverWedges
