SPECIFICATION FairSpec
CONSTANTS
    w1 = w1
    w2 = w2
    NoRun = NoRun
    NoPointer = NoPointer
    NoMemo = NoMemo
    NoWarmup = NoWarmup
    NoTask = NoTask
    NoSnapshot = NoSnapshot
    NoWorker = NoWorker
    Workers <- OneWorker
    Requesters <- OneWorker
    Failures <- TileBounds
    Cycles <- TwoCycles
    Hours <- TwoHours
    InitialFeed <- FirstPosted
    Callers <- TickManual
    Window <- OneHour
    Tiles = 2
    ProgressEvery = 1
INVARIANTS
    TypeOK
    DoneMeansRendered
PROPERTIES
    CaughtUpStays
    NoRepeatedWarmup
    RunningEnds
