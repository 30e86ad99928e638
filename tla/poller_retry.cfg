SPECIFICATION Spec
CONSTANTS
    w1 = w1
    w2 = w2
    NoRun = NoRun
    NoPointer = NoPointer
    NoMemo = NoMemo
    NoWarmup = NoWarmup
    NoTask = NoTask
    NoSnapshot = NoSnapshot
    NoWorker = NoWorker
    Workers <- OneWorker
    Requesters <- Nobody
    Failures <- NoFailures
    Cycles <- TwoCycles
    Hours <- OneHour
    InitialFeed <- EmptyFeed
    Callers <- TickOnly
    Window <- OneHour
    Tiles = 2
    ProgressEvery = 1
PROPERTIES
    NextTickRetries
