SPECIFICATION Spec
CONSTANTS
    w1 = w1
    w2 = w2
    NoRun = NoRun
    NoPointer = NoPointer
    NoMemo = NoMemo
    NoWarmup = NoWarmup
    NoTask = NoTask
    NoSnapshot = NoSnapshot
    NoWorker = NoWorker
    Workers <- OneWorker
    Requesters <- Nobody
    Failures <- NoFailures
    Cycles <- TwoCycles
    Hours <- OneHour
    InitialFeed <- FirstPosted
    Callers <- TickNow
    Window <- OneHour
    Tiles = 1
    ProgressEvery = 1
PROPERTIES
    PointerNeverRegresses
