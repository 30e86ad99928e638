SPECIFICATION Spec
CONSTANTS
    w1 = w1
    w2 = w2
    NoRun = NoRun
    NoPointer = NoPointer
    NoMemo = NoMemo
    NoWarmup = NoWarmup
    NoTask = NoTask
    NoSnapshot = NoSnapshot
    NoWorker = NoWorker
    Workers <- TwoWorkers
    Requesters <- Nobody
    Failures <- ProbeCacheCrash
    Cycles <- TwoCycles
    Hours <- TwoHours
    InitialFeed <- FirstPosted
    Callers <- TickNow
    Window <- TwoHours
    Tiles = 1
    ProgressEvery = 1
INVARIANTS
    PointerTruthful
    WarmupHasItsWindow
    PollerIsAlone
