SPECIFICATION FairSpec
CONSTANTS
    w1 = w1
    w2 = w2
    NoRun = NoRun
    NoPointer = NoPointer
    NoMemo = NoMemo
    NoWarmup = NoWarmup
    NoTask = NoTask
    NoSnapshot = NoSnapshot
    NoWorker = NoWorker
    Workers <- TwoWorkers
    Requesters <- SecondOnly
    Failures <- ProbeOnly
    Cycles <- TwoCycles
    Hours <- OneHour
    InitialFeed <- FirstPosted
    Callers <- TickLive
    Window <- OneHour
    Tiles = 1
    ProgressEvery = 1
PROPERTIES
    AnswersConverge
