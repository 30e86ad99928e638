SPECIFICATION Spec
CONSTANTS
    NoRun = NoRun
    Cycles <- ThreeCycles
    Hours <- TwoHours
    Window <- TwoHours
    InitialFeed <- EmptyFeed
    MaxAttempts = 2
    Concurrency = 2
INVARIANTS
    TypeOK
PROPERTIES
    ResultsAreDiscoveries
    DiscoveryEnds
