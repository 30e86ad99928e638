SPECIFICATION PageSpec
CONSTANTS
    NoFrame = NoFrame
    Frames = {f1, f2, f3}
    Moves = 4
    Remounts = 1
    Points = {0, 1, 2}
    Jump = 2
    Hours = {1, 2}
    Nothing = Nothing
    Probes = 2
    ProbeRemounts = 1
    WindViews = {v1, v2}
    WindChanges = 3
    WindFailures = 1
    Base = {states, highways}
    Cwa = cwa
    OnByDefault = {states, cwa}
    Toggles = 3
    OverlayRemounts = 2
    Fetches = 3
    Domains = {co, ak}
    NoNotice = NoNotice
    FirstCycle = 23
    LastCycle = 24
    Ladder = 2
    Lists = {{}, {1}}
    Recent = 2
    Outstanding = 2
    FeedChanges = 2
    FeedKey = feed
    PanelKey = legend
    TileKeys = {t1}
    PanelKeys = {k1, k2}
    MaxVisible = 2
    Pushes = 4
    Places = {p1, p2}
    SeriesCycles = {c1, c2}
    Units = {metric, imperial}
    SeriesChanges = 3
    SeriesFailures = 1
    Builds = 3
    NoOption = NoOption
    Choices = 3
    Pinned = {tmp, wind}
    None = None
    SavedChanges = 3
    Loads = 2
    Pointers = {mouse, finger}
    Mouse = mouse
    Counts = {1, 3}
    MinFps = 1
    MaxFps = 2
    Presses = 1
CHECK_DEADLOCK FALSE
INVARIANTS
    AppliedIsShown
    PageTypeOK
    UnmountContract
    BoundariesFollowData
    ToastsAreTimed
    CrashIsCurrent
    ChartsMatchSeries
    OptionsBelongToProduct
    PreviewEnds
PROPERTIES
    PendingDrains
    PageShowsNewPosition
    ReadoutIsLatest
    PanelsAreLatest
    FieldCatchesUp
    AnnouncedOnce
    PageFollowsServer
    OnlyTogglesChangeFavorites
