SPECIFICATION MCSpec
CONSTANTS
    Run = {r1, r2}
    NoRun = NoRun
    TTL = 6
    HB = 2
    Lag = 1
    MaxFails = 1
    Story <- OneStory
    Outlet = {o1, o2, o3}
    BatchId = {b1, b2}
    ByHand <- OneStory
    MinSources = 2
    RunLimit = 1
    MaxArticles = 2
    MaxCrashes = 1
INVARIANTS MutualExclusion CountIsOutlets
PROPERTIES ImplementsSingleton ComparisonIsSound
SYMMETRY Symmetry
