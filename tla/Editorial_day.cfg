SPECIFICATION MCSpec
CONSTANTS
    Task = {t1, t2}
    Admin = {a1}
    Reader = {r1}
    Section = {s1, s2}
    Cluster = {x1}
    MaxAnswers = 2
    MaxRewrites = 1
    Build = {b1, b2}
    BriefReader = {p1}
    LastDay = 2
    MaxBuilds = 2
    Core <- CoreOfTwo
    Fallback <- FallbackOfOne
    Tag = {e1, e2}
    MaxStories = 3
    MostCovered = 1
    MaxSlots = 3
    Generation = {g1}
    Narrator = {n1}
    Slots = 2
    ScanCap = 2
    Newest = 4
    Chains <- AllWeeks
    MaxTexts = 2
    MaxFeatures = 2
    Chained = {c1, c2, c3, c4}
    Key = {k1, k2, k3}
    MinPostings = 3
    MinOverlap = 15
    Subsumption = 90
INVARIANTS PublishedWasReviewed ExplainerHoldsTogether ChainsAreStories
PROPERTIES BriefIsRight TimelinesAreOfTheRun
SYMMETRY Symmetry
CHECK_DEADLOCK FALSE
