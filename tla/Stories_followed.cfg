SPECIFICATION MCSpec
CONSTANTS
    Source <- Feeds
    Article <- Entries
    SourceOf <- Outlets
    Url <- Links
    Title <- Titles
    Words <- Tokens
    Published <- Dates
    Undated = Undated
    Region <- Regions
    Nowhere = Nowhere
    MinShared = 3
    MatchWindow = 1
    MaxStoryAge = 2
    MaxArticleAge = 2
    MaxArticles = 3
    MaxCandidates = 1
    MinOutlets = 2
    MaxStories = 3
    LastHour = 2
    User = {u1}
    Cluster = {c1}
    Bullet = {b1, b2}
    Gap = 2
    Cap = 1
    Quiet = 2
    Lookback = 3
    DayLen = 4
    LastTick = 4
    MaxOutlets = 3
    Summary <- MCSummary
    MaxDev = 2
INVARIANTS NothingIsSkipped PushRules FollowsAreSeeded
PROPERTIES StoriesAreSound IngestsAsThePipeline EndedWasQuiet
SYMMETRY Symmetry
