SPECIFICATION LiveSpec
CONSTANTS
    Story <- TwoStories
    Outlet = {o1, o2}
    BatchId = {b1}
    ByHand <- OneStory
    MinSources = 2
    RunLimit = 1
    MaxArticles = 2
    MaxCrashes = 1
PROPERTY WorkIsFinished
