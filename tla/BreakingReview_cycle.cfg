SPECIFICATION MCSpec
CONSTANTS
    Cluster = {c1, c2}
    Admin = {a1, a2}
    OneStory = c1
    OneAdmin = a1
    MaxActive = 1
    MinSources = 1
    Delta = 1
    ReviewHours = 0
    StaleHours = 0
    AbsoluteHours = 1
    MaxSources = 3
    MaxReviews = 2
    MaxCalls = 3
INVARIANTS BudgetUnlessOvertaken CardsAndReviews
PROPERTIES CoverageMovesOn SlotIsGivenBack
