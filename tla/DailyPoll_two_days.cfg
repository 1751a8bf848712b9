SPECIFICATION FairSpec
CONSTANTS
    Reviewer = {a1, a2}
    Publisher = {p1, p2}
    Voter = {v1}
    LastDay = 2
PROPERTIES LivePollIsReviewed TodayHasPoll
