SPECIFICATION MCSpec
CONSTANTS
    Reader = {u1}
    c1 = c1
    Cluster = {c1, c2}
    Candidates = 1
    Lookback = 1
    p1 = p1
    p2 = p2
    Summary <- Summaries
    UpdateRun = {r1, r2}
    Gap = 1
    DailyLimit = 2
    DayTicks = 2
    MaxNow = 3
    MaxEdits = 2
    MaxArticle = 2
    MaxDevs = 3
    MaxFollows = 2
    Member = {m1}
    ReadyRun = {r1, r2}
    Asker = {a1, a2}
    DayLength = 3
    Shift = 1
    BriefFrom <- From
    StarsFrom = 1
    StarsUntil = 2
    RemindFrom = 1
    RemindUntil = 3
    TrialDays = 1
    EndTick = 4
    User = {u2}
    Device = {d1}
    Story = {s1, s2, s3}
    Run = {x1, x2}
    Client = {q1}
    Nobody = Nobody
    Slot = {0}
    Cap = 1
    Window = 1
    DayLen = 7
    Spacing = 3
    LastTick = 8
    MaxRow = 1
INVARIANTS ServedOnce CapUpToOverlap FollowersHearNews
PROPERTY ReadyAlertsAreDue
CHECK_DEADLOCK FALSE
