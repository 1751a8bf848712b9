SPECIFICATION Spec
CONSTANTS
    Request = {r1, r2}
    Worker = {w1, w2}
    Token = {t1, t2}
    Item = {1, 2}
    Ttl = 1
    MaxEntries = 1
    Limit = 1
    LastTick = 2
    MaxId = 1
    Story = {1, 2, 3, 4}
    Event = {1, 2}
    Delivery = {1, 2}
    PageSize = 2
    Today = 6
    Game = {"sudoku", "quiz"}
    MaxSaved = 6
    Payment = {1, 2}
    Hook = {1, 2}
    NoDonor = NoDonor
    MaxLag = 8
    Cluster = {1, 2, 3}
    Score = {1, 2}
    PageLimit = 1
    Boost = 4
    YouPages = 2
    Caller = {u1, u2}
    MinExposures = 2
    MaxMoves = 2
    Null = Null
    NoRow = NoRow
    Articles = {1, 2, 3}
    Topic <- TopicOf
    Outlet <- OutletOf
    Least = 2
    LogRow = {1, 2, 3}
    Date = {1, 2}
    Word = {"a", "b"}
    NewId = {1, 2, 3}
INVARIANTS AccountIsWhole StaleTokenLapses HistoryIsCounted PaidIsKept PagesAreSound OneReaderIsNotEnough MigrationsKeepData
PROPERTY StoriesStayTrue
CHECK_DEADLOCK FALSE
