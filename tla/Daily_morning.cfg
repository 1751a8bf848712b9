SPECIFICATION MCSpec
CONSTANTS
    Caller = {q1, q2}
    Editor = {e1, e2}
    Question = {b1, b2}
    DrawSize = 1
    MaxDrafts = 2
    MaxDraws = 3
    MaxRows = 2
    Visit = {v1, v2}
    Process = {a1, a2}
    w1 = w1
    w2 = w2
    w3 = w3
    Word = {w1, w2, w3}
    KeyOf <- Keys
    FallbackDays = 1
    Cooldown = 2
    DayTicks = 2
    LastTick = 3
    MaxGrids = 3
    Size = 6
    Bank <- PackedWords
    Hidden <- HiddenWords
    LadderWords <- Rungs
    MaxPlaced = 5
    Box = 2
    MinGivens = 12
INVARIANTS QuizIsVetted PuzzlesAreSolvable
PROPERTY DayHasItsOwn
SYMMETRY Symmetry
CHECK_DEADLOCK FALSE
