---------------------------- MODULE DailyFeatures ----------------------------
(***************************************************************************)
(* What readers find every morning beside the word games: the crossword,   *)
(* the sudoku and the word search (services/crossword.py, sudoku.py,       *)
(* word_search.py), the word and quote of the day                          *)
(* (services/editorial_features.py, editorial_backgrounds.py) and the      *)
(* horoscope (services/horoscope.py).  The first who asks generates the    *)
(* row: a reader's request, or scripts/run_crossword_scheduler.py.         *)
(*                                                                         *)
(* Each get_or_create looks, waits for an advisory lock that lasts as long *)
(* as its transaction, looks again, generates and inserts.  A row that a   *)
(* session has read stays as it was read when it is selected again         *)
(* (identity map), and only columns that differ from it are written.       *)
(* Services outside answer or do not, as they like.                        *)
(***************************************************************************)
EXTENDS Integers, FiniteSets

CONSTANTS
    Visit,       \* requests and scheduler runs
    Process,     \* processes: each has its own cooldowns
    Word, KeyOf, \* words, and the first letters they are told apart by
    FallbackDays,   \* MAX_FALLBACK_DAYS
    Cooldown,       \* _PROVIDER_COOLDOWN_SECONDS
    DayTicks,
    LastTick,    \* bound: clock
    MaxGrids     \* bound: grids from APIVerve

ASSUME FeaturesAssumption ==
    DayTicks \in Nat \ {0} /\ {FallbackDays, Cooldown, LastTick} \subseteq Nat

VARIABLES
    clock,
    puzzle,     \* daily_crosswords, daily_sudokus, daily_word_searches, one day
    feature,    \* daily_editorial_features, by day
    stars,      \* days with a row in daily_horoscopes, for one sign
    cool,       \* _cooldown_until, by process and day
    visit,      \* what each visit is in the middle of
    grids,
    clash,      \* history: an insert failed on a date that was taken
    side,       \* history: words were chosen for two days at the same time
    dry,        \* history: no unused word was left
    served      \* what readers were served last: the day asked for, the day of the row

fvars == <<clock, puzzle, feature, stars, cool, visit, grids, clash, side, dry, served>>

Puzzle == {"crossword", "sudoku", "word_search"}
FDays == 1 .. (LastTick \div DayTicks) + 1
Today == (clock \div DayTicks) + 1
NoPuzzle == [source |-> "none", grid |-> 0]
NoFeature == [word |-> "none", quote |-> "none", picture |-> FALSE]
NoVisit == [pc |-> "off"]

FeaturesInit ==
    /\ clock = 0
    /\ puzzle = [k \in Puzzle |-> NoPuzzle]
    /\ feature = [d \in FDays |-> NoFeature]
    /\ stars \in SUBSET {0, 1 - FallbackDays, -FallbackDays}
    /\ cool = [p \in Process |-> [d \in FDays |-> 0]]
    /\ visit = [v \in Visit |-> NoVisit]
    /\ grids = 0
    /\ clash = FALSE /\ side = FALSE /\ dry = FALSE
    /\ served = [asked |-> 0, row |-> 0]

FTick ==
    /\ clock < LastTick
    /\ clock' = clock + 1
    /\ UNCHANGED <<puzzle, feature, stars, cool, visit, grids, clash, side, dry, served>>

Goes(v, m) == visit' = [visit EXCEPT ![v] = m]

\* A visit at work on something holds its advisory lock.
Locked(pc, x) == \E v \in Visit : visit[v].pc = pc /\ visit[v].on = x

-----------------------------------------------------------------------------
(* get_or_create_puzzle, get_or_create_sudoku, get_or_create_word_search.  *)

\* Only the crossword is ever made again, and only an algorithmic one.
GoodEnough(row, up) == row # NoPuzzle /\ (~up \/ row.source # "algorithmic")

\* Only the backup run of the scheduler asks for an upgrade, of the crossword
\* alone; it looks at all features of the day in turn (ensure).
MayUpgrade(k) == k = "crossword"

AskPuzzle(v, k, up) ==
    /\ visit[v] = NoVisit
    /\ up => MayUpgrade(k)
    /\ ~GoodEnough(puzzle[k], up)
    /\ Goes(v, [pc |-> "puzzle", on |-> k, up |-> up, row |-> puzzle[k]])
    /\ UNCHANGED <<clock, puzzle, feature, stars, cool, grids, clash, side, dry, served>>

\* Mutant of Reread: the row is not looked for again.
RereadNot(m) == m.row

\* The second look finds a new row, but not the changes of one already read.
Reread(m) == IF m.row = NoPuzzle THEN puzzle[m.on] ELSE m.row

LockPuzzle(v) ==
    LET m == visit[v] IN
    /\ m.pc = "puzzle" /\ ~Locked("make", m.on)
    /\ IF GoodEnough(Reread(m), m.up)
       THEN Goes(v, NoVisit)
       ELSE Goes(v, [m EXCEPT !.pc = "make", !.row = Reread(m)])
    /\ UNCHANGED <<clock, puzzle, feature, stars, cool, grids, clash, side, dry, served>>

\* The algorithmic puzzle is a function of the date: made again it is the
\* same, and nothing is written.  Every one from APIVerve differs.
MakePuzzle(v, source) ==
    LET m == visit[v]
        made == [source |-> source, grid |-> IF source = "apiverve" THEN grids + 1 ELSE 0] IN
    /\ m.pc = "make"
    /\ source = "apiverve" => m.on = "crossword" /\ grids < MaxGrids
    /\ grids' = IF source = "apiverve" THEN grids + 1 ELSE grids
    /\ IF m.row # NoPuzzle
       THEN /\ puzzle' = IF made = m.row THEN puzzle ELSE [puzzle EXCEPT ![m.on] = made]
            /\ UNCHANGED clash
       ELSE /\ puzzle' = IF puzzle[m.on] = NoPuzzle THEN [puzzle EXCEPT ![m.on] = made] ELSE puzzle
            /\ clash' = (clash \/ puzzle[m.on] # NoPuzzle)
    /\ Goes(v, NoVisit)
    /\ UNCHANGED <<clock, feature, stars, cool, side, dry, served>>

-----------------------------------------------------------------------------
(* get_or_create_editorial, for a day readers may ask for.                 *)

\* The archive is longer than the model's days.
Playable(d) == d <= Today

AskFeature(v, d) ==
    /\ visit[v] = NoVisit /\ Playable(d)
    /\ feature[d] = NoFeature
    /\ Goes(v, [pc |-> "feature", on |-> d])
    /\ UNCHANGED <<clock, puzzle, feature, stars, cool, grids, clash, side, dry, served>>

\* _recent_words_and_authors: the words of all other days.
UsedKeys(d) == {KeyOf[feature[e].word] : e \in {x \in FDays \ {d} : feature[x] # NoFeature}}

LockFeature(v) ==
    LET d == visit[v].on IN
    /\ visit[v].pc = "feature" /\ ~Locked("compose", d)
    /\ IF feature[d] # NoFeature
       THEN Goes(v, NoVisit) /\ UNCHANGED side
       ELSE /\ Goes(v, [pc |-> "compose", on |-> d, used |-> UsedKeys(d)])
            /\ side' = (side \/ \E e \in FDays \ {d} : Locked("compose", e))
    /\ UNCHANGED <<clock, puzzle, feature, stars, cool, grids, clash, dry, served>>

Unused(m) == {w \in Word : KeyOf[w] \notin m.used}

\* The model's word or a curated one, both unused while there are any; the
\* quote from APIVerve, the model or the curated ones; a picture if the
\* bucket can be listed.  A unique index keeps a word from two days.
ComposeFeature(v, w, quote, picture) ==
    LET m == visit[v] IN
    /\ m.pc = "compose"
    /\ w \in Unused(m) \/ Unused(m) = {}
    /\ dry' = (dry \/ Unused(m) = {})
    /\ clash' = (clash \/ feature[m.on] # NoFeature)
    /\ feature' = IF feature[m.on] # NoFeature \/ \E d \in FDays : feature[d].word = w THEN feature
                  ELSE [feature EXCEPT ![m.on] = [word |-> w, quote |-> quote, picture |-> picture]]
    /\ Goes(v, NoVisit)
    /\ UNCHANGED <<clock, puzzle, stars, cool, grids, side, served>>

\* Wikimedia did not answer, or the process died: there is no row, and the
\* next visit begins anew.
GiveUp(v) ==
    /\ visit[v].pc \in {"make", "compose", "fetch"}
    /\ Goes(v, NoVisit)
    /\ UNCHANGED <<clock, puzzle, feature, stars, cool, grids, clash, side, dry, served>>

\* _ensure_background and retry_fallback_quote read the row, call a service
\* and write one column of it.
Improve(v, d, what) ==
    /\ visit[v] = NoVisit /\ feature[d] # NoFeature
    /\ IF what = "picture" THEN ~feature[d].picture ELSE feature[d].quote # "apiverve"
    /\ Goes(v, [pc |-> what, on |-> d, row |-> feature[d]])
    /\ UNCHANGED <<clock, puzzle, feature, stars, cool, grids, clash, side, dry, served>>

WithColumn(m, now) ==
    IF m.pc = "picture" THEN [now EXCEPT !.picture = TRUE] ELSE [now EXCEPT !.quote = "apiverve"]

Improved(v, answered) ==
    LET m == visit[v] IN
    /\ m.pc \in {"picture", "quote"}
    /\ feature' = IF answered THEN [feature EXCEPT ![m.on] = WithColumn(m, @)] ELSE feature
    /\ Goes(v, NoVisit)
    /\ UNCHANGED <<clock, puzzle, stars, cool, grids, clash, side, dry, served>>

-----------------------------------------------------------------------------
(* get_or_create_horoscope for one sign.  The nightly prewarm takes no     *)
(* fallback.                                                               *)

Recent(d) == {x \in stars : x <= d /\ x >= d - FallbackDays}

Latest(s) == CHOOSE x \in s : \A y \in s : y <= x
Serve(d, row) == served' = [asked |-> d, row |-> row]
Cooling(p, d) == cool[p][d] > clock

\* A reader is served a recent row while the provider cools down; otherwise
\* the visit waits for the lock.
AskStars(v, p, fallback) ==
    /\ visit[v] = NoVisit
    /\ Today \notin stars
    /\ IF fallback /\ Cooling(p, Today) /\ Recent(Today) # {}
       THEN Serve(Today, Latest(Recent(Today))) /\ UNCHANGED visit
       ELSE Goes(v, [pc |-> "stars", on |-> Today, proc |-> p, fallback |-> fallback]) /\ UNCHANGED served
    /\ UNCHANGED <<clock, puzzle, feature, stars, cool, grids, clash, side, dry>>

\* The cooldown is not looked at again after the wait.
LockStars(v) ==
    LET m == visit[v] IN
    /\ m.pc = "stars" /\ ~Locked("fetch", m.on)
    /\ IF m.on \in stars
       THEN Goes(v, NoVisit) /\ Serve(m.on, m.on)
       ELSE /\ Goes(v, [m EXCEPT !.pc = "fetch"])
            /\ UNCHANGED served
    /\ UNCHANGED <<clock, puzzle, feature, stars, cool, grids, clash, side, dry>>

FetchStars(v, answered) ==
    LET m == visit[v] IN
    /\ m.pc = "fetch"
    /\ IF answered
       THEN /\ stars' = stars \cup {m.on}
            /\ cool' = [cool EXCEPT ![m.proc][m.on] = 0]
            /\ Serve(m.on, m.on)
       ELSE /\ cool' = [cool EXCEPT ![m.proc][m.on] = clock + Cooldown]
            /\ IF m.fallback /\ Recent(m.on) # {} THEN Serve(m.on, Latest(Recent(m.on))) ELSE UNCHANGED served
            /\ UNCHANGED stars
    /\ Goes(v, NoVisit)
    /\ UNCHANGED <<clock, puzzle, feature, grids, clash, side, dry>>

\* A process ends, and its cooldowns with it.
Restart(p) ==
    /\ \E d \in FDays : Cooling(p, d)
    /\ cool' = [cool EXCEPT ![p] = [d \in FDays |-> 0]]
    /\ visit' = [v \in Visit |-> IF visit[v].pc \in {"stars", "fetch"} /\ visit[v].proc = p THEN NoVisit ELSE visit[v]]
    /\ UNCHANGED <<clock, puzzle, feature, stars, grids, clash, side, dry, served>>

FeaturesNext ==
    \/ FTick
    \/ \E p \in Process : Restart(p)
    \/ \E v \in Visit :
        \/ \E k \in Puzzle, up \in BOOLEAN : AskPuzzle(v, k, up)
        \/ LockPuzzle(v)
        \/ \E source \in {"apiverve", "algorithmic"} : MakePuzzle(v, source)
        \/ \E d \in FDays : AskFeature(v, d) \/ \E what \in {"picture", "quote"} : Improve(v, d, what)
        \/ LockFeature(v) \/ GiveUp(v)
        \/ \E w \in Word, quote \in {"apiverve", "ai"}, picture \in BOOLEAN : ComposeFeature(v, w, quote, picture)
        \/ \E answered \in BOOLEAN : Improved(v, answered) \/ FetchStars(v, answered)
        \/ \E p \in Process, fallback \in BOOLEAN : AskStars(v, p, fallback)
        \/ LockStars(v)

FeaturesSpec == FeaturesInit /\ [][FeaturesNext]_fvars

-----------------------------------------------------------------------------
(* Properties.                                                             *)

\* The second look under the lock is worth its wait: no first generation
\* ends on a date that another visit has taken.
NoDateTakenTwice == ~clash

\* Two days do not share a word's first letters, unless their words were
\* chosen at the same time (the locks are per day) or none was left.
WordsTellApart ==
    side \/ dry \/ \A d, e \in FDays :
        (d # e /\ feature[d] # NoFeature /\ feature[e] # NoFeature) => KeyOf[feature[d].word] # KeyOf[feature[e].word]

\* A horoscope served is of the day asked for or of the days before it that
\* MAX_FALLBACK_DAYS allows, never of a later one.
ServedIsRecent == served.row <= served.asked /\ served.row >= served.asked - FallbackDays

\* What a reader has been given only gets better: a puzzle changes from an
\* algorithmic crossword to one of APIVerve or between two of those, a quote
\* to one of APIVerve, a picture is added, and the word stays.
GivenOnlyImproves ==
    [][/\ \A k \in Puzzle : puzzle[k] # NoPuzzle =>
            puzzle'[k] = puzzle[k] \/ (k = "crossword" /\ puzzle'[k].source = "apiverve")
       /\ \A d \in FDays : feature[d] # NoFeature =>
            /\ feature'[d].word = feature[d].word
            /\ feature[d].quote = "apiverve" => feature'[d].quote = "apiverve"
            /\ feature[d].picture => feature'[d].picture]_fvars

\* Each day has its own features: one of each, a word of its own, stars of the
\* day or shortly before it, and none that gets worse.
DayHasItsOwn == [](NoDateTakenTwice /\ WordsTellApart /\ ServedIsRecent) /\ GivenOnlyImproves
=============================================================================
