------------------------------ MODULE Reading -------------------------------
(* What a reader leaves behind and gets back (app/main.py): saved stories and  *)
(* their pages, read events with the affinity they feed                        *)
(* (services/affinity.py), and game sessions with their streaks.               *)
EXTENDS Integers, FiniteSets, FiniteSetsExt

CONSTANTS
    Story, Event, Delivery,   \* stories, views of a story, requests that report one
    PageSize,                 \* limit of list_saved_stories
    Today, Game,              \* the day, counted from the first; game types
    MaxSaved                  \* bound: rows of saved_stories

ASSUME ReadingAssumption == PageSize \in Nat \ {0} /\ 0 \notin Event /\ Today \in Nat \ {0}

VARIABLES
    saved,      \* saved_stories: id and story
    lastSaved,  \* the last id given
    pages,      \* a client that pages through them: cursor, whether there is more
    listed,     \* how often the pages so far showed each story
    kept,       \* history: stories that were saved all along since the first page
    event,      \* read_events, by event: dwell_ms given or not
    affinity,   \* engagements counted in user_entity_affinity; 0: no row
    delivery,   \* what each report is in the middle of
    reported,   \* history: events closed; those reported closed again; overlap
    session,    \* game_sessions, by game and day
    stats       \* streaks last answered

savedVars == <<saved, lastSaved, pages, listed, kept>>
eventVars == <<event, affinity, delivery, reported>>
gameVars == <<session, stats>>
readingVars == <<saved, lastSaved, pages, listed, kept, event, affinity, delivery, reported,
                 session, stats>>

Unread == [open |-> FALSE, closed |-> FALSE]
NoReport == [event |-> 0, seen |-> 0]

SavedInit ==
    /\ saved = {} /\ lastSaved = 0 /\ kept = {}
    /\ pages = [cursor |-> 0, state |-> "none"] /\ listed = [s \in Story |-> 0]

EventInit ==
    /\ event = [e \in Event |-> Unread] /\ affinity = 0
    /\ delivery = [d \in Delivery |-> NoReport]
    /\ reported = [closed |-> {}, again |-> FALSE, mixed |-> FALSE]

\* With the days on which one kind of game was completed.
GameInit(game, days) ==
    /\ session = [g \in Game |-> [d \in 0 .. Today |->
                     IF g = game /\ d \in days THEN "completed" ELSE "none"]]
    /\ stats = [current |-> 0, longest |-> 0, of |-> {}]

-----------------------------------------------------------------------------
(* save_story, unsave_story and list_saved_stories.                            *)

Save(s) ==
    /\ lastSaved < MaxSaved
    /\ lastSaved' = lastSaved + 1
    /\ saved' = IF \E x \in saved : x.story = s THEN saved
                ELSE saved \cup {[id |-> lastSaved + 1, story |-> s]}
    /\ UNCHANGED <<pages, listed, kept, eventVars, gameVars>>

Unsave(s) ==
    /\ saved' = {x \in saved : x.story # s}
    /\ kept' = kept \ {s}
    /\ UNCHANGED <<lastSaved, pages, listed, eventVars, gameVars>>

Newest(rows, n) == {x \in rows : Cardinality({y \in rows : y.id > x.id}) < n}

\* Mutant of RowsAfter: as many as are shown.
RowsAfterShort(cursor) ==
    Newest(IF cursor = 0 THEN saved ELSE {x \in saved : x.id < cursor}, PageSize)

\* One more than a page, the newest first, below the cursor.
RowsAfter(cursor) ==
    Newest(IF cursor = 0 THEN saved ELSE {x \in saved : x.id < cursor}, PageSize + 1)

\* A client asks for the first page, then for the next while there is more.
ListSaved ==
    LET rows  == RowsAfter(pages.cursor)
        items == Newest(rows, PageSize)
        more  == Cardinality(rows) > PageSize
    IN  /\ pages.state # "end"
        /\ pages' = [cursor |-> IF more THEN Min({x.id : x \in items}) ELSE 0,
                     state |-> IF more THEN "more" ELSE "end"]
        /\ listed' = [s \in Story |-> listed[s] + Cardinality({x \in items : x.story = s})]
        /\ kept' = IF pages.state = "none" THEN {x.story : x \in saved} ELSE kept
        /\ UNCHANGED <<saved, lastSaved, eventVars, gameVars>>

\* No story is shown twice, and one that was saved all along is shown, whatever
\* is saved and unsaved between two pages (app/main.py:3929-3941).
PagesShowEachOnce ==
    /\ \A s \in Story : listed[s] <= 1
    /\ pages.state = "end" => \A s \in kept : listed[s] = 1

-----------------------------------------------------------------------------
(* record_read_event: the row of the view is written and, if the report closes *)
(* a read, the affinity read; both are committed together.  The row of a view  *)
(* is locked until then.                                                       *)

Engages(closing, type) == closing /\ type = "read"

Report(d, e, closing, type) ==
    /\ delivery[d] = NoReport /\ \A x \in Delivery : delivery[x].event # e
    /\ delivery' = [delivery EXCEPT ![d] =
           [event |-> e, closing |-> closing, engages |-> Engages(closing, type), seen |-> affinity]]
    /\ reported' = [reported EXCEPT
           !.closed = IF closing /\ type = "read" THEN @ \cup {e} ELSE @,
           !.again = @ \/ (closing /\ e \in reported.closed),
           !.mixed = @ \/ (Engages(closing, type)
                           /\ \E x \in Delivery : delivery[x] # NoReport /\ delivery[x].engages)]
    /\ UNCHANGED <<event, affinity, savedVars, gameVars>>

\* record_engagement writes one more than it read.
Counted(q) == IF q.engages THEN q.seen + 1 ELSE affinity

\* The first row of an entity that another report has written by now fails the
\* whole report.
Commit(d) ==
    LET q == delivery[d]
        fails == q.engages /\ q.seen = 0 /\ affinity # 0
    IN  /\ q # NoReport
        /\ event' = IF fails THEN event
                    ELSE [event EXCEPT ![q.event] = [open |-> TRUE, closed |-> q.closing]]
        /\ affinity' = IF fails THEN affinity ELSE Counted(q)
        /\ delivery' = [delivery EXCEPT ![d] = NoReport]
        /\ UNCHANGED <<reported, savedVars, gameVars>>

\* The request is lost before its commit.
Lost(d) ==
    /\ delivery[d] # NoReport
    /\ delivery' = [delivery EXCEPT ![d] = NoReport]
    /\ reported' = [reported EXCEPT
           !.closed = IF delivery[d].engages THEN @ \ {delivery[d].event} ELSE @]
    /\ UNCHANGED <<event, affinity, savedVars, gameVars>>

\* Each closed read has its row and counts once in the affinity, unless its report came twice
\* or two reports of one reader overlapped (app/main.py:3579-3610,
\* services/affinity.py:68-93).
AffinityCountsReads ==
    (\A d \in Delivery : delivery[d] = NoReport) /\ ~reported.again /\ ~reported.mixed
        => /\ affinity = Cardinality(reported.closed)
           /\ \A e \in reported.closed : event[e].open

-----------------------------------------------------------------------------
(* start_game_session, complete_game_session and get_game_stats.               *)

StartGame(g, d) ==
    /\ session' = [session EXCEPT ![g][d] = IF @ = "none" THEN "started" ELSE @]
    /\ UNCHANGED <<stats, savedVars, eventVars>>

CompleteGame(g, d) ==
    /\ session' = [session EXCEPT ![g][d] = "completed"]
    /\ UNCHANGED <<stats, savedVars, eventVars>>

Completed == {d \in 0 .. Today : \E g \in Game : session[g][d] = "completed"}

\* The loop over the sorted days: each one's place in its run.
Run[d \in 0 .. Today] ==
    [days \in SUBSET (0 .. Today) |->
        IF d \notin days THEN 0 ELSE IF d = 0 THEN 1 ELSE Run[d - 1][days] + 1]

\* _compute_streaks: the current run ends today, or yesterday if there is none
\* today yet.
Streaks(days) ==
    [current |-> Run[IF Today \in days THEN Today ELSE Today - 1][days],
     longest |-> Max({Run[d][days] : d \in 0 .. Today}), of |-> days]

GetGameStats ==
    /\ stats' = Streaks(Completed)
    /\ UNCHANGED <<session, savedVars, eventVars>>

Runs(days) == {r \in (0 .. Today) \X (0 .. Today) : r[1] <= r[2] /\ r[1] .. r[2] \subseteq days}
Length(r) == r[2] - r[1] + 1

\* The longest of some runs, and the runs of days that are still going on.
Most(rs) == IF rs = {} THEN 0 ELSE Max({Length(r) : r \in rs})
Late(days) == {r \in Runs(days) : r[2] = Today \/ (r[2] = Today - 1 /\ Today \notin days)}

\* The streaks answered are the longest run of completed days, and the longest
\* that reaches today or, on a day without one yet, yesterday
\* (app/main.py:3389-3412).
StreaksAreRuns ==
    stats.longest = Most(Runs(stats.of)) /\ stats.current = Most(Late(stats.of))

\* What readers did is what is counted and listed of it.
HistoryIsCounted == PagesShowEachOnce /\ AffinityCountsReads /\ StreaksAreRuns

-----------------------------------------------------------------------------
(* Everything at once.                                                         *)

Saves == ListSaved \/ \E s \in Story : Save(s) \/ Unsave(s)
Reports ==
    \E d \in Delivery :
        \/ \E e \in Event, closing \in BOOLEAN, type \in {"read", "framing_view"} :
             Report(d, e, closing, type)
        \/ Commit(d) \/ Lost(d)
Plays == GetGameStats \/ \E g \in Game, d \in 0 .. Today : StartGame(g, d) \/ CompleteGame(g, d)

ReadingSpec ==
    /\ SavedInit /\ EventInit
    /\ \E g \in Game, days \in SUBSET (0 .. Today) : GameInit(g, days)
    /\ [][Saves \/ Reports \/ Plays]_readingVars

=============================================================================
