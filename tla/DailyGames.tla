------------------------------ MODULE DailyGames ------------------------------
(***************************************************************************)
(* The word games and the quiz of one day: their first generation by a     *)
(* request or the scheduler (services/daily_games.py), the quiz desk       *)
(* (app/quiz_admin.py), the bank behind it (app/quiz_bank_admin.py) and    *)
(* the script that regenerates a quiz (scripts/force_daily_games_regen.py).*)
(*                                                                         *)
(* A request holds an advisory lock of the day until its transaction ends; *)
(* drawing from the bank commits, which ends it early.  The desk and the   *)
(* script take no lock.  SQLAlchemy writes only the columns that changed   *)
(* with respect to the row that was read.  A draw selects its questions    *)
(* and commits their use later: draws of two parties overlap as they like. *)
(***************************************************************************)
EXTENDS Integers, FiniteSets

CONSTANTS
    Caller, Editor, Question,
    DrawSize,   \* 5: questions of a quiz
    MaxDrafts,  \* bound: quizzes written by the model
    MaxDraws,   \* bound: selections and commits before the last selection
    MaxRows     \* bound: rows the day's quiz has had

VARIABLES
    games,      \* the day's bee, ladder and wordle exist
    quiz,       \* the row of daily_quizzes for the day
    bank,       \* quiz_bank_questions: last_used_at, in steps of draws
    pick,       \* what each party has selected and not committed
    lock,       \* the day's advisory lock
    req, ed, script,    \* what each of them is in the middle of
    page,       \* the questions on each editor's page
    drafts, draws, rowsMade,    \* draws counts selections and commits: the bank's clock
    drawn,      \* history: the draws that were committed
    vetted,     \* history: texts an editor has approved
    forced,     \* history: texts the script has put in place
    crossed,    \* history: somebody wrote between a read and the write of an editor
    unlocked,   \* history: a quiz was written, or about to be, without the lock
    refused     \* history: a request failed on a row that exists

bankVars == <<bank, pick, draws, drawn>>
gvars == <<games, quiz, bankVars, lock, req, ed, script, page, drafts, rowsMade, vetted, forced, crossed, unlocked, refused>>

\* Text 0 is known to be safe: the bank, the curated sets, an editor's own
\* words.  Any other number is a quiz of the model.
Text == 0 .. MaxDrafts
Source == {"ai", "bank", "curated"}
NoQuiz == [id |-> 0, text |-> 0, status |-> "none"]
Nobody == "nobody"
ASSUME GamesAssumption == Nobody \notin Caller /\ MaxDrafts \in Nat
Script == "script"
Party == Caller \cup Editor \cup {Script}
Idle == [pc |-> "off", games |-> FALSE]
Away == [pc |-> "off", row |-> NoQuiz, text |-> 0]

\* A question of the bank: used is 0 for last_used_at NULL; since when it is
\* active is history.  The id of a deleted question is not used again.
Unlisted == [row |-> "none", active |-> FALSE, used |-> 0, since |-> 0]
Fresh == [Unlisted EXCEPT !.row = "there", !.active = TRUE]
Deleted == [Unlisted EXCEPT !.row = "deleted"]
There(q) == bank[q].row = "there"

NoPick == [what |-> {}, at |-> 0]

GamesInit ==
    /\ games = FALSE /\ quiz = NoQuiz
    /\ bank \in [Question -> {Unlisted, Fresh}]
    /\ lock = Nobody
    /\ req = [r \in Caller |-> Idle]
    /\ ed = [e \in Editor |-> Away]
    /\ script = Away
    /\ page = [e \in Editor |-> -1]
    /\ drafts = 0 /\ draws = 0 /\ rowsMade = 0
    /\ pick = [w \in Party |-> NoPick] /\ drawn = {}
    /\ vetted = {0} /\ forced = {}
    /\ crossed = FALSE /\ unlocked = FALSE /\ refused = FALSE

-----------------------------------------------------------------------------
(* generate_quiz: the model, else five questions of the bank, else the     *)
(* curated set of the day.                                                 *)

Active == {q \in Question : bank[q].active}

\* Least recently used first, never used before all others.
Order(p, q) == bank[p].used <= bank[q].used

Draws == {s \in SUBSET Active : Cardinality(s) = DrawSize /\ \A p \in s, q \in Active \ s : Order(p, q)}

\* bank_quiz_questions selects them ...
Select(w) ==
    /\ draws < MaxDraws
    /\ \E s \in Draws : pick' = [pick EXCEPT ![w] = [what |-> s, at |-> draws + 1]]
    /\ draws' = draws + 1
    /\ UNCHANGED <<bank, drawn>>

\* ... dates their use by the selection, and commits.  One that has been
\* deleted meanwhile is passed over: no row counts come back of an UPDATE of
\* several rows.
EndDraw(w) ==
    /\ bank' = [q \in Question |-> IF q \in pick[w].what /\ There(q)
                                    THEN [bank[q] EXCEPT !.used = pick[w].at] ELSE bank[q]]
    /\ drawn' = drawn \cup {[what |-> pick[w].what, at |-> pick[w].at, done |-> draws + 1]}
    /\ draws' = draws + 1
    /\ pick' = [pick EXCEPT ![w] = NoPick]

\* The quiz generated from src, which is not the bank, has text t.
Generated(src, t) ==
    IF src = "ai" THEN /\ drafts < MaxDrafts
                       /\ drafts' = drafts + 1 /\ t = drafts + 1
    ELSE t = 0 /\ Cardinality(Active) < DrawSize /\ UNCHANGED drafts

\* Mutant of FirstStatus: approved, as the column's default is.
FirstStatusDefault(src) == "approved"

\* Only what the model wrote waits for an editor.
FirstStatus(src) == IF src = "ai" THEN "draft" ELSE "approved"

Store(text, status) ==
    /\ rowsMade < MaxRows
    /\ rowsMade' = rowsMade + 1
    /\ quiz' = [id |-> rowsMade + 1, text |-> text, status |-> status]

-----------------------------------------------------------------------------
(* get_or_create_daily_games.                                              *)

MayEnter == lock = Nobody

Enter(r) ==
    /\ req[r].pc = "off" /\ MayEnter
    /\ ~games \/ quiz = NoQuiz
    /\ IF quiz = NoQuiz
       THEN /\ req' = [req EXCEPT ![r] = [pc |-> "quiz", games |-> ~games]]
            /\ lock' = r /\ UNCHANGED games
       ELSE games' = TRUE /\ UNCHANGED <<req, lock>>
    /\ UNCHANGED <<quiz, bankVars, ed, script, page, drafts, rowsMade, vetted, forced, crossed, unlocked, refused>>

\* puzzle_date is unique in every table: what was missing must still be.
Taken(r) == quiz # NoQuiz \/ (req[r].games /\ games)

Unlock(r) == IF lock = r THEN Nobody ELSE lock

\* Everything the request added is committed, or nothing.
CommitAll(r, text, status) ==
    /\ IF Taken(r)
       THEN refused' = TRUE /\ UNCHANGED <<games, quiz, rowsMade>>
       ELSE games' = TRUE /\ Store(text, status) /\ UNCHANGED refused
    /\ lock' = Unlock(r)
    /\ req' = [req EXCEPT ![r] = Idle]

Generate(r, src) ==
    /\ req[r].pc = "quiz" /\ src # "bank"
    /\ \E t \in Text : Generated(src, t) /\ CommitAll(r, t, FirstStatus(src))
    /\ UNCHANGED <<bankVars, ed, script, page, vetted, forced, crossed, unlocked>>

SelectFromBank(r) ==
    /\ req[r].pc = "quiz"
    /\ Select(r)
    /\ req' = [req EXCEPT ![r].pc = "draw"]
    /\ UNCHANGED <<games, quiz, lock, ed, script, page, drafts, rowsMade, vetted, forced, crossed, unlocked, refused>>

\* The bank's commit takes the other games with it and gives up the lock;
\* the quiz is still to be inserted.
GenerateFromBank(r) ==
    /\ req[r].pc = "draw"
    /\ lock' = Unlock(r)
    /\ IF req[r].games /\ games
       THEN /\ refused' = TRUE /\ req' = [req EXCEPT ![r] = Idle]
            /\ pick' = [pick EXCEPT ![r] = NoPick]
            /\ UNCHANGED <<games, unlocked, bank, draws, drawn>>
       ELSE /\ EndDraw(r)
            /\ games' = TRUE /\ unlocked' = TRUE
            /\ req' = [req EXCEPT ![r] = [pc |-> "insert", games |-> FALSE]]
            /\ UNCHANGED refused
    /\ UNCHANGED <<quiz, ed, script, page, drafts, rowsMade, vetted, forced, crossed>>

InsertQuiz(r) ==
    /\ req[r].pc = "insert"
    /\ CommitAll(r, 0, FirstStatus("bank"))
    /\ UNCHANGED <<bankVars, ed, script, page, drafts, vetted, forced, crossed, unlocked>>

-----------------------------------------------------------------------------
(* The desk.  Each request reads the row, and writes it a moment later.    *)

today_quiz(e) ==
    /\ quiz # NoQuiz /\ page[e] # quiz.text
    /\ page' = [page EXCEPT ![e] = quiz.text]
    /\ UNCHANGED <<games, quiz, bankVars, lock, req, ed, script, drafts, rowsMade, vetted, forced, crossed, unlocked, refused>>

\* _redraft generates first and reads then.
Reading(e, text) ==
    /\ ed' = [ed EXCEPT ![e] = [pc |-> "redraft", row |-> quiz, text |-> text]]
    /\ unlocked' = (unlocked \/ quiz = NoQuiz)

StartRedraft(e, src) ==
    /\ ed[e].pc = "off" /\ src # "bank"
    /\ \E t \in Text : Generated(src, t) /\ Reading(e, t)
    /\ UNCHANGED <<games, quiz, bankVars, lock, req, script, page, rowsMade, vetted, forced, crossed, refused>>

SelectRedraft(e) ==
    /\ ed[e].pc = "off"
    /\ Select(e)
    /\ ed' = [ed EXCEPT ![e].pc = "draw"]
    /\ UNCHANGED <<games, quiz, lock, req, script, page, drafts, rowsMade, vetted, forced, crossed, unlocked, refused>>

DrawRedraft(e) ==
    /\ ed[e].pc = "draw"
    /\ EndDraw(e)
    /\ ed' = [ed EXCEPT ![e].pc = "read"]
    /\ UNCHANGED <<games, quiz, lock, req, script, page, drafts, rowsMade, vetted, forced, crossed, unlocked, refused>>

ReadRedraft(e) ==
    /\ ed[e].pc = "read"
    /\ Reading(e, 0)
    /\ UNCHANGED <<games, quiz, bankVars, lock, req, script, page, drafts, rowsMade, vetted, forced, crossed, refused>>

\* The script has deleted the row, and not committed: writes to it wait.
Deleting == script.pc # "off" /\ script.row # NoQuiz /\ quiz.id = script.row.id

Written(e) == crossed' = (crossed \/ quiz # ed[e].row)
Leave(e) == ed' = [ed EXCEPT ![e] = Away]

\* A status that was "draft" when it was read is not written.
FinishRedraft(e) ==
    LET m == ed[e] IN
    /\ m.pc = "redraft" /\ ~Deleting
    /\ IF m.row = NoQuiz
       THEN IF quiz = NoQuiz THEN Store(m.text, "draft") ELSE UNCHANGED <<quiz, rowsMade>>
       ELSE /\ quiz' = IF quiz.id # m.row.id THEN quiz
                       ELSE [quiz EXCEPT !.text = m.text,
                                         !.status = IF m.row.status = "draft" THEN @ ELSE "draft"]
            /\ UNCHANGED rowsMade
    /\ Written(e) /\ Leave(e)
    /\ UNCHANGED <<games, bankVars, lock, req, script, page, drafts, vetted, forced, unlocked, refused>>

\* approve and reject need a draft; an approval carries the questions on the
\* page, edited or not.
StartReview(e, op, text) ==
    /\ ed[e].pc = "off" /\ op \in {"approve", "reject"}
    /\ quiz.status = "draft"
    /\ text \in {page[e], 0} /\ text # -1
    /\ op = "reject" => text = 0
    /\ ed' = [ed EXCEPT ![e] = [pc |-> op, row |-> quiz, text |-> text]]
    /\ UNCHANGED <<games, quiz, bankVars, lock, req, script, page, drafts, rowsMade, vetted, forced, crossed, unlocked, refused>>

\* Questions equal to the ones that were read are not written.
FinishQuizApproval(e) ==
    LET m == ed[e] IN
    /\ m.pc = "approve" /\ ~Deleting
    /\ vetted' = vetted \cup {m.text}
    /\ quiz' = IF quiz.id # m.row.id THEN quiz
               ELSE [quiz EXCEPT !.text = IF m.text = m.row.text THEN @ ELSE m.text, !.status = "approved"]
    /\ Written(e) /\ Leave(e)
    /\ UNCHANGED <<games, bankVars, lock, req, script, page, drafts, rowsMade, forced, unlocked, refused>>

FinishQuizRejection(e) ==
    LET m == ed[e] IN
    /\ m.pc = "reject" /\ ~Deleting
    /\ quiz' = IF quiz.id # m.row.id THEN quiz ELSE [quiz EXCEPT !.status = "rejected"]
    /\ Written(e) /\ Leave(e)
    /\ UNCHANGED <<games, bankVars, lock, req, script, page, drafts, rowsMade, vetted, forced, unlocked, refused>>

-----------------------------------------------------------------------------
(* regen_quiz: the old row is deleted, a new one is generated, and its     *)
(* status is the column's default.                                         *)

StartRegen ==
    /\ script.pc = "off" /\ rowsMade < MaxRows
    /\ script' = [pc |-> "quiz", row |-> quiz, text |-> 0]
    /\ UNCHANGED <<games, quiz, bankVars, lock, req, ed, page, drafts, rowsMade, vetted, forced, crossed, unlocked, refused>>

\* All is one commit.
GenerateRegen(src) ==
    /\ script.pc = "quiz" /\ src # "bank"
    /\ \E t \in Text : Generated(src, t) /\ script' = [script EXCEPT !.pc = "insert", !.text = t]
    /\ unlocked' = TRUE
    /\ UNCHANGED <<games, quiz, bankVars, lock, req, ed, page, rowsMade, vetted, forced, crossed, refused>>

SelectRegen ==
    /\ script.pc = "quiz"
    /\ Select(Script)
    /\ script' = [script EXCEPT !.pc = "draw"]
    /\ UNCHANGED <<games, quiz, lock, req, ed, page, drafts, rowsMade, vetted, forced, crossed, unlocked, refused>>

\* The bank's commit makes the deletion visible.
DrawRegen ==
    /\ script.pc = "draw"
    /\ EndDraw(Script)
    /\ script' = [script EXCEPT !.pc = "insert"]
    /\ quiz' = IF Deleting THEN NoQuiz ELSE quiz
    /\ unlocked' = TRUE
    /\ UNCHANGED <<games, lock, req, ed, page, drafts, rowsMade, vetted, forced, crossed, refused>>

FinishRegen ==
    /\ script.pc = "insert"
    /\ script' = Away
    /\ IF quiz = NoQuiz \/ quiz.id = script.row.id
       THEN Store(script.text, "approved") /\ forced' = forced \cup {script.text}
       ELSE UNCHANGED <<quiz, rowsMade, forced>>
    /\ UNCHANGED <<games, bankVars, lock, req, ed, page, drafts, vetted, crossed, unlocked, refused>>

-----------------------------------------------------------------------------
(* The bank's desk: add, toggle, delete, and the same for many at once.    *)

SetBank(new) ==
    /\ bank' = new
    /\ UNCHANGED <<games, quiz, pick, draws, drawn, lock, req, ed, script, page, drafts, rowsMade,
                   vetted, forced, crossed, unlocked, refused>>

AddQuestion(q) ==
    bank[q].row = "none" /\ SetBank([bank EXCEPT ![q] = [Fresh EXCEPT !.since = draws]])

\* toggle and bulk.
SetActive(s, on) ==
    /\ \A q \in s : There(q) /\ bank[q].active # on
    /\ SetBank([q \in Question |-> IF q \in s THEN [bank[q] EXCEPT !.active = on, !.since = draws] ELSE bank[q]])

DeleteQuestions(s) ==
    /\ \A q \in s : There(q)
    /\ SetBank([q \in Question |-> IF q \in s THEN Deleted ELSE bank[q]])

GamesNext ==
    \/ \E r \in Caller : \/ Enter(r) \/ SelectFromBank(r) \/ GenerateFromBank(r) \/ InsertQuiz(r)
                          \/ \E src \in Source : Generate(r, src)
    \/ \E e \in Editor : \/ today_quiz(e) \/ FinishRedraft(e) \/ FinishQuizApproval(e) \/ FinishQuizRejection(e)
                         \/ SelectRedraft(e) \/ DrawRedraft(e) \/ ReadRedraft(e)
                         \/ \E src \in Source : StartRedraft(e, src)
                         \/ \E op \in {"approve", "reject"}, t \in Text : StartReview(e, op, t)
    \/ StartRegen \/ SelectRegen \/ DrawRegen \/ FinishRegen \/ \E src \in Source : GenerateRegen(src)
    \/ \E q \in Question : AddQuestion(q)
    \/ \E s \in SUBSET Question \ {{}} : DeleteQuestions(s) \/ \E on \in BOOLEAN : SetActive(s, on)

GamesSpec == GamesInit /\ [][GamesNext]_gvars

-----------------------------------------------------------------------------
(* What daily_quiz answers, and properties.                                *)

\* Whatever is not approved is replaced by the curated set of the day.
Served == IF quiz.status = "approved" THEN quiz.text ELSE 0

\* Readers are served what a person answers for: an editor approved it, or
\* it is from the bank or the curated sets.  Two ways around that exist: the
\* script, and an editor whose write crossed another one's.
ServedIsVetted == Served \in vetted \cup forced \/ crossed

\* A request fails on the unique date only if somebody has written a quiz
\* without the lock: the bank's commit, the desk or the script.
LockSparesRequests == refused => unlocked

\* The bank rotates: while an active question waits for its first use, no
\* other is drawn a second time (bank_quiz_questions), except by draws that
\* overlap: the second one selected before the first one committed.
Waits(p) == bank[p].active /\ bank[p].used = 0

NoQuestionWaits ==
    \A p \in Question : Waits(p) =>
        \A c, d \in drawn : c.what \cap d.what # {} /\ d.at > bank[p].since => d.at < c.done

\* The quiz of a day: vetted, from a bank that rotates, and made without
\* failing a request that waited for the lock.
QuizIsVetted == ServedIsVetted /\ LockSparesRequests /\ NoQuestionWaits
=============================================================================
