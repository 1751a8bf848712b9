------------------------------ MODULE DailyPoll ------------------------------
(***************************************************************************)
(* The poll of the day: the AI draft of app/services/polls.py, its review  *)
(* in app/poll_admin.py, the publication at 09:00 by the poll scheduler or *)
(* by the first reader, and the votes (app/main.py).                       *)
(*                                                                         *)
(* Generating, approving and rejecting read the row, then do something     *)
(* else (three model calls at most, for a generation), then write it, with *)
(* no lock; only two publications of one day exclude each other.  A day    *)
(* has two halves, before and after 09:00, and nothing in flight lasts     *)
(* longer than a half.  The poll bank is never empty.                      *)
(***************************************************************************)
EXTENDS Integers, FiniteSets

CONSTANTS
    Reviewer,   \* admin sessions
    Publisher,  \* the scheduler's publish and the requests of readers
    Voter,
    LastDay     \* bound: days

ASSUME PollAssumption == LastDay \in Nat \ {0}

VARIABLES
    day, half,  \* the wall clock in Asia/Kolkata
    poll,       \* daily_polls with its options and votes, one row per day
    desk,       \* what each reviewer, and the drafting job, is in the middle of
    act,        \* what each publisher is in the middle of
    overrun     \* history: days on which a review and another request wrote
                \* over what the other had not read

vars == <<day, half, poll, desk, act, overrun>>

Day == 1 .. LastDay
Cron == "cron"
Desk == Reviewer \cup {Cron}

Status == {"none", "draft", "scheduled", "active", "closed", "rejected"}
Poll == [status: Status,
         text: {"none", "draft", "approved", "bank"},   \* who answers for question and options
         casting: SUBSET Voter,                         \* have read the options, not yet written
         votes: SUBSET Voter]
NoPoll == [status |-> "none", text |-> "none", casting |-> {}, votes |-> {}]

Free == [op |-> "none", day |-> 1, seen |-> "none", old |-> FALSE]
Busy(op) == [op |-> op, day |-> day, seen |-> poll[day].status, old |-> FALSE]

Init ==
    /\ day = 1 /\ half = "early"
    /\ poll = [d \in Day |-> NoPoll]
    /\ desk = [a \in Desk |-> Free]
    /\ act = [p \in Publisher |-> Free]
    /\ overrun = {}

-----------------------------------------------------------------------------
(* Replacing a poll's options deletes the votes for them (ON DELETE        *)
(* CASCADE), and a vote for an option that is gone cannot be written.      *)
Rewritten(r, text) == [r EXCEPT !.text = text, !.votes = {}, !.casting = {}]

\* A request that read status seen writes day d.
Overrun(d, seen) == IF poll[d].status = seen THEN overrun ELSE overrun \cup {d}

\* Mutant of StartGenerate: whatever there is can be regenerated.
StartGenerateAny(a, replace) ==
    /\ desk[a] = Free
    /\ a = Cron => ~replace /\ half = "early"
    /\ poll[day].status = "none" \/ replace
    /\ desk' = [desk EXCEPT ![a] = Busy("generate")]
    /\ UNCHANGED <<day, half, poll, act, overrun>>

\* generate_draft: an existing row is returned, or replaced if it is a draft.
StartGenerate(a, replace) ==
    /\ desk[a] = Free
    /\ a = Cron => ~replace /\ half = "early"
    /\ poll[day].status = "none" \/ (replace /\ poll[day].status = "draft")
    /\ desk' = [desk EXCEPT ![a] = Busy("generate")]
    /\ UNCHANGED <<day, half, poll, act, overrun>>

\* The model answered.  A new row needs the day to be free (poll_date is
\* unique); an existing one is rewritten and keeps the status it has by now.
FinishGenerate(a) ==
    LET d == desk[a].day IN
    /\ desk[a].op = "generate"
    /\ poll' = [poll EXCEPT ![d] =
           IF desk[a].seen # "none" THEN Rewritten(@, "draft")
           ELSE IF @.status = "none" THEN [NoPoll EXCEPT !.status = "draft", !.text = "draft"]
           ELSE @]
    /\ overrun' = IF desk[a].seen = "none" THEN overrun ELSE Overrun(d, desk[a].seen)
    /\ desk' = [desk EXCEPT ![a] = Free]
    /\ UNCHANGED <<day, half, act>>

\* Until 09:00 a draft can be approved, as edited by the reviewer ...
StartApprove(a) ==
    /\ desk[a] = Free /\ a # Cron
    /\ poll[day].status = "draft" /\ half = "early"
    /\ desk' = [desk EXCEPT ![a] = Busy("approve")]
    /\ UNCHANGED <<day, half, poll, act, overrun>>

FinishApprove(a) ==
    LET d == desk[a].day IN
    /\ desk[a].op = "approve"
    /\ poll' = [poll EXCEPT ![d] = [Rewritten(@, "approved") EXCEPT !.status = "scheduled"]]
    /\ overrun' = Overrun(d, desk[a].seen)
    /\ desk' = [desk EXCEPT ![a] = Free]
    /\ UNCHANGED <<day, half, act>>

\* ... and at any time rejected.
StartReject(a) ==
    /\ desk[a] = Free /\ a # Cron
    /\ poll[day].status = "draft"
    /\ desk' = [desk EXCEPT ![a] = Busy("reject")]
    /\ UNCHANGED <<day, half, poll, act, overrun>>

FinishReject(a) ==
    LET d == desk[a].day IN
    /\ desk[a].op = "reject"
    /\ poll' = [poll EXCEPT ![d].status = "rejected"]
    /\ overrun' = Overrun(d, desk[a].seen)
    /\ desk' = [desk EXCEPT ![a] = Free]
    /\ UNCHANGED <<day, half, act>>

\* The request fails or its process dies: its transaction is rolled back.
DropRequest(a) ==
    /\ desk[a] # Free
    /\ desk' = [desk EXCEPT ![a] = Free]
    /\ UNCHANGED <<day, half, poll, act, overrun>>

-----------------------------------------------------------------------------
(* activate_poll, under an advisory lock per day that ends with the        *)
(* transaction.  Publishers wait for it before they read.                  *)

Publishing(d) == \E p \in Publisher : act[p].op = "publish" /\ act[p].day = d

\* Mutant of StartPublish: a draft that nobody reviewed keeps its day.
StartPublishReviewed(p) ==
    /\ act[p] = Free /\ half = "late"
    /\ ~Publishing(day) /\ poll[day].status \notin {"active", "draft"}
    /\ act' = [act EXCEPT ![p] = Busy("publish")]
    /\ UNCHANGED <<day, half, poll, desk, overrun>>

StartPublish(p) ==
    /\ act[p] = Free /\ half = "late"
    /\ ~Publishing(day) /\ poll[day].status # "active"
    /\ act' = [act EXCEPT ![p] = Busy("publish")]
    /\ UNCHANGED <<day, half, poll, desk, overrun>>

\* What was scheduled goes live; anything else makes way for the poll bank.
\* Every other live poll is closed.
Published(d, seen) ==
    [e \in Day |->
        IF e # d
        THEN IF poll[e].status = "active" THEN [poll[e] EXCEPT !.status = "closed"] ELSE poll[e]
        ELSE IF seen = "scheduled" THEN [poll[d] EXCEPT !.status = "active"]
        ELSE [Rewritten(poll[d], "bank") EXCEPT !.status = "active"]]

\* If there was no row, one is inserted, which fails if one appeared.
FinishPublish(p) ==
    LET d == act[p].day
        seen == act[p].seen
    IN
    /\ act[p].op = "publish"
    /\ IF seen = "none" /\ poll[d].status # "none"
       THEN UNCHANGED <<poll, overrun>>
       ELSE /\ poll' = Published(d, seen)
            /\ overrun' = IF poll[d].status = "active" THEN overrun ELSE Overrun(d, seen)
    /\ act' = [act EXCEPT ![p] = Free]
    /\ UNCHANGED <<day, half, desk>>

DropPublish(p) ==
    /\ act[p] # Free
    /\ act' = [act EXCEPT ![p] = Free]
    /\ UNCHANGED <<day, half, poll, desk, overrun>>

-----------------------------------------------------------------------------
\* The poll that _current_poll finds: today's from 09:00, else yesterday's.
Votable(d) ==
    /\ d = IF half = "late" THEN day ELSE day - 1
    /\ poll[d].status = "active"

StartVote(v, d) ==
    /\ Votable(d) /\ v \notin poll[d].casting
    /\ poll' = [poll EXCEPT ![d].casting = @ \cup {v}]
    /\ UNCHANGED <<day, half, desk, act, overrun>>

\* A second vote replaces the first one.  The poll may be closed by now.
FinishVote(v, d) ==
    /\ v \in poll[d].casting
    /\ poll' = [poll EXCEPT ![d].casting = @ \ {v}, ![d].votes = @ \cup {v}]
    /\ UNCHANGED <<day, half, desk, act, overrun>>

DropVote(v, d) ==
    /\ v \in poll[d].casting
    /\ poll' = [poll EXCEPT ![d].casting = @ \ {v}]
    /\ UNCHANGED <<day, half, desk, act, overrun>>

InFlight == {desk[a] : a \in Desk} \cup {act[p] : p \in Publisher}
Aged(r) == IF r = Free THEN r ELSE [r EXCEPT !.old = TRUE]

\* 09:00 or midnight.
Tick ==
    /\ \A r \in InFlight : ~r.old
    /\ \/ half = "early" /\ half' = "late" /\ UNCHANGED day
       \/ half = "late" /\ day < LastDay /\ half' = "early" /\ day' = day + 1
    /\ desk' = [a \in Desk |-> Aged(desk[a])]
    /\ act' = [p \in Publisher |-> Aged(act[p])]
    /\ UNCHANGED <<poll, overrun>>

Next ==
    \/ \E a \in Desk :
        \/ \E replace \in BOOLEAN : StartGenerate(a, replace)
        \/ FinishGenerate(a)
        \/ StartApprove(a) \/ FinishApprove(a)
        \/ StartReject(a) \/ FinishReject(a)
        \/ DropRequest(a)
    \/ \E p \in Publisher : StartPublish(p) \/ FinishPublish(p) \/ DropPublish(p)
    \/ \E v \in Voter, d \in Day : StartVote(v, d) \/ FinishVote(v, d) \/ DropVote(v, d)
    \/ Tick

Spec == Init /\ [][Next]_vars

(* The scheduler and the readers keep asking for the poll, and a request   *)
(* that can commit again and again commits in the end.                     *)
FairSpec ==
    /\ Spec
    /\ \A p \in Publisher : WF_vars(StartPublish(p)) /\ SF_vars(FinishPublish(p))

-----------------------------------------------------------------------------
Request == [op: {"none", "generate", "approve", "reject", "publish"},
            day: Day, seen: Status, old: BOOLEAN]

TypeOK ==
    /\ day \in Day /\ half \in {"early", "late"}
    /\ poll \in [Day -> Poll]
    /\ \A d \in Day : (poll[d].status = "none") <=> (poll[d].text = "none")
    /\ desk \in [Desk -> Request]
    /\ act \in [Publisher -> Request]
    /\ overrun \subseteq Day

\* Readers are never shown two polls: one row at most is live, across the
\* change of day and with publishers racing each other.
OneLivePoll ==
    \A d, e \in Day : poll[d].status = "active" /\ poll[e].status = "active" => d = e

\* "Human review gate": unless a request wrote over a status it had not read,
\* no AI draft is scheduled or live without approval.
ReviewedUnlessOverrun ==
    \A d \in Day \ overrun :
        poll[d].status \in {"scheduled", "active", "closed"} => poll[d].text # "draft"

\* An approved poll is what goes live that day, not the poll bank.
ApprovedGoesLive ==
    [][\A d \in Day \ overrun' :
         poll[d].status = "scheduled" =>
            /\ poll'[d].status \in {"scheduled", "active"}
            /\ poll'[d].text = "approved"]_vars

\* What was put to the vote stays: a live poll is only ever closed, its
\* question is not exchanged and no vote for it is lost, whatever late
\* generation, review or second publication is under way.
PublishedIsFinal ==
    [][\A d \in Day \ overrun' :
         poll[d].status \in {"active", "closed"} =>
            /\ poll'[d].status \in {poll[d].status, "closed"}
            /\ poll'[d].text = poll[d].text
            /\ poll[d].votes \subseteq poll'[d].votes]_vars

\* From 09:00 there is a live poll, whoever approved or failed before.
TodayHasPoll ==
    \A d \in Day : (day = d /\ half = "late") ~> (poll[d].status = "active" \/ day # d)

\* Readers see one poll at most, and none that was not reviewed, unless a
\* request wrote over a status it had not read; an approved poll goes live,
\* and what is live is only ever closed.
LivePollIsReviewed ==
    [](OneLivePoll /\ ReviewedUnlessOverrun) /\ ApprovedGoesLive /\ PublishedIsFinal
=============================================================================
