----------------------------- MODULE ReadyAlerts -----------------------------
(***************************************************************************)
(* The alerts that go out once: the daily brief and the wrap-up            *)
(* (services/morning_brief_notify.py), the horoscope                       *)
(* (services/horoscope_notifications.py) and the reminder that a premium   *)
(* trial ends tomorrow (services/trial_notifications.py), with the trial   *)
(* itself (services/premium_trial.py, app/main.py).                        *)
(*                                                                         *)
(* They are the last steps of a run of scripts/send_notifications.py.      *)
(* Runs overlap as they like, each keeps the time it started with, and an  *)
(* error ends a step and not the run.                                      *)
(*                                                                         *)
(* Time is counted in ticks of the Indian day; the notification log counts *)
(* UTC days, which begin Shift ticks into the Indian day.                  *)
(***************************************************************************)
EXTENDS Integers, FiniteSets

CONSTANTS
    Member,
    ReadyRun,
    Asker,      \* requests that start a trial
    DayLength, Shift,
    BriefFrom,      \* SEND_AFTER, by kind of brief
    StarsFrom, StarsUntil,      \* the horoscope's window
    RemindFrom, RemindUntil,    \* the reminder's window
    TrialDays,      \* TRIAL_LENGTH
    EndTick         \* bound: clock

\* A brief is sent when the day of the log has begun: from 6:30 and from 20:00
\* in India, where it begins at 5:30.
ASSUME ReadyAssumption ==
    /\ DayLength \in Nat \ {0} /\ EndTick \in Nat /\ TrialDays \in Nat
    /\ Shift \in 0 .. DayLength - 1
    /\ \A k \in {"brief", "wrapup"} : BriefFrom[k] \in Int /\ BriefFrom[k] >= Shift

VARIABLES
    hour,
    ready,      \* daily_briefs that are ready with items, by kind and day
    forecast,   \* days whose horoscopes are stored
    opted,      \* preferences and registrations: who wants what, and has a device
    sent,       \* notification_log rows, counted by kind, member and UTC day
    claimed,    \* horoscope_notifications: member and day
    trial,      \* premium_trials
    starting,    \* a start of a trial between its read and its insert
    rrun,       \* what each run holds in memory
    rang,       \* history: pushes, counted by kind, member and day
    crossed,    \* history: brief steps that two runs were in at once
    nagged      \* history: members reminded although they had paid before the run

rvars == <<hour, ready, forecast, opted, sent, claimed, trial, starting, rrun, rang, crossed, nagged>>

Brief == {"brief", "wrapup"}
Kind == Brief \cup {"stars", "trial"}
Day == 0 .. EndTick \div DayLength
IstDay(t) == t \div DayLength
TimeOfDay(t) == t % DayLength
UtcDay(t) == (t + DayLength - Shift) \div DayLength

NoTrial == [ends |-> -1, paid |-> FALSE, reminded |-> FALSE]
Asleep == [pc |-> "off", now |-> 0, todo |-> {}, who |-> {}, paid |-> {}]

\* The steps of a run in their order.
After(k) == IF k = "brief" THEN "wrapup" ELSE IF k = "wrapup" THEN "stars" ELSE IF k = "stars" THEN "trial" ELSE "off"

ReadyInit ==
    /\ hour = 0
    /\ ready = [k \in Brief |-> {}]
    /\ forecast = {}
    /\ opted = [k \in Kind |-> Member]
    /\ sent = [k \in Brief |-> [u \in Member |-> [d \in 0 .. UtcDay(EndTick) |-> 0]]]
    /\ claimed = {}
    /\ trial = [u \in Member |-> NoTrial]
    /\ starting = [a \in Asker |-> {}]
    /\ rrun = [r \in ReadyRun |-> Asleep]
    /\ rang = [k \in Kind |-> [u \in Member |-> [d \in Day |-> 0]]]
    /\ crossed = {}
    /\ nagged = {}

-----------------------------------------------------------------------------
(* The other writers, as far as these steps see them.                      *)

PassTime ==
    /\ hour < EndTick
    /\ hour' = hour + 1
    /\ UNCHANGED <<ready, forecast, opted, sent, claimed, trial, starting, rrun, rang, crossed, nagged>>

\* A build of today's brief ends well; a late one too.
BriefReady(k) ==
    /\ IstDay(hour) \notin ready[k]
    /\ ready' = [ready EXCEPT ![k] = @ \cup {IstDay(hour)}]
    /\ UNCHANGED <<hour, forecast, opted, sent, claimed, trial, starting, rrun, rang, crossed, nagged>>

Forecast ==
    /\ IstDay(hour) \notin forecast
    /\ forecast' = forecast \cup {IstDay(hour)}
    /\ UNCHANGED <<hour, ready, opted, sent, claimed, trial, starting, rrun, rang, crossed, nagged>>

-----------------------------------------------------------------------------
(* start_premium_trial and the purchase that converts a trial.             *)

AskTrial(a, u) ==
    /\ starting[a] = {} /\ trial[u] = NoTrial
    /\ starting' = [starting EXCEPT ![a] = {u}]
    /\ UNCHANGED <<hour, ready, forecast, opted, sent, claimed, trial, rrun, rang, crossed, nagged>>

\* The user is the key: the second of two inserts fails, and its request
\* answers with the trial of the first.
StartTrial(a, u) ==
    /\ starting[a] = {u}
    /\ starting' = [starting EXCEPT ![a] = {}]
    /\ trial' = IF trial[u] = NoTrial
                THEN [trial EXCEPT ![u] = [ends |-> hour + TrialDays * DayLength, paid |-> FALSE, reminded |-> FALSE]]
                ELSE trial
    /\ UNCHANGED <<hour, ready, forecast, opted, sent, claimed, rrun, rang, crossed, nagged>>

\* mark_converted, for a purchase that Google confirms.
Purchase(u) ==
    /\ trial[u] # NoTrial /\ ~trial[u].paid
    /\ trial' = [trial EXCEPT ![u].paid = TRUE]
    /\ UNCHANGED <<hour, ready, forecast, opted, sent, claimed, starting, rrun, rang, crossed, nagged>>

-----------------------------------------------------------------------------
(* A run.                                                                  *)

WakeUp(r) ==
    /\ rrun[r].pc = "off"
    /\ rrun' = [rrun EXCEPT ![r] = [Asleep EXCEPT !.pc = "brief", !.now = hour]]
    /\ UNCHANGED <<hour, ready, forecast, opted, sent, claimed, trial, starting, rang, crossed, nagged>>

Within(t, from, until) == from <= TimeOfDay(t) /\ TimeOfDay(t) < until

\* reminder_due: not converted, not reminded, and the trial ends tomorrow.
ReminderDue(u, t) ==
    /\ trial[u] # NoTrial /\ ~trial[u].paid /\ ~trial[u].reminded
    /\ t < trial[u].ends
    /\ IstDay(t) = IstDay(trial[u].ends) - 1
    /\ Within(t, RemindFrom, RemindUntil)

Due(k, t) ==
    IF k = "trial" THEN {u \in Member : ReminderDue(u, t)}
    ELSE {u \in opted[k] : IF k = "stars" THEN Within(t, StarsFrom, StarsUntil) /\ IstDay(t) \in forecast
                                          ELSE TimeOfDay(t) >= BriefFrom[k] /\ IstDay(t) \in ready[k]}

NextStep(m, k) == [Asleep EXCEPT !.pc = After(k), !.now = IF After(k) = "off" THEN 0 ELSE m.now]
Done(m, k, u) == IF m.todo = {u} THEN NextStep(m, k) ELSE [m EXCEPT !.todo = @ \ {u}, !.who = {}]

\* A step that is due loads its users; one that is not is passed by.
LoadStep(r, k) ==
    LET m == rrun[r] IN
    /\ m.pc = k /\ m.todo = {}
    /\ rrun' = [rrun EXCEPT ![r] = IF Due(k, m.now) = {} THEN NextStep(m, k)
                  ELSE [m EXCEPT !.todo = Due(k, m.now), !.paid = {u \in Member : trial[u].paid}]]
    /\ crossed' = crossed \cup {x \in {<<k, UtcDay(m.now)>>} :
                      k \in Brief /\ Due(k, m.now) # {} /\ \E q \in ReadyRun \ {r} : rrun[q].pc = k /\ rrun[q].todo # {}}
    /\ UNCHANGED <<hour, ready, forecast, opted, sent, claimed, trial, starting, rang, nagged>>

\* Any failure of a push deletes the registration.
Ring(k, u, m) ==
    \/ /\ rang' = [rang EXCEPT ![k][u][IstDay(m.now)] = rang[k][u][IstDay(m.now)] + 1]
       /\ UNCHANGED opted
    \/ /\ opted' = [x \in Kind |-> opted[x] \ {u}]
       /\ UNCHANGED rang

\* Mutant of Rows: the check looks at the Indian day.
RowsOfIstDay(k, u, m) == sent[k][u][IstDay(m.now)]

Rows(k, u, m) == sent[k][u][UtcDay(m.now)]

\* scalar_one_or_none: a second row raises, and ends the step for everybody
\* who comes after.
CheckSent(r, k, u) ==
    LET m == rrun[r]
        rows == Rows(k, u, m) IN
    /\ m.pc = k /\ k \in Brief /\ u \in m.todo /\ m.who = {}
    /\ rrun' = [rrun EXCEPT ![r] = IF rows > 1 THEN NextStep(m, k)
                                   ELSE IF rows = 1 THEN Done(m, k, u) ELSE [m EXCEPT !.who = {u}]]
    /\ UNCHANGED <<hour, ready, forecast, opted, sent, claimed, trial, starting, rang, crossed, nagged>>

SendBrief(r, k, u) ==
    LET m == rrun[r] IN
    /\ m.pc = k /\ k \in Brief /\ m.who = {u}
    /\ sent' = [sent EXCEPT ![k][u][UtcDay(m.now)] = sent[k][u][UtcDay(m.now)] + 1]
    /\ Ring(k, u, m)
    /\ rrun' = [rrun EXCEPT ![r] = Done(m, k, u)]
    /\ UNCHANGED <<hour, ready, forecast, claimed, trial, starting, crossed, nagged>>

\* INSERT ... ON CONFLICT DO NOTHING: the row count says who has it.
SendStars(r, u) ==
    LET m == rrun[r]
        row == <<u, IstDay(m.now)>> IN
    /\ m.pc = "stars" /\ u \in m.todo
    /\ claimed' = claimed \cup {row}
    /\ IF row \in claimed THEN UNCHANGED <<rang, opted>> ELSE Ring("stars", u, m)
    /\ rrun' = [rrun EXCEPT ![r] = Done(m, "stars", u)]
    /\ UNCHANGED <<hour, ready, forecast, sent, trial, starting, crossed, nagged>>

\* UPDATE ... WHERE reminder_sent_at IS NULL; it does not look at a purchase.
Remind(r, u) ==
    LET m == rrun[r] IN
    /\ m.pc = "trial" /\ u \in m.todo
    /\ trial' = [trial EXCEPT ![u].reminded = TRUE]
    /\ IF trial[u].reminded \/ u \notin opted["trial"]
       THEN UNCHANGED <<rang, opted, nagged>>
       ELSE Ring("trial", u, m) /\ nagged' = nagged \cup ({u} \cap m.paid)
    /\ rrun' = [rrun EXCEPT ![r] = Done(m, "trial", u)]
    /\ UNCHANGED <<hour, ready, forecast, sent, claimed, starting, crossed>>

\* The process dies; what it has committed stays.
Die(r) ==
    /\ rrun[r].pc # "off"
    /\ rrun' = [rrun EXCEPT ![r] = Asleep]
    /\ UNCHANGED <<hour, ready, forecast, opted, sent, claimed, trial, starting, rang, crossed, nagged>>

ReadyNext ==
    \/ PassTime \/ Forecast
    \/ \E k \in Brief : BriefReady(k)
    \/ \E u \in Member : Purchase(u) \/ \E a \in Asker : AskTrial(a, u) \/ StartTrial(a, u)
    \/ \E r \in ReadyRun :
        \/ WakeUp(r) \/ Die(r)
        \/ \E k \in Kind : LoadStep(r, k)
        \/ \E u \in Member : \/ SendStars(r, u) \/ Remind(r, u)
                             \/ \E k \in Brief : CheckSent(r, k, u) \/ SendBrief(r, k, u)

ReadySpec == ReadyInit /\ [][ReadyNext]_rvars

-----------------------------------------------------------------------------
(* Properties.                                                             *)

\* No alert reaches a member twice on a day.  The horoscope and the reminder
\* claim a row first and keep that however runs overlap; a brief is checked
\* and then logged, and two runs in the same step at once may both send it.
ReadyOnce ==
    \A k \in Kind, u \in Member, d \in Day :
        rang[k][u][d] > 1 => k \in Brief /\ \E t \in 0 .. EndTick :
                                IstDay(t) = d /\ <<k, UtcDay(t)>> \in crossed

\* Somebody who had paid when a run loaded the trials is not told by it that
\* the trial ends: a purchase is only overlooked when it is made during the
\* run (send_trial_reminders).
ReminderSparesBuyers == nagged = {}

\* A trial is given once and never moved: a second start, also one that read
\* before the first had committed, leaves it alone (start_trial); nor is a
\* conversion taken back.
TrialGivenOnce ==
    [][\A u \in Member : trial[u] # NoTrial =>
            trial'[u].ends = trial[u].ends /\ (trial[u].paid => trial'[u].paid)]_rvars

\* Alerts of a day go out once and only to whom they concern, and a trial ends
\* when it was said to.
ReadyAlertsAreDue == [](ReadyOnce /\ ReminderSparesBuyers) /\ TrialGivenOnce

=============================================================================
