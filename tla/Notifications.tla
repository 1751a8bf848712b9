---------------------------- MODULE Notifications ----------------------------
(***************************************************************************)
(* Breaking alerts and daily digests (scripts/send_notifications.py) and   *)
(* the device registrations they are sent to (app/main.py).                *)
(*                                                                         *)
(* A run loads users and devices once and then, user by user, counts,      *)
(* picks, claims a row of notification_log, commits and pushes.  The job   *)
(* lease is not relied on here: runs overlap as they like and each keeps   *)
(* the time it started with.  Requests that register or unregister a       *)
(* device read a row and write it in a later step.                         *)
(*                                                                         *)
(* Time is counted in ticks, DayLen of them to a day.  Scores are          *)
(* abstracted: any story may be the best candidate at any moment, or none. *)
(* Every user has both kinds of notification on, and the same slots.       *)
(***************************************************************************)
EXTENDS Integers, FiniteSets

CONSTANTS
    User, Device, Story, Run,
    Client,     \* requests that register or unregister a device
    Nobody,     \* owner of a device that is not registered
    Slot,       \* daily_notification_times_utc
    Cap,        \* BREAKING_DAILY_CAP
    Window,     \* DAILY_WINDOW_MINUTES
    DayLen,
    Spacing,    \* ticks between the starts of two runs, at least
    LastTick,   \* bound: clock
    MaxRow      \* bound: registrations of one device

ASSUME NotificationAssumption ==
    /\ IsFiniteSet(Run) /\ Run # {}
    /\ Cap \in Nat \ {0} /\ Window \in Nat /\ DayLen \in Nat \ {0}
    /\ Slot \subseteq 0 .. DayLen - 1
    /\ Spacing \in Nat /\ LastTick \in Nat /\ MaxRow \in Nat
    /\ Nobody \notin User

VARIABLES
    clock,
    lastStart,  \* when the last run started
    device,     \* device_tokens, by token
    log,        \* notification_log
    run,        \* what each run holds in memory
    request,    \* what each client request is in the middle of
    pushed,     \* history: claims and the devices they were sent to
    repeated    \* history: those sent more than once

vars == <<clock, lastStart, device, log, run, request, pushed, repeated>>

Time == 0 .. LastTick
DayOf(t) == t \div DayLen

\* A row id is not used again: that of a deleted row stays behind.
Registration == [owner: User \cup {Nobody}, id: 0 .. MaxRow]
Unregistered == [owner |-> Nobody, id |-> 0]

LogRow == [mode: {"breaking"}, user: User, item: Story, at: Time]
          \cup [mode: {"daily"}, user: User, item: Slot, at: Time]
NoRow == [mode |-> "none"]

Idle == [pc |-> "off", now |-> 0, held |-> [d \in Device |-> Unregistered],
         todo |-> {}, user |-> Nobody, slots |-> {}, row |-> NoRow, left |-> {}, doomed |-> {}]

NoRequest == [op |-> "none"]

Init ==
    /\ clock = 0 /\ lastStart = -Spacing
    /\ device = [d \in Device |-> Unregistered]
    /\ log = {}
    /\ run = [r \in Run |-> Idle]
    /\ request = [c \in Client |-> NoRequest]
    /\ pushed = {} /\ repeated = {}

-----------------------------------------------------------------------------
(* register_device_token and unregister_device_token: a read, then a write *)
(* of the row that was read, by its id.                                    *)

Registered(d) == device[d].owner # Nobody
Gone(d) == [device[d] EXCEPT !.owner = Nobody]

StartRequest(c, op, d, u) ==
    /\ request[c] = NoRequest
    /\ op = "unregister" => device[d].owner = u
    /\ request' = [request EXCEPT ![c] = [op |-> op, device |-> d, user |-> u, seen |-> device[d]]]
    /\ UNCHANGED <<clock, lastStart, device, log, run, pushed, repeated>>

\* Inserted if there was no row, which fails if there is one by now (the
\* token is unique); else the row read is given to the user, which fails if
\* it has been deleted.
FinishRegister(c) ==
    LET q == request[c] IN
    /\ q.op = "register"
    /\ device' = [device EXCEPT ![q.device] =
           IF q.seen.owner = Nobody
           THEN IF Registered(q.device) \/ @.id = MaxRow THEN @ ELSE [owner |-> q.user, id |-> @.id + 1]
           ELSE IF Registered(q.device) /\ @.id = q.seen.id THEN [@ EXCEPT !.owner = q.user] ELSE @]
    /\ request' = [request EXCEPT ![c] = NoRequest]
    /\ UNCHANGED <<clock, lastStart, log, run, pushed, repeated>>

FinishUnregister(c) ==
    LET q == request[c] IN
    /\ q.op = "unregister"
    /\ device' = [device EXCEPT ![q.device] = IF @.id = q.seen.id THEN Gone(q.device) ELSE @]
    /\ request' = [request EXCEPT ![c] = NoRequest]
    /\ UNCHANGED <<clock, lastStart, log, run, pushed, repeated>>

DropRequest(c) ==
    /\ request[c] # NoRequest
    /\ request' = [request EXCEPT ![c] = NoRequest]
    /\ UNCHANGED <<clock, lastStart, device, log, run, pushed, repeated>>

-----------------------------------------------------------------------------
(* A run.                                                                  *)

Moved(r, new) == run' = [run EXCEPT ![r] = new]

\* A commit deletes the rows of the devices a push failed for, if they are
\* still the rows that were loaded.
Purged(x) == [d \in Device |-> IF d \in x.doomed /\ device[d].id = x.held[d].id THEN Gone(d) ELSE device[d]]

DevicesOf(x, u) == {d \in Device : x.held[d].owner = u}

Start(r) ==
    /\ run[r].pc = "off"
    /\ clock >= lastStart + Spacing
    /\ Moved(r, [Idle EXCEPT !.pc = "next", !.now = clock, !.held = device,
                             !.todo = {u \in User : \E d \in Device : device[d].owner = u}])
    /\ lastStart' = clock
    /\ UNCHANGED <<clock, device, log, request, pushed, repeated>>

Apart(t, s) == IF (t % DayLen) < s THEN s - (t % DayLen) ELSE (t % DayLen) - s

\* Mutant of Near: the window is a tick too wide.
NearWide(t, s) == Apart(t, s) <= Window + 1 \/ DayLen - Apart(t, s) <= Window + 1

\* _is_within_daily_window: circular distance.
Near(t, s) == Apart(t, s) <= Window \/ DayLen - Apart(t, s) <= Window

SentToday(mode, u, now) == {row \in log : row.mode = mode /\ row.user = u /\ DayOf(row.at) >= DayOf(now)}

\* Mutant of BelowCap: one more.
AtMostCap(u, now) == Cardinality(SentToday("breaking", u, now)) <= Cap

BelowCap(u, now) == Cardinality(SentToday("breaking", u, now)) < Cap

\* The next user: how many alerts today, and which slots are due.
CountBreaking(r, u) ==
    LET x == run[r] IN
    /\ x.pc = "next" /\ u \in x.todo
    /\ Moved(r, [x EXCEPT !.pc = IF BelowCap(u, x.now) THEN "pick" ELSE "slots",
                          !.user = u, !.todo = @ \ {u}, !.slots = {s \in Slot : Near(x.now, s)}])
    /\ UNCHANGED <<clock, lastStart, device, log, request, pushed, repeated>>

\* The best story the user was not told of, if there is one.
PickBreaking(r) ==
    LET x == run[r] IN
    /\ x.pc = "pick"
    /\ \/ \E s \in Story :
           /\ \A row \in log : row.mode = "breaking" /\ row.user = x.user => row.item # s
           /\ Moved(r, [x EXCEPT !.pc = "claim",
                                 !.row = [mode |-> "breaking", user |-> x.user, item |-> s, at |-> x.now]])
       \/ Moved(r, [x EXCEPT !.pc = "slots"])
    /\ UNCHANGED <<clock, lastStart, device, log, request, pushed, repeated>>

\* The next due slot, unless it was served or no story qualifies.
PickSlot(r, s) ==
    LET x == run[r] IN
    /\ x.pc = "slots" /\ s \in x.slots
    /\ Cardinality({row \in SentToday("daily", x.user, x.now) : row.item = s}) <= 1
    /\ \/ /\ \A row \in SentToday("daily", x.user, x.now) : row.item # s
          /\ Moved(r, [x EXCEPT !.pc = "claim", !.slots = @ \ {s},
                                !.row = [mode |-> "daily", user |-> x.user, item |-> s, at |-> x.now]])
       \/ Moved(r, [x EXCEPT !.slots = @ \ {s}])
    /\ UNCHANGED <<clock, lastStart, device, log, request, pushed, repeated>>

\* The partial unique indexes: a story once per user, a slot once per user
\* and day.
Claimed(row) ==
    \E old \in log :
        /\ old.mode = row.mode /\ old.user = row.user /\ old.item = row.item
        /\ row.mode = "daily" => DayOf(old.at) = DayOf(row.at)

\* _claim: insert or do nothing, and commit.  Only who inserted pushes.
Claim(r) ==
    LET x == run[r] IN
    /\ x.pc = "claim"
    /\ device' = Purged(x)
    /\ IF Claimed(x.row)
       THEN Moved(r, [x EXCEPT !.pc = "slots", !.row = NoRow, !.doomed = {}]) /\ UNCHANGED log
       ELSE /\ Moved(r, [x EXCEPT !.pc = "push", !.left = DevicesOf(x, x.user), !.doomed = {}])
            /\ log' = log \cup {x.row}
    /\ UNCHANGED <<clock, lastStart, request, pushed, repeated>>

\* One device; whatever the failure, the device is to be deleted.
Push(r, d, ok) ==
    LET x == run[r]
        more == x.left \ {d}
    IN
    /\ x.pc = "push" /\ d \in x.left
    /\ Moved(r, [x EXCEPT !.left = more, !.doomed = IF ok THEN @ ELSE @ \cup {d},
                          !.pc = IF more = {} THEN "slots" ELSE "push",
                          !.row = IF more = {} THEN NoRow ELSE @])
    /\ pushed' = pushed \cup {<<x.row, d>>}
    /\ repeated' = repeated \cup ({<<x.row, d>>} \cap pushed)
    /\ UNCHANGED <<clock, lastStart, device, log, request>>

NextUser(r) ==
    /\ run[r].pc = "slots" /\ run[r].slots = {}
    /\ Moved(r, [run[r] EXCEPT !.pc = "next", !.user = Nobody])
    /\ UNCHANGED <<clock, lastStart, device, log, request, pushed, repeated>>

Finish(r) ==
    /\ run[r].pc = "next" /\ run[r].todo = {}
    /\ device' = Purged(run[r])
    /\ Moved(r, Idle)
    /\ UNCHANGED <<clock, lastStart, log, request, pushed, repeated>>

\* An exception or the end of the process: what was not committed is lost.
Abort(r) ==
    /\ run[r].pc # "off"
    /\ Moved(r, Idle)
    /\ UNCHANGED <<clock, lastStart, device, log, request, pushed, repeated>>

Tick ==
    /\ clock < LastTick
    /\ clock' = clock + 1
    /\ UNCHANGED <<lastStart, device, log, run, request, pushed, repeated>>

Next ==
    \/ \E c \in Client :
        \/ \E op \in {"register", "unregister"}, d \in Device, u \in User : StartRequest(c, op, d, u)
        \/ FinishRegister(c) \/ FinishUnregister(c) \/ DropRequest(c)
    \/ \E r \in Run :
        \/ Start(r) \/ Claim(r) \/ NextUser(r) \/ Finish(r) \/ Abort(r) \/ PickBreaking(r)
        \/ \E u \in User : CountBreaking(r, u)
        \/ \E s \in Slot : PickSlot(r, s)
        \/ \E d \in Device, ok \in BOOLEAN : Push(r, d, ok)
    \/ Tick

Spec == Init /\ [][Next]_vars

-----------------------------------------------------------------------------
RunState == [pc: {"off", "next", "pick", "slots", "claim", "push"}, now: Time,
             held: [Device -> Registration], todo: SUBSET User, user: User \cup {Nobody},
             slots: SUBSET Slot, row: LogRow \cup {NoRow},
             left: SUBSET Device, doomed: SUBSET Device]

Request == [op: {"register", "unregister"}, device: Device, user: User, seen: Registration]

TypeOK ==
    /\ clock \in Time /\ lastStart \in Time \cup {-Spacing}
    /\ device \in [Device -> Registration]
    /\ log \subseteq LogRow
    /\ run \in [Run -> RunState]
    /\ request \in [Client -> {NoRequest} \cup Request]
    /\ pushed \subseteq log \X Device
    /\ repeated \subseteq pushed

\* "Claim first, then push": no device is sent the same alert or digest
\* twice, however runs overlap, abort and are repeated.
PushedOnce ==
    /\ repeated = {}
    /\ \A p, q \in pushed :
        p[1].mode = "breaking" /\ q[1].mode = "breaking" /\ p[2] = q[2]
        /\ p[1].user = q[1].user /\ p[1].item = q[1].item => p = q

\* The count and the claim are two steps: the cap of breaking alerts per
\* user and day can be passed, but only by one for each run overlapping.
CapUpToOverlap ==
    \A u \in User, t \in Time :
        Cardinality({row \in log : row.mode = "breaking" /\ row.user = u /\ DayOf(row.at) = DayOf(t)})
            <= Cap + Cardinality(Run) - 1

\* Runs that start more than two windows apart serve a slot once per
\* occurrence, also a slot whose window reaches across midnight, where the
\* unique index sees two days.
SlotOncePerOccurrence ==
    \A a, b \in log :
        a.mode = "daily" /\ b.mode = "daily" /\ a.user = b.user /\ a.item = b.item /\ a.at < b.at
            => b.at - a.at >= DayLen - 2 * Window

\* No alert and no digest is sent twice.
ServedOnce == PushedOnce /\ SlotOncePerOccurrence
=============================================================================
