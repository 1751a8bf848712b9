--------------------------- MODULE Alerts_proofs ---------------------------
(***************************************************************************)
(* Proofs about Notifications, UpdateAlerts and ReadyAlerts, for any sets  *)
(* of users, devices, stories and runs, any cap, gap and clock.            *)
(*                                                                         *)
(* Notifications: Safe says what a run relies on between its steps: the    *)
(* row it is about to claim is one of its user and of its own start time,  *)
(* and the row it pushes for is in the log.  On it rest two arguments.     *)
(* Only who inserts a row pushes for it, and an inserted row was not there *)
(* before, so no two runs push for one row (FreshPushes).  And while the   *)
(* alerts of a day are below the cap, a run may join those that have       *)
(* counted and not yet claimed; from the cap on none joins, and each of    *)
(* those present adds one alert and leaves (Headroom).                     *)
(*                                                                         *)
(* UpdateAlerts: UpdateInv says that what a run has loaded was true when   *)
(* it was loaded and stays true of the follows that are still there        *)
(* (Memory), that a follow is told what is past its mark and was recorded  *)
(* since it was made (Kept), and that the stories a follow counts on, and  *)
(* those announced since, have been tracked ever since (Watched): what is  *)
(* tracked is not announced, so nothing is announced twice.                *)
(*                                                                         *)
(* ReadyAlerts: a run that is about to send a brief has seen no row of it, *)
(* and none was added but by a run in the same step on the same day        *)
(* (AboutToSend, Crossings).  Rings are counted by Indian days and rows by *)
(* those of the log, and a brief rings only when the latter has begun      *)
(* (RungIsSent); the other alerts ring once a row is claimed.              *)
(***************************************************************************)
EXTENDS Notifications, UpdateAlerts, ReadyAlerts, FiniteSetTheorems, SequenceTheorems, TLAPS

Ready(x, rows) ==
    /\ x.pc \in {"pick", "slots", "claim", "push"} => x.user \in User
    /\ x.pc = "claim" => x.row \in LogRow /\ x.row.user = x.user /\ x.row.at = x.now
    /\ x.pc = "push" => x.row \in rows

Safe == TypeOK /\ \A r \in Run : Ready(run[r], log)

LEMMA IdleType == Idle \in RunState /\ \A rows : Ready(Idle, rows)
BY NotificationAssumption DEF Idle, RunState, Ready, Registration, Unregistered, NoRow, Time

LEMMA TimeType == Time \subseteq Nat /\ 0 \in Time
BY NotificationAssumption DEF Time

(* A step of one run that leaves the log and the pushes alone.             *)
LEMMA RunMoves ==
    ASSUME Safe, NEW r \in Run, NEW new \in RunState, Ready(new, log), Moved(r, new),
           log' = log, pushed' = pushed, repeated' = repeated, request' = request,
           clock' = clock, lastStart' \in Time \cup {-Spacing},
           device' \in [Device -> Registration]
    PROVE  Safe'
<1>1. TypeOK'
  BY DEF Safe, TypeOK, Moved
<1>2. \A s \in Run : Ready(run'[s], log')
  BY DEF Safe, TypeOK, Moved
<1> QED
  BY <1>1, <1>2 DEF Safe

LEMMA PurgedType ==
    ASSUME TypeOK, NEW x
    PROVE  Purged(x) \in [Device -> Registration]
<1>1. ASSUME NEW d \in Device PROVE Gone(d) \in Registration
  BY <1>1, NotificationAssumption DEF TypeOK, Gone, Registration
<1> QED
  BY <1>1 DEF Purged, TypeOK

LEMMA SafeInit == Init => Safe
<1> SUFFICES ASSUME Init PROVE Safe
  OBVIOUS
<1>1. Unregistered \in Registration
  BY NotificationAssumption DEF Unregistered, Registration
<1> QED
  BY IdleType, TimeType, <1>1 DEF Init, Safe, TypeOK

LEMMA StartSafe == ASSUME Safe, NEW r \in Run, Start(r) PROVE Safe'
<1> DEFINE new == [Idle EXCEPT !.pc = "next", !.now = clock, !.held = device,
                               !.todo = {u \in User : \E d \in Device : device[d].owner = u}]
<1>1. new \in RunState /\ Ready(new, log)
  BY IdleType DEF Safe, TypeOK, RunState, Ready, Idle
<1> QED
  BY <1>1, RunMoves DEF Start, Safe, TypeOK

LEMMA CountSafe == ASSUME Safe, NEW r \in Run, NEW u \in User, CountBreaking(r, u) PROVE Safe'
<1> DEFINE x == run[r]
           new == [x EXCEPT !.pc = IF BelowCap(u, x.now) THEN "pick" ELSE "slots",
                            !.user = u, !.todo = @ \ {u}, !.slots = {s \in Slot : Near(x.now, s)}]
<1>1. x \in RunState /\ x.pc = "next"
  BY DEF Safe, TypeOK, CountBreaking
<1>2. {s \in Slot : Near(x.now, s)} \subseteq Slot
  OBVIOUS
<1> HIDE DEF x
<1>3. new \in RunState
  BY <1>1, <1>2 DEF RunState
<1>4. Ready(new, log)
  BY <1>1 DEF RunState, Ready
<1>5. Moved(r, new)
  BY DEF CountBreaking, x
<1> QED
  BY <1>3, <1>4, <1>5, RunMoves DEF CountBreaking, Safe, TypeOK

LEMMA PickBreakingSafe == ASSUME Safe, NEW r \in Run, PickBreaking(r) PROVE Safe'
<1> DEFINE x == run[r]
           row(s) == [mode |-> "breaking", user |-> x.user, item |-> s, at |-> x.now]
<1>1. x \in RunState /\ x.pc = "pick" /\ x.user \in User
  BY DEF Safe, TypeOK, PickBreaking, Ready
<1>2. ASSUME NEW s \in Story, Moved(r, [x EXCEPT !.pc = "claim", !.row = row(s)]) PROVE Safe'
  <2> HIDE DEF x
  <2>1. row(s) \in LogRow /\ row(s).user = x.user /\ row(s).at = x.now
    BY <1>1 DEF LogRow, RunState
  <2> HIDE DEF row
  <2>2. [x EXCEPT !.pc = "claim", !.row = row(s)] \in RunState
    BY <1>1, <2>1 DEF RunState
  <2>3. Ready([x EXCEPT !.pc = "claim", !.row = row(s)], log)
    BY <1>1, <2>1 DEF RunState, Ready
  <2> QED
    BY <1>2, <2>2, <2>3, RunMoves DEF PickBreaking, Safe, TypeOK
<1>3. ASSUME Moved(r, [x EXCEPT !.pc = "slots"]) PROVE Safe'
  <2> HIDE DEF x
  <2>1. [x EXCEPT !.pc = "slots"] \in RunState /\ Ready([x EXCEPT !.pc = "slots"], log)
    BY <1>1 DEF RunState, Ready
  <2> QED
    BY <1>3, <2>1, RunMoves DEF PickBreaking, Safe, TypeOK
<1> QED
  BY <1>2, <1>3 DEF PickBreaking

LEMMA PickSlotSafe == ASSUME Safe, NEW r \in Run, NEW s \in Slot, PickSlot(r, s) PROVE Safe'
<1> DEFINE x == run[r]
           row == [mode |-> "daily", user |-> x.user, item |-> s, at |-> x.now]
<1>1. x \in RunState /\ x.pc = "slots" /\ x.user \in User
  BY DEF Safe, TypeOK, PickSlot, Ready
<1>2. ASSUME Moved(r, [x EXCEPT !.pc = "claim", !.slots = @ \ {s}, !.row = row]) PROVE Safe'
  <2> HIDE DEF x
  <2>1. row \in LogRow /\ row.user = x.user /\ row.at = x.now
    BY <1>1 DEF LogRow, RunState
  <2> HIDE DEF row
  <2>2. [x EXCEPT !.pc = "claim", !.slots = @ \ {s}, !.row = row] \in RunState
    BY <1>1, <2>1 DEF RunState
  <2>3. Ready([x EXCEPT !.pc = "claim", !.slots = @ \ {s}, !.row = row], log)
    BY <1>1, <2>1 DEF RunState, Ready
  <2> QED
    BY <1>2, <2>2, <2>3, RunMoves DEF PickSlot, Safe, TypeOK
<1>3. ASSUME Moved(r, [x EXCEPT !.slots = @ \ {s}]) PROVE Safe'
  <2> HIDE DEF x
  <2>1. [x EXCEPT !.slots = @ \ {s}] \in RunState /\ Ready([x EXCEPT !.slots = @ \ {s}], log)
    BY <1>1 DEF RunState, Ready
  <2> QED
    BY <1>3, <2>1, RunMoves DEF PickSlot, Safe, TypeOK
<1> QED
  BY <1>2, <1>3 DEF PickSlot

LEMMA ClaimSafe == ASSUME Safe, NEW r \in Run, Claim(r) PROVE Safe'
<1> DEFINE x == run[r]
           lost == [x EXCEPT !.pc = "slots", !.row = NoRow, !.doomed = {}]
           won == [x EXCEPT !.pc = "push", !.left = DevicesOf(x, x.user), !.doomed = {}]
<1>1. x \in RunState /\ x.pc = "claim" /\ x.user \in User /\ x.row \in LogRow
  BY DEF Safe, TypeOK, Claim, Ready
<1>2. device' \in [Device -> Registration]
  BY PurgedType DEF Claim, Safe
<1>3. DevicesOf(x, x.user) \subseteq Device
  BY DEF DevicesOf
<1>4. CASE Claimed(x.row)
  <2>1. Moved(r, lost)
    BY <1>4 DEF Claim
  <2> HIDE DEF x
  <2>2. lost \in RunState /\ Ready(lost, log)
    BY <1>1 DEF RunState, Ready
  <2> QED
    BY <1>2, <1>4, <2>1, <2>2, RunMoves DEF Claim, Safe, TypeOK, x
<1>5. CASE ~Claimed(x.row)
  <2>1. Moved(r, won) /\ log' = log \cup {x.row}
    BY <1>5 DEF Claim
  <2>2. UNCHANGED <<clock, lastStart, request, pushed, repeated>>
    BY DEF Claim
  <2> HIDE DEF x
  <2>3. won \in RunState /\ Ready(won, log')
    BY <1>1, <1>3, <2>1 DEF RunState, Ready
  <2> HIDE DEF won
  <2>4. TypeOK'
    BY <1>1, <1>2, <2>1, <2>2, <2>3 DEF Safe, TypeOK, Moved
  <2>5. ASSUME NEW q \in Run PROVE Ready(run'[q], log')
    BY <2>1, <2>3 DEF Safe, TypeOK, Moved, Ready
  <2> QED
    BY <2>4, <2>5 DEF Safe
<1> QED
  BY <1>4, <1>5

LEMMA PushSafe == ASSUME Safe, NEW r \in Run, NEW d \in Device, NEW ok \in BOOLEAN, Push(r, d, ok) PROVE Safe'
<1> DEFINE x == run[r]
           more == x.left \ {d}
           new == [x EXCEPT !.left = more, !.doomed = IF ok THEN @ ELSE @ \cup {d},
                            !.pc = IF more = {} THEN "slots" ELSE "push",
                            !.row = IF more = {} THEN NoRow ELSE @]
<1>1. x \in RunState /\ x.pc = "push" /\ x.user \in User /\ x.row \in log /\ d \in x.left
  BY DEF Safe, TypeOK, Push, Ready
<1>2. Moved(r, new)
  BY DEF Push
<1>3. pushed' = pushed \cup {<<x.row, d>>} /\ repeated' \subseteq pushed'
  BY DEF Push, Safe, TypeOK
<1>4. UNCHANGED <<clock, lastStart, device, log, request>>
  BY DEF Push
<1> HIDE DEF x
<1>5. new \in RunState
  BY <1>1 DEF RunState
<1>6. Ready(new, log)
  BY <1>1 DEF RunState, Ready
<1> HIDE DEF new
<1>7. pushed' \subseteq log' \X Device
  BY <1>1, <1>3, <1>4 DEF Safe, TypeOK
<1>8. TypeOK'
  BY <1>2, <1>3, <1>4, <1>5, <1>7 DEF Safe, TypeOK, Moved
<1>9. ASSUME NEW q \in Run PROVE Ready(run'[q], log')
  BY <1>2, <1>4, <1>6 DEF Safe, TypeOK, Moved
<1> QED
  BY <1>8, <1>9 DEF Safe

LEMMA RestSafe ==
    ASSUME Safe, NEW r \in Run, NextUser(r) \/ Finish(r) \/ Abort(r)
    PROVE  Safe'
<1> DEFINE new == [run[r] EXCEPT !.pc = "next", !.user = Nobody]
<1>1. CASE NextUser(r)
  <2>1. run[r] \in RunState
    BY DEF Safe, TypeOK
  <2>2. new \in RunState /\ Ready(new, log)
    BY <2>1 DEF RunState, Ready
  <2> QED
    BY <1>1, <2>2, RunMoves DEF NextUser, Safe, TypeOK
<1>2. CASE Finish(r)
  BY <1>2, IdleType, PurgedType, RunMoves DEF Finish, Safe, TypeOK
<1>3. CASE Abort(r)
  BY <1>3, IdleType, RunMoves DEF Abort, Safe, TypeOK
<1> QED
  BY <1>1, <1>2, <1>3

(* Requests and the clock leave runs and log alone.                        *)
LEMMA RequestSafe ==
    ASSUME Safe, NEW c \in Client,
           \/ \E op \in {"register", "unregister"}, d \in Device, u \in User : StartRequest(c, op, d, u)
           \/ FinishRegister(c) \/ FinishUnregister(c) \/ DropRequest(c)
    PROVE  Safe' /\ UNCHANGED <<clock, lastStart, log, run, pushed, repeated>>
<1>1. UNCHANGED <<clock, lastStart, log, run, pushed, repeated>>
  BY DEF StartRequest, FinishRegister, FinishUnregister, DropRequest
<1>2. request' \in [Client -> {NoRequest} \cup Request]
  <2>1. CASE \E op \in {"register", "unregister"}, d \in Device, u \in User : StartRequest(c, op, d, u)
    <3>1. PICK op \in {"register", "unregister"}, d \in Device, u \in User : StartRequest(c, op, d, u)
      BY <2>1
    <3>2. [op |-> op, device |-> d, user |-> u, seen |-> device[d]] \in Request
      BY DEF Safe, TypeOK, Request
    <3> QED
      BY <3>1, <3>2 DEF StartRequest, Safe, TypeOK
  <2>2. CASE FinishRegister(c) \/ FinishUnregister(c) \/ DropRequest(c)
    BY <2>2 DEF FinishRegister, FinishUnregister, DropRequest, Safe, TypeOK
  <2> QED
    BY <2>1, <2>2
<1>3. device' \in [Device -> Registration]
  <2>1. CASE FinishRegister(c)
    <3> DEFINE q == request[c]
    <3>1. q \in Request
      BY <2>1 DEF FinishRegister, Safe, TypeOK, NoRequest
    <3>2. q.user \in User /\ q.device \in Device /\ device[q.device] \in Registration
      BY <3>1 DEF Request, Safe, TypeOK
    <3>3. device[q.device].id # MaxRow =>
            [owner |-> q.user, id |-> device[q.device].id + 1] \in Registration
      BY <3>2, NotificationAssumption DEF Registration
    <3>4. [device[q.device] EXCEPT !.owner = q.user] \in Registration
      BY <3>2 DEF Registration
    <3> HIDE DEF q
    <3> QED
      BY <2>1, <3>2, <3>3, <3>4 DEF FinishRegister, Safe, TypeOK, q
  <2>2. CASE FinishUnregister(c)
    <3>1. ASSUME NEW d \in Device PROVE Gone(d) \in Registration
      BY <3>1 DEF Safe, TypeOK, Gone, Registration
    <3>2. request[c] \in Request
      BY <2>2 DEF FinishUnregister, Safe, TypeOK, NoRequest
    <3> QED
      BY <2>2, <3>1, <3>2 DEF FinishUnregister, Safe, TypeOK, Request
  <2> QED
    BY <2>1, <2>2 DEF StartRequest, DropRequest, Safe, TypeOK
<1> QED
  BY <1>1, <1>2, <1>3 DEF Safe, TypeOK

LEMMA TickSafe == ASSUME Safe, Tick PROVE Safe'
<1>1. clock' \in Time
  BY NotificationAssumption DEF Tick, Safe, TypeOK, Time
<1> QED
  BY <1>1 DEF Tick, Safe, TypeOK

LEMMA SafeStep == Safe /\ [Next]_vars => Safe'
<1> SUFFICES ASSUME Safe, [Next]_vars PROVE Safe'
  OBVIOUS
<1>1. CASE UNCHANGED vars
  BY <1>1 DEF vars, Safe, TypeOK
<1>2. CASE Next
  BY <1>2, RequestSafe, StartSafe, CountSafe, PickBreakingSafe, PickSlotSafe, ClaimSafe, PushSafe,
     RestSafe, TickSafe DEF Next
<1> QED
  BY <1>1, <1>2

(* Runs, log, pushes and requests keep their shape.                        *)
THEOREM TypeCorrect == Spec => []TypeOK
<1>1. Safe => TypeOK
  BY DEF Safe
<1> QED
  BY <1>1, SafeInit, SafeStep, PTL DEF Spec

-----------------------------------------------------------------------------
(* What a run has yet to push for its row was not pushed before, and no    *)
(* other run pushes for that row.  The log has no two rows for one story   *)
(* and user.                                                               *)
FreshPushes ==
    /\ repeated = {}
    /\ \A r \in Run, d \in Device :
        run[r].pc = "push" /\ d \in run[r].left => <<run[r].row, d>> \notin pushed
    /\ \A r, q \in Run :
        run[r].pc = "push" /\ run[q].pc = "push" /\ run[r].row = run[q].row => r = q
    /\ \A a, b \in log :
        a.mode = "breaking" /\ b.mode = "breaking" /\ a.user = b.user /\ a.item = b.item => a = b

(* Steps that neither claim nor push.                                      *)
LEMMA FreshKept ==
    ASSUME Safe, FreshPushes, UNCHANGED <<log, pushed, repeated>>,
           \A r \in Run : run'[r] = run[r] \/ run'[r].pc # "push"
    PROVE  FreshPushes'
BY DEF FreshPushes

LEMMA FreshClaim == ASSUME Safe, FreshPushes, NEW r \in Run, Claim(r) PROVE FreshPushes'
<1> DEFINE x == run[r]
<1>1. x.pc = "claim" /\ x.row \in LogRow /\ x \in RunState
  BY DEF Claim, Safe, TypeOK, Ready
<1>2. CASE Claimed(x.row)
  <2> DEFINE lost == [x EXCEPT !.pc = "slots", !.row = NoRow, !.doomed = {}]
  <2>1. run'[r].pc = "slots" /\ \A q \in Run : q # r => run'[q] = run[q]
    <3>1. Moved(r, lost)
      BY <1>2 DEF Claim
    <3> HIDE DEF x
    <3>2. lost.pc = "slots"
      BY <1>1 DEF RunState
    <3> HIDE DEF lost
    <3> QED
      BY <3>1, <3>2 DEF Moved, Safe, TypeOK
  <2> QED
    BY <1>2, <2>1, FreshKept DEF Claim
<1>3. CASE ~Claimed(x.row)
  <2> DEFINE won == [x EXCEPT !.pc = "push", !.left = DevicesOf(x, x.user), !.doomed = {}]
  <2>1. /\ log' = log \cup {x.row} /\ UNCHANGED <<pushed, repeated>>
        /\ run'[r].row = x.row
        /\ \A q \in Run : q # r => run'[q] = run[q]
    <3>1. Moved(r, won) /\ log' = log \cup {x.row} /\ UNCHANGED <<pushed, repeated>>
      BY <1>3 DEF Claim
    <3> HIDE DEF x
    <3>2. won.row = x.row
      BY <1>1 DEF RunState
    <3> HIDE DEF won
    <3> QED
      BY <3>1, <3>2 DEF Moved, Safe, TypeOK
  <2>2. x.row \notin log
    BY <1>1, <1>3 DEF Claimed
  <2>3. \A d : <<x.row, d>> \notin pushed
    BY <2>2 DEF Safe, TypeOK
  <2>4. \A q \in Run : q # r /\ run[q].pc = "push" => run[q].row # x.row
    BY <2>2 DEF Safe, Ready
  <2>5. \A b \in log : x.row.mode = "breaking" /\ b.mode = "breaking"
            => ~(b.user = x.row.user /\ b.item = x.row.item)
    BY <1>3 DEF Claimed
  <2>6. \A a, b \in log' :
            a.mode = "breaking" /\ b.mode = "breaking" /\ a.user = b.user /\ a.item = b.item => a = b
    BY <2>1, <2>5 DEF FreshPushes
  <2>7. \A q \in Run, d \in Device :
            run'[q].pc = "push" /\ d \in run'[q].left => <<run'[q].row, d>> \notin pushed'
    BY <2>1, <2>3 DEF FreshPushes
  <2>8. \A p, q \in Run :
            run'[p].pc = "push" /\ run'[q].pc = "push" /\ run'[p].row = run'[q].row => p = q
    BY <2>1, <2>4 DEF FreshPushes
  <2> QED
    BY <2>1, <2>6, <2>7, <2>8 DEF FreshPushes
<1> QED
  BY <1>2, <1>3

LEMMA FreshPush ==
    ASSUME Safe, FreshPushes, NEW r \in Run, NEW d \in Device, NEW ok \in BOOLEAN, Push(r, d, ok)
    PROVE  FreshPushes'
<1> DEFINE x == run[r]
<1>1. x.pc = "push" /\ d \in x.left /\ x \in RunState
  BY DEF Push, Safe, TypeOK
<1>2. <<x.row, d>> \notin pushed
  BY <1>1 DEF FreshPushes
<1>3. repeated' = {} /\ pushed' = pushed \cup {<<x.row, d>>} /\ log' = log
  BY <1>2 DEF Push, FreshPushes
<1>4. /\ run'[r].left = x.left \ {d}
      /\ run'[r].pc = "push" => run'[r].row = x.row
      /\ \A q \in Run : q # r => run'[q] = run[q]
  BY <1>1 DEF Push, Moved, Safe, TypeOK, RunState
<1>5. \A q \in Run, e \in Device :
          run'[q].pc = "push" /\ e \in run'[q].left => <<run'[q].row, e>> \notin pushed'
  BY <1>1, <1>3, <1>4 DEF FreshPushes
<1>6. \A p, q \in Run :
          run'[p].pc = "push" /\ run'[q].pc = "push" /\ run'[p].row = run'[q].row => p = q
  BY <1>1, <1>4 DEF FreshPushes
<1> QED
  BY <1>3, <1>5, <1>6 DEF FreshPushes

(* The other steps of a run do not lead into its pushes.                   *)
LEMMA QuietMove ==
    ASSUME Safe, NEW r \in Run,
           \/ Start(r) \/ NextUser(r) \/ Finish(r) \/ Abort(r) \/ PickBreaking(r)
           \/ \E u \in User : CountBreaking(r, u)
           \/ \E s \in Slot : PickSlot(r, s)
    PROVE  \E new : new.pc # "push" /\ Moved(r, new)
<1> DEFINE x == run[r]
           breaking(s) == [mode |-> "breaking", user |-> x.user, item |-> s, at |-> x.now]
           daily(s) == [mode |-> "daily", user |-> x.user, item |-> s, at |-> x.now]
<1>1. x \in RunState
  BY DEF Safe, TypeOK
<1>2. CASE Start(r) \/ Finish(r) \/ Abort(r)
  BY <1>2 DEF Start, Finish, Abort, Idle
<1>3. CASE NextUser(r)
  <2>1. Moved(r, [x EXCEPT !.pc = "next", !.user = Nobody])
    BY <1>3 DEF NextUser
  <2> HIDE DEF x
  <2>2. [x EXCEPT !.pc = "next", !.user = Nobody].pc = "next"
    BY <1>1 DEF RunState
  <2> QED
    BY <2>1, <2>2
<1>4. CASE PickBreaking(r)
  <2>1. \/ \E s \in Story : Moved(r, [x EXCEPT !.pc = "claim", !.row = breaking(s)])
        \/ Moved(r, [x EXCEPT !.pc = "slots"])
    BY <1>4 DEF PickBreaking
  <2> HIDE DEF x
  <2>2. [x EXCEPT !.pc = "slots"].pc = "slots" /\ \A row : [x EXCEPT !.pc = "claim", !.row = row].pc = "claim"
    BY <1>1 DEF RunState
  <2> QED
    BY <2>1, <2>2
<1>5. ASSUME NEW u \in User, CountBreaking(r, u) PROVE \E new : new.pc # "push" /\ Moved(r, new)
  <2> DEFINE new == [x EXCEPT !.pc = IF BelowCap(u, x.now) THEN "pick" ELSE "slots",
                              !.user = u, !.todo = @ \ {u}, !.slots = {s \in Slot : Near(x.now, s)}]
  <2>1. Moved(r, new)
    BY <1>5 DEF CountBreaking
  <2> HIDE DEF x
  <2>2. new.pc # "push"
    BY <1>1 DEF RunState
  <2> QED
    BY <2>1, <2>2
<1>6. ASSUME NEW s \in Slot, PickSlot(r, s) PROVE \E new : new.pc # "push" /\ Moved(r, new)
  <2>1. \/ Moved(r, [x EXCEPT !.pc = "claim", !.slots = @ \ {s}, !.row = daily(s)])
        \/ Moved(r, [x EXCEPT !.slots = @ \ {s}])
    BY <1>6 DEF PickSlot
  <2>2. x.pc = "slots"
    BY <1>6 DEF PickSlot
  <2> HIDE DEF x
  <2>3. /\ [x EXCEPT !.slots = @ \ {s}].pc = "slots"
        /\ \A row : [x EXCEPT !.pc = "claim", !.slots = @ \ {s}, !.row = row].pc = "claim"
    BY <1>1, <2>2 DEF RunState
  <2> QED
    BY <2>1, <2>3
<1> QED
  BY <1>2, <1>3, <1>4, <1>5, <1>6

LEMMA FreshStep == Safe /\ FreshPushes /\ [Next]_vars => FreshPushes'
<1> SUFFICES ASSUME Safe, FreshPushes, [Next]_vars PROVE FreshPushes'
  OBVIOUS
<1>1. CASE UNCHANGED vars
  BY <1>1 DEF vars, FreshPushes
<1>2. ASSUME NEW c \in Client,
             \/ \E op \in {"register", "unregister"}, d \in Device, u \in User : StartRequest(c, op, d, u)
             \/ FinishRegister(c) \/ FinishUnregister(c) \/ DropRequest(c)
      PROVE  FreshPushes'
  BY <1>2, RequestSafe, FreshKept
<1>3. ASSUME NEW r \in Run,
             \/ Start(r) \/ NextUser(r) \/ Finish(r) \/ Abort(r) \/ PickBreaking(r)
             \/ \E u \in User : CountBreaking(r, u)
             \/ \E s \in Slot : PickSlot(r, s)
      PROVE  FreshPushes'
  <2>1. UNCHANGED <<log, pushed, repeated>>
    BY <1>3 DEF Start, NextUser, Finish, Abort, PickBreaking, CountBreaking, PickSlot
  <2>2. \E new : new.pc # "push" /\ Moved(r, new)
    BY <1>3, QuietMove
  <2>3. \A q \in Run : run'[q] = run[q] \/ run'[q].pc # "push"
    BY <2>2 DEF Moved, Safe, TypeOK
  <2> QED
    BY <2>1, <2>3, FreshKept
<1>4. CASE Tick
  BY <1>4, FreshKept DEF Tick
<1> QED
  BY <1>1, <1>2, <1>3, <1>4, FreshClaim, FreshPush DEF Next

(* No device is sent the same alert or digest twice, however many runs     *)
(* overlap and wherever they stop (_claim, then _send).                    *)
THEOREM NothingPushedTwice == Spec => []PushedOnce
<1>1. Init => FreshPushes
  BY IdleType DEF Init, FreshPushes, Idle
<1>2. Safe /\ FreshPushes => PushedOnce
  <2> SUFFICES ASSUME Safe, FreshPushes PROVE PushedOnce
    OBVIOUS
  <2>1. ASSUME NEW p \in pushed, NEW q \in pushed, p[1].mode = "breaking", q[1].mode = "breaking",
               p[2] = q[2], p[1].user = q[1].user, p[1].item = q[1].item
        PROVE  p = q
    <3>1. p[1] \in log /\ q[1] \in log /\ p = <<p[1], p[2]>> /\ q = <<q[1], q[2]>>
      BY DEF Safe, TypeOK
    <3> QED
      BY <2>1, <3>1 DEF FreshPushes
  <2> QED
    BY <2>1 DEF PushedOnce, FreshPushes
<1> QED
  BY <1>1, <1>2, SafeInit, SafeStep, FreshStep, PTL DEF Spec

-----------------------------------------------------------------------------
Alerts(u, t) == {row \in log : row.mode = "breaking" /\ row.user = u /\ DayOf(row.at) = DayOf(t)}

\* Has counted on that day and may still claim.
HasCounted(x, u, t) ==
    /\ x.user = u /\ DayOf(x.now) = DayOf(t)
    /\ x.pc = "pick" \/ (x.pc = "claim" /\ x.row.mode = "breaking")
Counted(u, t) == {r \in Run : HasCounted(run[r], u, t)}

Headroom ==
    /\ IsFiniteSet(log)
    /\ \A u \in User, t \in Time :
        \/ Cardinality(Alerts(u, t)) < Cap
        \/ Cardinality(Alerts(u, t)) + Cardinality(Counted(u, t)) <= Cap + Cardinality(Run) - 1

LEMMA DayType == \A t \in Time : DayOf(t) \in Int
BY TimeType, NotificationAssumption DEF DayOf

LEMMA CountsAreNumbers ==
    ASSUME IsFiniteSet(log), NEW u, NEW t
    PROVE  /\ IsFiniteSet(Alerts(u, t)) /\ Cardinality(Alerts(u, t)) \in Nat
           /\ IsFiniteSet(Counted(u, t)) /\ Cardinality(Counted(u, t)) \in Nat
           /\ Cardinality(Run) \in Nat
<1>1. Alerts(u, t) \subseteq log /\ Counted(u, t) \subseteq Run
  BY DEF Alerts, Counted
<1> QED
  BY <1>1, FS_Subset, FS_CardinalityType, NotificationAssumption

(* Steps that log no alert and let no run join those that have counted.    *)
LEMMA HeadroomKept ==
    ASSUME Safe, Headroom, IsFiniteSet(log'),
           NEW u \in User, NEW t \in Time,
           Alerts(u, t)' = Alerts(u, t), Counted(u, t)' \subseteq Counted(u, t)
    PROVE  \/ Cardinality(Alerts(u, t)') < Cap
           \/ Cardinality(Alerts(u, t)') + Cardinality(Counted(u, t)') <= Cap + Cardinality(Run) - 1
<1>1. Cardinality(Counted(u, t)') <= Cardinality(Counted(u, t)) /\ Cardinality(Counted(u, t)') \in Nat
  BY CountsAreNumbers, FS_Subset, FS_CardinalityType DEF Headroom
<1> QED
  BY <1>1, CountsAreNumbers, NotificationAssumption DEF Headroom

LEMMA HeadroomCount ==
    ASSUME Safe, Headroom, NEW r \in Run, NEW v \in User, CountBreaking(r, v)
    PROVE  Headroom'
<1> DEFINE x == run[r]
           new == [x EXCEPT !.pc = IF BelowCap(v, x.now) THEN "pick" ELSE "slots",
                            !.user = v, !.todo = @ \ {v}, !.slots = {s \in Slot : Near(x.now, s)}]
<1>1. x \in RunState /\ x.pc = "next" /\ Moved(r, new) /\ log' = log
  BY DEF CountBreaking, Safe, TypeOK
<1>2. IsFiniteSet(log')
  BY <1>1 DEF Headroom
<1>3. ASSUME NEW u \in User, NEW t \in Time
      PROVE  \/ Cardinality(Alerts(u, t)') < Cap
             \/ Cardinality(Alerts(u, t)') + Cardinality(Counted(u, t)') <= Cap + Cardinality(Run) - 1
  <2>1. Alerts(u, t)' = Alerts(u, t)
    BY <1>1 DEF Alerts
  <2>2. CASE BelowCap(v, x.now) /\ u = v /\ DayOf(x.now) = DayOf(t)
    <3>1. Alerts(u, t) \subseteq SentToday("breaking", v, x.now)
      BY <2>2, DayType, <1>1 DEF Alerts, SentToday, Safe, TypeOK, LogRow, RunState
    <3>2. IsFiniteSet(SentToday("breaking", v, x.now))
      BY FS_Subset DEF SentToday, Headroom
    <3>3. Cardinality(Alerts(u, t)) <= Cardinality(SentToday("breaking", v, x.now))
          /\ Cardinality(SentToday("breaking", v, x.now)) \in Nat
      BY <3>1, <3>2, FS_Subset, FS_CardinalityType
    <3> QED
      BY <2>1, <2>2, <3>3, CountsAreNumbers, NotificationAssumption DEF BelowCap, Headroom
  <2>3. CASE ~(BelowCap(v, x.now) /\ u = v /\ DayOf(x.now) = DayOf(t))
    <3>1. new.user = v /\ new.now = x.now /\ new.pc = IF BelowCap(v, x.now) THEN "pick" ELSE "slots"
      <4> HIDE DEF x
      <4> QED
        BY <1>1 DEF RunState
    <3>2. ~HasCounted(new, u, t)
      BY <2>3, <3>1 DEF HasCounted
    <3> HIDE DEF new
    <3>3. Counted(u, t)' \subseteq Counted(u, t)
      BY <1>1, <3>2 DEF Counted, Moved, Safe, TypeOK
    <3> QED
      BY <1>2, <2>1, <3>3, HeadroomKept
  <2> QED
    BY <2>2, <2>3
<1> QED
  BY <1>2, <1>3 DEF Headroom

LEMMA HeadroomClaim == ASSUME Safe, Headroom, NEW r \in Run, Claim(r) PROVE Headroom'
<1> DEFINE x == run[r]
<1>1. x \in RunState /\ x.pc = "claim" /\ x.row \in LogRow /\ x.row.user = x.user /\ x.row.at = x.now
  BY DEF Claim, Safe, TypeOK, Ready
<1>2. \E new : new.pc # "claim" /\ new.pc # "pick" /\ Moved(r, new)
  <2> DEFINE lost == [x EXCEPT !.pc = "slots", !.row = NoRow, !.doomed = {}]
             won == [x EXCEPT !.pc = "push", !.left = DevicesOf(x, x.user), !.doomed = {}]
  <2>1. Moved(r, lost) \/ Moved(r, won)
    BY DEF Claim
  <2> HIDE DEF x
  <2>2. lost.pc = "slots" /\ won.pc = "push"
    BY <1>1 DEF RunState
  <2> QED
    BY <2>1, <2>2
<1>3. log' = log \/ log' = log \cup {x.row}
  BY DEF Claim
<1>4. IsFiniteSet(log')
  BY <1>3, FS_AddElement DEF Headroom
<1>5. ASSUME NEW u \in User, NEW t \in Time
      PROVE  \/ Cardinality(Alerts(u, t)') < Cap
             \/ Cardinality(Alerts(u, t)') + Cardinality(Counted(u, t)') <= Cap + Cardinality(Run) - 1
  <2>1. Counted(u, t)' \subseteq Counted(u, t) \ {r}
    BY <1>2 DEF Counted, HasCounted, Moved, Safe, TypeOK
  <2>2. CASE Alerts(u, t)' = Alerts(u, t)
    BY <1>4, <2>1, <2>2, HeadroomKept
  <2>3. CASE Alerts(u, t)' # Alerts(u, t)
    <3>1. x.row.mode = "breaking" /\ x.row.user = u /\ DayOf(x.row.at) = DayOf(t)
          /\ Alerts(u, t)' = Alerts(u, t) \cup {x.row} /\ x.row \notin Alerts(u, t)
      BY <1>3, <2>3 DEF Alerts
    <3>2. r \in Counted(u, t)
      BY <1>1, <3>1 DEF Counted, HasCounted
    <3>3. Cardinality(Alerts(u, t)') = Cardinality(Alerts(u, t)) + 1
      BY <3>1, CountsAreNumbers, FS_AddElement DEF Headroom
    <3>4. /\ Cardinality(Counted(u, t) \ {r}) = Cardinality(Counted(u, t)) - 1
          /\ IsFiniteSet(Counted(u, t) \ {r})
          /\ Cardinality(Run \ {r}) = Cardinality(Run) - 1 /\ IsFiniteSet(Run \ {r})
      BY <3>2, CountsAreNumbers, FS_RemoveElement, NotificationAssumption DEF Headroom
    <3>5. Cardinality(Counted(u, t)') <= Cardinality(Counted(u, t)) - 1
      BY <2>1, <3>4, FS_Subset
    <3>6. Counted(u, t)' \subseteq Run \ {r}
      BY <2>1 DEF Counted
    <3>7. Cardinality(Counted(u, t)') <= Cardinality(Run) - 1 /\ Cardinality(Counted(u, t)') \in Nat
      BY <3>4, <3>6, FS_Subset, FS_CardinalityType
    <3> QED
      BY <3>3, <3>5, <3>7, CountsAreNumbers, NotificationAssumption DEF Headroom
  <2> QED
    BY <2>2, <2>3
<1> QED
  BY <1>4, <1>5 DEF Headroom

(* The other steps: the log stays, and what a run becomes has counted only *)
(* if the run had.                                                         *)
LEMMA HeadroomQuiet ==
    ASSUME Safe, Headroom, log' = log,
           \A r \in Run : \A u \in User : \A t \in Time :
               HasCounted(run'[r], u, t) => HasCounted(run[r], u, t)
    PROVE  Headroom'
<1>1. \A u \in User, t \in Time : Alerts(u, t)' = Alerts(u, t)
  BY DEF Alerts
<1>2. \A u \in User, t \in Time : Counted(u, t)' \subseteq Counted(u, t)
  BY DEF Counted
<1> QED
  BY <1>1, <1>2, HeadroomKept DEF Headroom

LEMMA HeadroomRun ==
    ASSUME Safe, Headroom, NEW r \in Run,
           \/ Start(r) \/ NextUser(r) \/ Finish(r) \/ Abort(r) \/ PickBreaking(r)
           \/ \E s \in Slot : PickSlot(r, s)
           \/ \E d \in Device, ok \in BOOLEAN : Push(r, d, ok)
    PROVE  Headroom'
<1> DEFINE x == run[r]
           breaking(s) == [mode |-> "breaking", user |-> x.user, item |-> s, at |-> x.now]
           daily(s) == [mode |-> "daily", user |-> x.user, item |-> s, at |-> x.now]
           pushing(d, ok) == [x EXCEPT !.left = x.left \ {d}, !.doomed = IF ok THEN @ ELSE @ \cup {d},
                                       !.pc = IF x.left \ {d} = {} THEN "slots" ELSE "push",
                                       !.row = IF x.left \ {d} = {} THEN NoRow ELSE @]
<1>1. x \in RunState /\ log' = log
  BY DEF Safe, TypeOK, Start, NextUser, Finish, Abort, PickBreaking, PickSlot, Push
<1>2. ASSUME NEW new, Moved(r, new), \A u \in User, t \in Time : HasCounted(new, u, t) => HasCounted(x, u, t)
      PROVE  Headroom'
  <2>1. \A q \in Run : \A u \in User : \A t \in Time : HasCounted(run'[q], u, t) => HasCounted(run[q], u, t)
    BY <1>2 DEF Moved, Safe, TypeOK
  <2> QED
    BY <1>1, <2>1, HeadroomQuiet
<1>3. ASSUME NEW new, Moved(r, new), new.pc \notin {"pick", "claim"} PROVE Headroom'
  BY <1>2, <1>3 DEF HasCounted
<1>4. CASE Start(r) \/ Finish(r) \/ Abort(r)
  BY <1>3, <1>4 DEF Start, Finish, Abort, Idle
<1>5. CASE NextUser(r)
  <2>1. Moved(r, [x EXCEPT !.pc = "next", !.user = Nobody])
    BY <1>5 DEF NextUser
  <2> HIDE DEF x
  <2>2. [x EXCEPT !.pc = "next", !.user = Nobody].pc = "next"
    BY <1>1 DEF RunState
  <2> QED
    BY <1>3, <2>1, <2>2
<1>6. CASE PickBreaking(r)
  <2>1. \/ \E s \in Story : Moved(r, [x EXCEPT !.pc = "claim", !.row = breaking(s)])
        \/ Moved(r, [x EXCEPT !.pc = "slots"])
    BY <1>6 DEF PickBreaking
  <2>2. x.pc = "pick"
    BY <1>6 DEF PickBreaking
  <2> HIDE DEF x
  <2>3. [x EXCEPT !.pc = "slots"].pc = "slots"
    BY <1>1 DEF RunState
  <2>4. \A row : \A u \in User, t \in Time :
            HasCounted([x EXCEPT !.pc = "claim", !.row = row], u, t) => HasCounted(x, u, t)
    BY <1>1, <2>2 DEF RunState, HasCounted
  <2> QED
    BY <1>2, <1>3, <2>1, <2>3, <2>4
<1>7. ASSUME NEW s \in Slot, PickSlot(r, s) PROVE Headroom'
  <2>1. \/ Moved(r, [x EXCEPT !.pc = "claim", !.slots = @ \ {s}, !.row = daily(s)])
        \/ Moved(r, [x EXCEPT !.slots = @ \ {s}])
    BY <1>7 DEF PickSlot
  <2>2. x.pc = "slots"
    BY <1>7 DEF PickSlot
  <2>3. daily(s).mode # "breaking"
    OBVIOUS
  <2> HIDE DEF x, daily
  <2>4. [x EXCEPT !.slots = @ \ {s}].pc = "slots"
    BY <1>1, <2>2 DEF RunState
  <2>5. \A u \in User, t \in Time : ~HasCounted([x EXCEPT !.pc = "claim", !.slots = @ \ {s}, !.row = daily(s)], u, t)
    BY <1>1, <2>3 DEF RunState, HasCounted
  <2> QED
    BY <1>2, <1>3, <2>1, <2>4, <2>5
<1>8. ASSUME NEW d \in Device, NEW ok \in BOOLEAN, Push(r, d, ok) PROVE Headroom'
  <2>1. Moved(r, pushing(d, ok))
    BY <1>8 DEF Push
  <2> HIDE DEF x
  <2>2. pushing(d, ok).pc \notin {"pick", "claim"}
    BY <1>1 DEF RunState
  <2> QED
    BY <1>3, <2>1, <2>2
<1> QED
  BY <1>4, <1>5, <1>6, <1>7, <1>8

LEMMA HeadroomStep == Safe /\ Headroom /\ [Next]_vars => Headroom'
<1> SUFFICES ASSUME Safe, Headroom, [Next]_vars PROVE Headroom'
  OBVIOUS
<1>1. CASE UNCHANGED vars
  BY <1>1, HeadroomQuiet DEF vars
<1>2. ASSUME NEW c \in Client,
             \/ \E op \in {"register", "unregister"}, d \in Device, u \in User : StartRequest(c, op, d, u)
             \/ FinishRegister(c) \/ FinishUnregister(c) \/ DropRequest(c)
      PROVE  Headroom'
  BY <1>2, RequestSafe, HeadroomQuiet
<1>3. CASE Tick
  BY <1>3, HeadroomQuiet DEF Tick
<1> QED
  BY <1>1, <1>2, <1>3, HeadroomCount, HeadroomClaim, HeadroomRun DEF Next

(* Alerts per user and day exceed the cap by the number of runs that       *)
(* overlap, less one, at most (main: the count, then _claim).              *)
THEOREM CapHolds == Spec => []CapUpToOverlap
<1>1. Cardinality(Run) \in Nat /\ Cardinality(Run) >= 1
  BY FS_CardinalityType, FS_EmptySet, NotificationAssumption
<1>2. Init => Headroom
  <2> SUFFICES ASSUME Init PROVE Headroom
    OBVIOUS
  <2>1. \A u \in User, t \in Time : Alerts(u, t) = {}
    BY DEF Init, Alerts
  <2>2. IsFiniteSet(log)
    BY FS_EmptySet DEF Init
  <2>3. Cardinality({}) < Cap
    BY FS_EmptySet, NotificationAssumption
  <2> QED
    BY <2>1, <2>2, <2>3 DEF Headroom
<1>3. Safe /\ Headroom => CapUpToOverlap
  <2> SUFFICES ASSUME Safe, Headroom, NEW u \in User, NEW t \in Time
               PROVE  Cardinality(Alerts(u, t)) <= Cap + Cardinality(Run) - 1
    BY DEF CapUpToOverlap, Alerts
  <2> QED
    BY <1>1, CountsAreNumbers, NotificationAssumption DEF Headroom
<1> QED
  BY <1>2, <1>3, SafeInit, SafeStep, HeadroomStep, PTL DEF Spec
-----------------------------------------------------------------------------
(* A slot's occurrences.  Every start is a Spacing after the one before;   *)
(* a row carries the start of its run, which is in the window of its slot. *)
Starts == {row.at : row \in log} \cup {run[r].now : r \in {q \in Run : run[q].pc # "off"}}
Spaced == \A t, u \in Starts : t <= lastStart /\ (t < u => u - t >= Spacing)
InWindow(x) == /\ \A s \in x.slots : Near(x.now, s)
               /\ x.pc = "claim" /\ x.row.mode = "daily" => Near(x.row.at, x.row.item)
Windows == /\ \A r \in Run : InWindow(run[r])
           /\ \A a \in log : a.mode = "daily" => Near(a.at, a.item)

LEMMA RowFields ==
    ASSUME NEW a \in LogRow
    PROVE  a.at \in Time /\ (a.mode = "daily" => a.item \in Slot)
<1>1. CASE a \in [mode: {"breaking"}, user: User, item: Story, at: Time]
  BY <1>1
<1>2. CASE a \in [mode: {"daily"}, user: User, item: Slot, at: Time]
  BY <1>2
<1> QED
  BY <1>1, <1>2 DEF LogRow

LEMMA DivMod ==
    ASSUME NEW t \in Int, NEW d \in Nat \ {0}
    PROVE  t = d * (t \div d) + (t % d) /\ t % d \in 0 .. d - 1 /\ t \div d \in Int
  OBVIOUS

LEMMA NextDay ==
    ASSUME NEW d \in Nat, NEW k \in Int
    PROVE  d * (k + 1) = d * k + d /\ d * (k - 1) = d * k - d /\ d * k \in Int
  OBVIOUS

LEMMA LaterDays ==
    ASSUME NEW d \in Nat, NEW k \in Int, NEW l \in Int
    PROVE  /\ l <= k => d * l <= d * k
           /\ l > k => d * l >= d * k + d
<1>1. l <= k => d * l <= d * k
  OBVIOUS
<1>2. k + 1 <= l => d * (k + 1) <= d * l
  OBVIOUS
<1> QED
  BY <1>1, <1>2, NextDay

(* A time in the window of a slot is a window from the slot of some day.   *)
LEMMA NearIsNear ==
    ASSUME NEW t \in Int, NEW s \in Slot, Near(t, s)
    PROVE  \E k \in Int, e \in -Window .. Window : t = DayLen * k + s + e
<1> DEFINE q == t \div DayLen
           m == t % DayLen
<1>1. t = DayLen * q + m /\ m \in 0 .. DayLen - 1 /\ q \in Int /\ s \in 0 .. DayLen - 1
  BY DivMod, NotificationAssumption
<1>2. DayLen * (q + 1) = DayLen * q + DayLen /\ DayLen * (q - 1) = DayLen * q - DayLen /\ DayLen * q \in Int
  BY <1>1, NextDay, NotificationAssumption
<1>3. Apart(t, s) = IF m < s THEN s - m ELSE m - s
  BY DEF Apart
<1> HIDE DEF q, m
<1>4. Window \in Nat /\ DayLen \in Nat
  BY NotificationAssumption
<1>5. CASE Apart(t, s) <= Window
  <2>1. m - s \in -Window .. Window /\ t = DayLen * q + s + (m - s)
    BY <1>1, <1>2, <1>3, <1>4, <1>5
  <2> QED
    BY <1>1, <2>1
<1>6. CASE DayLen - Apart(t, s) <= Window /\ m < s
  <2>1. m - s + DayLen \in -Window .. Window /\ t = DayLen * (q - 1) + s + (m - s + DayLen)
    BY <1>1, <1>2, <1>3, <1>4, <1>6
  <2>2. q - 1 \in Int
    BY <1>1
  <2> QED
    BY <2>1, <2>2
<1>7. CASE DayLen - Apart(t, s) <= Window /\ ~(m < s)
  <2>1. m - s - DayLen \in -Window .. Window /\ t = DayLen * (q + 1) + s + (m - s - DayLen)
    BY <1>1, <1>2, <1>3, <1>4, <1>7
  <2>2. q + 1 \in Int
    BY <1>1
  <2> QED
    BY <2>1, <2>2
<1> QED
  BY <1>5, <1>6, <1>7 DEF Near

LEMMA OccurrencesApart ==
    ASSUME NEW t \in Int, NEW u \in Int, NEW s \in Slot, Near(t, s), Near(u, s), u - t > 2 * Window
    PROVE  u - t >= DayLen - 2 * Window
<1>1. PICK k \in Int, e \in -Window .. Window : t = DayLen * k + s + e
  BY NearIsNear
<1>2. PICK l \in Int, f \in -Window .. Window : u = DayLen * l + s + f
  BY NearIsNear
<1>3. /\ DayLen * k \in Int /\ DayLen * l \in Int /\ s \in Int /\ DayLen \in Int /\ Window \in Nat
      /\ l <= k => DayLen * l <= DayLen * k
      /\ l > k => DayLen * l >= DayLen * k + DayLen
  BY NextDay, LaterDays, NotificationAssumption
<1>4. l > k
  BY <1>1, <1>2, <1>3
<1> QED
  BY <1>1, <1>2, <1>3, <1>4

(* Every run step but a start keeps the time of its run, and what the run  *)
(* has in mind stays in the window.                                        *)
LEMMA RunInWindow ==
    ASSUME Safe, Windows, NEW r \in Run,
           \/ Claim(r) \/ NextUser(r) \/ Finish(r) \/ Abort(r) \/ PickBreaking(r)
           \/ \E u \in User : CountBreaking(r, u)
           \/ \E s \in Slot : PickSlot(r, s)
           \/ \E d \in Device, ok \in BOOLEAN : Push(r, d, ok)
    PROVE  \E new : /\ Moved(r, new) /\ InWindow(new)
                    /\ new.pc # "off" => run[r].pc # "off" /\ new.now = run[r].now
<1> DEFINE x == run[r]
           Fit(new) == InWindow(new) /\ (new.pc # "off" => x.pc # "off" /\ new.now = x.now)
           breaking(s) == [mode |-> "breaking", user |-> x.user, item |-> s, at |-> x.now]
           daily(s) == [mode |-> "daily", user |-> x.user, item |-> s, at |-> x.now]
<1> SUFFICES \E new : Moved(r, new) /\ Fit(new)
  OBVIOUS
<1>1. x \in RunState /\ InWindow(x)
  BY DEF Safe, TypeOK, Windows
<1>2. CASE Finish(r) \/ Abort(r)
  <2>1. Fit(Idle)
    BY DEF Idle, InWindow
  <2> HIDE DEF Fit
  <2> QED
    BY <1>2, <2>1 DEF Finish, Abort
<1>3. CASE Claim(r)
  <2> DEFINE lost == [x EXCEPT !.pc = "slots", !.row = NoRow, !.doomed = {}]
             won == [x EXCEPT !.pc = "push", !.left = DevicesOf(x, x.user), !.doomed = {}]
  <2>1. (Moved(r, lost) \/ Moved(r, won)) /\ x.pc = "claim"
    BY <1>3 DEF Claim
  <2> HIDE DEF x
  <2>2. Fit(lost) /\ Fit(won)
    BY <1>1, <2>1 DEF RunState, InWindow
  <2> HIDE DEF Fit
  <2> QED
    BY <2>1, <2>2
<1>4. CASE NextUser(r)
  <2> DEFINE new == [x EXCEPT !.pc = "next", !.user = Nobody]
  <2>1. Moved(r, new) /\ x.pc = "slots"
    BY <1>4 DEF NextUser
  <2> HIDE DEF x
  <2>2. Fit(new)
    BY <1>1, <2>1 DEF RunState, InWindow
  <2> HIDE DEF Fit
  <2> QED
    BY <2>1, <2>2
<1>5. CASE PickBreaking(r)
  <2>1. /\ (\E s \in Story : Moved(r, [x EXCEPT !.pc = "claim", !.row = breaking(s)]))
           \/ Moved(r, [x EXCEPT !.pc = "slots"])
        /\ x.pc = "pick"
    BY <1>5 DEF PickBreaking
  <2>2. \A s : breaking(s).mode = "breaking"
    OBVIOUS
  <2> HIDE DEF x, breaking
  <2>3. Fit([x EXCEPT !.pc = "slots"]) /\ \A s : Fit([x EXCEPT !.pc = "claim", !.row = breaking(s)])
    BY <1>1, <2>1, <2>2 DEF RunState, InWindow
  <2> HIDE DEF Fit
  <2> QED
    BY <2>1, <2>3
<1>6. ASSUME NEW u \in User, CountBreaking(r, u) PROVE \E new : Moved(r, new) /\ Fit(new)
  <2> DEFINE new == [x EXCEPT !.pc = IF BelowCap(u, x.now) THEN "pick" ELSE "slots",
                              !.user = u, !.todo = @ \ {u}, !.slots = {s \in Slot : Near(x.now, s)}]
  <2>1. Moved(r, new) /\ x.pc = "next"
    BY <1>6 DEF CountBreaking
  <2> HIDE DEF x
  <2>2. Fit(new)
    BY <1>1, <2>1 DEF RunState, InWindow
  <2> HIDE DEF Fit
  <2> QED
    BY <2>1, <2>2
<1>7. ASSUME NEW s \in Slot, PickSlot(r, s) PROVE \E new : Moved(r, new) /\ Fit(new)
  <2>1. /\ \/ Moved(r, [x EXCEPT !.pc = "claim", !.slots = @ \ {s}, !.row = daily(s)])
           \/ Moved(r, [x EXCEPT !.slots = @ \ {s}])
        /\ x.pc = "slots" /\ s \in x.slots
    BY <1>7 DEF PickSlot
  <2>2. daily(s).at = x.now /\ daily(s).item = s
    OBVIOUS
  <2> HIDE DEF x, daily
  <2>3. /\ Fit([x EXCEPT !.slots = @ \ {s}])
        /\ Fit([x EXCEPT !.pc = "claim", !.slots = @ \ {s}, !.row = daily(s)])
    BY <1>1, <2>1, <2>2 DEF RunState, InWindow
  <2> HIDE DEF Fit
  <2> QED
    BY <2>1, <2>3
<1>8. ASSUME NEW d \in Device, NEW ok \in BOOLEAN, Push(r, d, ok) PROVE \E new : Moved(r, new) /\ Fit(new)
  <2> DEFINE new == [x EXCEPT !.left = x.left \ {d}, !.doomed = IF ok THEN @ ELSE @ \cup {d},
                              !.pc = IF x.left \ {d} = {} THEN "slots" ELSE "push",
                              !.row = IF x.left \ {d} = {} THEN NoRow ELSE @]
  <2>1. Moved(r, new) /\ x.pc = "push"
    BY <1>8 DEF Push
  <2> HIDE DEF x
  <2>2. Fit(new)
    BY <1>1, <2>1 DEF RunState, InWindow
  <2> HIDE DEF Fit
  <2> QED
    BY <2>1, <2>2
<1> QED
  BY <1>2, <1>3, <1>4, <1>5, <1>6, <1>7, <1>8

(* What a run claims is of its time and window.                            *)
LEMMA LogGrows ==
    ASSUME Safe, NEW r \in Run,
           \/ Claim(r) \/ NextUser(r) \/ Finish(r) \/ Abort(r) \/ PickBreaking(r)
           \/ \E u \in User : CountBreaking(r, u)
           \/ \E s \in Slot : PickSlot(r, s)
           \/ \E d \in Device, ok \in BOOLEAN : Push(r, d, ok)
    PROVE  /\ lastStart' = lastStart
           /\ \A a \in log' \ log : a = run[r].row /\ run[r].pc = "claim" /\ a.at = run[r].now
  BY DEF Safe, TypeOK, Ready, Claim, NextUser, Finish, Abort, PickBreaking, CountBreaking, PickSlot, Push

LEMMA SpacedStep == Safe /\ Windows /\ Spaced /\ [Next]_vars => Windows' /\ Spaced'
<1> SUFFICES ASSUME Safe, Windows, Spaced, [Next]_vars PROVE Windows' /\ Spaced'
  OBVIOUS
<1>1. ASSUME lastStart' = lastStart, log' = log, run' = run PROVE Windows' /\ Spaced'
  BY <1>1 DEF Windows, Spaced, Starts
<1>2. ASSUME NEW c \in Client,
             \/ \E op \in {"register", "unregister"}, d \in Device, u \in User : StartRequest(c, op, d, u)
             \/ FinishRegister(c) \/ FinishUnregister(c) \/ DropRequest(c)
      PROVE  Windows' /\ Spaced'
  BY <1>1, <1>2, RequestSafe
<1>3. ASSUME NEW r \in Run, Start(r) PROVE Windows' /\ Spaced'
  <2>1. PICK new : Moved(r, new) /\ new.now = clock /\ new.pc = "next" /\ new.slots = {}
    <3> DEFINE new == [Idle EXCEPT !.pc = "next", !.now = clock, !.held = device,
                                   !.todo = {u \in User : \E d \in Device : device[d].owner = u}]
    <3>1. Moved(r, new)
      BY <1>3 DEF Start
    <3>2. new.now = clock /\ new.pc = "next" /\ new.slots = {}
      BY DEF Idle
    <3> HIDE DEF new
    <3> QED
      BY <3>1, <3>2
  <2>2. log' = log /\ lastStart' = clock /\ clock >= lastStart + Spacing
    BY <1>3 DEF Start
  <2>3. Windows'
    BY <2>1, <2>2 DEF Windows, InWindow, Moved, Safe, TypeOK
  <2>4. Starts' \subseteq Starts \cup {clock}
    BY <2>1, <2>2 DEF Starts, Moved, Safe, TypeOK
  <2>5. Spaced'
    <3>1. /\ \A t \in Starts : t \in Int /\ t <= lastStart
          /\ clock \in Int /\ lastStart \in Int /\ Spacing \in Nat
      <4>1. clock \in Int /\ lastStart \in Int /\ Spacing \in Nat
        BY TimeType, NotificationAssumption DEF Safe, TypeOK
      <4>2. (\A a \in log : a.at \in Int) /\ (\A q \in Run : run[q].now \in Int)
        <5>1. \A a \in log : a \in LogRow
          BY DEF Safe, TypeOK
        <5>2. \A a \in log : a.at \in Time
          BY <5>1, RowFields
        <5>3. \A q \in Run : run[q].now \in Time
          BY DEF Safe, TypeOK, RunState
        <5> QED
          BY <5>2, <5>3, NotificationAssumption DEF Time
      <4>3. \A t \in Starts : t \in Int
        BY <4>2 DEF Starts
      <4> QED
        BY <4>1, <4>3 DEF Spaced
    <3> HIDE DEF Starts
    <3>2. \A t \in Starts : t + Spacing <= clock /\ t <= clock
      BY <2>2, <3>1
    <3> QED
      BY <2>2, <2>4, <3>1, <3>2 DEF Spaced
  <2> QED
    BY <2>3, <2>5
<1>4. ASSUME NEW r \in Run,
             \/ Claim(r) \/ NextUser(r) \/ Finish(r) \/ Abort(r) \/ PickBreaking(r)
             \/ \E u \in User : CountBreaking(r, u)
             \/ \E s \in Slot : PickSlot(r, s)
             \/ \E d \in Device, ok \in BOOLEAN : Push(r, d, ok)
      PROVE  Windows' /\ Spaced'
  <2>1. PICK new : /\ Moved(r, new) /\ InWindow(new)
                   /\ new.pc # "off" => run[r].pc # "off" /\ new.now = run[r].now
    BY <1>4, RunInWindow
  <2>2. /\ lastStart' = lastStart
        /\ \A a \in log' \ log : a = run[r].row /\ run[r].pc = "claim" /\ a.at = run[r].now
    BY <1>4, LogGrows
  <2>3. Windows'
    <3>1. \A a \in log' : a.mode = "daily" => Near(a.at, a.item)
      BY <2>2 DEF Windows, InWindow
    <3>2. \A q \in Run : InWindow(run'[q])
      BY <2>1 DEF Windows, Moved, Safe, TypeOK
    <3> QED
      BY <3>1, <3>2 DEF Windows
  <2>4. Starts' \subseteq Starts
    <3>1. \A a \in log' : a.at \in Starts
      BY <2>2 DEF Starts
    <3>2. \A q \in Run : run'[q].pc # "off" => run'[q].now \in Starts
      BY <2>1 DEF Starts, Moved, Safe, TypeOK
    <3> QED
      BY <3>1, <3>2 DEF Starts
  <2>5. Spaced'
    BY <2>2, <2>4 DEF Spaced
  <2> QED
    BY <2>3, <2>5
<1>5. CASE Tick \/ UNCHANGED vars
  BY <1>1, <1>5 DEF Tick, vars
<1> QED
  BY <1>2, <1>3, <1>4, <1>5 DEF Next

(* ServedOncePerOccurrence: where two runs start more than two windows     *)
(* apart, no alert and no digest goes out twice: also not the digest of a  *)
(* slot whose window reaches across midnight, where the index that makes   *)
(* _claim unique sees two days.                                            *)
THEOREM ServedOncePerOccurrence ==
    ASSUME Spacing > 2 * Window
    PROVE  Spec => []ServedOnce
<1>1. Init => Windows /\ Spaced
  BY DEF Init, Windows, Spaced, Starts, Idle, InWindow
<1>2. Safe /\ Windows /\ Spaced => SlotOncePerOccurrence
  <2> SUFFICES ASSUME Safe, Windows, Spaced, NEW a \in log, NEW b \in log, a.mode = "daily", b.mode = "daily",
                      a.item = b.item, a.at < b.at
               PROVE  b.at - a.at >= DayLen - 2 * Window
    BY DEF SlotOncePerOccurrence
  <2>1. a.at \in Int /\ b.at \in Int /\ a.item \in Slot
    <3>1. a \in LogRow /\ b \in LogRow
      BY DEF Safe, TypeOK
    <3>2. a.at \in Time /\ b.at \in Time /\ a.item \in Slot
      BY <3>1, RowFields
    <3> QED
      BY <3>2, NotificationAssumption DEF Time
  <2>2. b.at - a.at >= Spacing
    BY DEF Spaced, Starts
  <2>3. Near(a.at, a.item) /\ Near(b.at, a.item)
    BY DEF Windows
  <2>4. b.at - a.at > 2 * Window
    BY <2>1, <2>2, NotificationAssumption
  <2> QED
    BY <2>1, <2>3, <2>4, OccurrencesApart
<1>3. Spec => []SlotOncePerOccurrence
  BY <1>1, <1>2, SafeInit, SafeStep, SpacedStep, PTL DEF Spec
<1> QED
  BY <1>3, NothingPushedTwice, PTL DEF ServedOnce

-----------------------------------------------------------------------------
(* UpdateAlerts: what a follower is told.                                  *)

Follow == [id : Nat, since : Nat, mark : Nat, at : Int]
Development == [story : Cluster, at : Nat, kind : {"new_story", "new_bullet"}]

UpdateTypes ==
    /\ now \in Nat /\ newest \in Nat /\ made \in Nat
    /\ dev \in Seq(Development)
    /\ follow \in [Channel -> [Reader -> Follow]]
    /\ told \in [Channel -> [Reader -> Seq(Nat)]]
    /\ DOMAIN state = Cluster /\ DOMAIN before = Reader
    /\ DOMAIN asking = Reader /\ DOMAIN urun = UpdateRun
    /\ \A i \in DOMAIN dev : dev[i].at < now
    /\ \A ch \in Channel, u \in Reader : follow[ch][u].id <= made
    /\ \A u \in Reader : asking[u].pc = "topic" => asking[u].at \in Nat

\* What a run holds is a record of these fields.
IsMemory(m) ==
    m = [pc |-> m.pc, now |-> m.now, seen |-> m.seen, states |-> m.states, rows |-> m.rows,
         items |-> m.items, todo |-> m.todo, who |-> m.who, tokens |-> m.tokens, off |-> m.off]

\* A run's time is past, and the stories it has seen are stories.
Timely(m) ==
    /\ m.now \in Nat /\ (m.pc # "off" => m.now < now)
    /\ m.pc \in {"detect", "record"} => DOMAIN m.seen \subseteq Cluster

\* What a run has loaded was true: its developments are the first of the
\* table, and a follow that is still there has begun when its row says.
ItemsHold(m, ch) ==
    IF ch = "topic"
    THEN /\ m.items \in Seq(Development) /\ Len(m.items) <= Len(dev)
         /\ \A i \in 1 .. Len(m.items) : m.items[i] = dev[i]
    ELSE m.items[1] \in Nat

RowsHold(m, ch) ==
    /\ m.rows \in [Reader -> Follow]
    /\ m.todo \subseteq Reader /\ m.who \subseteq Reader
    /\ \A u \in m.todo \cup m.who : m.rows[u].id # 0
    /\ \A u \in Reader : m.rows[u].id <= made
    /\ \A u \in Reader : m.rows[u].id # 0 /\ m.rows[u].id = follow[ch][u].id =>
          m.rows[u].since = follow[ch][u].since

Memory(m) ==
    /\ IsMemory(m) /\ Timely(m)
    /\ \A ch \in Channel : m.pc = Loop(ch) => ItemsHold(m, ch) /\ RowsHold(m, ch)

\* What a follow has been told was recorded since it was made, and is in
\* order and up to its mark, unless its mark was moved back.
Kept(ch, u) ==
    /\ follow[ch][u].id = 0 => told[ch][u] = <<>>
    /\ <<ch, u>> \notin lowered =>
          /\ \A i \in DOMAIN told[ch][u] : told[ch][u][i] <= follow[ch][u].mark
          /\ \A i, j \in DOMAIN told[ch][u] : i < j => told[ch][u][i] < told[ch][u][j]
    /\ ch = "topic" => \A i \in DOMAIN told[ch][u] :
          told[ch][u][i] \in DOMAIN dev /\ dev[told[ch][u][i]].at >= follow[ch][u].since

\* From time t on, the stories of the set S have been tracked, and a story
\* that was announced was not of them, and has been tracked since.
Announced(i, t) == dev[i].kind = "new_story" /\ dev[i].at >= t
Watched(t, S) ==
    /\ \A c \in S \cap Cluster : Tracked(c)
    /\ \A i \in DOMAIN dev : Announced(i, t) => Tracked(dev[i].story) /\ dev[i].story \notin S
    /\ \A i, j \in DOMAIN dev : Announced(i, t) /\ Announced(j, t) /\ dev[i].story = dev[j].story => i = j

FollowWatched(u) == follow["topic"][u].id # 0 => Watched(follow["topic"][u].since, before[u])
AskWatched(u) == asking[u].pc = "topic" => Watched(asking[u].at, asking[u].match \ asking[u].missing)
Watching == raced \/ \A u \in Reader : FollowWatched(u) /\ AskWatched(u)

UpdateInv ==
    /\ UpdateTypes
    /\ \A r \in UpdateRun : Memory(urun[r])
    /\ \A ch \in Channel, u \in Reader : Kept(ch, u)
    /\ Watching

(* How a step may change the follows and the developments, and the clock.  *)
FollowsMove ==
    \A ch \in Channel, u \in Reader :
        \/ follow'[ch][u].id = 0 \/ follow'[ch][u].id > made
        \/ follow'[ch][u].id = follow[ch][u].id /\ follow'[ch][u].since = follow[ch][u].since

DevGrows ==
    /\ dev' \in Seq(Development) /\ Len(dev') >= Len(dev)
    /\ \A i \in 1 .. Len(dev) : dev'[i] = dev[i]

Onward == now' \in Nat /\ now' >= now /\ made' \in Nat /\ made' >= made

\* What a run keeps of its memory, while it goes through its follows.
Keeps(n, m) ==
    /\ IsMemory(n) /\ n.pc = m.pc /\ n.now = m.now /\ n.seen = m.seen
    /\ n.rows = m.rows /\ n.items = m.items
    /\ n.todo \subseteq m.todo /\ n.who \subseteq m.who \cup m.todo

LEMMA DevStays == UpdateTypes /\ dev' = dev => DevGrows
<1>1. ASSUME UpdateTypes, dev' = dev PROVE DevGrows
  <2>1. Len(dev) \in Nat
    BY <1>1 DEF UpdateTypes
  <2> QED
    BY <1>1, <2>1 DEF UpdateTypes, DevGrows
<1> QED
  BY <1>1

LEMMA MemoryKept ==
    ASSUME UpdateTypes, NEW r \in UpdateRun, Memory(urun[r]), Keeps(urun'[r], urun[r]),
           Onward, DevGrows, FollowsMove
    PROVE  Memory(urun[r])'
<1>1. PICK m : m = urun[r]
  OBVIOUS
<1>2. PICK n : n = urun'[r]
  OBVIOUS
<1>3. Keeps(n, m) /\ Memory(m)
  BY <1>1, <1>2
<1>4. IsMemory(n)
  BY <1>3 DEF Keeps
<1>5. Timely(n)'
  BY <1>3 DEF Keeps, Memory, Timely, Onward, UpdateTypes
<1>6. ASSUME NEW ch \in Channel, n.pc = Loop(ch) PROVE ItemsHold(n, ch)'
  <2>1. ItemsHold(m, ch)
    BY <1>3, <1>6 DEF Keeps, Memory
  <2>2. n.items = m.items
    BY <1>3 DEF Keeps
  <2>3. Len(dev) \in Nat /\ Len(dev') \in Nat
    BY DEF UpdateTypes, DevGrows
  <2>4. CASE ch = "topic"
    <3>1. m.items \in Seq(Development) /\ Len(m.items) <= Len(dev)
      BY <2>1, <2>4 DEF ItemsHold
    <3>2. Len(m.items) \in Nat
      BY <3>1
    <3>3. \A i \in 1 .. Len(m.items) : m.items[i] = dev[i]
      BY <2>1, <2>4 DEF ItemsHold
    <3>4. \A i \in 1 .. Len(m.items) : m.items[i] = dev'[i]
      BY <3>1, <3>2, <3>3, <2>3 DEF DevGrows
    <3>5. Len(m.items) <= Len(dev')
      BY <3>1, <3>2, <2>3 DEF DevGrows
    <3> QED
      BY <3>1, <3>4, <3>5, <2>2, <2>4 DEF ItemsHold
  <2>5. CASE ch # "topic"
    BY <2>1, <2>2, <2>5 DEF ItemsHold
  <2> QED
    BY <2>4, <2>5
<1>7. ASSUME NEW ch \in Channel, n.pc = Loop(ch) PROVE RowsHold(n, ch)'
  <2>1. RowsHold(m, ch)
    BY <1>3, <1>7 DEF Keeps, Memory
  <2>2. n.rows = m.rows /\ n.todo \subseteq m.todo /\ n.who \subseteq m.who \cup m.todo
    BY <1>3 DEF Keeps
  <2>3. n.rows \in [Reader -> Follow]
    BY <2>1, <2>2 DEF RowsHold
  <2>4. n.todo \subseteq Reader /\ n.who \subseteq Reader
    BY <2>1, <2>2 DEF RowsHold
  <2>5. \A u \in n.todo \cup n.who : n.rows[u].id # 0
    BY <2>1, <2>2 DEF RowsHold
  <2>6. ASSUME NEW u \in Reader
        PROVE  /\ n.rows[u].id <= made'
               /\ (n.rows[u].id # 0 /\ n.rows[u].id = follow'[ch][u].id) =>
                     n.rows[u].since = follow'[ch][u].since
    <3>1. n.rows[u].id \in Nat /\ n.rows[u].id <= made
      BY <2>1, <2>2, <2>3 DEF RowsHold, Follow
    <3>2. (n.rows[u].id # 0 /\ n.rows[u].id = follow[ch][u].id) => n.rows[u].since = follow[ch][u].since
      BY <2>1, <2>2 DEF RowsHold
    <3>3. \/ follow'[ch][u].id = 0 \/ follow'[ch][u].id > made
          \/ follow'[ch][u].id = follow[ch][u].id /\ follow'[ch][u].since = follow[ch][u].since
      BY DEF FollowsMove
    <3>4. made \in Nat /\ made' \in Nat /\ made' >= made
      BY DEF UpdateTypes, Onward
    <3>5. n.rows[u].id <= made'
      BY <3>1, <3>4
    <3>6. (n.rows[u].id # 0 /\ n.rows[u].id = follow'[ch][u].id) => n.rows[u].since = follow'[ch][u].since
      BY <3>1, <3>2, <3>3, <3>4
    <3> QED
      BY <3>5, <3>6
  <2> QED
    BY <2>3, <2>4, <2>5, <2>6 DEF RowsHold
<1>8. Memory(n)'
  BY <1>4, <1>5, <1>6, <1>7 DEF Memory, IsMemory, Loop
<1> QED
  BY <1>2, <1>8 DEF Memory, IsMemory, Timely, ItemsHold, RowsHold, Loop

(* A run between two of its steps holds its time and nothing else.         *)
LEMMA QuietMemory ==
    ASSUME NEW r \in UpdateRun, urun'[r] = Quiet, now' \in Nat
    PROVE  Memory(urun[r])'
<1>1. IsMemory(Quiet) /\ Quiet.pc = "off" /\ Quiet.now = 0
  BY DEF Quiet, IsMemory
<1>2. \A ch \in Channel : Loop(ch) # "off"
  BY DEF Loop, Channel
<1> QED
  BY <1>1, <1>2 DEF Memory, Timely, IsMemory, Loop

LEMMA RestingMemory ==
    ASSUME NEW r \in UpdateRun, NEW t \in Nat, NEW p \in {"topic", "source", "expire", "off"},
           urun'[r] = [Quiet EXCEPT !.pc = p, !.now = t], now' \in Nat, t < now'
    PROVE  Memory(urun[r])'
<1>1. PICK n : n = urun'[r]
  OBVIOUS
<1>2. IsMemory(n) /\ n.pc = p /\ n.now = t
  BY <1>1 DEF Quiet, IsMemory
<1>3. \A ch \in Channel : Loop(ch) # p
  BY DEF Loop, Channel
<1>4. Timely(n)'
  BY <1>2 DEF Timely
<1> QED
  BY <1>1, <1>2, <1>3, <1>4 DEF Memory, IsMemory, Timely, Loop

(* A follow that is told nothing, and whose mark moves forward, or is known *)
(* to have moved back.                                                     *)
LEMMA KeptStays ==
    ASSUME UpdateTypes, NEW ch \in Channel, NEW u \in Reader, Kept(ch, u), DevGrows,
           told'[ch][u] = told[ch][u], follow'[ch][u].mark \in Nat,
           told[ch][u] # <<>> =>
              /\ <<ch, u>> \notin lowered' =>
                    <<ch, u>> \notin lowered /\ follow'[ch][u].mark >= follow[ch][u].mark
              /\ follow'[ch][u].id = follow[ch][u].id /\ follow'[ch][u].since = follow[ch][u].since
    PROVE  Kept(ch, u)'
<1>1. CASE told[ch][u] = <<>>
  BY <1>1 DEF Kept
<1>2. CASE told[ch][u] # <<>>
  <2>1. /\ <<ch, u>> \notin lowered' =>
              <<ch, u>> \notin lowered /\ follow'[ch][u].mark >= follow[ch][u].mark
        /\ follow'[ch][u].id = follow[ch][u].id /\ follow'[ch][u].since = follow[ch][u].since
    BY <1>2
  <2>2. PICK s : s = told[ch][u]
    OBVIOUS
  <2>3. s \in Seq(Nat) /\ follow[ch][u] \in Follow /\ follow[ch][u].mark \in Nat
    BY <2>2 DEF UpdateTypes, Follow
  <2>4. ASSUME <<ch, u>> \notin lowered', NEW i \in DOMAIN s PROVE s[i] <= follow'[ch][u].mark
    <3>1. s[i] \in Nat /\ s[i] <= follow[ch][u].mark
      BY <2>1, <2>2, <2>3, <2>4 DEF Kept
    <3> QED
      BY <2>1, <2>3, <2>4, <3>1
  <2>6. follow'[ch][u].id # 0
    BY <1>2, <2>1 DEF Kept
  <2>7. <<ch, u>> \notin lowered' => \A i, j \in DOMAIN s : i < j => s[i] < s[j]
    BY <2>1, <2>2 DEF Kept
  <2>8. ASSUME ch = "topic", NEW i \in DOMAIN s
        PROVE  s[i] \in DOMAIN dev' /\ dev'[s[i]].at >= follow'[ch][u].since
    <3>1. s[i] \in DOMAIN dev /\ dev[s[i]].at >= follow[ch][u].since
      BY <2>2, <2>8 DEF Kept
    <3>2. s[i] \in 1 .. Len(dev) /\ Len(dev) \in Nat /\ Len(dev') \in Nat
      BY <3>1 DEF UpdateTypes, DevGrows
    <3>3. s[i] \in DOMAIN dev' /\ dev'[s[i]] = dev[s[i]]
      BY <3>2 DEF DevGrows
    <3> QED
      BY <3>1, <3>3, <2>1
  <2> QED
    BY <2>2, <2>4, <2>6, <2>7, <2>8 DEF Kept
<1> QED
  BY <1>1, <1>2

LEMMA KeptOfNothing ==
    ASSUME NEW ch \in Channel, NEW u \in Reader, told'[ch][u] = <<>>
    PROVE  Kept(ch, u)'
BY DEF Kept

LEMMA WatchedStays ==
    ASSUME NEW t, NEW S, Watched(t, S), dev' = dev, \A c \in Cluster : Tracked(c) => Tracked(c)',
           dev \in Seq(Development)
    PROVE  Watched(t, S)'
<1>1. \A i \in DOMAIN dev : dev[i].story \in Cluster
  <2>1. \A i \in DOMAIN dev : dev[i] \in Development
    OBVIOUS
  <2> QED
    BY <2>1 DEF Development
<1>2. \A i : Announced(i, t)' <=> Announced(i, t)
  BY DEF Announced
<1>3. \A c \in S \cap Cluster : Tracked(c)'
  BY DEF Watched
<1>4. \A i \in DOMAIN dev' : Announced(i, t)' => Tracked(dev[i].story)' /\ dev[i].story \notin S
  BY <1>1, <1>2 DEF Watched
<1>5. \A i, j \in DOMAIN dev' :
         Announced(i, t)' /\ Announced(j, t)' /\ dev'[i].story = dev'[j].story => i = j
  BY <1>2 DEF Watched
<1> QED
  BY <1>3, <1>4, <1>5 DEF Watched, Tracked

LEMMA SameFollows == UpdateTypes /\ follow' = follow => FollowsMove
BY DEF FollowsMove

LEMMA OthersRest ==
    ASSUME UpdateInv, Onward, DevGrows, FollowsMove,
           \A q \in UpdateRun : urun'[q] = urun[q] \/ Memory(urun[q])'
    PROVE  \A q \in UpdateRun : Memory(urun[q])'
<1>1. ASSUME NEW q \in UpdateRun, urun'[q] = urun[q] PROVE Memory(urun[q])'
  <2>1. Memory(urun[q])
    BY DEF UpdateInv
  <2>2. Keeps(urun'[q], urun[q])
    BY <1>1, <2>1 DEF Keeps, Memory
  <2> QED
    BY <2>1, <2>2, MemoryKept DEF UpdateInv
<1> QED
  BY <1>1

(* A step that leaves the follows, what they were told and the states alone. *)
LEMMA StillSafe ==
    ASSUME UpdateInv, UNCHANGED <<dev, state, follow, told, before, asking, raced, lowered, made>>,
           now' \in Nat, now' >= now, newest' \in Nat, DOMAIN urun' = UpdateRun,
           \A q \in UpdateRun : urun'[q] = urun[q] \/ Memory(urun[q])'
    PROVE  UpdateInv'
<1> USE DEF UpdateInv
<1>1. DevGrows /\ FollowsMove
  BY DevStays, SameFollows
<1>2. made \in Nat
  BY DEF UpdateTypes
<1>3. Onward
  BY <1>2 DEF Onward
<1>4. \A q \in UpdateRun : Memory(urun[q])'
  BY <1>1, <1>3, OthersRest
<1>5. ASSUME NEW i \in DOMAIN dev PROVE dev[i].at < now'
  <2>1. dev[i] \in Development
    BY DEF UpdateTypes
  <2>2. dev[i].at \in Nat /\ now \in Nat /\ dev[i].at < now
    BY <2>1 DEF UpdateTypes, Development
  <2> QED
    BY <2>2
<1>6. UpdateTypes'
  BY <1>5 DEF UpdateTypes
<1>7. ASSUME NEW ch \in Channel, NEW u \in Reader PROVE Kept(ch, u)'
  <2>1. Kept(ch, u)
    OBVIOUS
  <2> QED
    BY <2>1 DEF Kept
<1>8. Watching'
  BY DEF Watching, FollowWatched, AskWatched, Watched, Announced, Tracked
<1> QED
  BY <1>4, <1>6, <1>7, <1>8

LEMMA OutsideSafe ==
    ASSUME UpdateInv,
           \/ \E c \in Cluster : Enrich(c) \/ Rejoin(c)
           \/ Publish \/ UTick
           \/ \E u \in Reader : SetPreference(u)
    PROVE  UpdateInv'
<1>1. UNCHANGED <<dev, state, follow, told, before, asking, raced, lowered, made, urun>>
  BY DEF Enrich, Rejoin, Publish, UTick, SetPreference
<1>2. now \in Nat /\ newest \in Nat /\ DOMAIN urun = UpdateRun
  BY DEF UpdateInv, UpdateTypes
<1>3. (now' = now \/ now' = now + 1) /\ (newest' = newest \/ newest' = newest + 1)
  BY DEF Enrich, Rejoin, Publish, UTick, SetPreference
<1>4. now' \in Nat /\ now' >= now /\ newest' \in Nat
  BY <1>2, <1>3
<1> QED
  BY <1>1, <1>2, <1>4, StillSafe

LEMMA StartRunSafe == ASSUME UpdateInv, NEW r \in UpdateRun, StartRun(r) PROVE UpdateInv'
<1>1. now \in Nat /\ newest \in Nat /\ DOMAIN urun = UpdateRun
  BY DEF UpdateInv, UpdateTypes
<1>0. PICK w \in Newest :
         urun' = [urun EXCEPT ![r] = [Quiet EXCEPT !.now = now, !.pc = IF Followed THEN "detect" ELSE "topic",
                                                   !.seen = [c \in w |-> story[c]]]]
  BY DEF StartRun
<1>2. PICK n : n = [Quiet EXCEPT !.now = now, !.pc = IF Followed THEN "detect" ELSE "topic",
                                !.seen = [c \in w |-> story[c]]]
  OBVIOUS
<1>3. urun'[r] = n /\ (\A q \in UpdateRun \ {r} : urun'[q] = urun[q]) /\ DOMAIN urun' = UpdateRun
  BY <1>0, <1>1, <1>2
<1>4. IsMemory(n) /\ n.now = now /\ n.pc \in {"detect", "topic"} /\ n.seen = [c \in w |-> story[c]]
  BY <1>2 DEF Quiet, IsMemory
<1>5. now' = now + 1
  BY DEF StartRun
<1>6. Timely(n)'
  BY <1>0, <1>1, <1>4, <1>5 DEF Timely, Newest, Matching
<1>7. \A ch \in Channel : n.pc # Loop(ch)
  BY <1>4 DEF Loop, Channel
<1>8. Memory(urun[r])'
  BY <1>3, <1>4, <1>6, <1>7 DEF Memory, IsMemory, Timely, Loop
<1>9. now' \in Nat /\ now' >= now
  BY <1>1, <1>5
<1> QED
  BY <1>1, <1>3, <1>8, <1>9, StillSafe DEF StartRun

LEMMA ReadStatesSafe == ASSUME UpdateInv, NEW r \in UpdateRun, ReadStates(r) PROVE UpdateInv'
<1>1. now \in Nat /\ newest \in Nat /\ DOMAIN urun = UpdateRun
  BY DEF UpdateInv, UpdateTypes
<1>2. PICK m : m = urun[r]
  OBVIOUS
<1>3. PICK n : n = urun'[r]
  OBVIOUS
<1>4. IsMemory(m) /\ Timely(m) /\ m.pc = "detect"
  BY <1>2 DEF UpdateInv, Memory, ReadStates
<1>5. n = [[m EXCEPT !.pc = "record"] EXCEPT !.states = state]
  BY <1>1, <1>2, <1>3 DEF ReadStates
<1>6. IsMemory(n) /\ n.pc = "record" /\ n.now = m.now /\ n.seen = m.seen
  BY <1>4, <1>5 DEF IsMemory
<1>7. Timely(n)'
  BY <1>4, <1>6 DEF Timely, ReadStates
<1>8. \A ch \in Channel : n.pc # Loop(ch)
  BY <1>6 DEF Loop, Channel
<1>9. Memory(urun[r])'
  BY <1>3, <1>6, <1>7, <1>8 DEF Memory, IsMemory, Timely, Loop
<1>10. \A q \in UpdateRun : urun'[q] = urun[q] \/ q = r
  BY <1>1 DEF ReadStates
<1>11. DOMAIN urun' = UpdateRun /\ now' \in Nat /\ now' >= now /\ newest' \in Nat
  BY <1>1 DEF ReadStates
<1> QED
  BY <1>9, <1>10, <1>11, StillSafe DEF ReadStates

LEMMA StepEnds ==
    ASSUME UpdateTypes, Onward, NEW r \in UpdateRun, NEW ch \in Channel, Memory(urun[r]), urun[r].pc # "off",
           urun'[r] = Ended(urun[r], ch) \/ urun'[r] = Aborted(urun[r], ch)
    PROVE  Memory(urun[r])'
<1>1. PICK t : t = urun[r].now
  OBVIOUS
<1>2. t \in Nat /\ t < now /\ now \in Nat
  BY <1>1 DEF Memory, Timely, UpdateTypes
<1>3. now' \in Nat /\ t < now'
  BY <1>2 DEF Onward
<1>4. ASSUME NEW p \in {"topic", "source", "expire", "off"}, urun'[r] = [Quiet EXCEPT !.pc = p, !.now = t]
      PROVE  Memory(urun[r])'
  BY <1>2, <1>3, <1>4, RestingMemory
<1>5. CASE urun'[r] = Ended(urun[r], ch)
  BY <1>1, <1>4, <1>5 DEF Ended
<1>6. CASE urun'[r] = Aborted(urun[r], ch)
  <2>1. CASE ch = "topic"
    BY <1>1, <1>4, <1>6, <2>1 DEF Aborted
  <2>2. CASE ch # "topic"
    BY <1>3, <1>6, <2>2, QuietMemory DEF Aborted
  <2> QED
    BY <2>1, <2>2
<1> QED
  BY <1>5, <1>6

LEMMA LeavesOne ==
    ASSUME UpdateTypes, Onward, DevGrows, FollowsMove, NEW r \in UpdateRun, NEW ch \in Channel,
           NEW u \in Reader, Memory(urun[r]), urun[r].pc = Loop(ch), urun'[r] = Without(urun[r], ch, u)
    PROVE  Memory(urun[r])'
<1>1. urun[r].pc # "off"
  BY DEF Loop, Channel
<1>2. CASE urun[r].todo = {u}
  BY <1>1, <1>2, StepEnds DEF Without
<1>3. CASE urun[r].todo # {u}
  <2>1. PICK m : m = urun[r]
    OBVIOUS
  <2>2. PICK n : n = urun'[r]
    OBVIOUS
  <2>3. n = [m EXCEPT !.todo = @ \ {u}, !.who = {}] /\ IsMemory(m)
    BY <1>3, <2>1, <2>2 DEF Without, Memory
  <2>4. Keeps(n, m)
    BY <2>3 DEF Keeps, IsMemory
  <2> QED
    BY <2>1, <2>2, <2>4, MemoryKept
<1> QED
  BY <1>2, <1>3

LEMMA CountedSafe ==
    ASSUME UpdateInv, NEW r \in UpdateRun, NEW ch \in Channel, NEW u \in Reader, Count(r, ch, u)
    PROVE  UpdateInv'
<1>1. now \in Nat /\ newest \in Nat /\ made \in Nat /\ DOMAIN urun = UpdateRun
  BY DEF UpdateInv, UpdateTypes
<1>2. Onward /\ DevGrows /\ FollowsMove
  BY <1>1, DevStays, SameFollows DEF Count, Onward, UpdateInv
<1>3. urun[r].pc = Loop(ch) /\ u \in urun[r].todo
  BY DEF Count, Step
<1>4. Memory(urun[r])
  BY DEF UpdateInv
<1>5. CASE urun'[r] = Without(urun[r], ch, u)
  <2>1. Memory(urun[r])'
    BY <1>2, <1>3, <1>4, <1>5, LeavesOne DEF UpdateInv
  <2> QED
    BY <1>1, <2>1, StillSafe DEF Count
<1>6. CASE urun'[r] = [urun[r] EXCEPT !.who = {u}]
  <2>1. PICK m : m = urun[r]
    OBVIOUS
  <2>2. PICK n : n = urun'[r]
    OBVIOUS
  <2>3. n = [m EXCEPT !.who = {u}] /\ IsMemory(m)
    BY <1>4, <1>6, <2>1, <2>2 DEF Memory
  <2>4. Keeps(n, m)
    BY <1>3, <2>1, <2>3 DEF Keeps, IsMemory
  <2>5. Memory(urun[r])'
    BY <1>2, <1>4, <2>1, <2>2, <2>4, MemoryKept DEF UpdateInv
  <2> QED
    BY <1>1, <2>5, StillSafe DEF Count
<1>7. urun'[r] = Without(urun[r], ch, u) \/ urun'[r] = [urun[r] EXCEPT !.who = {u}]
  BY <1>1 DEF Count
<1> QED
  BY <1>5, <1>6, <1>7

LEMMA LoadSafe ==
    ASSUME UpdateInv, NEW r \in UpdateRun, NEW ch \in Channel, Load(r, ch)
    PROVE  UpdateInv'
<1>1. now \in Nat /\ newest \in Nat /\ made \in Nat /\ DOMAIN urun = UpdateRun
  BY DEF UpdateInv, UpdateTypes
<1>2. Onward
  BY <1>1 DEF Load, Onward
<1>3. Memory(urun[r]) /\ urun[r].pc # "off"
  BY DEF UpdateInv, Load, Channel
<1>4. PICK m : m = [Quiet EXCEPT !.pc = Loop(ch), !.now = urun[r].now, !.rows = follow[ch], !.tokens = reach,
                                 !.off = muted, !.items = IF ch = "topic" THEN dev ELSE <<newest>>]
  OBVIOUS
<1>5. PICK due : due = {u \in Reader : follow[ch][u].id # 0 /\ News(m, ch, u) # {}}
  OBVIOUS
<1>6. urun' = [urun EXCEPT ![r] = IF due = {} THEN Ended(m, ch) ELSE [m EXCEPT !.todo = due]]
  BY <1>4, <1>5, Zenon DEF Load
<1>7. /\ IsMemory(m) /\ m.pc = Loop(ch) /\ m.now = urun[r].now /\ m.rows = follow[ch] /\ m.who = {}
      /\ m.items = IF ch = "topic" THEN dev ELSE <<newest>>
  BY <1>4 DEF Quiet, IsMemory
<1>8. DOMAIN urun' = UpdateRun /\ (\A q \in UpdateRun : urun'[q] = urun[q] \/ q = r)
  BY <1>1, <1>6
<1>9. /\ UNCHANGED <<dev, state, follow, told, before, asking, raced, lowered, made>>
      /\ now' \in Nat /\ now' >= now /\ newest' \in Nat
  BY <1>1 DEF Load
<1>10. CASE due = {}
  <2>1. urun'[r] = Ended(urun[r], ch)
    BY <1>1, <1>6, <1>7, <1>10 DEF Ended
  <2>2. Memory(urun[r])'
    BY <1>2, <1>3, <2>1, StepEnds DEF UpdateInv
  <2> QED
    BY <1>8, <1>9, <2>2, StillSafe
<1>11. CASE due # {}
  <2>1. PICK n : n = [m EXCEPT !.todo = due]
    OBVIOUS
  <2>2. urun'[r] = n
    BY <1>1, <1>6, <1>11, <2>1
  <2>3. /\ IsMemory(n) /\ n.pc = Loop(ch) /\ n.now = urun[r].now /\ n.rows = follow[ch] /\ n.who = {}
        /\ n.items = (IF ch = "topic" THEN dev ELSE <<newest>>) /\ n.todo = due
    BY <1>7, <2>1 DEF IsMemory
  <2>4. Timely(n)'
    BY <1>1, <1>3, <2>3 DEF Memory, Timely, Load, Loop
  <2>5. ItemsHold(n, ch)'
    <3>1. CASE ch = "topic"
      <4>1. n.items = dev /\ dev' = dev /\ dev \in Seq(Development) /\ Len(dev) \in Nat
        BY <2>3, <3>1 DEF UpdateInv, UpdateTypes, Load
      <4> QED
        BY <4>1, <3>1 DEF ItemsHold
    <3>2. CASE ch # "topic"
      BY <1>1, <2>3, <3>2 DEF ItemsHold
    <3> QED
      BY <3>1, <3>2
  <2>6. RowsHold(n, ch)'
    BY <1>5, <2>3 DEF UpdateInv, RowsHold, Load, UpdateTypes
  <2>7. \A c \in Channel : n.pc = Loop(c) => c = ch
    BY <2>3 DEF Loop, Channel
  <2>8. Memory(urun[r])'
    BY <2>2, <2>3, <2>4, <2>5, <2>6, <2>7 DEF Memory, IsMemory, Timely, ItemsHold, RowsHold, Loop
  <2> QED
    BY <1>8, <1>9, <2>8, StillSafe
<1> QED
  BY <1>10, <1>11

LEMMA FollowWatchedStays ==
    ASSUME UpdateTypes, NEW u \in Reader, FollowWatched(u), dev' = dev,
           \A c \in Cluster : Tracked(c) => Tracked(c)',
           \/ follow'["topic"][u].id = 0
           \/ /\ follow'["topic"][u].id = follow["topic"][u].id
              /\ follow'["topic"][u].since = follow["topic"][u].since /\ before'[u] = before[u]
    PROVE  FollowWatched(u)'
<1>1. CASE follow'["topic"][u].id = 0
  BY <1>1 DEF FollowWatched
<1>2. CASE follow'["topic"][u].id # 0
  <2>1. PICK t : t = follow["topic"][u].since
    OBVIOUS
  <2>2. PICK S : S = before[u]
    OBVIOUS
  <2>3. t = follow'["topic"][u].since /\ S = before'[u]
    BY <1>2, <2>1, <2>2
  <2>4. Watched(t, S)
    BY <1>2, <2>1, <2>2 DEF FollowWatched
  <2>5. Watched(t, S)'
    BY <2>4, WatchedStays DEF UpdateTypes
  <2> QED
    BY <2>3, <2>5 DEF FollowWatched, Watched, Announced, Tracked
<1> QED
  BY <1>1, <1>2

LEMMA AskWatchedStays ==
    ASSUME UpdateTypes, NEW u \in Reader, AskWatched(u), dev' = dev,
           \A c \in Cluster : Tracked(c) => Tracked(c)',
           asking'[u].pc # "topic" \/ asking'[u] = asking[u]
    PROVE  AskWatched(u)'
<1>1. CASE asking'[u].pc # "topic"
  BY <1>1 DEF AskWatched
<1>2. CASE asking'[u].pc = "topic"
  <2>1. PICK t : t = asking[u].at
    OBVIOUS
  <2>2. PICK S : S = asking[u].match \ asking[u].missing
    OBVIOUS
  <2>3. t = asking'[u].at /\ S = asking'[u].match \ asking'[u].missing
    BY <1>2, <2>1, <2>2
  <2>4. Watched(t, S)
    BY <1>2, <2>1, <2>2 DEF AskWatched
  <2>5. Watched(t, S)'
    BY <2>4, WatchedStays DEF UpdateTypes
  <2> QED
    BY <2>3, <2>5 DEF AskWatched, Watched, Announced, Tracked
<1> QED
  BY <1>1, <1>2

LEMMA AskTopicSafe == ASSUME UpdateInv, NEW u \in Reader, AskTopic(u) PROVE UpdateInv'
<1>1. /\ UNCHANGED <<now, story, state, dev, newest, follow, urun, told, before, raced, lowered, made>>
      /\ now \in Nat /\ made \in Nat /\ DOMAIN asking = Reader /\ DOMAIN state = Cluster
  BY DEF AskTopic, UpdateInv, UpdateTypes
<1>2. PICK w \in Newest :
         /\ DOMAIN asking' = Reader
         /\ asking'[u].pc = "topic" /\ asking'[u].at = now
         /\ asking'[u].match \ asking'[u].missing = w \ Missing(w)
         /\ \A v \in Reader \ {u} : asking'[v] = asking[v]
  BY <1>1 DEF AskTopic
<1>3. DevGrows /\ FollowsMove /\ Onward
  BY <1>1, DevStays, SameFollows DEF UpdateInv, Onward
<1>4. UpdateTypes'
  BY <1>1, <1>2 DEF UpdateInv, UpdateTypes
<1>5. \A q \in UpdateRun : Memory(urun[q])'
  BY <1>1, <1>3, OthersRest
<1>6. ASSUME NEW ch \in Channel, NEW v \in Reader PROVE Kept(ch, v)'
  <2>1. Kept(ch, v)
    BY DEF UpdateInv
  <2> QED
    BY <1>1, <2>1 DEF Kept
<1>7. \A c \in Cluster : Tracked(c) => Tracked(c)'
  BY <1>1 DEF Tracked
<1>8. ASSUME ~raced, NEW v \in Reader PROVE FollowWatched(v)' /\ AskWatched(v)'
  <2>1. FollowWatched(v) /\ AskWatched(v)
    BY <1>8 DEF UpdateInv, Watching
  <2>2. FollowWatched(v)'
    BY <1>1, <1>7, <2>1, FollowWatchedStays DEF UpdateInv
  <2>3. CASE v # u
    <3>1. AskWatched(v)'
      BY <1>1, <1>2, <1>7, <2>1, <2>3, AskWatchedStays DEF UpdateInv
    <3> QED
      BY <2>2, <3>1
  <2>4. CASE v = u
    <3>1. ASSUME NEW i \in DOMAIN dev PROVE ~(dev[i].at >= now)
      <4>1. dev[i] \in Development
        BY DEF UpdateInv, UpdateTypes
      <4>2. dev[i].at \in Nat /\ dev[i].at < now
        BY <4>1 DEF UpdateInv, UpdateTypes, Development
      <4> QED
        BY <1>1, <4>2
    <3>2. \A c \in w \ Missing(w) : Tracked(c)'
      BY <1>7 DEF Newest, Matching, Missing
    <3>3. PICK t : t = now
      OBVIOUS
    <3>4. PICK S : S = w \ Missing(w)
      OBVIOUS
    <3>5. \A i \in DOMAIN dev' : ~Announced(i, t)'
      BY <1>1, <3>1, <3>3 DEF Announced
    <3>6. Watched(t, S)'
      BY <3>2, <3>4, <3>5 DEF Watched
    <3>7. AskWatched(u)'
      BY <1>2, <3>3, <3>4, <3>6 DEF AskWatched, Watched, Announced, Tracked
    <3> QED
      BY <2>2, <2>4, <3>7
  <2> QED
    BY <2>3, <2>4
<1>9. Watching'
  BY <1>1, <1>8 DEF Watching
<1> QED
  BY <1>4, <1>5, <1>6, <1>9 DEF UpdateInv

(* A follow is made or deleted, and has been told nothing yet.             *)
LEMMA FollowReplaced ==
    ASSUME UpdateInv, NEW ch \in Channel, NEW u \in Reader, NEW f \in Follow,
           follow' = [follow EXCEPT ![ch][u] = f], told' = [told EXCEPT ![ch][u] = <<>>],
           UNCHANGED <<now, dev, newest, urun>>, lowered' = lowered \ {<<ch, u>>},
           (f.id = 0 /\ made' = made) \/ (f.id = made + 1 /\ made' = made + 1),
           DOMAIN state' = Cluster, DOMAIN before' = Reader, DOMAIN asking' = Reader,
           \A v \in Reader : asking'[v].pc = "topic" => asking'[v].at \in Nat
    PROVE  /\ UpdateTypes' /\ (\A q \in UpdateRun : Memory(urun[q])')
           /\ \A c \in Channel, v \in Reader : Kept(c, v)'
           /\ \A c \in Channel, v \in Reader : (c = ch /\ v = u) \/ follow'[c][v] = follow[c][v]
           /\ follow'[ch][u] = f
<1>1. /\ follow \in [Channel -> [Reader -> Follow]] /\ told \in [Channel -> [Reader -> Seq(Nat)]]
      /\ made \in Nat /\ now \in Nat
  BY DEF UpdateInv, UpdateTypes
<1>2. /\ follow' \in [Channel -> [Reader -> Follow]]
      /\ \A c \in Channel, v \in Reader : follow'[c][v] = IF c = ch /\ v = u THEN f ELSE follow[c][v]
  BY <1>1
<1>3. <<>> \in Seq(Nat)
  OBVIOUS
<1>4. /\ told' \in [Channel -> [Reader -> Seq(Nat)]]
      /\ \A c \in Channel, v \in Reader : told'[c][v] = IF c = ch /\ v = u THEN <<>> ELSE told[c][v]
  BY <1>1, <1>3
<1>5. f.id \in Nat /\ made' \in Nat /\ made' >= made /\ (f.id = 0 \/ f.id > made) /\ f.id <= made'
  BY <1>1 DEF Follow
<1>6. ASSUME NEW c \in Channel, NEW v \in Reader PROVE follow'[c][v].id <= made'
  <2>1. follow[c][v].id \in Nat /\ follow[c][v].id <= made
    BY <1>1 DEF UpdateInv, UpdateTypes, Follow
  <2> QED
    BY <1>1, <1>2, <1>5, <2>1
<1>7. UpdateTypes'
  BY <1>1, <1>2, <1>4, <1>5, <1>6 DEF UpdateInv, UpdateTypes
<1>8. FollowsMove
  BY <1>2, <1>5 DEF FollowsMove
<1>9. DevGrows /\ Onward
  BY <1>1, <1>5, DevStays DEF UpdateInv, Onward
<1>10. \A q \in UpdateRun : Memory(urun[q])'
  BY <1>8, <1>9, OthersRest
<1>11. ASSUME NEW c \in Channel, NEW v \in Reader PROVE Kept(c, v)'
  <2>1. CASE c = ch /\ v = u
    BY <1>4, <2>1, KeptOfNothing
  <2>2. CASE ~(c = ch /\ v = u)
    <3>1. told'[c][v] = told[c][v] /\ follow'[c][v] = follow[c][v]
      BY <1>2, <1>4, <2>2
    <3>2. Kept(c, v) /\ follow[c][v].mark \in Nat
      BY <1>1 DEF UpdateInv, Follow
    <3>3. follow'[c][v].mark \in Nat /\ follow'[c][v].mark >= follow[c][v].mark
      BY <3>1, <3>2
    <3>4. <<c, v>> \notin lowered' => <<c, v>> \notin lowered
      BY <2>2
    <3> QED
      BY <1>9, <3>1, <3>2, <3>3, <3>4, KeptStays DEF UpdateInv
  <2> QED
    BY <2>1, <2>2
<1> QED
  BY <1>2, <1>7, <1>10, <1>11

LEMMA NoFollowType == NoFollow \in Follow /\ NoFollow.id = 0
BY UpdateAssumption DEF NoFollow, Follow

LEMMA TrackedStays == state' = state => \A c \in Cluster : Tracked(c) => Tracked(c)'
BY DEF Tracked

LEMMA SourceFollowSafe ==
    ASSUME UpdateInv, NEW u \in Reader, Subscribe(u) \/ Unsubscribe(u)
    PROVE  UpdateInv'
<1>1. /\ UNCHANGED <<now, state, dev, newest, urun, asking, before, raced>>
      /\ now \in Nat /\ newest \in Nat /\ made \in Nat
  BY DEF Subscribe, Unsubscribe, UpdateInv, UpdateTypes
<1>2. \E f \in Follow :
         /\ follow' = [follow EXCEPT !["source"][u] = f] /\ told' = [told EXCEPT !["source"][u] = <<>>]
         /\ (f.id = 0 /\ made' = made) \/ (f.id = made + 1 /\ made' = made + 1)
         /\ lowered' = lowered \ {<<"source", u>>}
  <2>1. CASE Subscribe(u)
    <3>1. [id |-> made + 1, since |-> now, mark |-> newest, at |-> -Gap] \in Follow
      BY <1>1, UpdateAssumption DEF Follow
    <3> QED
      BY <2>1, <3>1 DEF Subscribe
  <2>2. CASE Unsubscribe(u)
    BY <2>2, NoFollowType DEF Unsubscribe
  <2> QED
    BY <2>1, <2>2
<1>3. PICK f \in Follow :
         /\ follow' = [follow EXCEPT !["source"][u] = f] /\ told' = [told EXCEPT !["source"][u] = <<>>]
         /\ (f.id = 0 /\ made' = made) \/ (f.id = made + 1 /\ made' = made + 1)
         /\ lowered' = lowered \ {<<"source", u>>}
  BY <1>2
<1>4. /\ DOMAIN state' = Cluster /\ DOMAIN before' = Reader /\ DOMAIN asking' = Reader
      /\ \A v \in Reader : asking'[v].pc = "topic" => asking'[v].at \in Nat
  BY <1>1 DEF UpdateInv, UpdateTypes
<1>5. "source" \in Channel /\ "topic" \in Channel
  BY DEF Channel
<1>6. /\ UpdateTypes' /\ (\A q \in UpdateRun : Memory(urun[q])')
      /\ (\A c \in Channel, v \in Reader : Kept(c, v)')
      /\ \A c \in Channel, v \in Reader : (c = "source" /\ v = u) \/ follow'[c][v] = follow[c][v]
  BY <1>1, <1>3, <1>4, <1>5, FollowReplaced
<1>7. ASSUME ~raced, NEW v \in Reader PROVE FollowWatched(v)' /\ AskWatched(v)'
  <2>1. FollowWatched(v) /\ AskWatched(v)
    BY <1>7 DEF UpdateInv, Watching
  <2>2. follow'["topic"][v] = follow["topic"][v]
    BY <1>5, <1>6
  <2>3. FollowWatched(v)'
    BY <1>1, <2>1, <2>2, TrackedStays, FollowWatchedStays DEF UpdateInv
  <2>4. AskWatched(v)'
    BY <1>1, <2>1, TrackedStays, AskWatchedStays DEF UpdateInv
  <2> QED
    BY <2>3, <2>4
<1>8. Watching'
  BY <1>1, <1>7 DEF Watching
<1> QED
  BY <1>6, <1>8 DEF UpdateInv

LEMMA UnfollowSafe == ASSUME UpdateInv, NEW u \in Reader, UnfollowTopic(u) PROVE UpdateInv'
<1>1. /\ UNCHANGED <<now, state, dev, newest, urun, asking, raced, made>>
      /\ lowered' = lowered \ {<<"topic", u>>}
  BY DEF UnfollowTopic
<1>2. DOMAIN before = Reader
  BY DEF UpdateInv, UpdateTypes
<1>3. DOMAIN before' = Reader /\ \A v \in Reader \ {u} : before'[v] = before[v]
  BY <1>2 DEF UnfollowTopic
<1>4. /\ DOMAIN state' = Cluster /\ DOMAIN asking' = Reader
      /\ \A v \in Reader : asking'[v].pc = "topic" => asking'[v].at \in Nat
  BY <1>1 DEF UpdateInv, UpdateTypes
<1>5. "topic" \in Channel
  BY DEF Channel
<1>6. /\ UpdateTypes' /\ (\A q \in UpdateRun : Memory(urun[q])')
      /\ (\A c \in Channel, v \in Reader : Kept(c, v)')
      /\ (\A c \in Channel, v \in Reader : (c = "topic" /\ v = u) \/ follow'[c][v] = follow[c][v])
      /\ follow'["topic"][u] = NoFollow
  <2>1. PICK f \in Follow : f = NoFollow /\ f.id = 0
    BY NoFollowType
  <2>2. follow' = [follow EXCEPT !["topic"][u] = f] /\ told' = [told EXCEPT !["topic"][u] = <<>>]
    BY <2>1 DEF UnfollowTopic
  <2> QED
    BY <1>1, <1>3, <1>4, <1>5, <2>1, <2>2, FollowReplaced, ZenonT(60)
<1>7. ASSUME ~raced, NEW v \in Reader PROVE FollowWatched(v)' /\ AskWatched(v)'
  <2>1. FollowWatched(v) /\ AskWatched(v)
    BY <1>7 DEF UpdateInv, Watching
  <2>2. \/ follow'["topic"][v].id = 0
        \/ follow'["topic"][v] = follow["topic"][v] /\ before'[v] = before[v]
    BY <1>3, <1>5, <1>6, NoFollowType
  <2>3. FollowWatched(v)'
    BY <1>1, <2>1, <2>2, TrackedStays, FollowWatchedStays DEF UpdateInv
  <2>4. AskWatched(v)'
    BY <1>1, <2>1, TrackedStays, AskWatchedStays DEF UpdateInv
  <2> QED
    BY <2>3, <2>4
<1>8. Watching'
  BY <1>1, <1>7 DEF Watching
<1> QED
  BY <1>6, <1>8 DEF UpdateInv

LEMMA FollowTopicSafe == ASSUME UpdateInv, NEW u \in Reader, FollowTopic(u) PROVE UpdateInv'
<1>1. PICK q : q = asking[u]
  OBVIOUS
<1>2. /\ q.pc = "topic" /\ q.at \in Nat
      /\ UNCHANGED <<now, dev, newest, urun, raced>>
      /\ DOMAIN state = Cluster /\ DOMAIN before = Reader /\ DOMAIN asking = Reader
      /\ now \in Nat /\ made \in Nat /\ follow \in [Channel -> [Reader -> Follow]]
  BY <1>1 DEF FollowTopic, UpdateInv, UpdateTypes
<1>3. asking'[u].pc = "off" /\ DOMAIN asking' = Reader /\ \A v \in Reader \ {u} : asking'[v] = asking[v]
  BY <1>2 DEF FollowTopic, NotAsking
<1>4. \A v \in Reader : asking'[v].pc = "topic" => asking'[v].at \in Nat
  BY <1>3 DEF UpdateInv, UpdateTypes
<1>5. "topic" \in Channel
  BY DEF Channel
<1>6. ASSUME \A c \in Cluster : Tracked(c) => Tracked(c)', NEW v \in Reader, ~raced,
             \/ follow'["topic"][v].id = 0
             \/ follow'["topic"][v] = follow["topic"][v] /\ before'[v] = before[v]
      PROVE  FollowWatched(v)'
  <2>1. FollowWatched(v)
    BY <1>6 DEF UpdateInv, Watching
  <2> QED
    BY <1>2, <1>6, <2>1, FollowWatchedStays DEF UpdateInv
<1>7. ASSUME \A c \in Cluster : Tracked(c) => Tracked(c)', NEW v \in Reader, ~raced PROVE AskWatched(v)'
  <2>1. AskWatched(v)
    BY <1>7 DEF UpdateInv, Watching
  <2>2. asking'[v].pc # "topic" \/ asking'[v] = asking[v]
    BY <1>3
  <2> QED
    BY <1>2, <1>7, <2>1, <2>2, AskWatchedStays DEF UpdateInv
<1>8. CASE UNCHANGED <<state, follow, told, before, lowered, made>>
  <2>1. UpdateTypes'
    BY <1>2, <1>3, <1>4, <1>8 DEF UpdateInv, UpdateTypes
  <2>2. DevGrows /\ FollowsMove /\ Onward
    BY <1>2, <1>8, DevStays, SameFollows DEF UpdateInv, Onward
  <2>3. \A r \in UpdateRun : Memory(urun[r])'
    BY <1>2, <2>2, OthersRest
  <2>4. ASSUME NEW c \in Channel, NEW v \in Reader PROVE Kept(c, v)'
    <3>1. Kept(c, v)
      BY DEF UpdateInv
    <3> QED
      BY <1>2, <1>8, <3>1 DEF Kept
  <2>5. Watching'
    BY <1>2, <1>6, <1>7, <1>8, TrackedStays DEF Watching
  <2> QED
    BY <2>1, <2>3, <2>4, <2>5 DEF UpdateInv
<1>9. CASE /\ \A c \in q.missing : ~Tracked(c)
           /\ state' = [c \in Cluster |-> IF c \in q.missing
                           THEN [known |-> q.seen[c].points, sources |-> q.seen[c].sources, checked |-> q.at]
                           ELSE state[c]]
           /\ follow' = [follow EXCEPT !["topic"][u] = [id |-> made + 1, since |-> q.at, mark |-> 0, at |-> -Gap]]
           /\ told' = [told EXCEPT !["topic"][u] = <<>>]
           /\ before' = [before EXCEPT ![u] = q.match]
           /\ made' = made + 1
           /\ lowered' = lowered \ {<<"topic", u>>}
  <2>1. PICK f : f = [id |-> made + 1, since |-> q.at, mark |-> 0, at |-> -Gap]
    OBVIOUS
  <2>2. f \in Follow /\ f.id = made + 1 /\ f.since = q.at
    BY <1>2, <2>1, UpdateAssumption DEF Follow
  <2>3. follow' = [follow EXCEPT !["topic"][u] = f] /\ told' = [told EXCEPT !["topic"][u] = <<>>]
    BY <1>9, <2>1
  <2>4. DOMAIN state' = Cluster /\ DOMAIN before' = Reader /\ before'[u] = q.match
        /\ \A v \in Reader \ {u} : before'[v] = before[v]
    BY <1>2, <1>9
  <2>5. made' = made + 1 /\ lowered' = lowered \ {<<"topic", u>>}
    BY <1>9
  <2>6. /\ UpdateTypes' /\ (\A r \in UpdateRun : Memory(urun[r])')
        /\ (\A c \in Channel, v \in Reader : Kept(c, v)')
        /\ (\A c \in Channel, v \in Reader : (c = "topic" /\ v = u) \/ follow'[c][v] = follow[c][v])
        /\ follow'["topic"][u] = f
    BY <1>2, <1>3, <1>4, <1>5, <2>2, <2>3, <2>4, <2>5, FollowReplaced
  <2>7. ASSUME NEW c \in Cluster PROVE Tracked(c)' <=> (Tracked(c) \/ c \in q.missing)
    <3>1. CASE c \in q.missing
      BY <1>2, <1>9, <3>1 DEF Tracked, Untracked
    <3>2. CASE c \notin q.missing
      BY <1>9, <3>2 DEF Tracked
    <3> QED
      BY <3>1, <3>2
  <2>8. ASSUME ~raced PROVE FollowWatched(u)'
    <3>1. PICK t : t = q.at
      OBVIOUS
    <3>2. PICK S : S = q.match
      OBVIOUS
    <3>3. Watched(t, S \ q.missing)
      BY <1>1, <1>2, <2>8, <3>1, <3>2 DEF UpdateInv, Watching, AskWatched
    <3>4. \A c \in S \cap Cluster : Tracked(c)'
      BY <2>7, <3>3 DEF Watched
    <3>5. \A i : Announced(i, t)' <=> Announced(i, t)
      BY <1>2 DEF Announced
    <3>6. \A i \in DOMAIN dev : dev[i] \in Development
      BY DEF UpdateInv, UpdateTypes
    <3>7. ASSUME NEW i \in DOMAIN dev', Announced(i, t)' PROVE Tracked(dev[i].story)' /\ dev[i].story \notin S
      <4>1. Tracked(dev[i].story) /\ dev[i].story \notin S \ q.missing
        BY <1>2, <3>3, <3>5, <3>7 DEF Watched
      <4>2. dev[i].story \notin q.missing
        BY <1>9, <4>1
      <4>3. dev[i].story \in Cluster
        BY <1>2, <3>6, <3>7 DEF Development
      <4> QED
        BY <1>2, <1>9, <4>1, <4>2, <4>3 DEF Tracked
    <3>8. \A i, j \in DOMAIN dev' :
             Announced(i, t)' /\ Announced(j, t)' /\ dev'[i].story = dev'[j].story => i = j
      BY <1>2, <3>3, <3>5 DEF Watched
    <3>9. Watched(t, S)'
      BY <1>2, <3>4, <3>7, <3>8 DEF Watched, Tracked
    <3>10. t = follow'["topic"][u].since /\ S = before'[u]
      BY <2>2, <2>4, <2>6, <3>1, <3>2
    <3> QED
      BY <3>9, <3>10 DEF FollowWatched, Watched, Announced, Tracked
  <2>9. \A c \in Cluster : Tracked(c) => Tracked(c)'
    BY <2>7
  <2>10. ASSUME ~raced, NEW v \in Reader \ {u} PROVE FollowWatched(v)'
    BY <1>5, <1>6, <2>4, <2>6, <2>9, <2>10
  <2>11. ASSUME ~raced, NEW v \in Reader PROVE FollowWatched(v)' /\ AskWatched(v)'
    BY <1>7, <2>8, <2>9, <2>10, <2>11
  <2>12. Watching'
    BY <1>2, <2>11 DEF Watching
  <2> QED
    BY <2>6, <2>12 DEF UpdateInv
<1> QED
  BY <1>1, <1>8, <1>9, Zenon DEF FollowTopic

(* The states are dropped when nobody follows: no follow counts on them,   *)
(* and a follow that is being made is what raced remembers.                *)
LEMMA OrphansSafe ==
    ASSUME UpdateInv, DropOrphans, UNCHANGED <<now, dev, newest, follow, asking, told, before, lowered, made>>,
           DOMAIN urun' = UpdateRun, \A q \in UpdateRun : urun'[q] = urun[q] \/ Memory(urun[q])'
    PROVE  UpdateInv'
<1>1. now \in Nat /\ made \in Nat /\ DOMAIN state = Cluster /\ DOMAIN state' = Cluster
  BY DEF DropOrphans, UpdateInv, UpdateTypes
<1>2. UpdateTypes'
  BY <1>1 DEF UpdateInv, UpdateTypes
<1>3. DevGrows /\ FollowsMove /\ Onward
  BY <1>1, DevStays, SameFollows DEF UpdateInv, Onward
<1>4. \A q \in UpdateRun : Memory(urun[q])'
  BY <1>3, OthersRest
<1>5. ASSUME NEW ch \in Channel, NEW u \in Reader PROVE Kept(ch, u)'
  <2>1. Kept(ch, u)
    BY DEF UpdateInv
  <2> QED
    BY <2>1 DEF Kept
<1>6. CASE raced
  <2>1. raced'
    BY <1>6 DEF DropOrphans
  <2> QED
    BY <1>2, <1>4, <1>5, <2>1 DEF UpdateInv, Watching
<1>7. CASE ~raced /\ Followed
  <2>1. state' = state
    BY <1>7 DEF DropOrphans
  <2>2. ASSUME NEW u \in Reader PROVE FollowWatched(u)' /\ AskWatched(u)'
    <3>1. FollowWatched(u) /\ AskWatched(u)
      BY <1>7 DEF UpdateInv, Watching
    <3>2. FollowWatched(u)'
      BY <2>1, <3>1, TrackedStays, FollowWatchedStays DEF UpdateInv
    <3>3. AskWatched(u)'
      BY <2>1, <3>1, TrackedStays, AskWatchedStays DEF UpdateInv
    <3> QED
      BY <3>2, <3>3
  <2> QED
    BY <1>2, <1>4, <1>5, <2>2 DEF UpdateInv, Watching
<1>8. CASE ~Followed /\ \E u \in Reader : asking[u].pc = "topic"
  <2>1. raced'
    BY <1>8 DEF DropOrphans
  <2> QED
    BY <1>2, <1>4, <1>5, <2>1 DEF UpdateInv, Watching
<1>9. CASE ~Followed /\ \A u \in Reader : asking[u].pc # "topic"
  <2>1. \A u \in Reader : FollowWatched(u)' /\ AskWatched(u)'
    BY <1>9 DEF FollowWatched, AskWatched, Followed
  <2> QED
    BY <1>2, <1>4, <1>5, <2>1 DEF UpdateInv, Watching
<1> QED
  BY <1>6, <1>7, <1>8, <1>9

LEMMA ExpireOrphansSafe == ASSUME UpdateInv, ExpireOrphans PROVE UpdateInv'
<1>1. DOMAIN urun = UpdateRun
  BY DEF UpdateInv, UpdateTypes
<1>2. DropOrphans /\ UNCHANGED <<now, dev, newest, follow, asking, told, before, lowered, made, urun>>
  BY DEF ExpireOrphans
<1> QED
  BY <1>1, <1>2, OrphansSafe

LEMMA RunExpiresSafe == ASSUME UpdateInv, NEW r \in UpdateRun, RunExpires(r) PROVE UpdateInv'
<1>1. DOMAIN urun = UpdateRun
  BY DEF UpdateInv, UpdateTypes
<1>2. DropOrphans /\ UNCHANGED <<now, dev, newest, follow, asking, told, before, lowered, made>>
  BY DEF RunExpires
<1>3. PICK m : m = urun[r]
  OBVIOUS
<1>4. PICK n : n = urun'[r]
  OBVIOUS
<1>5. IsMemory(m) /\ Timely(m) /\ m.pc = "expire"
  BY <1>3 DEF UpdateInv, Memory, RunExpires
<1>6. n = [m EXCEPT !.pc = "source"]
  BY <1>1, <1>3, <1>4 DEF RunExpires
<1>7. IsMemory(n) /\ n.pc = "source" /\ n.now = m.now
  BY <1>5, <1>6 DEF IsMemory
<1>8. Timely(n)'
  BY <1>2, <1>5, <1>7 DEF Timely
<1>9. \A ch \in Channel : n.pc # Loop(ch)
  BY <1>7 DEF Loop, Channel
<1>10. Memory(urun[r])'
  BY <1>4, <1>7, <1>8, <1>9 DEF Memory, IsMemory, Timely, Loop
<1>11. DOMAIN urun' = UpdateRun /\ \A q \in UpdateRun : urun'[q] = urun[q] \/ q = r
  BY <1>1 DEF RunExpires
<1> QED
  BY <1>2, <1>10, <1>11, OrphansSafe

(* What is new to a follow is past the mark that was loaded, and is a      *)
(* development since the follow was made.                                  *)
LEMMA LatestIsNews ==
    ASSUME UpdateTypes, NEW m, Memory(m), NEW ch \in Channel, m.pc = Loop(ch), NEW u \in Reader,
           NEW i \in Latest(m, ch, u)
    PROVE  /\ i \in Nat
           /\ ch = "topic" => i \in DOMAIN dev /\ dev[i].at >= m.rows[u].since
<1>1. i \in News(m, ch, u)
  BY DEF Latest
<1>2. ItemsHold(m, ch)
  BY DEF Memory
<1>3. CASE ch = "topic"
  <2>1. i \in 1 .. Len(m.items) /\ m.items[i].at >= m.rows[u].since
    BY <1>1, <1>3 DEF News, DevelopmentsSince
  <2>2. m.items \in Seq(Development) /\ Len(m.items) <= Len(dev) /\ m.items[i] = dev[i]
    BY <1>2, <1>3, <2>1 DEF ItemsHold
  <2>3. Len(m.items) \in Nat /\ Len(dev) \in Nat /\ DOMAIN dev = 1 .. Len(dev)
    BY <2>2 DEF UpdateTypes
  <2>4. i \in Nat /\ i \in 1 .. Len(dev)
    BY <2>1, <2>2, <2>3
  <2> QED
    BY <2>1, <2>2, <2>3, <2>4
<1>4. CASE ch # "topic"
  <2>1. ch = "source"
    BY <1>4 DEF Channel
  <2>2. i = m.items[1]
    BY <1>1, <2>1 DEF News, LatestArticle
  <2> QED
    BY <1>2, <1>4, <2>2 DEF ItemsHold
<1> QED
  BY <1>3, <1>4

OneFollow(ch, u) ==
    /\ follow' \in [Channel -> [Reader -> Follow]] /\ told' \in [Channel -> [Reader -> Seq(Nat)]]
    /\ follow'[ch][u].id = follow[ch][u].id /\ follow'[ch][u].since = follow[ch][u].since
    /\ \A c \in Channel, v \in Reader :
          (c = ch /\ v = u) \/ (follow'[c][v] = follow[c][v] /\ told'[c][v] = told[c][v])

LEMMA OneFollowMoves ==
    ASSUME UpdateTypes, NEW ch \in Channel, NEW u \in Reader, OneFollow(ch, u)
    PROVE  FollowsMove
BY DEF OneFollow, FollowsMove

LEMMA MarkSafe ==
    ASSUME UpdateInv, NEW ch \in Channel, NEW u \in Reader, OneFollow(ch, u), Kept(ch, u)',
           UNCHANGED <<now, state, dev, newest, asking, before, raced, made>>,
           lowered' \ {<<ch, u>>} = lowered \ {<<ch, u>>},
           DOMAIN urun' = UpdateRun, \A q \in UpdateRun : urun'[q] = urun[q] \/ Memory(urun[q])'
    PROVE  UpdateInv'
<1>1. now \in Nat /\ made \in Nat /\ follow \in [Channel -> [Reader -> Follow]]
  BY DEF UpdateInv, UpdateTypes
<1>2. ASSUME NEW c \in Channel, NEW v \in Reader
      PROVE  follow'[c][v].id = follow[c][v].id /\ follow'[c][v].since = follow[c][v].since
  BY DEF OneFollow
<1>3. UpdateTypes'
  BY <1>2 DEF UpdateInv, UpdateTypes, OneFollow
<1>4. DevGrows /\ FollowsMove /\ Onward
  BY <1>1, DevStays, OneFollowMoves DEF UpdateInv, Onward
<1>5. \A q \in UpdateRun : Memory(urun[q])'
  BY <1>4, OthersRest
<1>6. ASSUME NEW c \in Channel, NEW v \in Reader PROVE Kept(c, v)'
  <2>1. CASE c = ch /\ v = u
    BY <2>1
  <2>2. CASE ~(c = ch /\ v = u)
    <3>1. Kept(c, v) /\ follow'[c][v] = follow[c][v] /\ told'[c][v] = told[c][v]
      BY <2>2 DEF UpdateInv, OneFollow
    <3>2. <<c, v>> \in lowered' <=> <<c, v>> \in lowered
      BY <2>2
    <3> QED
      BY <3>1, <3>2 DEF Kept
  <2> QED
    BY <2>1, <2>2
<1>7. ASSUME ~raced, NEW v \in Reader PROVE FollowWatched(v)' /\ AskWatched(v)'
  <2>1. FollowWatched(v) /\ AskWatched(v)
    BY <1>7 DEF UpdateInv, Watching
  <2>2. "topic" \in Channel
    BY DEF Channel
  <2>3. FollowWatched(v)'
    BY <1>2, <2>1, <2>2, TrackedStays, FollowWatchedStays DEF UpdateInv
  <2>4. AskWatched(v)'
    BY <2>1, TrackedStays, AskWatchedStays DEF UpdateInv
  <2> QED
    BY <2>3, <2>4
<1>8. Watching'
  BY <1>7 DEF Watching
<1> QED
  BY <1>3, <1>5, <1>6, <1>8 DEF UpdateInv

LEMMA PassOverSafe ==
    ASSUME UpdateInv, NEW r \in UpdateRun, NEW ch \in Channel, NEW u \in Reader, PassOver(r, ch, u)
    PROVE  UpdateInv'
<1>1. /\ DOMAIN urun = UpdateRun /\ now \in Nat /\ newest \in Nat /\ made \in Nat
      /\ follow \in [Channel -> [Reader -> Follow]] /\ told \in [Channel -> [Reader -> Seq(Nat)]]
  BY DEF UpdateInv, UpdateTypes
<1>2. /\ UNCHANGED <<now, state, dev, newest, asking, told, before, raced, made>>
      /\ urun[r].pc = Loop(ch)
  BY DEF PassOver, Step
<1>3. Memory(urun[r]) /\ urun[r].pc # "off"
  BY <1>2 DEF UpdateInv, Loop, Channel
<1>4. DevGrows /\ Onward
  BY <1>1, <1>2, DevStays DEF UpdateInv, Onward
<1>5. CASE UNCHANGED <<follow, lowered>> /\ urun' = [urun EXCEPT ![r] = Aborted(urun[r], ch)]
  <2>1. DOMAIN urun' = UpdateRun /\ urun'[r] = Aborted(urun[r], ch)
        /\ \A q \in UpdateRun : urun'[q] = urun[q] \/ q = r
    BY <1>1, <1>5
  <2>2. Memory(urun[r])'
    BY <1>3, <1>4, <2>1, StepEnds DEF UpdateInv
  <2> QED
    BY <1>1, <1>2, <1>5, <2>1, <2>2, StillSafe
<1>6. ASSUME NEW i \in Latest(urun[r], ch, u), follow' = [follow EXCEPT ![ch][u].mark = i],
             lowered' = (IF i < follow[ch][u].mark THEN lowered \cup {<<ch, u>>} ELSE lowered),
             urun' = [urun EXCEPT ![r] = Without(urun[r], ch, u)]
      PROVE  UpdateInv'
  <2>1. DOMAIN urun' = UpdateRun /\ urun'[r] = Without(urun[r], ch, u)
        /\ \A q \in UpdateRun : urun'[q] = urun[q] \/ q = r
    BY <1>1, <1>6
  <2>2. i \in Nat
    <3>1. PICK m : m = urun[r]
      OBVIOUS
    <3> QED
      BY <1>2, <1>3, <1>6, <3>1, LatestIsNews DEF UpdateInv
  <2>3. PICK f : f = [follow[ch][u] EXCEPT !.mark = i]
    OBVIOUS
  <2>4. f \in Follow /\ f.id = follow[ch][u].id /\ f.since = follow[ch][u].since
    <3>1. PICK g \in Follow : g = follow[ch][u]
      BY <1>1
    <3>2. f = [g EXCEPT !.mark = i]
      BY <2>3, <3>1
    <3>3. f \in Follow /\ f.id = g.id /\ f.since = g.since
      BY <2>2, <3>2 DEF Follow
    <3> QED
      BY <3>1, <3>3
  <2>5. /\ follow' \in [Channel -> [Reader -> Follow]] /\ follow'[ch][u] = f
        /\ \A c \in Channel, v \in Reader : (c = ch /\ v = u) \/ follow'[c][v] = follow[c][v]
    BY <1>1, <1>6, <2>3, <2>4
  <2>6. OneFollow(ch, u)
    BY <1>1, <1>2, <2>4, <2>5 DEF OneFollow
  <2>7. <<ch, u>> \notin lowered' => <<ch, u>> \notin lowered /\ i >= follow[ch][u].mark
    <3>1. follow[ch][u].mark \in Nat
      BY <1>1 DEF Follow
    <3> QED
      BY <1>6, <2>2, <3>1
  <2>8. Kept(ch, u)'
    <3>1. f.mark = i
      <4>1. PICK g \in Follow : g = follow[ch][u]
        BY <1>1
      <4> QED
        BY <2>2, <2>3, <4>1 DEF Follow
    <3>2. Kept(ch, u)
      BY DEF UpdateInv
    <3> QED
      BY <1>2, <1>4, <2>2, <2>4, <2>5, <2>7, <3>1, <3>2, KeptStays DEF UpdateInv
  <2>9. Memory(urun[r])'
    BY <1>2, <1>3, <1>4, <2>1, <2>6, OneFollowMoves, LeavesOne DEF UpdateInv
  <2>10. lowered' \ {<<ch, u>>} = lowered \ {<<ch, u>>}
    BY <1>6
  <2> QED
    BY <1>2, <2>1, <2>6, <2>8, <2>9, <2>10, MarkSafe
<1> QED
  BY <1>5, <1>6, Zenon DEF PassOver

LEMMA ClaimKept ==
    ASSUME UpdateInv, NEW ch \in Channel, NEW u \in Reader, NEW i \in Nat, lowered' = lowered,
           follow[ch][u].id # 0, follow[ch][u].mark < i, follow'[ch][u].mark = i,
           follow'[ch][u].id = follow[ch][u].id, follow'[ch][u].since = follow[ch][u].since,
           ch = "topic" => i \in DOMAIN dev /\ dev[i].at >= follow[ch][u].since,
           dev' = dev, told'[ch][u] \in {told[ch][u], Append(told[ch][u], i)}
    PROVE  Kept(ch, u)'
<1>1. PICK s \in Seq(Nat) : s = told[ch][u]
  BY DEF UpdateInv, UpdateTypes
<1>2. follow[ch][u].mark \in Nat
  BY DEF UpdateInv, UpdateTypes, Follow
<1>3. Kept(ch, u)
  BY DEF UpdateInv
<1>4. CASE told'[ch][u] = s
  <2>1. DevGrows
    BY DevStays DEF UpdateInv
  <2>2. follow'[ch][u].mark \in Nat /\ follow'[ch][u].mark >= follow[ch][u].mark
    BY <1>2
  <2> QED
    BY <1>1, <1>3, <1>4, <2>1, <2>2, KeptStays DEF UpdateInv
<1>5. CASE told'[ch][u] = Append(s, i)
  <2>1. PICK a : a = Append(s, i)
    OBVIOUS
  <2>2. /\ Len(s) \in Nat /\ DOMAIN s = 1 .. Len(s) /\ DOMAIN a = 1 .. Len(s) + 1
        /\ a[Len(s) + 1] = i /\ \A j \in 1 .. Len(s) : a[j] = s[j] /\ s[j] \in Nat
    BY <2>1
  <2>3. ASSUME <<ch, u>> \notin lowered, NEW j \in 1 .. Len(s) PROVE s[j] < i
    <3>1. s[j] <= follow[ch][u].mark
      BY <1>1, <1>3, <2>2, <2>3 DEF Kept
    <3> QED
      BY <1>2, <2>2, <3>1
  <2>4. <<ch, u>> \notin lowered => \A j \in DOMAIN a : a[j] <= i
    BY <2>2, <2>3
  <2>5. ASSUME <<ch, u>> \notin lowered, NEW j \in DOMAIN a, NEW k \in DOMAIN a, j < k PROVE a[j] < a[k]
    <3>1. j \in 1 .. Len(s)
      BY <2>2, <2>5
    <3>2. CASE k \in 1 .. Len(s)
      <4>1. s[j] < s[k]
        BY <1>1, <1>3, <2>2, <2>5, <3>1, <3>2 DEF Kept
      <4> QED
        BY <2>2, <3>1, <3>2, <4>1
    <3>3. CASE k = Len(s) + 1
      BY <2>2, <2>3, <2>5, <3>1, <3>3
    <3> QED
      BY <2>2, <3>2, <3>3
  <2>6. ASSUME ch = "topic", NEW j \in DOMAIN a
        PROVE  a[j] \in DOMAIN dev' /\ dev'[a[j]].at >= follow'[ch][u].since
    <3>1. CASE j \in 1 .. Len(s)
      BY <1>1, <1>3, <2>2, <2>6, <3>1 DEF Kept
    <3>2. CASE j = Len(s) + 1
      BY <2>2, <2>6, <3>2
    <3> QED
      BY <2>2, <3>1, <3>2
  <2>7. told'[ch][u] = a
    BY <1>5, <2>1
  <2>8. follow'[ch][u].id # 0
    OBVIOUS
  <2>9. <<ch, u>> \notin lowered' => \A j \in DOMAIN a : a[j] <= follow'[ch][u].mark
    BY <2>4
  <2> QED
    BY <2>5, <2>6, <2>7, <2>8, <2>9 DEF Kept
<1> QED
  BY <1>1, <1>4, <1>5

LEMMA ClaimUpdateSafe ==
    ASSUME UpdateInv, NEW r \in UpdateRun, NEW ch \in Channel, NEW u \in Reader, ClaimUpdate(r, ch, u)
    PROVE  UpdateInv'
<1>1. /\ DOMAIN urun = UpdateRun /\ now \in Nat /\ newest \in Nat /\ made \in Nat
      /\ follow \in [Channel -> [Reader -> Follow]] /\ told \in [Channel -> [Reader -> Seq(Nat)]]
  BY DEF UpdateInv, UpdateTypes
<1>2. /\ UNCHANGED <<now, state, dev, newest, asking, before, raced, lowered, made>>
      /\ urun[r].pc = Loop(ch) /\ urun[r].who = {u}
  BY DEF ClaimUpdate
<1>3. Memory(urun[r]) /\ urun[r].pc # "off"
  BY <1>2 DEF UpdateInv, Loop, Channel
<1>4. DevGrows /\ Onward
  BY <1>1, <1>2, DevStays DEF UpdateInv, Onward
<1>5. PICK m : m = urun[r]
  OBVIOUS
<1>6. RowsHold(m, ch)
  BY <1>2, <1>3, <1>5 DEF Memory
<1>7. m.rows[u].id # 0
  BY <1>2, <1>5, <1>6 DEF RowsHold
<1>8. PICK i \in Latest(m, ch, u) :
        \/ /\ Claimable(m, ch, u, i)
           /\ follow' = [follow EXCEPT ![ch][u].mark = i, ![ch][u].at = m.now]
           /\ told' = [told EXCEPT ![ch][u] = IF u \in m.tokens THEN Append(told[ch][u], i) ELSE told[ch][u]]
           /\ urun' = [urun EXCEPT ![r] = Without(m, ch, u)]
        \/ /\ urun' = [urun EXCEPT ![r] = IF m.todo = {u} THEN Ended(m, ch) ELSE Aborted(m, ch)]
           /\ UNCHANGED <<follow, told>>
  BY <1>5, Zenon DEF ClaimUpdate
<1>9. i \in Nat /\ (ch = "topic" => i \in DOMAIN dev /\ dev[i].at >= m.rows[u].since)
  BY <1>2, <1>3, <1>5, LatestIsNews DEF UpdateInv
<1>10. CASE /\ urun' = [urun EXCEPT ![r] = IF m.todo = {u} THEN Ended(m, ch) ELSE Aborted(m, ch)]
            /\ UNCHANGED <<follow, told>>
  <2>1. DOMAIN urun' = UpdateRun /\ (\A q \in UpdateRun : urun'[q] = urun[q] \/ q = r)
        /\ (urun'[r] = Ended(urun[r], ch) \/ urun'[r] = Aborted(urun[r], ch))
    BY <1>1, <1>5, <1>10
  <2>2. Memory(urun[r])'
    BY <1>3, <1>4, <2>1, StepEnds DEF UpdateInv
  <2> QED
    BY <1>1, <1>2, <1>10, <2>1, <2>2, StillSafe
<1>11. CASE /\ Claimable(m, ch, u, i)
            /\ follow' = [follow EXCEPT ![ch][u].mark = i, ![ch][u].at = m.now]
            /\ told' = [told EXCEPT ![ch][u] = IF u \in m.tokens THEN Append(told[ch][u], i) ELSE told[ch][u]]
            /\ urun' = [urun EXCEPT ![r] = Without(m, ch, u)]
  <2>1. DOMAIN urun' = UpdateRun /\ urun'[r] = Without(urun[r], ch, u)
        /\ \A q \in UpdateRun : urun'[q] = urun[q] \/ q = r
    BY <1>1, <1>5, <1>11
  <2>2. PICK f : f = [[follow[ch][u] EXCEPT !.mark = i] EXCEPT !.at = m.now]
    OBVIOUS
  <2>3. f \in Follow /\ f.id = follow[ch][u].id /\ f.since = follow[ch][u].since /\ f.mark = i
    <3>1. PICK g \in Follow : g = follow[ch][u]
      BY <1>1
    <3>2. f = [[g EXCEPT !.mark = i] EXCEPT !.at = m.now]
      BY <2>2, <3>1
    <3>3. m.now \in Int
      BY <1>3, <1>5 DEF Memory, Timely
    <3>4. f \in Follow /\ f.id = g.id /\ f.since = g.since /\ f.mark = i
      BY <1>9, <3>2, <3>3 DEF Follow
    <3> QED
      BY <3>1, <3>4
  <2>4. /\ follow' \in [Channel -> [Reader -> Follow]] /\ follow'[ch][u] = f
        /\ \A c \in Channel, v \in Reader : (c = ch /\ v = u) \/ follow'[c][v] = follow[c][v]
    BY <1>1, <1>11, <2>2, <2>3
  <2>5. PICK s : s = IF u \in m.tokens THEN Append(told[ch][u], i) ELSE told[ch][u]
    OBVIOUS
  <2>6. s \in Seq(Nat) /\ s \in {told[ch][u], Append(told[ch][u], i)}
    BY <1>1, <1>9, <2>5
  <2>7. /\ told' \in [Channel -> [Reader -> Seq(Nat)]] /\ told'[ch][u] = s
        /\ \A c \in Channel, v \in Reader : (c = ch /\ v = u) \/ told'[c][v] = told[c][v]
    <3>1. told' = [told EXCEPT ![ch][u] = s]
      BY <1>11, <2>5
    <3> QED
      BY <1>1, <2>6, <3>1
  <2>8. OneFollow(ch, u)
    BY <2>3, <2>4, <2>7 DEF OneFollow
  <2>9. follow[ch][u].id = m.rows[u].id /\ follow[ch][u].mark < i
    BY <1>11 DEF Claimable, Same
  <2>10. follow[ch][u].since = m.rows[u].since
    BY <1>6, <1>7, <2>9 DEF RowsHold
  <2>11. Kept(ch, u)'
    BY <1>2, <1>7, <1>9, <2>3, <2>4, <2>6, <2>7, <2>9, <2>10, ClaimKept
  <2>12. Memory(urun[r])'
    BY <1>2, <1>3, <1>4, <2>1, <2>8, OneFollowMoves, LeavesOne DEF UpdateInv
  <2> QED
    BY <1>2, <2>1, <2>8, <2>11, <2>12, MarkSafe
<1> QED
  BY <1>8, <1>10, <1>11

(* What a run that finds no conflict commits: its new developments come    *)
(* after those there are, each about a story of its own, which was not     *)
(* tracked if it is announced; and it is tracked from then on.             *)
LEMMA NewDevelopments ==
    ASSUME NEW m, m.now \in Nat, DOMAIN m.seen \subseteq Cluster, NEW new \in NewDevs(m)
    PROVE  /\ new \in Seq(Development)
           /\ \A k \in 1 .. Len(new) :
                 /\ new[k].at = m.now /\ new[k].story \in DOMAIN m.seen
                 /\ new[k].kind = "new_story" => IsNew(m, new[k].story)
           /\ \A k, l \in 1 .. Len(new) : new[k].story = new[l].story => k = l
<1>1. Finds(m) \subseteq DOMAIN m.seen
  BY DEF Finds
<1>2. IsFiniteSet(Finds(m))
  BY <1>1, UpdateAssumption, FS_Subset
<1>3. PICK n \in Nat : n = Cardinality(Finds(m))
  BY <1>2, FS_CardinalityType
<1>4. PICK order \in Injection(1 .. n, Finds(m)) :
         new = [i \in DOMAIN order |-> [story |-> order[i], at |-> m.now,
                                        kind |-> IF IsNew(m, order[i]) THEN "new_story" ELSE "new_bullet"]]
  BY <1>3 DEF NewDevs
<1>5. order \in [1 .. n -> Finds(m)] /\ \A k, l \in 1 .. n : order[k] = order[l] => k = l
  BY DEF Injection, IsInjective
<1>6. ASSUME NEW k \in 1 .. n
      PROVE  /\ new[k] \in Development /\ new[k].at = m.now /\ new[k].story = order[k]
             /\ new[k].kind = "new_story" => IsNew(m, order[k])
  <2>1. order[k] \in Finds(m) /\ order[k] \in Cluster
    BY <1>1, <1>5
  <2>2. new[k] = [story |-> order[k], at |-> m.now,
                  kind |-> IF IsNew(m, order[k]) THEN "new_story" ELSE "new_bullet"]
    BY <1>4, <1>5
  <2>3. CASE IsNew(m, order[k])
    BY <2>1, <2>2, <2>3 DEF Development
  <2>4. CASE ~IsNew(m, order[k])
    BY <2>1, <2>2, <2>4 DEF Development
  <2> QED
    BY <2>3, <2>4
<1>7. DOMAIN new = 1 .. n /\ new = [k \in 1 .. n |-> new[k]]
  BY <1>4, <1>5
<1>8. new \in Seq(Development)
  BY <1>6, <1>7
<1>9. Len(new) = n
  BY <1>7, <1>8
<1> QED
  BY <1>1, <1>5, <1>6, <1>8, <1>9

LEMMA RecordSafe == ASSUME UpdateInv, NEW r \in UpdateRun, Record(r) PROVE UpdateInv'
<1>1. /\ DOMAIN urun = UpdateRun /\ now \in Nat /\ newest \in Nat /\ made \in Nat
      /\ dev \in Seq(Development) /\ DOMAIN state = Cluster
  BY DEF UpdateInv, UpdateTypes
<1>2. UNCHANGED <<now, newest, follow, asking, told, before, raced, lowered, made>>
  BY DEF Record
<1>3. PICK m : m = urun[r]
  OBVIOUS
<1>4. Memory(m) /\ m.now \in Nat /\ m.now < now /\ DOMAIN m.seen \subseteq Cluster
  BY <1>3 DEF UpdateInv, Memory, Timely, Record
<1>5. CASE urun' = [urun EXCEPT ![r] = Aborted(m, "topic")] /\ UNCHANGED <<state, dev>>
  <2>1. DOMAIN urun' = UpdateRun /\ urun'[r] = Aborted(urun[r], "topic")
        /\ \A q \in UpdateRun : urun'[q] = urun[q] \/ q = r
    BY <1>1, <1>3, <1>5
  <2>2. Onward /\ "topic" \in Channel /\ urun[r].pc # "off"
    BY <1>1, <1>2 DEF Onward, Channel, Record
  <2>3. Memory(urun[r])'
    BY <1>3, <1>4, <2>1, <2>2, StepEnds DEF UpdateInv
  <2> QED
    BY <1>1, <1>2, <1>5, <2>1, <2>3, StillSafe
<1>6. CASE /\ ~Conflict(m)
           /\ state' = [c \in Cluster |-> IF c \in DOMAIN m.seen /\ (IsNew(m, c) \/ Reviewed(m, c))
                                          THEN Checked(m, c) ELSE state[c]]
           /\ \E new \in NewDevs(m) : dev' = dev \o new
           /\ urun' = [urun EXCEPT ![r] = [Quiet EXCEPT !.pc = "topic", !.now = m.now]]
  <2>1. PICK new \in NewDevs(m) : dev' = dev \o new
    BY <1>6
  <2>2. /\ new \in Seq(Development)
        /\ \A k \in 1 .. Len(new) :
              /\ new[k].at = m.now /\ new[k].story \in DOMAIN m.seen
              /\ new[k].kind = "new_story" => IsNew(m, new[k].story)
        /\ \A k, l \in 1 .. Len(new) : new[k].story = new[l].story => k = l
    BY <1>4, NewDevelopments
  <2>3. PICK p \in Nat : p = Len(dev) /\ DOMAIN dev = 1 .. p
    BY <1>1
  <2>4. PICK n \in Nat : n = Len(new)
    BY <2>2
  <2>5. /\ dev' \in Seq(Development) /\ Len(dev') = p + n
        /\ \A i \in 1 .. p + n : dev'[i] = IF i <= p THEN dev[i] ELSE new[i - p]
    BY <1>1, <2>1, <2>2, <2>3, <2>4, ConcatProperties
  <2>6. DOMAIN dev' = 1 .. p + n
    BY <2>5
  <2>7. DevGrows
    BY <2>3, <2>5 DEF DevGrows
  <2>8. FollowsMove /\ Onward
    BY <1>1, <1>2, SameFollows DEF UpdateInv, Onward
  <2>9. ASSUME NEW i \in DOMAIN dev' PROVE dev'[i].at < now'
    <3>1. CASE i <= p
      BY <1>2, <2>3, <2>5, <2>6, <3>1 DEF UpdateInv, UpdateTypes
    <3>2. CASE ~(i <= p)
      <4>1. i - p \in 1 .. n /\ dev'[i] = new[i - p]
        BY <2>5, <2>6, <3>2
      <4> QED
        BY <1>2, <1>4, <2>2, <2>4, <4>1
    <3> QED
      BY <3>1, <3>2
  <2>10. DOMAIN state' = Cluster /\ DOMAIN urun' = UpdateRun
    BY <1>1, <1>6
  <2>11. UpdateTypes'
    BY <1>2, <2>5, <2>9, <2>10 DEF UpdateInv, UpdateTypes
  <2>12. Memory(urun[r])'
    <3>1. urun'[r] = [Quiet EXCEPT !.pc = "topic", !.now = m.now]
      BY <1>1, <1>6
    <3>2. now' \in Nat /\ m.now < now'
      BY <1>1, <1>2, <1>4
    <3> QED
      BY <1>4, <3>1, <3>2, RestingMemory
  <2>13. \A q \in UpdateRun : urun'[q] = urun[q] \/ q = r
    BY <1>1, <1>6
  <2>14. \A q \in UpdateRun : Memory(urun[q])'
    BY <2>7, <2>8, <2>12, <2>13, OthersRest
  <2>15. ASSUME NEW ch \in Channel, NEW u \in Reader PROVE Kept(ch, u)'
    <3>1. Kept(ch, u) /\ follow[ch][u].mark \in Nat
      BY DEF UpdateInv, UpdateTypes, Follow
    <3>2. follow'[ch][u].mark \in Nat /\ follow'[ch][u].mark >= follow[ch][u].mark
      BY <1>2, <3>1
    <3> QED
      BY <1>2, <2>7, <3>1, <3>2, KeptStays DEF UpdateInv
  <2>16. ASSUME NEW c \in Cluster PROVE Tracked(c) => Tracked(c)'
    <3>1. CASE state'[c] = state[c]
      BY <3>1 DEF Tracked
    <3>2. CASE state'[c] = Checked(m, c)
      BY <1>4, <3>2 DEF Checked, Tracked, Untracked
    <3> QED
      BY <1>6, <3>1, <3>2
  <2>17. ASSUME NEW c \in DOMAIN m.seen, IsNew(m, c) PROVE ~Tracked(c) /\ Tracked(c)'
    <3>1. ~Tracked(c)
      BY <1>6, <2>17 DEF Conflict
    <3>2. state'[c] = Checked(m, c)
      BY <1>4, <1>6, <2>17
    <3>3. Tracked(c)'
      BY <1>4, <3>2 DEF Checked, Tracked, Untracked
    <3> QED
      BY <3>1, <3>3
  <2>18. ASSUME NEW t, NEW S, Watched(t, S) PROVE Watched(t, S)'
    <3>1. \A i \in 1 .. p : dev'[i] = dev[i] /\ dev[i].story \in Cluster
      <4>1. \A i \in 1 .. p : dev[i] \in Development /\ dev'[i] = dev[i]
        BY <1>1, <2>3, <2>5
      <4> QED
        BY <4>1 DEF Development
    <3>2. ASSUME NEW i \in 1 .. p + n, ~(i <= p), dev'[i].kind = "new_story"
          PROVE  /\ dev'[i].story \in Cluster /\ ~Tracked(dev'[i].story)
                 /\ state'[dev'[i].story] # Untracked
                 /\ i - p \in 1 .. n /\ dev'[i].story = new[i - p].story
      <4>1. i - p \in 1 .. n /\ dev'[i] = new[i - p]
        BY <2>5, <3>2
      <4>2. new[i - p].story \in DOMAIN m.seen /\ IsNew(m, new[i - p].story)
        BY <2>2, <2>4, <3>2, <4>1
      <4>3. PICK c \in DOMAIN m.seen : c = new[i - p].story
        BY <4>2
      <4>4. ~Tracked(c) /\ state'[c] # Untracked
        BY <2>17, <4>2, <4>3 DEF Tracked
      <4> QED
        BY <1>4, <4>1, <4>3, <4>4
    <3>3. \A c \in S \cap Cluster : Tracked(c) /\ Tracked(c)'
      BY <2>16, <2>18 DEF Watched
    <3>4. ASSUME NEW i \in DOMAIN dev', Announced(i, t)'
          PROVE  state'[dev'[i].story] # Untracked /\ dev'[i].story \notin S
      <4>1. CASE i <= p
        <5>1. i \in 1 .. p /\ i \in DOMAIN dev
          BY <2>3, <2>6, <4>1
        <5>2. Announced(i, t)
          BY <3>1, <3>4, <5>1 DEF Announced
        <5>3. Tracked(dev[i].story) /\ dev[i].story \notin S /\ dev[i].story \in Cluster
          BY <2>18, <3>1, <5>1, <5>2 DEF Watched
        <5>4. state'[dev[i].story] # Untracked
          BY <2>16, <5>3 DEF Tracked
        <5> QED
          BY <3>1, <5>1, <5>3, <5>4
      <4>2. CASE ~(i <= p)
        <5>1. dev'[i].kind = "new_story"
          BY <3>4 DEF Announced
        <5> QED
          BY <2>6, <3>2, <3>3, <4>2, <5>1
      <4> QED
        BY <4>1, <4>2
    <3>5. ASSUME NEW i \in DOMAIN dev', NEW j \in DOMAIN dev', Announced(i, t)', Announced(j, t)',
                 dev'[i].story = dev'[j].story
          PROVE  i = j
      <4>1. ASSUME NEW k \in DOMAIN dev', k <= p, Announced(k, t)'
            PROVE  k \in DOMAIN dev /\ Announced(k, t) /\ dev'[k] = dev[k] /\ Tracked(dev[k].story)
        <5>1. k \in 1 .. p /\ k \in DOMAIN dev
          BY <2>3, <2>6, <4>1
        <5>2. Announced(k, t)
          BY <3>1, <4>1, <5>1 DEF Announced
        <5> QED
          BY <2>18, <3>1, <5>1, <5>2 DEF Watched
      <4>2. dev'[i].kind = "new_story" /\ dev'[j].kind = "new_story"
        BY <3>5 DEF Announced
      <4>3. CASE i <= p /\ j <= p
        BY <2>18, <3>5, <4>1, <4>3 DEF Watched
      <4>4. CASE i <= p /\ ~(j <= p)
        BY <2>6, <3>2, <3>5, <4>1, <4>2, <4>4
      <4>5. CASE ~(i <= p) /\ j <= p
        BY <2>6, <3>2, <3>5, <4>1, <4>2, <4>5
      <4>6. CASE ~(i <= p) /\ ~(j <= p)
        <5>1. i - p \in 1 .. n /\ j - p \in 1 .. n /\ new[i - p].story = new[j - p].story
          BY <2>6, <3>2, <3>5, <4>2, <4>6
        <5>2. i - p = j - p
          BY <2>2, <2>4, <5>1
        <5> QED
          BY <2>6, <5>2
      <4> QED
        BY <4>3, <4>4, <4>5, <4>6
    <3> QED
      BY <3>3, <3>4, <3>5 DEF Watched, Tracked
  <2>19. ASSUME ~raced, NEW u \in Reader PROVE FollowWatched(u)' /\ AskWatched(u)'
    <3>1. FollowWatched(u) /\ AskWatched(u)
      BY <2>19 DEF UpdateInv, Watching
    <3>2. follow'["topic"] = follow["topic"] /\ before' = before /\ asking' = asking
      BY <1>2
    <3>3. PICK t : t = follow["topic"][u].since
      OBVIOUS
    <3>4. PICK S : S = before[u]
      OBVIOUS
    <3>5. FollowWatched(u)'
      <4>1. CASE follow["topic"][u].id = 0
        BY <3>2, <4>1 DEF FollowWatched
      <4>2. CASE follow["topic"][u].id # 0
        <5>1. Watched(t, S)'
          BY <2>18, <3>1, <3>3, <3>4, <4>2 DEF FollowWatched
        <5> QED
          BY <3>2, <3>3, <3>4, <5>1 DEF FollowWatched, Watched, Announced, Tracked
      <4> QED
        BY <4>1, <4>2
    <3>6. PICK a : a = asking[u].at
      OBVIOUS
    <3>7. PICK A : A = asking[u].match \ asking[u].missing
      OBVIOUS
    <3>8. AskWatched(u)'
      <4>1. CASE asking[u].pc # "topic"
        BY <3>2, <4>1 DEF AskWatched
      <4>2. CASE asking[u].pc = "topic"
        <5>1. Watched(a, A)'
          BY <2>18, <3>1, <3>6, <3>7, <4>2 DEF AskWatched
        <5> QED
          BY <3>2, <3>6, <3>7, <5>1 DEF AskWatched, Watched, Announced, Tracked
      <4> QED
        BY <4>1, <4>2
    <3> QED
      BY <3>5, <3>8
  <2>20. Watching'
    BY <1>2, <2>19 DEF Watching
  <2> QED
    BY <2>11, <2>14, <2>15, <2>20 DEF UpdateInv
<1> QED
  BY <1>3, <1>5, <1>6, Zenon DEF Record

LEMMA UpdateInvInit == UpdateInit => UpdateInv
<1> SUFFICES ASSUME UpdateInit PROVE UpdateInv
  OBVIOUS
<1>1. <<>> \in Seq(Development) /\ DOMAIN <<>> = {} /\ <<>> \in Seq(Nat)
  OBVIOUS
<1>2. UpdateTypes
  BY <1>1, NoFollowType DEF UpdateInit, UpdateTypes, NotAsking
<1>3. IsMemory(Quiet) /\ Quiet.pc = "off" /\ Quiet.now = 0
  BY DEF Quiet, IsMemory
<1>4. Memory(Quiet)
  BY <1>3 DEF Memory, Timely, Loop, Channel
<1>5. \A r \in UpdateRun : Memory(urun[r])
  BY <1>4 DEF UpdateInit
<1>6. \A ch \in Channel, u \in Reader : Kept(ch, u)
  BY <1>1 DEF UpdateInit, Kept
<1>7. Watching
  BY NoFollowType DEF UpdateInit, Watching, FollowWatched, AskWatched, NotAsking, Channel
<1> QED
  BY <1>2, <1>5, <1>6, <1>7 DEF UpdateInv

LEMMA UpdateInvStep == UpdateInv /\ [UpdateNext]_uvars => UpdateInv'
<1> SUFFICES ASSUME UpdateInv, [UpdateNext]_uvars PROVE UpdateInv'
  OBVIOUS
<1>1. CASE UNCHANGED uvars
  <2>1. UNCHANGED <<dev, state, follow, told, before, asking, raced, lowered, made, urun, now, newest>>
    BY <1>1 DEF uvars
  <2>2. now \in Nat /\ newest \in Nat /\ DOMAIN urun = UpdateRun
    BY DEF UpdateInv, UpdateTypes
  <2> QED
    BY <2>1, <2>2, StillSafe
<1>2. CASE \/ \E c \in Cluster : Enrich(c) \/ Rejoin(c)
           \/ Publish \/ UTick \/ \E u \in Reader : SetPreference(u)
  BY <1>2, OutsideSafe
<1>3. CASE ExpireOrphans
  BY <1>3, ExpireOrphansSafe
<1>4. CASE \E u \in Reader : \/ AskTopic(u) \/ FollowTopic(u) \/ UnfollowTopic(u)
                             \/ Subscribe(u) \/ Unsubscribe(u)
  BY <1>4, AskTopicSafe, FollowTopicSafe, UnfollowSafe, SourceFollowSafe
<1>5. CASE \E r \in UpdateRun : detect_topic_developments(r)
  BY <1>5, StartRunSafe, ReadStatesSafe, RecordSafe DEF detect_topic_developments
<1>6. ASSUME NEW ch \in Channel, NEW r \in UpdateRun, Send(r, ch) PROVE UpdateInv'
  BY <1>6, LoadSafe, PassOverSafe, CountedSafe, ClaimUpdateSafe DEF Send
<1>7. CASE \E r \in UpdateRun : send_topic_updates(r) \/ send_source_updates(r)
  BY <1>6, <1>7 DEF send_topic_updates, send_source_updates, Channel
<1>8. CASE \E r \in UpdateRun : RunExpires(r)
  BY <1>8, RunExpiresSafe
<1> QED
  BY <1>1, <1>2, <1>3, <1>4, <1>5, <1>7, <1>8, Zenon DEF UpdateNext

\* What is told was recorded since the follow was made, and what was
\* recorded since then was watched.
LEMMA InvTellsNews == UpdateInv => FollowersHearNews
<1> SUFFICES ASSUME UpdateInv PROVE FollowersHearNews
  OBVIOUS
<1>1. "topic" \in Channel
  BY DEF Channel
<1>2. ASSUME ~raced, NEW u \in Reader, NEW i \in DOMAIN told["topic"][u],
             dev[told["topic"][u][i]].kind = "new_story"
      PROVE  /\ told["topic"][u][i] \in DOMAIN dev
             /\ Announced(told["topic"][u][i], follow["topic"][u].since)
             /\ Watched(follow["topic"][u].since, before[u])
  <2>1. Kept("topic", u) /\ FollowWatched(u)
    BY <1>1, <1>2 DEF UpdateInv, Watching
  <2>2. follow["topic"][u].id # 0
    BY <1>2, <2>1 DEF Kept
  <2>3. Watched(follow["topic"][u].since, before[u])
    BY <2>1, <2>2 DEF FollowWatched
  <2> QED
    BY <1>2, <2>1, <2>3 DEF Kept, Announced
<1>3. ToldNewOnce
  <2>1. ASSUME ~raced, NEW u \in Reader, NEW i \in DOMAIN told["topic"][u], NEW j \in DOMAIN told["topic"][u],
               dev[told["topic"][u][i]].kind = "new_story", dev[told["topic"][u][j]].kind = "new_story",
               dev[told["topic"][u][i]].story = dev[told["topic"][u][j]].story
        PROVE  told["topic"][u][i] = told["topic"][u][j]
    BY <1>2, <2>1 DEF Watched
  <2> QED
    BY <2>1, Zenon DEF ToldNewOnce
<1>4. NewIsNew
  <2>1. ASSUME ~raced, NEW u \in Reader, NEW i \in DOMAIN told["topic"][u],
               dev[told["topic"][u][i]].kind = "new_story"
        PROVE  dev[told["topic"][u][i]].story \notin before[u]
    BY <1>2, <2>1 DEF Watched
  <2> QED
    BY <2>1, Zenon DEF NewIsNew
<1>5. PushesMoveForward
  BY DEF UpdateInv, Kept, PushesMoveForward
<1> QED
  BY <1>3, <1>4, <1>5 DEF FollowersHearNews

\* A follower of a topic or a source hears news only, each once and in
\* order, whatever runs overlap (topic_updates.py, source_updates.py).
THEOREM FollowersStayInformed == UpdateSpec => []FollowersHearNews
<1>1. UpdateInit => UpdateInv
  BY UpdateInvInit
<1>2. UpdateInv /\ [UpdateNext]_uvars => UpdateInv'
  BY UpdateInvStep
<1>3. UpdateInv => FollowersHearNews
  BY InvTellsNews
<1> QED
  BY <1>1, <1>2, <1>3, PTL DEF UpdateSpec
-----------------------------------------------------------------------------
(* ReadyAlerts: what goes out once.                                        *)

\* What a run holds is a record of these fields.
IsAlarm(m) == m = [pc |-> m.pc, now |-> m.now, todo |-> m.todo, who |-> m.who, paid |-> m.paid]

InBrief(m, k) == m.pc = k /\ m.todo # {}

Alarm(m) ==
    /\ IsAlarm(m) /\ m.now \in 0 .. EndTick
    /\ m.todo \subseteq Member /\ m.who \subseteq m.todo
    /\ m.pc = "trial" => m.todo \cap m.paid = {}
    /\ \A k \in Brief : InBrief(m, k) => TimeOfDay(m.now) >= Shift

\* The days of the log.
LogDay == 0 .. UtcDay(EndTick)

IsTrial(x) == x = [ends |-> x.ends, paid |-> x.paid, reminded |-> x.reminded]

ReadyTypes ==
    /\ hour \in 0 .. EndTick
    /\ DOMAIN rrun = ReadyRun /\ DOMAIN trial = Member
    /\ sent \in [Brief -> [Member -> [LogDay -> Nat]]]
    /\ rang \in [Kind -> [Member -> [Day -> Nat]]]
    /\ \A k \in Kind : opted[k] \subseteq Member
    /\ \A u \in Member : IsTrial(trial[u])
    /\ \A r \in ReadyRun : Alarm(rrun[r])

\* Two runs that are in the same step on the same day have crossed; who is
\* about to send has seen no row, and none was added but by such a run.
Crossings ==
    \A k \in Brief, q, r \in ReadyRun :
        q # r /\ InBrief(rrun[q], k) /\ InBrief(rrun[r], k) /\ UtcDay(rrun[q].now) = UtcDay(rrun[r].now)
            => <<k, UtcDay(rrun[r].now)>> \in crossed
AboutToSend ==
    \A k \in Brief, r \in ReadyRun, u \in Member :
        rrun[r].pc = k /\ u \in rrun[r].who =>
            sent[k][u][UtcDay(rrun[r].now)] = 0 \/ <<k, UtcDay(rrun[r].now)>> \in crossed
SentOnce ==
    \A k \in Brief, u \in Member, d \in LogDay : sent[k][u][d] <= 1 \/ <<k, d>> \in crossed

\* A brief rings after the day of the log has begun, and each ring has a row.
RungIsSent ==
    \A k \in Brief, u \in Member, d \in Day :
        rang[k][u][d] > 0 =>
            /\ DayLength * d + Shift <= EndTick /\ d + 1 \in LogDay
            /\ rang[k][u][d] <= sent[k][u][d + 1]

StarsClaimed ==
    \A u \in Member, d \in Day : rang["stars"][u][d] <= 1 /\ (rang["stars"][u][d] > 0 => <<u, d>> \in claimed)
Reminded ==
    \A u \in Member, d \in Day : rang["trial"][u][d] <= 1 /\ (rang["trial"][u][d] > 0 => trial[u].reminded)

ReadyInv ==
    /\ ReadyTypes /\ nagged = {}
    /\ Crossings /\ AboutToSend /\ SentOnce /\ RungIsSent
    /\ StarsClaimed /\ Reminded

LEMMA DivUnique ==
    ASSUME NEW D \in Nat \ {0}, NEW q \in Int, NEW e \in 0 .. D - 1, NEW t \in Int, t = D * q + e
    PROVE  t \div D = q
<1> DEFINE p == t \div D
           f == t % D
<1>1. t = D * p + f /\ f \in 0 .. D - 1 /\ p \in Int
  BY DivMod
<1> HIDE DEF p, f
<1>2. D * p \in Int /\ D * q \in Int
  BY <1>1, NextDay
<1>3. /\ p > q => D * p >= D * q + D
      /\ q > p => D * q >= D * p + D
  BY <1>1, LaterDays
<1>4. p = q
  BY <1>1, <1>2, <1>3
<1> QED
  BY <1>4 DEF p

\* Days go on with the ticks.
LEMMA DaysGoOn ==
    ASSUME NEW D \in Nat \ {0}, NEW t \in Int, NEW u \in Int, t <= u
    PROVE  t \div D <= u \div D
<1> DEFINE p == t \div D
           q == u \div D
           e == t % D
           f == u % D
<1>1. /\ t = D * p + e /\ e \in 0 .. D - 1 /\ p \in Int
      /\ u = D * q + f /\ f \in 0 .. D - 1 /\ q \in Int
  BY DivMod
<1> HIDE DEF p, q, e, f
<1>2. D * p \in Int /\ D * q \in Int
  BY <1>1, NextDay
<1>3. p > q => D * p >= D * q + D
  BY <1>1, LaterDays
<1>4. p <= q
  BY <1>1, <1>2, <1>3
<1> QED
  BY <1>4 DEF p, q

(* From Shift on, the day of the log is one ahead of the Indian one.       *)
LEMMA Calendar ==
    ASSUME NEW t \in 0 .. EndTick
    PROVE  /\ IstDay(t) \in Day /\ UtcDay(t) \in LogDay /\ TimeOfDay(t) \in Int
           /\ TimeOfDay(t) >= Shift => /\ UtcDay(t) = IstDay(t) + 1
                                       /\ DayLength * IstDay(t) + Shift <= EndTick
<1>1. DayLength \in Nat \ {0} /\ EndTick \in Nat /\ Shift \in 0 .. DayLength - 1
  BY ReadyAssumption
<1> DEFINE q == IstDay(t)
           e == TimeOfDay(t)
<1>2. t = DayLength * q + e /\ e \in 0 .. DayLength - 1 /\ q \in Int
  BY <1>1, DivMod DEF IstDay, TimeOfDay
<1>3. 0 \div DayLength = 0
  <2>1. 0 = DayLength * 0 + 0
    BY <1>1
  <2> QED
    BY <1>1, <2>1, DivUnique
<1>4. IstDay(t) \in Day
  <2>1. 0 <= t \div DayLength /\ t \div DayLength <= EndTick \div DayLength
    BY <1>1, <1>3, DaysGoOn
  <2>2. t \div DayLength \in Int /\ EndTick \div DayLength \in Int
    BY <1>1, DivMod
  <2> QED
    BY <2>1, <2>2 DEF IstDay, Day
<1>5. UtcDay(t) \in LogDay
  <2>1. /\ t + DayLength - Shift \in Int /\ EndTick + DayLength - Shift \in Int
        /\ 0 <= t + DayLength - Shift /\ t + DayLength - Shift <= EndTick + DayLength - Shift
    BY <1>1
  <2>2. /\ 0 <= (t + DayLength - Shift) \div DayLength
        /\ (t + DayLength - Shift) \div DayLength <= (EndTick + DayLength - Shift) \div DayLength
    BY <1>1, <1>3, <2>1, DaysGoOn
  <2>3. (t + DayLength - Shift) \div DayLength \in Int /\ (EndTick + DayLength - Shift) \div DayLength \in Int
    BY <1>1, <2>1, DivMod
  <2> QED
    BY <2>2, <2>3 DEF UtcDay, LogDay
<1>6. ASSUME TimeOfDay(t) >= Shift
      PROVE  UtcDay(t) = IstDay(t) + 1 /\ DayLength * IstDay(t) + Shift <= EndTick
  <2> HIDE DEF q, e
  <2>0. e >= Shift
    BY <1>6 DEF e
  <2>1. DayLength * q \in Int /\ DayLength * (q + 1) = DayLength * q + DayLength
    BY <1>1, <1>2, NextDay
  <2>2. t + DayLength - Shift = DayLength * (q + 1) + (e - Shift)
    BY <1>1, <1>2, <2>1
  <2>3. e - Shift \in 0 .. DayLength - 1 /\ q + 1 \in Int /\ t + DayLength - Shift \in Int
    BY <1>1, <1>2, <2>0
  <2>4. (t + DayLength - Shift) \div DayLength = q + 1
    <3>1. PICK w : w = t + DayLength - Shift
      OBVIOUS
    <3>2. PICK f : f = e - Shift
      OBVIOUS
    <3>3. PICK p : p = q + 1
      OBVIOUS
    <3>4. w = DayLength * p + f
      BY <2>2, <3>1, <3>2, <3>3, Zenon
    <3>5. w \in Int /\ p \in Int /\ f \in 0 .. DayLength - 1
      BY <2>3, <3>1, <3>2, <3>3, Zenon
    <3>6. w \div DayLength = p
      BY <1>1, <3>4, <3>5, DivUnique
    <3> QED
      BY <3>1, <3>3, <3>6, Zenon
  <2>5. DayLength * q + Shift <= EndTick
    BY <1>1, <1>2, <2>0, <2>1
  <2> QED
    BY <2>4, <2>5 DEF UtcDay, q
<1>7. TimeOfDay(t) \in Int
  BY <1>2
<1> QED
  BY <1>4, <1>5, <1>6, <1>7

\* Shift ticks into a day are in the day of the log after it.
LEMMA DawnOf ==
    ASSUME NEW d \in Day, DayLength * d + Shift <= EndTick
    PROVE  \E t \in 0 .. EndTick : IstDay(t) = d /\ UtcDay(t) = d + 1
<1>1. DayLength \in Nat \ {0} /\ EndTick \in Nat /\ Shift \in 0 .. DayLength - 1
  BY ReadyAssumption
<1>2. d \in Nat
  BY DEF Day
<1>3. DayLength * d \in Int /\ DayLength * (d + 1) = DayLength * d + DayLength
  BY <1>1, <1>2, NextDay
<1>4. DayLength * d >= 0
  <2>1. DayLength * 0 <= DayLength * d
    BY <1>1, <1>2, LaterDays
  <2>2. DayLength * 0 = 0
    BY <1>1
  <2> QED
    BY <2>1, <2>2
<1> DEFINE t == DayLength * d + Shift
<1>5. t \in 0 .. EndTick
  BY <1>1, <1>3, <1>4
<1>6. IstDay(t) = d
  BY <1>1, <1>2, <1>5, DivUnique DEF IstDay
<1>7. UtcDay(t) = d + 1
  <2> DEFINE w == t + DayLength - Shift
  <2>1. w = DayLength * (d + 1) + 0 /\ w \in Int /\ d + 1 \in Int /\ 0 \in 0 .. DayLength - 1
    BY <1>1, <1>2, <1>3
  <2> HIDE DEF w
  <2>2. w \div DayLength = d + 1
    BY <1>1, <2>1, DivUnique
  <2> QED
    BY <2>2 DEF w, UtcDay
<1> QED
  BY <1>5, <1>6, <1>7

-----------------------------------------------------------------------------
(* What a run has in mind.                                                 *)

LEMMA NextStepFits ==
    ASSUME NEW m, Alarm(m), NEW k \in Kind
    PROVE  Alarm(NextStep(m, k)) /\ NextStep(m, k).todo = {} /\ NextStep(m, k).who = {}
<1>1. /\ m = [pc |-> m.pc, now |-> m.now, todo |-> m.todo, who |-> m.who, paid |-> m.paid]
      /\ m.now \in 0 .. EndTick /\ EndTick \in Nat
  BY ReadyAssumption DEF Alarm, IsAlarm
<1>2. NextStep(m, k) = [pc |-> After(k), now |-> IF After(k) = "off" THEN 0 ELSE m.now,
                        todo |-> {}, who |-> {}, paid |-> {}]
  <2>1. ASSUME NEW p, NEW t
        PROVE  [Asleep EXCEPT !.pc = p, !.now = t] = [pc |-> p, now |-> t, todo |-> {}, who |-> {}, paid |-> {}]
    <3>1. PICK h : h = [pc |-> p, now |-> 0, todo |-> {}, who |-> {}, paid |-> {}]
      OBVIOUS
    <3>2. [Asleep EXCEPT !.pc = p] = h
      BY <3>1 DEF Asleep
    <3>3. [h EXCEPT !.now = t] = [pc |-> p, now |-> t, todo |-> {}, who |-> {}, paid |-> {}]
      BY <3>1
    <3> QED
      BY <3>2, <3>3
  <2> QED
    BY <2>1, Zenon DEF NextStep
<1> QED
  BY <1>1, <1>2 DEF Alarm, IsAlarm, InBrief

LEMMA DoneFits ==
    ASSUME NEW m, Alarm(m), NEW k \in Kind, m.pc = k, NEW u \in m.todo
    PROVE  /\ Alarm(Done(m, k, u)) /\ Done(m, k, u).who = {}
           /\ \A l \in Brief : InBrief(Done(m, k, u), l) => InBrief(m, l) /\ Done(m, k, u).now = m.now
<1>1. m = [pc |-> m.pc, now |-> m.now, todo |-> m.todo, who |-> m.who, paid |-> m.paid]
  BY DEF Alarm, IsAlarm
<1>2. CASE m.todo = {u}
  BY <1>2, NextStepFits DEF Done, InBrief
<1>3. CASE m.todo # {u}
  <2> DEFINE n == [pc |-> m.pc, now |-> m.now, todo |-> m.todo \ {u}, who |-> {}, paid |-> m.paid]
  <2>1. Done(m, k, u) = n
    BY <1>1, <1>3 DEF Done
  <2>2. Alarm(n) /\ n.who = {} /\ n.now = m.now /\ \A l \in Brief : InBrief(n, l) => InBrief(m, l)
    BY DEF Alarm, IsAlarm, InBrief
  <2> QED
    BY <2>1, <2>2
<1> QED
  BY <1>2, <1>3

(* Only one run changes its mind, and what it is now in the middle of, who *)
(* else is there has crossed it.                                           *)
LEMMA MindsMove ==
    ASSUME ReadyInv, NEW r \in ReadyRun, NEW n, rrun' = [rrun EXCEPT ![r] = n], Alarm(n),
           crossed \subseteq crossed',
           \A k \in Brief, q \in ReadyRun \ {r} :
               InBrief(n, k) /\ InBrief(rrun[q], k) /\ UtcDay(n.now) = UtcDay(rrun[q].now)
                   => <<k, UtcDay(n.now)>> \in crossed'
    PROVE  /\ DOMAIN rrun' = ReadyRun /\ \A q \in ReadyRun : Alarm(rrun[q])'
           /\ rrun'[r] = n /\ \A q \in ReadyRun \ {r} : rrun'[q] = rrun[q]
           /\ Crossings'
<1>1. DOMAIN rrun = ReadyRun /\ \A q \in ReadyRun : Alarm(rrun[q])
  BY DEF ReadyInv, ReadyTypes
<1>2. DOMAIN rrun' = ReadyRun /\ rrun'[r] = n /\ \A q \in ReadyRun \ {r} : rrun'[q] = rrun[q]
  BY <1>1
<1>3. ASSUME NEW q \in ReadyRun PROVE Alarm(rrun[q])'
  <2>1. PICK x : x = rrun'[q]
    OBVIOUS
  <2>2. Alarm(x)
    BY <1>1, <1>2, <2>1
  <2> QED
    BY <2>1, <2>2 DEF Alarm, IsAlarm, InBrief
<1>4. Crossings'
  <2> SUFFICES ASSUME NEW k \in Brief, NEW p \in ReadyRun, NEW q \in ReadyRun, p # q,
                      InBrief(rrun[p], k)', InBrief(rrun[q], k)',
                      UtcDay(rrun'[p].now) = UtcDay(rrun'[q].now)
               PROVE  <<k, UtcDay(rrun'[q].now)>> \in crossed'
    BY DEF Crossings
  <2>1. CASE p = r
    BY <1>2, <2>1 DEF InBrief
  <2>2. CASE q = r
    BY <1>2, <2>2 DEF InBrief
  <2>3. CASE p # r /\ q # r
    <3>1. <<k, UtcDay(rrun[q].now)>> \in crossed
      BY <1>2, <2>3 DEF InBrief, Crossings, ReadyInv
    <3> QED
      BY <3>1, <1>2, <2>3
  <2> QED
    BY <2>1, <2>2, <2>3
<1> QED
  BY <1>2, <1>3, <1>4

(* A run that goes on in a step it is in, or leaves it, crosses nobody new. *)
LEMMA StaysInStep ==
    ASSUME ReadyInv, NEW r \in ReadyRun, NEW n,
           \A k \in Brief : InBrief(n, k) => InBrief(rrun[r], k) /\ n.now = rrun[r].now
    PROVE  \A k \in Brief, q \in ReadyRun \ {r} :
               InBrief(n, k) /\ InBrief(rrun[q], k) /\ UtcDay(n.now) = UtcDay(rrun[q].now)
                   => <<k, UtcDay(n.now)>> \in crossed
<1> SUFFICES ASSUME NEW k \in Brief, NEW q \in ReadyRun \ {r}, InBrief(n, k), InBrief(rrun[q], k),
                    UtcDay(n.now) = UtcDay(rrun[q].now)
             PROVE  <<k, UtcDay(n.now)>> \in crossed
  OBVIOUS
<1>1. <<k, UtcDay(rrun[q].now)>> \in crossed
  BY DEF ReadyInv, Crossings
<1> QED
  BY <1>1

(* Nothing is sent.                                                        *)
LEMMA NothingSent ==
    ASSUME ReadyInv, NEW r \in ReadyRun, NEW n, rrun' = [rrun EXCEPT ![r] = n], Alarm(n),
           crossed \subseteq crossed',
           \A k \in Brief, q \in ReadyRun \ {r} :
               InBrief(n, k) /\ InBrief(rrun[q], k) /\ UtcDay(n.now) = UtcDay(rrun[q].now)
                   => <<k, UtcDay(n.now)>> \in crossed',
           \A k \in Brief, u \in Member : n.pc = k /\ u \in n.who => sent[k][u][UtcDay(n.now)] = 0,
           UNCHANGED <<hour, opted, sent, claimed, trial, rang, nagged>>
    PROVE  ReadyInv'
<1>1. /\ DOMAIN rrun' = ReadyRun /\ \A q \in ReadyRun : Alarm(rrun[q])'
      /\ rrun'[r] = n /\ \A q \in ReadyRun \ {r} : rrun'[q] = rrun[q]
      /\ Crossings'
  BY MindsMove
<1>2. ReadyTypes'
  BY <1>1 DEF ReadyInv, ReadyTypes, IsTrial
<1>3. AboutToSend'
  <2> SUFFICES ASSUME NEW k \in Brief, NEW q \in ReadyRun, NEW u \in Member,
                      rrun'[q].pc = k, u \in rrun'[q].who
               PROVE  sent[k][u][UtcDay(rrun'[q].now)] = 0 \/ <<k, UtcDay(rrun'[q].now)>> \in crossed'
    BY DEF AboutToSend
  <2>1. CASE q = r
    BY <1>1, <2>1
  <2>2. CASE q # r
    BY <1>1, <2>2 DEF ReadyInv, AboutToSend
  <2> QED
    BY <2>1, <2>2
<1>4. SentOnce' /\ RungIsSent' /\ StarsClaimed' /\ Reminded' /\ nagged' = {}
  BY DEF ReadyInv, SentOnce, RungIsSent, StarsClaimed, Reminded
<1> QED
  BY <1>1, <1>2, <1>3, <1>4 DEF ReadyInv

(* The other writers.                                                      *)
LEMMA NobodyRings ==
    ASSUME ReadyInv, hour' \in 0 .. EndTick, UNCHANGED <<opted, sent, claimed, rrun, rang, crossed, nagged>>,
           DOMAIN trial' = Member,
           \A u \in Member : IsTrial(trial[u])' /\ (trial[u].reminded => trial'[u].reminded)
    PROVE  ReadyInv'
<1>1. ReadyTypes'
  <2>1. ASSUME NEW r \in ReadyRun PROVE Alarm(rrun[r])'
    BY DEF ReadyInv, ReadyTypes, Alarm, IsAlarm, InBrief
  <2> QED
    BY <2>1 DEF ReadyInv, ReadyTypes
<1>2. Crossings' /\ AboutToSend'
  BY DEF ReadyInv, Crossings, AboutToSend, InBrief
<1>3. SentOnce' /\ RungIsSent' /\ StarsClaimed' /\ nagged' = {}
  BY DEF ReadyInv, SentOnce, RungIsSent, StarsClaimed
<1>4. Reminded'
  BY DEF ReadyInv, Reminded
<1> QED
  BY <1>1, <1>2, <1>3, <1>4 DEF ReadyInv

LEMMA OthersSafe ==
    ASSUME ReadyInv,
           \/ PassTime \/ Forecast \/ \E k \in Brief : BriefReady(k)
           \/ \E u \in Member : Purchase(u) \/ \E a \in Asker : AskTrial(a, u) \/ StartTrial(a, u)
    PROVE  ReadyInv'
<1>1. /\ hour \in 0 .. EndTick /\ EndTick \in Nat /\ DOMAIN trial = Member
      /\ \A u \in Member : IsTrial(trial[u])
  BY ReadyAssumption DEF ReadyInv, ReadyTypes
<1>2. ASSUME UNCHANGED trial
      PROVE  DOMAIN trial' = Member
             /\ \A u \in Member : IsTrial(trial[u])' /\ (trial[u].reminded => trial'[u].reminded)
  BY <1>1, <1>2 DEF IsTrial
<1>3. CASE PassTime
  <2>1. hour' \in 0 .. EndTick /\ UNCHANGED <<opted, sent, claimed, trial, rrun, rang, crossed, nagged>>
    BY <1>1, <1>3 DEF PassTime
  <2> QED
    BY <1>2, <2>1, NobodyRings
<1>4. CASE Forecast \/ \E k \in Brief : BriefReady(k)
  <2>1. UNCHANGED <<hour, opted, sent, claimed, trial, rrun, rang, crossed, nagged>>
    BY <1>4 DEF Forecast, BriefReady
  <2> QED
    BY <1>1, <1>2, <2>1, NobodyRings
<1>5. ASSUME NEW u \in Member, Purchase(u) PROVE ReadyInv'
  <2>1. UNCHANGED <<hour, opted, sent, claimed, rrun, rang, crossed, nagged>>
    BY <1>5 DEF Purchase
  <2>2. trial' = [trial EXCEPT ![u].paid = TRUE]
    BY <1>5 DEF Purchase
  <2>3. DOMAIN trial' = Member
    BY <1>1, <2>2
  <2>4. ASSUME NEW v \in Member PROVE IsTrial(trial[v])' /\ (trial[v].reminded => trial'[v].reminded)
    <3>1. trial[v] = [ends |-> trial[v].ends, paid |-> trial[v].paid, reminded |-> trial[v].reminded]
      BY <1>1 DEF IsTrial
    <3>2. trial'[v] = trial[v] \/ trial'[v] = [ends |-> trial[v].ends, paid |-> TRUE, reminded |-> trial[v].reminded]
      <4>1. ASSUME NEW a, NEW b, NEW c, NEW q
            PROVE  [[ends |-> a, paid |-> b, reminded |-> c] EXCEPT !.paid = q] =
                       [ends |-> a, paid |-> q, reminded |-> c]
        OBVIOUS
      <4>2. trial'[v] = trial[v] \/ trial'[v] = [trial[v] EXCEPT !.paid = TRUE]
        BY <1>1, <2>2
      <4> QED
        BY <3>1, <4>1, <4>2, Zenon
    <3> QED
      BY <3>1, <3>2 DEF IsTrial
  <2> QED
    BY <1>1, <2>1, <2>3, <2>4, NobodyRings
<1>6. ASSUME NEW u \in Member, NEW a \in Asker, AskTrial(a, u) PROVE ReadyInv'
  <2>1. UNCHANGED <<hour, opted, sent, claimed, trial, rrun, rang, crossed, nagged>>
    BY <1>6 DEF AskTrial
  <2> QED
    BY <1>1, <1>2, <2>1, NobodyRings
<1>7. ASSUME NEW u \in Member, NEW a \in Asker, StartTrial(a, u) PROVE ReadyInv'
  <2>1. UNCHANGED <<hour, opted, sent, claimed, rrun, rang, crossed, nagged>>
    BY <1>7 DEF StartTrial
  <2>2. PICK e : e = hour + TrialDays * DayLength
    OBVIOUS
  <2>3. \/ UNCHANGED trial
        \/ /\ trial[u] = NoTrial
           /\ trial' = [trial EXCEPT ![u] = [ends |-> e, paid |-> FALSE, reminded |-> FALSE]]
    BY <1>7, <2>2 DEF StartTrial
  <2>4. CASE trial[u] = NoTrial /\ trial' = [trial EXCEPT ![u] = [ends |-> e, paid |-> FALSE, reminded |-> FALSE]]
    <3>1. DOMAIN trial' = Member
      BY <1>1, <2>4
    <3>2. ASSUME NEW v \in Member PROVE IsTrial(trial[v])' /\ (trial[v].reminded => trial'[v].reminded)
      <4>1. \/ trial'[v] = trial[v]
            \/ ~trial[v].reminded /\ trial'[v] = [ends |-> e, paid |-> FALSE, reminded |-> FALSE]
        BY <1>1, <2>4 DEF NoTrial
      <4>2. IsTrial(trial[v])
        BY <1>1
      <4> QED
        BY <4>1, <4>2 DEF IsTrial
    <3> QED
      BY <1>1, <2>1, <3>1, <3>2, NobodyRings
  <2> QED
    BY <1>1, <1>2, <2>1, <2>3, <2>4, NobodyRings
<1> QED
  BY <1>3, <1>4, <1>5, <1>6, <1>7

(* A run that wakes, ends, loads a step or checks the log.                 *)
LEMMA WakeSafe ==
    ASSUME ReadyInv, NEW r \in ReadyRun, WakeUp(r) \/ Die(r) PROVE ReadyInv'
<1>1. PICK x : /\ rrun' = [rrun EXCEPT ![r] = x]
               /\ \/ x = [pc |-> "brief", now |-> hour, todo |-> {}, who |-> {}, paid |-> {}]
                  \/ x = [pc |-> "off", now |-> 0, todo |-> {}, who |-> {}, paid |-> {}]
  BY ZenonT(60) DEF WakeUp, Die, Asleep
<1>2. UNCHANGED <<hour, opted, sent, claimed, trial, rang, nagged>> /\ crossed \subseteq crossed'
  BY DEF WakeUp, Die
<1>3. hour \in 0 .. EndTick /\ 0 \in 0 .. EndTick
  BY ReadyAssumption DEF ReadyInv, ReadyTypes
<1>4. x.todo = {} /\ x.who = {} /\ IsAlarm(x) /\ x.now \in 0 .. EndTick
  BY <1>1, <1>3 DEF IsAlarm
<1>5. Alarm(x) /\ \A k \in Brief : ~InBrief(x, k)
  BY <1>4 DEF Alarm, InBrief
<1> QED
  BY <1>1, <1>2, <1>4, <1>5, NothingSent

LEMMA WhoIsDue ==
    ASSUME ReadyInv, NEW k \in Kind, NEW t \in 0 .. EndTick
    PROVE  /\ Due(k, t) \subseteq Member
           /\ k = "trial" => \A u \in Due(k, t) : ~trial[u].paid
           /\ k \in Brief /\ Due(k, t) # {} => TimeOfDay(t) >= Shift
<1>1. opted[k] \subseteq Member
  BY DEF ReadyInv, ReadyTypes
<1>2. k \in Brief => /\ BriefFrom[k] \in Int /\ BriefFrom[k] >= Shift
                     /\ Shift \in Int /\ TimeOfDay(t) \in Int /\ k # "trial" /\ k # "stars"
  BY ReadyAssumption, Calendar DEF Brief
<1>3. k = "trial" => \A u \in Due(k, t) : ~trial[u].paid
  BY DEF Due, ReminderDue
<1>4. Due(k, t) \subseteq Member
  BY <1>1 DEF Due
<1>5. ASSUME k \in Brief, Due(k, t) # {} PROVE TimeOfDay(t) >= Shift
  <2>1. TimeOfDay(t) >= BriefFrom[k]
    BY <1>2, <1>5 DEF Due
  <2> QED
    BY <1>2, <1>5, <2>1
<1> QED
  BY <1>3, <1>4, <1>5

LEMMA LoadStepSafe ==
    ASSUME ReadyInv, NEW r \in ReadyRun, NEW k \in Kind, LoadStep(r, k) PROVE ReadyInv'
<1>1. PICK m : m = rrun[r]
  OBVIOUS
<1>2. PICK due : due = Due(k, m.now)
  OBVIOUS
<1>3. PICK paying : paying = {u \in Member : trial[u].paid}
  OBVIOUS
<1>4. Alarm(m) /\ m.pc = k /\ m.todo = {} /\ m.who = {} /\ m.now \in 0 .. EndTick
  BY <1>1 DEF LoadStep, ReadyInv, ReadyTypes, Alarm
<1>5. m = [pc |-> k, now |-> m.now, todo |-> {}, who |-> {}, paid |-> m.paid]
  BY <1>4 DEF Alarm, IsAlarm
<1>6. /\ due \subseteq Member /\ (k = "trial" => due \cap paying = {})
      /\ k \in Brief /\ due # {} => TimeOfDay(m.now) >= Shift
  BY <1>2, <1>3, <1>4, WhoIsDue
<1>7. UNCHANGED <<hour, opted, sent, claimed, trial, rang, nagged>>
  BY DEF LoadStep
<1>8. crossed' = crossed \cup {x \in {<<k, UtcDay(m.now)>>} :
                      k \in Brief /\ due # {} /\ \E q \in ReadyRun \ {r} : rrun[q].pc = k /\ rrun[q].todo # {}}
  BY <1>1, <1>2 DEF LoadStep
<1>9. CASE due = {}
  <2>1. rrun' = [rrun EXCEPT ![r] = NextStep(m, k)]
    BY <1>1, <1>2, <1>9 DEF LoadStep
  <2>2. Alarm(NextStep(m, k)) /\ NextStep(m, k).todo = {} /\ NextStep(m, k).who = {}
    BY <1>4, NextStepFits
  <2>3. PICK n : n = NextStep(m, k)
    OBVIOUS
  <2>4. \A l \in Brief : ~InBrief(n, l)
    BY <2>2, <2>3 DEF InBrief
  <2> QED
    BY <1>7, <1>8, <2>1, <2>2, <2>3, <2>4, NothingSent
<1>10. CASE due # {}
  <2>1. PICK n : n = [pc |-> k, now |-> m.now, todo |-> due, who |-> {}, paid |-> paying]
    OBVIOUS
  <2>2. rrun' = [rrun EXCEPT ![r] = n]
    <3>1. rrun' = [rrun EXCEPT ![r] = [m EXCEPT !.todo = due, !.paid = paying]]
      BY <1>1, <1>2, <1>3, <1>10 DEF LoadStep
    <3>2. PICK h : h = [pc |-> k, now |-> m.now, todo |-> due, who |-> {}, paid |-> m.paid]
      OBVIOUS
    <3>3. [m EXCEPT !.todo = due] = h
      BY <1>5, <3>2
    <3>4. [h EXCEPT !.paid = paying] = n
      BY <2>1, <3>2
    <3>5. [m EXCEPT !.todo = due, !.paid = paying] = n
      BY <3>3, <3>4
    <3> QED
      BY <3>1, <3>5
  <2>3. Alarm(n) /\ n.who = {} /\ n.now = m.now /\ n.pc = k
    BY <1>4, <1>6, <2>1 DEF Alarm, IsAlarm, InBrief
  <2>4. ASSUME NEW l \in Brief, NEW q \in ReadyRun \ {r}, InBrief(n, l), InBrief(rrun[q], l),
               UtcDay(n.now) = UtcDay(rrun[q].now)
        PROVE  <<l, UtcDay(n.now)>> \in crossed'
    BY <1>8, <1>10, <2>3, <2>4 DEF InBrief
  <2>5. crossed \subseteq crossed'
    BY <1>8
  <2> QED
    BY <1>7, <2>2, <2>3, <2>4, <2>5, NothingSent
<1> QED
  BY <1>9, <1>10

LEMMA CheckSentSafe ==
    ASSUME ReadyInv, NEW r \in ReadyRun, NEW k \in Brief, NEW u \in Member, CheckSent(r, k, u) PROVE ReadyInv'
<1>1. PICK m : m = rrun[r]
  OBVIOUS
<1>2. PICK rows : rows = sent[k][u][UtcDay(m.now)]
  OBVIOUS
<1>3. Alarm(m) /\ m.pc = k /\ u \in m.todo /\ m.now \in 0 .. EndTick
  BY <1>1 DEF CheckSent, ReadyInv, ReadyTypes, Alarm
<1>4. rows \in Nat
  BY <1>2, <1>3, Calendar DEF ReadyInv, ReadyTypes
<1>5. UNCHANGED <<hour, opted, sent, claimed, trial, rang, crossed, nagged>>
  BY DEF CheckSent
<1>6. rrun' = [rrun EXCEPT ![r] = IF rows > 1 THEN NextStep(m, k)
                                   ELSE IF rows = 1 THEN Done(m, k, u) ELSE [m EXCEPT !.who = {u}]]
  BY <1>1, <1>2 DEF CheckSent, Rows
<1>7. k \in Kind
  BY DEF Kind
<1>8. ASSUME NEW n, Alarm(n), n.who = {}, rrun' = [rrun EXCEPT ![r] = n],
             \A l \in Brief : InBrief(n, l) => InBrief(m, l) /\ n.now = m.now
      PROVE  ReadyInv'
  <2>1. \A l \in Brief, q \in ReadyRun \ {r} :
               InBrief(n, l) /\ InBrief(rrun[q], l) /\ UtcDay(n.now) = UtcDay(rrun[q].now)
                   => <<l, UtcDay(n.now)>> \in crossed'
    BY <1>1, <1>5, <1>8, StaysInStep
  <2> QED
    BY <1>5, <1>8, <2>1, NothingSent
<1>9. CASE rows > 1
  <2>1. rrun' = [rrun EXCEPT ![r] = NextStep(m, k)]
    BY <1>4, <1>6, <1>9
  <2>2. Alarm(NextStep(m, k)) /\ NextStep(m, k).todo = {} /\ NextStep(m, k).who = {}
    BY <1>3, <1>7, NextStepFits
  <2> QED
    BY <1>8, <2>1, <2>2 DEF InBrief
<1>10. CASE rows = 1
  <2>1. rrun' = [rrun EXCEPT ![r] = Done(m, k, u)]
    BY <1>6, <1>10
  <2>2. /\ Alarm(Done(m, k, u)) /\ Done(m, k, u).who = {}
        /\ \A l \in Brief : InBrief(Done(m, k, u), l) => InBrief(m, l) /\ Done(m, k, u).now = m.now
    BY <1>3, <1>7, DoneFits
  <2> QED
    BY <1>8, <2>1, <2>2
<1>11. CASE rows = 0
  <2>1. PICK n : n = [pc |-> k, now |-> m.now, todo |-> m.todo, who |-> {u}, paid |-> m.paid]
    OBVIOUS
  <2>2. [m EXCEPT !.who = {u}] = n
    BY <1>3, <2>1 DEF Alarm, IsAlarm
  <2>3. rrun' = [rrun EXCEPT ![r] = n]
    <3>1. ~(rows > 1) /\ rows # 1
      BY <1>11
    <3> QED
      BY <1>6, <2>2, <3>1, Zenon
  <2>4. Alarm(n) /\ \A l \in Brief : InBrief(n, l) => InBrief(m, l) /\ n.now = m.now
    BY <1>3, <2>1 DEF Alarm, IsAlarm, InBrief
  <2>5. \A l \in Brief, v \in Member : n.pc = l /\ v \in n.who => sent[l][v][UtcDay(n.now)] = 0
    BY <1>2, <1>11, <2>1
  <2>6. \A l \in Brief, q \in ReadyRun \ {r} :
               InBrief(n, l) /\ InBrief(rrun[q], l) /\ UtcDay(n.now) = UtcDay(rrun[q].now)
                   => <<l, UtcDay(n.now)>> \in crossed'
    BY <1>1, <1>5, <2>4, StaysInStep
  <2>7. crossed \subseteq crossed'
    BY <1>5
  <2> QED
    BY <1>5, <2>3, <2>4, <2>5, <2>6, <2>7, NothingSent
<1> QED
  BY <1>4, <1>9, <1>10, <1>11

-----------------------------------------------------------------------------
(* What is sent.                                                           *)

LEMMA OneMoreOf ==
    ASSUME NEW S, NEW T, NEW D, NEW f \in [S -> [T -> [D -> Nat]]], NEW s \in S, NEW t \in T, NEW x \in D,
           NEW g, g = [f EXCEPT ![s][t][x] = f[s][t][x] + 1]
    PROVE  /\ g \in [S -> [T -> [D -> Nat]]]
           /\ g[s][t][x] = f[s][t][x] + 1
           /\ \A a \in S, b \in T, c \in D : a # s \/ b # t \/ c # x => g[a][b][c] = f[a][b][c]
  OBVIOUS

LEMMA RingOnce ==
    ASSUME ReadyInv, NEW k \in Kind, NEW u \in Member, NEW m, m.now \in 0 .. EndTick, Ring(k, u, m)
    PROVE  /\ rang' \in [Kind -> [Member -> [Day -> Nat]]]
           /\ \A x \in Kind : opted'[x] \subseteq Member
           /\ rang'[k][u][IstDay(m.now)] \in {rang[k][u][IstDay(m.now)], rang[k][u][IstDay(m.now)] + 1}
           /\ \A a \in Kind, b \in Member, c \in Day :
                  a # k \/ b # u \/ c # IstDay(m.now) => rang'[a][b][c] = rang[a][b][c]
<1>1. /\ rang \in [Kind -> [Member -> [Day -> Nat]]] /\ IstDay(m.now) \in Day
      /\ \A x \in Kind : opted[x] \subseteq Member
  BY Calendar DEF ReadyInv, ReadyTypes
<1>2. CASE /\ rang' = [rang EXCEPT ![k][u][IstDay(m.now)] = rang[k][u][IstDay(m.now)] + 1]
           /\ UNCHANGED opted
  <2>1. /\ rang' \in [Kind -> [Member -> [Day -> Nat]]]
        /\ rang'[k][u][IstDay(m.now)] = rang[k][u][IstDay(m.now)] + 1
        /\ \A a \in Kind, b \in Member, c \in Day :
               a # k \/ b # u \/ c # IstDay(m.now) => rang'[a][b][c] = rang[a][b][c]
    BY <1>1, <1>2, OneMoreOf
  <2> QED
    BY <1>1, <1>2, <2>1
<1>3. CASE /\ opted' = [x \in Kind |-> opted[x] \ {u}]
           /\ UNCHANGED rang
  BY <1>1, <1>3
<1> QED
  BY <1>2, <1>3 DEF Ring

(* Who sends a brief has left the step afterwards; whoever is still there  *)
(* has crossed it.                                                         *)
LEMMA SendBriefSafe ==
    ASSUME ReadyInv, NEW r \in ReadyRun, NEW k \in Brief, NEW u \in Member, SendBrief(r, k, u) PROVE ReadyInv'
<1>1. PICK m : m = rrun[r]
  OBVIOUS
<1>2. PICK x : x = UtcDay(m.now)
  OBVIOUS
<1>3. PICK d : d = IstDay(m.now)
  OBVIOUS
<1>4. k \in Kind /\ Alarm(m) /\ m.pc = k /\ u \in m.todo /\ u \in m.who /\ m.now \in 0 .. EndTick
  BY <1>1 DEF SendBrief, ReadyInv, ReadyTypes, Alarm, Kind
<1>5. /\ d \in Day /\ x \in LogDay /\ x = d + 1 /\ DayLength * d + Shift <= EndTick
  <2>1. InBrief(m, k)
    BY <1>4 DEF InBrief
  <2>2. TimeOfDay(m.now) >= Shift
    BY <1>4, <2>1 DEF Alarm
  <2> QED
    BY <1>2, <1>3, <1>4, <2>2, Calendar
<1>6. UNCHANGED <<hour, claimed, trial, crossed, nagged>> /\ Ring(k, u, m)
  BY <1>1 DEF SendBrief
<1>7. sent \in [Brief -> [Member -> [LogDay -> Nat]]] /\ rang \in [Kind -> [Member -> [Day -> Nat]]]
  BY DEF ReadyInv, ReadyTypes
<1>8. /\ sent' \in [Brief -> [Member -> [LogDay -> Nat]]]
      /\ sent'[k][u][x] = sent[k][u][x] + 1
      /\ \A a \in Brief, b \in Member, c \in LogDay :
             a # k \/ b # u \/ c # x => sent'[a][b][c] = sent[a][b][c]
  <2>1. sent' = [sent EXCEPT ![k][u][x] = sent[k][u][x] + 1]
    BY <1>1, <1>2 DEF SendBrief
  <2> QED
    BY <1>5, <1>7, <2>1, OneMoreOf
<1>9. /\ rang' \in [Kind -> [Member -> [Day -> Nat]]]
      /\ \A y \in Kind : opted'[y] \subseteq Member
      /\ rang'[k][u][d] \in {rang[k][u][d], rang[k][u][d] + 1}
      /\ \A a \in Kind, b \in Member, c \in Day : a # k \/ b # u \/ c # d => rang'[a][b][c] = rang[a][b][c]
  BY <1>3, <1>4, <1>6, RingOnce
<1>10. PICK n : n = Done(m, k, u)
  OBVIOUS
<1>11. /\ Alarm(n) /\ n.who = {} /\ rrun' = [rrun EXCEPT ![r] = n]
       /\ \A l \in Brief : InBrief(n, l) => InBrief(m, l) /\ n.now = m.now
  <2>1. rrun' = [rrun EXCEPT ![r] = n]
    BY <1>1, <1>10 DEF SendBrief
  <2> QED
    BY <1>4, <1>10, <2>1, DoneFits
<1>12. /\ DOMAIN rrun' = ReadyRun /\ \A q \in ReadyRun : Alarm(rrun[q])'
       /\ rrun'[r] = n /\ \A q \in ReadyRun \ {r} : rrun'[q] = rrun[q]
       /\ Crossings'
  <2>1. \A l \in Brief, q \in ReadyRun \ {r} :
               InBrief(n, l) /\ InBrief(rrun[q], l) /\ UtcDay(n.now) = UtcDay(rrun[q].now)
                   => <<l, UtcDay(n.now)>> \in crossed'
    BY <1>1, <1>6, <1>11, StaysInStep
  <2>2. crossed \subseteq crossed'
    BY <1>6
  <2> QED
    BY <1>11, <2>1, <2>2, MindsMove
<1>13. ReadyTypes'
  <2>1. hour' \in 0 .. EndTick /\ DOMAIN trial' = Member /\ \A v \in Member : IsTrial(trial[v])'
    BY <1>6 DEF ReadyInv, ReadyTypes, IsTrial
  <2> QED
    BY <1>8, <1>9, <1>12, <2>1 DEF ReadyTypes
<1>14. AboutToSend'
  <2> SUFFICES ASSUME NEW l \in Brief, NEW q \in ReadyRun, NEW v \in Member,
                      rrun'[q].pc = l, v \in rrun'[q].who
               PROVE  sent'[l][v][UtcDay(rrun'[q].now)] = 0 \/ <<l, UtcDay(rrun'[q].now)>> \in crossed'
    BY DEF AboutToSend
  <2>1. q # r /\ rrun'[q] = rrun[q]
    BY <1>11, <1>12
  <2>2. sent[l][v][UtcDay(rrun[q].now)] = 0 \/ <<l, UtcDay(rrun[q].now)>> \in crossed
    BY <2>1 DEF ReadyInv, AboutToSend
  <2>3. UtcDay(rrun[q].now) \in LogDay /\ rrun[q].who \subseteq rrun[q].todo
    <3>1. rrun[q].now \in 0 .. EndTick /\ rrun[q].who \subseteq rrun[q].todo
      BY DEF ReadyInv, ReadyTypes, Alarm
    <3> QED
      BY <3>1, Calendar
  <2>4. CASE l # k \/ v # u \/ UtcDay(rrun[q].now) # x
    BY <1>6, <1>8, <2>1, <2>2, <2>3, <2>4
  <2>5. CASE l = k /\ v = u /\ UtcDay(rrun[q].now) = x
    <3>1. InBrief(rrun[q], k) /\ InBrief(rrun[r], k)
      BY <1>1, <1>4, <2>1, <2>3, <2>5 DEF InBrief
    <3>2. <<k, UtcDay(rrun[q].now)>> \in crossed
      BY <1>1, <1>2, <2>1, <2>5, <3>1 DEF ReadyInv, Crossings
    <3> QED
      BY <1>6, <2>1, <2>5, <3>2
  <2> QED
    BY <2>4, <2>5
<1>15. SentOnce'
  <2> SUFFICES ASSUME NEW l \in Brief, NEW v \in Member, NEW c \in LogDay
               PROVE  sent'[l][v][c] <= 1 \/ <<l, c>> \in crossed'
    BY DEF SentOnce
  <2>1. CASE l # k \/ v # u \/ c # x
    BY <1>6, <1>8, <2>1 DEF ReadyInv, SentOnce
  <2>2. CASE l = k /\ v = u /\ c = x
    <3>1. sent[k][u][x] = 0 \/ <<k, x>> \in crossed
      BY <1>1, <1>2, <1>4 DEF ReadyInv, AboutToSend
    <3> QED
      BY <1>6, <1>8, <2>2, <3>1
  <2> QED
    BY <2>1, <2>2
<1>16. RungIsSent'
  <2> SUFFICES ASSUME NEW l \in Brief, NEW v \in Member, NEW c \in Day, rang'[l][v][c] > 0
               PROVE  /\ DayLength * c + Shift <= EndTick /\ c + 1 \in LogDay
                      /\ rang'[l][v][c] <= sent'[l][v][c + 1]
    BY DEF RungIsSent
  <2>1. rang[l][v][c] > 0 => /\ DayLength * c + Shift <= EndTick /\ c + 1 \in LogDay
                             /\ rang[l][v][c] <= sent[l][v][c + 1]
    BY DEF ReadyInv, RungIsSent
  <2>2. CASE l # k \/ v # u \/ c # d
    <3>1. rang'[l][v][c] = rang[l][v][c]
      BY <1>9, <2>2 DEF Kind
    <3>2. c + 1 \in LogDay
      BY <2>1, <3>1
    <3>3. c + 1 # x \/ l # k \/ v # u
      BY <1>5, <2>2 DEF Day
    <3>4. sent'[l][v][c + 1] = sent[l][v][c + 1]
      BY <1>8, <3>2, <3>3
    <3> QED
      BY <2>1, <3>1, <3>4
  <2>3. CASE l = k /\ v = u /\ c = d
    <3>1. rang[k][u][d] \in Nat /\ sent[k][u][x] \in Nat
      BY <1>4, <1>5, <1>7
    <3>2. rang[k][u][d] <= sent[k][u][x]
      BY <1>5, <2>1, <2>3, <3>1
    <3> QED
      BY <1>5, <1>8, <1>9, <2>3, <3>1, <3>2
  <2> QED
    BY <2>2, <2>3
<1>17. StarsClaimed' /\ Reminded' /\ nagged' = {}
  <2>1. ASSUME NEW v \in Member, NEW c \in Day
        PROVE  rang'["stars"][v][c] = rang["stars"][v][c] /\ rang'["trial"][v][c] = rang["trial"][v][c]
    BY <1>9 DEF Kind, Brief
  <2>2. StarsClaimed /\ Reminded /\ nagged = {}
    BY DEF ReadyInv
  <2> QED
    BY <1>6, <2>1, <2>2 DEF StarsClaimed, Reminded
<1> QED
  BY <1>12, <1>13, <1>14, <1>15, <1>16, <1>17 DEF ReadyInv

(* A ring that was claimed is not of a brief.                              *)
LEMMA BriefsRest ==
    ASSUME ReadyInv, NEW r \in ReadyRun, NEW k \in {"stars", "trial"}, NEW u \in Member, NEW m, m = rrun[r],
           m.pc = k, u \in m.todo, rrun' = [rrun EXCEPT ![r] = Done(m, k, u)],
           UNCHANGED <<hour, sent, crossed>>,
           rang' \in [Kind -> [Member -> [Day -> Nat]]],
           \A x \in Kind : opted'[x] \subseteq Member,
           \A a \in Kind, b \in Member, c \in Day : a # k => rang'[a][b][c] = rang[a][b][c],
           DOMAIN trial' = Member, \A v \in Member : IsTrial(trial[v])'
    PROVE  ReadyTypes' /\ Crossings' /\ AboutToSend' /\ SentOnce' /\ RungIsSent'
<1>1. PICK n : n = Done(m, k, u)
  OBVIOUS
<1>2. k \in Kind /\ k \notin Brief /\ Alarm(m)
  BY DEF ReadyInv, ReadyTypes, Kind, Brief
<1>3. /\ Alarm(n) /\ n.who = {} /\ rrun' = [rrun EXCEPT ![r] = n]
      /\ \A l \in Brief : InBrief(n, l) => InBrief(rrun[r], l) /\ n.now = rrun[r].now
  BY <1>1, <1>2, DoneFits
<1>4. /\ DOMAIN rrun' = ReadyRun /\ \A q \in ReadyRun : Alarm(rrun[q])'
      /\ rrun'[r] = n /\ \A q \in ReadyRun \ {r} : rrun'[q] = rrun[q]
      /\ Crossings'
  <2>1. \A l \in Brief, q \in ReadyRun \ {r} :
               InBrief(n, l) /\ InBrief(rrun[q], l) /\ UtcDay(n.now) = UtcDay(rrun[q].now)
                   => <<l, UtcDay(n.now)>> \in crossed'
    BY <1>3, StaysInStep
  <2>2. crossed \subseteq crossed'
    OBVIOUS
  <2> QED
    BY <1>3, <2>1, <2>2, MindsMove
<1>5. ReadyTypes'
  <2>1. hour' \in 0 .. EndTick /\ sent' \in [Brief -> [Member -> [LogDay -> Nat]]]
    BY DEF ReadyInv, ReadyTypes
  <2> QED
    BY <1>4, <2>1 DEF ReadyTypes
<1>6. AboutToSend'
  <2> SUFFICES ASSUME NEW l \in Brief, NEW q \in ReadyRun, NEW v \in Member,
                      rrun'[q].pc = l, v \in rrun'[q].who
               PROVE  sent[l][v][UtcDay(rrun'[q].now)] = 0 \/ <<l, UtcDay(rrun'[q].now)>> \in crossed
    BY DEF AboutToSend
  <2>1. q # r /\ rrun'[q] = rrun[q]
    BY <1>3, <1>4
  <2> QED
    BY <2>1 DEF ReadyInv, AboutToSend
<1>7. SentOnce'
  BY DEF ReadyInv, SentOnce
<1>8. RungIsSent'
  <2>1. ASSUME NEW l \in Brief, NEW v \in Member, NEW c \in Day PROVE rang'[l][v][c] = rang[l][v][c]
    BY <1>2 DEF Kind
  <2> SUFFICES ASSUME NEW l \in Brief, NEW v \in Member, NEW c \in Day, rang'[l][v][c] > 0
               PROVE  /\ DayLength * c + Shift <= EndTick /\ c + 1 \in LogDay
                      /\ rang'[l][v][c] <= sent'[l][v][c + 1]
    BY DEF RungIsSent
  <2>2. rang[l][v][c] > 0
    BY <2>1
  <2>3. /\ DayLength * c + Shift <= EndTick /\ c + 1 \in LogDay
        /\ rang[l][v][c] <= sent[l][v][c + 1]
    BY <2>2 DEF ReadyInv, RungIsSent
  <2> QED
    BY <2>1, <2>3
<1> QED
  BY <1>4, <1>5, <1>6, <1>7, <1>8

LEMMA SendStarsSafe ==
    ASSUME ReadyInv, NEW r \in ReadyRun, NEW u \in Member, SendStars(r, u) PROVE ReadyInv'
<1>1. PICK m : m = rrun[r]
  OBVIOUS
<1>2. PICK d : d = IstDay(m.now)
  OBVIOUS
<1>3. /\ Alarm(m) /\ m.pc = "stars" /\ u \in m.todo /\ m.now \in 0 .. EndTick /\ d \in Day
  <2>1. Alarm(m) /\ m.pc = "stars" /\ u \in m.todo /\ m.now \in 0 .. EndTick
    BY <1>1 DEF SendStars, ReadyInv, ReadyTypes, Alarm
  <2> QED
    BY <1>2, <2>1, Calendar
<1>4. /\ rrun' = [rrun EXCEPT ![r] = Done(m, "stars", u)] /\ claimed' = claimed \cup {<<u, d>>}
      /\ UNCHANGED <<hour, sent, trial, crossed, nagged>>
      /\ IF <<u, d>> \in claimed THEN UNCHANGED <<rang, opted>> ELSE Ring("stars", u, m)
  BY <1>1, <1>2 DEF SendStars
<1>5. /\ rang \in [Kind -> [Member -> [Day -> Nat]]] /\ \A x \in Kind : opted[x] \subseteq Member
      /\ "stars" \in Kind /\ "trial" \in Kind
  BY DEF ReadyInv, ReadyTypes, Kind
<1>6. /\ rang' \in [Kind -> [Member -> [Day -> Nat]]]
      /\ \A x \in Kind : opted'[x] \subseteq Member
      /\ \A a \in Kind, b \in Member, c \in Day :
             a # "stars" \/ b # u \/ c # d => rang'[a][b][c] = rang[a][b][c]
      /\ rang'["stars"][u][d] = rang["stars"][u][d]
             \/ (<<u, d>> \notin claimed /\ rang'["stars"][u][d] = rang["stars"][u][d] + 1)
  <2>1. CASE <<u, d>> \in claimed
    <3>1. UNCHANGED <<rang, opted>>
      BY <1>4, <2>1
    <3> QED
      BY <1>5, <3>1
  <2>2. CASE <<u, d>> \notin claimed
    <3>1. Ring("stars", u, m)
      BY <1>4, <2>2
    <3>2. /\ rang' \in [Kind -> [Member -> [Day -> Nat]]]
          /\ \A x \in Kind : opted'[x] \subseteq Member
          /\ rang'["stars"][u][d] \in {rang["stars"][u][d], rang["stars"][u][d] + 1}
          /\ \A a \in Kind, b \in Member, c \in Day :
                 a # "stars" \/ b # u \/ c # d => rang'[a][b][c] = rang[a][b][c]
      <4>1. m.now \in 0 .. EndTick /\ "stars" \in Kind /\ IstDay(m.now) = d
        BY <1>2, <1>3, <1>5
      <4> QED
        BY <3>1, <4>1, RingOnce
    <3> QED
      BY <2>2, <3>1, <3>2
  <2> QED
    BY <2>1, <2>2
<1>7. ReadyTypes' /\ Crossings' /\ AboutToSend' /\ SentOnce' /\ RungIsSent'
  <2>1. DOMAIN trial' = Member /\ \A v \in Member : IsTrial(trial[v])'
    BY <1>4 DEF ReadyInv, ReadyTypes, IsTrial
  <2>2. \A a \in Kind, b \in Member, c \in Day : a # "stars" => rang'[a][b][c] = rang[a][b][c]
    BY <1>6
  <2>3. "stars" \in {"stars", "trial"} /\ UNCHANGED <<hour, sent, crossed>>
    BY <1>4
  <2>4. rang' \in [Kind -> [Member -> [Day -> Nat]]] /\ \A x \in Kind : opted'[x] \subseteq Member
    BY <1>6
  <2>5. m.pc = "stars" /\ u \in m.todo /\ rrun' = [rrun EXCEPT ![r] = Done(m, "stars", u)]
    BY <1>3, <1>4
  <2> QED
    BY <1>1, <2>1, <2>2, <2>3, <2>4, <2>5, BriefsRest
<1>8. StarsClaimed'
  <2> SUFFICES ASSUME NEW v \in Member, NEW c \in Day
               PROVE  /\ rang'["stars"][v][c] <= 1
                      /\ rang'["stars"][v][c] > 0 => <<v, c>> \in claimed'
    BY DEF StarsClaimed
  <2>1. /\ rang["stars"][v][c] <= 1 /\ rang["stars"][v][c] \in Nat
        /\ rang["stars"][v][c] > 0 => <<v, c>> \in claimed
    BY <1>5 DEF ReadyInv, StarsClaimed
  <2>2. CASE v = u /\ c = d
    BY <1>4, <1>6, <2>1, <2>2
  <2>3. CASE v # u \/ c # d
    BY <1>4, <1>5, <1>6, <2>1, <2>3
  <2> QED
    BY <2>2, <2>3
<1>9. Reminded' /\ nagged' = {}
  <2>1. \A v \in Member, c \in Day : rang'["trial"][v][c] = rang["trial"][v][c]
    BY <1>5, <1>6
  <2> QED
    BY <1>4, <2>1 DEF ReadyInv, Reminded
<1> QED
  BY <1>7, <1>8, <1>9 DEF ReadyInv

LEMMA RemindSafe ==
    ASSUME ReadyInv, NEW r \in ReadyRun, NEW u \in Member, Remind(r, u) PROVE ReadyInv'
<1>1. PICK m : m = rrun[r]
  OBVIOUS
<1>2. PICK d : d = IstDay(m.now)
  OBVIOUS
<1>3. /\ Alarm(m) /\ m.pc = "trial" /\ u \in m.todo /\ m.now \in 0 .. EndTick /\ d \in Day /\ u \notin m.paid
  <2>1. Alarm(m) /\ m.pc = "trial" /\ u \in m.todo
    BY <1>1 DEF Remind, ReadyInv, ReadyTypes
  <2>2. m.now \in 0 .. EndTick /\ m.todo \cap m.paid = {}
    BY <2>1 DEF Alarm
  <2> QED
    BY <1>2, <2>1, <2>2, Calendar
<1>4. /\ rrun' = [rrun EXCEPT ![r] = Done(m, "trial", u)] /\ trial' = [trial EXCEPT ![u].reminded = TRUE]
      /\ UNCHANGED <<hour, sent, claimed, crossed>>
      /\ IF trial[u].reminded \/ u \notin opted["trial"]
         THEN UNCHANGED <<rang, opted, nagged>>
         ELSE Ring("trial", u, m) /\ nagged' = nagged \cup ({u} \cap m.paid)
  BY <1>1 DEF Remind
<1>5. /\ rang \in [Kind -> [Member -> [Day -> Nat]]] /\ \A x \in Kind : opted[x] \subseteq Member
      /\ "stars" \in Kind /\ "trial" \in Kind /\ nagged = {}
      /\ DOMAIN trial = Member /\ \A v \in Member : IsTrial(trial[v])
  BY DEF ReadyInv, ReadyTypes, Kind
<1>6. /\ rang' \in [Kind -> [Member -> [Day -> Nat]]] /\ nagged' = {}
      /\ \A x \in Kind : opted'[x] \subseteq Member
      /\ \A a \in Kind, b \in Member, c \in Day :
             a # "trial" \/ b # u \/ c # d => rang'[a][b][c] = rang[a][b][c]
      /\ rang'["trial"][u][d] = rang["trial"][u][d]
             \/ (~trial[u].reminded /\ rang'["trial"][u][d] = rang["trial"][u][d] + 1)
  <2>1. CASE trial[u].reminded \/ u \notin opted["trial"]
    <3>1. UNCHANGED <<rang, opted, nagged>>
      BY <1>4, <2>1
    <3> QED
      BY <1>5, <3>1
  <2>2. CASE ~(trial[u].reminded \/ u \notin opted["trial"])
    <3>1. Ring("trial", u, m) /\ nagged' = {}
      BY <1>3, <1>4, <1>5, <2>2
    <3>2. /\ rang' \in [Kind -> [Member -> [Day -> Nat]]]
          /\ \A x \in Kind : opted'[x] \subseteq Member
          /\ rang'["trial"][u][d] \in {rang["trial"][u][d], rang["trial"][u][d] + 1}
          /\ \A a \in Kind, b \in Member, c \in Day :
                 a # "trial" \/ b # u \/ c # d => rang'[a][b][c] = rang[a][b][c]
      BY <1>2, <1>3, <1>5, <3>1, RingOnce, SMTT(60)
    <3> QED
      BY <2>2, <3>1, <3>2
  <2> QED
    BY <2>1, <2>2
<1>7. /\ DOMAIN trial' = Member /\ trial'[u].reminded
      /\ \A v \in Member : IsTrial(trial[v])' /\ (trial[v].reminded => trial'[v].reminded)
  <2>1. PICK yes : yes = TRUE
    OBVIOUS
  <2>2. trial[u] = [ends |-> trial[u].ends, paid |-> trial[u].paid, reminded |-> trial[u].reminded]
    BY <1>5 DEF IsTrial
  <2>3. PICK x : x = [ends |-> trial[u].ends, paid |-> trial[u].paid, reminded |-> yes]
    OBVIOUS
  <2>4. [trial[u] EXCEPT !.reminded = yes] = x
    BY <2>2, <2>3
  <2>5. trial' = [trial EXCEPT ![u] = x]
    BY <1>4, <2>1, <2>4
  <2>6. DOMAIN trial' = Member /\ trial'[u] = x /\ \A v \in Member \ {u} : trial'[v] = trial[v]
    BY <1>5, <2>5
  <2>7. x.reminded = TRUE /\ x = [ends |-> x.ends, paid |-> x.paid, reminded |-> x.reminded]
    BY <2>1, <2>3
  <2>8. ASSUME NEW v \in Member PROVE IsTrial(trial[v])' /\ (trial[v].reminded => trial'[v].reminded)
    <3>1. CASE v = u
      BY <2>6, <2>7, <3>1 DEF IsTrial
    <3>2. CASE v # u
      BY <1>5, <2>6, <3>2 DEF IsTrial
    <3> QED
      BY <3>1, <3>2
  <2> QED
    BY <2>6, <2>7, <2>8
<1>8. ReadyTypes' /\ Crossings' /\ AboutToSend' /\ SentOnce' /\ RungIsSent'
  <2>1. \A a \in Kind, b \in Member, c \in Day : a # "trial" => rang'[a][b][c] = rang[a][b][c]
    BY <1>6
  <2>2. "trial" \in {"stars", "trial"} /\ UNCHANGED <<hour, sent, crossed>>
    BY <1>4
  <2>3. rang' \in [Kind -> [Member -> [Day -> Nat]]] /\ \A x \in Kind : opted'[x] \subseteq Member
    BY <1>6
  <2>4. m.pc = "trial" /\ u \in m.todo /\ rrun' = [rrun EXCEPT ![r] = Done(m, "trial", u)]
    BY <1>3, <1>4
  <2>5. DOMAIN trial' = Member /\ \A v \in Member : IsTrial(trial[v])'
    BY <1>7
  <2> QED
    BY <1>1, <2>1, <2>2, <2>3, <2>4, <2>5, BriefsRest
<1>9. Reminded'
  <2> SUFFICES ASSUME NEW v \in Member, NEW c \in Day
               PROVE  /\ rang'["trial"][v][c] <= 1
                      /\ rang'["trial"][v][c] > 0 => trial'[v].reminded
    BY DEF Reminded
  <2>1. /\ rang["trial"][v][c] <= 1 /\ rang["trial"][v][c] \in Nat
        /\ rang["trial"][v][c] > 0 => trial[v].reminded
    BY <1>5 DEF ReadyInv, Reminded
  <2>2. CASE v = u /\ c = d
    BY <1>6, <1>7, <2>1, <2>2
  <2>3. CASE v # u \/ c # d
    BY <1>5, <1>6, <1>7, <2>1, <2>3
  <2> QED
    BY <2>2, <2>3
<1>10. StarsClaimed'
  <2>1. \A v \in Member, c \in Day : rang'["stars"][v][c] = rang["stars"][v][c]
    BY <1>5, <1>6
  <2> QED
    BY <1>4, <2>1 DEF ReadyInv, StarsClaimed
<1> QED
  BY <1>6, <1>8, <1>9, <1>10 DEF ReadyInv

LEMMA ReadyInvStep == ReadyInv /\ [ReadyNext]_rvars => ReadyInv'
<1> SUFFICES ASSUME ReadyInv, [ReadyNext]_rvars PROVE ReadyInv'
  OBVIOUS
<1>1. CASE UNCHANGED rvars
  <2>1. /\ hour' \in 0 .. EndTick /\ UNCHANGED <<opted, sent, claimed, rrun, rang, crossed, nagged, trial>>
    BY <1>1 DEF rvars, ReadyInv, ReadyTypes
  <2>2. DOMAIN trial' = Member /\ \A u \in Member : IsTrial(trial[u])' /\ (trial[u].reminded => trial'[u].reminded)
    BY <2>1 DEF ReadyInv, ReadyTypes, IsTrial
  <2> QED
    BY <2>1, <2>2, NobodyRings
<1>2. CASE \/ PassTime \/ Forecast \/ \E k \in Brief : BriefReady(k)
           \/ \E u \in Member : Purchase(u) \/ \E a \in Asker : AskTrial(a, u) \/ StartTrial(a, u)
  BY <1>2, OthersSafe
<1>3. ASSUME NEW r \in ReadyRun, WakeUp(r) \/ Die(r) PROVE ReadyInv'
  BY <1>3, WakeSafe
<1>4. ASSUME NEW r \in ReadyRun, NEW k \in Kind, LoadStep(r, k) PROVE ReadyInv'
  BY <1>4, LoadStepSafe
<1>5. ASSUME NEW r \in ReadyRun, NEW u \in Member, SendStars(r, u) PROVE ReadyInv'
  BY <1>5, SendStarsSafe
<1>6. ASSUME NEW r \in ReadyRun, NEW u \in Member, Remind(r, u) PROVE ReadyInv'
  BY <1>6, RemindSafe
<1>7. ASSUME NEW r \in ReadyRun, NEW u \in Member, NEW k \in Brief, CheckSent(r, k, u) PROVE ReadyInv'
  BY <1>7, CheckSentSafe
<1>8. ASSUME NEW r \in ReadyRun, NEW u \in Member, NEW k \in Brief, SendBrief(r, k, u) PROVE ReadyInv'
  BY <1>8, SendBriefSafe
<1> QED
  BY <1>1, <1>2, <1>3, <1>4, <1>5, <1>6, <1>7, <1>8, Zenon DEF ReadyNext

LEMMA ReadyInvInit == ReadyInit => ReadyInv
<1> SUFFICES ASSUME ReadyInit PROVE ReadyInv
  OBVIOUS
<1>1. /\ rang \in [Kind -> [Member -> [Day -> Nat]]]
      /\ \A k \in Kind, u \in Member, d \in Day : rang[k][u][d] = 0
      /\ "stars" \in Kind /\ "trial" \in Kind /\ Brief \subseteq Kind
  BY DEF ReadyInit, Kind
<1>2. /\ sent \in [Brief -> [Member -> [LogDay -> Nat]]]
      /\ \A k \in Brief, u \in Member, d \in LogDay : sent[k][u][d] = 0
  BY DEF ReadyInit, LogDay
<1>3. /\ DOMAIN rrun = ReadyRun /\ \A r \in ReadyRun : rrun[r] = Asleep
      /\ DOMAIN trial = Member /\ \A u \in Member : trial[u] = NoTrial
      /\ hour \in 0 .. EndTick /\ nagged = {} /\ \A k \in Kind : opted[k] \subseteq Member
  BY ReadyAssumption DEF ReadyInit
<1>4. Alarm(Asleep) /\ IsTrial(NoTrial) /\ Asleep.who = {} /\ \A k \in Brief : ~InBrief(Asleep, k)
  BY ReadyAssumption DEF Alarm, IsAlarm, Asleep, InBrief, IsTrial, NoTrial
<1>5. ReadyTypes
  BY <1>1, <1>2, <1>3, <1>4 DEF ReadyTypes
<1>6. Crossings /\ AboutToSend
  BY <1>3, <1>4 DEF Crossings, AboutToSend
<1>7. SentOnce /\ RungIsSent /\ StarsClaimed /\ Reminded
  BY <1>1, <1>2 DEF SentOnce, RungIsSent, StarsClaimed, Reminded
<1> QED
  BY <1>3, <1>5, <1>6, <1>7 DEF ReadyInv

LEMMA RungTwiceIsCrossed == ReadyInv => ReadyOnce /\ ReminderSparesBuyers
<1> SUFFICES ASSUME ReadyInv PROVE ReadyOnce /\ ReminderSparesBuyers
  OBVIOUS
<1>1. ASSUME NEW k \in Kind, NEW u \in Member, NEW d \in Day, rang[k][u][d] > 1
      PROVE  k \in Brief /\ \E t \in 0 .. EndTick : IstDay(t) = d /\ <<k, UtcDay(t)>> \in crossed
  <2>0. rang[k][u][d] \in Nat
    BY DEF ReadyInv, ReadyTypes
  <2>1. k \in Brief
    <3>1. rang["stars"][u][d] <= 1 /\ rang["trial"][u][d] <= 1
      BY DEF ReadyInv, StarsClaimed, Reminded
    <3>2. k # "stars" /\ k # "trial"
      BY <1>1, <2>0, <3>1
    <3> QED
      BY <3>2 DEF Kind
  <2>2. /\ DayLength * d + Shift <= EndTick /\ d + 1 \in LogDay
        /\ rang[k][u][d] <= sent[k][u][d + 1]
    BY <1>1, <2>0, <2>1 DEF ReadyInv, RungIsSent
  <2>3. sent[k][u][d + 1] \in Nat
    BY <2>1, <2>2 DEF ReadyInv, ReadyTypes
  <2>4. <<k, d + 1>> \in crossed
    BY <1>1, <2>0, <2>1, <2>2, <2>3 DEF ReadyInv, SentOnce
  <2>5. PICK t \in 0 .. EndTick : IstDay(t) = d /\ UtcDay(t) = d + 1
    BY <2>2, DawnOf
  <2> QED
    BY <2>1, <2>4, <2>5
<1>2. ReadyOnce
  BY <1>1 DEF ReadyOnce
<1> QED
  BY <1>2 DEF ReadyInv, ReminderSparesBuyers

(* A second start inserts nothing; a purchase and a reminder write the     *)
(* other columns.                                                          *)
LEMMA TrialStays ==
    ASSUME ReadyInv, [ReadyNext]_rvars, NEW u \in Member, trial[u] # NoTrial
    PROVE  trial'[u].ends = trial[u].ends /\ (trial[u].paid => trial'[u].paid)
<1>1. DOMAIN trial = Member
  BY DEF ReadyInv, ReadyTypes
<1>2. CASE UNCHANGED trial
  BY <1>2
<1>3. ASSUME NEW v \in Member, Purchase(v)
      PROVE  trial'[u].ends = trial[u].ends /\ (trial[u].paid => trial'[u].paid)
  <2>1. trial' = [trial EXCEPT ![v].paid = TRUE]
    BY <1>3 DEF Purchase
  <2>2. trial'[u] = trial[u] \/ trial'[u] = [trial[u] EXCEPT !.paid = TRUE]
    BY <1>1, <2>1
  <2>3. PICK x : x = trial[u]
    OBVIOUS
  <2>4. x = [ends |-> x.ends, paid |-> x.paid, reminded |-> x.reminded]
    BY <2>3 DEF ReadyInv, ReadyTypes, IsTrial
  <2>5. [x EXCEPT !.paid = TRUE].ends = x.ends /\ [x EXCEPT !.paid = TRUE].paid = TRUE
    BY <2>4
  <2> QED
    BY <2>2, <2>3, <2>5
<1>4. ASSUME NEW v \in Member, NEW r \in ReadyRun, Remind(r, v)
      PROVE  trial'[u].ends = trial[u].ends /\ (trial[u].paid => trial'[u].paid)
  <2>1. trial' = [trial EXCEPT ![v].reminded = TRUE]
    BY <1>4 DEF Remind
  <2>2. trial'[u] = trial[u] \/ trial'[u] = [trial[u] EXCEPT !.reminded = TRUE]
    BY <1>1, <2>1
  <2>3. PICK x : x = trial[u]
    OBVIOUS
  <2>4. x = [ends |-> x.ends, paid |-> x.paid, reminded |-> x.reminded]
    BY <2>3 DEF ReadyInv, ReadyTypes, IsTrial
  <2>5. [x EXCEPT !.reminded = TRUE].ends = x.ends /\ [x EXCEPT !.reminded = TRUE].paid = x.paid
    BY <2>4
  <2> QED
    BY <2>2, <2>3, <2>5
<1>5. ASSUME NEW v \in Member, NEW a \in Asker, StartTrial(a, v)
      PROVE  trial'[u].ends = trial[u].ends /\ (trial[u].paid => trial'[u].paid)
  <2>1. PICK x : trial' = IF trial[v] = NoTrial THEN [trial EXCEPT ![v] = x] ELSE trial
    BY <1>5, Zenon DEF StartTrial
  <2>2. trial'[u] = trial[u]
    BY <1>1, <2>1
  <2> QED
    BY <2>2
<1>6. CASE \/ PassTime \/ Forecast \/ \E k \in Brief : BriefReady(k)
           \/ \E v \in Member, a \in Asker : AskTrial(a, v)
           \/ \E r \in ReadyRun : WakeUp(r) \/ Die(r) \/ \E k \in Kind : LoadStep(r, k)
  <2>1. UNCHANGED trial
    BY <1>6 DEF PassTime, Forecast, BriefReady, AskTrial, WakeUp, Die, LoadStep
  <2> QED
    BY <1>2, <2>1
<1>7. CASE \E r \in ReadyRun, v \in Member : SendStars(r, v) \/ \E k \in Brief : CheckSent(r, k, v) \/ SendBrief(r, k, v)
  <2>1. UNCHANGED trial
    BY <1>7 DEF SendStars, CheckSent, SendBrief
  <2> QED
    BY <1>2, <2>1
<1>8. CASE UNCHANGED rvars
  BY <1>2, <1>8 DEF rvars
<1> QED
  BY <1>3, <1>4, <1>5, <1>6, <1>7, <1>8, Zenon DEF ReadyNext

(* What goes out once goes out once, whatever runs overlap, except a brief *)
(* in whose step two runs were at once; a reminder spares those who had    *)
(* paid when the run began; and a trial, once given, stays.                *)
THEOREM AlertsAreDue == ReadySpec => ReadyAlertsAreDue
<1>1. ReadyInit => ReadyInv
  BY ReadyInvInit
<1>2. ReadyInv /\ [ReadyNext]_rvars => ReadyInv'
  BY ReadyInvStep
<1>3. ReadyInv => ReadyOnce /\ ReminderSparesBuyers
  BY RungTwiceIsCrossed
<1> DEFINE A == \A u \in Member : trial[u] # NoTrial =>
            trial'[u].ends = trial[u].ends /\ (trial[u].paid => trial'[u].paid)
<1>4. ReadyInv /\ [ReadyNext]_rvars => [A]_rvars
  BY TrialStays
<1>5. ReadySpec => [](ReadyOnce /\ ReminderSparesBuyers) /\ [][A]_rvars
  <2> HIDE DEF A
  <2> QED
    BY <1>1, <1>2, <1>3, <1>4, PTL DEF ReadySpec
<1> QED
  BY <1>5 DEF ReadyAlertsAreDue, TrialGivenOnce

=============================================================================
