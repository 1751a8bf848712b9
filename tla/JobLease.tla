------------------------------ MODULE JobLease ------------------------------
(***************************************************************************)
(* app/services/job_lease.py: a row per job name, inserted or taken over   *)
(* by one statement, kept alive by a heartbeat task and deleted at the end *)
(* of the run.  Every call of job_lease() is a run with an owner of its    *)
(* own (a fresh uuid4), so a run stands for its owner.                     *)
(*                                                                         *)
(* Time is counted in ticks.  The row keeps what is left of its TTL rather *)
(* than a date: expires_at < now() is  left < 0.  Each heartbeat task      *)
(* keeps the ticks since it last went to sleep.                            *)
(*                                                                         *)
(* Two bounds describe the environment, not the code: Lag, how late a due  *)
(* heartbeat may run (a busy event loop, a slow database), and MaxFails,   *)
(* how many renewals in a row may raise.                                   *)
(***************************************************************************)
EXTENDS Integers

CONSTANTS
    Run,        \* calls of job_lease() for one job name
    NoRun,      \* "there is no row"
    TTL,        \* ttl_seconds, in ticks
    HB,         \* heartbeat_seconds, in ticks
    Lag,        \* a due heartbeat runs at most this late
    MaxFails    \* consecutive renewals that may raise

ASSUME LeaseAssumption ==
    /\ NoRun \notin Run
    /\ TTL \in Nat /\ HB \in Nat \ {0} /\ Lag \in Nat /\ MaxFails \in Nat

VARIABLES
    owner,      \* the owner column, NoRun when the row is absent
    left,       \* expires_at - now(), -1 once it is in the past or no row
    pc,         \* where each run is in job_lease()
    beating,    \* the runs whose heartbeat task is alive
    age,        \* ticks since the heartbeat task last went to sleep
    fails       \* renewals that raised since the last one that did not

vars == <<owner, left, pc, beating, age, fails>>

Expired == owner = NoRun \/ left < 0

TypeOK ==
    /\ owner \in Run \cup {NoRun}
    /\ left \in -1 .. TTL
    /\ pc \in [Run -> {"idle", "holding", "releasing", "skipped",
                       "done", "crashed"}]
    /\ beating \subseteq Run
    /\ age \in [Run -> 0 .. HB + Lag]
    /\ fails \in [Run -> 0 .. MaxFails]

Init ==
    /\ owner = NoRun
    /\ left = -1
    /\ pc = [r \in Run |-> "idle"]
    /\ beating = {}
    /\ age = [r \in Run |-> 0]
    /\ fails = [r \in Run |-> 0]

-----------------------------------------------------------------------------
(* Mutants of Acquire: the takeover without its WHERE clause, and an       *)
(* insert that takes over nothing.                                         *)
AcquireAlways(r) ==
    /\ pc[r] = "idle"
    /\ owner' = r
    /\ left' = TTL
    /\ pc' = [pc EXCEPT ![r] = "holding"]
    /\ beating' = beating \cup {r}
    /\ age' = [age EXCEPT ![r] = 0]
    /\ fails' = [fails EXCEPT ![r] = 0]

(* _ACQUIRE returns a row: insert, or take over a row that has expired.    *)
(* The heartbeat task is created and the body is entered.                  *)
Acquire(r) ==
    /\ pc[r] = "idle"
    /\ Expired
    /\ owner' = r
    /\ left' = TTL
    /\ pc' = [pc EXCEPT ![r] = "holding"]
    /\ beating' = beating \cup {r}
    /\ age' = [age EXCEPT ![r] = 0]
    /\ fails' = [fails EXCEPT ![r] = 0]

(* _ACQUIRE returns nothing: yield False, the caller logs and skips.       *)
Skip(r) ==
    /\ pc[r] = "idle"
    /\ ~Expired
    /\ pc' = [pc EXCEPT ![r] = "skipped"]
    /\ UNCHANGED <<owner, left, beating, age, fails>>

Due(r) == r \in beating /\ age[r] >= HB

(* Mutants of Renew: by job name only, and without a new expiry date.      *)
RenewByName(r) ==
    /\ Due(r)
    /\ owner # NoRun
    /\ left' = TTL
    /\ age' = [age EXCEPT ![r] = 0]
    /\ fails' = [fails EXCEPT ![r] = 0]
    /\ UNCHANGED <<owner, pc, beating>>

RenewNothing(r) ==
    /\ Due(r)
    /\ owner = r
    /\ age' = [age EXCEPT ![r] = 0]
    /\ UNCHANGED <<owner, left, pc, beating, fails>>

(* _RENEW finds the row: it is owner-scoped and does not look at           *)
(* expires_at, so a lapsed lease that nobody took is renewed as well.      *)
Renew(r) ==
    /\ Due(r)
    /\ owner = r
    /\ left' = TTL
    /\ age' = [age EXCEPT ![r] = 0]
    /\ fails' = [fails EXCEPT ![r] = 0]
    /\ UNCHANGED <<owner, pc, beating>>

(* Mutant of LoseLease: rowcount is not looked at.                         *)
LoseLeaseUnseen(r) ==
    /\ Due(r)
    /\ owner # r
    /\ age' = [age EXCEPT ![r] = 0]
    /\ UNCHANGED <<owner, left, pc, beating, fails>>

(* _RENEW matches no row: the task warns and returns; the body goes on.    *)
LoseLease(r) ==
    /\ Due(r)
    /\ owner # r
    /\ beating' = beating \ {r}
    /\ UNCHANGED <<owner, left, pc, age, fails>>

(* The renewal raises and the loop goes on.  The caller cannot tell        *)
(* whether the statement was committed before the connection broke.        *)
RenewRaises(r) ==
    /\ Due(r)
    /\ fails[r] < MaxFails
    /\ left' \in {left} \cup (IF owner = r THEN {TTL} ELSE {})
    /\ age' = [age EXCEPT ![r] = 0]
    /\ fails' = [fails EXCEPT ![r] = fails[r] + 1]
    /\ UNCHANGED <<owner, pc, beating>>

(* The body returns or raises: cancel the heartbeat and wait for it.       *)
LeaveBody(r) ==
    /\ pc[r] = "holding"
    /\ pc' = [pc EXCEPT ![r] = "releasing"]
    /\ beating' = beating \ {r}
    /\ UNCHANGED <<owner, left, age, fails>>

(* Mutant of Release: by job name only.                                    *)
ReleaseByName(r) ==
    /\ pc[r] = "releasing"
    /\ pc' = [pc EXCEPT ![r] = "done"]
    /\ owner' = NoRun /\ left' = -1
    /\ UNCHANGED <<beating, age, fails>>

(* _RELEASE deletes the row of this owner, if there is one.                *)
Release(r) ==
    /\ pc[r] = "releasing"
    /\ pc' = [pc EXCEPT ![r] = "done"]
    /\ IF owner = r THEN owner' = NoRun /\ left' = -1
                    ELSE UNCHANGED <<owner, left>>
    /\ UNCHANGED <<beating, age, fails>>

(* The release raises and is swallowed: the row stays until it expires.    *)
ReleaseRaises(r) ==
    /\ pc[r] = "releasing"
    /\ pc' = [pc EXCEPT ![r] = "done"]
    /\ UNCHANGED <<owner, left, beating, age, fails>>

(* The process dies: body and heartbeat go together, the row stays.        *)
Crash(r) ==
    /\ pc[r] \in {"holding", "releasing"}
    /\ pc' = [pc EXCEPT ![r] = "crashed"]
    /\ beating' = beating \ {r}
    /\ UNCHANGED <<owner, left, age, fails>>

(* The next timer firing.  It has a new uuid; once no row carries the old  *)
(* one the name can be used again, which keeps the instance finite.        *)
NextRun(r) ==
    /\ pc[r] \in {"done", "skipped", "crashed"}
    /\ owner # r
    /\ pc' = [pc EXCEPT ![r] = "idle"]
    /\ UNCHANGED <<owner, left, beating, age, fails>>

(* One tick of the database's clock.  No heartbeat is later than Lag.      *)
Tick ==
    /\ \A r \in beating : age[r] < HB + Lag
    /\ left' = IF left >= 0 THEN left - 1 ELSE left
    /\ age' = [r \in Run |-> IF r \in beating THEN age[r] + 1 ELSE age[r]]
    /\ UNCHANGED <<owner, pc, beating, fails>>

Step(r) ==
    \/ Acquire(r) \/ Skip(r)
    \/ Renew(r) \/ LoseLease(r) \/ RenewRaises(r)
    \/ LeaveBody(r) \/ Release(r) \/ ReleaseRaises(r)
    \/ Crash(r) \/ NextRun(r)

Next == Tick \/ \E r \in Run : Step(r)

Spec == Init /\ [][Next]_vars

(* The clock advances, the systemd timer keeps starting runs, and every    *)
(* heartbeat task that is due is eventually scheduled by its event loop,   *)
(* and the finally block of a run that left its body is executed.          *)
Fairness ==
    /\ WF_vars(Tick)
    /\ WF_vars(\E r \in Run : Acquire(r))
    /\ \A r \in Run :
          /\ WF_vars(NextRun(r))
          /\ WF_vars(Renew(r) \/ LoseLease(r))
          /\ WF_vars(Release(r) \/ ReleaseRaises(r))

FairSpec == Spec /\ Fairness

-----------------------------------------------------------------------------
(* The heartbeat arithmetic of the two defaults (180 s, 45 s): with every  *)
(* renewal at most Lag late and at most MaxFails in a row lost, a live     *)
(* holder renews before its TTL is over.                                   *)
HeartbeatInTime == (MaxFails + 1) * (HB + Lag) <= TTL

Holding == {r \in Run : pc[r] = "holding"}

(* "exactly the thing being prevented": two runs of one job never execute  *)
(* their bodies at the same time.  Needs HeartbeatInTime.                  *)
MutualExclusion == \A r, s \in Holding : r = s

(* A live run that is inside its body owns the row, and the row has at     *)
(* least the time left that the heartbeat's lateness has not used.         *)
HolderIsCovered ==
    \A r \in Holding :
        /\ owner = r
        /\ r \in beating
        /\ left + fails[r] * (HB + Lag) + age[r] >= TTL

(* With no bound on lateness: a row that has not expired is taken from its *)
(* owner by nobody; only that owner's own release removes it.              *)
OnlyOwnerEndsLiveLease ==
    [][ \A r \in Run :
          (owner = r /\ left >= 0 /\ owner' # r) =>
             pc[r] = "releasing" /\ pc'[r] = "done" /\ owner' = NoRun ]_vars

(* A run that was superseded cannot disturb its successor: its late        *)
(* release or renewal neither shortens nor extends nor removes the row.    *)
SupersededRunIsHarmless ==
    [][ \A r \in Run :
          (owner # r /\ pc[r] \in {"holding", "releasing"}
             /\ (pc'[r] # pc[r] \/ age'[r] < age[r] \/ fails'[r] # fails[r]
                   \/ (r \in beating /\ r \notin beating')))
          => owner' = owner /\ left' = left ]_vars

(* "a crashed holder blocks for about one TTL": a row left behind by a     *)
(* crash or by a failed release does not stay for good, unless every other *)
(* run is inside its body, as superseded runs may be, and none is left to  *)
(* take it.                                                                *)
LeftoverRowIsTaken ==
    \A r \in Run :
        (owner = r /\ pc[r] \in {"crashed", "done"})
            ~> (owner # r \/ \A s \in Run \ {r} : pc[s] = "holding")

(* A run whose row was taken over hears of it from its heartbeat, unless   *)
(* its body is over first: it does not keep believing it holds the lease.  *)
LossIsNoticed ==
    \A r \in Run :
        (pc[r] = "holding" /\ owner # r) ~> (r \notin beating)

(* Neither a row left behind nor a run that lost its row goes on for ever. *)
LeasesMoveOn == LeftoverRowIsTaken /\ LossIsNoticed

Singleton == INSTANCE SingletonJob WITH running <- Holding

(* The lease implements the singleton job (needs HeartbeatInTime).         *)
ImplementsSingleton == Singleton!Spec
=============================================================================
