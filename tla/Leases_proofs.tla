----------------------------- MODULE Leases_proofs -----------------------------
(***************************************************************************)
(* Proofs about jobs and editorial runs, with a job lease or without.      *)
(*                                                                         *)
(* JobLease, the protocol: for any number of runs, any TTL, heartbeat      *)
(* interval, lateness and number of failed renewals.                       *)
(*                                                                         *)
(* Explainers, whose builds and narrations hold a lease: for any number of *)
(* tasks, admins, readers, sections and sources.  The lease keeps builds   *)
(* and narrations apart until it lapses (TasksKeepApart); a section is     *)
(* rewritten without it, which the history variable crossed accounts for.  *)
(* Whoever changes what readers see has the invalidation of the detail     *)
(* entry still before it (FlushesDetail).                                  *)
(*                                                                         *)
(* DailyBriefs, whose builds hold a lease of their kind: for any number of *)
(* builds, readers and days (BuildsInv), and for any lists of categories   *)
(* and candidates (ChoiceInv).                                             *)
(*                                                                         *)
(* Timelines, whose runs and narrations hold no lease: for any number of   *)
(* them, any lists of groups and any acts of the desk (TimelinesInv).      *)
(***************************************************************************)
EXTENDS JobLease, Explainers, DailyBriefs, Timelines, TLAPS, FiniteSetTheorems, WellFoundedInduction, SequenceTheorems


(* Every reachable state is well typed: in particular the time left and    *)
(* the age of a heartbeat stay inside their windows.                       *)
THEOREM TypeCorrect == Spec => []TypeOK
<1>1. Init => TypeOK
  BY LeaseAssumption DEF Init, TypeOK
<1>2. TypeOK /\ [Next]_vars => TypeOK'
  <2> SUFFICES ASSUME TypeOK, [Next]_vars PROVE TypeOK'
    OBVIOUS
  <2> USE LeaseAssumption DEF TypeOK
  <2>1. CASE Tick
    BY <2>1 DEF Tick
  <2>2. ASSUME NEW r \in Run, Step(r) PROVE TypeOK'
    <3>1. CASE Acquire(r)
      BY <3>1 DEF Acquire
    <3>2. CASE Skip(r)
      BY <3>2 DEF Skip
    <3>3. CASE Renew(r)
      BY <3>3 DEF Renew
    <3>4. CASE LoseLease(r)
      BY <3>4 DEF LoseLease
    <3>5. CASE RenewRaises(r)
      BY <3>5 DEF RenewRaises
    <3>6. CASE LeaveBody(r)
      BY <3>6 DEF LeaveBody
    <3>7. CASE Release(r)
      BY <3>7 DEF Release
    <3>8. CASE ReleaseRaises(r)
      BY <3>8 DEF ReleaseRaises
    <3>9. CASE Crash(r)
      BY <3>9 DEF Crash
    <3>10. CASE NextRun(r)
      BY <3>10 DEF NextRun
    <3> QED
      BY <2>2, <3>1, <3>2, <3>3, <3>4, <3>5, <3>6, <3>7, <3>8, <3>9, <3>10
      DEF Step
  <2>3. CASE UNCHANGED vars
    BY <2>3 DEF vars
  <2> QED
    BY <2>1, <2>2, <2>3 DEF Next
<1> QED
  BY <1>1, <1>2, PTL DEF Spec

-----------------------------------------------------------------------------
(* One more lost renewal uses one more period of the TTL.                  *)
LEMMA OneMorePeriod ==
    ASSUME NEW f \in Nat, NEW p \in Nat
    PROVE  (f + 1) * p = f * p + p
  OBVIOUS

(* When the heartbeat is in time, a covered holder's row has not expired.  *)
LEMMA CoveredIsLive ==
    ASSUME HeartbeatInTime, TypeOK, HolderIsCovered, NEW r \in Holding
    PROVE  owner = r /\ left >= 0
<1> DEFINE P == HB + Lag
<1>1. r \in Run /\ left \in Int /\ age[r] \in 0 .. P /\ fails[r] \in 0 .. MaxFails
  BY DEF TypeOK, Holding
<1>2. P \in Nat /\ TTL \in Nat /\ MaxFails \in Nat
  BY LeaseAssumption
<1>3. owner = r /\ left + fails[r] * P + age[r] >= TTL
  BY DEF HolderIsCovered
<1>4. fails[r] * P <= MaxFails * P
  BY <1>1, <1>2
<1>5. MaxFails * P + P <= TTL
  BY <1>2, OneMorePeriod DEF HeartbeatInTime
<1>6. fails[r] * P \in Int /\ MaxFails * P \in Int
  BY <1>1, <1>2
<1> HIDE DEF P
<1> QED
  BY <1>1, <1>2, <1>3, <1>4, <1>5, <1>6

(* The step of every action keeps each live holder covered.                *)
LEMMA CoverIsInductive ==
    ASSUME HeartbeatInTime, TypeOK, HolderIsCovered, [Next]_vars
    PROVE  HolderIsCovered'
<1> DEFINE P == HB + Lag
<1> DEFINE Covered(r) == /\ owner = r
                         /\ r \in beating
                         /\ left + fails[r] * P + age[r] >= TTL
<1> SUFFICES ASSUME NEW h \in Run, pc'[h] = "holding" PROVE Covered(h)'
  BY DEF HolderIsCovered, Holding
<1>t. P \in Nat /\ TTL \in Nat /\ HB \in Nat \ {0} /\ Lag \in Nat /\ MaxFails \in Nat /\ NoRun \notin Run
  BY LeaseAssumption
<1>l. ASSUME pc[h] = "holding" PROVE Covered(h) /\ left >= 0
  BY <1>l, CoveredIsLive DEF HolderIsCovered, Holding
<1>m. fails[h] * P \in Int /\ (fails[h] + 1) * P = fails[h] * P + P
  <2>1. fails[h] \in Nat
    BY <1>t DEF TypeOK
  <2> QED
    BY <2>1, <1>t, OneMorePeriod
<1>z. 0 * P = 0
  BY <1>t
<1> USE <1>t DEF TypeOK
<1>1. CASE Tick
  <2>1. pc[h] = "holding"
    BY <1>1 DEF Tick
  <2>2. age'[h] = age[h] + 1 /\ left' = left - 1
    BY <1>1, <1>l, <2>1 DEF Tick
  <2>3. left' + fails[h] * P + age'[h] = left + fails[h] * P + age[h]
    BY <2>2, <1>m
  <2> QED
    BY <1>1, <2>1, <2>3, <1>l, <1>m DEF Tick
<1>2. ASSUME NEW r \in Run, Step(r) PROVE Covered(h)'
  <2> HIDE DEF P
  <2>1. CASE Acquire(r)
    <3>1. CASE h = r
      BY <2>1, <3>1, <1>z DEF Acquire
    <3>2. CASE h # r
      BY <2>1, <3>2, <1>l DEF Acquire, Expired
    <3> QED
      BY <3>1, <3>2
  <2>2. CASE Skip(r)
    BY <2>2, <1>l DEF Skip
  <2>3. CASE Renew(r)
    BY <2>3, <1>l, <1>z DEF Renew
  <2>4. CASE LoseLease(r)
    BY <2>4, <1>l DEF LoseLease
  <2>5. CASE RenewRaises(r)
    <3>1. pc[h] = "holding"
      BY <2>5 DEF RenewRaises
    <3>2. CASE h # r
      BY <2>5, <3>1, <3>2, <1>l DEF RenewRaises
    <3>3. CASE h = r
      <4>1. age[h] \in 0 .. P
        BY DEF P
      <4>2. left' >= left
        BY <2>5 DEF RenewRaises
      <4>3. fails'[h] = fails[h] + 1 /\ age'[h] = 0 /\ left' \in Int
        BY <2>5, <3>3 DEF RenewRaises
      <4>4. fails'[h] * P = fails[h] * P + P
        BY <4>3, <1>m
      <4>5. left + fails[h] * P + age[h] >= TTL
        BY <1>l, <3>1
      <4>6. left' + fails'[h] * P + age'[h] >= TTL
        BY <4>1, <4>2, <4>3, <4>4, <4>5, <1>m
      <4> QED
        BY <4>6, <2>5, <3>1, <1>l DEF RenewRaises
    <3> QED
      BY <3>2, <3>3
  <2>6. CASE LeaveBody(r)
    BY <2>6, <1>l DEF LeaveBody
  <2>7. CASE Release(r)
    BY <2>7, <1>l DEF Release
  <2>8. CASE ReleaseRaises(r)
    BY <2>8, <1>l DEF ReleaseRaises
  <2>9. CASE Crash(r)
    BY <2>9, <1>l DEF Crash
  <2>10. CASE NextRun(r)
    BY <2>10, <1>l DEF NextRun
  <2> QED
    BY <1>2, <2>1, <2>2, <2>3, <2>4, <2>5, <2>6, <2>7, <2>8, <2>9, <2>10
    DEF Step
<1>3. CASE UNCHANGED vars
  BY <1>3, <1>l DEF vars
<1> QED
  BY <1>1, <1>2, <1>3 DEF Next

(* With the heartbeat in time, a run inside its body owns a row that its   *)
(* heartbeat is keeping alive.                                             *)
THEOREM HolderAlwaysCovered ==
    ASSUME HeartbeatInTime
    PROVE  Spec => []HolderIsCovered
<1>1. Init => HolderIsCovered
  BY DEF Init, HolderIsCovered, Holding
<1>2. TypeOK /\ HolderIsCovered /\ [Next]_vars => HolderIsCovered'
  BY CoverIsInductive
<1> QED
  BY <1>1, <1>2, TypeCorrect, PTL DEF Spec

(* With the heartbeat in time, two runs of a job are never in their bodies *)
(* together.                                                               *)
THEOREM LeaseExcludes ==
    ASSUME HeartbeatInTime
    PROVE  Spec => []MutualExclusion
<1>1. HolderIsCovered => MutualExclusion
  BY DEF HolderIsCovered, MutualExclusion
<1> QED
  BY <1>1, HolderAlwaysCovered, PTL

-----------------------------------------------------------------------------
(* A step seen from the bodies: one starts when none runs, one stops, or   *)
(* nothing changes.                                                        *)
LEMMA StepStartsOrStops ==
    ASSUME HeartbeatInTime, TypeOK, HolderIsCovered, [Next]_vars
    PROVE  [Singleton!Next]_Holding
<1> USE DEF TypeOK
<1>1. CASE Tick
  BY <1>1 DEF Tick, Holding
<1>2. ASSUME NEW r \in Run, Step(r) PROVE [Singleton!Next]_Holding
  <2>1. CASE Acquire(r)
    <3>1. Holding = {}
      <4> SUFFICES ASSUME NEW h \in Holding PROVE FALSE
        OBVIOUS
      <4> QED
        BY <2>1, CoveredIsLive, LeaseAssumption DEF Acquire, Expired, Holding
    <3>2. Holding' = {r}
      BY <2>1, <3>1 DEF Acquire, Holding
    <3> QED
      BY <3>1, <3>2 DEF Singleton!Next, Singleton!Start
  <2>2. CASE LeaveBody(r) \/ (Crash(r) /\ pc[r] = "holding")
    <3>1. r \in Holding /\ Holding' = Holding \ {r}
      BY <2>2 DEF LeaveBody, Crash, Holding
    <3> QED
      BY <3>1 DEF Singleton!Next, Singleton!Stop
  <2>3. CASE Crash(r) /\ pc[r] # "holding"
    BY <2>3 DEF Crash, Holding
  <2>4. CASE Skip(r) \/ NextRun(r)
    BY <2>4 DEF Skip, NextRun, Holding
  <2>5. CASE Renew(r) \/ LoseLease(r) \/ RenewRaises(r)
    BY <2>5 DEF Renew, LoseLease, RenewRaises, Holding
  <2>6. CASE Release(r) \/ ReleaseRaises(r)
    BY <2>6 DEF Release, ReleaseRaises, Holding
  <2> QED
    BY <1>2, <2>1, <2>2, <2>3, <2>4, <2>5, <2>6 DEF Step
<1>3. CASE UNCHANGED vars
  BY <1>3 DEF vars, Holding
<1> QED
  BY <1>1, <1>2, <1>3 DEF Next

(* With the heartbeat in time, job_lease() implements the singleton job.   *)
THEOREM LeaseImplementsSingleton ==
    ASSUME HeartbeatInTime
    PROVE  Spec => ImplementsSingleton
<1>1. Init => Singleton!Init
  BY DEF Init, Singleton!Init, Holding
<1>2. TypeOK /\ HolderIsCovered /\ [Next]_vars => [Singleton!Next]_Holding
  BY StepStartsOrStops
<1> QED
  BY <1>1, <1>2, TypeCorrect, HolderAlwaysCovered, PTL
  DEF Spec, ImplementsSingleton, Singleton!Spec

(* However late the heartbeats run, a row that has not expired leaves its  *)
(* owner only through that owner's release.                                *)
THEOREM LiveLeaseIsNotStolen == Spec => OnlyOwnerEndsLiveLease
<1> DEFINE A == \A r \in Run :
                  (owner = r /\ left >= 0 /\ owner' # r) =>
                    pc[r] = "releasing" /\ pc'[r] = "done" /\ owner' = NoRun
<1>1. TypeOK /\ [Next]_vars => [A]_vars
  <2> SUFFICES ASSUME TypeOK, Next,
                      NEW h \in Run, owner = h, left >= 0, owner' # h
               PROVE  pc[h] = "releasing" /\ pc'[h] = "done" /\ owner' = NoRun
    OBVIOUS
  <2>1. PICK r \in Run : Step(r)
    BY DEF Next, Tick
  <2>2. ~Acquire(r)
    BY LeaseAssumption DEF Acquire, Expired, TypeOK
  <2>3. Release(r)
    BY <2>1, <2>2 DEF Step, Skip, Renew, LoseLease, RenewRaises, LeaveBody,
       ReleaseRaises, Crash, NextRun
  <2> QED
    BY <2>3 DEF Release, TypeOK
<1> QED
  BY <1>1, TypeCorrect, PTL DEF Spec, OnlyOwnerEndsLiveLease
(* However late the heartbeats run, a run whose row was taken over leaves  *)
(* its successor's row as it is: its renewals and its release look for a   *)
(* row of its own.                                                         *)
THEOREM SuccessorIsLeftAlone == Spec => SupersededRunIsHarmless
<1> DEFINE A == \A r \in Run :
                  (owner # r /\ pc[r] \in {"holding", "releasing"}
                     /\ (pc'[r] # pc[r] \/ age'[r] < age[r] \/ fails'[r] # fails[r]
                           \/ (r \in beating /\ r \notin beating')))
                  => owner' = owner /\ left' = left
<1>1. TypeOK /\ [Next]_vars => [A]_vars
  <2> SUFFICES ASSUME TypeOK, Next, NEW h \in Run, owner # h, pc[h] \in {"holding", "releasing"},
                      \/ pc'[h] # pc[h] \/ age'[h] < age[h] \/ fails'[h] # fails[h]
                      \/ (h \in beating /\ h \notin beating')
               PROVE  owner' = owner /\ left' = left
    OBVIOUS
  <2>1. age[h] \in Int
    BY LeaseAssumption DEF TypeOK
  <2>2. ~Tick
    <3> SUFFICES ASSUME Tick PROVE FALSE
      OBVIOUS
    <3>1. age'[h] >= age[h] /\ UNCHANGED <<owner, pc, beating, fails>>
      BY <2>1 DEF Tick
    <3> QED
      BY <2>1, <3>1 DEF TypeOK, Tick
  <2>3. PICK r \in Run : Step(r)
    BY <2>2 DEF Next
  <2>4. r = h
    <3> SUFFICES ASSUME r # h PROVE FALSE
      OBVIOUS
    <3>1. pc'[h] = pc[h] /\ age'[h] = age[h] /\ fails'[h] = fails[h] /\ (h \in beating => h \in beating')
      BY <2>3 DEF TypeOK, Step, Acquire, Skip, Renew, LoseLease, RenewRaises, LeaveBody, Release,
         ReleaseRaises, Crash, NextRun
    <3> QED
      BY <2>1, <3>1
  <2>5. LoseLease(h) \/ RenewRaises(h) \/ LeaveBody(h) \/ Release(h) \/ ReleaseRaises(h) \/ Crash(h)
    BY <2>3, <2>4 DEF Step, Acquire, Skip, Renew, NextRun
  <2> QED
    BY <2>5 DEF LoseLease, RenewRaises, LeaveBody, Release, ReleaseRaises, Crash
<1> HIDE DEF A
<1>2. Spec => [][A]_vars
  BY <1>1, TypeCorrect, PTL DEF Spec
<1> QED
  BY <1>2 DEF SupersededRunIsHarmless, A

-----------------------------------------------------------------------------
(* Explainers.                                                             *)

Status == {"draft", "generating", "ready_for_review", "published", "archived"}
Sections == [Section -> [of: Nat, rewrite: Nat]]
Explained == [status: Status, answer: Nat, text: Sections, voiced: Nat,
              srcs: SUBSET Cluster, cited: SUBSET Cluster]
Doing == {Free} \cup [pc: {"queued"}, job: {"build", "audio"}]
             \cup [pc: {"writing"}, found: SUBSET Cluster] \cup [pc: {"crashed"}]
             \cup [pc: {"voicing"}, answer: Nat]
             \cup [pc: {"rewriting"}, section: Section, text: Sections]
             \cup [pc: {"flush"}, entries: SUBSET Entry]
Page == {NoEntry} \cup [status: Status, answer: Nat]
AtDesk == [pc: {"off", "publish", "archive", "restore", "flush"}, page: Page]

ExplainersTypeOK ==
    /\ row \in Explained /\ lease \in Task \cup {Nobody}
    /\ task \in [Task -> Doing] /\ desk \in [Admin -> AtDesk]
    /\ DOMAIN cached = Entry /\ cached = [e \in Entry |-> cached[e]]
    /\ answers \in Nat /\ rewrites \in Nat

TasksKeepApart ==
    lapsed \/ \A t \in Task :
        /\ task[t].pc \in {"writing", "voicing"} => lease = t
        /\ task[t].pc = "voicing" => task[t].answer = row.answer

FlushesDetail == \A t \in Task : task[t].pc = "flush" => "detail" \in task[t].entries

ExplainersInv ==
    /\ ExplainersTypeOK /\ TasksKeepApart /\ FlushesDetail
    /\ PublishedWasReviewed /\ AnswerHoldsTogether /\ ProgressIsTold /\ DetailFollowsRow

-----------------------------------------------------------------------------
(* The operators of the model.                                             *)

LEMMA Updates ==
    ASSUME row \in Explained
    PROVE  /\ \A x : Update([status |-> x]) => row' = [row EXCEPT !.status = x]
           /\ \A x : Update([srcs |-> x]) => row' = [row EXCEPT !.srcs = x]
           /\ \A x : Update([voiced |-> x]) => row' = [row EXCEPT !.voiced = x]
           /\ \A x : Update([text |-> x]) => row' = [row EXCEPT !.text = x]
           /\ \A x, a, y, v, c :
                  Update([status |-> x, answer |-> a, text |-> y, voiced |-> v, cited |-> c])
                  => row' = [status |-> x, answer |-> a, text |-> y, voiced |-> v,
                             srcs |-> row.srcs, cited |-> c]
<1>1. DOMAIN row = {"status", "answer", "text", "voiced", "srcs", "cited"}
  BY DEF Explained
<1>2. ASSUME NEW x, Update([status |-> x]) PROVE row' = [row EXCEPT !.status = x]
  BY <1>1, <1>2 DEF Update, Explained
<1>3. ASSUME NEW x, Update([srcs |-> x]) PROVE row' = [row EXCEPT !.srcs = x]
  BY <1>1, <1>3 DEF Update, Explained
<1>4. ASSUME NEW x, Update([voiced |-> x]) PROVE row' = [row EXCEPT !.voiced = x]
  BY <1>1, <1>4 DEF Update, Explained
<1>5. ASSUME NEW x, Update([text |-> x]) PROVE row' = [row EXCEPT !.text = x]
  BY <1>1, <1>5 DEF Update, Explained
<1>6. ASSUME NEW x, NEW a, NEW y, NEW v, NEW c,
             Update([status |-> x, answer |-> a, text |-> y, voiced |-> v, cited |-> c])
      PROVE  row' = [status |-> x, answer |-> a, text |-> y, voiced |-> v, srcs |-> row.srcs, cited |-> c]
  <2>1. PICK fs : fs = [status |-> x, answer |-> a, text |-> y, voiced |-> v, cited |-> c]
    OBVIOUS
  <2>2. DOMAIN fs = {"status", "answer", "text", "voiced", "cited"}
    BY <2>1
  <2>3. row' = [f \in {"status", "answer", "text", "voiced", "srcs", "cited"} |->
                   IF f \in {"status", "answer", "text", "voiced", "cited"} THEN fs[f] ELSE row[f]]
    BY <1>1, <1>6, <2>1, <2>2 DEF Update
  <2> QED
    BY <2>1, <2>3
<1> QED
  BY <1>2, <1>3, <1>4, <1>5, <1>6

LEMMA RowChanges ==
    ASSUME NEW r \in Explained
    PROVE  /\ \A x \in Status : /\ [r EXCEPT !.status = x] \in Explained
                                /\ [r EXCEPT !.status = x].status = x
                                /\ [r EXCEPT !.status = x].answer = r.answer
                                /\ [r EXCEPT !.status = x].text = r.text
                                /\ [r EXCEPT !.status = x].voiced = r.voiced
           /\ \A x \in SUBSET Cluster : /\ [r EXCEPT !.srcs = x] \in Explained
                                        /\ [r EXCEPT !.srcs = x].status = r.status
                                        /\ [r EXCEPT !.srcs = x].answer = r.answer
                                        /\ [r EXCEPT !.srcs = x].text = r.text
                                        /\ [r EXCEPT !.srcs = x].voiced = r.voiced
           /\ \A x \in Nat : /\ [r EXCEPT !.voiced = x] \in Explained
                             /\ [r EXCEPT !.voiced = x].status = r.status
                             /\ [r EXCEPT !.voiced = x].answer = r.answer
                             /\ [r EXCEPT !.voiced = x].text = r.text
                             /\ [r EXCEPT !.voiced = x].voiced = x
           /\ \A x \in Sections : /\ [r EXCEPT !.text = x] \in Explained
                                  /\ [r EXCEPT !.text = x].status = r.status
                                  /\ [r EXCEPT !.text = x].answer = r.answer
                                  /\ [r EXCEPT !.text = x].text = x
                                  /\ [r EXCEPT !.text = x].voiced = r.voiced
  BY DEF Explained

LEMMA TaskMoves ==
    ASSUME ExplainersTypeOK, NEW t \in Task, NEW m \in Doing, Becomes(t, m)
    PROVE  /\ task' \in [Task -> Doing] /\ task'[t] = m
           /\ \A x \in Task : x # t => task'[x] = task[x]
  BY DEF ExplainersTypeOK, Becomes

LEMMA Doings ==
    /\ Free \in Doing /\ Free.pc = "off"
    /\ \A j \in {"build", "audio"} : [pc |-> "queued", job |-> j] \in Doing
    /\ \A f \in SUBSET Cluster : [pc |-> "writing", found |-> f] \in Doing
    /\ [pc |-> "crashed"] \in Doing
    /\ \A n \in Nat : [pc |-> "voicing", answer |-> n] \in Doing
    /\ \A s \in Section, x \in Sections : [pc |-> "rewriting", section |-> s, text |-> x] \in Doing
    /\ \A es \in SUBSET Entry : [pc |-> "flush", entries |-> es] \in Doing
  BY DEF Doing, Free

LEMMA TasksDo ==
    ASSUME ExplainersTypeOK, NEW t \in Task
    PROVE  /\ task[t].pc = "writing" => task[t].found \in SUBSET Cluster
           /\ task[t].pc = "voicing" => task[t].answer \in Nat
           /\ task[t].pc = "rewriting" => task[t].section \in Section /\ task[t].text \in Sections
           /\ task[t].pc = "flush" => task[t].entries \in SUBSET Entry
  BY DEF ExplainersTypeOK, Doing, Free

LEMMA AnswersAreWhole ==
    ASSUME NEW n \in Nat
    PROVE  Answer(n) \in Sections /\ \A s \in Section : Answer(n)[s].of = n
  BY DEF Answer, Sections

LEMMA InitExplainersInv == ExplainersInit => ExplainersInv
<1> SUFFICES ASSUME ExplainersInit PROVE ExplainersInv
  OBVIOUS
<1>1. Answer(0) \in Sections /\ \A s \in Section : Answer(0)[s].of = 0
  BY AnswersAreWhole
<1>2. PICK x \in SUBSET Cluster : row = [status |-> "draft", answer |-> 0, text |-> Answer(0), voiced |-> 0,
                                         srcs |-> x, cited |-> {}]
  BY DEF ExplainersInit
<1>3. /\ row \in Explained /\ row.status = "draft" /\ row.answer = 0 /\ row.voiced = 0
      /\ row.text = Answer(0)
  BY <1>1, <1>2 DEF Explained, Status
<1>4. task \in [Task -> Doing] /\ \A t \in Task : task[t].pc = "off"
  BY Doings DEF ExplainersInit
<1>5. ExplainersTypeOK
  BY <1>3, <1>4 DEF ExplainersInit, ExplainersTypeOK, AtDesk, Page
<1>6. TasksKeepApart /\ FlushesDetail
  BY <1>4 DEF TasksKeepApart, FlushesDetail
<1>7. PublishedWasReviewed /\ AnswerHoldsTogether
  BY <1>1, <1>3 DEF PublishedWasReviewed, AnswerHoldsTogether
<1>8. ProgressIsTold /\ DetailFollowsRow
  BY <1>3 DEF ExplainersInit, ProgressIsTold, DetailFollowsRow, Content
<1> QED
  BY <1>5, <1>6, <1>7, <1>8 DEF ExplainersInv

-----------------------------------------------------------------------------
(* A step of a task, but for its invalidation.                             *)

Busy == {"queued", "writing", "voicing", "crashed"}
AtWork == {"writing", "voicing"}

LEMMA AloneAtWork ==
    ASSUME ExplainersInv, ~lapsed, NEW t \in Task, task[t].pc \in AtWork \/ lease \in {Nobody, t}
    PROVE  \A x \in Task \ {t} : task[x].pc \notin AtWork
  BY ExplainersAssumption DEF ExplainersInv, TasksKeepApart, AtWork, Nobody

LEMMA TaskStepKeeps ==
    ASSUME ExplainersInv, NEW t \in Task, NEW m \in Doing, Becomes(t, m),
           row' \in Explained, lease' \in Task \cup {Nobody}, answers' \in Nat, rewrites' \in Nat,
           UNCHANGED <<desk, reader, cached, seen, lapsed>>, crossed => crossed', late => late',
           row'.status = "published" => row.status = "published" /\ row'.answer = row.answer,
           ~crossed' => \A s \in Section : row'.text[s].of = row'.answer,
           ~lapsed => row'.voiced \in {0, row'.answer},
           ~lapsed /\ m.pc \in AtWork => lease' = t /\ (m.pc = "voicing" => m.answer = row'.answer),
           ~lapsed => \/ lease' = lease /\ row'.answer = row.answer
                      \/ task[t].pc \in AtWork \/ lease \in {Nobody, t},
           progress' = "generating" =>
               m.pc \in Busy \/ (progress = "generating" /\ task[t].pc \notin Busy),
           m.pc = "flush" => "detail" \in m.entries,
           row'.status \in Content =>
               m.pc = "flush" \/ (row' = row /\ (task[t].pc = "flush" => late'))
    PROVE  ExplainersInv'
<1>1. /\ task' \in [Task -> Doing] /\ task'[t] = m
      /\ \A x \in Task : x # t => task'[x] = task[x]
  BY TaskMoves DEF ExplainersInv
<1>2. ExplainersTypeOK'
  BY <1>1 DEF ExplainersInv, ExplainersTypeOK
<1>3. TasksKeepApart'
  <2> SUFFICES ASSUME ~lapsed, NEW x \in Task, task'[x].pc \in AtWork
               PROVE  lease' = x /\ (task'[x].pc = "voicing" => task'[x].answer = row'.answer)
    BY DEF TasksKeepApart, AtWork
  <2>1. CASE x = t
    BY <1>1, <2>1
  <2>2. CASE x # t
    <3>1. task'[x] = task[x]
      BY <1>1, <2>2
    <3>2. lease = x /\ (task[x].pc = "voicing" => task[x].answer = row.answer)
      BY <3>1 DEF ExplainersInv, TasksKeepApart, AtWork
    <3>3. lease' = lease /\ row'.answer = row.answer
      BY <2>2, <3>1, AloneAtWork
    <3> QED
      BY <3>1, <3>2, <3>3
  <2> QED
    BY <2>1, <2>2
<1>4. FlushesDetail'
  BY <1>1 DEF ExplainersInv, FlushesDetail
<1>5. PublishedWasReviewed'
  BY DEF ExplainersInv, PublishedWasReviewed
<1>6. AnswerHoldsTogether'
  BY DEF AnswerHoldsTogether
<1>7. ProgressIsTold'
  <2> SUFFICES ASSUME progress' = "generating" PROVE \E x \in Task : task'[x].pc \in Busy
    BY DEF ProgressIsTold, Busy
  <2>1. CASE m.pc \in Busy
    BY <1>1, <2>1
  <2>2. CASE progress = "generating" /\ task[t].pc \notin Busy
    <3>1. PICK x \in Task : task[x].pc \in Busy
      BY <2>2 DEF ExplainersInv, ProgressIsTold, Busy
    <3> QED
      BY <1>1, <2>2, <3>1
  <2> QED
    BY <2>1, <2>2
<1>8. DetailFollowsRow'
  <2> SUFFICES ASSUME cached["detail"] # NoEntry, row'.status \in Content, ~late', ~Flushing'
               PROVE  cached["detail"] = Copy("detail")'
    BY DEF DetailFollowsRow
  <2>1. m.pc # "flush"
    BY <1>1 DEF Flushing
  <2>2. row' = row /\ task[t].pc # "flush"
    BY <2>1
  <2>3. ~Flushing
    BY <1>1, <2>2 DEF Flushing
  <2>4. cached["detail"] = Copy("detail")
    BY <2>2, <2>3 DEF ExplainersInv, DetailFollowsRow
  <2> QED
    BY <2>2, <2>4 DEF Copy
<1> QED
  BY <1>2, <1>3, <1>4, <1>5, <1>6, <1>7, <1>8 DEF ExplainersInv

(* What the invariant says of the row.                                     *)
LEMMA Settled ==
    ASSUME ExplainersInv
    PROVE  /\ row \in Explained /\ lease \in Task \cup {Nobody} /\ answers \in Nat /\ rewrites \in Nat
           /\ row.answer \in Nat /\ row.text \in Sections /\ row.status \in Status
           /\ ~lapsed => row.voiced \in {0, row.answer}
           /\ ~crossed => \A s \in Section : row.text[s].of = row.answer
  BY DEF ExplainersInv, ExplainersTypeOK, AnswerHoldsTogether, Explained

LEMMA NewStatus ==
    ASSUME ExplainersInv, NEW x \in Status, Update([status |-> x])
    PROVE  /\ row' \in Explained /\ row'.status = x /\ row'.answer = row.answer
           /\ row'.text = row.text /\ row'.voiced = row.voiced
<1>1. PICK r \in Explained : r = row
  BY Settled
<1>2. row' = [r EXCEPT !.status = x]
  BY <1>1, Updates
<1> QED
  BY <1>1, <1>2, RowChanges

LEMMA StartingKeeps ==
    ASSUME ExplainersInv, NEW t \in Task, StartBuild(t) \/ StartAudio(t) \/ \E s \in Section : StartSection(t, s)
    PROVE  ExplainersInv'
<1>1. PICK m \in Doing : /\ Becomes(t, m) /\ m.pc \in {"queued", "rewriting"}
                         /\ m.pc = "rewriting" => progress' = progress
  BY Doings, Settled DEF StartBuild, StartAudio, StartSection, Tell
<1>2. /\ task[t].pc = "off" 
      /\ UNCHANGED <<row, lease, desk, reader, cached, answers, rewrites, seen, crossed, lapsed, late>>
  BY Doings DEF StartBuild, StartAudio, StartSection
<1> QED
  BY <1>1, <1>2, Settled, TaskStepKeeps DEF Busy, AtWork

LEMMA RefusingKeeps ==
    ASSUME ExplainersInv, NEW t \in Task, Refuse(t)
    PROVE  ExplainersInv'
<1>1. /\ Becomes(t, Free) /\ progress' # "generating" /\ task[t].pc = "queued"
      /\ UNCHANGED <<row, lease, desk, reader, cached, answers, rewrites, seen, crossed, lapsed, late>>
  BY DEF Refuse, Tell
<1> QED
  BY <1>1, Doings, Settled, TaskStepKeeps DEF Busy, AtWork

LEMMA AcquiringKeeps ==
    ASSUME ExplainersInv, NEW t \in Task, NEW found \in SUBSET Cluster, AcquireBuild(t, found)
    PROVE  ExplainersInv'
<1>1. PICK m \in Doing, x \in {"draft", "generating"} :
          /\ Becomes(t, m) /\ Update([status |-> x])
          /\ \/ m = Free /\ progress' # "generating" /\ lease' = lease
             \/ m.pc = "writing" /\ lease' = t
  BY Doings DEF AcquireBuild, Tell
<1>2. /\ task[t].pc = "queued" /\ lease = Nobody
      /\ UNCHANGED <<desk, reader, cached, answers, rewrites, seen, crossed, lapsed, late>>
  BY DEF AcquireBuild, MayRun
<1>3. /\ row' \in Explained /\ row'.status = x /\ row'.answer = row.answer
      /\ row'.text = row.text /\ row'.voiced = row.voiced
  BY <1>1, NewStatus DEF Status
<1>4. row'.status \notin Content /\ row'.status # "published"
  BY <1>3 DEF Content
<1> QED
  BY <1>1, <1>2, <1>3, <1>4, Doings, Settled, TaskStepKeeps DEF Busy, AtWork

LEMMA FinishingKeeps ==
    ASSUME ExplainersInv, NEW t \in Task, NEW ok \in BOOLEAN, FinishBuild(t, ok)
    PROVE  ExplainersInv'
<1>1. PICK n \in Nat, v \in Nat, c \in SUBSET Cluster : n = answers + 1 /\ v = Narration(ok, n) /\ c = task[t].found
  BY Settled, TasksDo DEF FinishBuild, Narration, ExplainersInv
<1>2. /\ task[t].pc = "writing" /\ answers' = n /\ progress' # "generating" /\ GiveBack(t)
      /\ Becomes(t, [pc |-> "flush", entries |-> {"detail"}]) /\ (crossed => crossed')
      /\ Update([status |-> "ready_for_review", answer |-> n, text |-> Answer(n), voiced |-> v, cited |-> c])
      /\ UNCHANGED <<desk, reader, cached, rewrites, seen, lapsed, late>>
  BY <1>1 DEF FinishBuild, Tell, Flushes, Finished
<1>3. PICK a \in Sections : a = Answer(n) /\ \A s \in Section : a[s].of = n
  BY AnswersAreWhole
<1>4. row' = [status |-> "ready_for_review", answer |-> n, text |-> a, voiced |-> v,
              srcs |-> row.srcs, cited |-> c]
  BY <1>2, <1>3, Settled, Updates
<1>5. /\ row' \in Explained /\ row'.status = "ready_for_review" /\ row'.answer = n /\ row'.text = a
      /\ row'.voiced = v
  BY <1>4, Settled DEF Explained, Status
<1>6. v \in {0, n}
  BY <1>1 DEF Narration
<1>7. PICK m : m = [pc |-> "flush", entries |-> {"detail"}]
  OBVIOUS
<1>7a. m \in Doing /\ m.pc = "flush" /\ m.entries = {"detail"}
  BY <1>7 DEF Doing, Entry
<1>8. lease' \in Task \cup {Nobody}
  BY <1>2, Settled DEF GiveBack
<1> QED
  BY <1>2, <1>3, <1>5, <1>6, <1>7, <1>7a, <1>8, Settled, TaskStepKeeps DEF Busy, AtWork

LEMMA FailuresKeep ==
    ASSUME ExplainersInv, NEW t \in Task, FailBuild(t) \/ CrashBuild(t) \/ NoteCrash(t) \/ Die(t)
    PROVE  ExplainersInv'
<1>1. CASE CrashBuild(t)
  <2>1. PICK m \in Doing : m = [pc |-> "crashed"] /\ m.pc = "crashed"
    BY Doings
  <2>2. /\ Becomes(t, m) /\ GiveBack(t) /\ task[t].pc = "writing"
        /\ UNCHANGED <<row, progress, desk, reader, cached, answers, rewrites, seen, crossed, lapsed, late>>
    BY <1>1, <2>1 DEF CrashBuild
  <2>3. lease' \in Task \cup {Nobody}
    BY <2>2, Settled DEF GiveBack
  <2> QED
    BY <2>1, <2>2, <2>3, Settled, TaskStepKeeps DEF Busy, AtWork
<1>2. CASE Die(t)
  <2>1. /\ Becomes(t, Free) /\ GiveBack(t) /\ progress' = "none" /\ (late => late')
        /\ task[t].pc \in {"writing", "voicing", "flush"} /\ (task[t].pc = "flush" => late')
        /\ UNCHANGED <<row, desk, reader, cached, answers, rewrites, seen, crossed, lapsed>>
    BY <1>2 DEF Die
  <2>2. lease' \in Task \cup {Nobody}
    BY <2>1, Settled DEF GiveBack
  <2>3. lease' = lease \/ lease = t
    BY <2>1 DEF GiveBack, Holds
  <2> QED
    BY <2>1, <2>2, <2>3, Doings, Settled, TaskStepKeeps DEF Busy, AtWork
<1>3. CASE FailBuild(t) \/ NoteCrash(t)
  <2>1. /\ Becomes(t, Free) /\ Update([status |-> "draft"]) /\ progress' # "generating" /\ (crossed => crossed')
        /\ \/ task[t].pc = "writing" /\ GiveBack(t)
           \/ lease' = lease
        /\ UNCHANGED <<desk, reader, cached, answers, rewrites, seen, lapsed, late>>
    BY <1>3 DEF FailBuild, NoteCrash, Tell
  <2>2. /\ row' \in Explained /\ row'.status = "draft" /\ row'.answer = row.answer
        /\ row'.text = row.text /\ row'.voiced = row.voiced
    BY <2>1, NewStatus DEF Status
  <2>3. lease' \in Task \cup {Nobody} /\ (lease' = lease \/ task[t].pc \in AtWork)
    BY <2>1, Settled DEF GiveBack, AtWork
  <2>4. row'.status \notin Content
    BY <2>2 DEF Content
  <2> QED
    BY <2>1, <2>2, <2>3, <2>4, Doings, Settled, TaskStepKeeps DEF Busy, AtWork
<1> QED
  BY <1>1, <1>2, <1>3

LEMMA AudioKeeps ==
    ASSUME ExplainersInv, NEW t \in Task, AcquireAudio(t) \/ \E ok \in BOOLEAN : FinishAudio(t, ok)
    PROVE  ExplainersInv'
<1>1. CASE AcquireAudio(t)
  <2>1. PICK n \in Nat : n = row.answer
    BY Settled
  <2>2. PICK v : v = [pc |-> "voicing", answer |-> n]
    OBVIOUS
  <2>3. v \in Doing /\ v.pc = "voicing" /\ v.answer = n
    BY <2>2 DEF Doing
  <2>4. /\ \/ Becomes(t, Free) /\ progress' # "generating" /\ lease' = lease
           \/ Becomes(t, v) /\ lease' = t
        /\ lease = Nobody /\ task[t].pc = "queued"
        /\ UNCHANGED <<row, desk, reader, cached, answers, rewrites, seen, crossed, lapsed, late>>
    BY <1>1, <2>1, <2>2 DEF AcquireAudio, MayRun, Tell
  <2>5. CASE Becomes(t, Free) /\ progress' # "generating" /\ lease' = lease
    BY <2>4, <2>5, Doings, Settled, TaskStepKeeps DEF Busy, AtWork
  <2>6. CASE Becomes(t, v) /\ lease' = t
    BY <2>1, <2>3, <2>4, <2>6, Settled, TaskStepKeeps DEF Busy, AtWork
  <2> QED
    BY <2>4, <2>5, <2>6
<1>2. ASSUME NEW ok \in BOOLEAN, FinishAudio(t, ok) PROVE ExplainersInv'
  <2>1. PICK n \in Nat : n = task[t].answer
    BY <1>2, TasksDo DEF FinishAudio, ExplainersInv
  <2>2. PICK m : m = [pc |-> "flush", entries |-> Entry]
    OBVIOUS
  <2>3. m \in Doing /\ m.pc = "flush" /\ "detail" \in m.entries
    BY <2>2 DEF Doing, Entry
  <2>4. /\ \/ Update([voiced |-> n]) /\ progress' # "generating" /\ Becomes(t, m)
           \/ row' = row /\ progress' # "generating" /\ Becomes(t, Free)
        /\ task[t].pc = "voicing" /\ GiveBack(t)
        /\ UNCHANGED <<desk, reader, cached, answers, rewrites, seen, crossed, lapsed, late>>
    BY <1>2, <2>1, <2>2 DEF FinishAudio, Tell, Flushes
  <2>5. lease' \in Task \cup {Nobody}
    BY <2>4, Settled DEF GiveBack
  <2>6. CASE Update([voiced |-> n]) /\ progress' # "generating" /\ Becomes(t, m)
    <3>1. PICK r \in Explained : r = row
      BY Settled
    <3>2. row' = [r EXCEPT !.voiced = n]
      BY <2>6, <3>1, Updates
    <3>3. /\ row' \in Explained /\ row'.voiced = n /\ row'.answer = row.answer
          /\ row'.text = row.text /\ row'.status = row.status
      BY <3>1, <3>2, RowChanges
    <3>4. ~lapsed => n = row.answer
      BY <2>1, <2>4 DEF ExplainersInv, TasksKeepApart
    <3> QED
      BY <2>3, <2>4, <2>5, <2>6, <3>3, <3>4, Settled, TaskStepKeeps DEF Busy, AtWork
  <2>7. CASE row' = row /\ progress' # "generating" /\ Becomes(t, Free)
    BY <2>4, <2>5, <2>7, Doings, Settled, TaskStepKeeps DEF Busy, AtWork
  <2> QED
    BY <2>4, <2>6, <2>7
<1> QED
  BY <1>1, <1>2

LEMMA SectionKeeps ==
    ASSUME ExplainersInv, NEW t \in Task, NEW ok \in BOOLEAN, FinishSection(t, ok)
    PROVE  ExplainersInv'
<1>1. PICK s \in Section, x \in Sections : s = task[t].section /\ x = task[t].text
  BY TasksDo DEF FinishSection, ExplainersInv
<1>2. PICK y : y = [x EXCEPT ![s] = [of |-> x[s].of, rewrite |-> rewrites + 1]]
  OBVIOUS
<1>3. y \in Sections /\ \A z \in Section : y[z].of = x[z].of
  <2>1. rewrites + 1 \in Nat
    BY Settled
  <2> QED
    BY <1>2, <2>1 DEF Sections
<1>4. PICK m : m = [pc |-> "flush", entries |-> {"detail"}]
  OBVIOUS
<1>5. m \in Doing /\ m.pc = "flush" /\ "detail" \in m.entries
  BY <1>4 DEF Doing, Entry
<1>6. /\ \/ /\ Update([text |-> y]) /\ rewrites' = rewrites + 1 /\ Becomes(t, m)
            /\ crossed' = (crossed \/ row.text # x)
         \/ row' = row /\ rewrites' = rewrites /\ crossed' = crossed /\ Becomes(t, Free)
      /\ task[t].pc = "rewriting"
      /\ UNCHANGED <<lease, progress, desk, reader, cached, answers, seen, lapsed, late>>
  BY <1>1, <1>2, <1>4 DEF FinishSection, Flushes
<1>7. CASE /\ Update([text |-> y]) /\ rewrites' = rewrites + 1 /\ Becomes(t, m)
           /\ crossed' = (crossed \/ row.text # x)
  <2>1. PICK r \in Explained : r = row
    BY Settled
  <2>2. row' = [r EXCEPT !.text = y]
    BY <1>7, <2>1, Updates
  <2>3. /\ row' \in Explained /\ row'.voiced = row.voiced /\ row'.answer = row.answer
        /\ row'.text = y /\ row'.status = row.status
    BY <1>3, <2>1, <2>2, RowChanges
  <2>4. crossed => crossed'
    BY <1>7
  <2>4a. rewrites' \in Nat
    BY <1>7, Settled
  <2>5. ~crossed' => \A z \in Section : row'.text[z].of = row'.answer
    BY <1>3, <1>7, <2>3, Settled
  <2> QED
    BY <1>5, <1>6, <1>7, <2>3, <2>4, <2>4a, <2>5, Settled, TaskStepKeeps DEF Busy, AtWork
<1>8. CASE row' = row /\ rewrites' = rewrites /\ crossed' = crossed /\ Becomes(t, Free)
  BY <1>6, <1>8, Doings, Settled, TaskStepKeeps DEF Busy, AtWork
<1> QED
  BY <1>6, <1>7, <1>8

LEMMA FlushingKeeps ==
    ASSUME ExplainersInv, NEW t \in Task, Flush(t)
    PROVE  ExplainersInv'
<1>1. /\ task[t].pc = "flush" /\ "detail" \in task[t].entries
      /\ Becomes(t, Free)
      /\ \/ cached' = Invalidate(task[t].entries) /\ late' = late
         \/ cached' = cached /\ late' = TRUE
      /\ UNCHANGED <<row, lease, progress, desk, reader, answers, rewrites, seen, crossed, lapsed>>
  BY DEF Flush, Drops, ExplainersInv, FlushesDetail
<1>2. /\ task' \in [Task -> Doing] /\ task'[t] = Free /\ Free.pc = "off"
      /\ \A x \in Task : x # t => task'[x] = task[x]
  BY <1>1, TaskMoves, Doings DEF ExplainersInv
<1>3. /\ DOMAIN cached' = Entry /\ cached' = [e \in Entry |-> cached'[e]]
      /\ late' \/ cached'["detail"] = NoEntry
  BY <1>1 DEF Invalidate, Entry, ExplainersInv, ExplainersTypeOK
<1>4. ExplainersTypeOK'
  BY <1>1, <1>2, <1>3 DEF ExplainersInv, ExplainersTypeOK
<1>5. TasksKeepApart' /\ FlushesDetail'
  BY <1>1, <1>2 DEF ExplainersInv, TasksKeepApart, FlushesDetail
<1>6. PublishedWasReviewed' /\ AnswerHoldsTogether'
  BY <1>1 DEF ExplainersInv, PublishedWasReviewed, AnswerHoldsTogether
<1>7. ProgressIsTold'
  BY <1>1, <1>2 DEF ExplainersInv, ProgressIsTold
<1>8. DetailFollowsRow'
  BY <1>3 DEF DetailFollowsRow
<1> QED
  BY <1>4, <1>5, <1>6, <1>7, <1>8 DEF ExplainersInv

(* Steps of the desk and of readers that leave row and tasks alone.        *)
LEMMA StillKeeps ==
    ASSUME ExplainersInv, UNCHANGED <<row, task, answers, rewrites, progress, seen, crossed>>,
           desk' \in [Admin -> AtDesk], lease' \in Task \cup {Nobody},
           DOMAIN cached' = Entry, cached' = [e \in Entry |-> cached'[e]],
           late => late', lapsed' \/ (~lapsed /\ lease' = lease),
           \/ late' \/ cached'["detail"] = NoEntry \/ cached'["detail"] = Copy("detail")
           \/ cached'["detail"] = cached["detail"] /\ (Flushing => Flushing')
    PROVE  ExplainersInv'
<1>1. ExplainersTypeOK'
  BY DEF ExplainersInv, ExplainersTypeOK
<1>2. TasksKeepApart' /\ FlushesDetail'
  BY DEF ExplainersInv, TasksKeepApart, FlushesDetail
<1>3. PublishedWasReviewed' /\ AnswerHoldsTogether'
  BY DEF ExplainersInv, PublishedWasReviewed, AnswerHoldsTogether
<1>4. ProgressIsTold'
  BY DEF ExplainersInv, ProgressIsTold
<1>5. DetailFollowsRow'
  <2>1. Copy("detail")' = Copy("detail")
    BY DEF Copy
  <2> QED
    BY <2>1 DEF ExplainersInv, DetailFollowsRow
<1> QED
  BY <1>1, <1>2, <1>3, <1>4, <1>5 DEF ExplainersInv

LEMMA DeskMoves ==
    ASSUME ExplainersTypeOK, NEW a \in Admin, NEW m \in AtDesk, desk' = [desk EXCEPT ![a] = m]
    PROVE  /\ desk' \in [Admin -> AtDesk] /\ desk'[a] = m
           /\ \A x \in Admin : x # a => desk'[x] = desk[x]
  BY DEF ExplainersTypeOK

LEMMA ReadersKeep ==
    ASSUME ExplainersInv,
           \/ Lapse \/ \E r \in Reader : Store(r) \/ \E e \in Entry : Miss(r, e)
           \/ \E e \in Entry : EndOfTtl(e)
    PROVE  ExplainersInv'
<1>1. /\ desk \in [Admin -> AtDesk] /\ lease \in Task \cup {Nobody}
      /\ DOMAIN cached = Entry /\ cached = [e \in Entry |-> cached[e]] /\ "detail" \in Entry
  BY DEF ExplainersInv, ExplainersTypeOK, Entry
<1>2. CASE Lapse
  BY <1>1, <1>2, StillKeeps DEF Lapse, Flushing
<1>3. ASSUME NEW r \in Reader, NEW e \in Entry, Miss(r, e) PROVE ExplainersInv'
  BY <1>1, <1>3, StillKeeps DEF Miss, Flushing
<1>4. ASSUME NEW r \in Reader, Store(r) PROVE ExplainersInv'
  <2>1. PICK e \in Entry : e = reader[r].pc
    BY <1>4 DEF Store
  <2>1a. PICK x : x = reader[r].copy
    OBVIOUS
  <2>2. /\ cached' = [cached EXCEPT ![e] = x] /\ late' = (late \/ x # Copy(e))
        /\ UNCHANGED <<row, lease, progress, task, desk, answers, rewrites, seen, crossed, lapsed>>
    BY <1>4, <2>1, <2>1a DEF Store
  <2>3. DOMAIN cached' = Entry /\ cached' = [d \in Entry |-> cached'[d]]
    BY <1>1, <2>2
  <2>4. \/ late' \/ cached'["detail"] = Copy("detail")
        \/ cached'["detail"] = cached["detail"]
    BY <1>1, <2>1, <2>2
  <2> QED
    BY <1>1, <2>2, <2>3, <2>4, StillKeeps DEF Flushing
<1>5. ASSUME NEW e \in Entry, EndOfTtl(e) PROVE ExplainersInv'
  <2>1. /\ cached' = [cached EXCEPT ![e] = NoEntry]
        /\ UNCHANGED <<row, lease, progress, task, desk, reader, answers, rewrites, seen, crossed, lapsed, late>>
    BY <1>5 DEF EndOfTtl
  <2>2. /\ DOMAIN cached' = Entry /\ cached' = [d \in Entry |-> cached'[d]]
        /\ cached'["detail"] = NoEntry \/ cached'["detail"] = cached["detail"]
    BY <1>1, <2>1
  <2> QED
    BY <1>1, <2>1, <2>2, StillKeeps DEF Flushing
<1> QED
  BY <1>2, <1>3, <1>4, <1>5

LEMMA DeskKeeps ==
    ASSUME ExplainersInv, NEW a \in Admin,
           OpenPage(a) \/ FlushDesk(a) \/ \E op \in DOMAIN Button : Ask(a, op)
    PROVE  ExplainersInv'
<1>1. /\ desk \in [Admin -> AtDesk] /\ lease \in Task \cup {Nobody} /\ desk[a] \in AtDesk
      /\ DOMAIN cached = Entry /\ cached = [e \in Entry |-> cached[e]] /\ "detail" \in Entry
  BY DEF ExplainersInv, ExplainersTypeOK, Entry
<1>2. PICK d \in AtDesk : d = desk[a]
  BY <1>1
<1>3. CASE FlushDesk(a)
  <2>1. /\ \/ cached' = Invalidate(Entry) /\ late' = late
           \/ cached' = cached /\ late'
        /\ desk' = [desk EXCEPT ![a] = [d EXCEPT !.pc = "off"]]
        /\ UNCHANGED <<row, lease, progress, task, reader, answers, rewrites, seen, crossed, lapsed>>
    BY <1>2, <1>3 DEF FlushDesk, Drops
  <2>2. [d EXCEPT !.pc = "off"] \in AtDesk
    BY DEF AtDesk
  <2>3. desk' \in [Admin -> AtDesk]
    BY <1>1, <2>1, <2>2
  <2>4. /\ DOMAIN cached' = Entry /\ cached' = [e \in Entry |-> cached'[e]]
        /\ late' \/ (cached'["detail"] = NoEntry /\ late' = late)
    BY <1>1, <2>1 DEF Invalidate
  <2> QED
    BY <1>1, <2>1, <2>3, <2>4, StillKeeps
<1>4. CASE OpenPage(a) \/ \E op \in DOMAIN Button : Ask(a, op)
  <2>1. /\ d.pc = "off"
        /\ UNCHANGED <<row, lease, progress, task, reader, cached, answers, rewrites, seen, crossed, lapsed, late>>
    BY <1>2, <1>4 DEF OpenPage, Ask
  <2>2. PICK n \in AtDesk : desk' = [desk EXCEPT ![a] = n]
    <3>1. CASE OpenPage(a)
      <4>1. PICK p \in Page : p = [status |-> row.status, answer |-> row.answer]
        BY Settled DEF Page
      <4>2. desk' = [desk EXCEPT ![a] = [d EXCEPT !.page = p]]
        BY <1>2, <3>1, <4>1 DEF OpenPage
      <4>3. [d EXCEPT !.page = p] \in AtDesk
        BY DEF AtDesk
      <4> QED
        BY <4>2, <4>3
    <3>2. ASSUME NEW op \in DOMAIN Button, Ask(a, op)
          PROVE  \E n \in AtDesk : desk' = [desk EXCEPT ![a] = n]
      <4>1. desk' = [desk EXCEPT ![a] = [d EXCEPT !.pc = op]]
        BY <1>2, <3>2 DEF Ask
      <4>2. op \in {"publish", "archive", "restore"}
        BY DEF Button
      <4>3. [d EXCEPT !.pc = op] \in AtDesk
        BY <4>2 DEF AtDesk
      <4> QED
        BY <4>1, <4>3
    <3> QED
      BY <1>4, <3>1, <3>2
  <2>3. desk' \in [Admin -> AtDesk] /\ \A x \in Admin : x # a => desk'[x] = desk[x]
    BY <1>1, <2>2
  <2>4. Flushing => Flushing'
    <3>1. \A x \in Admin : desk[x].pc = "flush" => x # a
      BY <1>2, <2>1
    <3> QED
      BY <2>1, <2>3, <3>1 DEF Flushing
  <2> QED
    BY <1>1, <2>1, <2>3, <2>4, StillKeeps
<1> QED
  BY <1>3, <1>4

LEMMA DecidingKeeps ==
    ASSUME ExplainersInv, NEW a \in Admin, Decide(a)
    PROVE  ExplainersInv'
<1>1. PICK op \in {"publish", "archive", "restore"} : op = desk[a].pc
  BY DEF Decide, Button
<1>2. PICK x \in {"published", "archived"} : x = Decided[op]
  BY DEF Decided
<1>3. PICK p : p = desk[a].page
  OBVIOUS
<1>4. PICK n : n = [pc |-> "flush", page |-> NoEntry]
  OBVIOUS
<1>5. /\ Update([status |-> x]) /\ crossed' = (crossed \/ row.status # p.status \/ row.answer # p.answer)
      /\ seen' = IF x = "published" THEN seen \cup {p.answer} ELSE seen
      /\ desk' = [desk EXCEPT ![a] = n]
      /\ UNCHANGED <<lease, progress, task, reader, cached, answers, rewrites, lapsed, late>>
  BY <1>1, <1>2, <1>3, <1>4 DEF Decide
<1>6. n \in AtDesk /\ n.pc = "flush"
  BY <1>4 DEF AtDesk, Page
<1>7. desk' \in [Admin -> AtDesk] /\ desk'[a].pc = "flush"
  BY <1>5, <1>6, DeskMoves DEF ExplainersInv
<1>8. /\ row' \in Explained /\ row'.status = x /\ row'.answer = row.answer
      /\ row'.text = row.text /\ row'.voiced = row.voiced
  BY <1>5, NewStatus DEF Status
<1>9. ExplainersTypeOK'
  BY <1>5, <1>7, <1>8 DEF ExplainersInv, ExplainersTypeOK
<1>10. TasksKeepApart' /\ FlushesDetail'
  BY <1>5, <1>8 DEF ExplainersInv, TasksKeepApart, FlushesDetail
<1>11. PublishedWasReviewed'
  BY <1>5, <1>8 DEF PublishedWasReviewed
<1>12. AnswerHoldsTogether' /\ ProgressIsTold'
  BY <1>5, <1>8 DEF ExplainersInv, AnswerHoldsTogether, ProgressIsTold
<1>13. DetailFollowsRow'
  BY <1>7 DEF DetailFollowsRow, Flushing
<1> QED
  BY <1>9, <1>10, <1>11, <1>12, <1>13 DEF ExplainersInv

LEMMA SourcesKeep ==
    ASSUME ExplainersInv, NEW x \in SUBSET Cluster, SetSources(x)
    PROVE  ExplainersInv'
<1>1. /\ row.status = "draft" /\ Update([srcs |-> x])
      /\ UNCHANGED <<lease, progress, task, desk, reader, cached, answers, rewrites, seen, crossed, lapsed, late>>
  BY DEF SetSources
<1>2. PICK r \in Explained : r = row
  BY Settled
<1>3. row' = [r EXCEPT !.srcs = x]
  BY <1>1, <1>2, Updates
<1>4. /\ row' \in Explained /\ row'.status = "draft" /\ row'.answer = row.answer
      /\ row'.text = row.text /\ row'.voiced = row.voiced
  BY <1>1, <1>2, <1>3, RowChanges
<1>5. ExplainersTypeOK'
  BY <1>1, <1>4 DEF ExplainersInv, ExplainersTypeOK
<1>6. TasksKeepApart' /\ FlushesDetail'
  BY <1>1, <1>4 DEF ExplainersInv, TasksKeepApart, FlushesDetail
<1>7. AnswerHoldsTogether' /\ ProgressIsTold'
  BY <1>1, <1>4 DEF ExplainersInv, AnswerHoldsTogether, ProgressIsTold
<1>8. PublishedWasReviewed' /\ DetailFollowsRow'
  BY <1>4 DEF PublishedWasReviewed, DetailFollowsRow, Content
<1> QED
  BY <1>5, <1>6, <1>7, <1>8 DEF ExplainersInv

-----------------------------------------------------------------------------
(* The results.                                                            *)

LEMMA ExplainersInvariance == ExplainersSpec => []ExplainersInv
<1>1. ExplainersInit => ExplainersInv
  BY InitExplainersInv
<1>2. ExplainersInv /\ [ExplainersNext]_evars => ExplainersInv'
  <2> SUFFICES ASSUME ExplainersInv, [ExplainersNext]_evars PROVE ExplainersInv'
    OBVIOUS
  <2>1. CASE \E x \in SUBSET Cluster : SetSources(x)
    BY <2>1, SourcesKeep
  <2>2. ASSUME NEW t \in Task,
               \/ StartBuild(t) \/ StartAudio(t) \/ \E s \in Section : StartSection(t, s)
               \/ Refuse(t) \/ AcquireAudio(t) \/ \E found \in SUBSET Cluster : AcquireBuild(t, found)
               \/ FailBuild(t) \/ CrashBuild(t) \/ NoteCrash(t) \/ Flush(t) \/ Die(t)
               \/ \E ok \in BOOLEAN : FinishBuild(t, ok) \/ FinishAudio(t, ok) \/ FinishSection(t, ok)
        PROVE  ExplainersInv'
    BY <2>2, StartingKeeps, RefusingKeeps, AudioKeeps, AcquiringKeeps, FailuresKeep, FlushingKeeps,
       FinishingKeeps, SectionKeeps
  <2>3. CASE \/ Lapse \/ \E r \in Reader : Store(r) \/ \E e \in Entry : Miss(r, e)
             \/ \E e \in Entry : EndOfTtl(e)
    BY <2>3, ReadersKeep
  <2>4. ASSUME NEW a \in Admin, OpenPage(a) \/ Decide(a) \/ FlushDesk(a) \/ \E op \in DOMAIN Button : Ask(a, op)
        PROVE  ExplainersInv'
    BY <2>4, DeskKeeps, DecidingKeeps
  <2>5. CASE UNCHANGED evars
    <3>1. UNCHANGED <<row, lease, progress, task, desk, reader, cached, answers, rewrites, seen, crossed, lapsed, late>>
      BY <2>5 DEF evars
    <3>2. /\ desk \in [Admin -> AtDesk] /\ lease \in Task \cup {Nobody}
          /\ DOMAIN cached = Entry /\ cached = [e \in Entry |-> cached[e]]
      BY DEF ExplainersInv, ExplainersTypeOK
    <3> QED
      BY <3>1, <3>2, StillKeeps DEF Flushing
  <2> QED
    BY <2>1, <2>2, <2>3, <2>4, <2>5 DEF ExplainersNext
<1> QED
  BY <1>1, <1>2, PTL DEF ExplainersSpec

(* What readers are given was on the page of the admin who released it, or *)
(* somebody wrote over a row that had changed under him.                   *)
THEOREM ReleasedWasOnThePage == ExplainersSpec => []PublishedWasReviewed
<1>1. ExplainersInv => PublishedWasReviewed
  BY DEF ExplainersInv
<1> QED
  BY <1>1, ExplainersInvariance, PTL

(* Builds, narrations, rewritten sections, crashes and lapsed leases in any *)
(* order leave an explainer whose sections and audio are of the answer on   *)
(* the page, whose progress is told to the end, and whose detail page is    *)
(* the row once the invalidations are through.                              *)
THEOREM ExplainersHold == ExplainersSpec => []ExplainerHoldsTogether
<1>1. ExplainersInv => ExplainerHoldsTogether
  BY DEF ExplainersInv, ExplainerHoldsTogether
<1> QED
  BY <1>1, ExplainersInvariance, PTL


-----------------------------------------------------------------------------
(* A set of natural numbers has a least element.                           *)
LEMMA LeastOfNumbers ==
    ASSUME NEW T, T \subseteq Nat, T # {}
    PROVE  \E n \in T : \A o \in T : n <= o
<1>1. PICK n \in T : \A o \in T : ~(<<o, n>> \in OpToRel(<, Nat))
  BY NatLessThanWellFounded, WFMin, Zenon
<1>2. \A o \in T : ~(o < n)
  BY <1>1, Zenon DEF OpToRel
<1>3. n \in T /\ n \in Nat /\ \A o \in T : o \in Nat
  OBVIOUS
<1> QED
  BY <1>2, <1>3

-----------------------------------------------------------------------------
(* DailyBriefs, the choice of the stories.                                 *)

Category == {Core[i] : i \in DOMAIN Core} \cup {Fallback[i] : i \in DOMAIN Fallback} \cup {"top"}
StoryPick == [story : DOMAIN stories, category : Category]
Untold(c) == \A j \in DOMAIN chosen : chosen[j].category # c
Visited == 1 .. (IF slot - 2 > Len(Core) THEN Len(Core) ELSE slot - 2)
Lacking == {i \in Visited : Untold(Core[i])}
FromFallback == {j \in DOMAIN chosen : \E i \in DOMAIN Fallback : chosen[j].category = Fallback[i]}

\* A core category that was visited without success is missed, unless the
\* brief was full, and a fallback story takes the place of one of them.
ChoiceTypeOK ==
    /\ \E n \in Nat : stories \in [1 .. n -> Story]
    /\ chosen \in Seq(StoryPick) /\ slot \in Nat \ {0} /\ missed \in Nat
Balance == Cardinality(FromFallback) + missed <= Cardinality(Lacking)
ToldApart ==
    \A i, j \in DOMAIN chosen :
        i # j => ~SameEvent(stories[chosen[i].story].entities, stories[chosen[j].story].entities)
ChoiceInv ==
    /\ ChoiceTypeOK /\ Len(chosen) <= MaxSlots /\ ToldApart
    /\ \A i \in Visited : ~Untold(Core[i]) \/ InCategory(Core[i]) = {} \/ Len(chosen) = MaxSlots
    /\ \A i \in DOMAIN Core \ Visited : Untold(Core[i])
    /\ Balance

LEMMA Lists ==
    /\ DOMAIN Core = 1 .. Len(Core) /\ Len(Core) \in Nat
    /\ DOMAIN Fallback = 1 .. Len(Fallback) /\ Len(Fallback) \in Nat
    /\ MaxSlots \in Nat /\ MostCovered \in Nat /\ MostCovered <= MaxSlots
  BY BriefsAssumption

(* Two events are the same whichever is looked at first.                   *)
LEMMA SameBothWays ==
    ASSUME NEW a \in SUBSET Tag, NEW b \in SUBSET Tag
    PROVE  SameEvent(a, b) <=> SameEvent(b, a)
<1>1. Cardinality(a) \in Nat /\ Cardinality(b) \in Nat
  BY FS_Subset, FS_CardinalityType, BriefsAssumption
<1>2. a \cap b = b \cap a
  OBVIOUS
<1>3. PICK common : common = Cardinality(a \cap b) /\ common = Cardinality(b \cap a)
  BY <1>2, Zenon
<1>4. PICK m, n : m = Cardinality(a) /\ n = Cardinality(b)
  OBVIOUS
<1>5. (IF m < n THEN m ELSE n) = (IF n < m THEN n ELSE m)
  BY <1>1, <1>4
<1>6. SameEvent(a, b) <=> a # {} /\ b # {} /\ 2 * common >= (IF m < n THEN m ELSE n)
  BY <1>3, <1>4, Zenon DEF SameEvent
<1>7. SameEvent(b, a) <=> b # {} /\ a # {} /\ 2 * common >= (IF n < m THEN n ELSE m)
  BY <1>3, <1>4, Zenon DEF SameEvent
<1> QED
  BY <1>5, <1>6, <1>7

LEMMA Sizes ==
    ASSUME ChoiceTypeOK
    PROVE  /\ Len(chosen) \in Nat /\ DOMAIN chosen = 1 .. Len(chosen)
           /\ \A j \in DOMAIN chosen : chosen[j] \in StoryPick
           /\ IsFiniteSet(FromFallback) /\ Cardinality(FromFallback) \in Nat
           /\ Visited \subseteq DOMAIN Core
           /\ IsFiniteSet(Lacking) /\ Cardinality(Lacking) \in Nat
           /\ DOMAIN stories \subseteq Nat /\ \A i \in DOMAIN stories : stories[i] \in Story /\ stories[i].entities \in SUBSET Tag
<1>1. Len(chosen) \in Nat /\ DOMAIN chosen = 1 .. Len(chosen) /\ \A j \in DOMAIN chosen : chosen[j] \in StoryPick
  BY DEF ChoiceTypeOK
<1>2. IsFiniteSet(DOMAIN chosen)
  BY <1>1, FS_Interval
<1>3. FromFallback \subseteq DOMAIN chosen
  BY DEF FromFallback
<1>4. Visited \subseteq DOMAIN Core
  BY Lists DEF Visited, ChoiceTypeOK
<1>5. IsFiniteSet(DOMAIN Core)
  BY Lists, FS_Interval
<1>6. Lacking \subseteq DOMAIN Core
  BY <1>4 DEF Lacking
<1>7. DOMAIN stories \subseteq Nat /\ \A i \in DOMAIN stories : stories[i] \in Story
  BY DEF ChoiceTypeOK
<1>8. \A x \in Story : x.entities \in SUBSET Tag
  BY DEF Story
<1>9. IsFiniteSet(FromFallback) /\ Cardinality(FromFallback) \in Nat
  BY <1>2, <1>3, FS_Subset, FS_CardinalityType
<1>10. IsFiniteSet(Lacking) /\ Cardinality(Lacking) \in Nat
  BY <1>5, <1>6, FS_Subset, FS_CardinalityType
<1> QED
  BY <1>1, <1>4, <1>7, <1>8, <1>9, <1>10

(* What taking a story does, whatever slot it is for.                      *)
LEMMA Taking ==
    ASSUME ChoiceTypeOK, ToldApart, stories' = stories, NEW s, NEW c \in Category, Take(s, c), s # {},
           \A i \in s : i \in DOMAIN stories /\ Eligible(i)
    PROVE  /\ chosen' \in Seq(StoryPick) /\ Len(chosen') = Len(chosen) + 1
           /\ DOMAIN chosen' = DOMAIN chosen \cup {Len(chosen) + 1} /\ Len(chosen) + 1 \notin DOMAIN chosen
           /\ \A j \in DOMAIN chosen : chosen'[j] = chosen[j]
           /\ chosen'[Len(chosen) + 1].category = c
           /\ ToldApart'
<1>1. PICK f : f = FirstOf(s)
  OBVIOUS
<1>2. f \in s
  <2>1. s \subseteq Nat
    BY Sizes
  <2>2. \E n \in s : \A o \in s : n <= o
    BY <2>1, LeastOfNumbers
  <2> QED
    BY <1>1, <2>2 DEF FirstOf
<1>3. PICK p : p = [story |-> f, category |-> c]
  OBVIOUS
<1>4. p \in StoryPick /\ p.story = f /\ p.category = c
  BY <1>2, <1>3 DEF StoryPick
<1>5. chosen' = Append(chosen, p) /\ chosen \in Seq(StoryPick)
  BY <1>1, <1>3 DEF Take, ChoiceTypeOK
<1>6. chosen' \in Seq(StoryPick) /\ Len(chosen') = Len(chosen) + 1 /\ chosen'[Len(chosen) + 1] = p
  BY <1>4, <1>5
<1>7. Len(chosen) \in Nat /\ DOMAIN chosen = 1 .. Len(chosen) /\ DOMAIN chosen' = 1 .. Len(chosen) + 1
  BY <1>5, <1>6, Sizes
<1>8. \A j \in DOMAIN chosen : chosen'[j] = chosen[j]
  BY <1>4, <1>5, <1>7
<1>9. DOMAIN chosen' = DOMAIN chosen \cup {Len(chosen) + 1} /\ Len(chosen) + 1 \notin DOMAIN chosen
  BY <1>7
<1>10. \A j \in DOMAIN chosen : /\ ~SameEvent(stories[f].entities, stories[chosen[j].story].entities)
                                /\ ~SameEvent(stories[chosen[j].story].entities, stories[f].entities)
  <2> SUFFICES ASSUME NEW j \in DOMAIN chosen
               PROVE  /\ ~SameEvent(stories[f].entities, stories[chosen[j].story].entities)
                      /\ ~SameEvent(stories[chosen[j].story].entities, stories[f].entities)
    OBVIOUS
  <2>1. Eligible(f) /\ f \in DOMAIN stories
    BY <1>2
  <2>2. ~SameEvent(stories[f].entities, stories[chosen[j].story].entities)
    BY <2>1 DEF Eligible
  <2>3. chosen[j].story \in DOMAIN stories
    BY Sizes DEF StoryPick
  <2>4. stories[f].entities \in SUBSET Tag /\ stories[chosen[j].story].entities \in SUBSET Tag
    BY <2>1, <2>3, Sizes
  <2> QED
    BY <2>2, <2>4, SameBothWays
<1>11. ToldApart'
  <2> SUFFICES ASSUME NEW i \in DOMAIN chosen', NEW j \in DOMAIN chosen', i # j
               PROVE  ~SameEvent(stories[chosen'[i].story].entities, stories[chosen'[j].story].entities)
    BY DEF ToldApart
  <2>1. CASE i \in DOMAIN chosen /\ j \in DOMAIN chosen
    BY <1>8, <2>1 DEF ToldApart
  <2>2. CASE i = Len(chosen) + 1
    BY <1>4, <1>6, <1>8, <1>9, <1>10, <2>2
  <2>3. CASE j = Len(chosen) + 1
    BY <1>4, <1>6, <1>8, <1>9, <1>10, <2>3
  <2> QED
    BY <1>9, <2>1, <2>2, <2>3
<1> QED
  BY <1>4, <1>6, <1>8, <1>9, <1>11

(* Whatever is taken, a category that has no story left gets none.         *)
LEMMA NoneComes ==
    ASSUME stories' = stories, NEW n, DOMAIN chosen' = DOMAIN chosen \cup {n},
           \A j \in DOMAIN chosen : chosen'[j] = chosen[j]
    PROVE  \A c : InCategory(c) = {} => InCategory(c)' = {}
<1>1. \A i \in DOMAIN stories : Eligible(i)' => Eligible(i)
  BY DEF Eligible, Took
<1> QED
  BY <1>1 DEF InCategory

LEMMA InitChoice == BriefsInit => ChoiceInv
<1> SUFFICES ASSUME BriefsInit PROVE ChoiceInv
  OBVIOUS
<1>1. ChoiceTypeOK
  <2>1. \E n \in Nat : stories \in [1 .. n -> Story]
    <3>1. PICK n \in 0 .. MaxStories : stories \in [1 .. n -> Story]
      BY DEF BriefsInit
    <3>2. n \in Nat
      BY BriefsAssumption
    <3> QED
      BY <3>1, <3>2
  <2> QED
    BY <2>1 DEF BriefsInit, ChoiceTypeOK
<1>2. Visited = {} /\ DOMAIN chosen = {} /\ Len(chosen) = 0
  BY Lists DEF BriefsInit, Visited
<1>3. FromFallback = {} /\ Lacking = {} /\ missed = 0
  BY <1>2 DEF FromFallback, Lacking, BriefsInit
<1>4. Balance
  BY <1>3, FS_EmptySet DEF Balance
<1> QED
  BY <1>1, <1>2, <1>4, Lists DEF ChoiceInv, ToldApart, Untold

LEMMA MostCoveredKeeps ==
    ASSUME ChoiceInv, TakeMostCovered
    PROVE  ChoiceInv'
<1> USE Lists
<1>1. slot = 1 /\ stories' = stories /\ missed' = missed /\ ChoiceTypeOK /\ ToldApart /\ Balance
  BY DEF TakeMostCovered, ChoiceInv
<1>2. Visited = {} /\ (slot' \in {1, 2} => Visited' = {})
  BY <1>1 DEF Visited
<1>3. Len(chosen) \in Nat /\ Len(chosen) <= MaxSlots
  BY <1>1, Sizes DEF ChoiceInv
<1>4. CASE slot' = 2 /\ chosen' = chosen
  <2>1. \A c : Untold(c)' = Untold(c)
    BY <1>4 DEF Untold
  <2>2. FromFallback' = FromFallback /\ Lacking' = Lacking
    BY <1>2, <1>4 DEF FromFallback, Lacking
  <2>3. ChoiceTypeOK' /\ ToldApart'
    <3>1. StoryPick' = StoryPick
      BY <1>1 DEF StoryPick
    <3>2. ToldApart'
      BY <1>1, <1>4, Zenon DEF ToldApart
    <3>3. slot' \in Nat \ {0} /\ missed' \in Nat
      BY <1>1, <1>4 DEF ChoiceTypeOK
    <3> QED
      BY <1>1, <1>4, <3>1, <3>2, <3>3 DEF ChoiceTypeOK
  <2>4. Balance'
    BY <1>1, <2>2 DEF Balance
  <2> QED
    BY <1>2, <1>3, <1>4, <2>1, <2>3, <2>4 DEF ChoiceInv
<1>5. CASE /\ Len(chosen) < MostCovered /\ {i \in DOMAIN stories : Eligible(i)} # {} /\ slot' = slot
           /\ Take({i \in DOMAIN stories : Eligible(i)}, "top")
  <2>1. "top" \in Category
    BY DEF Category
  <2>2. PICK s : s = {i \in DOMAIN stories : Eligible(i)}
    OBVIOUS
  <2>3. /\ chosen' \in Seq(StoryPick) /\ Len(chosen') = Len(chosen) + 1
        /\ DOMAIN chosen' = DOMAIN chosen \cup {Len(chosen) + 1} /\ Len(chosen) + 1 \notin DOMAIN chosen
        /\ \A j \in DOMAIN chosen : chosen'[j] = chosen[j]
        /\ chosen'[Len(chosen) + 1].category = "top"
        /\ ToldApart'
    <3>1. Take(s, "top") /\ s # {} /\ \A i \in s : i \in DOMAIN stories /\ Eligible(i)
      BY <1>5, <2>2
    <3> QED
      BY <1>1, <2>1, <3>1, Taking
  <2>4. \A i \in DOMAIN Core : Untold(Core[i]) => Untold(Core[i])'
    BY <2>3, BriefsAssumption DEF Untold
  <2>5. FromFallback' = FromFallback
    BY <2>3, BriefsAssumption DEF FromFallback
  <2>6. Lacking' = {} /\ Lacking = {}
    BY <1>1, <1>2, <1>5 DEF Lacking
  <2>7. Balance'
    BY <1>1, <2>5, <2>6 DEF Balance
  <2>8. ChoiceTypeOK'
    BY <1>1, <1>5, <2>3 DEF ChoiceTypeOK, StoryPick
  <2>9. Len(chosen') <= MaxSlots
    BY <1>3, <1>5, <2>3
  <2>10. \A i \in DOMAIN Core : Untold(Core[i])
    BY <1>2 DEF ChoiceInv
  <2> QED
    BY <1>1, <1>2, <1>5, <2>3, <2>4, <2>7, <2>8, <2>9, <2>10 DEF ChoiceInv
<1> QED
  BY <1>4, <1>5 DEF TakeMostCovered

LEMMA CoreKeeps ==
    ASSUME ChoiceInv, FillCore
    PROVE  ChoiceInv'
<1> USE Lists
<1>1. PICK n, c : n = slot - 1 /\ c = Core[n]
  OBVIOUS
<1>2. /\ n \in DOMAIN Core /\ slot' = slot + 1 /\ stories' = stories
      /\ \/ Len(chosen) < MaxSlots /\ InCategory(c) # {} /\ Take(InCategory(c), c) /\ missed' = missed
         \/ /\ ~(Len(chosen) < MaxSlots /\ InCategory(c) # {})
            /\ missed' = (IF Len(chosen) < MaxSlots THEN missed + 1 ELSE missed) /\ chosen' = chosen
  BY <1>1, Zenon DEF FillCore
<1>3. ChoiceTypeOK /\ ToldApart /\ Balance /\ Len(chosen) \in Nat /\ Len(chosen) <= MaxSlots
  BY Sizes DEF ChoiceInv
<1>4. slot \in Nat /\ missed \in Nat
  BY <1>3 DEF ChoiceTypeOK
<1>5. Visited = 1 .. n - 1 /\ Visited' = Visited \cup {n} /\ n \notin Visited
  BY <1>1, <1>2, <1>4 DEF Visited
<1>6. Untold(c)
  BY <1>1, <1>2, <1>5 DEF ChoiceInv
<1>7. \A i \in DOMAIN Core : i # n => Core[i] # c
  BY <1>1, <1>2, BriefsAssumption
<1>8. c \in Category /\ \A i \in DOMAIN Fallback : Fallback[i] # c
  BY <1>1, <1>2, BriefsAssumption DEF Category
<1>9. CASE Len(chosen) < MaxSlots /\ InCategory(c) # {} /\ Take(InCategory(c), c) /\ missed' = missed
  <2>1. PICK s : s = InCategory(c)
    OBVIOUS
  <2>2. /\ chosen' \in Seq(StoryPick) /\ Len(chosen') = Len(chosen) + 1
        /\ DOMAIN chosen' = DOMAIN chosen \cup {Len(chosen) + 1} /\ Len(chosen) + 1 \notin DOMAIN chosen
        /\ \A j \in DOMAIN chosen : chosen'[j] = chosen[j]
        /\ chosen'[Len(chosen) + 1].category = c
        /\ ToldApart'
    <3>1. Take(s, c) /\ s # {} /\ \A i \in s : i \in DOMAIN stories /\ Eligible(i)
      BY <1>9, <2>1 DEF InCategory
    <3> QED
      BY <1>2, <1>3, <1>8, <3>1, Taking
  <2>3. \A i \in DOMAIN Core : i # n => (Untold(Core[i])' <=> Untold(Core[i]))
    BY <1>7, <2>2 DEF Untold
  <2>4. ~Untold(c)'
    BY <2>2 DEF Untold
  <2>5. FromFallback' = FromFallback
    BY <1>8, <2>2 DEF FromFallback
  <2>6. Lacking' = Lacking
    BY <1>1, <1>5, <2>3, <2>4, Sizes, <1>3 DEF Lacking
  <2>7. Balance'
    BY <1>3, <1>9, <2>5, <2>6 DEF Balance
  <2>8. ChoiceTypeOK'
    <3>1. StoryPick' = StoryPick
      BY <1>2 DEF StoryPick
    <3>2. slot' \in Nat \ {0} /\ missed' \in Nat
      BY <1>2, <1>4, <1>9
    <3> QED
      BY <1>2, <1>3, <2>2, <3>1, <3>2 DEF ChoiceTypeOK
  <2>9. \A d : InCategory(d) = {} => InCategory(d)' = {}
    BY <1>2, <2>2, NoneComes
  <2>10. \A i \in Visited' : ~Untold(Core[i])' \/ InCategory(Core[i])' = {} \/ Len(chosen') = MaxSlots
    <3> SUFFICES ASSUME NEW i \in Visited'
                 PROVE  ~Untold(Core[i])' \/ InCategory(Core[i])' = {} \/ Len(chosen') = MaxSlots
      OBVIOUS
    <3>1. CASE i = n
      BY <1>1, <2>4, <3>1
    <3>2. CASE i # n
      <4>1. i \in Visited /\ i \in DOMAIN Core
        BY <1>3, <1>5, <3>2, Sizes
      <4>2. ~Untold(Core[i]) \/ InCategory(Core[i]) = {}
        <5>1. Len(chosen) # MaxSlots
          BY <1>3, <1>9
        <5> QED
          BY <4>1, <5>1 DEF ChoiceInv
      <4> QED
        BY <2>3, <2>9, <3>2, <4>1, <4>2
    <3> QED
      BY <3>1, <3>2
  <2>11. \A i \in DOMAIN Core \ Visited' : Untold(Core[i])'
    BY <1>5, <2>3 DEF ChoiceInv
  <2>12. Len(chosen') <= MaxSlots
    BY <1>3, <1>9, <2>2
  <2> QED
    BY <2>2, <2>7, <2>8, <2>10, <2>11, <2>12 DEF ChoiceInv
<1>10. CASE /\ ~(Len(chosen) < MaxSlots /\ InCategory(c) # {})
            /\ missed' = (IF Len(chosen) < MaxSlots THEN missed + 1 ELSE missed) /\ chosen' = chosen
  <2>1. \A d : Untold(d)' <=> Untold(d)
    BY <1>10 DEF Untold
  <2>2. \A d : InCategory(d) = {} => InCategory(d)' = {}
    BY <1>2, <1>10 DEF InCategory, Eligible, Took
  <2>3. FromFallback' = FromFallback
    BY <1>10 DEF FromFallback
  <2>4. Lacking' = Lacking \cup {n} /\ n \notin Lacking
    BY <1>1, <1>5, <1>6, <2>1 DEF Lacking
  <2>5. Cardinality(Lacking') = Cardinality(Lacking) + 1
    BY <1>3, <2>4, Sizes, FS_AddElement
  <2>6. Balance'
    <3>1. Cardinality(Lacking) \in Nat /\ Cardinality(FromFallback) \in Nat
      BY <1>3, Sizes
    <3>2. missed' <= missed + 1
      BY <1>4, <1>10
    <3>3. missed' \in Nat
      BY <1>4, <1>10
    <3> QED
      BY <1>3, <1>4, <2>3, <2>5, <3>1, <3>2, <3>3 DEF Balance
  <2>7. missed' \in Nat
    BY <1>4, <1>10
  <2>8. ChoiceTypeOK' /\ ToldApart'
    BY <1>2, <1>3, <1>10, <2>7 DEF ChoiceTypeOK, StoryPick, ToldApart
  <2>9. \A i \in Visited' : ~Untold(Core[i])' \/ InCategory(Core[i])' = {} \/ Len(chosen') = MaxSlots
    <3> SUFFICES ASSUME NEW i \in Visited'
                 PROVE  ~Untold(Core[i])' \/ InCategory(Core[i])' = {} \/ Len(chosen') = MaxSlots
      OBVIOUS
    <3>1. CASE i = n
      <4>1. InCategory(c) = {} \/ Len(chosen) = MaxSlots
        BY <1>3, <1>10
      <4> QED
        BY <1>1, <1>10, <2>2, <3>1, <4>1
    <3>2. CASE i # n
      <4>1. ~Untold(Core[i]) \/ InCategory(Core[i]) = {} \/ Len(chosen) = MaxSlots
        BY <1>5, <3>2 DEF ChoiceInv
      <4> QED
        BY <1>10, <2>1, <2>2, <4>1
    <3> QED
      BY <3>1, <3>2
  <2>10. \A i \in DOMAIN Core \ Visited' : Untold(Core[i])'
    BY <1>5, <2>1 DEF ChoiceInv
  <2> QED
    BY <1>3, <1>10, <2>6, <2>8, <2>9, <2>10 DEF ChoiceInv
<1> QED
  BY <1>2, <1>9, <1>10

LEMMA FallbackKeeps ==
    ASSUME ChoiceInv, FillFallback
    PROVE  ChoiceInv'
<1> USE Lists
<1>1. PICK n, c : n = slot - 1 - Len(Core) /\ c = Fallback[n]
  OBVIOUS
<1>2. /\ n \in DOMAIN Fallback /\ slot' = slot + 1 /\ stories' = stories
      /\ missed > 0 /\ Len(chosen) < MaxSlots
      /\ \/ InCategory(c) # {} /\ Take(InCategory(c), c) /\ missed' = missed - 1
         \/ chosen' = chosen /\ missed' = missed
  BY <1>1, Zenon DEF FillFallback
<1>3. ChoiceTypeOK /\ ToldApart /\ Balance /\ Len(chosen) \in Nat /\ Len(chosen) <= MaxSlots
  BY Sizes DEF ChoiceInv
<1>4. slot \in Nat /\ missed \in Nat
  BY <1>3 DEF ChoiceTypeOK
<1>5. Visited = DOMAIN Core /\ Visited' = DOMAIN Core
  BY <1>1, <1>2, <1>4 DEF Visited
<1>6. c \in Category /\ \A i \in DOMAIN Core : Core[i] # c
  BY <1>1, <1>2, BriefsAssumption DEF Category
<1>7. CASE InCategory(c) # {} /\ Take(InCategory(c), c) /\ missed' = missed - 1
  <2>1. PICK s : s = InCategory(c)
    OBVIOUS
  <2>2. /\ chosen' \in Seq(StoryPick) /\ Len(chosen') = Len(chosen) + 1
        /\ DOMAIN chosen' = DOMAIN chosen \cup {Len(chosen) + 1} /\ Len(chosen) + 1 \notin DOMAIN chosen
        /\ \A j \in DOMAIN chosen : chosen'[j] = chosen[j]
        /\ chosen'[Len(chosen) + 1].category = c
        /\ ToldApart'
    <3>1. Take(s, c) /\ s # {} /\ \A i \in s : i \in DOMAIN stories /\ Eligible(i)
      BY <1>7, <2>1 DEF InCategory
    <3> QED
      BY <1>2, <1>3, <1>6, <3>1, Taking
  <2>3. \A i \in DOMAIN Core : Untold(Core[i])' <=> Untold(Core[i])
    BY <1>6, <2>2 DEF Untold
  <2>4. FromFallback' = FromFallback \cup {Len(chosen) + 1} /\ Len(chosen) + 1 \notin FromFallback
    BY <1>1, <1>2, <2>2 DEF FromFallback
  <2>5. Cardinality(FromFallback') = Cardinality(FromFallback) + 1
    BY <1>3, <2>4, Sizes, FS_AddElement
  <2>6. Lacking' = Lacking
    BY <1>5, <2>3 DEF Lacking
  <2>7. Balance'
    <3>1. Cardinality(Lacking) \in Nat /\ Cardinality(FromFallback) \in Nat
      BY <1>3, Sizes
    <3> QED
      BY <1>3, <1>4, <1>7, <2>5, <2>6, <3>1 DEF Balance
  <2>8. missed' \in Nat
    BY <1>2, <1>4, <1>7
  <2>9. ChoiceTypeOK'
    <3>1. StoryPick' = StoryPick
      BY <1>2 DEF StoryPick
    <3>2. slot' \in Nat \ {0} /\ missed' \in Nat
      BY <1>2, <1>4, <2>8
    <3> QED
      BY <1>2, <1>3, <2>2, <3>1, <3>2 DEF ChoiceTypeOK
  <2>10. \A d : InCategory(d) = {} => InCategory(d)' = {}
    BY <1>2, <2>2, NoneComes
  <2>11. Len(chosen') <= MaxSlots /\ Len(chosen) # MaxSlots
    BY <1>2, <1>3, <2>2
  <2>12. \A i \in Visited' : ~Untold(Core[i])' \/ InCategory(Core[i])' = {} \/ Len(chosen') = MaxSlots
    BY <1>5, <2>3, <2>10, <2>11 DEF ChoiceInv
  <2> QED
    BY <1>5, <2>2, <2>7, <2>9, <2>11, <2>12 DEF ChoiceInv
<1>8. CASE chosen' = chosen /\ missed' = missed
  <2>1. \A d : Untold(d)' <=> Untold(d)
    BY <1>8 DEF Untold
  <2>2. \A d : InCategory(d) = {} => InCategory(d)' = {}
    BY <1>2, <1>8 DEF InCategory, Eligible, Took
  <2>3. FromFallback' = FromFallback /\ Lacking' = Lacking
    BY <1>5, <1>8, <2>1 DEF FromFallback, Lacking
  <2>4. Balance'
    BY <1>3, <1>8, <2>3 DEF Balance
  <2>5. ChoiceTypeOK' /\ ToldApart'
    BY <1>2, <1>3, <1>8 DEF ChoiceTypeOK, StoryPick, ToldApart
  <2>6. \A i \in Visited' : ~Untold(Core[i])' \/ InCategory(Core[i])' = {} \/ Len(chosen') = MaxSlots
    BY <1>5, <1>8, <2>1, <2>2 DEF ChoiceInv
  <2> QED
    BY <1>3, <1>5, <1>8, <2>4, <2>5, <2>6 DEF ChoiceInv
<1> QED
  BY <1>2, <1>7, <1>8

(* What the invariant says of the brief that is chosen.                    *)
LEMMA ChosenIsBalanced == ChoiceInv => BriefIsBalanced
<1> SUFFICES ASSUME ChoiceInv PROVE BriefIsBalanced
  OBVIOUS
<1> USE Lists
<1> DEFINE core == {Core[i] : i \in Visited}
<1> DEFINE lacking == {c \in core : Told({c}) = {}}
<1> DEFINE fallback == Told({Fallback[i] : i \in DOMAIN Fallback})
<1>1. ChoiceTypeOK
  BY DEF ChoiceInv
<1>2. \A c : Told({c}) = {} <=> Untold(c)
  BY DEF Told, Untold
<1>3. Visited \subseteq DOMAIN Core
  BY <1>1, Sizes
<1>4. fallback = FromFallback
  BY DEF Told, FromFallback
<1>5. IsFiniteSet(Lacking) /\ Cardinality(Lacking) \in Nat
  BY <1>1, Sizes
<1>6. lacking = {Core[i] : i \in Lacking}
  BY <1>2 DEF Lacking
<1>7. Cardinality(lacking) = Cardinality(Lacking)
  <2>1. PICK f : f = [i \in Lacking |-> Core[i]]
    OBVIOUS
  <2>2. f \in [Lacking -> lacking] /\ \A i \in Lacking : f[i] = Core[i]
    BY <1>6, <2>1
  <2>3. \A i, j \in Lacking : f[i] = f[j] => i = j
    BY <1>3, <2>2, BriefsAssumption DEF Lacking
  <2>4. \A c \in lacking : \E i \in Lacking : f[i] = c
    BY <1>6, <2>2
  <2> HIDE DEF lacking
  <2>5. f \in Bijection(Lacking, lacking)
    BY <2>2, <2>3, <2>4 DEF Bijection, Injection, Surjection, IsInjective
  <2>6. ExistsBijection(Lacking, lacking)
    BY <2>5 DEF ExistsBijection
  <2> QED
    BY <1>5, <2>6, FS_Bijection
<1>8. Cardinality(fallback) <= Cardinality(lacking)
  <2> HIDE DEF lacking, fallback
  <2>1. Cardinality(FromFallback) \in Nat /\ missed \in Nat
    BY <1>1, Sizes DEF ChoiceTypeOK
  <2>2. Cardinality(FromFallback) + missed <= Cardinality(Lacking)
    BY DEF ChoiceInv, Balance
  <2> QED
    BY <1>4, <1>5, <1>7, <2>1, <2>2
<1>9. \A c \in core : Told({c}) # {} \/ InCategory(c) = {} \/ Len(chosen) = MaxSlots
  BY <1>2 DEF ChoiceInv
<1>10. Len(chosen) <= MaxSlots /\ ToldApart
  BY DEF ChoiceInv
<1> QED
  BY <1>8, <1>9, <1>10, Zenon DEF BriefIsBalanced, Visited, ToldApart

-----------------------------------------------------------------------------
(* DailyBriefs, the builds and the page.                                   *)

BriefRow == [status : {"none", "building", "failed", "ready"}, no : Nat, day : {0} \cup BDay, kind : BKind \cup {"none"}]
BuildState ==
    {Resting} \cup [pc : {"queued"}, day : BDay, kind : BKind, force : BOOLEAN]
    \cup [pc : {"work"}, day : BDay, kind : BKind, had : BOOLEAN] \cup [pc : {"flush"}, day : BDay, kind : BKind]

BuildsTypeOK ==
    /\ today \in BDay /\ built \in Nat
    /\ brief \in [BDay -> [BKind -> BriefRow]]
    /\ holder \in [BKind -> Build \cup {NoHolder}]
    /\ build \in [Build -> BuildState]
    /\ breader \in [BriefReader -> {Resting} \cup [pc : BKind, copy : BriefRow]]
    /\ page \in [BKind -> BriefRow]

\* A build at work holds the lease of its kind until that lapses, and the row
\* it has not found ready is not ready.
BuildsHold ==
    \A b \in Build : build[b].pc \in {"work", "flush"} =>
        /\ lost \/ holder[build[b].kind] = b
        /\ lost \/ (build[b].pc = "work" /\ ~build[b].had => Row(build[b]).status # "ready")

RowsAreNamed ==
    \A d \in BDay, k \in BKind : brief[d][k].status = "ready" => brief[d][k].day = d /\ brief[d][k].kind = k
CopiesAreNamed == \A r \in BriefReader : breader[r].pc \in BKind => breader[r].copy.kind = breader[r].pc

BuildsInv == BuildsTypeOK /\ BuildsHold /\ RowsAreNamed /\ CopiesAreNamed /\ PageIsLatest

LEMMA BuildFields ==
    ASSUME NEW m \in BuildState
    PROVE  /\ m.pc \in {"off", "queued", "work", "flush"}
           /\ m.pc \in {"queued", "work", "flush"} => m.day \in BDay /\ m.kind \in BKind
           /\ m.pc = "queued" => m.force \in BOOLEAN
           /\ m.pc = "work" => m.had \in BOOLEAN
  BY DEF BuildState, Resting

LEMMA BuildStates ==
    ASSUME NEW d \in BDay, NEW k \in BKind, NEW yes \in BOOLEAN
    PROVE  /\ Resting \in BuildState /\ Resting.pc = "off"
           /\ [pc |-> "queued", day |-> d, kind |-> k, force |-> yes] \in BuildState
           /\ [pc |-> "work", day |-> d, kind |-> k, had |-> yes] \in BuildState
           /\ [pc |-> "flush", day |-> d, kind |-> k] \in BuildState
  BY DEF BuildState, Resting

(* What readers may be shown of a kind is a row of that kind.              *)
LEMMA LatestIsNamed ==
    ASSUME BuildsTypeOK, RowsAreNamed, NEW k \in BKind, LatestReady(k) # NoBrief
    PROVE  LatestReady(k) \in BriefRow /\ LatestReady(k).kind = k
<1>1. Readied(k) # {}
  BY DEF LatestReady
<1>2. \A x \in Readied(k) : x \in BriefRow /\ x.kind = k /\ x.day \in BDay
  BY DEF Readied, RowsAreNamed, BuildsTypeOK
<1> DEFINE ahead == {n \in Nat : \E x \in Readied(k) : n = LastDay - x.day}
<1>3. LastDay \in Nat
  BY BriefsAssumption
<1>4. ahead # {}
  <2>1. PICK x \in Readied(k) : TRUE
    BY <1>1
  <2>2. LastDay - x.day \in Nat
    BY <1>2, <1>3, <2>1 DEF BDay
  <2> QED
    BY <2>1, <2>2
<1>5. PICK n \in ahead : \A o \in ahead : n <= o
  <2>1. ahead \subseteq Nat
    OBVIOUS
  <2> HIDE DEF ahead
  <2> QED
    BY <1>4, <2>1, LeastOfNumbers
<1>6. PICK x \in Readied(k) : n = LastDay - x.day
  BY <1>5
<1>7. \A y \in Readied(k) : y.day <= x.day
  <2> SUFFICES ASSUME NEW y \in Readied(k) PROVE y.day <= x.day
    OBVIOUS
  <2>1. x.day \in 1 .. LastDay /\ y.day \in 1 .. LastDay
    BY <1>2, <1>6 DEF BDay
  <2>2. LastDay - y.day \in Nat
    BY <1>3, <2>1
  <2>3. n <= LastDay - y.day
    BY <1>5, <2>2
  <2> QED
    BY <1>3, <1>6, <2>1, <2>3
<1>8. LatestReady(k) \in Readied(k)
  BY <1>1, <1>6, <1>7 DEF LatestReady, LatestOf
<1> QED
  BY <1>2, <1>8

(* A row that is not ready before or after a step is nothing to readers.   *)
LEMMA ReadiedStays ==
    ASSUME \A d \in BDay, k \in BKind : brief'[d][k] = brief[d][k] \/ (brief[d][k].status # "ready" /\ brief'[d][k].status # "ready")
    PROVE  \A k \in BKind : LatestReady(k)' = LatestReady(k)
<1> SUFFICES ASSUME NEW k \in BKind PROVE LatestReady(k)' = LatestReady(k)
  OBVIOUS
<1>1. PICK s : s = Readied(k) /\ s = Readied(k)'
  BY DEF Readied
<1>2. LatestReady(k) = IF s = {} THEN NoBrief ELSE LatestOf(s)
  BY <1>1, Zenon DEF LatestReady
<1>3. LatestReady(k)' = IF s = {} THEN NoBrief ELSE LatestOf(s)
  BY <1>1, Zenon DEF LatestReady
<1> QED
  BY <1>2, <1>3, Zenon

LEMMA InitBuilds == BriefsInit => BuildsInv
<1> SUFFICES ASSUME BriefsInit PROVE BuildsInv
  OBVIOUS
<1>1. NoBrief \in BriefRow /\ NoBrief.status = "none" /\ Resting \in BuildState /\ Resting.pc = "off" /\ 1 \in BDay
  BY BriefsAssumption DEF NoBrief, BriefRow, Resting, BuildState, BDay
<1>2. BuildsTypeOK
  BY <1>1 DEF BriefsInit, BuildsTypeOK
<1>3. BuildsHold /\ RowsAreNamed /\ CopiesAreNamed
  BY <1>1 DEF BriefsInit, BuildsHold, RowsAreNamed, CopiesAreNamed, BKind
<1>4. PageIsLatest
  BY DEF BriefsInit, PageIsLatest
<1> QED
  BY <1>2, <1>3, <1>4 DEF BuildsInv

StaysUp == \A d \in BDay, k \in BKind : brief[d][k].status = "ready" => brief'[d][k].status = "ready" \/ lost

(* The page is out of date only while the invalidation is to come.         *)
LEMMA PageStays ==
    ASSUME PageIsLatest, page' = page, stale => stale', lost => lost',
           \A k \in BKind : LatestReady(k)' = LatestReady(k) \/ lost',
           \A b \in Build : build[b].pc = "flush" => stale' \/ build'[b] = build[b]
    PROVE  PageIsLatest'
<1> SUFFICES ASSUME NEW k \in BKind, page[k] # NoBrief
             PROVE  /\ page[k].kind = k
                    /\ \/ page[k] = LatestReady(k)' \/ stale' \/ lost'
                       \/ \E b \in Build : build'[b].pc = "flush" /\ build'[b].kind = k
  BY DEF PageIsLatest
<1>1. page[k].kind = k
  BY DEF PageIsLatest
<1>2. page[k] = LatestReady(k) \/ stale \/ lost \/ \E b \in Build : build[b].pc = "flush" /\ build[b].kind = k
  BY DEF PageIsLatest
<1>3. CASE \E b \in Build : build[b].pc = "flush" /\ build[b].kind = k
  BY <1>1, <1>3
<1>4. CASE page[k] = LatestReady(k) \/ stale \/ lost
  BY <1>1, <1>4
<1> QED
  BY <1>2, <1>3, <1>4

(* Until leases lapse, the builds at work are on different kinds.          *)
LEMMA KindsApart ==
    ASSUME BuildsInv, ~lost, NEW b \in Build, build[b].pc \in {"work", "flush"},
           NEW c \in Build \ {b}, build[c].pc \in {"work", "flush"}
    PROVE  build[b].kind # build[c].kind
  BY DEF BuildsInv, BuildsHold

LEMMA StartsKeep ==
    ASSUME BuildsInv, NEW b \in Build,
           \/ \E k \in BKind, force \in BOOLEAN : StartBrief(b, k, force)
           \/ NotBuilt(b) \/ AcquireBrief(b)
    PROVE  BuildsInv' /\ StaysUp
<1>t. BuildsTypeOK /\ PageIsLatest /\ BuildsHold /\ RowsAreNamed
  BY DEF BuildsInv
<1>f. UNCHANGED <<hour, today, breader, page, built, lost, stale>>
  BY DEF StartBrief, NotBuilt, AcquireBrief
<1>c. CopiesAreNamed'
  BY <1>f DEF BuildsInv, CopiesAreNamed
<1>1. ASSUME NEW m \in BuildState, build' = [build EXCEPT ![b] = m], m.pc \in {"off", "queued"},
             build[b].pc \in {"off", "queued"}, brief' = brief, holder' = holder
      PROVE  BuildsInv' /\ StaysUp
  <2>1. build'[b] = m /\ \A c \in Build \ {b} : build'[c] = build[c]
    BY <1>t, <1>1 DEF BuildsTypeOK
  <2>2. BuildsTypeOK'
    BY <1>t, <1>f, <1>1 DEF BuildsTypeOK
  <2>3. BuildsHold'
    BY <1>t, <1>f, <1>1, <2>1 DEF BuildsHold, Row
  <2>4. RowsAreNamed' /\ StaysUp
    BY <1>t, <1>1 DEF RowsAreNamed, StaysUp
  <2>5. \A k \in BKind : LatestReady(k)' = LatestReady(k)
    BY <1>1, ReadiedStays
  <2>6. PageIsLatest'
    BY <1>t, <1>f, <1>1, <2>1, <2>5, PageStays
  <2> QED
    BY <1>c, <2>2, <2>3, <2>4, <2>6 DEF BuildsInv
<1>2. ASSUME NEW k \in BKind, NEW force \in BOOLEAN, StartBrief(b, k, force)
      PROVE  BuildsInv' /\ StaysUp
  <2>1. PICK m : m = [pc |-> "queued", day |-> today, kind |-> k, force |-> force]
    OBVIOUS
  <2>2. m \in BuildState /\ m.pc = "queued"
    BY <1>t, <2>1, BuildStates DEF BuildsTypeOK
  <2>3. build' = [build EXCEPT ![b] = m] /\ build[b].pc = "off" /\ brief' = brief /\ holder' = holder
    BY <1>2, <2>1 DEF StartBrief, Turns, Resting
  <2> QED
    BY <1>1, <2>2, <2>3
<1>3. ASSUME NotBuilt(b)
      PROVE  BuildsInv' /\ StaysUp
  <2>1. Resting \in BuildState /\ Resting.pc = "off"
    BY DEF Resting, BuildState
  <2>2. build' = [build EXCEPT ![b] = Resting] /\ build[b].pc = "queued" /\ brief' = brief /\ holder' = holder
    BY <1>3 DEF NotBuilt, Turns
  <2> QED
    BY <1>1, <2>1, <2>2
<1>4. ASSUME AcquireBrief(b)
      PROVE  BuildsInv' /\ StaysUp
  <2>1. PICK d, k, had : d = build[b].day /\ k = build[b].kind /\ had = (brief[d][k].status = "ready")
    OBVIOUS
  <2>2. PICK x : x = [status |-> "building", no |-> brief[d][k].no, day |-> d, kind |-> k]
    OBVIOUS
  <2>3. PICK m : m = [pc |-> "work", day |-> d, kind |-> k, had |-> had]
    OBVIOUS
  <2>4. /\ build[b].pc = "queued" /\ holder[k] = NoHolder
        /\ holder' = [holder EXCEPT ![k] = b]
        /\ brief' = (IF had THEN brief ELSE [brief EXCEPT ![d][k] = x])
        /\ build' = [build EXCEPT ![b] = m]
    BY <1>4, <2>1, <2>2, <2>3 DEF AcquireBrief, MayBuild, Row, Upsert, Turns
  <2>5. d \in BDay /\ k \in BKind
    BY <1>t, <2>1, <2>4, BuildFields DEF BuildsTypeOK
  <2>6. brief[d][k] \in BriefRow
    BY <1>t, <2>5 DEF BuildsTypeOK
  <2>7. x \in BriefRow /\ x.status = "building" /\ had \in BOOLEAN
    BY <2>1, <2>2, <2>5, <2>6 DEF BriefRow
  <2>8. m \in BuildState /\ m.pc = "work" /\ m.day = d /\ m.kind = k /\ m.had = had
    BY <2>3, <2>5, <2>7, BuildStates
  <2>9. build'[b] = m /\ \A c \in Build \ {b} : build'[c] = build[c]
    BY <1>t, <2>4 DEF BuildsTypeOK
  <2>10. /\ brief' \in [BDay -> [BKind -> BriefRow]]
         /\ \A e \in BDay, l \in BKind : e # d \/ l # k => brief'[e][l] = brief[e][l]
         /\ ~had => brief'[d][k] = x
         /\ had => brief' = brief
    BY <1>t, <2>4, <2>5, <2>7 DEF BuildsTypeOK
  <2>11. holder' \in [BKind -> Build \cup {NoHolder}] /\ holder'[k] = b /\ \A l \in BKind \ {k} : holder'[l] = holder[l]
    BY <1>t, <2>4, <2>5 DEF BuildsTypeOK
  <2>12. build' \in [Build -> BuildState]
    BY <1>t, <2>4, <2>8 DEF BuildsTypeOK
  <2>13. BuildsTypeOK'
    BY <1>t, <1>f, <2>10, <2>11, <2>12 DEF BuildsTypeOK
  <2>14. ~had => brief[d][k].status # "ready" /\ brief'[d][k].status # "ready"
    BY <2>1, <2>7, <2>10
  <2>15. \A e \in BDay, l \in BKind : brief'[e][l] = brief[e][l] \/ (brief[e][l].status # "ready" /\ brief'[e][l].status # "ready")
    BY <2>10, <2>14
  <2>16. BuildsHold'
    <3> SUFFICES ASSUME NEW c \in Build, build'[c].pc \in {"work", "flush"}, ~lost
                 PROVE  /\ holder'[build'[c].kind] = c
                        /\ build'[c].pc = "work" /\ ~build'[c].had => brief'[build'[c].day][build'[c].kind].status # "ready"
      BY <1>f DEF BuildsHold, Row
    <3>1. CASE c = b
      BY <2>8, <2>9, <2>11, <2>14, <3>1
    <3>2. CASE c # b
      <4>1. build'[c] = build[c] /\ build[c].day \in BDay /\ build[c].kind \in BKind
        BY <1>t, <2>9, <3>2, BuildFields DEF BuildsTypeOK
      <4>2. /\ holder[build[c].kind] = c
            /\ build[c].pc = "work" /\ ~build[c].had => brief[build[c].day][build[c].kind].status # "ready"
        BY <1>t, <4>1 DEF BuildsHold, Row
      <4>3. build[c].kind # k
        BY <2>4, <4>2, BriefsAssumption DEF NoHolder
      <4> QED
        BY <2>10, <2>11, <4>1, <4>2, <4>3
    <3> QED
      BY <3>1, <3>2
  <2>17. RowsAreNamed' /\ StaysUp
    BY <1>t, <2>15 DEF RowsAreNamed, StaysUp
  <2>18. \A l \in BKind : LatestReady(l)' = LatestReady(l)
    BY <2>15, ReadiedStays
  <2>19. PageIsLatest'
    BY <1>t, <1>f, <2>4, <2>9, <2>18, PageStays
  <2> QED
    BY <1>c, <2>13, <2>16, <2>17, <2>19 DEF BuildsInv
<1> QED
  BY <1>2, <1>3, <1>4

LEMMA EndsKeep ==
    ASSUME BuildsInv, NEW b \in Build, FailBrief(b) \/ FlushBrief(b) \/ StopBrief(b)
    PROVE  BuildsInv' /\ StaysUp
<1>t. BuildsTypeOK /\ PageIsLatest /\ BuildsHold /\ RowsAreNamed
  BY DEF BuildsInv
<1>f. UNCHANGED <<hour, today, breader, built, lost>>
  BY DEF FailBrief, FlushBrief, StopBrief
<1>c. CopiesAreNamed'
  BY <1>f DEF BuildsInv, CopiesAreNamed
<1>1. /\ build[b].pc \in {"work", "flush"} /\ build' = [build EXCEPT ![b] = Resting]
      /\ holder' = [l \in BKind |-> IF holder[l] = b THEN NoHolder ELSE holder[l]]
  BY DEF FailBrief, FlushBrief, StopBrief, Turns, GiveUpLease
<1>2. Resting \in BuildState /\ Resting.pc = "off"
  BY DEF Resting, BuildState
<1>3. PICK d, k : d = build[b].day /\ k = build[b].kind
  OBVIOUS
<1>4. d \in BDay /\ k \in BKind
  BY <1>t, <1>1, <1>3, BuildFields DEF BuildsTypeOK
<1>5. build'[b].pc = "off" /\ \A c \in Build \ {b} : build'[c] = build[c]
  BY <1>t, <1>1, <1>2 DEF BuildsTypeOK
<1>6. build' \in [Build -> BuildState]
  BY <1>t, <1>1, <1>2 DEF BuildsTypeOK
<1>7. holder' \in [BKind -> Build \cup {NoHolder}] /\ \A l \in BKind : holder[l] # b => holder'[l] = holder[l]
  BY <1>t, <1>1 DEF BuildsTypeOK
<1>8. ASSUME \A e \in BDay, l \in BKind : brief'[e][l] = brief[e][l] \/ brief'[e][l].status # "ready"
      PROVE  BuildsHold' /\ RowsAreNamed'
  <2>1. RowsAreNamed'
    BY <1>t, <1>8 DEF RowsAreNamed
  <2> SUFFICES ASSUME NEW c \in Build, build'[c].pc \in {"work", "flush"}, ~lost
               PROVE  /\ holder'[build'[c].kind] = c
                      /\ build'[c].pc = "work" /\ ~build'[c].had => brief'[build'[c].day][build'[c].kind].status # "ready"
    BY <1>f, <2>1 DEF BuildsHold, Row
  <2>2. c # b /\ build'[c] = build[c] /\ build[c].day \in BDay /\ build[c].kind \in BKind
    BY <1>t, <1>5, BuildFields DEF BuildsTypeOK
  <2>3. /\ holder[build[c].kind] = c
        /\ build[c].pc = "work" /\ ~build[c].had => brief[build[c].day][build[c].kind].status # "ready"
    BY <1>t, <2>2 DEF BuildsHold, Row
  <2> QED
    BY <1>7, <1>8, <2>2, <2>3
<1>9. CASE FailBrief(b)
  <2>1. PICK x : x = [status |-> "failed", no |-> brief[d][k].no, day |-> d, kind |-> k]
    OBVIOUS
  <2>2. /\ build[b].pc = "work" /\ page' = page /\ stale' = stale
        /\ brief' = (IF ~build[b].had THEN [brief EXCEPT ![d][k] = x] ELSE brief)
    BY <1>3, <1>9, <2>1 DEF FailBrief, MayHide, Upsert, Row
  <2>3. brief[d][k] \in BriefRow
    BY <1>t, <1>4 DEF BuildsTypeOK
  <2>4. x \in BriefRow /\ x.status = "failed"
    BY <1>4, <2>1, <2>3 DEF BriefRow
  <2>5. /\ brief' \in [BDay -> [BKind -> BriefRow]]
        /\ \A e \in BDay, l \in BKind : brief'[e][l] = brief[e][l] \/ (e = d /\ l = k /\ brief'[e][l] = x /\ ~build[b].had)
    BY <1>t, <1>4, <2>2, <2>4 DEF BuildsTypeOK
  <2>6. lost \/ build[b].had \/ brief[d][k].status # "ready"
    BY <1>t, <1>3, <2>2, BuildFields DEF BuildsHold, Row, BuildsTypeOK
  <2>7. BuildsTypeOK'
    BY <1>t, <1>f, <1>6, <1>7, <2>2, <2>5 DEF BuildsTypeOK
  <2>8. BuildsHold' /\ RowsAreNamed'
    BY <1>8, <2>4, <2>5
  <2>9. StaysUp
    BY <2>5, <2>6 DEF StaysUp
  <2>10. \A l \in BKind : LatestReady(l)' = LatestReady(l) \/ lost'
    <3>1. CASE lost
      BY <1>f, <3>1
    <3>2. CASE ~lost
      <4>1. \A e \in BDay, l \in BKind : brief'[e][l] = brief[e][l] \/ (brief[e][l].status # "ready" /\ brief'[e][l].status # "ready")
        BY <2>4, <2>5, <2>6, <3>2
      <4> QED
        BY <4>1, ReadiedStays
    <3> QED
      BY <3>1, <3>2
  <2>11. PageIsLatest'
    BY <1>t, <1>f, <1>5, <2>2, <2>10, PageStays
  <2> QED
    BY <1>c, <2>7, <2>8, <2>9, <2>11 DEF BuildsInv
<1>10. CASE FlushBrief(b) \/ StopBrief(b)
  <2>1. brief' = brief
    BY <1>10 DEF FlushBrief, StopBrief
  <2>2. \A l \in BKind : LatestReady(l)' = LatestReady(l)
    BY <2>1, ReadiedStays
  <2>3. BuildsHold' /\ RowsAreNamed' /\ StaysUp
    BY <1>8, <2>1 DEF StaysUp
  <2>4. CASE StopBrief(b)
    <3>1. page' = page /\ stale' = (stale \/ build[b].pc = "flush")
      BY <2>4 DEF StopBrief
    <3>2. BuildsTypeOK'
      BY <1>t, <1>f, <1>6, <1>7, <2>1, <3>1 DEF BuildsTypeOK
    <3>3. PageIsLatest'
      BY <1>t, <1>f, <1>5, <2>2, <3>1, PageStays
    <3> QED
      BY <1>c, <2>3, <3>2, <3>3 DEF BuildsInv
  <2>5. CASE FlushBrief(b)
    <3>1. page' = [page EXCEPT ![k] = NoBrief] /\ stale' = stale
      BY <1>3, <2>5 DEF FlushBrief
    <3>2. NoBrief \in BriefRow
      BY DEF NoBrief, BriefRow
    <3>3. page' \in [BKind -> BriefRow] /\ page'[k] = NoBrief /\ \A l \in BKind \ {k} : page'[l] = page[l]
      BY <1>t, <1>4, <3>1, <3>2 DEF BuildsTypeOK
    <3>4. BuildsTypeOK'
      BY <1>t, <1>f, <1>6, <1>7, <2>1, <3>3 DEF BuildsTypeOK
    <3>5. PageIsLatest'
      <4> SUFFICES ASSUME NEW l \in BKind, page'[l] # NoBrief
                   PROVE  /\ page'[l].kind = l
                          /\ \/ page'[l] = LatestReady(l)' \/ stale' \/ lost'
                             \/ \E c \in Build : build'[c].pc = "flush" /\ build'[c].kind = l
        BY DEF PageIsLatest
      <4>1. l # k /\ page'[l] = page[l]
        BY <3>3
      <4>2. page[l].kind = l
        BY <1>t, <4>1 DEF PageIsLatest
      <4>3. page[l] = LatestReady(l) \/ stale \/ lost \/ \E c \in Build : build[c].pc = "flush" /\ build[c].kind = l
        BY <1>t, <4>1 DEF PageIsLatest
      <4>4. CASE \E c \in Build : build[c].pc = "flush" /\ build[c].kind = l
        BY <1>3, <1>5, <4>1, <4>2, <4>4
      <4>5. CASE page[l] = LatestReady(l) \/ stale \/ lost
        BY <1>f, <2>2, <3>1, <4>1, <4>2, <4>5
      <4> QED
        BY <4>3, <4>4, <4>5
    <3> QED
      BY <1>c, <2>3, <3>4, <3>5 DEF BuildsInv
  <2> QED
    BY <1>10, <2>4, <2>5
<1> QED
  BY <1>9, <1>10

LEMMA PublishingKeeps ==
    ASSUME BuildsInv, NEW b \in Build, PublishBrief(b)
    PROVE  BuildsInv' /\ StaysUp
<1>t. BuildsTypeOK /\ PageIsLatest /\ BuildsHold /\ RowsAreNamed
  BY DEF BuildsInv
<1>f. UNCHANGED <<hour, today, holder, breader, page, lost, stale>> /\ built' = built + 1
  BY DEF PublishBrief
<1>c. CopiesAreNamed'
  BY <1>f DEF BuildsInv, CopiesAreNamed
<1>1. PICK d, k : d = build[b].day /\ k = build[b].kind
  OBVIOUS
<1>2. PICK x, m : /\ x = [status |-> "ready", no |-> built + 1, day |-> d, kind |-> k]
                  /\ m = [pc |-> "flush", day |-> d, kind |-> k]
  OBVIOUS
<1>3. /\ build[b].pc = "work"
      /\ brief' = [brief EXCEPT ![d][k] = x]
      /\ build' = [build EXCEPT ![b] = m]
  BY <1>1, <1>2 DEF PublishBrief, Written, Turns
<1>4. d \in BDay /\ k \in BKind
  BY <1>t, <1>1, <1>3, BuildFields DEF BuildsTypeOK
<1>5. x \in BriefRow /\ x.status = "ready" /\ x.day = d /\ x.kind = k
  BY <1>t, <1>2, <1>4 DEF BriefRow, BuildsTypeOK
<1>6. m \in BuildState /\ m.pc = "flush" /\ m.kind = k
  BY <1>2, <1>4, BuildStates
<1>7. build'[b] = m /\ \A c \in Build \ {b} : build'[c] = build[c]
  BY <1>t, <1>3 DEF BuildsTypeOK
<1>8. /\ brief' \in [BDay -> [BKind -> BriefRow]]
      /\ brief'[d][k] = x
      /\ \A e \in BDay, l \in BKind : e # d \/ l # k => brief'[e][l] = brief[e][l]
  BY <1>t, <1>3, <1>4, <1>5 DEF BuildsTypeOK
<1>9. BuildsTypeOK'
  <2>1. build' \in [Build -> BuildState]
    BY <1>t, <1>3, <1>6 DEF BuildsTypeOK
  <2> QED
    BY <1>t, <1>f, <1>8, <2>1 DEF BuildsTypeOK
<1>10. BuildsHold'
  <2> SUFFICES ASSUME NEW c \in Build, build'[c].pc \in {"work", "flush"}, ~lost
               PROVE  /\ holder[build'[c].kind] = c
                      /\ build'[c].pc = "work" /\ ~build'[c].had => brief'[build'[c].day][build'[c].kind].status # "ready"
    BY <1>f DEF BuildsHold, Row
  <2>1. CASE c = b
    BY <1>1, <1>3, <1>6, <1>7, <1>t, <2>1 DEF BuildsHold
  <2>2. CASE c # b
    <3>1. build'[c] = build[c] /\ build[c].day \in BDay /\ build[c].kind \in BKind
      BY <1>t, <1>7, <2>2, BuildFields DEF BuildsTypeOK
    <3>2. build[c].kind # k
      BY <1>1, <1>3, <2>2, <3>1, KindsApart
    <3> QED
      BY <1>t, <1>8, <3>1, <3>2 DEF BuildsHold, Row
  <2> QED
    BY <2>1, <2>2
<1>11. RowsAreNamed' /\ StaysUp
  BY <1>t, <1>5, <1>8 DEF RowsAreNamed, StaysUp
<1>12. \A l \in BKind \ {k} : LatestReady(l)' = LatestReady(l)
  <2> SUFFICES ASSUME NEW l \in BKind \ {k} PROVE LatestReady(l)' = LatestReady(l)
    OBVIOUS
  <2>1. PICK s : s = Readied(l) /\ s = Readied(l)'
    <3>1. \A e \in BDay : brief'[e][l] = brief[e][l]
      BY <1>8
    <3>2. Readied(l)' = Readied(l)
      BY <3>1 DEF Readied
    <3> QED
      BY <3>2
  <2>2. LatestReady(l) = IF s = {} THEN NoBrief ELSE LatestOf(s)
    BY <2>1, Zenon DEF LatestReady
  <2>3. LatestReady(l)' = IF s = {} THEN NoBrief ELSE LatestOf(s)
    BY <2>1, Zenon DEF LatestReady
  <2> QED
    BY <2>2, <2>3, Zenon
<1>13. PageIsLatest'
  <2> SUFFICES ASSUME NEW l \in BKind, page[l] # NoBrief
               PROVE  /\ page[l].kind = l
                      /\ \/ page[l] = LatestReady(l)' \/ stale \/ lost
                         \/ \E c \in Build : build'[c].pc = "flush" /\ build'[c].kind = l
    BY <1>f DEF PageIsLatest
  <2>1. page[l].kind = l
    BY <1>t DEF PageIsLatest
  <2>2. CASE l = k
    BY <1>6, <1>7, <2>1, <2>2
  <2>3. CASE l # k
    <3>1. page[l] = LatestReady(l) \/ stale \/ lost \/ \E c \in Build : build[c].pc = "flush" /\ build[c].kind = l
      BY <1>t DEF PageIsLatest
    <3>2. CASE \E c \in Build : build[c].pc = "flush" /\ build[c].kind = l
      BY <1>3, <1>7, <2>1, <3>2
    <3>3. CASE page[l] = LatestReady(l) \/ stale \/ lost
      BY <1>12, <2>1, <2>3, <3>3
    <3> QED
      BY <3>1, <3>2, <3>3
  <2> QED
    BY <2>2, <2>3
<1> QED
  BY <1>c, <1>9, <1>10, <1>11, <1>13 DEF BuildsInv

LEMMA ReadersOfBriefsKeep ==
    ASSUME BuildsInv,
           \/ NextHour
           \/ \E k \in BKind : BriefLeaseEnds(k) \/ PageExpires(k)
           \/ \E r \in BriefReader : AskBrief(r) \/ StoreBrief(r)
           \/ UNCHANGED <<hour, today, brief, holder, build, breader, page, built, lost, stale>>
    PROVE  BuildsInv' /\ StaysUp
<1>t. BuildsTypeOK /\ PageIsLatest /\ BuildsHold /\ RowsAreNamed /\ CopiesAreNamed
  BY DEF BuildsInv
<1>f. brief' = brief /\ build' = build /\ built' = built /\ (lost => lost') /\ (stale => stale')
  <2>1. brief' = brief /\ build' = build /\ built' = built
    BY DEF NextHour, BriefLeaseEnds, PageExpires, AskBrief, StoreBrief
  <2>2. lost' = lost \/ lost'
    BY Zenon DEF NextHour, BriefLeaseEnds, PageExpires, AskBrief, StoreBrief
  <2>3. stale' = stale \/ (stale => stale')
    BY Zenon DEF NextHour, BriefLeaseEnds, PageExpires, AskBrief, StoreBrief
  <2> QED
    BY <2>1, <2>2, <2>3
<1>1. RowsAreNamed' /\ StaysUp
  BY <1>t, <1>f DEF RowsAreNamed, StaysUp
<1>2. \A l \in BKind : LatestReady(l)' = LatestReady(l)
  BY <1>f, ReadiedStays
<1>3. ASSUME page' = page PROVE PageIsLatest'
  BY <1>f, <1>t, <1>2, <1>3, PageStays
<1>4. ASSUME holder' = holder PROVE BuildsHold'
  BY <1>f, <1>t, <1>4 DEF BuildsHold, Row
<1>5. ASSUME breader' = breader PROVE CopiesAreNamed'
  BY <1>t, <1>5 DEF CopiesAreNamed
<1>6. CASE NextHour \/ UNCHANGED <<hour, today, brief, holder, build, breader, page, built, lost, stale>>
  <2>1. holder' = holder /\ breader' = breader /\ page' = page /\ today' \in BDay
    BY <1>6, <1>t DEF NextHour, BuildsTypeOK
  <2>2. BuildsTypeOK'
    BY <1>f, <1>t, <2>1 DEF BuildsTypeOK
  <2> QED
    BY <1>1, <1>3, <1>4, <1>5, <2>1, <2>2 DEF BuildsInv
<1>7. ASSUME NEW k \in BKind, BriefLeaseEnds(k)
      PROVE  BuildsInv'
  <2>1. lost' /\ holder' = [holder EXCEPT ![k] = NoHolder] /\ breader' = breader /\ page' = page /\ today' = today
    BY <1>7 DEF BriefLeaseEnds
  <2>2. BuildsTypeOK'
    BY <1>f, <1>t, <2>1 DEF BuildsTypeOK
  <2>3. BuildsHold'
    BY <2>1 DEF BuildsHold
  <2> QED
    BY <1>1, <1>3, <1>5, <2>1, <2>2, <2>3 DEF BuildsInv
<1>8. ASSUME NEW k \in BKind, PageExpires(k)
      PROVE  BuildsInv'
  <2>1. page' = [page EXCEPT ![k] = NoBrief] /\ holder' = holder /\ breader' = breader /\ today' = today /\ stale' = stale /\ lost' = lost
    BY <1>8 DEF PageExpires
  <2>2. NoBrief \in BriefRow
    BY DEF NoBrief, BriefRow
  <2>3. page' \in [BKind -> BriefRow] /\ \A l \in BKind : page'[l] = page[l] \/ page'[l] = NoBrief
    BY <1>t, <2>1, <2>2 DEF BuildsTypeOK
  <2>4. BuildsTypeOK'
    BY <1>f, <1>t, <2>1, <2>3 DEF BuildsTypeOK
  <2>5. PageIsLatest'
    <3> SUFFICES ASSUME NEW l \in BKind, page'[l] # NoBrief
                 PROVE  /\ page'[l].kind = l
                        /\ \/ page'[l] = LatestReady(l)' \/ stale' \/ lost'
                           \/ \E c \in Build : build'[c].pc = "flush" /\ build'[c].kind = l
      BY DEF PageIsLatest
    <3>1. page'[l] = page[l]
      BY <2>3
    <3>2. page[l].kind = l /\ (page[l] = LatestReady(l) \/ stale \/ lost \/ \E c \in Build : build[c].pc = "flush" /\ build[c].kind = l)
      BY <1>t, <3>1 DEF PageIsLatest
    <3> QED
      BY <1>2, <1>f, <2>1, <3>1, <3>2
  <2> QED
    BY <1>1, <1>4, <1>5, <2>1, <2>4, <2>5 DEF BuildsInv
<1>9. ASSUME NEW r \in BriefReader, AskBrief(r)
      PROVE  BuildsInv'
  <2>1. PICK k : /\ k \in {served_kind, Other(served_kind)} /\ LatestReady(k) # NoBrief
                 /\ breader' = [breader EXCEPT ![r] = [pc |-> k, copy |-> LatestReady(k)]]
    BY <1>9 DEF AskBrief, EntryOf
  <2>2. UNCHANGED <<today, holder, page, stale, lost>>
    BY <1>9 DEF AskBrief
  <2>3. k \in BKind
    BY <2>1 DEF served_kind, Other, BKind
  <2>4. LatestReady(k) \in BriefRow /\ LatestReady(k).kind = k
    BY <1>t, <2>1, <2>3, LatestIsNamed
  <2>5. PICK m : m = [pc |-> k, copy |-> LatestReady(k)]
    OBVIOUS
  <2>6. m \in [pc : BKind, copy : BriefRow] /\ m.pc = k /\ m.copy.kind = k
    BY <2>3, <2>4, <2>5
  <2>7. breader' = [breader EXCEPT ![r] = m]
    BY <2>1, <2>5
  <2>8. BuildsTypeOK'
    BY <1>f, <1>t, <2>2, <2>6, <2>7 DEF BuildsTypeOK
  <2>9. CopiesAreNamed'
    BY <1>t, <2>6, <2>7 DEF CopiesAreNamed, BuildsTypeOK
  <2> QED
    BY <1>1, <1>3, <1>4, <2>2, <2>8, <2>9 DEF BuildsInv
<1>10. ASSUME NEW r \in BriefReader, StoreBrief(r)
      PROVE  BuildsInv'
  <2>1. PICK k, x : k = breader[r].pc /\ x = breader[r].copy
    OBVIOUS
  <2>2. /\ k \in BKind /\ page' = [page EXCEPT ![k] = x]
        /\ stale' = (stale \/ x # LatestReady(x.kind))
        /\ breader' = [breader EXCEPT ![r] = Resting]
        /\ UNCHANGED <<today, holder, lost>>
    BY <1>10, <2>1 DEF StoreBrief
  <2>3. breader[r] \in {Resting} \cup [pc : BKind, copy : BriefRow]
    BY <1>t DEF BuildsTypeOK
  <2>4. x \in BriefRow
    BY <2>1, <2>2, <2>3 DEF Resting, BKind
  <2>5. x.kind = k
    BY <1>t, <2>1, <2>2 DEF CopiesAreNamed
  <2>6. page' \in [BKind -> BriefRow] /\ page'[k] = x /\ \A l \in BKind \ {k} : page'[l] = page[l]
    BY <1>t, <2>2, <2>4 DEF BuildsTypeOK
  <2>7. breader' \in [BriefReader -> {Resting} \cup [pc : BKind, copy : BriefRow]]
    BY <1>t, <2>2 DEF BuildsTypeOK
  <2>8. BuildsTypeOK'
    BY <1>f, <1>t, <2>2, <2>6, <2>7 DEF BuildsTypeOK
  <2>9. Resting.pc \notin BKind
    BY DEF Resting, BKind
  <2>10. CopiesAreNamed'
    BY <1>t, <2>2, <2>9 DEF CopiesAreNamed, BuildsTypeOK
  <2>11. PageIsLatest'
    <3> SUFFICES ASSUME NEW l \in BKind, page'[l] # NoBrief
                 PROVE  /\ page'[l].kind = l
                        /\ \/ page'[l] = LatestReady(l)' \/ stale' \/ lost'
                           \/ \E c \in Build : build'[c].pc = "flush" /\ build'[c].kind = l
      BY DEF PageIsLatest
    <3>1. CASE l = k
      BY <1>2, <2>2, <2>5, <2>6, <3>1
    <3>2. CASE l # k
      <4>1. page[l].kind = l /\ (page[l] = LatestReady(l) \/ stale \/ lost \/ \E c \in Build : build[c].pc = "flush" /\ build[c].kind = l)
        BY <1>t, <2>6, <3>2 DEF PageIsLatest
      <4> QED
        BY <1>2, <1>f, <2>2, <2>6, <3>2, <4>1
    <3> QED
      BY <3>1, <3>2
  <2> QED
    BY <1>1, <1>4, <2>2, <2>8, <2>10, <2>11 DEF BuildsInv
<1> QED
  BY <1>1, <1>6, <1>7, <1>8, <1>9, <1>10

\* The brief and the wrap-up: the choice is balanced, the page is the latest
\* of its kind, and no build takes a live one offline (services/daily_brief_select.py,
\* services/daily_brief.py, get_daily_brief of app/main.py).
THEOREM BriefsStayRight == BriefsSpec => BriefIsRight
<1> DEFINE A == \A d \in BDay, k \in BKind : brief[d][k].status = "ready" => brief'[d][k].status = "ready" \/ lost
<1>1. BuildsInv /\ [BuildsNext \/ SelectNext]_bvars => BuildsInv' /\ A
  <2> SUFFICES ASSUME BuildsInv, [BuildsNext \/ SelectNext]_bvars PROVE BuildsInv' /\ StaysUp
    BY DEF StaysUp
  <2>1. CASE SelectNext \/ UNCHANGED bvars
    BY <2>1, ReadersOfBriefsKeep DEF SelectNext, TakeMostCovered, FillCore, FillFallback, bvars
  <2>2. CASE BuildsNext
    BY <2>2, StartsKeep, EndsKeep, PublishingKeeps, ReadersOfBriefsKeep, Zenon DEF BuildsNext
  <2> QED
    BY <2>1, <2>2
<1>2. ChoiceInv /\ [BuildsNext \/ SelectNext]_bvars => ChoiceInv'
  <2> SUFFICES ASSUME ChoiceInv, [BuildsNext \/ SelectNext]_bvars PROVE ChoiceInv'
    OBVIOUS
  <2>1. CASE SelectNext
    BY <2>1, MostCoveredKeeps, CoreKeeps, FallbackKeeps, Zenon DEF SelectNext
  <2>2. CASE UNCHANGED svars
    <3>1. stories' = stories /\ chosen' = chosen /\ slot' = slot /\ missed' = missed
      BY <2>2 DEF svars
    <3>2. Visited' = Visited /\ StoryPick' = StoryPick /\ FromFallback' = FromFallback
      BY <3>1 DEF Visited, StoryPick, FromFallback
    <3>3. \A c : Untold(c)' <=> Untold(c)
      BY <3>1 DEF Untold
    <3>4. \A c : InCategory(c)' = InCategory(c)
      BY <3>1 DEF InCategory, Eligible, Took
    <3>5. Lacking' = Lacking
      BY <3>2, <3>3 DEF Lacking
    <3>6. ChoiceTypeOK' /\ ToldApart' /\ Balance'
      BY <3>1, <3>2, <3>5 DEF ChoiceInv, ChoiceTypeOK, ToldApart, Balance
    <3> QED
      BY <3>1, <3>2, <3>3, <3>4, <3>6 DEF ChoiceInv
  <2>3. BuildsNext \/ UNCHANGED bvars => UNCHANGED svars
    BY DEF BuildsNext, bvars, svars, NextHour, StartBrief, NotBuilt, AcquireBrief, FailBrief, PublishBrief, FlushBrief, StopBrief,
           BriefLeaseEnds, PageExpires, AskBrief, StoreBrief
  <2> QED
    BY <2>1, <2>2, <2>3
<1>3. BuildsInv => PageIsLatest
  BY DEF BuildsInv
<1> HIDE DEF A
<1>4. BriefsSpec => [][A]_bvars /\ [](BriefIsBalanced /\ PageIsLatest)
  BY InitBuilds, InitChoice, ChosenIsBalanced, <1>1, <1>2, <1>3, PTL DEF BriefsSpec
<1>5. [][A]_bvars => ReadyStaysUp
  BY PTL DEF A, ReadyStaysUp
<1> QED
  BY <1>4, <1>5, PTL DEF BriefIsRight

-----------------------------------------------------------------------------
(***************************************************************************)
(* Timelines.                                                              *)
(*                                                                         *)
(* A run knows the rows it has loaded, and nothing of the others changes   *)
(* but by another run's commit (crossed) or by the desk (its Marks).  The  *)
(* chains it has given a narrative do not overlap (their clusters are      *)
(* used), so that a row is written for one of them at most: a row at an    *)
(* anchor that was tried tells the chain tried there.                      *)
(***************************************************************************)
TimelineRow ==
    [anchor : Known, pick : BOOLEAN, coherent : {"unjudged", "no", "yes"}, of : SUBSET Known, text : Nat, voice : Nat,
     top : BOOLEAN, dropped : BOOLEAN]

\* Rows by their ids, as a session has them.
RowsById(s) == [s -> TimelineRow]

\* The session of a run.
RunSession ==
    [pc : {"scan"}, chains : Chains, start : UNION {[s -> BOOLEAN] : s \in SUBSET Nat}, picks : SUBSET Nat,
     found : Nat, scanned : Nat, filled : SUBSET Known, tried : SUBSET Known, used : SUBSET Known,
     passed : SUBSET Nat, failed : SUBSET Nat, crossed : BOOLEAN, open : SUBSET SUBSET Known,
     loaded : UNION {RowsById(s) : s \in SUBSET Nat}, mine : UNION {RowsById(s) : s \in SUBSET Nat}, fresh : SUBSET TimelineRow]

\* What a narration has read.
NarrationOf == [pc : {"voicing", "save"}, row : Nat, text : Nat]

\* What the state consists of.
TimelinesType ==
    /\ feature \in Seq(TimelineRow) /\ texts \in Nat
    /\ gen \in [Generation -> {Waits} \cup RunSession]
    /\ narrator \in [Narrator -> {Waits} \cup NarrationOf]
    /\ last \in [filled : SUBSET Nat, moved : SUBSET Nat, failed : SUBSET Nat]
    /\ mute \subseteq Nat /\ over \in BOOLEAN

\* One row of an anchor, and no text is from the future.
RowsApart ==
    /\ \A i, j \in Id : i # j => feature[i].anchor # feature[j].anchor
    /\ \A i \in Id : feature[i].text <= texts /\ feature[i].voice <= texts
    /\ \A n \in Narrator : narrator[n] # Waits => narrator[n].row \in Id /\ narrator[n].text <= texts
    /\ last.filled \subseteq Id

\* A run and the rows it has loaded.
SessionKnows(m, now) ==
    /\ DOMAIN m.loaded = DOMAIN m.mine /\ DOMAIN m.mine \subseteq Id /\ DOMAIN m.start \subseteq Id
    /\ m.picks \subseteq DOMAIN m.mine /\ m.tried \subseteq m.used /\ m.filled \subseteq m.tried
    /\ \A i \in DOMAIN m.mine :
        /\ m.loaded[i].anchor = feature[i].anchor /\ m.loaded[i].coherent = feature[i].coherent
        /\ m.loaded[i].of = feature[i].of /\ m.loaded[i].text = feature[i].text
        /\ m.loaded[i].top = feature[i].top /\ m.loaded[i].dropped = feature[i].dropped
        /\ m.loaded[i].voice <= now /\ m.mine[i].text <= now
        /\ m.mine[i].top = m.loaded[i].top /\ m.mine[i].dropped = m.loaded[i].dropped
        /\ m.mine[i].anchor = m.loaded[i].anchor \/ (m.mine[i].anchor \in m.tried /\ m.loaded[i].anchor \in m.used)
        /\ m.mine[i].text = m.loaded[i].text \/ m.loaded[i].anchor \in m.used
        /\ IF m.mine[i].text = m.loaded[i].text THEN m.mine[i].voice = m.loaded[i].voice
           ELSE m.loaded[i].voice < m.mine[i].text /\ m.mine[i].voice \in {m.loaded[i].voice, m.mine[i].text}

\* What the rows written so far tell.
ToldRows(m) == {i \in DOMAIN m.mine : m.mine[i].anchor \in m.tried /\ i \notin m.failed}
\* The narratives of a run do not overlap, and its new rows take a place if they are coherent.
SessionTells(m) ==
    /\ \A i \in DOMAIN m.start : feature[i].anchor \in m.tried => i \in DOMAIN m.mine
    /\ \A i \in ToldRows(m) : m.mine[i].of \subseteq m.used
    /\ \A i, j \in ToldRows(m) : i # j => m.mine[i].of \cap m.mine[j].of = {}
    /\ \A f \in m.fresh : f.top /\ ~f.dropped /\ f.of \subseteq m.used /\ (f.coherent = "yes" => f.anchor \in m.filled)
    /\ \A f \in m.fresh : \A i \in ToldRows(m) : f.of \cap m.mine[i].of = {}
    /\ \A f, h \in m.fresh : f # h => f.of \cap h.of = {}

\* The picks the run began with.
SessionKeepsPicks(m) ==
    \A i \in DOMAIN m.start : m.start[i] =>
        /\ i \in DOMAIN m.mine
        /\ i \in m.picks => m.mine[i].pick
        /\ i \notin m.picks => \/ i \in m.passed
                              \/ /\ m.mine[i].pick
                                 /\ feature[i].anchor \in m.used \/ \A k \in DOMAIN m.chains : feature[i].anchor \notin m.chains[k]

\* What holds of a session whatever the others do.
SessionSound(m, now) ==
    /\ m.open \subseteq {m.chains[k] : k \in DOMAIN m.chains}
    /\ IsFiniteSet(m.fresh) /\ \A f \in m.fresh : f.text <= now /\ f.voice <= now
    /\ \A i \in DOMAIN m.mine : m.mine[i].text <= now /\ m.mine[i].voice <= now

\* A session nobody has crossed knows its rows and keeps the picks.
SessionFits(m) ==
    m # Waits => /\ SessionSound(m, texts)
                 /\ ~m.crossed => SessionKnows(m, texts) /\ SessionTells(m) /\ SessionKeepsPicks(m)
\* So do all of them.
SessionsAreFit == \A m \in {gen[g] : g \in Generation} : SessionFits(m)

\* The inductive invariant.
TimelinesInv == TimelinesType /\ RowsApart /\ SessionsAreFit /\ TopIsOfTheRun /\ VoiceIsOfThePage

(* A set of numbers with a bound has a latest one.                         *)
LEMMA LatestIs ==
    ASSUME NEW s, NEW b \in Nat, s \subseteq 0 .. b, s # {}
    PROVE  Latest(s) \in s /\ \A y \in s : y <= Latest(s)
<1> DEFINE T == {b - x : x \in s}
<1>1. T \subseteq Nat /\ T # {}
  OBVIOUS
<1>2. PICK n \in T : \A o \in T : n <= o
  BY <1>1, LeastOfNumbers
<1>3. PICK x \in s : n = b - x
  BY <1>2
<1>4. \A y \in s : y <= x
  <2> SUFFICES ASSUME NEW y \in s PROVE y <= x
    OBVIOUS
  <2>1. n <= b - y
    BY <1>2
  <2> QED
    BY <2>1, <1>3
<1>5. \E z \in s : \A y \in s : y <= z
  BY <1>4
<1> QED
  BY <1>5 DEF Latest

(* The groups of a list: more than one cluster, and one is the newest.     *)
LEMMA ChainIs ==
    ASSUME NEW chains \in Chains, NEW k \in DOMAIN chains
    PROVE  /\ chains[k] \subseteq Known /\ chains[k] # {} /\ ~(Cardinality(chains[k]) <= 1)
           /\ Latest(chains[k]) \in chains[k]
<1>0. Newest \in Nat
  BY TimelinesAssumption DEF TimelinesAssumption
<1>1. chains[k] \subseteq 1 .. Newest /\ Cardinality(chains[k]) > 1
  BY TimelinesAssumption DEF TimelinesAssumption
<1>2. IsFiniteSet(chains[k])
  <2>1. IsFiniteSet(1 .. Newest)
    BY <1>0, FS_Interval
  <2> QED
    BY <1>1, <2>1, FS_Subset
<1>3. Cardinality(chains[k]) \in Nat
  BY <1>2, FS_CardinalityType
<1>4. chains[k] # {}
  <2> SUFFICES ASSUME chains[k] = {} PROVE FALSE
    OBVIOUS
  <2>1. Cardinality({}) = 0
    BY FS_EmptySet
  <2> QED
    BY <1>1, <2>1
<1>5. chains[k] \subseteq 0 .. Newest
  BY <1>0, <1>1
<1> QED
  BY <1>0, <1>1, <1>3, <1>4, <1>5, LatestIs DEF Known

(* The chain of a cluster is one of the groups it is in, if there is any.  *)
LEMMA AssignedIs ==
    ASSUME NEW chains \in Chains, NEW c
    PROVE  \/ Assigned(chains, c) = {} /\ \A k \in DOMAIN chains : c \notin chains[k]
           \/ \E k \in DOMAIN chains : Assigned(chains, c) = chains[k] /\ c \in chains[k]
<1> DEFINE in == {k \in DOMAIN chains : c \in chains[k]}
<1>1. DOMAIN chains = 1 .. Len(chains) /\ Len(chains) \in Nat
  BY TimelinesAssumption DEF TimelinesAssumption
<1>2. in \subseteq 0 .. Len(chains)
  BY <1>1
<1>3. CASE in = {}
  BY <1>3 DEF Assigned
<1>4. CASE in # {}
  <2>1. Latest(in) \in in
    BY <1>1, <1>2, <1>4, LatestIs
  <2>2. Assigned(chains, c) = chains[Latest(in)]
    BY <1>4 DEF Assigned
  <2> QED
    BY <2>1, <2>2
<1> QED
  BY <1>3, <1>4

-----------------------------------------------------------------------------
(* What the steps make of a session.                                       *)

\* One more row keeps a session well typed.
LEMMA RowsJoin ==
    ASSUME NEW r \in UNION {RowsById(s) : s \in SUBSET Nat}, NEW i \in Nat, NEW q,
           DOMAIN q = DOMAIN r \cup {i}, q = [x \in DOMAIN q |-> q[x]], \A x \in DOMAIN q : q[x] \in TimelineRow
    PROVE  q \in UNION {RowsById(s) : s \in SUBSET Nat}
<1>1. PICK s \in SUBSET Nat : r \in RowsById(s)
  OBVIOUS
<1>2. DOMAIN q \in SUBSET Nat
  BY <1>1 DEF RowsById
<1>3. q \in RowsById(DOMAIN q)
  BY Zenon DEF RowsById
<1> QED
  BY <1>2, <1>3, Zenon

\* What a session has is rows.
LEMMA RowsAre ==
    ASSUME NEW r \in UNION {RowsById(s) : s \in SUBSET Nat}
    PROVE  DOMAIN r \subseteq Nat /\ \A x \in DOMAIN r : r[x] \in TimelineRow
  BY DEF RowsById

\* A session that has loaded a row and made f of it.
LEMMA LoadsIs ==
    ASSUME TimelinesType, NEW m \in RunSession, NEW i \in Id, NEW f \in TimelineRow
    PROVE  LET l == Loads(m, i, f) IN
           /\ l \in RunSession /\ l.chains = m.chains /\ l.start = m.start /\ l.picks = m.picks /\ l.filled = m.filled
           /\ l.tried = m.tried /\ l.used = m.used /\ l.passed = m.passed /\ l.failed = m.failed /\ l.crossed = m.crossed
           /\ l.open = m.open /\ l.fresh = m.fresh
           /\ DOMAIN l.loaded = DOMAIN m.loaded \cup {i} /\ DOMAIN l.mine = DOMAIN m.mine \cup {i}
           /\ \A x \in DOMAIN l.loaded : l.loaded[x] = IF x \in DOMAIN m.loaded THEN m.loaded[x] ELSE feature[x]
           /\ \A x \in DOMAIN l.mine : l.mine[x] = IF x = i THEN f ELSE m.mine[x]
<1> DEFINE q == [x \in DOMAIN m.loaded \cup {i} |-> IF x \in DOMAIN m.loaded THEN m.loaded[x] ELSE feature[x]]
           w == [x \in DOMAIN m.mine \cup {i} |-> IF x = i THEN f ELSE m.mine[x]]
<1>1. Loads(m, i, f) = [m EXCEPT !.loaded = q, !.mine = w]
  BY DEF Loads
<1>2. i \in Nat /\ feature[i] \in TimelineRow
  BY DEF TimelinesType, Id
<1>3. /\ m.loaded \in UNION {RowsById(s) : s \in SUBSET Nat}
      /\ m.mine \in UNION {RowsById(s) : s \in SUBSET Nat}
  BY DEF RunSession
<1>4. q \in UNION {RowsById(s) : s \in SUBSET Nat}
  <2>1. DOMAIN q = DOMAIN m.loaded \cup {i} /\ q = [x \in DOMAIN q |-> q[x]]
    OBVIOUS
  <2>2. \A x \in DOMAIN q : q[x] \in TimelineRow
    BY <1>2, <1>3, RowsAre
  <2> HIDE DEF q
  <2> QED
    BY <1>2, <1>3, <2>1, <2>2, RowsJoin
<1>5. w \in UNION {RowsById(s) : s \in SUBSET Nat}
  <2>1. DOMAIN w = DOMAIN m.mine \cup {i} /\ w = [x \in DOMAIN w |-> w[x]]
    OBVIOUS
  <2>2. \A x \in DOMAIN w : w[x] \in TimelineRow
    BY <1>2, <1>3, RowsAre
  <2> HIDE DEF w
  <2> QED
    BY <1>2, <1>3, <2>1, <2>2, RowsJoin
<1>6. /\ DOMAIN q = DOMAIN m.loaded \cup {i} /\ DOMAIN w = DOMAIN m.mine \cup {i}
      /\ \A x \in DOMAIN q : q[x] = IF x \in DOMAIN m.loaded THEN m.loaded[x] ELSE feature[x]
      /\ \A x \in DOMAIN w : w[x] = IF x = i THEN f ELSE m.mine[x]
  OBVIOUS
<1> HIDE DEF q, w
<1>7. /\ Loads(m, i, f) \in RunSession /\ Loads(m, i, f).loaded = q /\ Loads(m, i, f).mine = w
  BY <1>1, <1>4, <1>5, ZenonT(60) DEF RunSession
<1>8. LET l == Loads(m, i, f) IN
      /\ l.chains = m.chains /\ l.start = m.start /\ l.picks = m.picks /\ l.filled = m.filled
      /\ l.tried = m.tried /\ l.used = m.used /\ l.passed = m.passed /\ l.failed = m.failed /\ l.crossed = m.crossed
      /\ l.open = m.open /\ l.fresh = m.fresh
  BY <1>1 DEF RunSession
<1> QED
  BY <1>6, <1>7, <1>8

\* A chain of the run that no other has met.
IsNewChain(m, chain) == chain \in {m.chains[k] : k \in DOMAIN m.chains} /\ chain \cap m.used = {}

\* A session that has given a new chain its narrative.
LEMMA GivenIs ==
    ASSUME NEW m \in RunSession, NEW chain, IsNewChain(m, chain), NEW pick \in BOOLEAN, NEW coherent \in BOOLEAN
    PROVE  LET l == Given(m, chain, pick, coherent) IN
           /\ l \in RunSession /\ l.chains = m.chains /\ l.start = m.start /\ l.picks = m.picks
           /\ m.filled \subseteq l.filled /\ l.filled \subseteq m.filled \cup {Latest(chain)}
           /\ coherent => Latest(chain) \in l.filled
           /\ l.tried = m.tried \cup {Latest(chain)} /\ l.used = m.used \cup chain
           /\ l.passed = m.passed /\ l.failed = m.failed /\ l.crossed = m.crossed
           /\ l.open = m.open /\ l.fresh = m.fresh /\ l.loaded = m.loaded /\ l.mine = m.mine
           /\ chain \subseteq Known /\ Latest(chain) \in chain
<1>1. m.chains \in Chains
  BY DEF RunSession
<1>2. chain \subseteq Known /\ Latest(chain) \in chain
  BY <1>1, ChainIs DEF IsNewChain
<1>3. /\ m.filled \subseteq Known /\ m.tried \subseteq Known /\ m.used \subseteq Known /\ m.found \in Nat
  BY DEF RunSession
<1> DEFINE filled == IF pick \/ coherent THEN m.filled \cup {Latest(chain)} ELSE m.filled
           found == IF pick \/ coherent THEN m.found + 1 ELSE m.found
<1>4. filled \in SUBSET Known /\ found \in Nat /\ m.tried \cup {Latest(chain)} \in SUBSET Known /\ m.used \cup chain \in SUBSET Known
  BY <1>2, <1>3
<1>5. Given(m, chain, pick, coherent) =
        [m EXCEPT !.tried = m.tried \cup {Latest(chain)}, !.used = m.used \cup chain, !.filled = filled, !.found = found]
  BY DEF Given, RunSession
<1> HIDE DEF filled, found
<1>6. LET l == Given(m, chain, pick, coherent) IN
      /\ l \in RunSession /\ l.chains = m.chains /\ l.start = m.start /\ l.picks = m.picks /\ l.filled = filled
      /\ l.tried = m.tried \cup {Latest(chain)} /\ l.used = m.used \cup chain
      /\ l.passed = m.passed /\ l.failed = m.failed /\ l.crossed = m.crossed
      /\ l.open = m.open /\ l.fresh = m.fresh /\ l.loaded = m.loaded /\ l.mine = m.mine
  BY <1>4, <1>5, ZenonT(60) DEF RunSession
<1> QED
  BY <1>2, <1>6 DEF filled

\* A row that no chain of the run has reached is as the run would load it.
LEMMA SeenIs ==
    ASSUME TimelinesType, RowsApart, NEW m \in RunSession, SessionKnows(m, texts), NEW i \in Id,
           feature[i].anchor \notin m.used
    PROVE  /\ Seen(m, i) \in TimelineRow /\ feature[i] \in TimelineRow
           /\ Seen(m, i).anchor = feature[i].anchor /\ Seen(m, i).text = feature[i].text
           /\ Seen(m, i).top = feature[i].top /\ Seen(m, i).dropped = feature[i].dropped
           /\ Seen(m, i).text <= texts
           /\ i \in DOMAIN m.mine => Seen(m, i) = m.mine[i] /\ m.mine[i].voice = m.loaded[i].voice
           /\ i \notin DOMAIN m.mine => Seen(m, i) = feature[i]
<1>1. feature[i] \in TimelineRow
  BY DEF TimelinesType, Id
<1>2. CASE i \notin DOMAIN m.mine
  BY <1>1, <1>2 DEF Seen, RowsApart
<1>3. CASE i \in DOMAIN m.mine
  <2>1. m.mine[i] \in TimelineRow
    BY <1>3, RowsAre DEF RunSession
  <2>2. Seen(m, i) = m.mine[i]
    BY <1>3 DEF Seen
  <2>3. m.mine[i].anchor = m.loaded[i].anchor /\ m.mine[i].text = m.loaded[i].text
    BY <1>3 DEF SessionKnows
  <2> QED
    BY <1>1, <1>3, <2>1, <2>2, <2>3 DEF SessionKnows
<1> QED
  BY <1>2, <1>3

\* The row of a new chain, and that there is none at the new anchor but it.
LEMMA ExistingIs ==
    ASSUME TimelinesType, RowsApart, NEW m \in RunSession, SessionKnows(m, texts), NEW chain, IsNewChain(m, chain)
    PROVE  /\ \A i \in Existing(m, chain) :
                 /\ i \in Id /\ feature[i].anchor \in chain
                 /\ \A j \in Id : feature[j].anchor = Latest(chain) => j = i
           /\ Existing(m, chain) = {} => \A j \in Id : feature[j].anchor # Latest(chain)
<1> DEFINE matches == {i \in Id : feature[i].anchor \in chain}
           exact == {i \in matches : Seen(m, i).anchor = Latest(chain)}
<1>1. Latest(chain) \in chain
  <2>1. m.chains \in Chains /\ \E k \in DOMAIN m.chains : chain = m.chains[k]
    BY DEF IsNewChain, RunSession
  <2> QED
    BY <2>1, ChainIs
<1>2. \A i \in matches : Seen(m, i).anchor = feature[i].anchor
  BY SeenIs DEF IsNewChain
<1>3. \A j \in Id : feature[j].anchor = Latest(chain) => j \in exact
  BY <1>1, <1>2
<1>4. \A i \in exact : i \in Id /\ feature[i].anchor = Latest(chain)
  BY <1>2
<1>5. /\ Existing(m, chain) \subseteq matches
      /\ exact # {} => Existing(m, chain) = exact
  BY DEF Existing
<1>6. \A i \in exact : \A j \in Id : feature[j].anchor = Latest(chain) => j = i
  BY <1>4 DEF RowsApart
<1> QED
  BY <1>3, <1>5, <1>6

\* A session that has given a new chain a narrative, or the row it has.
GaveChain(m, l, chain) ==
    /\ l.chains = m.chains /\ l.start = m.start /\ l.picks = m.picks /\ l.open = m.open
    /\ l.passed = m.passed /\ l.crossed = m.crossed
    /\ l.tried = m.tried \cup {Latest(chain)} /\ l.used = m.used \cup chain
    /\ m.filled \subseteq l.filled /\ l.filled \subseteq m.filled \cup {Latest(chain)}

\* It wrote f for row i.
WroteRow(m, l, i, f) ==
    /\ l.fresh = m.fresh /\ m.failed \subseteq l.failed /\ l.failed \subseteq m.failed \cup {i}
    /\ DOMAIN l.loaded = DOMAIN m.loaded \cup {i} /\ DOMAIN l.mine = DOMAIN m.mine \cup {i}
    /\ \A x \in DOMAIN l.loaded : l.loaded[x] = IF x \in DOMAIN m.loaded THEN m.loaded[x] ELSE feature[x]
    /\ \A x \in DOMAIN l.mine : l.mine[x] = IF x = i THEN f ELSE m.mine[x]

\* The row as it was, told of the chain, or with a narrative that failed.
RowTells(m, l, i, f, chain, now) ==
    LET s == Seen(m, i) IN
    /\ f \in TimelineRow /\ f.top = s.top /\ f.dropped = s.dropped /\ f.anchor \in {s.anchor, Latest(chain)}
    /\ f.anchor = Latest(chain) /\ i \notin l.failed => f.of = chain
    /\ \/ f.text = s.text /\ f.voice = s.voice
       \/ texts < f.text /\ f.text <= now /\ f.voice \in {s.voice, f.text}

\* A row written for a new chain keeps the session fit.
LEMMA WriteFits ==
    ASSUME TimelinesType, RowsApart, NEW m \in RunSession, SessionKnows(m, texts), SessionTells(m),
           NEW chain, IsNewChain(m, chain), NEW i \in Existing(m, chain), NEW f, NEW now \in Nat, texts <= now,
           NEW l \in RunSession, GaveChain(m, l, chain), WroteRow(m, l, i, f), RowTells(m, l, i, f, chain, now)
    PROVE  SessionKnows(l, now) /\ SessionTells(l)
<1>1. /\ i \in Id /\ feature[i].anchor \in chain
      /\ \A j \in Id : feature[j].anchor = Latest(chain) => j = i
  BY ExistingIs
<1>2. Latest(chain) \in chain /\ chain \cap m.used = {} /\ m.tried \subseteq m.used
  <2>1. m.chains \in Chains /\ \E k \in DOMAIN m.chains : chain = m.chains[k]
    BY DEF IsNewChain, RunSession
  <2>2. Latest(chain) \in chain
    BY <2>1, ChainIs
  <2> QED
    BY <2>2 DEF IsNewChain, SessionKnows
<1>3. /\ Seen(m, i) \in TimelineRow /\ feature[i] \in TimelineRow
      /\ Seen(m, i).anchor = feature[i].anchor /\ Seen(m, i).text = feature[i].text
      /\ Seen(m, i).top = feature[i].top /\ Seen(m, i).dropped = feature[i].dropped
      /\ i \in DOMAIN m.mine => Seen(m, i) = m.mine[i] /\ m.mine[i].voice = m.loaded[i].voice
      /\ i \notin DOMAIN m.mine => Seen(m, i) = feature[i]
  <2>1. feature[i].anchor \notin m.used
    BY <1>1, <1>2
  <2> QED
    BY <1>1, <2>1, SeenIs
<1>4. \A j \in DOMAIN l.mine : j # i => j \in DOMAIN m.mine /\ l.mine[j] = m.mine[j] /\ l.loaded[j] = m.loaded[j]
  BY DEF WroteRow, SessionKnows
<1>5. l.mine[i] = f /\ i \in DOMAIN l.mine /\ l.loaded[i] = IF i \in DOMAIN m.mine THEN m.loaded[i] ELSE feature[i]
  BY DEF WroteRow, SessionKnows
<1>6. \A j \in DOMAIN m.mine : j \in Id /\ m.mine[j] \in TimelineRow /\ m.loaded[j] \in TimelineRow /\ feature[j] \in TimelineRow
  <2>1. \A j \in Id : feature[j] \in TimelineRow
    BY DEF TimelinesType, Id
  <2>2. /\ \A j \in DOMAIN m.mine : m.mine[j] \in TimelineRow
        /\ \A j \in DOMAIN m.loaded : m.loaded[j] \in TimelineRow
    BY RowsAre DEF RunSession
  <2> QED
    BY <2>1, <2>2 DEF SessionKnows
<1>7. texts \in Nat /\ feature[i].voice <= texts /\ feature[i].text <= texts
  BY <1>1 DEF RowsApart, TimelinesType
<1>8. SessionKnows(l, now)
  <2>1. /\ DOMAIN l.loaded = DOMAIN l.mine /\ DOMAIN l.mine \subseteq Id /\ DOMAIN l.start \subseteq Id
        /\ l.picks \subseteq DOMAIN l.mine /\ l.tried \subseteq l.used /\ l.filled \subseteq l.tried
    BY <1>1, <1>2 DEF SessionKnows, GaveChain, WroteRow
  <2> DEFINE KnowsRow(j) ==
        /\ l.loaded[j].anchor = feature[j].anchor /\ l.loaded[j].coherent = feature[j].coherent
        /\ l.loaded[j].of = feature[j].of /\ l.loaded[j].text = feature[j].text
        /\ l.loaded[j].top = feature[j].top /\ l.loaded[j].dropped = feature[j].dropped
        /\ l.loaded[j].voice <= now /\ l.mine[j].text <= now
        /\ l.mine[j].top = l.loaded[j].top /\ l.mine[j].dropped = l.loaded[j].dropped
        /\ l.mine[j].anchor = l.loaded[j].anchor \/ (l.mine[j].anchor \in l.tried /\ l.loaded[j].anchor \in l.used)
        /\ l.mine[j].text = l.loaded[j].text \/ l.loaded[j].anchor \in l.used
        /\ IF l.mine[j].text = l.loaded[j].text THEN l.mine[j].voice = l.loaded[j].voice
           ELSE l.loaded[j].voice < l.mine[j].text /\ l.mine[j].voice \in {l.loaded[j].voice, l.mine[j].text}
  <2>2. ASSUME NEW j \in DOMAIN l.mine, j # i PROVE KnowsRow(j)
    <3>1. j \in DOMAIN m.mine /\ l.mine[j] = m.mine[j] /\ l.loaded[j] = m.loaded[j]
      BY <1>4, <2>2
    <3>2. m.loaded[j].voice <= now /\ m.mine[j].text <= now
      BY <1>6, <1>7, <3>1 DEF SessionKnows, TimelineRow
    <3>3. m.tried \subseteq l.tried /\ m.used \subseteq l.used
      BY DEF GaveChain
    <3> QED
      BY <3>1, <3>2, <3>3 DEF SessionKnows
  <2>3. /\ l.loaded[i].anchor = feature[i].anchor /\ l.loaded[i].coherent = feature[i].coherent
        /\ l.loaded[i].of = feature[i].of /\ l.loaded[i].text = feature[i].text
        /\ l.loaded[i].top = feature[i].top /\ l.loaded[i].dropped = feature[i].dropped
        /\ l.loaded[i].voice <= texts /\ l.loaded[i].voice = Seen(m, i).voice
    BY <1>3, <1>5, <1>7 DEF SessionKnows
  <2>4. /\ f.top = feature[i].top /\ f.dropped = feature[i].dropped
        /\ f.anchor = feature[i].anchor \/ (f.anchor \in l.tried /\ feature[i].anchor \in l.used)
    BY <1>1, <1>3 DEF RowTells, GaveChain
  <2>5. l.loaded[i].voice <= now /\ f.text <= now
    BY <1>3, <1>7, <2>3 DEF RowTells, TimelineRow
  <2>6. IF f.text = l.loaded[i].text THEN f.voice = l.loaded[i].voice
        ELSE l.loaded[i].voice < f.text /\ f.voice \in {l.loaded[i].voice, f.text}
    BY <1>3, <1>7, <2>3 DEF RowTells, TimelineRow
  <2>7. feature[i].anchor \in l.used
    BY <1>1 DEF GaveChain
  <2>8. KnowsRow(i)
    BY <1>5, <2>3, <2>4, <2>5, <2>6, <2>7
  <2>9. \A j \in DOMAIN l.mine : KnowsRow(j)
    BY <2>2, <2>8
  <2> QED
    BY <2>1, <2>9 DEF SessionKnows
<1>9. \A j \in ToldRows(l) : (j \in ToldRows(m) /\ j # i /\ l.mine[j] = m.mine[j]) \/ (j = i /\ l.mine[j].of = chain)
  <2> SUFFICES ASSUME NEW j \in ToldRows(l) PROVE (j \in ToldRows(m) /\ j # i /\ l.mine[j] = m.mine[j]) \/ (j = i /\ l.mine[j].of = chain)
    OBVIOUS
  <2>1. j \in DOMAIN l.mine /\ l.mine[j].anchor \in l.tried /\ j \notin l.failed
    BY DEF ToldRows
  <2>2. CASE j = i
    BY <1>1, <1>2, <1>3, <1>5, <2>1, <2>2 DEF RowTells, GaveChain
  <2>3. CASE j # i
    <3>1. j \in DOMAIN m.mine /\ l.mine[j] = m.mine[j] /\ j \notin m.failed
      BY <1>4, <2>1, <2>3 DEF WroteRow
    <3>2. CASE m.mine[j].anchor \in m.tried
      BY <2>3, <3>1, <3>2 DEF ToldRows
    <3>3. CASE m.mine[j].anchor = Latest(chain) /\ m.mine[j].anchor \notin m.tried
      <4>1. m.loaded[j].anchor = Latest(chain) /\ feature[j].anchor = m.loaded[j].anchor
        BY <3>1, <3>3 DEF SessionKnows
      <4> QED
        BY <1>1, <1>6, <2>3, <3>1, <4>1
    <3> QED
      BY <2>1, <3>1, <3>2, <3>3 DEF GaveChain
  <2> QED
    BY <2>2, <2>3
<1>10. SessionTells(l)
  <2>1. \A j \in DOMAIN l.start : feature[j].anchor \in l.tried => j \in DOMAIN l.mine
    <3> SUFFICES ASSUME NEW j \in DOMAIN l.start, feature[j].anchor \in l.tried PROVE j \in DOMAIN l.mine
      OBVIOUS
    <3>1. j \in DOMAIN m.start /\ j \in Id
      BY DEF GaveChain, SessionKnows
    <3>2. feature[j].anchor \in m.tried \/ feature[j].anchor = Latest(chain)
      BY DEF GaveChain
    <3> QED
      BY <1>1, <3>1, <3>2 DEF SessionTells, WroteRow
  <2>2. \A j \in ToldRows(m) : m.mine[j].of \subseteq m.used /\ m.mine[j].of \cap chain = {}
    BY <1>2 DEF SessionTells
  <2>3. \A h \in m.fresh : h.of \subseteq m.used /\ h.of \cap chain = {}
    BY <1>2 DEF SessionTells
  <2>4. \A j \in ToldRows(l) : l.mine[j].of \subseteq l.used
    BY <1>9, <2>2 DEF GaveChain
  <2>5. \A j, k \in ToldRows(l) : j # k => l.mine[j].of \cap l.mine[k].of = {}
    <3> SUFFICES ASSUME NEW j \in ToldRows(l), NEW k \in ToldRows(l), j # k PROVE l.mine[j].of \cap l.mine[k].of = {}
      OBVIOUS
    <3>1. CASE j \in ToldRows(m) /\ k \in ToldRows(m) /\ l.mine[j] = m.mine[j] /\ l.mine[k] = m.mine[k]
      BY <3>1 DEF SessionTells
    <3> QED
      BY <1>9, <2>2, <3>1
  <2>6. \A h \in l.fresh : h.top /\ ~h.dropped /\ h.of \subseteq l.used /\ (h.coherent = "yes" => h.anchor \in l.filled)
    BY DEF GaveChain, WroteRow, SessionTells
  <2>7. \A h \in l.fresh : \A j \in ToldRows(l) : h.of \cap l.mine[j].of = {}
    <3> SUFFICES ASSUME NEW h \in l.fresh, NEW j \in ToldRows(l) PROVE h.of \cap l.mine[j].of = {}
      OBVIOUS
    <3>1. h \in m.fresh
      BY DEF WroteRow
    <3>2. CASE j \in ToldRows(m) /\ l.mine[j] = m.mine[j]
      BY <3>1, <3>2 DEF SessionTells
    <3> QED
      BY <1>9, <2>3, <3>1, <3>2
  <2>8. \A h, k \in l.fresh : h # k => h.of \cap k.of = {}
    BY DEF WroteRow, SessionTells
  <2> QED
    BY <2>1, <2>4, <2>5, <2>6, <2>7, <2>8 DEF SessionTells
<1> QED
  BY <1>8, <1>10

\* It has a new row f.
AddedRow(m, l, f) ==
    l.loaded = m.loaded /\ l.mine = m.mine /\ l.failed = m.failed /\ l.fresh = m.fresh \cup {f}

\* So does a new row.
LEMMA AddFits ==
    ASSUME TimelinesType, RowsApart, NEW m \in RunSession, SessionKnows(m, texts), SessionTells(m),
           NEW chain, IsNewChain(m, chain), Existing(m, chain) = {}, NEW f \in TimelineRow, NEW now \in Nat, texts <= now,
           NEW l \in RunSession, GaveChain(m, l, chain), AddedRow(m, l, f),
           f.top, ~f.dropped, f.of \subseteq chain, f.coherent = "yes" => Latest(chain) \in l.filled, f.anchor = Latest(chain)
    PROVE  SessionKnows(l, now) /\ SessionTells(l)
<1>1. \A j \in Id : feature[j].anchor # Latest(chain)
  BY ExistingIs
<1>2. Latest(chain) \in chain /\ chain \cap m.used = {} /\ m.tried \subseteq m.used
  <2>1. m.chains \in Chains /\ \E k \in DOMAIN m.chains : chain = m.chains[k]
    BY DEF IsNewChain, RunSession
  <2>2. Latest(chain) \in chain
    BY <2>1, ChainIs
  <2> QED
    BY <2>2 DEF IsNewChain, SessionKnows
<1>3. \A j \in DOMAIN m.mine : j \in Id /\ m.mine[j] \in TimelineRow /\ m.loaded[j] \in TimelineRow /\ feature[j] \in TimelineRow
  <2>1. \A j \in Id : feature[j] \in TimelineRow
    BY DEF TimelinesType, Id
  <2>2. /\ \A j \in DOMAIN m.mine : m.mine[j] \in TimelineRow
        /\ \A j \in DOMAIN m.loaded : m.loaded[j] \in TimelineRow
    BY RowsAre DEF RunSession
  <2> QED
    BY <2>1, <2>2 DEF SessionKnows
<1>4. texts \in Nat
  BY DEF TimelinesType
<1>5. SessionKnows(l, now)
  <2>1. /\ DOMAIN l.loaded = DOMAIN l.mine /\ DOMAIN l.mine \subseteq Id /\ DOMAIN l.start \subseteq Id
        /\ l.picks \subseteq DOMAIN l.mine /\ l.tried \subseteq l.used /\ l.filled \subseteq l.tried
    BY <1>2 DEF SessionKnows, GaveChain, AddedRow
  <2>2. ASSUME NEW j \in DOMAIN l.mine
        PROVE  l.loaded[j].voice <= now /\ l.mine[j].text <= now
    BY <1>3, <1>4 DEF SessionKnows, TimelineRow, AddedRow
  <2>3. m.tried \subseteq l.tried /\ m.used \subseteq l.used
    BY DEF GaveChain
  <2> QED
    BY <2>1, <2>2, <2>3 DEF SessionKnows, AddedRow
<1>6. \A j \in ToldRows(l) : j \in ToldRows(m) /\ l.mine[j] = m.mine[j]
  <2> SUFFICES ASSUME NEW j \in ToldRows(l) PROVE j \in ToldRows(m) /\ l.mine[j] = m.mine[j]
    OBVIOUS
  <2>1. j \in DOMAIN m.mine /\ m.mine[j].anchor \in l.tried /\ j \notin m.failed /\ l.mine[j] = m.mine[j]
    BY DEF ToldRows, AddedRow
  <2>2. CASE m.mine[j].anchor \notin m.tried
    <3>1. m.mine[j].anchor = Latest(chain) /\ m.mine[j].anchor = feature[j].anchor
      BY <2>1, <2>2 DEF SessionKnows, GaveChain
    <3> QED
      BY <1>1, <1>3, <2>1, <3>1
  <2> QED
    BY <2>1, <2>2 DEF ToldRows
<1>7. SessionTells(l)
  <2>1. \A j \in DOMAIN l.start : feature[j].anchor \in l.tried => j \in DOMAIN l.mine
    <3> SUFFICES ASSUME NEW j \in DOMAIN l.start, feature[j].anchor \in l.tried PROVE j \in DOMAIN l.mine
      OBVIOUS
    <3>1. j \in DOMAIN m.start /\ j \in Id
      BY DEF GaveChain, SessionKnows
    <3> QED
      BY <1>1, <3>1 DEF SessionTells, AddedRow, GaveChain
  <2>2. \A j \in ToldRows(m) : m.mine[j].of \subseteq m.used /\ m.mine[j].of \cap chain = {}
    BY <1>2 DEF SessionTells
  <2>3. \A h \in m.fresh : h.of \subseteq m.used /\ h.of \cap chain = {}
    BY <1>2 DEF SessionTells
  <2>4. \A j \in ToldRows(l) : l.mine[j].of \subseteq l.used
    BY <1>6, <2>2 DEF GaveChain
  <2>5. \A j, k \in ToldRows(l) : j # k => l.mine[j].of \cap l.mine[k].of = {}
    BY <1>6 DEF SessionTells
  <2>6. \A h \in l.fresh : h.top /\ ~h.dropped /\ h.of \subseteq l.used /\ (h.coherent = "yes" => h.anchor \in l.filled)
    BY <2>3 DEF GaveChain, AddedRow, SessionTells
  <2>7. \A h \in l.fresh : \A j \in ToldRows(l) : h.of \cap l.mine[j].of = {}
    <3> SUFFICES ASSUME NEW h \in l.fresh, NEW j \in ToldRows(l) PROVE h.of \cap l.mine[j].of = {}
      OBVIOUS
    <3>1. j \in ToldRows(m) /\ l.mine[j] = m.mine[j]
      BY <1>6
    <3>2. CASE h \in m.fresh
      BY <3>1, <3>2 DEF SessionTells
    <3> QED
      BY <2>2, <3>1, <3>2 DEF AddedRow
  <2>8. \A h, k \in l.fresh : h # k => h.of \cap k.of = {}
    <3> SUFFICES ASSUME NEW h \in l.fresh, NEW k \in l.fresh, h # k PROVE h.of \cap k.of = {}
      OBVIOUS
    <3>1. CASE h \in m.fresh /\ k \in m.fresh
      BY <3>1 DEF SessionTells
    <3> QED
      BY <2>3, <3>1 DEF AddedRow
  <2> QED
    BY <2>1, <2>4, <2>5, <2>6, <2>7, <2>8 DEF SessionTells
<1> QED
  BY <1>5, <1>7

\* A row written is of the texts there are now.
LEMMA WriteSound ==
    ASSUME NEW m \in RunSession, NEW l \in RunSession, SessionSound(m, texts), texts \in Nat, NEW now \in Nat, texts <= now,
           NEW chain, GaveChain(m, l, chain), NEW i, NEW f \in TimelineRow, WroteRow(m, l, i, f), f.text <= now, f.voice <= now
    PROVE  SessionSound(l, now)
<1>1. \A j \in DOMAIN m.mine : m.mine[j].text \in Nat /\ m.mine[j].voice \in Nat
  BY RowsAre DEF RunSession, TimelineRow
<1>2. \A h \in m.fresh : h.text \in Nat /\ h.voice \in Nat
  BY DEF RunSession, TimelineRow
<1>3. \A j \in DOMAIN l.mine : l.mine[j].text <= now /\ l.mine[j].voice <= now
  BY <1>1 DEF WroteRow, SessionSound
<1>4. \A h \in l.fresh : h.text <= now /\ h.voice <= now
  BY <1>2 DEF WroteRow, SessionSound
<1> QED
  BY <1>3, <1>4 DEF WroteRow, GaveChain, SessionSound

\* So is a new row.
LEMMA AddSound ==
    ASSUME NEW m \in RunSession, NEW l \in RunSession, SessionSound(m, texts), texts \in Nat, NEW now \in Nat, texts <= now,
           NEW chain, GaveChain(m, l, chain), NEW f \in TimelineRow, AddedRow(m, l, f), f.text <= now, f.voice <= now
    PROVE  SessionSound(l, now)
<1>1. \A j \in DOMAIN m.mine : m.mine[j].text \in Nat /\ m.mine[j].voice \in Nat
  BY RowsAre DEF RunSession, TimelineRow
<1>2. \A h \in m.fresh : h.text \in Nat /\ h.voice \in Nat
  BY DEF RunSession, TimelineRow
<1>3. \A j \in DOMAIN l.mine : l.mine[j].text <= now /\ l.mine[j].voice <= now
  BY <1>1 DEF AddedRow, SessionSound
<1>4. \A h \in l.fresh : h.text <= now /\ h.voice <= now
  BY <1>2 DEF AddedRow, SessionSound
<1>5. IsFiniteSet(l.fresh)
  BY FS_AddElement DEF AddedRow, SessionSound
<1> QED
  BY <1>3, <1>4, <1>5 DEF AddedRow, GaveChain, SessionSound

\* What a narrative makes of a row, column by column.
LEMMA NarratedIs ==
    ASSUME NEW f \in TimelineRow, NEW chain, chain \subseteq Known, Latest(chain) \in Known, NEW pick \in BOOLEAN, NEW outcome \in Outcome, texts \in Nat
    PROVE  LET n == Narrated(f, chain, pick, outcome) IN
           /\ n \in TimelineRow /\ n.anchor = Latest(chain) /\ n.pick = pick /\ n.top = f.top /\ n.dropped = f.dropped
           /\ n.of = (IF outcome = "error" THEN f.of ELSE chain) /\ n.text = (IF outcome = "error" THEN f.text ELSE texts + 1)
           /\ n.voice = (IF outcome = "voiced" THEN texts + 1 ELSE f.voice)
           /\ n.coherent = (IF outcome = "error" THEN f.coherent ELSE IF outcome = "rejected" THEN "no" ELSE "yes")
<1> DEFINE moved == [f EXCEPT !.anchor = Latest(chain), !.pick = pick]
<1>1. /\ moved \in TimelineRow /\ moved.anchor = Latest(chain) /\ moved.pick = pick /\ moved.top = f.top
      /\ moved.dropped = f.dropped /\ moved.of = f.of /\ moved.text = f.text /\ moved.voice = f.voice /\ moved.coherent = f.coherent
  BY DEF TimelineRow
<1>2. CASE outcome = "error"
  BY <1>1, <1>2 DEF Narrated
<1>3. CASE outcome # "error"
  <2> DEFINE coherent == IF outcome = "rejected" THEN "no" ELSE "yes"
             voice == IF outcome = "voiced" THEN texts + 1 ELSE moved.voice
  <2>1. Narrated(f, chain, pick, outcome) = [moved EXCEPT !.coherent = coherent, !.of = chain, !.text = texts + 1, !.voice = voice]
    BY <1>1, <1>3 DEF Narrated, TimelineRow
  <2>2. coherent \in {"unjudged", "no", "yes"} /\ voice \in Nat /\ texts + 1 \in Nat
    BY <1>1 DEF TimelineRow
  <2> HIDE DEF moved, coherent, voice
  <2>3. LET n == Narrated(f, chain, pick, outcome) IN
        /\ n \in TimelineRow /\ n.anchor = moved.anchor /\ n.pick = moved.pick /\ n.top = moved.top /\ n.dropped = moved.dropped
        /\ n.of = chain /\ n.text = texts + 1 /\ n.voice = voice /\ n.coherent = coherent
    <3>1. moved \in TimelineRow /\ chain \in SUBSET Known
      BY <1>1
    <3>2. PICK t \in Nat : t = texts + 1
      BY <2>2
    <3>3. Narrated(f, chain, pick, outcome) = [moved EXCEPT !.coherent = coherent, !.of = chain, !.text = t, !.voice = voice]
      BY <2>1, <3>2
    <3> QED
      BY <2>2, <3>1, <3>2, <3>3, ZenonT(60) DEF TimelineRow
  <2> QED
    BY <1>1, <1>3, <2>3 DEF coherent, voice
<1> QED
  BY <1>2, <1>3

\* A row as it is inserted, column by column.
LEMMA UnwrittenIs ==
    ASSUME NEW c \in Known, NEW pick \in BOOLEAN
    PROVE  LET f == Unwritten(c, pick) IN
           /\ f \in TimelineRow /\ f.anchor = c /\ f.pick = pick /\ f.top /\ ~f.dropped /\ f.of = {} /\ f.text = 0 /\ f.voice = 0
           /\ f.coherent = "unjudged"
  BY DEF Unwritten, TimelineRow

\* What a run has after it has given a chain a narrative, and the picks of its rows.
Answered(m, l, chain, pick) ==
    /\ l \in RunSession /\ GaveChain(m, l, chain) /\ SessionSound(l, texts')
    /\ ~m.crossed => SessionKnows(l, texts') /\ SessionTells(l)
    /\ DOMAIN m.mine \subseteq DOMAIN l.mine
    /\ \A j \in DOMAIN m.mine : l.mine[j].pick = m.mine[j].pick \/ (l.mine[j].pick = pick /\ feature[j].anchor \in chain)

\* A run's session before a step of it.
RunIsFit(m) == m \in RunSession /\ SessionSound(m, texts) /\ (~m.crossed => SessionKnows(m, texts) /\ SessionTells(m))

\* The row of a chain is one of the rows, and its text is not from the future.
LEMMA RowTypes ==
    ASSUME TimelinesType, NEW m \in RunSession, NEW chain
    PROVE  \A i \in Existing(m, chain) :
               /\ i \in Id /\ Seen(m, i) \in TimelineRow /\ feature[i].anchor \in chain
               /\ RowsApart /\ SessionSound(m, texts) => Seen(m, i).text <= texts /\ Seen(m, i).voice <= texts
<1>1. \A i \in Id : feature[i] \in TimelineRow
  BY DEF TimelinesType, Id
<1>2. \A i \in DOMAIN m.mine : m.mine[i] \in TimelineRow
  BY RowsAre DEF RunSession
<1>3. \A i \in Existing(m, chain) : i \in Id /\ feature[i].anchor \in chain
  BY DEF Existing
<1> QED
  BY <1>1, <1>2, <1>3 DEF Seen, RowsApart, SessionSound

\* A run that leaves a row as it is answers for its chain.
LEMMA SkipFits ==
    ASSUME TimelinesType, RowsApart, NEW g \in Generation, NEW m, RunIsFit(m), NEW chain,
           chain \in {m.chains[k] : k \in DOMAIN m.chains}, chain \cap m.used = {}, NEW pick \in BOOLEAN, SkipChain(g, m, chain, pick)
    PROVE  /\ texts' \in Nat /\ texts <= texts'
           /\ \E l : gen' = [gen EXCEPT ![g] = l] /\ Answered(m, l, chain, pick)
<1>1. PICK i \in Existing(m, chain) :
        /\ UpToDate(Seen(m, i), chain) /\ texts' = texts
        /\ gen' = [gen EXCEPT ![g] = Given(Loads(m, i, Seen(m, i)), chain, pick, Seen(m, i).coherent = "yes")]
  BY DEF SkipChain
<1> DEFINE f == Seen(m, i)
           x == Loads(m, i, f)
           l == Given(x, chain, pick, f.coherent = "yes")
<1>2. m \in RunSession /\ i \in Id /\ f \in TimelineRow /\ feature[i].anchor \in chain
  BY RowTypes DEF RunIsFit
<1>3. /\ x \in RunSession /\ x.chains = m.chains /\ x.start = m.start /\ x.picks = m.picks /\ x.filled = m.filled
      /\ x.tried = m.tried /\ x.used = m.used /\ x.passed = m.passed /\ x.failed = m.failed /\ x.crossed = m.crossed
      /\ x.open = m.open /\ x.fresh = m.fresh
      /\ DOMAIN x.loaded = DOMAIN m.loaded \cup {i} /\ DOMAIN x.mine = DOMAIN m.mine \cup {i}
      /\ \A y \in DOMAIN x.loaded : x.loaded[y] = IF y \in DOMAIN m.loaded THEN m.loaded[y] ELSE feature[y]
      /\ \A y \in DOMAIN x.mine : x.mine[y] = IF y = i THEN f ELSE m.mine[y]
  BY <1>2, LoadsIs
<1>4. IsNewChain(m, chain) /\ IsNewChain(x, chain) /\ (f.coherent = "yes") \in BOOLEAN
  BY <1>3 DEF IsNewChain
<1>5. l \in RunSession /\ GaveChain(m, l, chain) /\ WroteRow(m, l, i, f)
  <2> HIDE DEF x, f
  <2>0. PICK b \in BOOLEAN : b <=> f.coherent = "yes"
    OBVIOUS
  <2>9. l = Given(x, chain, pick, b)
    BY <2>0 DEF Given
  <2>1. /\ l \in RunSession /\ l.chains = x.chains /\ l.start = x.start /\ l.picks = x.picks
        /\ x.filled \subseteq l.filled /\ l.filled \subseteq x.filled \cup {Latest(chain)}
        /\ l.tried = x.tried \cup {Latest(chain)} /\ l.used = x.used \cup chain
        /\ l.passed = x.passed /\ l.failed = x.failed /\ l.crossed = x.crossed
        /\ l.open = x.open /\ l.fresh = x.fresh /\ l.loaded = x.loaded /\ l.mine = x.mine
    BY <1>3, <1>4, <2>9, GivenIs
  <2> QED
    BY <1>3, <2>1 DEF GaveChain, WroteRow
<1> HIDE DEF l, x
<1>6. RowTells(m, l, i, f, chain, texts)
  BY <1>1, <1>2 DEF RowTells, UpToDate
<1>7. ~m.crossed => SessionKnows(l, texts') /\ SessionTells(l)
  <2> SUFFICES ASSUME ~m.crossed PROVE SessionKnows(l, texts) /\ SessionTells(l)
    BY <1>1
  <2>1. texts \in Nat /\ texts <= texts /\ SessionKnows(m, texts) /\ SessionTells(m)
    BY DEF TimelinesType, RunIsFit
  <2> QED
    BY <1>2, <1>4, <1>5, <1>6, <2>1, WriteFits
<1>8. DOMAIN m.mine \subseteq DOMAIN l.mine /\ \A j \in DOMAIN m.mine : l.mine[j].pick = m.mine[j].pick
  BY <1>5 DEF WroteRow, Seen
<1>9. texts' \in Nat /\ texts <= texts' /\ texts \in Nat
  BY <1>1 DEF TimelinesType
<1>10. f.text <= texts /\ f.voice <= texts /\ SessionSound(m, texts)
  BY <1>2, RowTypes DEF RunIsFit
<1>11. SessionSound(l, texts')
  BY <1>1, <1>2, <1>5, <1>9, <1>10, WriteSound
<1> QED
  BY <1>1, <1>5, <1>7, <1>8, <1>9, <1>11 DEF Answered, l, x

\* A run that has a narrative for a chain answers for it, whatever the outcome.
LEMMA GenerateFits ==
    ASSUME TimelinesType, RowsApart, NEW g \in Generation, NEW m, RunIsFit(m), NEW chain,
           chain \in {m.chains[k] : k \in DOMAIN m.chains}, chain \cap m.used = {}, NEW pick \in BOOLEAN, Generate(g, m, chain, pick)
    PROVE  /\ texts' \in Nat /\ texts <= texts'
           /\ \E l : gen' = [gen EXCEPT ![g] = l] /\ Answered(m, l, chain, pick)
<1>1. PICK outcome \in Outcome :
        LET took == Given(m, chain, pick, outcome \in {"silent", "voiced"}) IN
        /\ texts' = IF outcome = "error" THEN texts ELSE texts + 1
        /\ \/ /\ Existing(m, chain) = {}
              /\ gen' = [gen EXCEPT ![g] =
                    [took EXCEPT !.fresh = @ \cup {Narrated(Unwritten(Latest(chain), pick), chain, pick, outcome)}]]
           \/ \E i \in Existing(m, chain) :
                /\ ~UpToDate(Seen(m, i), chain)
                /\ gen' = [gen EXCEPT ![g] =
                    [Loads(took, i, Narrated(Seen(m, i), chain, pick, outcome)) EXCEPT
                        !.failed = IF outcome = "error" THEN @ \cup {i} ELSE @]]
  BY Zenon DEF Generate
<1> DEFINE took == Given(m, chain, pick, outcome \in {"silent", "voiced"})
<1>2. m \in RunSession /\ texts \in Nat
  BY DEF RunIsFit, TimelinesType
<1>3. IsNewChain(m, chain) /\ (outcome \in {"silent", "voiced"}) \in BOOLEAN
  BY DEF IsNewChain
<1>4. /\ took \in RunSession /\ took.chains = m.chains /\ took.start = m.start /\ took.picks = m.picks
      /\ m.filled \subseteq took.filled /\ took.filled \subseteq m.filled \cup {Latest(chain)}
      /\ outcome \in {"silent", "voiced"} => Latest(chain) \in took.filled
      /\ took.tried = m.tried \cup {Latest(chain)} /\ took.used = m.used \cup chain
      /\ took.passed = m.passed /\ took.failed = m.failed /\ took.crossed = m.crossed
      /\ took.open = m.open /\ took.fresh = m.fresh /\ took.loaded = m.loaded /\ took.mine = m.mine
      /\ chain \subseteq Known /\ Latest(chain) \in chain
  <2>0. PICK b \in BOOLEAN : b <=> outcome \in {"silent", "voiced"}
    OBVIOUS
  <2>9. took = Given(m, chain, pick, b)
    BY <2>0 DEF Given
  <2> HIDE DEF took
  <2> QED
    <3>1. b => Latest(chain) \in took.filled
      BY <1>2, <1>3, <2>9, GivenIs
    <3> QED
      BY <1>2, <1>3, <2>0, <2>9, <3>1, GivenIs
<1>5. texts' \in Nat /\ texts <= texts'
  BY <1>1, <1>2
<1>6. SessionSound(m, texts) /\ (~m.crossed => SessionKnows(m, texts) /\ SessionTells(m))
  BY DEF RunIsFit
<1>7. ASSUME Existing(m, chain) = {},
             gen' = [gen EXCEPT ![g] = [took EXCEPT !.fresh = @ \cup {Narrated(Unwritten(Latest(chain), pick), chain, pick, outcome)}]]
      PROVE  \E l : gen' = [gen EXCEPT ![g] = l] /\ Answered(m, l, chain, pick)
  <2> DEFINE u == Unwritten(Latest(chain), pick)
             f == Narrated(u, chain, pick, outcome)
             l == [took EXCEPT !.fresh = took.fresh \cup {f}]
  <2> HIDE DEF took
  <2>0. gen' = [gen EXCEPT ![g] = l]
    BY <1>4, <1>7 DEF RunSession
  <2>1. /\ u \in TimelineRow /\ u.top /\ ~u.dropped /\ u.of = {} /\ u.coherent = "unjudged" /\ u.text = 0 /\ u.voice = 0
    BY <1>4, UnwrittenIs
  <2> HIDE DEF u
  <2>2. /\ f \in TimelineRow /\ f.anchor = Latest(chain) /\ f.top /\ ~f.dropped /\ f.of \subseteq chain
        /\ f.coherent = "yes" => outcome \in {"silent", "voiced"}
        /\ f.text <= texts' /\ f.voice <= texts'
    BY <1>1, <1>2, <1>4, <2>1, NarratedIs DEF Outcome
  <2> HIDE DEF f
  <2>3. l \in RunSession /\ GaveChain(m, l, chain) /\ AddedRow(m, l, f) /\ l.filled = took.filled
    <3>1. took.fresh \cup {f} \in SUBSET TimelineRow
      BY <1>4, <2>2 DEF RunSession
    <3>2. /\ l \in RunSession /\ l.chains = took.chains /\ l.start = took.start /\ l.picks = took.picks
          /\ l.filled = took.filled /\ l.tried = took.tried /\ l.used = took.used /\ l.open = took.open
          /\ l.passed = took.passed /\ l.failed = took.failed /\ l.crossed = took.crossed
          /\ l.loaded = took.loaded /\ l.mine = took.mine /\ l.fresh = took.fresh \cup {f}
      BY <1>4, <3>1 DEF RunSession
    <3> QED
      BY <1>4, <3>2 DEF GaveChain, AddedRow
  <2>4. f.coherent = "yes" => Latest(chain) \in l.filled
    BY <1>4, <2>2, <2>3
  <2> HIDE DEF l
  <2>5. ~m.crossed => SessionKnows(l, texts') /\ SessionTells(l)
    BY <1>2, <1>3, <1>5, <1>6, <1>7, <2>2, <2>3, <2>4, AddFits
  <2>6. DOMAIN m.mine \subseteq DOMAIN l.mine /\ \A j \in DOMAIN m.mine : l.mine[j].pick = m.mine[j].pick
    BY <2>3 DEF AddedRow
  <2>7. SessionSound(l, texts')
    BY <1>2, <1>5, <1>6, <2>2, <2>3, AddSound
  <2> QED
    BY <2>0, <2>3, <2>5, <2>6, <2>7 DEF Answered
<1>8. ASSUME NEW i \in Existing(m, chain),
             gen' = [gen EXCEPT ![g] = [Loads(took, i, Narrated(Seen(m, i), chain, pick, outcome)) EXCEPT
                                          !.failed = IF outcome = "error" THEN @ \cup {i} ELSE @]]
      PROVE  \E l : gen' = [gen EXCEPT ![g] = l] /\ Answered(m, l, chain, pick)
  <2> DEFINE s == Seen(m, i)
             f == Narrated(s, chain, pick, outcome)
             x == Loads(took, i, f)
             failed == IF outcome = "error" THEN x.failed \cup {i} ELSE x.failed
             l == [x EXCEPT !.failed = failed]
  <2>1. i \in Id /\ s \in TimelineRow /\ feature[i].anchor \in chain
    BY <1>2, RowTypes
  <2> HIDE DEF took
  <2>2. /\ f \in TimelineRow /\ f.anchor = Latest(chain) /\ f.pick = pick /\ f.top = s.top /\ f.dropped = s.dropped
        /\ f.of = (IF outcome = "error" THEN s.of ELSE chain) /\ f.text = (IF outcome = "error" THEN s.text ELSE texts + 1)
        /\ f.voice = (IF outcome = "voiced" THEN texts + 1 ELSE s.voice)
    <3> HIDE DEF s
    <3> QED
      BY <1>2, <1>4, <2>1, NarratedIs
  <2> HIDE DEF f
  <2>3. /\ x \in RunSession /\ x.chains = took.chains /\ x.start = took.start /\ x.picks = took.picks /\ x.filled = took.filled
        /\ x.tried = took.tried /\ x.used = took.used /\ x.passed = took.passed /\ x.failed = took.failed /\ x.crossed = took.crossed
        /\ x.open = took.open /\ x.fresh = took.fresh
        /\ DOMAIN x.loaded = DOMAIN took.loaded \cup {i} /\ DOMAIN x.mine = DOMAIN took.mine \cup {i}
        /\ \A y \in DOMAIN x.loaded : x.loaded[y] = IF y \in DOMAIN took.loaded THEN took.loaded[y] ELSE feature[y]
        /\ \A y \in DOMAIN x.mine : x.mine[y] = IF y = i THEN f ELSE took.mine[y]
    BY <1>4, <2>1, <2>2, LoadsIs
  <2>0. gen' = [gen EXCEPT ![g] = l]
    <3> HIDE DEF x
    <3> QED
      BY <1>8, <2>3 DEF RunSession, x, f
  <2> HIDE DEF x
  <2>4. failed \in SUBSET Nat
    BY <2>1, <2>3 DEF RunSession, Id, TimelinesType
  <2> HIDE DEF failed
  <2>5. /\ l \in RunSession /\ l.chains = x.chains /\ l.start = x.start /\ l.picks = x.picks
        /\ l.filled = x.filled /\ l.tried = x.tried /\ l.used = x.used /\ l.open = x.open
        /\ l.passed = x.passed /\ l.failed = failed /\ l.crossed = x.crossed
        /\ l.loaded = x.loaded /\ l.mine = x.mine /\ l.fresh = x.fresh
    BY <2>3, <2>4 DEF RunSession
  <2> HIDE DEF l
  <2>6. GaveChain(m, l, chain) /\ WroteRow(m, l, i, f)
    BY <1>4, <2>3, <2>5 DEF GaveChain, WroteRow, failed
  <2>7. RowTells(m, l, i, f, chain, texts')
    <3>1. outcome = "error" => i \in l.failed
      BY <2>5 DEF failed
    <3>2. outcome # "error" => texts < f.text /\ f.text <= texts' /\ f.voice \in {s.voice, f.text}
      BY <1>1, <1>2, <2>2
    <3> QED
      BY <2>2, <3>1, <3>2 DEF RowTells
  <2>8. ~m.crossed => SessionKnows(l, texts') /\ SessionTells(l)
    BY <1>2, <1>3, <1>5, <1>6, <2>5, <2>3, <2>6, <2>7, WriteFits
  <2>9. /\ DOMAIN m.mine \subseteq DOMAIN l.mine
        /\ \A j \in DOMAIN m.mine : l.mine[j].pick = m.mine[j].pick \/ (l.mine[j].pick = pick /\ feature[j].anchor \in chain)
    BY <2>1, <2>2, <2>6 DEF WroteRow
  <2>10. f.text <= texts' /\ f.voice <= texts'
    <3>1. s.text <= texts /\ s.voice <= texts
      BY <1>2, <1>6, RowTypes
    <3>2. s.text \in Nat /\ s.voice \in Nat
      BY <2>1 DEF TimelineRow
    <3> HIDE DEF s
    <3> QED
      BY <1>1, <1>2, <2>2, <3>1, <3>2
  <2>11. SessionSound(l, texts')
    <3> HIDE DEF s
    <3> QED
      BY <1>2, <1>5, <1>6, <2>2, <2>3, <2>5, <2>6, <2>10, WriteSound
  <2> QED
    BY <2>0, <2>3, <2>5, <2>6, <2>8, <2>9, <2>11 DEF Answered
<1> QED
  BY <1>1, <1>5, <1>7, <1>8

-----------------------------------------------------------------------------
(* The steps of a run.                                                     *)

\* The rows keep what a session relies on.
RowsStay ==
    /\ Id \subseteq Id' /\ texts <= texts'
    /\ \A i \in Id :
        /\ feature'[i].anchor = feature[i].anchor /\ feature'[i].coherent = feature[i].coherent
        /\ feature'[i].of = feature[i].of /\ feature'[i].text = feature[i].text
        /\ feature'[i].top = feature[i].top /\ feature'[i].dropped = feature[i].dropped

\* A session stays sound as texts are written.
LEMMA SoundLater ==
    ASSUME NEW m \in RunSession, NEW was \in Nat, SessionSound(m, was), NEW now \in Nat, was <= now
    PROVE  SessionSound(m, now)
<1>1. \A j \in DOMAIN m.mine : m.mine[j].text \in Nat /\ m.mine[j].voice \in Nat
  BY RowsAre DEF RunSession, TimelineRow
<1>2. \A h \in m.fresh : h.text \in Nat /\ h.voice \in Nat
  BY DEF RunSession, TimelineRow
<1> QED
  BY <1>1, <1>2 DEF SessionSound

\* A session stays fit when the rows keep what it relies on.
LEMMA StillFits ==
    ASSUME NEW m \in {Waits} \cup RunSession, SessionFits(m), TimelinesType, texts' \in Nat, RowsStay
    PROVE  SessionFits(m)'
<1>10. CASE m = Waits
  BY <1>10 DEF SessionFits
<1>11. CASE m # Waits
  <2>1. SessionSound(m, texts')
    BY <1>11, SoundLater DEF SessionFits, TimelinesType, RowsStay
  <2>2. SessionSound(m, texts)'
    BY <2>1 DEF SessionSound
  <2> SUFFICES ASSUME m # Waits, ~m.crossed PROVE SessionKnows(m, texts)' /\ SessionTells(m)' /\ SessionKeepsPicks(m)'
    BY <2>2 DEF SessionFits
  <2>3. SessionKnows(m, texts) /\ SessionTells(m) /\ SessionKeepsPicks(m) /\ m \in RunSession
    BY DEF SessionFits
  <2>4. \A j \in DOMAIN m.mine : j \in Id /\ m.mine[j] \in TimelineRow /\ m.loaded[j] \in TimelineRow
    BY <2>3, RowsAre DEF RunSession, SessionKnows
  <2>5. texts \in Nat
    BY DEF TimelinesType
  <2>6. \A j \in DOMAIN m.mine : m.loaded[j].voice <= texts' /\ m.mine[j].text <= texts'
    BY <2>3, <2>4, <2>5 DEF SessionKnows, TimelineRow, RowsStay
  <2>7. SessionKnows(m, texts)'
    BY <2>3, <2>4, <2>6 DEF SessionKnows, RowsStay
  <2>8. DOMAIN m.start \subseteq Id
    BY <2>3 DEF SessionKnows
  <2>9. SessionTells(m)'
    BY <2>3, <2>8 DEF SessionTells, RowsStay, ToldRows
  <2>10. SessionKeepsPicks(m)'
    BY <2>3, <2>8 DEF SessionKeepsPicks, RowsStay
  <2> QED
    BY <2>7, <2>9, <2>10
<1> QED
  BY <1>10, <1>11

\* A run's step keeps the picks it began with, if its pick is one.
LEMMA AnswerKeepsPicks ==
    ASSUME NEW m, m \in RunSession, SessionKeepsPicks(m), SessionKnows(m, texts), NEW l, NEW chain, IsNewChain(m, chain),
           NEW pick \in BOOLEAN, Answered(m, l, chain, pick),
           ~pick => m.picks = {}
    PROVE  SessionKeepsPicks(l)
<1> SUFFICES ASSUME NEW i \in DOMAIN l.start, l.start[i]
             PROVE  /\ i \in DOMAIN l.mine
                    /\ i \in l.picks => l.mine[i].pick
                    /\ i \notin l.picks => \/ i \in l.passed
                                          \/ /\ l.mine[i].pick
                                             /\ feature[i].anchor \in l.used \/ \A k \in DOMAIN l.chains : feature[i].anchor \notin l.chains[k]
  BY DEF SessionKeepsPicks
<1>1. i \in DOMAIN m.start /\ m.start[i] /\ l.picks = m.picks /\ l.passed = m.passed /\ l.chains = m.chains /\ m.used \subseteq l.used
  BY DEF Answered, GaveChain
<1>2. i \in DOMAIN m.mine /\ i \in DOMAIN l.mine
  BY <1>1 DEF SessionKeepsPicks, Answered
<1>3. l.mine[i].pick = m.mine[i].pick \/ (l.mine[i].pick = pick /\ feature[i].anchor \in chain)
  BY <1>2 DEF Answered
<1>4. \E k \in DOMAIN m.chains : chain = m.chains[k]
  BY DEF IsNewChain
<1>5. chain \cap m.used = {}
  BY DEF IsNewChain
<1>6. CASE pick
  BY <1>1, <1>2, <1>3, <1>6 DEF SessionKeepsPicks
<1>7. CASE ~pick
  BY <1>1, <1>2, <1>3, <1>4, <1>5, <1>7 DEF SessionKeepsPicks
<1> QED
  BY <1>6, <1>7

\* A run starts fit.
LEMMA StartFits ==
    ASSUME TimelinesInv, NEW g \in Generation, NEW chains \in Chains, StartGeneration(g, chains)
    PROVE  gen'[g] \in RunSession /\ SessionFits(gen'[g])
<1> DEFINE rejected == UNION {feature[i].of : i \in {x \in Id : feature[x].coherent = "no"}}
           picks == {i \in Id : feature[i].pick}
           open == {c \in {Assigned(chains, x) : x \in Known} : Cardinality(c) > 1 /\ c \cap rejected = {}}
           rows == [i \in picks |-> feature[i]]
           m == [pc |-> "scan", chains |-> chains, start |-> Marks, picks |-> picks, found |-> 0, scanned |-> 0,
                 filled |-> {}, tried |-> {}, used |-> {}, passed |-> {}, failed |-> {}, crossed |-> FALSE,
                 open |-> open, loaded |-> rows, mine |-> rows, fresh |-> {}]
<1>1. gen'[g] = m
  BY DEF StartGeneration, TimelinesInv, TimelinesType
<1>2. Id \subseteq Nat /\ \A i \in Id : feature[i] \in TimelineRow
  BY DEF TimelinesInv, TimelinesType, Id
<1>3. Marks \in UNION {[s -> BOOLEAN] : s \in SUBSET Nat}
  <2>1. Marks \in [Id -> BOOLEAN]
    BY <1>2 DEF Marks, TimelineRow
  <2> QED
    BY <1>2, <2>1
<1>4. rows \in UNION {RowsById(s) : s \in SUBSET Nat}
  <2>1. rows \in RowsById(picks) /\ picks \in SUBSET Nat
    BY <1>2 DEF RowsById
  <2> HIDE DEF rows, picks
  <2> QED
    BY <2>1
<1>5. \A c \in open : \E k \in DOMAIN chains : c = chains[k]
  <2> SUFFICES ASSUME NEW x \in Known, Cardinality(Assigned(chains, x)) > 1 PROVE \E k \in DOMAIN chains : Assigned(chains, x) = chains[k]
    OBVIOUS
  <2>1. Cardinality({}) = 0
    BY FS_EmptySet
  <2> QED
    BY <2>1, AssignedIs, SMTT(60)
<1>6. open \in SUBSET SUBSET Known
  <2>1. \A k \in DOMAIN chains : chains[k] \subseteq Known
    BY ChainIs
  <2> HIDE DEF open
  <2> QED
    BY <1>5, <2>1
<1>7. DOMAIN rows = picks /\ (\A i \in picks : rows[i] = feature[i]) /\ picks \subseteq Id /\ \A i \in Id : Marks[i] => i \in picks
  BY DEF Marks
<1>8. DOMAIN Marks = Id
  BY DEF Marks
<1>9. \A i \in picks : feature[i].pick
  OBVIOUS
<1>11. picks \in SUBSET Nat
  BY <1>2
<1> HIDE DEF open, rows, picks
<1>10. /\ m \in RunSession /\ m.chains = chains /\ m.start = Marks /\ m.picks = picks /\ m.filled = {} /\ m.tried = {} /\ m.used = {}
       /\ m.passed = {} /\ m.failed = {} /\ m.open = open /\ m.loaded = rows /\ m.mine = rows /\ m.fresh = {}
  BY <1>3, <1>4, <1>6, <1>11 DEF RunSession
<1> HIDE DEF m
<1>15. SessionSound(m, texts) /\ (texts' = texts => SessionSound(m, texts'))
  <2>1. \A i \in picks : rows[i].text <= texts /\ rows[i].voice <= texts
    BY <1>7 DEF TimelinesInv, RowsApart
  <2>2. IsFiniteSet({})
    BY FS_EmptySet
  <2> QED
    BY <1>5, <1>7, <1>10, <2>1, <2>2 DEF SessionSound
<1>12. SessionKnows(m, texts)
  BY <1>5, <1>7, <1>8, <1>10 DEF SessionKnows, TimelinesInv, RowsApart
<1>13. SessionTells(m)
  BY <1>10 DEF SessionTells, ToldRows
<1>14. SessionKeepsPicks(m)
  BY <1>7, <1>8, <1>9, <1>10 DEF SessionKeepsPicks
<1> QED
  BY <1>1, <1>10, <1>12, <1>13, <1>14, <1>15 DEF SessionFits

\* What a step of a run that answers for a chain makes of its session.
LEMMA AnswerFits ==
    ASSUME TimelinesType, RowsApart, NEW g \in Generation, NEW m \in RunSession, SessionFits(m), NEW chain,
           chain \in {m.chains[k] : k \in DOMAIN m.chains}, chain \cap m.used = {}, NEW pick \in BOOLEAN,
           ~pick => m.picks = {}, SkipChain(g, m, chain, pick) \/ Generate(g, m, chain, pick), m # Waits
    PROVE  /\ texts' \in Nat /\ texts <= texts'
           /\ \E l \in RunSession : gen' = [gen EXCEPT ![g] = l] /\ Answered(m, l, chain, pick)
                                    /\ SessionSound(l, texts')
                                    /\ (~l.crossed => SessionKnows(l, texts') /\ SessionTells(l) /\ SessionKeepsPicks(l))
<1>1. RunIsFit(m)
  BY DEF RunIsFit, SessionFits
<1>3. /\ texts' \in Nat /\ texts <= texts'
      /\ \E l : gen' = [gen EXCEPT ![g] = l] /\ Answered(m, l, chain, pick)
  <2>1. CASE SkipChain(g, m, chain, pick)
    BY <1>1, <2>1, SkipFits
  <2>2. CASE Generate(g, m, chain, pick)
    BY <1>1, <2>2, GenerateFits
  <2> QED
    BY <2>1, <2>2
<1>4. PICK l : gen' = [gen EXCEPT ![g] = l] /\ Answered(m, l, chain, pick)
  BY <1>3
<1>5. l \in RunSession /\ l.crossed = m.crossed
  BY <1>4 DEF Answered, GaveChain
<1>7. SessionSound(l, texts')
  BY <1>4 DEF Answered
<1>6. ~m.crossed => SessionKeepsPicks(l)
  BY <1>4, AnswerKeepsPicks DEF SessionFits, IsNewChain
<1> QED
  BY <1>3, <1>4, <1>5, <1>6, <1>7 DEF Answered

\* A session after a step: fit for the texts there are now.
FitNow(l) ==
    /\ l \in RunSession /\ SessionSound(l, texts')
    /\ (~l.crossed => SessionKnows(l, texts') /\ SessionTells(l) /\ SessionKeepsPicks(l))

\* A run that scans has a session.
LEMMA Working ==
    ASSUME TimelinesType, NEW g \in Generation, gen[g].pc = "scan"
    PROVE  gen[g] \in RunSession /\ gen[g] # Waits
  BY DEF TimelinesType, Waits

\* The next pick keeps the session fit, passed over or written.
LEMMA NextPickFits ==
    ASSUME TimelinesInv, NEW g \in Generation, NEW i \in Id, NextPick(g, i)
    PROVE  texts' \in Nat /\ texts <= texts' /\ \E l : gen' = [gen EXCEPT ![g] = l] /\ FitNow(l)
<1> DEFINE m == gen[g]
           chain == Assigned(m.chains, m.mine[i].anchor)
           rest == [m EXCEPT !.picks = @ \ {i}]
<1>1. TimelinesType /\ RowsApart /\ SessionFits(m) /\ texts \in Nat
  BY DEF TimelinesInv, SessionsAreFit, TimelinesType
<1>2. m \in RunSession /\ m # Waits /\ i \in m.picks
  BY <1>1, Working DEF NextPick
<1>3. IF Cardinality(chain) <= 1 \/ Overlaps(m, chain)
      THEN /\ gen' = [gen EXCEPT ![g] = [rest EXCEPT !.passed = IF Overlaps(m, chain) THEN @ \cup {i} ELSE @]]
           /\ UNCHANGED texts
      ELSE SkipChain(g, rest, chain, TRUE) \/ Generate(g, rest, chain, TRUE)
  BY DEF NextPick
<1>4. /\ rest \in RunSession /\ rest.chains = m.chains /\ rest.start = m.start /\ rest.picks = m.picks \ {i} /\ rest.filled = m.filled
      /\ rest.tried = m.tried /\ rest.used = m.used /\ rest.passed = m.passed /\ rest.failed = m.failed /\ rest.crossed = m.crossed
      /\ rest.open = m.open /\ rest.fresh = m.fresh /\ rest.loaded = m.loaded /\ rest.mine = m.mine
  BY <1>2 DEF RunSession
<1>5. m.chains \in Chains
  BY <1>2 DEF RunSession
<1>6. \/ chain = {} /\ \A k \in DOMAIN m.chains : m.mine[i].anchor \notin m.chains[k]
      \/ \E k \in DOMAIN m.chains : chain = m.chains[k] /\ m.mine[i].anchor \in chain
  BY <1>5, AssignedIs
<1>7. ~m.crossed => SessionKnows(m, texts) /\ SessionTells(m) /\ SessionKeepsPicks(m)
  BY <1>1, <1>2 DEF SessionFits
<1>12. SessionSound(m, texts)
  BY <1>1, <1>2 DEF SessionFits
<1> HIDE DEF m, rest, chain
<1>8. ~m.crossed => i \in DOMAIN m.mine /\ \/ m.mine[i].anchor = feature[i].anchor
                                           \/ feature[i].anchor \in m.used
  BY <1>2, <1>7 DEF SessionKnows
<1>9. CASE Cardinality(chain) <= 1 \/ Overlaps(m, chain)
  <2> DEFINE passed == IF Overlaps(m, chain) THEN m.passed \cup {i} ELSE m.passed
             l == [rest EXCEPT !.passed = passed]
  <2>1. gen' = [gen EXCEPT ![g] = l] /\ texts' = texts
    BY <1>3, <1>4, <1>9 DEF RunSession
  <2>2. i \in Nat /\ passed \in SUBSET Nat
    BY <1>1, <1>2 DEF RunSession, Id, TimelinesType
  <2>3. m.passed \subseteq passed /\ (i \in passed \/ ~Overlaps(m, chain))
    OBVIOUS
  <2> HIDE DEF passed
  <2>4. /\ l \in RunSession /\ l.chains = m.chains /\ l.start = m.start /\ l.picks = m.picks \ {i} /\ l.filled = m.filled
        /\ l.tried = m.tried /\ l.used = m.used /\ l.passed = passed /\ l.failed = m.failed /\ l.crossed = m.crossed
        /\ l.open = m.open /\ l.fresh = m.fresh /\ l.loaded = m.loaded /\ l.mine = m.mine
    BY <1>4, <2>2 DEF RunSession
  <2> HIDE DEF l
  <2>5. ASSUME ~m.crossed PROVE SessionKnows(l, texts) /\ SessionTells(l)
    BY <1>7, <2>4, <2>5 DEF SessionKnows, SessionTells, ToldRows
  <2>6. ASSUME ~m.crossed PROVE SessionKeepsPicks(l)
    <3> SUFFICES ASSUME NEW j \in DOMAIN l.start, l.start[j]
                 PROVE  /\ j \in DOMAIN l.mine
                        /\ j \in l.picks => l.mine[j].pick
                        /\ j \notin l.picks => \/ j \in l.passed
                                              \/ /\ l.mine[j].pick
                                                 /\ feature[j].anchor \in l.used \/ \A k \in DOMAIN l.chains : feature[j].anchor \notin l.chains[k]
      BY DEF SessionKeepsPicks
    <3>1. /\ j \in DOMAIN m.mine /\ (j \in m.picks => m.mine[j].pick)
          /\ j \notin m.picks => \/ j \in m.passed
                                \/ /\ m.mine[j].pick
                                   /\ feature[j].anchor \in m.used \/ \A k \in DOMAIN m.chains : feature[j].anchor \notin m.chains[k]
      BY <1>7, <2>4, <2>6 DEF SessionKeepsPicks
    <3>2. CASE j # i
      BY <2>3, <2>4, <3>1, <3>2
    <3>3. CASE j = i /\ ~Overlaps(m, chain)
      <4>1. Cardinality(chain) <= 1
        BY <1>9, <3>3
      <4>2. chain = {}
        BY <1>5, <1>6, <4>1, ChainIs
      <4>3. \A k \in DOMAIN m.chains : m.mine[i].anchor \notin m.chains[k]
        <5> SUFFICES ASSUME NEW k \in DOMAIN m.chains, m.mine[i].anchor \in m.chains[k] PROVE FALSE
          OBVIOUS
        <5> QED
          BY <1>6, <4>2
      <4> QED
        BY <1>2, <1>8, <2>4, <2>6, <3>1, <3>3, <4>3
    <3> QED
      BY <2>3, <2>4, <3>1, <3>2, <3>3
  <2>7. texts' \in Nat /\ texts <= texts'
    BY <1>1, <2>1
  <2>8. ~l.crossed => SessionKnows(l, texts') /\ SessionTells(l) /\ SessionKeepsPicks(l)
    BY <2>1, <2>4, <2>5, <2>6
  <2>9. SessionSound(l, texts')
    BY <1>12, <2>1, <2>4 DEF SessionSound
  <2> QED
    BY <2>1, <2>4, <2>7, <2>8, <2>9 DEF FitNow
<1>10. CASE ~(Cardinality(chain) <= 1 \/ Overlaps(m, chain))
  <2>1. SkipChain(g, rest, chain, TRUE) \/ Generate(g, rest, chain, TRUE)
    BY <1>3, <1>10
  <2>2. chain \cap rest.used = {}
    BY <1>4, <1>10 DEF Overlaps
  <2>3. chain \in {rest.chains[k] : k \in DOMAIN rest.chains} /\ m.mine[i].anchor \in chain
    <3>1. Cardinality({}) = 0
      BY FS_EmptySet
    <3> QED
      BY <1>4, <1>6, <1>10, <3>1
  <2>4. RunIsFit(rest)
    BY <1>4, <1>7, <1>12 DEF RunIsFit, SessionSound, SessionKnows, SessionTells, ToldRows
  <2>5. /\ texts' \in Nat /\ texts <= texts'
        /\ \E l : gen' = [gen EXCEPT ![g] = l] /\ Answered(rest, l, chain, TRUE)
    BY <1>1, <2>1, <2>2, <2>3, <2>4, SkipFits, GenerateFits
  <2>6. PICK l : gen' = [gen EXCEPT ![g] = l] /\ Answered(rest, l, chain, TRUE)
    BY <2>5
  <2>7. /\ l \in RunSession /\ l.crossed = m.crossed /\ l.start = m.start /\ l.picks = m.picks \ {i} /\ l.passed = m.passed
        /\ l.chains = m.chains /\ l.used = m.used \cup chain
    BY <1>4, <2>6 DEF Answered, GaveChain
  <2>8. ASSUME ~m.crossed PROVE SessionKeepsPicks(l)
    <3> SUFFICES ASSUME NEW j \in DOMAIN l.start, l.start[j]
                 PROVE  /\ j \in DOMAIN l.mine
                        /\ j \in l.picks => l.mine[j].pick
                        /\ j \notin l.picks => \/ j \in l.passed
                                              \/ /\ l.mine[j].pick
                                                 /\ feature[j].anchor \in l.used \/ \A k \in DOMAIN l.chains : feature[j].anchor \notin l.chains[k]
      BY DEF SessionKeepsPicks
    <3>1. /\ j \in DOMAIN m.mine /\ (j \in m.picks => m.mine[j].pick)
          /\ j \notin m.picks => \/ j \in m.passed
                                \/ /\ m.mine[j].pick
                                   /\ feature[j].anchor \in m.used \/ \A k \in DOMAIN m.chains : feature[j].anchor \notin m.chains[k]
      BY <1>7, <2>7, <2>8 DEF SessionKeepsPicks
    <3>2. j \in DOMAIN l.mine /\ (l.mine[j].pick = m.mine[j].pick \/ l.mine[j].pick = TRUE)
      BY <1>4, <2>6, <3>1 DEF Answered
    <3>3. m.mine[j].pick => l.mine[j].pick
      BY <3>2
    <3>4. CASE j # i
      BY <2>7, <3>1, <3>2, <3>3, <3>4
    <3>5. CASE j = i
      <4>1. m.mine[i].pick /\ feature[i].anchor \in l.used
        BY <1>2, <1>8, <2>3, <2>7, <2>8, <3>1, <3>5
      <4> QED
        BY <3>2, <3>3, <3>5, <4>1
    <3> QED
      BY <3>4, <3>5
  <2>9. SessionSound(l, texts')
    BY <2>6 DEF Answered
  <2> QED
    BY <1>4, <2>5, <2>6, <2>7, <2>8, <2>9 DEF Answered, FitNow
<1> QED
  BY <1>9, <1>10

\* So does the next chain.
LEMMA NextChainFits ==
    ASSUME TimelinesInv, NEW g \in Generation, NextChain(g)
    PROVE  texts' \in Nat /\ texts <= texts' /\ \E l : gen' = [gen EXCEPT ![g] = l] /\ FitNow(l)
<1> DEFINE m == gen[g]
           next == [m EXCEPT !.scanned = @ + 1]
<1>1. TimelinesType /\ RowsApart /\ SessionFits(m) /\ texts \in Nat
  BY DEF TimelinesInv, SessionsAreFit, TimelinesType
<1>2. m \in RunSession /\ m # Waits /\ m.picks = {}
  BY <1>1, Working DEF NextChain
<1>3. PICK chain \in Ranked(m) : SkipChain(g, next, chain, FALSE) \/ Generate(g, next, chain, FALSE)
  BY DEF NextChain
<1>4. /\ next \in RunSession /\ next.chains = m.chains /\ next.start = m.start /\ next.picks = m.picks /\ next.filled = m.filled
      /\ next.tried = m.tried /\ next.used = m.used /\ next.passed = m.passed /\ next.failed = m.failed /\ next.crossed = m.crossed
      /\ next.open = m.open /\ next.fresh = m.fresh /\ next.loaded = m.loaded /\ next.mine = m.mine /\ next # Waits
  BY <1>2 DEF RunSession, Waits
<1>5. ~m.crossed => SessionKnows(m, texts) /\ SessionTells(m) /\ SessionKeepsPicks(m)
  BY <1>1, <1>2 DEF SessionFits
<1>7. SessionSound(m, texts)
  BY <1>1, <1>2 DEF SessionFits
<1> HIDE DEF next, m
<1>6. SessionFits(next)
  <2>1. SessionSound(next, texts)
    BY <1>4, <1>7 DEF SessionSound
  <2>2. ~m.crossed => SessionKnows(next, texts)
    BY <1>4, <1>5 DEF SessionKnows
  <2>3. ~m.crossed => SessionTells(next)
    BY <1>4, <1>5 DEF SessionTells, ToldRows
  <2>4. ~m.crossed => SessionKeepsPicks(next)
    BY <1>4, <1>5 DEF SessionKeepsPicks
  <2> QED
    BY <1>4, <2>1, <2>2, <2>3, <2>4 DEF SessionFits
<1> QED
  <2>1. chain \cap next.used = {} /\ chain \in m.open
    BY <1>3, <1>4 DEF Ranked, Overlaps
  <2>2. chain \in {next.chains[k] : k \in DOMAIN next.chains}
    BY <1>4, <1>7, <2>1 DEF SessionSound
  <2> QED
    BY <1>1, <1>2, <1>3, <1>4, <1>6, <2>1, <2>2, AnswerFits, ZenonT(60) DEF FitNow

-----------------------------------------------------------------------------
(* The commit.                                                             *)

\* A row with a place, or without, column by column.
LEMMA PlacedIs ==
    ASSUME NEW f \in TimelineRow, NEW value \in BOOLEAN
    PROVE  LET p == Placed(f, value) IN
           /\ p \in TimelineRow /\ p.anchor = f.anchor /\ p.pick = f.pick /\ p.coherent = f.coherent /\ p.of = f.of
           /\ p.text = f.text /\ p.voice = f.voice /\ p.top = value /\ (value => ~p.dropped)
<1> DEFINE dropped == IF value THEN FALSE ELSE f.dropped \/ f.top
<1>1. Placed(f, value) = [f EXCEPT !.top = value, !.dropped = dropped]
  BY DEF Placed, TimelineRow
<1>2. dropped \in BOOLEAN /\ (value => ~dropped)
  BY DEF TimelineRow
<1> HIDE DEF dropped
<1> QED
  BY <1>1, <1>2 DEF TimelineRow

\* What a run's sweep makes of a row, in its session.
LEMMA SweptIs ==
    ASSUME TimelinesType, NEW m \in RunSession, NEW i \in Id
    PROVE  LET s == Swept(m, i)
               f == Seen(m, i) IN
           /\ f \in TimelineRow /\ s \in TimelineRow /\ s.anchor = f.anchor /\ s.pick = f.pick /\ s.coherent = f.coherent /\ s.of = f.of
           /\ s.text = f.text /\ s.voice = f.voice
           /\ f.anchor = feature[i].anchor /\ m.filled \subseteq m.tried => (s.top <=> f.anchor \in m.filled) /\ (s.top => ~s.dropped)
<1> DEFINE f == Seen(m, i)
           filled == feature[i].anchor \in m.filled
           p == SetTop(m, i)
<1>1. f \in TimelineRow
  BY RowsAre DEF Seen, TimelinesType, Id, RunSession
<1>2. /\ p \in TimelineRow /\ p.anchor = f.anchor /\ p.pick = f.pick /\ p.coherent = f.coherent /\ p.of = f.of
      /\ p.text = f.text /\ p.voice = f.voice
      /\ feature[i].anchor \in m.tried => (p.top <=> feature[i].anchor \in m.filled) /\ (p.top => ~p.dropped)
  <2>1. CASE feature[i].anchor \in m.filled
    <3>1. SetTop(m, i) = IF feature[i].anchor \in m.tried THEN Placed(f, TRUE) ELSE f
      BY <2>1 DEF SetTop
    <3> HIDE DEF f
    <3>2. /\ Placed(f, TRUE) \in TimelineRow /\ Placed(f, TRUE).anchor = f.anchor /\ Placed(f, TRUE).pick = f.pick
          /\ Placed(f, TRUE).coherent = f.coherent /\ Placed(f, TRUE).of = f.of /\ Placed(f, TRUE).text = f.text
          /\ Placed(f, TRUE).voice = f.voice /\ Placed(f, TRUE).top = TRUE /\ ~Placed(f, TRUE).dropped
      BY <1>1, PlacedIs
    <3> QED
      BY <1>1, <2>1, <3>1, <3>2
  <2>2. CASE feature[i].anchor \notin m.filled
    <3>1. SetTop(m, i) = IF feature[i].anchor \in m.tried THEN Placed(f, FALSE) ELSE f
      BY <2>2 DEF SetTop
    <3> HIDE DEF f
    <3>2. /\ Placed(f, FALSE) \in TimelineRow /\ Placed(f, FALSE).anchor = f.anchor /\ Placed(f, FALSE).pick = f.pick
          /\ Placed(f, FALSE).coherent = f.coherent /\ Placed(f, FALSE).of = f.of /\ Placed(f, FALSE).text = f.text
          /\ Placed(f, FALSE).voice = f.voice /\ Placed(f, FALSE).top = FALSE
      BY <1>1, PlacedIs
    <3> QED
      BY <1>1, <2>2, <3>1, <3>2
  <2> QED
    BY <2>1, <2>2
<1>3. Swept(m, i) = IF p.anchor \notin m.tried THEN Placed(p, FALSE) ELSE p
  BY DEF Swept, Falls
<1> HIDE DEF p
<1>4. /\ Placed(p, FALSE) \in TimelineRow /\ Placed(p, FALSE).anchor = p.anchor /\ Placed(p, FALSE).pick = p.pick
      /\ Placed(p, FALSE).coherent = p.coherent /\ Placed(p, FALSE).of = p.of /\ Placed(p, FALSE).text = p.text
      /\ Placed(p, FALSE).voice = p.voice /\ Placed(p, FALSE).top = FALSE
  BY <1>2, PlacedIs
<1> HIDE DEF f
<1> QED
  BY <1>1, <1>2, <1>3, <1>4 DEF f

\* What is committed of a row is a row, of texts there are.
LEMMA MergedType ==
    ASSUME TimelinesType, NEW m \in RunSession, NEW i \in Id
    PROVE  /\ Merged(m, i) \in TimelineRow
           /\ Merged(m, i).text \in {feature[i].text, Seen(m, i).text}
           /\ Merged(m, i).voice \in {feature[i].voice, Seen(m, i).voice}
<1> DEFINE was == IF i \in DOMAIN m.loaded THEN m.loaded[i] ELSE feature[i]
           is == Swept(m, i)
           now == feature[i]
<1>1. now \in TimelineRow /\ is \in TimelineRow /\ is.text = Seen(m, i).text /\ is.voice = Seen(m, i).voice
  BY SweptIs DEF TimelinesType, Id
<1>2. Merged(m, i) =
    [anchor |-> Kept(now.anchor, was.anchor, is.anchor), pick |-> Kept(now.pick, was.pick, is.pick),
     coherent |-> Kept(now.coherent, was.coherent, is.coherent), of |-> Kept(now.of, was.of, is.of),
     text |-> Kept(now.text, was.text, is.text), voice |-> Kept(now.voice, was.voice, is.voice),
     top |-> Kept(now.top, was.top, is.top), dropped |-> Kept(now.dropped, was.dropped, is.dropped)]
  BY DEF Merged
<1> HIDE DEF was, is, now
<1>3. \A x, y, z : Kept(x, y, z) \in {x, z}
  BY DEF Kept
<1>4. /\ Kept(now.anchor, was.anchor, is.anchor) \in Known /\ Kept(now.pick, was.pick, is.pick) \in BOOLEAN
      /\ Kept(now.coherent, was.coherent, is.coherent) \in {"unjudged", "no", "yes"} /\ Kept(now.of, was.of, is.of) \in SUBSET Known
      /\ Kept(now.text, was.text, is.text) \in Nat /\ Kept(now.voice, was.voice, is.voice) \in Nat
      /\ Kept(now.top, was.top, is.top) \in BOOLEAN /\ Kept(now.dropped, was.dropped, is.dropped) \in BOOLEAN
  BY <1>1 DEF Kept, TimelineRow
<1>5. Merged(m, i) \in TimelineRow
  BY <1>2, <1>4 DEF TimelineRow
<1>6. Merged(m, i).text \in {now.text, is.text} /\ Merged(m, i).voice \in {now.voice, is.voice}
  BY <1>2, <1>3
<1> QED
  BY <1>1, <1>5, <1>6 DEF now

\* Of a session nobody has crossed, all but the desk's and the narrations' columns
\* are written as they are there.
LEMMA MergedIs ==
    ASSUME TimelinesType, NEW m \in RunSession, SessionKnows(m, texts), NEW i \in Id
    PROVE  LET r == Merged(m, i)
               f == Seen(m, i) IN
           /\ r.anchor = f.anchor /\ r.coherent = f.coherent /\ r.of = f.of /\ r.text = f.text
           /\ r.top = Swept(m, i).top /\ r.dropped = Swept(m, i).dropped
           /\ i \notin DOMAIN m.mine => f = feature[i] /\ r.pick = feature[i].pick /\ r.voice = feature[i].voice
           /\ i \in DOMAIN m.mine => /\ f = m.mine[i]
                                     /\ r.pick = Kept(feature[i].pick, m.loaded[i].pick, f.pick)
                                     /\ r.voice = Kept(feature[i].voice, m.loaded[i].voice, f.voice)
<1> DEFINE was == IF i \in DOMAIN m.loaded THEN m.loaded[i] ELSE feature[i]
           is == Swept(m, i)
           now == feature[i]
           f == Seen(m, i)
<1>1. /\ is.anchor = f.anchor /\ is.pick = f.pick /\ is.coherent = f.coherent /\ is.of = f.of
      /\ is.text = f.text /\ is.voice = f.voice
  BY SweptIs
<1>2. /\ Merged(m, i).anchor = Kept(now.anchor, was.anchor, is.anchor) /\ Merged(m, i).pick = Kept(now.pick, was.pick, is.pick)
      /\ Merged(m, i).coherent = Kept(now.coherent, was.coherent, is.coherent) /\ Merged(m, i).of = Kept(now.of, was.of, is.of)
      /\ Merged(m, i).text = Kept(now.text, was.text, is.text) /\ Merged(m, i).voice = Kept(now.voice, was.voice, is.voice)
      /\ Merged(m, i).top = Kept(now.top, was.top, is.top) /\ Merged(m, i).dropped = Kept(now.dropped, was.dropped, is.dropped)
  BY DEF Merged
<1>3. /\ was.anchor = now.anchor /\ was.coherent = now.coherent /\ was.of = now.of /\ was.text = now.text
      /\ was.top = now.top /\ was.dropped = now.dropped
      /\ i \notin DOMAIN m.mine => was = now /\ f = now
      /\ i \in DOMAIN m.mine => was = m.loaded[i] /\ f = m.mine[i]
  BY DEF SessionKnows, Seen
<1>4. \A x, z : Kept(x, x, z) = z
  BY DEF Kept
<1> HIDE DEF was, is, f
<1> QED
  BY <1>1, <1>2, <1>3, <1>4 DEF was, is, f

\* A step of a run before its commit, or the loss of it.
LEMMA WorkKeeps ==
    ASSUME TimelinesInv, NEW g \in Generation, NEW l, l = Waits \/ FitNow(l), gen' = [gen EXCEPT ![g] = l],
           UNCHANGED <<feature, narrator, last, mute, over>>, texts' \in Nat, texts <= texts'
    PROVE  TimelinesInv'
<1>1. TimelinesType /\ RowsApart /\ SessionsAreFit /\ TopIsOfTheRun /\ VoiceIsOfThePage
  BY DEF TimelinesInv
<1>2. l \in {Waits} \cup RunSession
  BY DEF FitNow
<1>3. TimelinesType'
  BY <1>1, <1>2 DEF TimelinesType
<1>4. Id' = Id /\ texts \in Nat
  BY <1>1 DEF Id, TimelinesType
<1>5. \A i \in Id : feature[i].text \in Nat /\ feature[i].voice \in Nat
  <2>1. \A i \in Id : feature[i] \in TimelineRow
    BY <1>1 DEF TimelinesType, Id
  <2> QED
    BY <2>1 DEF TimelineRow
<1>6. \A n \in Narrator : narrator[n] # Waits => narrator[n].text \in Nat
  BY <1>1 DEF TimelinesType, NarrationOf
<1>7. RowsApart'
  BY <1>1, <1>4, <1>5, <1>6 DEF RowsApart
<1>8. RowsStay
  BY <1>4 DEF RowsStay
<1>9. SessionFits(l)'
  BY DEF FitNow, SessionFits, SessionSound, SessionKnows, SessionTells, SessionKeepsPicks, ToldRows, Id
<1>10. SessionsAreFit'
  <2> SUFFICES ASSUME NEW m \in {gen'[h] : h \in Generation} PROVE SessionFits(m)'
    BY DEF SessionsAreFit
  <2>1. m = l \/ m \in {gen[h] : h \in Generation}
    BY <1>1 DEF TimelinesType
  <2>2. CASE m = l
    BY <1>9, <2>2
  <2>3. CASE m \in {gen[h] : h \in Generation}
    <3>1. m \in {Waits} \cup RunSession
      BY <1>1, <2>3 DEF TimelinesType
    <3>2. SessionFits(m)
      BY <1>1, <2>3 DEF SessionsAreFit
    <3> QED
      BY <1>1, <1>8, <3>1, <3>2, StillFits
  <2> QED
    BY <2>1, <2>2, <2>3
<1>11. TopIsOfTheRun' /\ VoiceIsOfThePage'
  BY <1>1, <1>4 DEF TopIsOfTheRun, VoiceIsOfThePage, Listed
<1> QED
  BY <1>3, <1>7, <1>10, <1>11 DEF TimelinesInv

\* The rows that a commit leaves.
IsCommit(m, all) ==
    /\ all \in Seq(TimelineRow) /\ Id \subseteq DOMAIN all /\ \A i \in Id : all[i] = Merged(m, i)
    /\ \A i \in DOMAIN all \ Id : all[i] \in m.fresh
    /\ \A i, j \in DOMAIN all \ Id : i # j => all[i] # all[j]
    /\ \A i, j \in DOMAIN all : i # j => all[i].anchor # all[j].anchor

\* The rows that the session has moved to a new anchor.
MovedRows(m) == {i \in DOMAIN m.mine : m.mine[i].anchor # m.loaded[i].anchor}

\* A commit that nobody has crossed leaves the tab with what the run gave a place.
LEMMA TopCommitted ==
    ASSUME TimelinesType, NEW m \in RunSession, SessionKnows(m, texts), SessionTells(m), DOMAIN m.start = Id,
           NEW all, IsCommit(m, all), feature' = all,
           last' = [filled |-> {i \in DOMAIN all : all[i].anchor \in m.filled}, failed |-> m.failed, moved |-> MovedRows(m)]
    PROVE  TopIsOfTheRun'
<1> DEFINE moved == MovedRows(m)
           listed == {i \in DOMAIN all : all[i].top /\ all[i].coherent = "yes"} \ moved
<1>1. ASSUME NEW i \in Id, i \notin moved
      PROVE  /\ all[i].anchor = feature[i].anchor /\ all[i].of = Seen(m, i).of
             /\ (all[i].top <=> all[i].anchor \in m.filled) /\ (all[i].top => ~all[i].dropped)
  <2>1. Seen(m, i).anchor = feature[i].anchor
    BY <1>1 DEF Seen, MovedRows, SessionKnows
  <2>2. all[i] = Merged(m, i)
    BY DEF IsCommit
  <2>3. m.filled \subseteq m.tried
    BY DEF SessionKnows
  <2>4. (Swept(m, i).top <=> Seen(m, i).anchor \in m.filled) /\ (Swept(m, i).top => ~Swept(m, i).dropped)
    BY <2>1, <2>3, SweptIs
  <2>5. /\ all[i].anchor = Seen(m, i).anchor /\ all[i].of = Seen(m, i).of
        /\ all[i].top = Swept(m, i).top /\ all[i].dropped = Swept(m, i).dropped
    BY <2>2, MergedIs
  <2> QED
    BY <2>1, <2>4, <2>5
<1>2. ASSUME NEW i \in DOMAIN all \ Id
      PROVE  all[i].top /\ ~all[i].dropped /\ (all[i].coherent = "yes" => all[i].anchor \in m.filled)
  BY DEF IsCommit, SessionTells
<1>3. moved \subseteq Id
  BY DEF MovedRows, SessionKnows
<1>4. listed = {i \in {x \in DOMAIN all : all[x].anchor \in m.filled} : all[i].coherent = "yes"} \ moved
  BY <1>1, <1>2, <1>3 DEF IsCommit
<1>5. \A i \in listed : ~all[i].dropped
  BY <1>1, <1>2
<1>6. ASSUME NEW i \in listed \ m.failed, i \in Id
      PROVE  i \in ToldRows(m) /\ all[i].of = m.mine[i].of
  <2>1. all[i].anchor = feature[i].anchor /\ all[i].anchor \in m.filled /\ all[i].of = Seen(m, i).of
    BY <1>1, <1>6
  <2>2. feature[i].anchor \in m.tried
    BY <2>1 DEF SessionKnows
  <2>3. i \in DOMAIN m.mine
    BY <1>6, <2>2 DEF SessionTells
  <2>4. m.mine[i].anchor = feature[i].anchor
    BY <1>6, <2>3 DEF MovedRows, SessionKnows
  <2> QED
    BY <1>6, <2>1, <2>2, <2>3, <2>4 DEF ToldRows, Seen
<1>7. ASSUME NEW i \in listed \ m.failed, NEW j \in listed \ m.failed, i # j
      PROVE  all[i].of \cap all[j].of = {}
  <2>1. CASE i \in Id /\ j \in Id
    BY <1>6, <1>7, <2>1 DEF SessionTells
  <2>2. CASE i \notin Id /\ j \notin Id
    BY <1>7, <2>2 DEF SessionTells, IsCommit
  <2>3. CASE i \notin Id /\ j \in Id
    <3>1. all[i] \in m.fresh /\ j \in ToldRows(m) /\ all[j].of = m.mine[j].of
      BY <1>6, <2>3 DEF IsCommit
    <3> QED
      BY <3>1 DEF SessionTells
  <2>4. CASE i \in Id /\ j \notin Id
    <3>1. all[j] \in m.fresh /\ i \in ToldRows(m) /\ all[i].of = m.mine[i].of
      BY <1>6, <2>4 DEF IsCommit
    <3>2. all[j].of \cap m.mine[i].of = {}
      BY <3>1 DEF SessionTells
    <3> QED
      BY <3>1, <3>2
  <2> QED
    BY <2>1, <2>2, <2>3, <2>4
<1>8. (Listed \ last.moved)' = listed
  BY DEF Listed, Id
<1>9. /\ last'.filled = {i \in DOMAIN all : all[i].anchor \in m.filled} /\ last'.failed = m.failed /\ last'.moved = moved
  OBVIOUS
<1> HIDE DEF listed, moved
<1> QED
  BY <1>4, <1>5, <1>7, <1>8, <1>9 DEF TopIsOfTheRun

\* It leaves no audio of an older text, but where the synthesis failed.
LEMMA VoicesCommitted ==
    ASSUME TimelinesType, VoiceIsOfThePage, ~over, NEW m \in RunSession, SessionKnows(m, texts),
           NEW all, IsCommit(m, all), feature' = all,
           mute' = {i \in DOMAIN all : IF i \notin Id THEN all[i].voice # all[i].text
                                       ELSE IF Rewritten(m, i) THEN m.mine[i].voice # m.mine[i].text ELSE i \in mute}
    PROVE  VoiceIsOfThePage'
<1> SUFFICES ASSUME NEW i \in DOMAIN all PROVE all[i].voice \in {0, all[i].text} \/ i \in mute'
  BY DEF VoiceIsOfThePage, Id
<1>1. CASE i \notin Id
  BY <1>1
<1>2. CASE i \in Id /\ Rewritten(m, i)
  <2>1. i \in DOMAIN m.mine /\ m.mine[i].text # m.loaded[i].text
    BY <1>2 DEF Rewritten
  <2>2. m.loaded[i].voice < m.mine[i].text /\ m.mine[i] \in TimelineRow /\ m.loaded[i] \in TimelineRow
    BY <2>1, RowsAre DEF SessionKnows, RunSession
  <2>3. all[i].text = m.mine[i].text /\ all[i].voice = Kept(feature[i].voice, m.loaded[i].voice, m.mine[i].voice)
    BY <1>2, <2>1, MergedIs DEF IsCommit
  <2>4. CASE m.mine[i].voice # m.mine[i].text
    BY <1>2, <2>4
  <2>5. CASE m.mine[i].voice = m.mine[i].text
    <3>1. m.mine[i].voice # m.loaded[i].voice
      BY <2>2, <2>5 DEF TimelineRow
    <3> QED
      BY <2>3, <2>5, <3>1 DEF Kept
  <2> QED
    BY <2>4, <2>5
<1>3. CASE i \in Id /\ ~Rewritten(m, i)
  <2>1. feature[i].voice \in {0, feature[i].text} \/ i \in mute
    BY <1>3 DEF VoiceIsOfThePage
  <2>2. all[i].text = feature[i].text /\ all[i].voice = feature[i].voice
    <3>1. CASE i \notin DOMAIN m.mine
      BY <1>3, <3>1, MergedIs DEF IsCommit
    <3>2. CASE i \in DOMAIN m.mine
      <4>1. m.mine[i].text = m.loaded[i].text /\ m.loaded[i].text = feature[i].text /\ m.mine[i].voice = m.loaded[i].voice
        BY <1>3, <3>2 DEF Rewritten, SessionKnows
      <4>2. all[i].text = m.mine[i].text /\ all[i].voice = Kept(feature[i].voice, m.loaded[i].voice, m.mine[i].voice)
        BY <1>3, <3>2, MergedIs DEF IsCommit
      <4> QED
        BY <4>1, <4>2 DEF Kept
    <3> QED
      BY <3>1, <3>2
  <2>3. i \in mute => i \in mute'
    BY <1>3
  <2> QED
    BY <2>1, <2>2, <2>3
<1> QED
  BY <1>1, <1>2, <1>3

\* A function on 1 .. n is a sequence of n.
LEMMA ListOf ==
    ASSUME NEW S, NEW n \in Nat, NEW f \in [1 .. n -> S]
    PROVE  f \in Seq(S) /\ Len(f) = n
<1>1. f \in Seq(S)
  BY SeqDef
<1>2. Len(f) \in Nat /\ DOMAIN f = 1 .. Len(f) /\ DOMAIN f = 1 .. n
  BY <1>1
<1> QED
  BY <1>1, <1>2

\* q is s and then t.
IsJoined(q, s, t) == q = s \o t

\* The elements of s and t, where q has them.
TellsJoin(q, s, t, n, c) ==
    /\ Len(q) = n + c /\ \A i \in 1 .. n : q[i] = s[i]
    /\ \A i \in Nat : \A k \in 1 .. c : i = n + k => q[i] = t[k]

\* Each is where the concatenation says.
LEMMA ListsJoined ==
    ASSUME NEW S, NEW s, s \in Seq(S), NEW t, t \in Seq(S), NEW n \in Nat, n = Len(s), NEW c \in Nat, c = Len(t), NEW q, IsJoined(q, s, t)
    PROVE  q \in Seq(S) /\ TellsJoin(q, s, t, n, c)
  BY DEF IsJoined, TellsJoin

\* The rows of the merged session and then the new ones.
LEMMA CommitIs ==
    ASSUME TimelinesType, NEW m \in RunSession, IsFiniteSet(m.fresh), NEW new, new \in [1 .. Cardinality(m.fresh) -> m.fresh],
           \A x, y \in DOMAIN new : x # y => new[x] # new[y], NEW all, IsJoined(all, [i \in Id |-> Merged(m, i)], new),
           \A x, y \in DOMAIN all : x # y => all[x].anchor # all[y].anchor
    PROVE  IsCommit(m, all)
<1> DEFINE merged == [i \in Id |-> Merged(m, i)]
           n == Len(feature)
           c == Cardinality(m.fresh)
<1>1. n \in Nat /\ Id = 1 .. n
  BY DEF TimelinesType, Id
<1>2. c \in Nat
  BY FS_CardinalityType
<1>3. merged \in Seq(TimelineRow) /\ Len(merged) = n /\ \A i \in Id : merged[i] = Merged(m, i)
  <2>1. \A i \in Id : Merged(m, i) \in TimelineRow
    BY MergedType
  <2>2. merged \in [1 .. n -> TimelineRow]
    BY <1>1, <2>1
  <2> HIDE DEF n, merged
  <2>3. merged \in Seq(TimelineRow) /\ Len(merged) = n
    BY <1>1, <2>2, ListOf
  <2> QED
    BY <2>3 DEF merged
<1>4. new \in Seq(TimelineRow) /\ Len(new) = c /\ \A i \in 1 .. c : new[i] \in m.fresh
  <2>1. m.fresh \subseteq TimelineRow
    BY DEF RunSession
  <2>2. new \in [1 .. c -> TimelineRow]
    BY <2>1
  <2> HIDE DEF c
  <2>3. new \in Seq(TimelineRow) /\ Len(new) = c
    BY <1>2, <2>2, ListOf
  <2>4. \A i \in 1 .. c : new[i] \in m.fresh
    BY DEF c
  <2> QED
    BY <2>3, <2>4
<1> HIDE DEF merged, n, c
<1>5. IsJoined(all, merged, new)
  BY DEF merged
<1>6. /\ all \in Seq(TimelineRow) /\ Len(all) = n + c
      /\ \A i \in 1 .. n : all[i] = merged[i]
      /\ \A i \in Nat : \A k \in 1 .. c : i = n + k => all[i] = new[k]
  <2>1. merged \in Seq(TimelineRow) /\ new \in Seq(TimelineRow) /\ n = Len(merged) /\ c = Len(new)
    BY <1>3, <1>4
  <2>2. all \in Seq(TimelineRow) /\ TellsJoin(all, merged, new, n, c)
    BY <1>1, <1>2, <1>5, <2>1, ListsJoined
  <2> QED
    BY <2>2 DEF TellsJoin
<1>7. DOMAIN all = 1 .. n + c /\ DOMAIN new = 1 .. c
  BY <1>1, <1>2, <1>4, <1>6
<1>8. \A i \in Id : i \in DOMAIN all /\ all[i] = Merged(m, i)
  BY <1>1, <1>2, <1>3, <1>6, <1>7
<1>9. \A i \in DOMAIN all \ Id : i - n \in 1 .. c /\ all[i] = new[i - n]
  <2> SUFFICES ASSUME NEW i \in DOMAIN all \ Id PROVE i - n \in 1 .. c /\ all[i] = new[i - n]
    OBVIOUS
  <2>1. i \in Nat /\ i - n \in 1 .. c /\ i = n + (i - n)
    BY <1>1, <1>2, <1>7
  <2> QED
    BY <1>6, <2>1
<1>10. \A i, j \in DOMAIN all \ Id : i # j => all[i] # all[j]
  <2> SUFFICES ASSUME NEW i \in DOMAIN all \ Id, NEW j \in DOMAIN all \ Id, i # j PROVE all[i] # all[j]
    OBVIOUS
  <2>1. i - n # j - n
    BY <1>1, <1>2, <1>7
  <2> QED
    BY <1>7, <1>9, <2>1
<1> QED
  BY <1>4, <1>6, <1>8, <1>9, <1>10 DEF IsCommit

\* A session that was crossed keeps what holds whatever the others do.
LEMMA CrossedIs ==
    ASSUME NEW m \in {Waits} \cup RunSession, NEW now, m # Waits => SessionSound(m, now)
    PROVE  /\ Crossed(m) \in {Waits} \cup RunSession
           /\ Crossed(m) # Waits => Crossed(m).crossed /\ SessionSound(Crossed(m), now)
<1>1. CASE m = Waits
  BY <1>1 DEF Crossed
<1>2. CASE m # Waits
  <2> DEFINE l == [m EXCEPT !.crossed = TRUE]
  <2>1. m \in RunSession /\ Crossed(m) = l
    BY <1>2 DEF Crossed
  <2>2. l \in RunSession /\ l.crossed /\ l.open = m.open /\ l.chains = m.chains /\ l.fresh = m.fresh /\ l.mine = m.mine
    BY <2>1 DEF RunSession
  <2> HIDE DEF l
  <2>3. SessionSound(l, now)
    BY <1>2, <2>2 DEF SessionSound
  <2> QED
    BY <2>1, <2>2, <2>3
<1> QED
  BY <1>1, <1>2

\* A commit that two rows at one anchor have lost, and one that is there.
LostCommit(g) == gen' = [gen EXCEPT ![g] = Waits] /\ UNCHANGED <<feature, last, mute, over>>
MadeCommit(g, m, all) ==
    /\ IsCommit(m, all) /\ feature' = all
    /\ last' = [filled |-> {i \in DOMAIN all : all[i].anchor \in m.filled}, failed |-> m.failed, moved |-> MovedRows(m)]
    /\ mute' = {i \in DOMAIN all : IF i \notin Id THEN all[i].voice # all[i].text
                                    ELSE IF Rewritten(m, i) THEN m.mine[i].voice # m.mine[i].text ELSE i \in mute}
    /\ over' = (over \/ m.crossed \/ m.start # Marks)
    /\ gen' = [h \in Generation |-> IF h = g THEN Waits ELSE Crossed(gen[h])]

\* A commit is one or the other.
LEMMA CommitMakes ==
    ASSUME TimelinesInv, NEW g \in Generation, CommitRun(g)
    PROVE  LostCommit(g) \/ \E all : MadeCommit(g, gen[g], all)
<1> DEFINE m == gen[g]
           merged == [i \in Id |-> Merged(m, i)]
<1>1. TimelinesType /\ RowsApart /\ SessionsAreFit /\ TopIsOfTheRun /\ VoiceIsOfThePage
  BY DEF TimelinesInv
<1>2. m \in RunSession /\ m # Waits
  BY <1>1, Working DEF CommitRun, Done
<1>3. SessionSound(m, texts) /\ (~m.crossed => SessionKnows(m, texts) /\ SessionTells(m))
  BY <1>1, <1>2 DEF SessionsAreFit, SessionFits
<1>4. texts' = texts /\ narrator' = narrator /\ texts \in Nat
  BY <1>1 DEF CommitRun, TimelinesType
<1>5. PICK new \in {f \in [1 .. Cardinality(m.fresh) -> m.fresh] : \A x, y \in DOMAIN f : x # y => f[x] # f[y]} :
        LET all == merged \o new IN
        IF \E x, y \in DOMAIN all : x # y /\ all[x].anchor = all[y].anchor
        THEN gen' = [gen EXCEPT ![g] = Waits] /\ UNCHANGED <<feature, last, mute, over>>
        ELSE /\ Len(all) <= MaxFeatures
             /\ feature' = all
             /\ last' = [filled |-> {i \in DOMAIN all : all[i].anchor \in m.filled}, failed |-> m.failed,
                         moved |-> {i \in DOMAIN m.mine : m.mine[i].anchor # m.loaded[i].anchor}]
             /\ mute' = {i \in DOMAIN all : IF i \notin Id THEN all[i].voice # all[i].text
                                             ELSE IF Rewritten(m, i) THEN m.mine[i].voice # m.mine[i].text ELSE i \in mute}
             /\ over' = (over \/ m.crossed \/ m.start # Marks)
             /\ gen' = [h \in Generation |-> IF h = g THEN Waits ELSE Crossed(gen[h])]
  BY DEF CommitRun
<1> HIDE DEF m
<1>6. PICK all : all = merged \o new
  OBVIOUS
<1>7. CASE \E x, y \in DOMAIN all : x # y /\ all[x].anchor = all[y].anchor
  BY <1>5, <1>6, <1>7 DEF LostCommit
<1>8. CASE ~(\E x, y \in DOMAIN all : x # y /\ all[x].anchor = all[y].anchor)
  <2>1. /\ feature' = all
        /\ last' = [filled |-> {i \in DOMAIN all : all[i].anchor \in m.filled}, failed |-> m.failed, moved |-> MovedRows(m)]
        /\ mute' = {i \in DOMAIN all : IF i \notin Id THEN all[i].voice # all[i].text
                                        ELSE IF Rewritten(m, i) THEN m.mine[i].voice # m.mine[i].text ELSE i \in mute}
        /\ over' = (over \/ m.crossed \/ m.start # Marks)
        /\ gen' = [h \in Generation |-> IF h = g THEN Waits ELSE Crossed(gen[h])]
    BY <1>5, <1>6, <1>8 DEF MovedRows
  <2>2. IsCommit(m, all)
    <3>1. IsFiniteSet(m.fresh)
      BY <1>3 DEF SessionSound
    <3> QED
      BY <1>1, <1>2, <1>5, <1>6, <1>8, <3>1, CommitIs, ZenonT(60) DEF IsJoined
  <2>3. MadeCommit(g, m, all)
    BY <2>1, <2>2 DEF MadeCommit
  <2> QED
    BY <2>3 DEF m
<1> QED
  BY <1>7, <1>8

\* A commit keeps the invariant: it crosses every other session.
LEMMA CommitFits ==
    ASSUME TimelinesInv, NEW g \in Generation, CommitRun(g)
    PROVE  TimelinesInv'
<1> DEFINE m == gen[g]
<1>1. TimelinesType /\ RowsApart /\ SessionsAreFit /\ TopIsOfTheRun /\ VoiceIsOfThePage
  BY DEF TimelinesInv
<1>2. m \in RunSession /\ m # Waits
  BY <1>1, Working DEF CommitRun, Done
<1>3. SessionSound(m, texts) /\ (~m.crossed => SessionKnows(m, texts) /\ SessionTells(m))
  BY <1>1, <1>2 DEF SessionsAreFit, SessionFits
<1>4. texts' = texts /\ narrator' = narrator /\ texts \in Nat
  BY <1>1 DEF CommitRun, TimelinesType
<1>7. CASE LostCommit(g)
  <2>1. PICK l : l = Waits
    OBVIOUS
  <2>2. gen' = [gen EXCEPT ![g] = l] /\ UNCHANGED <<feature, narrator, last, mute, over>> /\ texts' \in Nat /\ texts <= texts'
    BY <1>4, <1>7, <2>1 DEF LostCommit
  <2> QED
    BY <2>1, <2>2, WorkKeeps
<1>8. CASE \E all : MadeCommit(g, m, all)
  <2> HIDE DEF m
  <2>0. PICK all : MadeCommit(g, m, all)
    BY <1>8
  <2>1. /\ feature' = all
        /\ last' = [filled |-> {i \in DOMAIN all : all[i].anchor \in m.filled}, failed |-> m.failed, moved |-> MovedRows(m)]
        /\ mute' = {i \in DOMAIN all : IF i \notin Id THEN all[i].voice # all[i].text
                                        ELSE IF Rewritten(m, i) THEN m.mine[i].voice # m.mine[i].text ELSE i \in mute}
        /\ over' = (over \/ m.crossed \/ m.start # Marks)
        /\ gen' = [h \in Generation |-> IF h = g THEN Waits ELSE Crossed(gen[h])]
    BY <2>0 DEF MadeCommit
  <2>2. IsCommit(m, all)
    BY <2>0 DEF MadeCommit
  <2>3. all \in Seq(TimelineRow) /\ Id' = DOMAIN all /\ Id \subseteq DOMAIN all /\ DOMAIN all \subseteq Nat
    BY <2>1, <2>2 DEF IsCommit, Id
  <2>4. \A h \in Generation : gen[h] \in {Waits} \cup RunSession /\ (gen[h] # Waits => SessionSound(gen[h], texts))
    BY <1>1 DEF TimelinesType, SessionsAreFit, SessionFits
  <2>5. \A h \in Generation : /\ gen'[h] \in {Waits} \cup RunSession
                              /\ gen'[h] # Waits => gen'[h].crossed /\ SessionSound(gen'[h], texts)
    <3> SUFFICES ASSUME NEW h \in Generation
                 PROVE  /\ gen'[h] \in {Waits} \cup RunSession
                        /\ gen'[h] # Waits => gen'[h].crossed /\ SessionSound(gen'[h], texts)
      OBVIOUS
    <3>1. gen'[h] = IF h = g THEN Waits ELSE Crossed(gen[h])
      BY <2>1
    <3> QED
      BY <2>4, <3>1, CrossedIs
  <2>6. TimelinesType'
    <3>1. last' \in [filled : SUBSET Nat, moved : SUBSET Nat, failed : SUBSET Nat]
      <4>1. m.failed \subseteq Nat /\ MovedRows(m) \subseteq Nat
        BY <1>2, RowsAre DEF RunSession, MovedRows
      <4>2. {i \in DOMAIN all : all[i].anchor \in m.filled} \subseteq Nat
        BY <2>3
      <4> QED
        BY <2>1, <4>1, <4>2
    <3>2. mute' \subseteq Nat
      BY <2>1, <2>3
    <3>3. over' \in BOOLEAN
      BY <1>1, <1>2, <2>1 DEF TimelinesType, RunSession
    <3>4. gen' \in [Generation -> {Waits} \cup RunSession]
      BY <2>1, <2>5
    <3>5. feature' \in Seq(TimelineRow)
      BY <2>1, <2>3
    <3> QED
      BY <1>1, <1>4, <3>1, <3>2, <3>3, <3>4, <3>5 DEF TimelinesType
  <2>7. RowsApart'
    <3>1. \A i, j \in DOMAIN all : i # j => all[i].anchor # all[j].anchor
      BY <2>2 DEF IsCommit
    <3>2. ASSUME NEW i \in DOMAIN all PROVE all[i].text <= texts /\ all[i].voice <= texts
      <4>1. CASE i \notin Id
        BY <1>3, <2>2, <4>1 DEF IsCommit, SessionSound
      <4>2. CASE i \in Id
        <5>1. all[i].text \in {feature[i].text, Seen(m, i).text} /\ all[i].voice \in {feature[i].voice, Seen(m, i).voice}
          BY <1>1, <1>2, <2>2, <4>2, MergedType DEF IsCommit
        <5>2. feature[i].text <= texts /\ feature[i].voice <= texts
          BY <1>1, <4>2 DEF RowsApart
        <5>3. Seen(m, i).text <= texts /\ Seen(m, i).voice <= texts
          BY <1>3, <5>2 DEF Seen, SessionSound
        <5> QED
          BY <5>1, <5>2, <5>3
      <4> QED
        BY <4>1, <4>2
    <3>3. last'.filled \subseteq DOMAIN all
      BY <2>1
    <3>4. \A n \in Narrator : narrator'[n] # Waits => narrator'[n].row \in DOMAIN all /\ narrator'[n].text <= texts'
      BY <1>1, <1>4, <2>3 DEF RowsApart
    <3> QED
      BY <1>4, <2>1, <2>3, <3>1, <3>2, <3>3, <3>4 DEF RowsApart
  <2>8. SessionsAreFit'
    BY <1>4, <2>5 DEF SessionsAreFit, SessionFits, SessionSound
  <2>9. ASSUME ~over' PROVE TopIsOfTheRun' /\ VoiceIsOfThePage'
    <3>1. ~over /\ ~m.crossed /\ m.start = Marks
      BY <2>1, <2>9
    <3>2. DOMAIN m.start = Id
      BY <3>1 DEF Marks
    <3>3. TopIsOfTheRun'
      BY <1>1, <1>2, <1>3, <2>1, <2>2, <3>1, <3>2, TopCommitted
    <3>4. VoiceIsOfThePage'
      BY <1>1, <1>2, <1>3, <2>1, <2>2, <3>1, VoicesCommitted
    <3> QED
      BY <3>3, <3>4
  <2>10. TopIsOfTheRun' /\ VoiceIsOfThePage'
    BY <2>9 DEF TopIsOfTheRun, VoiceIsOfThePage
  <2> QED
    BY <2>6, <2>7, <2>8, <2>10 DEF TimelinesInv
<1> QED
  BY <1>7, <1>8, CommitMakes

-----------------------------------------------------------------------------
(* The desk, the narrations and the start of a run.                        *)

\* The sessions stay fit under the steps of the desk and the narrations.
LEMMA SessionsStay ==
    ASSUME TimelinesType, SessionsAreFit, RowsStay, texts' \in Nat, gen' = gen
    PROVE  SessionsAreFit'
<1> SUFFICES ASSUME NEW m \in {gen[h] : h \in Generation} PROVE SessionFits(m)'
  BY DEF SessionsAreFit
<1>1. m \in {Waits} \cup RunSession
  BY DEF TimelinesType
<1>2. SessionFits(m)
  BY DEF SessionsAreFit
<1> QED
  BY <1>1, <1>2, StillFits

\* Rows that the desk has picked or taken back, or picked as new.
RowsMarked ==
    /\ feature' \in Seq(TimelineRow) /\ Id \subseteq Id'
    /\ \A i \in Id :
        /\ feature'[i].anchor = feature[i].anchor /\ feature'[i].coherent = feature[i].coherent
        /\ feature'[i].of = feature[i].of /\ feature'[i].text = feature[i].text /\ feature'[i].voice = feature[i].voice
        /\ feature'[i].top = feature[i].top /\ feature'[i].dropped = feature[i].dropped
    /\ \A i \in Id' \ Id : feature'[i].coherent = "unjudged" /\ feature'[i].text = 0 /\ feature'[i].voice = 0
    /\ \A i, j \in Id' : i # j => feature'[i].anchor # feature'[j].anchor

\* The desk's marks keep the invariant.
LEMMA MarkKeeps ==
    ASSUME TimelinesInv, RowsMarked, UNCHANGED <<gen, narrator, texts, last, mute, over>>
    PROVE  TimelinesInv'
<1>1. TimelinesType /\ RowsApart /\ SessionsAreFit /\ TopIsOfTheRun /\ VoiceIsOfThePage
  BY DEF TimelinesInv
<1>2. TimelinesType'
  BY <1>1 DEF TimelinesType, RowsMarked
<1>3. texts \in Nat
  BY <1>1 DEF TimelinesType
<1>4. RowsApart'
  <2>1. \A i \in Id' : feature'[i].text <= texts /\ feature'[i].voice <= texts
    BY <1>1, <1>3 DEF RowsApart, RowsMarked
  <2> QED
    BY <1>1, <2>1 DEF RowsApart, RowsMarked
<1>5. RowsStay
  BY <1>3 DEF RowsStay, RowsMarked
<1>6. SessionsAreFit'
  BY <1>1, <1>3, <1>5, SessionsStay
<1>7. TopIsOfTheRun'
  <2>1. Listed' = Listed
    BY DEF Listed, RowsMarked
  <2>2. last.filled \subseteq Id /\ Listed \subseteq Id
    BY <1>1 DEF RowsApart, Listed
  <2> QED
    BY <1>1, <2>1, <2>2 DEF TopIsOfTheRun, RowsMarked
<1>8. VoiceIsOfThePage'
  BY <1>1 DEF VoiceIsOfThePage, RowsMarked
<1> QED
  BY <1>2, <1>4, <1>6, <1>7, <1>8 DEF TimelinesInv

\* A pick of a row, or of a cluster that has none.
LEMMA PickKeeps ==
    ASSUME TimelinesInv, NEW c \in Known, Pick(c)
    PROVE  TimelinesInv'
<1>1. feature \in Seq(TimelineRow) /\ RowsApart
  BY DEF TimelinesInv, TimelinesType
<1>2. Id = 1 .. Len(feature) /\ Len(feature) \in Nat /\ \A i \in Id : feature[i] \in TimelineRow
  BY <1>1 DEF Id
<1>3. CASE \E i \in Id : feature[i].anchor = c
  <2>1. feature' = [i \in Id |-> IF feature[i].anchor = c THEN [feature[i] EXCEPT !.pick = TRUE] ELSE feature[i]]
    BY <1>3 DEF Pick
  <2>2. ASSUME NEW i \in Id
        PROVE  /\ feature'[i] \in TimelineRow
               /\ feature'[i].anchor = feature[i].anchor /\ feature'[i].coherent = feature[i].coherent
               /\ feature'[i].of = feature[i].of /\ feature'[i].text = feature[i].text /\ feature'[i].voice = feature[i].voice
               /\ feature'[i].top = feature[i].top /\ feature'[i].dropped = feature[i].dropped
    <3>1. feature'[i] = [feature[i] EXCEPT !.pick = TRUE] \/ feature'[i] = feature[i]
      BY <2>1
    <3> QED
      BY <1>2, <3>1 DEF TimelineRow
  <2>3. feature' \in [1 .. Len(feature) -> TimelineRow]
    BY <1>2, <2>1, <2>2
  <2>4. feature' \in Seq(TimelineRow) /\ Id' = Id
    <3>1. feature' \in Seq(TimelineRow)
      BY <1>2, <2>3, ListOf
    <3> QED
      BY <1>2, <2>3, <3>1 DEF Id
  <2>5. RowsMarked
    BY <1>1, <2>2, <2>4 DEF RowsMarked, RowsApart
  <2> QED
    BY <2>5, MarkKeeps DEF Pick
<1>4. CASE ~\E i \in Id : feature[i].anchor = c
  <2> DEFINE u == Unwritten(c, TRUE)
  <2>1. feature' = Append(feature, u)
    BY <1>4 DEF Pick
  <2>2. u \in TimelineRow /\ u.anchor = c /\ u.coherent = "unjudged" /\ u.text = 0 /\ u.voice = 0
    BY DEF Unwritten, TimelineRow
  <2> HIDE DEF u
  <2>3. /\ feature' \in Seq(TimelineRow) /\ Len(feature') = Len(feature) + 1
        /\ \A i \in 1 .. Len(feature) : feature'[i] = feature[i]
        /\ feature'[Len(feature) + 1] = u
    BY <1>1, <2>1, <2>2, AppendProperties
  <2>4. Id' = 1 .. Len(feature) + 1
    BY <2>3 DEF Id
  <2>5. Id \subseteq Id' /\ \A i \in Id' \ Id : feature'[i] = u /\ i = Len(feature) + 1
    BY <1>2, <2>3, <2>4
  <2>6. \A i \in Id : feature'[i] = feature[i]
    BY <1>2, <2>3
  <2>7. \A i, j \in Id' : i # j => feature'[i].anchor # feature'[j].anchor
    BY <1>1, <1>4, <2>2, <2>5, <2>6 DEF RowsApart
  <2>8. RowsMarked
    BY <2>2, <2>3, <2>5, <2>6, <2>7 DEF RowsMarked
  <2> QED
    BY <2>8, MarkKeeps DEF Pick
<1> QED
  BY <1>3, <1>4

\* A pick taken back.
LEMMA UnpickKeeps ==
    ASSUME TimelinesInv, NEW i \in Id, Unpick(i)
    PROVE  TimelinesInv'
<1>1. feature \in Seq(TimelineRow) /\ RowsApart /\ \A j \in Id : feature[j] \in TimelineRow
  BY DEF TimelinesInv, TimelinesType, Id
<1>2. feature' = [feature EXCEPT ![i] = [feature[i] EXCEPT !.pick = FALSE]]
  BY DEF Unpick
<1>3. [feature[i] EXCEPT !.pick = FALSE] \in TimelineRow
  BY <1>1 DEF TimelineRow
<1>4. feature' \in Seq(TimelineRow) /\ Id' = Id
  BY <1>1, <1>2, <1>3 DEF Id
<1>5. ASSUME NEW j \in Id
      PROVE  /\ feature'[j].anchor = feature[j].anchor /\ feature'[j].coherent = feature[j].coherent
             /\ feature'[j].of = feature[j].of /\ feature'[j].text = feature[j].text /\ feature'[j].voice = feature[j].voice
             /\ feature'[j].top = feature[j].top /\ feature'[j].dropped = feature[j].dropped
  <2>1. feature'[j] = IF j = i THEN [feature[i] EXCEPT !.pick = FALSE] ELSE feature[j]
    BY <1>2 DEF Id
  <2> QED
    BY <1>1, <2>1 DEF TimelineRow
<1>6. RowsMarked
  BY <1>1, <1>4, <1>5 DEF RowsMarked, RowsApart
<1> QED
  BY <1>6, MarkKeeps DEF Unpick

\* What a narration reads keeps the invariant.
LEMMA NarratorKeeps ==
    ASSUME TimelinesInv, UNCHANGED <<feature, gen, texts, last, mute, over>>,
           narrator' \in [Narrator -> {Waits} \cup NarrationOf],
           \A n \in Narrator : narrator'[n] # Waits => narrator'[n].row \in Id /\ narrator'[n].text <= texts
    PROVE  TimelinesInv'
<1>1. TimelinesType /\ RowsApart /\ SessionsAreFit /\ TopIsOfTheRun /\ VoiceIsOfThePage
  BY DEF TimelinesInv
<1>2. Id' = Id /\ texts \in Nat
  BY <1>1 DEF Id, TimelinesType
<1>3. TimelinesType'
  BY <1>1 DEF TimelinesType
<1>4. RowsApart'
  BY <1>1, <1>2 DEF RowsApart
<1>5. RowsStay
  BY <1>2 DEF RowsStay
<1>6. SessionsAreFit'
  BY <1>1, <1>2, <1>5, SessionsStay
<1>7. TopIsOfTheRun' /\ VoiceIsOfThePage'
  BY <1>1, <1>2 DEF TopIsOfTheRun, VoiceIsOfThePage, Listed
<1> QED
  BY <1>3, <1>4, <1>6, <1>7 DEF TimelinesInv

\* A narration that starts.
LEMMA StartNarrationKeeps ==
    ASSUME TimelinesInv, NEW n \in Narrator, NEW i \in Id, StartNarration(n, i)
    PROVE  TimelinesInv'
<1> DEFINE v == [pc |-> "voicing", row |-> i, text |-> feature[i].text]
<1>1. TimelinesType /\ RowsApart
  BY DEF TimelinesInv
<1>2. feature[i] \in TimelineRow /\ i \in Nat /\ feature[i].text <= texts
  BY <1>1 DEF TimelinesType, RowsApart, Id
<1>3. v \in NarrationOf /\ v.row \in Id /\ v.text <= texts
  BY <1>2 DEF NarrationOf, TimelineRow
<1> HIDE DEF v
<1>4. narrator' = [narrator EXCEPT ![n] = v]
  BY DEF StartNarration, v
<1>5. narrator' \in [Narrator -> {Waits} \cup NarrationOf]
  BY <1>1, <1>3, <1>4 DEF TimelinesType
<1>6. \A x \in Narrator : narrator'[x] # Waits => narrator'[x].row \in Id /\ narrator'[x].text <= texts
  BY <1>1, <1>3, <1>4 DEF TimelinesType, RowsApart
<1> QED
  BY <1>5, <1>6, NarratorKeeps DEF StartNarration

\* A narration at work.
LEMMA Narrating ==
    ASSUME TimelinesType, RowsApart, NEW n \in Narrator, narrator[n].pc \in {"voicing", "save"}
    PROVE  narrator[n] \in NarrationOf /\ narrator[n] # Waits /\ narrator[n].row \in Id /\ narrator[n].text <= texts
<1>1. narrator[n] # Waits
  BY DEF Waits
<1> QED
  BY <1>1 DEF TimelinesType, RowsApart

\* A narration that goes on, or is stopped.
LEMMA CheckNarrationKeeps ==
    ASSUME TimelinesInv, NEW n \in Narrator, NEW ok \in BOOLEAN, CheckNarration(n, ok)
    PROVE  TimelinesInv'
<1> DEFINE v == narrator[n]
           s == [v EXCEPT !.pc = "save"]
<1>1. TimelinesType /\ RowsApart
  BY DEF TimelinesInv
<1>2. v \in NarrationOf /\ v.row \in Id /\ v.text <= texts
  BY <1>1, Narrating DEF CheckNarration
<1>3. s \in NarrationOf /\ s.row = v.row /\ s.text = v.text
  BY <1>2 DEF NarrationOf
<1>4. PICK w \in {Waits, s} : narrator' = [narrator EXCEPT ![n] = w]
  BY DEF CheckNarration
<1> HIDE DEF s, v
<1>5. narrator' \in [Narrator -> {Waits} \cup NarrationOf]
  BY <1>1, <1>3, <1>4 DEF TimelinesType
<1>6. \A x \in Narrator : narrator'[x] # Waits => narrator'[x].row \in Id /\ narrator'[x].text <= texts
  BY <1>1, <1>2, <1>3, <1>4 DEF TimelinesType, RowsApart
<1> QED
  BY <1>5, <1>6, NarratorKeeps DEF CheckNarration

\* A narration that is stored: the voice of a row is of its text, or the row has changed (over).
LEMMA SaveNarrationKeeps ==
    ASSUME TimelinesInv, NEW n \in Narrator, SaveNarration(n)
    PROVE  TimelinesInv'
<1> DEFINE v == narrator[n]
<1>1. TimelinesType /\ RowsApart /\ SessionsAreFit /\ TopIsOfTheRun /\ VoiceIsOfThePage
  BY DEF TimelinesInv
<1>2. v \in NarrationOf /\ v.row \in Id /\ v.text <= texts
  BY <1>1, Narrating DEF SaveNarration
<1>3. texts' = texts /\ texts \in Nat /\ gen' = gen /\ last' = last /\ v.text \in Nat
  BY <1>1, <1>2 DEF TimelinesType, SaveNarration, NarrationOf
<1>4. feature \in Seq(TimelineRow) /\ \A j \in Id : feature[j] \in TimelineRow
  BY <1>1 DEF TimelinesType, Id
<1>5. feature' = [feature EXCEPT ![v.row] = [feature[v.row] EXCEPT !.voice = v.text]]
  BY DEF SaveNarration
<1>6. /\ narrator' = [narrator EXCEPT ![n] = Waits]
      /\ mute' = IF feature[v.row].text = v.text THEN mute \ {v.row} ELSE mute
      /\ over' = (over \/ ~(feature[v.row].text = v.text))
  BY DEF SaveNarration, SameText
<1> HIDE DEF v
<1>7. [feature[v.row] EXCEPT !.voice = v.text] \in TimelineRow
  BY <1>2, <1>3, <1>4 DEF TimelineRow
<1>8. feature' \in Seq(TimelineRow) /\ Id' = Id
  BY <1>2, <1>4, <1>5, <1>7 DEF Id
<1>9. ASSUME NEW j \in Id
      PROVE  /\ feature'[j].anchor = feature[j].anchor /\ feature'[j].coherent = feature[j].coherent
             /\ feature'[j].of = feature[j].of /\ feature'[j].text = feature[j].text
             /\ feature'[j].top = feature[j].top /\ feature'[j].dropped = feature[j].dropped
             /\ feature'[j].voice = IF j = v.row THEN v.text ELSE feature[j].voice
  <2>1. feature'[j] = IF j = v.row THEN [feature[v.row] EXCEPT !.voice = v.text] ELSE feature[j]
    BY <1>2, <1>5 DEF Id
  <2> QED
    BY <1>4, <2>1 DEF TimelineRow
<1>10. TimelinesType'
  <2>1. narrator' \in [Narrator -> {Waits} \cup NarrationOf]
    BY <1>1, <1>6 DEF TimelinesType
  <2>2. mute' \subseteq Nat /\ over' \in BOOLEAN
    BY <1>1, <1>6 DEF TimelinesType
  <2> QED
    BY <1>1, <1>3, <1>8, <2>1, <2>2 DEF TimelinesType
<1>11. RowsApart'
  <2>1. \A j \in Id : feature'[j].text <= texts /\ feature'[j].voice <= texts
    BY <1>1, <1>2, <1>9 DEF RowsApart
  <2>2. \A x \in Narrator : narrator'[x] # Waits => narrator[x] # Waits /\ narrator'[x] = narrator[x]
    BY <1>1, <1>6 DEF TimelinesType
  <2> QED
    BY <1>1, <1>3, <1>8, <1>9, <2>1, <2>2 DEF RowsApart
<1>12. RowsStay
  BY <1>3, <1>8, <1>9 DEF RowsStay
<1>13. SessionsAreFit'
  BY <1>1, <1>3, <1>12, SessionsStay
<1>14. TopIsOfTheRun'
  <2>1. Listed' = Listed
    BY <1>8, <1>9 DEF Listed
  <2>2. last.filled \subseteq Id /\ Listed \subseteq Id
    BY <1>1 DEF RowsApart, Listed
  <2> QED
    BY <1>1, <1>3, <1>6, <1>9, <2>1, <2>2, ZenonT(60) DEF TopIsOfTheRun
<1>15. VoiceIsOfThePage'
  <2> SUFFICES ASSUME ~over', NEW j \in Id PROVE feature'[j].voice \in {0, feature'[j].text} \/ j \in mute'
    BY <1>8 DEF VoiceIsOfThePage
  <2>1. ~over /\ feature[v.row].text = v.text
    BY <1>6
  <2>2. feature[j].voice \in {0, feature[j].text} \/ j \in mute
    BY <1>1, <2>1 DEF VoiceIsOfThePage
  <2> QED
    BY <1>6, <1>9, <2>1, <2>2
<1> QED
  BY <1>10, <1>11, <1>13, <1>14, <1>15 DEF TimelinesInv

\* A run that starts.
LEMMA StartKeeps ==
    ASSUME TimelinesInv, NEW g \in Generation, NEW chains \in Chains, StartGeneration(g, chains)
    PROVE  TimelinesInv'
<1>1. PICK l : l = gen'[g]
  OBVIOUS
<1>2. l \in RunSession /\ SessionFits(l)
  BY <1>1, StartFits
<1>3. UNCHANGED <<feature, narrator, last, mute, over>> /\ texts' = texts /\ texts \in Nat
  BY DEF StartGeneration, TimelinesInv, TimelinesType
<1>4. gen' = [gen EXCEPT ![g] = l]
  BY <1>1 DEF StartGeneration, TimelinesInv, TimelinesType
<1>5. FitNow(l)
  BY <1>2, <1>3 DEF FitNow, SessionFits, RunSession, Waits
<1>6. UNCHANGED <<feature, narrator, last, mute, over>> /\ texts' \in Nat /\ texts <= texts'
  BY <1>3
<1> QED
  BY <1>4, <1>5, <1>6, WorkKeeps

\* A pick that the session leaves one is one after the commit.
LEMMA MergedPick ==
    ASSUME TimelinesType, NEW m \in RunSession, NEW i \in Id, feature[i].pick, Seen(m, i).pick
    PROVE  Merged(m, i).pick
<1> DEFINE now == feature[i].pick
           is == Swept(m, i).pick
           was == (IF i \in DOMAIN m.loaded THEN m.loaded[i] ELSE feature[i]).pick
<1>1. Merged(m, i).pick = IF is = was THEN now ELSE is
  BY DEF Merged, Kept
<1>2. is = Seen(m, i).pick
  BY SweptIs
<1> HIDE DEF is, was
<1> QED
  BY <1>1, <1>2

\* No run loses the mark of a pick.
LEMMA PicksCommitted ==
    ASSUME TimelinesInv, NEW g \in Generation, CommitRun(g), gen' # gen, ~over', NEW i \in Id, feature[i].pick
    PROVE  feature'[i].pick \/ i \in gen[g].passed
<1> DEFINE m == gen[g]
<1>1. TimelinesType /\ SessionsAreFit
  BY DEF TimelinesInv
<1>2. m \in RunSession /\ m # Waits /\ m.picks = {}
  BY <1>1, Working DEF CommitRun, Done
<1>3. ~m.crossed => SessionKnows(m, texts) /\ SessionKeepsPicks(m)
  BY <1>1, <1>2 DEF SessionsAreFit, SessionFits
<1> HIDE DEF m
<1>4. CASE LostCommit(g)
  BY <1>4 DEF LostCommit
<1>5. CASE \E all : MadeCommit(g, m, all)
  <2>1. PICK all : MadeCommit(g, m, all)
    BY <1>5
  <2>2. feature' = all /\ all[i] = Merged(m, i) /\ ~m.crossed /\ m.start = Marks
    BY <2>1 DEF MadeCommit, IsCommit
  <2>3. i \in DOMAIN m.start /\ m.start[i]
    BY <2>2 DEF Marks
  <2>4. i \in DOMAIN m.mine /\ (i \in m.passed \/ m.mine[i].pick)
    BY <1>2, <1>3, <2>2, <2>3 DEF SessionKeepsPicks
  <2>5. SessionKnows(m, texts) /\ Seen(m, i) = m.mine[i]
    BY <1>3, <2>2, <2>4 DEF Seen
  <2>6. m.mine[i].pick => Merged(m, i).pick
    BY <1>1, <1>2, <2>5, MergedPick
  <2>7. m.mine[i].pick => feature'[i].pick
    BY <2>2, <2>6
  <2> QED
    BY <2>4, <2>7 DEF m
<1> QED
  BY <1>4, <1>5, CommitMakes DEF m

\* The invariant holds at the start.
LEMMA TimelinesStart ==
    ASSUME TimelinesInit
    PROVE  TimelinesInv
<1>1. TimelinesType
  <2>1. feature \in Seq(TimelineRow)
    BY EmptySeq DEF TimelinesInit
  <2>2. gen \in [Generation -> {Waits} \cup RunSession] /\ narrator \in [Narrator -> {Waits} \cup NarrationOf]
    BY DEF TimelinesInit
  <2> QED
    BY <2>1, <2>2 DEF TimelinesInit, TimelinesType
<1>2. Id = {}
  BY DEF TimelinesInit, Id
<1>3. RowsApart /\ TopIsOfTheRun /\ VoiceIsOfThePage
  BY <1>2 DEF TimelinesInit, RowsApart, TopIsOfTheRun, VoiceIsOfThePage, Listed
<1>4. SessionsAreFit
  BY DEF TimelinesInit, SessionsAreFit, SessionFits
<1> QED
  BY <1>1, <1>3, <1>4 DEF TimelinesInv

\* A step as PickIsTheDesks has it.
PickStep ==
    (\E g \in Generation : gen'[g] # gen[g]) =>
        over' \/ \A i \in Id : feature[i].pick => feature'[i].pick
                    \/ \E g \in Generation : gen[g] # Waits /\ gen'[g] = Waits /\ i \in gen[g].passed

\* Every step keeps the invariant and the picks.
LEMMA TimelinesStep ==
    ASSUME TimelinesInv, [TimelinesNext]_tvars
    PROVE  TimelinesInv' /\ PickStep
<1> DEFINE Quiet == feature' = feature \/ gen' = gen
<1>0. Quiet => PickStep
  BY DEF PickStep, Id
<1>1. ASSUME NEW g \in Generation, NEW chains \in Chains, StartGeneration(g, chains)
      PROVE  TimelinesInv' /\ Quiet
  BY <1>1, StartKeeps DEF StartGeneration
<1>2. ASSUME NEW g \in Generation, NEW i \in Id, NextPick(g, i)
      PROVE  TimelinesInv' /\ Quiet
  <2>1. PICK l : gen' = [gen EXCEPT ![g] = l] /\ FitNow(l)
    BY <1>2, NextPickFits
  <2>2. UNCHANGED <<feature, narrator, last, mute, over>> /\ texts' \in Nat /\ texts <= texts'
    BY <1>2, NextPickFits DEF NextPick
  <2> QED
    BY <2>1, <2>2, WorkKeeps
<1>3. ASSUME NEW g \in Generation, NextChain(g)
      PROVE  TimelinesInv' /\ Quiet
  <2>1. PICK l : gen' = [gen EXCEPT ![g] = l] /\ FitNow(l)
    BY <1>3, NextChainFits
  <2>2. UNCHANGED <<feature, narrator, last, mute, over>> /\ texts' \in Nat /\ texts <= texts'
    BY <1>3, NextChainFits DEF NextChain
  <2> QED
    BY <2>1, <2>2, WorkKeeps
<1>4. ASSUME NEW g \in Generation, CommitRun(g)
      PROVE  TimelinesInv' /\ PickStep
  <2>1. TimelinesInv'
    BY <1>4, CommitFits
  <2>2. gen[g] # Waits /\ gen'[g] = Waits
    BY <1>4, Working DEF CommitRun, Done, TimelinesInv, TimelinesType
  <2>3. PickStep
    <3> SUFFICES ASSUME ~over', NEW i \in Id, feature[i].pick
                 PROVE  feature'[i].pick \/ \E h \in Generation : gen[h] # Waits /\ gen'[h] = Waits /\ i \in gen[h].passed
      BY DEF PickStep
    <3>1. gen' # gen
      BY <2>2
    <3>2. feature'[i].pick \/ i \in gen[g].passed
      BY <1>4, <3>1, PicksCommitted
    <3> QED
      BY <2>2, <3>2
  <2> QED
    BY <2>1, <2>3
<1>5. ASSUME NEW g \in Generation, LoseRun(g)
      PROVE  TimelinesInv' /\ Quiet
  <2>1. PICK l : l = Waits
    OBVIOUS
  <2>2. texts \in Nat
    BY DEF TimelinesInv, TimelinesType
  <2>3. /\ gen' = [gen EXCEPT ![g] = l] /\ UNCHANGED <<feature, narrator, last, mute, over>>
        /\ texts' \in Nat /\ texts <= texts'
    BY <1>5, <2>1, <2>2 DEF LoseRun
  <2> QED
    BY <2>1, <2>3, WorkKeeps
<1>6. ASSUME NEW c \in Known, Pick(c)
      PROVE  TimelinesInv' /\ Quiet
  BY <1>6, PickKeeps DEF Pick
<1>7. ASSUME NEW i \in Id, Unpick(i)
      PROVE  TimelinesInv' /\ Quiet
  BY <1>7, UnpickKeeps DEF Unpick
<1>8. ASSUME NEW i \in Id, NEW n \in Narrator, StartNarration(n, i)
      PROVE  TimelinesInv' /\ Quiet
  BY <1>8, StartNarrationKeeps DEF StartNarration
<1>9. ASSUME NEW n \in Narrator, SaveNarration(n)
      PROVE  TimelinesInv' /\ Quiet
  BY <1>9, SaveNarrationKeeps DEF SaveNarration
<1>10. ASSUME NEW n \in Narrator, NEW ok \in BOOLEAN, CheckNarration(n, ok)
       PROVE  TimelinesInv' /\ Quiet
  BY <1>10, CheckNarrationKeeps DEF CheckNarration
<1>11. CASE UNCHANGED tvars
  <2>1. UNCHANGED <<feature, gen, texts, last, mute, over>>
    BY <1>11 DEF tvars
  <2>2. /\ narrator' \in [Narrator -> {Waits} \cup NarrationOf]
        /\ \A n \in Narrator : narrator'[n] # Waits => narrator'[n].row \in Id /\ narrator'[n].text <= texts
    BY <1>11 DEF tvars, TimelinesInv, TimelinesType, RowsApart
  <2> QED
    BY <1>0, <2>1, <2>2, NarratorKeeps
<1> HIDE DEF Quiet
<1> QED
  BY <1>0, <1>1, <1>2, <1>3, <1>4, <1>5, <1>6, <1>7, <1>8, <1>9, <1>10, <1>11 DEF TimelinesNext

\* What the tab lists and speaks is of the last run, however runs, the desk's
\* picks and the narrations meet, and no run ends a pick by itself.
THEOREM TimelinesStayOfTheRun == TimelinesSpec => TimelinesAreOfTheRun
<1>1. TimelinesInit => TimelinesInv
  BY TimelinesStart
<1>2. TimelinesInv /\ [TimelinesNext]_tvars => TimelinesInv'
  BY TimelinesStep
<1>3. TimelinesInv /\ [TimelinesNext]_tvars =>
        [(\E g \in Generation : gen'[g] # gen[g]) =>
            over' \/ \A i \in Id : feature[i].pick => feature'[i].pick
                        \/ \E g \in Generation : gen[g] # Waits /\ gen'[g] = Waits /\ i \in gen[g].passed]_tvars
  BY TimelinesStep DEF PickStep
<1>4. TimelinesInv => TopIsOfTheRun /\ VoiceIsOfThePage
  BY DEF TimelinesInv
<1> QED
  BY <1>1, <1>2, <1>3, <1>4, PTL DEF TimelinesSpec, TimelinesAreOfTheRun, PickIsTheDesks
=============================================================================
