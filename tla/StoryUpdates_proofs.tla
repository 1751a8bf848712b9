------------------------ MODULE StoryUpdates_proofs ------------------------
(***************************************************************************)
(* Followed stories, for any readers, stories and bullets and any bounds.  *)
(*                                                                         *)
(* Every property follows from one inductive invariant, Inv.  Its parts    *)
(* say that what a transaction or a run read earlier still stands when it  *)
(* writes: what a request relies on (Open, Memory), a look at a story      *)
(* (Looks), a job and the count of the day (Jobs, Counted), a follow about *)
(* to end (Ending), and what the log owes to the rows (Rows).              *)
(***************************************************************************)
EXTENDS StoryUpdates, FiniteSetTheorems, TLAPS

-----------------------------------------------------------------------------
SamePair(i, j) == i.user = j.user /\ i.cluster = j.cluster

(* Nothing is of the future.                                               *)
Past ==
    /\ run.now <= clock
    /\ run.pc # "off" => \A l \in log : l.at <= run.now
    /\ \A u \in User, c \in Cluster : follow[u][c].created <= clock
    /\ \A d \in devs : d.at <= clock
    /\ \A l \in log : l.at <= clock /\ l.id <= clock
    /\ \A j \in run.jobs \cup run.job : j.row.created <= clock

(* A request is younger than all else of its reader.                       *)
Open ==
    \A u \in User : request[u].open =>
        /\ request[u].at <= clock
        /\ \A c \in Cluster : follow[u][c].created < request[u].at
        /\ \A l \in log : l.user = u => l.id < request[u].at
        /\ \A j \in run.jobs \cup run.job : j.user = u => j.row.created < request[u].at

(* One job for a follow.  A job that still finds its row finds it as it    *)
(* was loaded, and a claim was judged by it and by a count below the cap.  *)
Fits(j) == SameRow(j) => follow[j.user][j.cluster].notified = j.row.notified

Jobs ==
    /\ run.pc \notin {"claim", "push"} => run.job = {}
    /\ \A i, j \in run.jobs : SamePair(i, j) => i = j
    /\ \A i \in run.jobs, j \in run.job : ~SamePair(i, j)
    /\ \A j \in run.jobs \cup run.job :
         j.dev \in devs /\ j.dev.cluster = j.cluster /\ j.dev.at >= j.row.created
    /\ \A j \in run.jobs : Fits(j) /\ (SameRow(j) => follow[j.user][j.cluster].last < j.dev.id)
    /\ run.pc = "claim" => \A j \in run.job :
         Fits(j) /\ run.now - j.row.notified >= Gap /\ run.sent[j.user] \in 0 .. Cap - 1

(* The count that is kept in memory is no less than what the log has.      *)
Today(u) == {l \in log : l.user = u /\ DayOf(l.at) >= DayOf(run.now)}

Counted ==
    /\ IsFiniteSet(log)
    /\ \A u \in User : run.sent[u] >= 0 => Cardinality(Today(u)) <= run.sent[u]

(* A row is no older than the log's last word on it.                       *)
Holds(u, c, id) == Follows(u, c) /\ follow[u][c].created = id

Rows ==
    \A l \in log :
        /\ l.dev \in devs /\ l.dev.cluster = l.cluster /\ l.dev.at >= l.id
        /\ Holds(l.user, l.cluster, l.id)
             => l.at <= follow[l.user][l.cluster].notified /\ l.dev.id <= follow[l.user][l.cluster].last

(* The state of a followed story knows every development since the follow, *)
(* and no two of those are of one bullet; so for what a request relies on. *)
Since(c, t) == {d \in devs : d.cluster = c /\ d.at >= t}

Remembers(c, t) ==
    /\ state[c].tracked
    /\ \A d \in Since(c, t) : d.bullet \in state[c].known
    /\ \A d, e \in Since(c, t) : d.bullet = e.bullet => d = e

Recalls(u, c) ==
    /\ Follows(u, c) => Remembers(c, follow[u][c].created)
    /\ Follows(u, c) /\ follow[u][c].first =>
         /\ follow[u][c].shown \subseteq state[c].known
         /\ \A d \in Since(c, follow[u][c].created) : d.bullet \notin follow[u][c].shown
    /\ Asks(u, c) /\ ~request[u].seeds => Remembers(c, request[u].at)
    /\ Asks(u, c) /\ request[u].seeds /\ ~state[c].tracked => Since(c, request[u].at) = {}

Memory == \A u \in User, c \in Cluster \ stranded : Recalls(u, c)

(* Between the read and the write of the detection nobody touches a state. *)
Looks ==
    /\ run.pc # "record" => run.looks = {}
    /\ \A l \in run.looks : state[l.cluster].tracked /\ state[l.cluster].known = l.known
    /\ \A k, l \in run.looks : k.cluster = l.cluster => k = l

(* What ends was quiet when it was read, or has moved since the run began. *)
Ending ==
    \A e \in run.ending :
        /\ run.now - e.row.created >= Quiet
        /\ run.now - story[e.cluster].updated >= Quiet \/ story[e.cluster].updated >= run.now

-----------------------------------------------------------------------------
(* The types of what is written, action by action.                         *)
LEMMA TimeType == Time \subseteq Nat /\ 0 \in Time
BY StoryUpdatesAssumption DEF Time

LEMMA ConstantTypes ==
    /\ NoFollow \in FollowRow
    /\ [NoFollow EXCEPT !.first = TRUE] \in FollowRow
    /\ Untracked \in StateRow
    /\ NoRequest \in Request
    /\ Off \in RunState
<1>1. 0 \in Time /\ 0 \in 0 .. MaxDev
  BY StoryUpdatesAssumption DEF Time
<1> QED
  BY <1>1 DEF NoFollow, FollowRow, Untracked, StateRow, NoRequest, Request, Off, RunState

LEMMA TypeInit == Init => TypeOK
<1> SUFFICES ASSUME Init PROVE TypeOK
  OBVIOUS
<1>1. story \in [Cluster -> StoryRow]
  BY StoryUpdatesAssumption DEF Init, StoryRow, Time
<1>2. state \in [Cluster -> StateRow]
  BY StoryUpdatesAssumption DEF Init, StateRow, Untracked, Time
<1>3. follow \in [User -> [Cluster -> FollowRow]]
  <2>1. {NoFollow, [NoFollow EXCEPT !.first = TRUE]} \subseteq FollowRow
    BY ConstantTypes
  <2> DEFINE rows == {NoFollow, [NoFollow EXCEPT !.first = TRUE]}
  <2>2. follow \in [User -> [Cluster -> rows]]
    BY DEF Init
  <2> HIDE DEF rows
  <2>3. rows \subseteq FollowRow
    BY <2>1 DEF rows
  <2> QED
    BY <2>2, <2>3
<1> QED
  BY <1>1, <1>2, <1>3, ConstantTypes, TimeType DEF Init, TypeOK

LEMMA StoryMoves ==
    ASSUME TypeOK, NEW c \in Cluster,
           (\E n \in 1 .. MaxOutlets : JoinArticle(c, n)) \/ (\E B \in Summary : Enrich(c, B))
    PROVE  TypeOK'
<1>1. \E r \in StoryRow : story' = [story EXCEPT ![c] = r]
  <2>1. story[c] \in StoryRow /\ clock \in Time
    BY DEF TypeOK
  <2>2. ASSUME NEW n \in 1 .. MaxOutlets, JoinArticle(c, n) 
      PROVE  \E r \in StoryRow : story' = [story EXCEPT ![c] = r]
    <3> DEFINE r == [story[c] EXCEPT !.outlets = n, !.updated = clock]
    <3>1. r \in StoryRow
      BY <2>1 DEF StoryRow
    <3>2. story' = [story EXCEPT ![c] = r]
      BY <2>2 DEF JoinArticle, TypeOK
    <3> QED
      BY <3>1, <3>2
  <2>3. ASSUME NEW B \in Summary, Enrich(c, B) 
      PROVE  \E r \in StoryRow : story' = [story EXCEPT ![c] = r]
    <3> DEFINE r == [story[c] EXCEPT !.bullets = B, !.enriched = clock]
    <3>1. r \in StoryRow
      BY <2>1, StoryUpdatesAssumption DEF StoryRow
    <3>2. story' = [story EXCEPT ![c] = r]
      BY <2>3 DEF Enrich, TypeOK
    <3> QED
      BY <3>1, <3>2
  <2> QED
    BY <2>2, <2>3
<1>2. story' \in [Cluster -> StoryRow]
  BY <1>1 DEF TypeOK
<1> QED
  BY <1>2 DEF TypeOK, JoinArticle, Enrich

OpenRequest == [open: {TRUE}, cluster: Cluster, at: Time, old: BOOLEAN,
                seeds: BOOLEAN, seen: SUBSET Bullet, count: 1 .. MaxOutlets]

LEMMA OpenRequestType ==
    ASSUME NEW q \in Request, q.open
    PROVE  q \in OpenRequest
<1>1. NoRequest.open = FALSE
  BY DEF NoRequest
<1>2. q # NoRequest
  BY <1>1, Zenon
<1> QED
  BY <1>2 DEF Request, OpenRequest

LEMMA MadeType ==
    ASSUME NEW q \in OpenRequest
    PROVE  Made(q) \in FollowRow /\ Seeded(q) \in StateRow
<1>1. 0 \in Time /\ 0 \in 0 .. MaxDev
  BY StoryUpdatesAssumption DEF Time
<1>2. /\ q.at \in Time /\ q.seen \in SUBSET Bullet /\ q.seeds \in BOOLEAN
      /\ q.count \in 1 .. MaxOutlets
  BY DEF OpenRequest
<1> QED
  BY <1>1, <1>2 DEF Made, Seeded, NoFollow, FollowRow, StateRow

LEMMA ReaderTypes ==
    ASSUME TypeOK, NEW u \in User, Reader(u)
    PROVE  TypeOK'
<1>1. CASE \E c \in Cluster : BeginFollow(u, c)
  <2> PICK c \in Cluster : BeginFollow(u, c)
    BY <1>1
  <2> PICK t \in Time :
         /\ Takes(t)
         /\ request' = [request EXCEPT ![u] =
              [open |-> TRUE, cluster |-> c, at |-> t, old |-> Follows(u, c),
               seeds |-> ~state[c].tracked, seen |-> story[c].bullets,
               count |-> story[c].outlets]]
    BY DEF BeginFollow
  <2>1. Follows(u, c) \in BOOLEAN /\ story[c].bullets \in SUBSET Bullet /\ story[c].outlets \in 1 .. MaxOutlets
    BY DEF Follows, TypeOK, StoryRow
  <2>2. [open |-> TRUE, cluster |-> c, at |-> t, old |-> Follows(u, c),
               seeds |-> ~state[c].tracked, seen |-> story[c].bullets,
               count |-> story[c].outlets] \in Request
    BY <2>1 DEF Request
  <2>3. request' \in [User -> Request]
    BY <2>2 DEF TypeOK
  <2> QED
    BY <2>3 DEF TypeOK, BeginFollow, tables, Takes
<1>2. CASE FinishFollow(u)
  <2>0. request[u] \in OpenRequest
    <3>1. request[u] \in Request
      BY DEF TypeOK
    <3>2. request[u].open
      BY <1>2 DEF FinishFollow
    <3> QED
      BY <3>1, <3>2, OpenRequestType
  <2>1. Made(request[u]) \in FollowRow /\ Seeded(request[u]) \in StateRow
    BY <2>0, MadeType
  <2>2. request[u].cluster \in Cluster
    BY <2>0 DEF OpenRequest
  <2>3. follow' \in [User -> [Cluster -> FollowRow]]
    BY <1>2, <2>1, <2>2 DEF FinishFollow, TypeOK
  <2>4. state' \in [Cluster -> StateRow]
    BY <1>2, <2>1, <2>2 DEF FinishFollow, TypeOK
  <2> QED
    BY <1>2, <2>3, <2>4, ConstantTypes DEF FinishFollow, TypeOK
<1>3. CASE FollowFails(u)
  BY <1>3, ConstantTypes DEF FollowFails, TypeOK, tables
<1>4. ASSUME NEW C, Unfollow(u, C) PROVE TypeOK'
  BY <1>4, ConstantTypes DEF Unfollow, TypeOK
<1> QED
  BY <1>1, <1>2, <1>3, <1>4 DEF Reader

(* A set of developments that is not empty has a newest one: the ids above *)
(* it are least, as subsets of a finite set.                               *)
Above(d) == {k \in DevId : k > d.id}

LEMMA NewestIsIn ==
    ASSUME NEW D \in SUBSET Development, D # {}
    PROVE  Newest(D) \in D
<1> DEFINE T == {Above(d) : d \in D}
<1>1. IsFiniteSet(DevId)
  BY StoryUpdatesAssumption, FS_Interval DEF DevId
<1>2. T \subseteq FiniteSubsetsOf(DevId) /\ T # {}
  <2>1. FiniteSubsetsOf(DevId) = SUBSET DevId
    BY <1>1, FS_FiniteSubsetsOfFinite
  <2>2. \A d \in D : Above(d) \in SUBSET DevId
    BY DEF Above
  <2>3. T \in SUBSET SUBSET DevId
    BY <2>2
  <2>4. T # {}
    OBVIOUS
  <2> QED
    BY <2>1, <2>3, <2>4
<1>3. PICK x \in T : \A y \in T : <<y, x>> \notin StrictSubsetOrdering(DevId)
  <2> HIDE DEF T
  <2> QED
    BY <1>2, FS_StrictSubsetOrderingWellFounded, WFMin
<1>4. PICK d \in D : x = Above(d)
  OBVIOUS
<1>5. ASSUME NEW e \in D, ~(e.id <= d.id) PROVE FALSE
  <2>1. /\ d.id \in DevId /\ e.id \in DevId /\ d.id \in Int /\ e.id \in Int
        /\ \A k \in DevId : k \in Int
    BY StoryUpdatesAssumption DEF Development, DevId
  <2>2. Above(e) \subseteq Above(d) /\ e.id \in Above(d) /\ e.id \notin Above(e)
    <3>1. d.id < e.id
      BY <1>5, <2>1
    <3>2. \A k \in DevId : k > e.id => k > d.id
      BY <2>1, <3>1
    <3>3. ~(e.id > e.id)
      BY <2>1
    <3> QED
      BY <2>1, <3>1, <3>2, <3>3 DEF Above
  <2>3. <<Above(e), Above(d)>> \in StrictSubsetOrdering(DevId)
    BY <2>2 DEF StrictSubsetOrdering, Above
  <2> QED
    BY <1>3, <1>4, <2>3
<1> QED
  BY <1>5 DEF Newest

LEMMA CandidatesType ==
    ASSUME TypeOK, NEW u, NEW c, Candidates(u, c) # {}
    PROVE  Newest(Candidates(u, c)) \in Candidates(u, c)
<1>1. Candidates(u, c) \in SUBSET Development
  BY DEF Candidates, TypeOK
<1> QED
  BY <1>1, NewestIsIn

LEMMA StartTypes ==
    ASSUME TypeOK, Start \/ DetectRead \/ Push \/ Finish \/ Abort \/ ExpireRead \/ DropStates
    PROVE  TypeOK'
<1>0. run \in RunState
  BY DEF TypeOK
<1>1. CASE Start
  <2> PICK t \in Time : Takes(t) /\ run' = [Off EXCEPT !.pc = "detect", !.now = t]
    BY <1>1 DEF Start
  <2>1. run' \in RunState
    BY ConstantTypes DEF RunState
  <2> QED
    BY <1>1, <2>1 DEF Start, TypeOK, tables, Takes
<1>2. CASE DetectRead
  <2> DEFINE look(c) == [cluster |-> c, bullets |-> story[c].bullets, outlets |-> story[c].outlets,
                         known |-> state[c].known, count |-> state[c].count]
             looks == {look(c) : c \in LookedAt}
  <2>1. \A c \in LookedAt :
            look(c) \in [cluster: Cluster, bullets: SUBSET Bullet, outlets: 1 .. MaxOutlets,
                         known: SUBSET Bullet, count: 1 .. MaxOutlets]
    <3> SUFFICES ASSUME NEW c \in LookedAt
                 PROVE  look(c) \in [cluster: Cluster, bullets: SUBSET Bullet, outlets: 1 .. MaxOutlets,
                                     known: SUBSET Bullet, count: 1 .. MaxOutlets]
      OBVIOUS
    <3>1. c \in Cluster /\ story[c] \in StoryRow /\ state[c] \in StateRow /\ state[c].tracked
      BY DEF LookedAt, TypeOK
    <3>2. Untracked.tracked = FALSE
      BY DEF Untracked
    <3>3. state[c] # Untracked
      BY <3>1, <3>2, Zenon
    <3>4. state[c].known \in SUBSET Bullet /\ state[c].count \in 1 .. MaxOutlets
      BY <3>1, <3>3 DEF StateRow
    <3> QED
      BY <3>1, <3>4 DEF StoryRow
  <2>2. run' = [run EXCEPT !.pc = "record", !.looks = looks]
    BY <1>2 DEF DetectRead
  <2>3. looks \in SUBSET [cluster: Cluster, bullets: SUBSET Bullet, outlets: 1 .. MaxOutlets,
                           known: SUBSET Bullet, count: 1 .. MaxOutlets]
    BY <2>1
  <2> HIDE DEF looks
  <2>4. run' \in RunState
    BY <1>0, <2>2, <2>3 DEF RunState
  <2> QED
    BY <1>2, <2>4 DEF DetectRead, TypeOK, tables
<1>3. CASE Push
  <2>1. run' \in RunState
    BY <1>0, <1>3 DEF Push, RunState
  <2> QED
    BY <1>3, <2>1 DEF Push, TypeOK, tables
<1>4. CASE Finish \/ Abort
  BY <1>4, ConstantTypes DEF Finish, Abort, TypeOK, tables
<1>5. CASE ExpireRead
  <2> DEFINE ending == {[user |-> x[1], cluster |-> x[2], row |-> follow[x[1]][x[2]]] :
                          x \in {y \in User \X Cluster : Expired(y[1], y[2])}}
  <2>1. ending \in SUBSET [user: User, cluster: Cluster, row: FollowRow]
    BY DEF TypeOK
  <2>2. run' = [run EXCEPT !.pc = "drop", !.sent = Off.sent, !.ending = ending]
    BY <1>5 DEF ExpireRead
  <2> HIDE DEF ending
  <2>3. Off.sent \in [User -> Nat \cup {-1}]
    BY ConstantTypes DEF RunState
  <2>4. run' \in RunState
    BY <1>0, <2>1, <2>2, <2>3 DEF RunState
  <2> QED
    BY <1>5, <2>4 DEF ExpireRead, TypeOK, tables
<1>6. CASE DropStates
  <2>1. run' \in RunState
    BY <1>0, <1>6 DEF DropStates, RunState
  <2>2. state' \in [Cluster -> StateRow]
    BY <1>6, ConstantTypes DEF DropStates, TypeOK
  <2>3. stranded' \subseteq Cluster
    BY <1>6 DEF DropStates, Dropped, TypeOK
  <2> QED
    BY <1>6, <2>1, <2>2, <2>3 DEF DropStates, TypeOK
<1> QED
  BY <1>1, <1>2, <1>3, <1>4, <1>5, <1>6

LEMMA SentTodayType ==
    ASSUME TypeOK, IsFiniteSet(log), NEW u \in User
    PROVE  SentToday(u) \in Nat
<1>1. run.sent[u] \in Nat \cup {-1}
  BY DEF TypeOK, RunState
<1>2. {l \in log : l.user = u /\ DayOf(l.at) >= DayOf(run.now)} \in SUBSET log
  OBVIOUS
<1>3. Cardinality({l \in log : l.user = u /\ DayOf(l.at) >= DayOf(run.now)}) \in Nat
  BY <1>2, FS_Subset, FS_CardinalityType
<1> QED
  BY <1>1, <1>3 DEF SentToday

LEMMA DetectTypes == ASSUME TypeOK, DetectCommit PROVE TypeOK'
<1> DEFINE G == {l \in run.looks : Genuine(l)}
<1>1. PICK D \in SUBSET G :
         LET new == Cardinality(devs) + 1 .. Cardinality(devs) + Cardinality(D) IN
         /\ new \subseteq DevId
         /\ \E id \in [D -> new], b \in [D -> Bullet] :
              /\ \A k, l \in D : id[k] = id[l] => k = l
              /\ \A l \in D : b[l] \in NewBullets(l)
              /\ devs' = devs \cup {[id |-> id[l], cluster |-> l.cluster, bullet |-> b[l],
                                     at |-> run.now] : l \in D}
  BY DEF DetectCommit
<1> DEFINE new == Cardinality(devs) + 1 .. Cardinality(devs) + Cardinality(D)
<1>2. new \subseteq DevId
  BY <1>1
<1>3. PICK id \in [D -> new], b \in [D -> Bullet] :
         devs' = devs \cup {[id |-> id[l], cluster |-> l.cluster, bullet |-> b[l],
                            at |-> run.now] : l \in D}
  BY <1>1
<1>4. \A l \in run.looks : l.cluster \in Cluster /\ Remembered(l) \in StateRow
  <2>1. run.now \in Time /\ \A l \in run.looks :
            /\ l.cluster \in Cluster /\ l.known \in SUBSET Bullet /\ l.bullets \in SUBSET Bullet
            /\ l.outlets \in 1 .. MaxOutlets
    BY DEF TypeOK, RunState
  <2> QED
    BY <2>1 DEF Remembered, StateRow
<1>5. \A l \in D : [id |-> id[l], cluster |-> l.cluster, bullet |-> b[l], at |-> run.now] \in Development
  <2>1. run.now \in Time
    BY DEF TypeOK, RunState
  <2> HIDE DEF new
  <2> QED
    BY <1>2, <1>3, <1>4, <2>1 DEF Development
<1>6. devs' \subseteq Development
  BY <1>3, <1>5 DEF TypeOK
<1>7. state' \in [Cluster -> StateRow]
  <2>1. state' = [c \in Cluster |->
                   IF \E l \in run.looks : l.cluster = c
                   THEN Remembered(CHOOSE l \in run.looks : l.cluster = c)
                   ELSE state[c]]
    BY DEF DetectCommit
  <2>2. ASSUME NEW c \in Cluster, \E l \in run.looks : l.cluster = c
        PROVE  Remembered(CHOOSE l \in run.looks : l.cluster = c) \in StateRow
    BY <2>2, <1>4
  <2> QED
    BY <2>1, <2>2 DEF TypeOK
<1>8. run' \in RunState
  BY DEF DetectCommit, TypeOK, RunState
<1> QED
  BY <1>6, <1>7, <1>8 DEF DetectCommit, TypeOK

LEMMA LoadTypes == ASSUME TypeOK, NEW on \in [User -> BOOLEAN], Load(on) PROVE TypeOK'
<1> DEFINE pairs == {y \in User \X Cluster : Follows(y[1], y[2]) /\ Candidates(y[1], y[2]) # {}}
           job(x) == [user |-> x[1], cluster |-> x[2], row |-> follow[x[1]][x[2]], on |-> on[x[1]],
                      dev |-> Newest(Candidates(x[1], x[2]))]
           jobs == {job(x) : x \in pairs}
<1>1. run' = [run EXCEPT !.pc = "send", !.jobs = jobs]
  BY DEF Load
<1>2. \A x \in pairs : job(x) \in JobRow
  <2> SUFFICES ASSUME NEW x \in pairs PROVE job(x) \in JobRow
    OBVIOUS
  <2>0. Candidates(x[1], x[2]) # {}
    OBVIOUS
  <2>1. Newest(Candidates(x[1], x[2])) \in Development
    <3>1. Newest(Candidates(x[1], x[2])) \in Candidates(x[1], x[2])
      BY <2>0, CandidatesType
    <3>2. Candidates(x[1], x[2]) \subseteq Development
      BY DEF Candidates, TypeOK
    <3> QED
      BY <3>1, <3>2
  <2>2. x[1] \in User /\ x[2] \in Cluster /\ follow[x[1]][x[2]] \in FollowRow
    BY DEF TypeOK
  <2> QED
    BY <2>1, <2>2 DEF JobRow
<1>3. jobs \subseteq JobRow
  BY <1>2
<1> HIDE DEF jobs
<1>4. run' \in RunState
  BY <1>1, <1>3 DEF TypeOK, RunState
<1> QED
  BY <1>4 DEF Load, TypeOK, tables

LEMMA JobTypes ==
    ASSUME TypeOK, IsFiniteSet(log), NEW j \in run.jobs, SkipPast(j) \/ Judge(j)
    PROVE  TypeOK'
<1>1. j \in JobRow /\ run \in RunState
  BY DEF TypeOK, RunState
<1>2. /\ j.user \in User /\ j.cluster \in Cluster /\ j.dev \in Development
      /\ j.dev.id \in 0 .. MaxDev
  BY <1>1, StoryUpdatesAssumption DEF JobRow, Development, DevId
<1>3. CASE SkipPast(j)
  <2> DEFINE row == [follow[j.user][j.cluster] EXCEPT !.last = j.dev.id]
  <2>1. row \in FollowRow
    <3>1. follow[j.user][j.cluster] \in FollowRow
      BY <1>2 DEF TypeOK
    <3> QED
      BY <1>2, <3>1 DEF FollowRow
  <2>2. follow' \in [User -> [Cluster -> FollowRow]]
    BY <1>2, <1>3, <2>1 DEF SkipPast, TypeOK
  <2>3. run' \in RunState
    BY <1>1, <1>3 DEF SkipPast, RunState
  <2> QED
    BY <1>3, <2>2, <2>3 DEF SkipPast, TypeOK
<1>4. CASE Judge(j)
  <2>1. SentToday(j.user) \in Nat
    BY <1>2, SentTodayType
  <2>2. [run.sent EXCEPT ![j.user] = SentToday(j.user)] \in [User -> Nat \cup {-1}]
    BY <1>1, <2>1 DEF RunState
  <2>3. run' \in RunState
    BY <1>1, <1>4, <2>2 DEF Judge, RunState
  <2> QED
    BY <1>4, <2>3 DEF Judge, TypeOK, tables
<1> QED
  BY <1>3, <1>4

LEMMA ClaimTypes ==
    ASSUME TypeOK, NEW j \in run.job, Claim(j) \/ ClaimLost(j), run.sent[j.user] \in Nat \/ ClaimLost(j)
    PROVE  TypeOK'
<1>1. j \in JobRow /\ run \in RunState
  BY DEF TypeOK, RunState
<1>2. /\ j.user \in User /\ j.cluster \in Cluster /\ j.dev \in Development
      /\ j.dev.id \in 0 .. MaxDev /\ j.row.created \in Time /\ run.now \in Time
  BY <1>1, StoryUpdatesAssumption DEF JobRow, Development, DevId, FollowRow, RunState
<1>3. CASE Claim(j) /\ run.sent[j.user] \in Nat
  <2> DEFINE row == [follow[j.user][j.cluster] EXCEPT !.last = j.dev.id, !.notified = run.now]
             entry == [user |-> j.user, cluster |-> j.cluster, id |-> j.row.created,
                       dev |-> j.dev, at |-> run.now]
  <2>1. row \in FollowRow
    <3>1. follow[j.user][j.cluster] \in FollowRow
      BY <1>2 DEF TypeOK
    <3> QED
      BY <1>2, <3>1 DEF FollowRow
  <2>2. follow' \in [User -> [Cluster -> FollowRow]]
    BY <1>2, <1>3, <2>1 DEF Claim, TypeOK
  <2>3. entry \in LogRow
    BY <1>2 DEF LogRow
  <2>4. [run.sent EXCEPT ![j.user] = @ + 1] \in [User -> Nat \cup {-1}]
    <3>1. run.sent \in [User -> Nat \cup {-1}]
      BY <1>1 DEF RunState
    <3>2. run.sent[j.user] + 1 \in Nat
      BY <1>3
    <3> QED
      BY <1>2, <3>1, <3>2
  <2>5. run' \in RunState
    <3> DEFINE sent == [run.sent EXCEPT ![j.user] = @ + 1]
    <3>1. run' = [run EXCEPT !.pc = "push", !.sent = sent]
      BY <1>3 DEF Claim
    <3>2. sent \in [User -> Nat \cup {-1}]
      BY <2>4
    <3> HIDE DEF sent
    <3> QED
      BY <1>1, <3>1, <3>2 DEF RunState
  <2> QED
    BY <1>3, <2>2, <2>3, <2>5 DEF Claim, TypeOK
<1>4. CASE ClaimLost(j)
  <2>1. run' \in RunState
    BY <1>1, <1>4 DEF ClaimLost, RunState
  <2> QED
    BY <1>4, <2>1 DEF ClaimLost, TypeOK, tables
<1> QED
  BY <1>3, <1>4

LEMMA EndTypes == ASSUME TypeOK, NEW e \in run.ending, EndFollow(e) PROVE TypeOK'
<1>1. e.user \in User /\ e.cluster \in Cluster
  BY DEF TypeOK, RunState
<1>2. follow' \in [User -> [Cluster -> FollowRow]]
  BY <1>1, ConstantTypes DEF EndFollow, TypeOK
<1>3. run' \in RunState
  BY DEF EndFollow, TypeOK, RunState
<1> QED
  BY <1>2, <1>3 DEF EndFollow, TypeOK

-----------------------------------------------------------------------------
(* What the steps of a run leave in its fields.                            *)
Cleared(x) ==
    x.looks = {} /\ x.jobs = {} /\ x.job = {} /\ x.ending = {} /\ x.sent = [u \in User |-> -1]

LEMMA StartFields ==
    ASSUME Start
    PROVE  clock' = clock + 1 /\ run'.pc = "detect" /\ run'.now = clock' /\ Cleared(run')
BY DEF Start, Takes, Off, Cleared

LEMMA OffFields ==
    ASSUME Finish \/ Abort
    PROVE  run'.pc = "off" /\ run'.now = 0 /\ Cleared(run')
BY DEF Finish, Abort, Off, Cleared

LEMMA DetectReadFields ==
    ASSUME TypeOK, DetectRead
    PROVE  /\ run'.pc = "record" /\ run'.now = run.now /\ run'.jobs = run.jobs /\ run'.job = run.job
           /\ run'.ending = run.ending /\ run'.sent = run.sent
           /\ run'.looks = {[cluster |-> c, bullets |-> story[c].bullets, outlets |-> story[c].outlets,
                             known |-> state[c].known, count |-> state[c].count] : c \in LookedAt}
<1> DEFINE looks == {[cluster |-> c, bullets |-> story[c].bullets, outlets |-> story[c].outlets,
                      known |-> state[c].known, count |-> state[c].count] : c \in LookedAt}
<1>1. run' = [run EXCEPT !.pc = "record", !.looks = looks]
  BY DEF DetectRead
<1>2. run \in RunState
  BY DEF TypeOK
<1> HIDE DEF looks
<1>3. /\ run'.pc = "record" /\ run'.now = run.now /\ run'.jobs = run.jobs /\ run'.job = run.job
      /\ run'.ending = run.ending /\ run'.sent = run.sent /\ run'.looks = looks
  BY <1>1, <1>2 DEF RunState
<1> QED
  BY <1>3 DEF looks

LEMMA DetectCommitFields ==
    ASSUME TypeOK, DetectCommit
    PROVE  /\ run'.pc = "load" /\ run'.now = run.now /\ run'.looks = {} /\ run'.jobs = run.jobs
           /\ run'.job = run.job /\ run'.ending = run.ending /\ run'.sent = run.sent
<1>1. run' = [run EXCEPT !.pc = "load", !.looks = {}]
  BY DEF DetectCommit
<1>2. run \in RunState
  BY DEF TypeOK
<1> QED
  BY <1>1, <1>2 DEF RunState

LEMMA LoadFields ==
    ASSUME TypeOK, NEW on, Load(on)
    PROVE  /\ run'.pc = "send" /\ run'.now = run.now /\ run'.looks = run.looks /\ run'.job = run.job
           /\ run'.ending = run.ending /\ run'.sent = run.sent
           /\ run'.jobs = {[user |-> x[1], cluster |-> x[2], row |-> follow[x[1]][x[2]], on |-> on[x[1]],
                            dev |-> Newest(Candidates(x[1], x[2]))] :
                              x \in {y \in User \X Cluster : /\ Follows(y[1], y[2])
                                                             /\ Candidates(y[1], y[2]) # {}}}
<1> DEFINE jobs == {[user |-> x[1], cluster |-> x[2], row |-> follow[x[1]][x[2]], on |-> on[x[1]],
                     dev |-> Newest(Candidates(x[1], x[2]))] :
                       x \in {y \in User \X Cluster : /\ Follows(y[1], y[2])
                                                      /\ Candidates(y[1], y[2]) # {}}}
<1>1. run' = [run EXCEPT !.pc = "send", !.jobs = jobs]
  BY DEF Load
<1>2. run \in RunState
  BY DEF TypeOK
<1> HIDE DEF jobs
<1>3. /\ run'.pc = "send" /\ run'.now = run.now /\ run'.looks = run.looks /\ run'.job = run.job
      /\ run'.ending = run.ending /\ run'.sent = run.sent /\ run'.jobs = jobs
  BY <1>1, <1>2 DEF RunState
<1> QED
  BY <1>3 DEF jobs

LEMMA SkipPastFields ==
    ASSUME TypeOK, NEW j, SkipPast(j)
    PROVE  /\ run'.pc = run.pc /\ run'.now = run.now /\ run'.looks = run.looks /\ run'.job = run.job
           /\ run'.ending = run.ending /\ run'.sent = run.sent /\ run'.jobs = run.jobs \ {j}
<1>1. run' = [run EXCEPT !.jobs = run.jobs \ {j}] /\ run \in RunState
  BY DEF SkipPast, TypeOK
<1> QED
  BY <1>1 DEF RunState

LEMMA JudgeFields ==
    ASSUME TypeOK, NEW j, Judge(j)
    PROVE  /\ run'.now = run.now /\ run'.looks = run.looks /\ run'.ending = run.ending
           /\ run'.jobs = run.jobs \ {j}
           /\ run'.sent = [run.sent EXCEPT ![j.user] = SentToday(j.user)]
           /\ run'.pc = IF MayPush(j) THEN "claim" ELSE "send"
           /\ run'.job = IF MayPush(j) THEN {j} ELSE {}
<1> DEFINE sent == [run.sent EXCEPT ![j.user] = SentToday(j.user)]
           pc == IF MayPush(j) THEN "claim" ELSE "send"
           job == IF MayPush(j) THEN {j} ELSE {}
<1>1. run' = [run EXCEPT !.sent = sent, !.jobs = run.jobs \ {j}, !.pc = pc, !.job = job] /\ run \in RunState
  BY DEF Judge, TypeOK
<1> HIDE DEF sent, pc, job
<1>2. /\ run'.now = run.now /\ run'.looks = run.looks /\ run'.ending = run.ending
      /\ run'.jobs = run.jobs \ {j} /\ run'.sent = sent /\ run'.pc = pc /\ run'.job = job
  BY <1>1 DEF RunState
<1> QED
  BY <1>2 DEF sent, pc, job

LEMMA ClaimFields ==
    ASSUME TypeOK, NEW j, Claim(j)
    PROVE  /\ run'.pc = "push" /\ run'.now = run.now /\ run'.looks = run.looks /\ run'.job = run.job
           /\ run'.ending = run.ending /\ run'.jobs = run.jobs
           /\ run'.sent = [run.sent EXCEPT ![j.user] = @ + 1]
<1> DEFINE sent == [run.sent EXCEPT ![j.user] = @ + 1]
<1>1. run' = [run EXCEPT !.pc = "push", !.sent = sent] /\ run \in RunState
  BY DEF Claim, TypeOK
<1> HIDE DEF sent
<1>2. /\ run'.pc = "push" /\ run'.now = run.now /\ run'.looks = run.looks /\ run'.job = run.job
      /\ run'.ending = run.ending /\ run'.jobs = run.jobs /\ run'.sent = sent
  BY <1>1 DEF RunState
<1> QED
  BY <1>2 DEF sent

LEMMA NextJobFields ==
    ASSUME TypeOK, Push \/ \E j \in run.job : ClaimLost(j)
    PROVE  /\ run'.pc = "send" /\ run'.now = run.now /\ run'.looks = run.looks /\ run'.job = {}
           /\ run'.ending = run.ending /\ run'.sent = run.sent /\ run'.jobs = run.jobs
<1>1. run' = [run EXCEPT !.pc = "send", !.job = {}] /\ run \in RunState
  BY DEF Push, ClaimLost, TypeOK
<1> QED
  BY <1>1 DEF RunState

LEMMA ExpireReadFields ==
    ASSUME TypeOK, ExpireRead
    PROVE  /\ run'.pc = "drop" /\ run'.now = run.now /\ run'.looks = run.looks /\ run'.job = run.job
           /\ run'.jobs = run.jobs /\ run'.sent = [u \in User |-> -1]
           /\ run'.ending = {[user |-> x[1], cluster |-> x[2], row |-> follow[x[1]][x[2]]] :
                               x \in {y \in User \X Cluster : Expired(y[1], y[2])}}
<1> DEFINE ending == {[user |-> x[1], cluster |-> x[2], row |-> follow[x[1]][x[2]]] :
                        x \in {y \in User \X Cluster : Expired(y[1], y[2])}}
           sent == [u \in User |-> -1]
<1>0. Off.sent = sent
  BY DEF Off
<1>1. run' = [run EXCEPT !.pc = "drop", !.sent = sent, !.ending = ending] /\ run \in RunState
  BY <1>0 DEF ExpireRead, TypeOK
<1> HIDE DEF ending, sent
<1>2. /\ run'.pc = "drop" /\ run'.now = run.now /\ run'.looks = run.looks /\ run'.job = run.job
      /\ run'.jobs = run.jobs /\ run'.sent = sent /\ run'.ending = ending
  BY <1>1 DEF RunState
<1> QED
  BY <1>2 DEF ending, sent

LEMMA DropStatesFields ==
    ASSUME TypeOK, DropStates
    PROVE  /\ run'.pc = "end" /\ run'.now = run.now /\ run'.looks = run.looks /\ run'.job = run.job
           /\ run'.jobs = run.jobs /\ run'.sent = run.sent /\ run'.ending = run.ending
<1>1. run' = [run EXCEPT !.pc = "end"] /\ run \in RunState
  BY DEF DropStates, TypeOK
<1> QED
  BY <1>1 DEF RunState

LEMMA EndFollowFields ==
    ASSUME TypeOK, NEW e, EndFollow(e)
    PROVE  /\ run'.pc = run.pc /\ run'.now = run.now /\ run'.looks = run.looks /\ run'.job = run.job
           /\ run'.jobs = run.jobs /\ run'.sent = run.sent /\ run'.ending = run.ending \ {e}
<1>1. run' = [run EXCEPT !.ending = run.ending \ {e}] /\ run \in RunState
  BY DEF EndFollow, TypeOK
<1> QED
  BY <1>1 DEF RunState

LEMMA Numbers ==
    ASSUME TypeOK
    PROVE  /\ clock \in Nat /\ run.now \in Nat
           /\ Gap \in Nat \ {0} /\ Cap \in Nat \ {0} /\ Quiet \in Nat
           /\ \A c \in Cluster : story[c].updated \in Nat
           /\ \A u \in User : run.sent[u] \in Int
           /\ \A u \in User, c \in Cluster :
                follow[u][c].created \in Nat /\ follow[u][c].last \in Nat /\ follow[u][c].notified \in Int
           /\ \A d \in devs : d.at \in Nat /\ d.id \in Nat \ {0} /\ d.cluster \in Cluster
           /\ \A l \in log : /\ l.user \in User /\ l.cluster \in Cluster /\ l.id \in Nat /\ l.at \in Nat
                             /\ l.dev.id \in Nat \ {0} /\ l.dev.at \in Nat
           /\ \A j \in run.jobs \cup run.job :
                /\ j.user \in User /\ j.cluster \in Cluster /\ j.dev.id \in Nat \ {0} /\ j.dev.at \in Nat
                /\ j.row.created \in Nat /\ j.row.notified \in Int
           /\ \A u \in User : request[u].open => /\ request[u].at \in Nat /\ request[u].cluster \in Cluster
                                                 /\ request[u].seen \subseteq Bullet
                                                 /\ request[u] \in OpenRequest
           /\ \A e \in run.ending : e.user \in User /\ e.cluster \in Cluster /\ e.row.created \in Nat
<1>1. Time \subseteq Nat /\ DevId \subseteq Nat \ {0} /\ 0 .. MaxDev \subseteq Nat /\ Time \cup {Never} \subseteq Int
  BY StoryUpdatesAssumption DEF Time, DevId, Never
<1>2. run \in RunState
  BY DEF TypeOK
<1>3. \A r \in FollowRow : r.created \in Nat /\ r.last \in Nat /\ r.notified \in Int
  BY <1>1 DEF FollowRow
<1>4. \A d \in Development : d.at \in Nat /\ d.id \in Nat \ {0} /\ d.cluster \in Cluster
  BY <1>1 DEF Development
<1>5. \A l \in log : /\ l.user \in User /\ l.cluster \in Cluster /\ l.id \in Nat /\ l.at \in Nat
                     /\ l.dev.id \in Nat \ {0} /\ l.dev.at \in Nat
  BY <1>1, <1>4 DEF TypeOK, LogRow
<1>6. \A j \in run.jobs \cup run.job :
                /\ j.user \in User /\ j.cluster \in Cluster /\ j.dev.id \in Nat \ {0} /\ j.dev.at \in Nat
                /\ j.row.created \in Nat /\ j.row.notified \in Int
  <2> SUFFICES ASSUME NEW j \in JobRow
               PROVE  /\ j.user \in User /\ j.cluster \in Cluster
                      /\ j.dev \in Development /\ j.row \in FollowRow
    BY <1>2, <1>3, <1>4 DEF RunState
  <2> QED
    BY DEF JobRow
<1>7. \A u \in User : request[u].open => /\ request[u].at \in Nat /\ request[u].cluster \in Cluster
                                         /\ request[u].seen \subseteq Bullet
                                         /\ request[u] \in OpenRequest
  <2> SUFFICES ASSUME NEW u \in User, request[u].open
               PROVE  /\ request[u].at \in Nat /\ request[u].cluster \in Cluster
                      /\ request[u].seen \subseteq Bullet /\ request[u] \in OpenRequest
    OBVIOUS
  <2>1. request[u] \in OpenRequest
    BY OpenRequestType DEF TypeOK
  <2> QED
    BY <1>1, <2>1 DEF OpenRequest
<1>8. \A e \in run.ending : e.user \in User /\ e.cluster \in Cluster /\ e.row.created \in Nat
  BY <1>2, <1>3 DEF RunState
<1>9. run.now \in Nat /\ \A u \in User : run.sent[u] \in Int
  BY <1>1, <1>2 DEF RunState
<1>10. \A u \in User, c \in Cluster : follow[u][c] \in FollowRow
  BY DEF TypeOK
<1>11. clock \in Nat /\ \A c \in Cluster : story[c].updated \in Nat
  BY <1>1 DEF TypeOK, StoryRow
<1> QED
  BY <1>3, <1>4, <1>5, <1>6, <1>7, <1>8, <1>9, <1>10, <1>11, StoryUpdatesAssumption DEF TypeOK

-----------------------------------------------------------------------------
(* What the steps leave in the rows of follows.                            *)
LEMMA SkipPastRows ==
    ASSUME TypeOK, NEW j \in run.jobs, SkipPast(j), NEW u \in User, NEW c \in Cluster
    PROVE  /\ follow'[u][c].created = follow[u][c].created /\ follow'[u][c].notified = follow[u][c].notified
           /\ follow'[u][c].shown = follow[u][c].shown /\ follow'[u][c].first = follow[u][c].first
           /\ follow'[u][c].last = IF u = j.user /\ c = j.cluster THEN j.dev.id ELSE follow[u][c].last
           /\ follow'[u][c] # NoFollow <=> follow[u][c] # NoFollow
<1>1. follow \in [User -> [Cluster -> FollowRow]] /\ j.user \in User /\ j.cluster \in Cluster /\ j.dev.id # 0
  BY Numbers DEF TypeOK
<1>2. follow' = [follow EXCEPT ![j.user][j.cluster] = [follow[j.user][j.cluster] EXCEPT !.last = j.dev.id]]
  BY DEF SkipPast
<1> DEFINE row == [follow[j.user][j.cluster] EXCEPT !.last = j.dev.id]
<1>3. /\ row.created = follow[j.user][j.cluster].created /\ row.notified = follow[j.user][j.cluster].notified
      /\ row.shown = follow[j.user][j.cluster].shown /\ row.first = follow[j.user][j.cluster].first
      /\ row.last = j.dev.id
  BY <1>1 DEF FollowRow
<1>4. row # NoFollow
  <2>1. NoFollow.last = 0
    BY DEF NoFollow
  <2> QED
    BY <1>1, <1>3, <2>1
<1>5. follow[j.user][j.cluster] # NoFollow
  BY DEF SkipPast, SameRow, Follows
<1> HIDE DEF row
<1>6. follow'[u][c] = IF u = j.user /\ c = j.cluster THEN row ELSE follow[u][c]
  BY <1>1, <1>2 DEF row
<1> QED
  BY <1>3, <1>4, <1>5, <1>6

LEMMA ClaimRows ==
    ASSUME TypeOK, NEW j \in run.job, Claim(j), NEW u \in User, NEW c \in Cluster
    PROVE  /\ follow'[u][c].created = follow[u][c].created
           /\ follow'[u][c].shown = follow[u][c].shown /\ follow'[u][c].first = follow[u][c].first
           /\ follow'[u][c].last = IF u = j.user /\ c = j.cluster THEN j.dev.id ELSE follow[u][c].last
           /\ follow'[u][c].notified = IF u = j.user /\ c = j.cluster THEN run.now ELSE follow[u][c].notified
           /\ follow'[u][c] # NoFollow <=> follow[u][c] # NoFollow
<1>1. follow \in [User -> [Cluster -> FollowRow]] /\ j.user \in User /\ j.cluster \in Cluster /\ j.dev.id # 0
  BY Numbers DEF TypeOK
<1> DEFINE row == [follow[j.user][j.cluster] EXCEPT !.last = j.dev.id, !.notified = run.now]
<1>2. follow' = [follow EXCEPT ![j.user][j.cluster] = row]
  BY DEF Claim
<1>3. /\ row.created = follow[j.user][j.cluster].created /\ row.notified = run.now
      /\ row.shown = follow[j.user][j.cluster].shown /\ row.first = follow[j.user][j.cluster].first
      /\ row.last = j.dev.id
  BY <1>1 DEF FollowRow
<1>4. row # NoFollow
  <2>1. NoFollow.last = 0
    BY DEF NoFollow
  <2> QED
    BY <1>1, <1>3, <2>1
<1>5. follow[j.user][j.cluster] # NoFollow
  BY DEF Claim, Unsent, SameRow, Follows
<1> HIDE DEF row
<1>6. follow'[u][c] = IF u = j.user /\ c = j.cluster THEN row ELSE follow[u][c]
  BY <1>1, <1>2
<1> QED
  BY <1>3, <1>4, <1>5, <1>6

LEMMA GoneRows ==
    ASSUME TypeOK, (\E v \in User, C \in SUBSET Cluster : Unfollow(v, C)) \/ (\E e \in run.ending : EndFollow(e)),
           NEW u \in User, NEW c \in Cluster
    PROVE  follow'[u][c] = follow[u][c] \/ follow'[u][c] = NoFollow
<1>1. follow \in [User -> [Cluster -> FollowRow]]
  BY DEF TypeOK
<1>2. ASSUME NEW v \in User, NEW C, Unfollow(v, C)
      PROVE  follow'[u][c] = follow[u][c] \/ follow'[u][c] = NoFollow
  BY <1>1, <1>2 DEF Unfollow
<1>3. ASSUME NEW e \in run.ending, EndFollow(e)
      PROVE  follow'[u][c] = follow[u][c] \/ follow'[u][c] = NoFollow
  BY <1>1, <1>3, Numbers DEF EndFollow
<1> QED
  BY <1>2, <1>3

LEMMA FinishRows ==
    ASSUME TypeOK, NEW v \in User, FinishFollow(v), NEW u \in User, NEW c \in Cluster
    PROVE  \/ follow'[u][c] = follow[u][c]
           \/ /\ u = v /\ c = request[v].cluster /\ ~request[v].old
              /\ follow'[u][c] = Made(request[v])
<1>1. follow \in [User -> [Cluster -> FollowRow]] /\ request[v].cluster \in Cluster
  BY Numbers DEF TypeOK, FinishFollow
<1> QED
  BY <1>1 DEF FinishFollow

LEMMA MadeFields ==
    ASSUME NEW q
    PROVE  /\ Made(q).created = q.at /\ Made(q).last = 0 /\ Made(q).notified = Never
           /\ Made(q).shown = q.seen /\ Made(q).first = q.seeds
BY DEF Made, NoFollow

LEMMA NoFollowFields ==
    NoFollow.created = 0 /\ NoFollow.last = 0 /\ NoFollow.notified = Never /\ NoFollow.first = FALSE
BY DEF NoFollow

Inv == TypeOK /\ Past /\ Open /\ Jobs /\ Counted /\ Rows /\ Memory /\ Looks /\ Ending

(* The readers' steps other than following, and the runs' steps that write *)
(* nothing, by what they leave alone.                                      *)
RunOnly == \/ Start \/ DetectRead \/ Push \/ ExpireRead \/ Finish \/ Abort
           \/ \E on \in [User -> BOOLEAN] : Load(on)
           \/ \E j \in run.jobs : Judge(j)
           \/ \E j \in run.job : ClaimLost(j)

Story == \/ \E c \in Cluster, n \in 1 .. MaxOutlets : JoinArticle(c, n)
         \/ \E c \in Cluster, B \in Summary : Enrich(c, B)

Leave == \/ \E u \in User, C \in SUBSET Cluster : Unfollow(u, C)
         \/ \E e \in run.ending : EndFollow(e)

LEMMA Steps ==
    ASSUME Next
    PROVE  \/ Story \/ RunOnly \/ Leave \/ DetectCommit \/ DropStates
           \/ \E u \in User, c \in Cluster : BeginFollow(u, c)
           \/ \E u \in User : FinishFollow(u) \/ FollowFails(u)
           \/ \E j \in run.jobs : SkipPast(j)
           \/ \E j \in run.job : Claim(j)
<1>1. \A c \in Cluster : {c} \in SUBSET Cluster
  OBVIOUS
<1>2. Cluster \in SUBSET Cluster
  OBVIOUS
<1>3. ASSUME NEW u \in User, Reader(u)
      PROVE  \/ Leave \/ \E c \in Cluster : BeginFollow(u, c)
             \/ FinishFollow(u) \/ FollowFails(u)
  BY <1>1, <1>2, <1>3 DEF Reader, Leave
<1>4. CASE Notify
  BY <1>4 DEF Notify, RunOnly, Leave
<1> QED
  BY <1>3, <1>4 DEF Next, Story

LEMMA RunOnlyLeaves ==
    ASSUME RunOnly
    PROVE  UNCHANGED <<story, follow, state, devs, request, log, stranded>> /\ (clock' = clock \/ clock' = clock + 1)
BY DEF RunOnly, Start, DetectRead, Push, ExpireRead, Finish, Abort, Load, Judge, ClaimLost, tables, Takes

LEMMA RunOnlyFields ==
    ASSUME TypeOK, RunOnly
    PROVE  \/ Cleared(run') /\ run'.pc = "detect" /\ run'.now = clock' /\ clock' = clock + 1
           \/ Cleared(run') /\ run'.pc = "off" /\ run'.now = 0
           \/ /\ run'.now = run.now /\ run.pc # "off" /\ clock' = clock
              /\ \/ run'.jobs \cup run'.job \subseteq run.jobs \cup run.job
                 \/ \E on \in [User -> BOOLEAN] : Load(on)
<1>1. CASE Start
  BY <1>1, StartFields
<1>2. CASE Finish \/ Abort
  BY <1>2, OffFields
<1>3. CASE DetectRead
  BY <1>3, DetectReadFields DEF DetectRead
<1>4. CASE Push \/ \E j \in run.job : ClaimLost(j)
  BY <1>4, NextJobFields DEF Push, ClaimLost
<1>5. CASE ExpireRead
  BY <1>5, ExpireReadFields DEF ExpireRead
<1>6. ASSUME NEW on \in [User -> BOOLEAN], Load(on)
      PROVE  run'.now = run.now /\ run.pc # "off" /\ clock' = clock
  BY <1>6, LoadFields DEF Load
<1>7. ASSUME NEW j \in run.jobs, Judge(j)
      PROVE  /\ run'.now = run.now /\ run.pc # "off" /\ clock' = clock
             /\ run'.jobs \cup run'.job \subseteq run.jobs \cup run.job
  <2>1. run'.now = run.now /\ run'.jobs = run.jobs \ {j}
    BY <1>7, JudgeFields
  <2>2. run'.job \subseteq {j}
    <3>1. run'.job = IF MayPush(j) THEN {j} ELSE {}
      BY <1>7, JudgeFields
    <3> QED
      BY <3>1
  <2> QED
    BY <1>7, <2>1, <2>2 DEF Judge
<1> QED
  BY <1>1, <1>2, <1>3, <1>4, <1>5, <1>6, <1>7 DEF RunOnly

-----------------------------------------------------------------------------
(* Nothing lies in the future of the clock, or of a run that is going on.  *)
LEMMA PastKept == ASSUME Inv, Next PROVE Past'
<1>0. TypeOK /\ Past
  BY DEF Inv
<1>n. /\ clock \in Nat /\ run.now \in Nat
      /\ \A u \in User, c \in Cluster : follow[u][c].created \in Nat
      /\ \A d \in devs : d.at \in Nat
      /\ \A l \in log : l.id \in Nat /\ l.at \in Nat
      /\ \A j \in run.jobs \cup run.job : j.row.created \in Nat /\ j.user \in User /\ j.cluster \in Cluster
  BY <1>0, Numbers
<1>1. CASE Story \/ \E u \in User : FollowFails(u)
  BY <1>0, <1>1 DEF Story, JoinArticle, Enrich, FollowFails, tables, Past
<1>2. CASE RunOnly
  <2>1. /\ follow' = follow /\ devs' = devs /\ log' = log
        /\ clock' \in Nat /\ clock <= clock'
    BY <1>2, <1>n, RunOnlyLeaves
  <2>2. \A j \in run'.jobs \cup run'.job : j.row.created <= clock'
    <3>1. CASE Cleared(run')
      BY <3>1 DEF Cleared
    <3>2. CASE run'.jobs \cup run'.job \subseteq run.jobs \cup run.job
      BY <1>0, <1>n, <2>1, <3>2 DEF Past
    <3>3. ASSUME NEW on \in [User -> BOOLEAN], Load(on)
          PROVE  \A j \in run'.jobs \cup run'.job : j.row.created <= clock'
      <4>1. \A j \in run'.jobs : \E u \in User, c \in Cluster : j.row = follow[u][c]
        BY <1>0, <3>3, LoadFields
      <4>2. run'.job = run.job
        BY <1>0, <3>3, LoadFields
      <4> QED
        BY <1>0, <1>n, <2>1, <4>1, <4>2 DEF Past
    <3> QED
      BY <1>0, <1>2, <3>1, <3>2, <3>3, RunOnlyFields
  <2>3. run'.now <= clock' /\ (run'.pc # "off" => \A l \in log : l.at <= run'.now)
    BY <1>0, <1>2, <1>n, <2>1, RunOnlyFields DEF Past
  <2>4. /\ \A u \in User, c \in Cluster : follow'[u][c].created <= clock'
        /\ \A d \in devs' : d.at <= clock'
        /\ \A l \in log' : l.at <= clock' /\ l.id <= clock'
    BY <1>0, <1>n, <2>1 DEF Past
  <2> QED
    BY <2>1, <2>2, <2>3, <2>4 DEF Past
<1>3. CASE Leave
  <2>1. \A u \in User, c \in Cluster : follow'[u][c].created <= clock
    BY <1>0, <1>3, <1>n, GoneRows, NoFollowFields DEF Leave, Past
  <2>2. /\ run'.now = run.now /\ run'.pc = run.pc /\ run'.jobs = run.jobs /\ run'.job = run.job
        /\ clock' = clock /\ devs' = devs /\ log' = log
    BY <1>0, <1>3, EndFollowFields DEF Leave, Unfollow, EndFollow
  <2> QED
    BY <1>0, <2>1, <2>2 DEF Past
<1>4. CASE DetectCommit
  <2>1. /\ run'.now = run.now /\ run.pc # "off" /\ run'.jobs = run.jobs /\ run'.job = run.job
        /\ clock' = clock /\ follow' = follow /\ log' = log
    BY <1>0, <1>4, DetectCommitFields DEF DetectCommit
  <2>2. \A d \in devs' : d \in devs \/ d.at = run.now
    BY <1>4 DEF DetectCommit
  <2> QED
    BY <1>0, <1>n, <2>1, <2>2 DEF Past
<1>5. CASE DropStates
  BY <1>0, <1>5, DropStatesFields DEF DropStates, Past
<1>6. ASSUME NEW u \in User, NEW c \in Cluster, BeginFollow(u, c) PROVE Past'
  <2>1. clock' = clock + 1 /\ UNCHANGED <<follow, devs, log, run>>
    BY <1>6 DEF BeginFollow, Takes, tables
  <2> QED
    BY <1>0, <1>n, <2>1 DEF Past
<1>7. ASSUME NEW u \in User, FinishFollow(u) PROVE Past'
  <2>1. request[u].at <= clock
    BY <1>7 DEF Inv, Open, FinishFollow
  <2>2. \A v \in User, c \in Cluster : follow'[v][c].created <= clock
    BY <1>0, <1>7, <2>1, FinishRows, MadeFields DEF Past
  <2> QED
    BY <1>0, <1>7, <2>2 DEF FinishFollow, Past
<1>8. ASSUME NEW j \in run.jobs, SkipPast(j) PROVE Past'
  <2>1. \A v \in User, c \in Cluster : follow'[v][c].created <= clock
    BY <1>0, <1>8, SkipPastRows DEF Past
  <2>2. /\ run'.now = run.now /\ run'.pc = run.pc /\ run'.jobs \subseteq run.jobs /\ run'.job = run.job
        /\ clock' = clock /\ devs' = devs /\ log' = log
    BY <1>0, <1>8, SkipPastFields DEF SkipPast
  <2> QED
    BY <1>0, <2>1, <2>2 DEF Past
<1>9. ASSUME NEW j \in run.job, Claim(j) PROVE Past'
  <2>1. \A v \in User, c \in Cluster : follow'[v][c].created <= clock
    BY <1>0, <1>9, ClaimRows DEF Past
  <2>2. /\ run'.now = run.now /\ run.pc # "off" /\ run'.jobs = run.jobs /\ run'.job = run.job
        /\ clock' = clock /\ devs' = devs
    BY <1>0, <1>9, ClaimFields DEF Claim
  <2>3. \A l \in log' : l \in log \/ (l.at = run.now /\ l.id = j.row.created)
    BY <1>9 DEF Claim
  <2> QED
    BY <1>0, <1>n, <2>1, <2>2, <2>3 DEF Past
<1> QED
  BY <1>1, <1>2, <1>3, <1>4, <1>5, <1>6, <1>7, <1>8, <1>9, Steps

(* A follow request is younger than everything of its reader.              *)
LEMMA OpenKept == ASSUME Inv, Next PROVE Open'
<1>0. TypeOK /\ Past /\ Open
  BY DEF Inv
<1>n. /\ clock \in Nat
      /\ \A u \in User, c \in Cluster : follow[u][c].created \in Nat
      /\ \A l \in log : l.id \in Nat /\ l.user \in User /\ l.cluster \in Cluster
      /\ \A j \in run.jobs \cup run.job : j.row.created \in Nat /\ j.user \in User /\ j.cluster \in Cluster
      /\ \A u \in User : request[u].open => request[u].at \in Nat
  BY <1>0, Numbers
<1>1. CASE Story
  BY <1>0, <1>1 DEF Story, JoinArticle, Enrich, Open
<1>2. CASE RunOnly
  <2>1. /\ follow' = follow /\ request' = request /\ log' = log
        /\ clock' \in Nat /\ clock <= clock'
    BY <1>2, <1>n, RunOnlyLeaves
  <2>2. ASSUME NEW u \in User, request[u].open, NEW j \in run'.jobs \cup run'.job, j.user = u
        PROVE  j.row.created < request[u].at
    <3>1. CASE Cleared(run')
      BY <2>2, <3>1 DEF Cleared
    <3>2. CASE run'.jobs \cup run'.job \subseteq run.jobs \cup run.job
      BY <1>0, <2>2, <3>2 DEF Open
    <3>3. ASSUME NEW on \in [User -> BOOLEAN], Load(on)
          PROVE  j.row.created < request[u].at
      <4>1. CASE j \in run'.jobs
        <5>1. \E c \in Cluster : j.row = follow[u][c]
          BY <1>0, <2>2, <3>3, <4>1, LoadFields
        <5> QED
          BY <1>0, <2>2, <5>1 DEF Open
      <4>2. CASE j \in run'.job
        BY <1>0, <2>2, <3>3, <4>2, LoadFields DEF Open
      <4> QED
        BY <2>2, <4>1, <4>2
    <3> QED
      BY <1>0, <1>2, <3>1, <3>2, <3>3, RunOnlyFields
  <2>3. \A u \in User : request[u].open => request[u].at <= clock'
    BY <1>0, <1>n, <2>1 DEF Open
  <2> QED
    BY <1>0, <2>1, <2>2, <2>3 DEF Open
<1>3. CASE Leave
  <2>1. ASSUME NEW u \in User, NEW c \in Cluster, request[u].open
        PROVE  follow'[u][c].created < request[u].at
    <3>1. follow[u][c].created < request[u].at
      BY <1>0, <2>1 DEF Open
    <3> QED
      BY <1>0, <1>3, <1>n, <2>1, <3>1, GoneRows, NoFollowFields DEF Leave
  <2>2. /\ run'.jobs = run.jobs /\ run'.job = run.job
        /\ clock' = clock /\ request' = request /\ log' = log
    BY <1>0, <1>3, EndFollowFields DEF Leave, Unfollow, EndFollow
  <2> QED
    BY <1>0, <2>1, <2>2 DEF Open
<1>4. CASE DetectCommit \/ DropStates
  <2>1. run'.jobs = run.jobs /\ run'.job = run.job
    BY <1>0, <1>4, DetectCommitFields, DropStatesFields
  <2> QED
    BY <1>0, <1>4, <2>1 DEF DetectCommit, DropStates, Open
<1>5. ASSUME NEW u \in User, NEW c \in Cluster, BeginFollow(u, c) PROVE Open'
  <2>1. clock' = clock + 1 /\ UNCHANGED <<follow, log, run>>
    BY <1>5 DEF BeginFollow, Takes, tables
  <2>2. \A v \in User : v # u => request'[v] = request[v]
    BY <1>0, <1>5 DEF BeginFollow, TypeOK
  <2>3. request'[u].at = clock + 1
    BY <1>0, <1>5 DEF BeginFollow, Takes, TypeOK
  <2>4. /\ \A b \in Cluster : follow[u][b].created < clock + 1
        /\ \A l \in log : l.id < clock + 1
        /\ \A j \in run.jobs \cup run.job : j.row.created < clock + 1
    BY <1>0, <1>n DEF Past
  <2>5. ASSUME NEW v \in User, v # u, request'[v].open
        PROVE  /\ request'[v].at <= clock'
               /\ \A b \in Cluster : follow[v][b].created < request'[v].at
               /\ \A l \in log : l.user = v => l.id < request'[v].at
               /\ \A j \in run.jobs \cup run.job : j.user = v => j.row.created < request'[v].at
    BY <1>0, <1>n, <2>1, <2>2, <2>5 DEF Open
  <2> QED
    BY <1>n, <2>1, <2>3, <2>4, <2>5 DEF Open
<1>6. ASSUME NEW u \in User, FinishFollow(u) \/ FollowFails(u) PROVE Open'
  <2>1. ~request'[u].open /\ \A v \in User : v # u => request'[v] = request[v]
    BY <1>0, <1>6 DEF FinishFollow, FollowFails, TypeOK, NoRequest
  <2>2. UNCHANGED <<clock, log, run>>
    BY <1>6 DEF FinishFollow, FollowFails, tables
  <2>3. \A v \in User, c \in Cluster : v # u => follow'[v][c] = follow[v][c]
    BY <1>0, <1>6, FinishRows DEF FollowFails, tables
  <2> QED
    BY <1>0, <2>1, <2>2, <2>3 DEF Open
<1>7. ASSUME NEW j \in run.jobs, SkipPast(j) PROVE Open'
  <2>1. run'.jobs \subseteq run.jobs /\ run'.job = run.job
    BY <1>0, <1>7, SkipPastFields
  <2>2. \A v \in User, c \in Cluster : follow'[v][c].created = follow[v][c].created
    BY <1>0, <1>7, SkipPastRows
  <2> QED
    BY <1>0, <1>7, <2>1, <2>2 DEF SkipPast, Open
<1>8. ASSUME NEW j \in run.job, Claim(j) PROVE Open'
  <2>1. run'.jobs = run.jobs /\ run'.job = run.job
    BY <1>0, <1>8, ClaimFields
  <2>2. \A v \in User, c \in Cluster : follow'[v][c].created = follow[v][c].created
    BY <1>0, <1>8, ClaimRows
  <2>3. \A l \in log' : l \in log \/ (l.user = j.user /\ l.id = j.row.created)
    BY <1>8 DEF Claim
  <2>4. clock' = clock /\ request' = request
    BY <1>8 DEF Claim
  <2> QED
    BY <1>0, <2>1, <2>2, <2>3, <2>4 DEF Open
<1> QED
  BY <1>1, <1>2, <1>3, <1>4, <1>5, <1>6, <1>7, <1>8, Steps

(* The type invariant: a claim counts on a count that was taken.           *)
LEMMA TypeKept == ASSUME Inv, Next PROVE TypeOK'
<1>0. TypeOK /\ IsFiniteSet(log)
  BY DEF Inv, Counted
<1>1. CASE \E u \in User : Reader(u)
  BY <1>0, <1>1, ReaderTypes
<1>2. CASE Start \/ DetectRead \/ Push \/ Finish \/ Abort \/ ExpireRead \/ DropStates
  BY <1>0, <1>2, StartTypes
<1>3. CASE DetectCommit
  BY <1>0, <1>3, DetectTypes
<1>4. ASSUME NEW on \in [User -> BOOLEAN], Load(on) PROVE TypeOK'
  BY <1>0, <1>4, LoadTypes
<1>5. ASSUME NEW j \in run.jobs, SkipPast(j) \/ Judge(j) PROVE TypeOK'
  BY <1>0, <1>5, JobTypes
<1>6. ASSUME NEW j \in run.job, Claim(j) \/ ClaimLost(j) PROVE TypeOK'
  <2>1. run.sent[j.user] \in Nat \/ ClaimLost(j)
    <3>1. CASE Claim(j)
      <4>1. run.sent[j.user] \in 0 .. Cap - 1
        BY <3>1 DEF Inv, Jobs, Claim
      <4> QED
        BY <4>1
    <3> QED
      BY <1>6, <3>1
  <2> QED
    BY <1>0, <1>6, <2>1, ClaimTypes
<1>7. ASSUME NEW e \in run.ending, EndFollow(e) PROVE TypeOK'
  BY <1>0, <1>7, EndTypes
<1>8. ASSUME NEW c \in Cluster,
             (\E n \in 1 .. MaxOutlets : JoinArticle(c, n)) \/ (\E B \in Summary : Enrich(c, B))
      PROVE  TypeOK'
  BY <1>0, <1>8, StoryMoves
<1> QED
  BY <1>1, <1>2, <1>3, <1>4, <1>5, <1>6, <1>7, <1>8 DEF Next, Notify

(* The count of a reader's pushes of the day is at least what the log has. *)
LEMMA CountedKept == ASSUME Inv, Next PROVE Counted'
<1>0. TypeOK /\ Past /\ Counted /\ Jobs /\ TypeOK'
  BY TypeKept DEF Inv
<1>n. /\ run.now \in Nat
      /\ \A u \in User : run.sent[u] \in Int
      /\ \A l \in log : l.user \in User /\ l.at \in Nat
  BY <1>0, Numbers
<1>1. CASE UNCHANGED <<log, run>>
  BY <1>0, <1>1 DEF Counted, Today
<1>2. CASE log' = log /\ run'.now = run.now /\ run'.sent = run.sent
  BY <1>0, <1>2 DEF Counted, Today
<1>3. CASE log' = log /\ run'.sent = [u \in User |-> -1]
  <2>1. \A u \in User : ~(run'.sent[u] >= 0)
    BY <1>3
  <2> QED
    BY <1>0, <1>3, <2>1 DEF Counted
<1>4. ASSUME NEW j \in run.jobs, Judge(j) PROVE Counted'
  <2>1. run'.now = run.now /\ run'.sent = [run.sent EXCEPT ![j.user] = SentToday(j.user)] /\ log' = log
    BY <1>0, <1>4, JudgeFields DEF Judge, tables
  <2>2. run.sent \in [User -> Nat \cup {-1}] /\ j.user \in User
    <3>1. j.user \in User
      BY <1>0, Numbers
    <3> QED
      BY <1>0, <3>1 DEF TypeOK, RunState
  <2>3. Cardinality(Today(j.user)) <= SentToday(j.user)
    <3>1. Cardinality(Today(j.user)) \in Nat
      <4>1. Today(j.user) \in SUBSET log
        BY DEF Today
      <4> QED
        BY <1>0, <4>1, FS_Subset, FS_CardinalityType DEF Counted
    <3>2. CASE run.sent[j.user] >= 0
      BY <1>0, <2>2, <3>2 DEF Counted, SentToday
    <3>3. CASE ~(run.sent[j.user] >= 0)
      <4>1. SentToday(j.user) = Cardinality(Today(j.user))
        BY <3>3 DEF SentToday, Today
      <4> QED
        BY <3>1, <4>1
    <3> QED
      BY <3>2, <3>3
  <2>4. \A u \in User : Today(u)' = Today(u)
    BY <2>1 DEF Today
  <2>5. ASSUME NEW u \in User, run'.sent[u] >= 0
        PROVE  Cardinality(Today(u)) <= run'.sent[u]
    <3>1. CASE u = j.user
      BY <2>1, <2>2, <2>3, <3>1
    <3>2. CASE u # j.user
      <4>1. run'.sent[u] = run.sent[u]
        BY <2>1, <2>2, <3>2
      <4> QED
        BY <1>0, <2>5, <4>1 DEF Counted
    <3> QED
      BY <3>1, <3>2
  <2> QED
    BY <1>0, <2>1, <2>4, <2>5 DEF Counted
<1>5. ASSUME NEW j \in run.job, Claim(j) PROVE Counted'
  <2> DEFINE entry == [user |-> j.user, cluster |-> j.cluster, id |-> j.row.created,
                       dev |-> j.dev, at |-> run.now]
             sent == [run.sent EXCEPT ![j.user] = @ + 1]
  <2>1. run'.now = run.now /\ run'.sent = sent /\ log' = log \cup {entry}
    BY <1>0, <1>5, ClaimFields DEF Claim
  <2>2. run.sent \in [User -> Nat \cup {-1}] /\ j.user \in User
    <3>1. j.user \in User
      BY <1>0, Numbers
    <3> QED
      BY <1>0, <3>1 DEF TypeOK, RunState
  <2>3. run.sent[j.user] >= 0
    <3>1. run.sent[j.user] \in 0 .. Cap - 1
      BY <1>0, <1>5 DEF Jobs, Claim
    <3> QED
      BY <3>1
  <2>4. ASSUME NEW u \in User
        PROVE  IsFiniteSet(Today(u)) /\ Cardinality(Today(u)) \in Nat
    <3>1. Today(u) \in SUBSET log
      BY DEF Today
    <3> QED
      BY <1>0, <3>1, FS_Subset, FS_CardinalityType DEF Counted
  <2>5. entry.user = j.user
    OBVIOUS
  <2> HIDE DEF entry
  <2>6. \A u \in User : Today(u)' \in {Today(u), Today(u) \cup {entry}}
    BY <2>1 DEF Today
  <2>7. \A u \in User : u # j.user => Today(u)' = Today(u)
    BY <2>1, <2>5 DEF Today
  <2>8. Cardinality(Today(j.user)') <= run.sent[j.user] + 1
    <3>1. Cardinality(Today(j.user)) <= run.sent[j.user]
      BY <1>0, <2>2, <2>3 DEF Counted
    <3>2. Cardinality(Today(j.user) \cup {entry}) \in {Cardinality(Today(j.user)), Cardinality(Today(j.user)) + 1}
      BY <2>2, <2>4, FS_AddElement
    <3>3. CASE Today(j.user)' = Today(j.user)
      <4>1. Cardinality(Today(j.user)') = Cardinality(Today(j.user))
        BY <3>3
      <4> QED
        BY <1>n, <2>2, <2>4, <3>1, <4>1
    <3>4. CASE Today(j.user)' = Today(j.user) \cup {entry}
      <4>1. Cardinality(Today(j.user)') = Cardinality(Today(j.user) \cup {entry})
        BY <3>4
      <4>2. Cardinality(Today(j.user)) \in Nat /\ run.sent[j.user] \in Int
        BY <1>n, <2>2, <2>4
      <4> QED
        BY <3>1, <3>2, <4>1, <4>2
    <3> QED
      BY <2>2, <2>6, <3>3, <3>4
  <2>9. IsFiniteSet(log')
    BY <1>0, <2>1, FS_AddElement DEF Counted
  <2>10. sent[j.user] = run.sent[j.user] + 1 /\ \A u \in User : u # j.user => sent[u] = run.sent[u]
    BY <2>2
  <2>11. ASSUME NEW u \in User, run'.sent[u] >= 0
         PROVE  Cardinality(Today(u)') <= run'.sent[u]
    <3>1. CASE u = j.user
      BY <2>1, <2>8, <2>10, <3>1
    <3>2. CASE u # j.user
      BY <1>0, <2>1, <2>7, <2>10, <2>11, <3>2 DEF Counted
    <3> QED
      BY <3>1, <3>2
  <2> QED
    BY <2>9, <2>11 DEF Counted
<1>6. CASE RunOnly
  <2>1. log' = log
    BY <1>6, RunOnlyLeaves
  <2>2. CASE Start \/ Finish \/ Abort \/ ExpireRead
    BY <1>0, <1>3, <2>1, <2>2, StartFields, OffFields, ExpireReadFields DEF Cleared
  <2>3. CASE DetectRead \/ Push \/ \E j \in run.job : ClaimLost(j)
    BY <1>0, <1>2, <2>1, <2>3, DetectReadFields, NextJobFields
  <2>4. CASE \E on \in [User -> BOOLEAN] : Load(on)
    BY <1>0, <1>2, <2>1, <2>4, LoadFields
  <2> QED
    BY <1>4, <1>6, <2>2, <2>3, <2>4 DEF RunOnly
<1>7. CASE Story \/ \E u \in User : FollowFails(u) \/ FinishFollow(u) \/ \E c \in Cluster : BeginFollow(u, c)
  BY <1>1, <1>7 DEF Story, JoinArticle, Enrich, FollowFails, FinishFollow, BeginFollow, tables
<1>8. CASE Leave
  <2>1. CASE \E e \in run.ending : EndFollow(e)
    BY <1>0, <1>2, <2>1, EndFollowFields DEF EndFollow
  <2>2. CASE \E u \in User, C \in SUBSET Cluster : Unfollow(u, C)
    BY <1>1, <2>2 DEF Unfollow
  <2> QED
    BY <1>8, <2>1, <2>2 DEF Leave
<1>9. CASE DetectCommit \/ DropStates
  BY <1>0, <1>2, <1>9, DetectCommitFields, DropStatesFields DEF DetectCommit, DropStates
<1>10. ASSUME NEW j \in run.jobs, SkipPast(j) PROVE Counted'
  BY <1>0, <1>2, <1>10, SkipPastFields DEF SkipPast
<1> QED
  BY <1>4, <1>5, <1>6, <1>7, <1>8, <1>9, <1>10, Steps

(* A row that a job still finds is the row it loaded: a new follow of the  *)
(* same reader is younger.                                                 *)
LEMMA RowsOfJobs ==
    ASSUME Inv, Leave \/ (\E u \in User : FinishFollow(u)),
           NEW j \in run.jobs \cup run.job, SameRow(j)'
    PROVE  SameRow(j) /\ follow'[j.user][j.cluster] = follow[j.user][j.cluster]
<1>0. TypeOK /\ Open /\ j.user \in User /\ j.cluster \in Cluster /\ j.row.created \in Nat
  BY Numbers DEF Inv
<1>1. follow'[j.user][j.cluster] # NoFollow /\ follow'[j.user][j.cluster].created = j.row.created
  BY DEF SameRow, Follows
<1>2. CASE Leave
  BY <1>0, <1>1, <1>2, GoneRows DEF Leave, SameRow, Follows
<1>3. ASSUME NEW u \in User, FinishFollow(u)
      PROVE  follow'[j.user][j.cluster] = follow[j.user][j.cluster]
  <2>1. request[u].open /\ request[u].at \in Nat
    BY <1>0, <1>3, Numbers DEF FinishFollow
  <2>2. u = j.user => j.row.created < request[u].at
    BY <1>0, <2>1 DEF Open
  <2>3. CASE follow'[j.user][j.cluster] = Made(request[u]) /\ j.user = u
    BY <1>0, <1>1, <2>1, <2>2, <2>3, MadeFields
  <2> QED
    BY <1>0, <1>3, <2>3, FinishRows
<1> QED
  BY <1>1, <1>2, <1>3 DEF SameRow, Follows

LEMMA JobsCarry ==
    ASSUME Jobs, run'.jobs = run.jobs, run'.job = run.job, devs \subseteq devs',
           \A j \in run.jobs \cup run.job :
             SameRow(j)' => SameRow(j) /\ follow'[j.user][j.cluster] = follow[j.user][j.cluster],
           \/ run'.pc = run.pc /\ run'.now = run.now /\ run'.sent = run.sent
           \/ run'.pc \notin {"claim", "push"} /\ run.pc \notin {"claim", "push"}
    PROVE  Jobs'
<1>1. \A j \in run.jobs \cup run.job : Fits(j) => Fits(j)'
  BY DEF Fits
<1>2. \A j \in run.jobs : SameRow(j)' => follow'[j.user][j.cluster].last < j.dev.id
  BY DEF Jobs
<1>3. run'.pc = "claim" => \A j \in run.job :
         Fits(j)' /\ run'.now - j.row.notified >= Gap /\ run'.sent[j.user] \in 0 .. Cap - 1
  BY <1>1 DEF Jobs
<1>4. \A j \in run.jobs : Fits(j)'
  BY <1>1 DEF Jobs
<1> QED
  BY <1>2, <1>3, <1>4 DEF Jobs

LEMMA JobsKept == ASSUME Inv, Next PROVE Jobs'
<1>0. TypeOK /\ Jobs /\ Counted /\ Open
  BY DEF Inv
<1>n. /\ Cap \in Nat \ {0} /\ Gap \in Nat
      /\ \A u \in User, c \in Cluster : follow[u][c].last \in Nat
      /\ \A j \in run.jobs \cup run.job : j.user \in User /\ j.cluster \in Cluster /\ j.dev.id \in Nat
  BY <1>0, Numbers
<1>1. CASE follow' = follow /\ run' = run /\ devs' = devs
  BY <1>0, <1>1 DEF Jobs, Fits, SameRow, Follows
<1>2. CASE Cleared(run') /\ run'.pc \notin {"claim", "push"}
  BY <1>2 DEF Jobs, Cleared
<1>3. CASE Story \/ \E u \in User : FollowFails(u) \/ \E c \in Cluster : BeginFollow(u, c)
  BY <1>1, <1>3 DEF Story, JoinArticle, Enrich, FollowFails, BeginFollow, tables
<1>4. CASE Leave \/ \E u \in User : FinishFollow(u)
  <2>1. /\ run'.pc = run.pc /\ run'.now = run.now /\ run'.sent = run.sent
        /\ run'.jobs = run.jobs /\ run'.job = run.job /\ devs' = devs
    BY <1>0, <1>4, EndFollowFields DEF Leave, Unfollow, EndFollow, FinishFollow
  <2>2. \A j \in run.jobs \cup run.job :
             SameRow(j)' => SameRow(j) /\ follow'[j.user][j.cluster] = follow[j.user][j.cluster]
    BY <1>4, RowsOfJobs
  <2> QED
    BY <1>0, <2>1, <2>2, JobsCarry
<1>5. CASE DetectRead \/ DetectCommit \/ DropStates
  <2>1. /\ run'.pc \notin {"claim", "push"} /\ run.pc \notin {"claim", "push"}
        /\ run'.jobs = run.jobs /\ run'.job = run.job /\ devs \subseteq devs' /\ follow' = follow
    BY <1>0, <1>5, DetectReadFields, DetectCommitFields, DropStatesFields
       DEF DetectRead, DetectCommit, DropStates, tables
  <2>2. \A j \in run.jobs \cup run.job :
             SameRow(j)' => SameRow(j) /\ follow'[j.user][j.cluster] = follow[j.user][j.cluster]
    BY <2>1 DEF SameRow, Follows
  <2> QED
    BY <1>0, <2>1, <2>2, JobsCarry
<1>6. CASE ExpireRead
  <2>1. run'.pc = "drop" /\ run'.jobs = {} /\ run'.job = {}
    BY <1>0, <1>6, ExpireReadFields DEF ExpireRead, Jobs
  <2> QED
    BY <2>1 DEF Jobs
<1>7. CASE Push \/ \E j \in run.job : ClaimLost(j)
  <2>1. run'.pc = "send" /\ run'.jobs = run.jobs /\ run'.job = {} /\ follow' = follow /\ devs' = devs
    BY <1>0, <1>7, NextJobFields DEF Push, ClaimLost, tables
  <2> QED
    BY <1>0, <2>1 DEF Jobs, Fits, SameRow, Follows
<1>8. ASSUME NEW on \in [User -> BOOLEAN], Load(on) PROVE Jobs'
  <2>1. /\ run'.pc = "send" /\ run'.job = {} /\ follow' = follow /\ devs' = devs
        /\ run'.jobs = {[user |-> x[1], cluster |-> x[2], row |-> follow[x[1]][x[2]], on |-> on[x[1]],
                         dev |-> Newest(Candidates(x[1], x[2]))] :
                           x \in {y \in User \X Cluster : /\ Follows(y[1], y[2])
                                                          /\ Candidates(y[1], y[2]) # {}}}
    BY <1>0, <1>8, LoadFields, ZenonT(60) DEF Load, tables, Jobs
  <2>2. \A i, j \in run'.jobs : SamePair(i, j) => i = j
    BY <2>1 DEF SamePair
  <2>3. ASSUME NEW j \in run'.jobs
        PROVE  /\ j.dev \in devs /\ j.dev.cluster = j.cluster /\ j.dev.at >= j.row.created
               /\ j.dev.id > follow[j.user][j.cluster].last
               /\ follow[j.user][j.cluster] = j.row
               /\ j.user \in User /\ j.cluster \in Cluster
    <3>1. PICK x \in User \X Cluster :
             /\ j = [user |-> x[1], cluster |-> x[2], row |-> follow[x[1]][x[2]], on |-> on[x[1]],
                     dev |-> Newest(Candidates(x[1], x[2]))]
             /\ Candidates(x[1], x[2]) # {}
      BY <2>1
    <3>2. Newest(Candidates(x[1], x[2])) \in Candidates(x[1], x[2])
      BY <1>0, <3>1, CandidatesType
    <3>3. j.dev \in Candidates(j.user, j.cluster) /\ follow[j.user][j.cluster] = j.row
      BY <3>1, <3>2
    <3> QED
      BY <3>1, <3>3 DEF Candidates
  <2>4. \A j \in run'.jobs : j.dev.id \in Nat /\ follow[j.user][j.cluster].last \in Nat
    BY <1>0, <2>3, Numbers
  <2>5. \A j \in run'.jobs : Fits(j)' /\ follow'[j.user][j.cluster].last < j.dev.id
    BY <2>1, <2>3, <2>4 DEF Fits
  <2> QED
    BY <2>1, <2>2, <2>3, <2>5 DEF Jobs
<1>9. ASSUME NEW j \in run.jobs, Judge(j) PROVE Jobs'
  <2>1. /\ run'.now = run.now /\ run'.jobs = run.jobs \ {j} /\ follow' = follow /\ devs' = devs
        /\ run'.sent = [run.sent EXCEPT ![j.user] = SentToday(j.user)]
        /\ run'.pc = (IF MayPush(j) THEN "claim" ELSE "send")
        /\ run'.job = (IF MayPush(j) THEN {j} ELSE {})
    BY <1>0, <1>9, JudgeFields DEF Judge, tables
  <2>2. \A k \in run.jobs : Fits(k)' /\ (SameRow(k)' => follow'[k.user][k.cluster].last < k.dev.id)
    BY <1>0, <2>1 DEF Jobs, Fits, SameRow, Follows
  <2>3. CASE MayPush(j)
    <3>1. SentToday(j.user) \in Nat
      BY <1>0, <1>n, SentTodayType DEF Counted
    <3>2. run'.sent[j.user] = SentToday(j.user)
      BY <1>0, <1>n, <2>1 DEF TypeOK, RunState
    <3>3. run'.sent[j.user] \in 0 .. Cap - 1 /\ run'.now - j.row.notified >= Gap
      BY <1>n, <2>1, <2>3, <3>1, <3>2 DEF MayPush
    <3>4. run'.job = {j} /\ run'.pc = "claim"
      BY <2>1, <2>3
    <3> QED
      BY <1>0, <2>1, <2>2, <3>3, <3>4 DEF Jobs, SamePair
  <2>4. CASE ~MayPush(j)
    <3>1. run'.job = {} /\ run'.pc = "send"
      BY <2>1, <2>4
    <3> QED
      BY <1>0, <2>1, <2>2, <3>1 DEF Jobs
  <2> QED
    BY <2>3, <2>4
<1>10. ASSUME NEW j \in run.jobs, SkipPast(j) PROVE Jobs'
  <2>1. /\ run'.pc = "send" /\ run'.jobs = run.jobs \ {j} /\ run'.job = {} /\ devs' = devs
    BY <1>0, <1>10, SkipPastFields DEF SkipPast, Jobs
  <2>2. ASSUME NEW k \in run.jobs, k # j
        PROVE  follow'[k.user][k.cluster] = follow[k.user][k.cluster]
    <3>1. ~SamePair(k, j)
      BY <1>0, <2>2 DEF Jobs
    <3> QED
      BY <1>0, <1>10, <1>n, <2>2, <3>1 DEF SkipPast, TypeOK, SamePair
  <2>3. \A k \in run'.jobs : Fits(k)' /\ (SameRow(k)' => follow'[k.user][k.cluster].last < k.dev.id)
    BY <1>0, <2>1, <2>2 DEF Jobs, Fits, SameRow, Follows
  <2> QED
    BY <1>0, <2>1, <2>3 DEF Jobs
<1>11. ASSUME NEW j \in run.job, Claim(j) PROVE Jobs'
  <2>1. run'.pc = "push" /\ run'.jobs = run.jobs /\ run'.job = run.job /\ devs' = devs
    BY <1>0, <1>11, ClaimFields DEF Claim
  <2>2. ASSUME NEW k \in run.jobs
        PROVE  follow'[k.user][k.cluster] = follow[k.user][k.cluster]
    <3>1. ~SamePair(k, j)
      BY <1>0, <2>2 DEF Jobs
    <3> QED
      BY <1>0, <1>11, <1>n, <2>2, <3>1 DEF Claim, TypeOK, SamePair
  <2>3. \A k \in run.jobs : Fits(k)' /\ (SameRow(k)' => follow'[k.user][k.cluster].last < k.dev.id)
    BY <1>0, <2>1, <2>2 DEF Jobs, Fits, SameRow, Follows
  <2> QED
    BY <1>0, <2>1, <2>3 DEF Jobs
<1>12. CASE Start \/ Finish \/ Abort
  <2>1. Cleared(run') /\ run'.pc \notin {"claim", "push"}
    BY <1>12, StartFields, OffFields
  <2> QED
    BY <1>2, <2>1
<1> QED
  BY <1>3, <1>4, <1>5, <1>6, <1>7, <1>8, <1>9, <1>10, <1>11, <1>12, Steps DEF RunOnly

(* What the log says of a follow is covered by its row.                    *)
LEMMA RowsKept == ASSUME Inv, Next PROVE Rows'
<1>0. TypeOK /\ Past /\ Open /\ Jobs /\ Rows
  BY DEF Inv
<1>n. /\ run.now \in Nat
      /\ \A u \in User, c \in Cluster : follow[u][c].last \in Nat /\ follow[u][c].notified \in Int
      /\ \A l \in log : l.user \in User /\ l.cluster \in Cluster /\ l.id \in Nat /\ l.dev.id \in Nat /\ l.at \in Nat
      /\ \A j \in run.jobs \cup run.job : j.user \in User /\ j.cluster \in Cluster /\ j.dev.id \in Nat
  BY <1>0, Numbers
<1>1. CASE /\ log' = log /\ devs \subseteq devs'
           /\ \A u \in User, c \in Cluster :
                Follows(u, c)' => follow'[u][c] = follow[u][c] \/ \A l \in log : l.user = u => l.id < follow'[u][c].created
  <2>1. ASSUME NEW l \in log, Holds(l.user, l.cluster, l.id)'
        PROVE  l.at <= follow'[l.user][l.cluster].notified /\ l.dev.id <= follow'[l.user][l.cluster].last
    <3>1. follow'[l.user][l.cluster] # NoFollow /\ follow'[l.user][l.cluster].created = l.id
      BY <2>1 DEF Holds, Follows
    <3>2. ~(l.id < l.id)
      BY <1>n
    <3>3. follow'[l.user][l.cluster] = follow[l.user][l.cluster]
      BY <1>1, <1>n, <3>1, <3>2 DEF Follows
    <3> QED
      BY <1>0, <3>1, <3>3 DEF Rows, Holds, Follows
  <2> QED
    BY <1>0, <1>1, <2>1 DEF Rows
<1>2. CASE Story \/ RunOnly \/ DropStates \/ (\E u \in User : FollowFails(u) \/ \E c \in Cluster : BeginFollow(u, c))
  <2>1. UNCHANGED <<follow, devs, log>>
    BY <1>2, RunOnlyLeaves DEF Story, JoinArticle, Enrich, DropStates, FollowFails, BeginFollow, tables
  <2> QED
    BY <1>0, <2>1 DEF Rows, Holds, Follows
<1>3. CASE DetectCommit
  <2>1. UNCHANGED <<follow, log>> /\ devs \subseteq devs'
    BY <1>3 DEF DetectCommit
  <2> QED
    BY <1>1, <2>1
<1>4. CASE Leave
  <2>1. UNCHANGED <<devs, log>>
    BY <1>4 DEF Leave, Unfollow, EndFollow
  <2>2. \A u \in User, c \in Cluster : follow'[u][c] = follow[u][c] \/ follow'[u][c] = NoFollow
    BY <1>0, <1>4, GoneRows DEF Leave
  <2> QED
    BY <1>1, <2>1, <2>2 DEF Follows
<1>5. ASSUME NEW u \in User, FinishFollow(u) PROVE Rows'
  <2>1. UNCHANGED <<devs, log>> /\ request[u].open
    BY <1>5 DEF FinishFollow
  <2>2. \A l \in log : l.user = u => l.id < request[u].at
    BY <1>0, <2>1 DEF Open
  <2>3. \A v \in User, c \in Cluster :
            \/ follow'[v][c] = follow[v][c]
            \/ v = u /\ follow'[v][c].created = request[u].at
    BY <1>0, <1>5, FinishRows, MadeFields
  <2> QED
    BY <1>1, <2>1, <2>2, <2>3
<1>6. ASSUME NEW j \in run.jobs, SkipPast(j) PROVE Rows'
  <2>1. UNCHANGED <<devs, log>> /\ follow[j.user][j.cluster].last < j.dev.id
    BY <1>0, <1>6 DEF SkipPast, Jobs
  <2>2. \A l \in log :
            /\ Holds(l.user, l.cluster, l.id)' => Holds(l.user, l.cluster, l.id)
            /\ follow'[l.user][l.cluster].notified = follow[l.user][l.cluster].notified
            /\ follow[l.user][l.cluster].last <= follow'[l.user][l.cluster].last
            /\ follow'[l.user][l.cluster].last \in Nat
    BY <1>0, <1>6, <1>n, <2>1, SkipPastRows DEF Holds, Follows
  <2> QED
    BY <1>0, <1>n, <2>1, <2>2 DEF Rows
<1>7. ASSUME NEW j \in run.job, Claim(j) PROVE Rows'
  <2> DEFINE entry == [user |-> j.user, cluster |-> j.cluster, id |-> j.row.created,
                       dev |-> j.dev, at |-> run.now]
  <2>1. /\ devs' = devs /\ log' = log \cup {entry} /\ run.pc = "claim"
        /\ SameRow(j) /\ follow[j.user][j.cluster].last < j.dev.id
    BY <1>7 DEF Claim, Unsent
  <2>2. \A l \in log :
            /\ Holds(l.user, l.cluster, l.id)' => Holds(l.user, l.cluster, l.id)
            /\ \/ follow'[l.user][l.cluster].notified = follow[l.user][l.cluster].notified
               \/ follow'[l.user][l.cluster].notified = run.now
            /\ follow[l.user][l.cluster].last <= follow'[l.user][l.cluster].last
            /\ follow'[l.user][l.cluster].last \in Nat
    BY <1>0, <1>7, <1>n, <2>1, ClaimRows DEF Holds, Follows
  <2>3. \A l \in log : l.at <= run.now
    BY <1>0, <2>1 DEF Past
  <2>4. \A l \in log :
          /\ l.dev \in devs' /\ l.dev.cluster = l.cluster /\ l.dev.at >= l.id
          /\ Holds(l.user, l.cluster, l.id)'
               => l.at <= follow'[l.user][l.cluster].notified /\ l.dev.id <= follow'[l.user][l.cluster].last
    BY <1>0, <1>n, <2>1, <2>2, <2>3 DEF Rows
  <2>5. /\ follow'[j.user][j.cluster].notified = run.now
        /\ follow'[j.user][j.cluster].last = j.dev.id
    BY <1>0, <1>7, <1>n, ClaimRows
  <2>6. j.dev \in devs /\ j.dev.cluster = j.cluster /\ j.dev.at >= j.row.created
    BY <1>0 DEF Jobs
  <2>7. /\ entry.dev \in devs' /\ entry.dev.cluster = entry.cluster /\ entry.dev.at >= entry.id
        /\ entry.at <= follow'[entry.user][entry.cluster].notified
        /\ entry.dev.id <= follow'[entry.user][entry.cluster].last
    BY <1>n, <2>1, <2>5, <2>6
  <2> HIDE DEF entry
  <2> QED
    BY <2>1, <2>4, <2>7 DEF Rows
<1> QED
  BY <1>2, <1>3, <1>4, <1>5, <1>6, <1>7, Steps

(* The follows that are ending are of quiet stories, or of stories that an *)
(* article joined since the run started.                                   *)
LEMMA EndingKept == ASSUME Inv, Next PROVE Ending'
<1>0. TypeOK /\ Past /\ Ending
  BY DEF Inv
<1>n. /\ clock \in Nat /\ run.now \in Nat /\ Quiet \in Nat
      /\ \A c \in Cluster : story[c].updated \in Nat
      /\ \A e \in run.ending : e.cluster \in Cluster
      /\ \A u \in User, c \in Cluster : follow[u][c].created \in Nat
  BY <1>0, Numbers
<1>1. CASE Cleared(run')
  BY <1>1 DEF Ending, Cleared
<1>2. CASE run'.now = run.now /\ run'.ending \subseteq run.ending /\ story' = story
  BY <1>0, <1>2 DEF Ending
<1>3. CASE Story
  <2>1. run' = run /\ \A c \in Cluster : \/ story'[c].updated = story[c].updated
                                         \/ story'[c].updated = clock
    <3>0. story \in [Cluster -> StoryRow]
      BY <1>0 DEF TypeOK
    <3>1. ASSUME NEW c \in Cluster, NEW n \in 1 .. MaxOutlets, JoinArticle(c, n)
          PROVE  run' = run /\ \A b \in Cluster : \/ story'[b].updated = story[b].updated
                                                  \/ story'[b].updated = clock
      <4> DEFINE row == [story[c] EXCEPT !.outlets = n, !.updated = clock]
      <4>1. row.updated = clock
        BY <3>0 DEF StoryRow
      <4>2. story' = [story EXCEPT ![c] = row] /\ run' = run
        BY <3>1 DEF JoinArticle
      <4> HIDE DEF row
      <4> QED
        BY <3>0, <4>1, <4>2
    <3>2. ASSUME NEW c \in Cluster, NEW B, Enrich(c, B)
          PROVE  run' = run /\ \A b \in Cluster : story'[b].updated = story[b].updated
      <4> DEFINE row == [story[c] EXCEPT !.bullets = B, !.enriched = clock]
      <4>1. row.updated = story[c].updated
        BY <3>0 DEF StoryRow
      <4>2. story' = [story EXCEPT ![c] = row] /\ run' = run
        BY <3>2 DEF Enrich
      <4> HIDE DEF row
      <4> QED
        BY <3>0, <4>1, <4>2
    <3> QED
      BY <1>3, <3>1, <3>2 DEF Story
  <2> QED
    BY <1>0, <1>n, <2>1 DEF Ending, Past
<1>4. CASE ExpireRead
  <2>1. /\ run'.now = run.now /\ story' = story
        /\ run'.ending = {[user |-> x[1], cluster |-> x[2], row |-> follow[x[1]][x[2]]] :
                            x \in {y \in User \X Cluster : Expired(y[1], y[2])}}
    BY <1>0, <1>4, ExpireReadFields DEF ExpireRead, tables
  <2>2. ASSUME NEW e \in run'.ending
        PROVE  run.now - e.row.created >= Quiet /\ run.now - story[e.cluster].updated >= Quiet
    <3>1. PICK x \in User \X Cluster :
            e = [user |-> x[1], cluster |-> x[2], row |-> follow[x[1]][x[2]]] /\ Expired(x[1], x[2])
      BY <2>1
    <3>2. run.now - Later(story[x[2]].updated, follow[x[1]][x[2]].created) >= Quiet
      BY <3>1 DEF Expired
    <3>3. e.row = follow[x[1]][x[2]] /\ e.cluster = x[2] /\ x[1] \in User /\ x[2] \in Cluster
      BY <3>1
    <3> QED
      BY <1>n, <3>2, <3>3 DEF Later
  <2> QED
    BY <2>1, <2>2 DEF Ending
<1>5. CASE Start \/ Finish \/ Abort
  BY <1>1, <1>5, StartFields, OffFields
<1>6. CASE DetectRead \/ Push \/ (\E on \in [User -> BOOLEAN] : Load(on)) \/ (\E j \in run.job : ClaimLost(j))
  <2>1. CASE DetectRead
    BY <1>0, <1>2, <2>1, DetectReadFields DEF DetectRead, tables
  <2>2. CASE Push \/ \E j \in run.job : ClaimLost(j)
    BY <1>0, <1>2, <2>2, NextJobFields DEF Push, ClaimLost, tables
  <2>3. CASE \E on \in [User -> BOOLEAN] : Load(on)
    <3>1. run'.now = run.now /\ run'.ending = run.ending
      BY <1>0, <2>3, LoadFields
    <3>2. story' = story
      BY <2>3 DEF Load, tables
    <3> QED
      BY <1>2, <3>1, <3>2
  <2> QED
    BY <1>6, <2>1, <2>2, <2>3
<1>7. ASSUME NEW j \in run.jobs, Judge(j) PROVE Ending'
  BY <1>0, <1>2, <1>7, JudgeFields DEF Judge, tables
<1>8. CASE Leave \/ \E u \in User : FollowFails(u) \/ FinishFollow(u) \/ \E c \in Cluster : BeginFollow(u, c)
  BY <1>0, <1>2, <1>8, EndFollowFields DEF Leave, Unfollow, EndFollow, FollowFails, FinishFollow, BeginFollow, tables
<1>9. CASE DetectCommit \/ DropStates
  BY <1>0, <1>2, <1>9, DetectCommitFields, DropStatesFields DEF DetectCommit, DropStates
<1>10. CASE (\E j \in run.jobs : SkipPast(j)) \/ (\E j \in run.job : Claim(j))
  BY <1>0, <1>2, <1>10, SkipPastFields, ClaimFields DEF SkipPast, Claim
<1> QED
  BY <1>3, <1>4, <1>5, <1>6, <1>7, <1>8, <1>9, <1>10, Steps DEF RunOnly

(* What was read of a story's state still holds when it is written.        *)
LEMMA LooksKept == ASSUME Inv, Next PROVE Looks'
<1>0. TypeOK /\ Looks
  BY DEF Inv
<1>1. CASE run'.looks = {}
  BY <1>1 DEF Looks
<1>2. CASE run'.looks = run.looks /\ state' = state /\ (run'.pc = run.pc \/ run.pc # "record")
  <2>1. run'.pc # "record" => run'.looks = {}
    BY <1>0, <1>2 DEF Looks
  <2>2. \A l \in run'.looks : state'[l.cluster].tracked /\ state'[l.cluster].known = l.known
    BY <1>0, <1>2 DEF Looks
  <2>3. \A k, l \in run'.looks : k.cluster = l.cluster => k = l
    BY <1>0, <1>2 DEF Looks
  <2> QED
    BY <2>1, <2>2, <2>3 DEF Looks
<1>3. CASE DetectRead
  <2>1. /\ run'.pc = "record" /\ state' = state
        /\ run'.looks = {[cluster |-> c, bullets |-> story[c].bullets, outlets |-> story[c].outlets,
                          known |-> state[c].known, count |-> state[c].count] : c \in LookedAt}
    BY <1>0, <1>3, DetectReadFields DEF DetectRead, tables
  <2>2. \A c \in LookedAt : state[c].tracked
    BY DEF LookedAt
  <2> QED
    BY <2>1, <2>2 DEF Looks
<1>4. ASSUME NEW u \in User, FinishFollow(u) PROVE Looks'
  <2>1. run' = run /\ \A c \in Cluster : state[c].tracked => state'[c] = state[c]
    BY <1>0, <1>4 DEF FinishFollow, TypeOK
  <2>2. \A l \in run.looks : l.cluster \in Cluster
    BY <1>0 DEF TypeOK, RunState
  <2> QED
    BY <1>0, <2>1, <2>2 DEF Looks
<1>5. CASE DropStates
  <2>1. run'.looks = {}
    BY <1>0, <1>5, DropStatesFields DEF DropStates, Looks
  <2> QED
    BY <1>1, <2>1
<1>6. CASE DetectCommit \/ Start \/ Finish \/ Abort
  <2>1. run'.looks = {}
    BY <1>0, <1>6, DetectCommitFields, StartFields, OffFields DEF Cleared
  <2> QED
    BY <1>1, <2>1
<1>7. CASE Story \/ \E u \in User : FollowFails(u) \/ \E c \in Cluster : BeginFollow(u, c)
  BY <1>2, <1>7 DEF Story, JoinArticle, Enrich, FollowFails, BeginFollow, tables
<1>8. CASE Leave
  <2>1. run'.looks = run.looks /\ run'.pc = run.pc /\ state' = state
    BY <1>0, <1>8, EndFollowFields DEF Leave, Unfollow, EndFollow
  <2> QED
    BY <1>2, <2>1
<1>9. CASE Push \/ \E j \in run.job : ClaimLost(j)
  <2>1. run'.looks = run.looks /\ run.pc # "record" /\ state' = state
    BY <1>0, <1>9, NextJobFields DEF Push, ClaimLost, tables
  <2> QED
    BY <1>2, <2>1
<1>10. CASE \E on \in [User -> BOOLEAN] : Load(on)
  <2>1. run'.looks = run.looks
    BY <1>0, <1>10, LoadFields
  <2>2. run.pc # "record" /\ state' = state
    BY <1>10 DEF Load, tables
  <2> QED
    BY <1>2, <2>1, <2>2
<1>11. ASSUME NEW j \in run.jobs, Judge(j) \/ SkipPast(j) PROVE Looks'
  <2>1. run'.looks = run.looks
    BY <1>0, <1>11, JudgeFields, SkipPastFields
  <2>2. run.pc # "record" /\ state' = state
    BY <1>11 DEF Judge, SkipPast, tables
  <2> QED
    BY <1>2, <2>1, <2>2
<1>12. ASSUME NEW j \in run.job, Claim(j) PROVE Looks'
  <2>1. run'.looks = run.looks /\ run.pc # "record" /\ state' = state
    BY <1>0, <1>12, ClaimFields DEF Claim
  <2> QED
    BY <1>2, <2>1
<1>13. CASE ExpireRead
  <2>1. run'.looks = run.looks
    BY <1>0, <1>13, ExpireReadFields
  <2>2. run.pc # "record" /\ state' = state
    BY <1>13 DEF ExpireRead, tables
  <2> QED
    BY <1>2, <2>1, <2>2
<1> QED
  BY <1>3, <1>4, <1>5, <1>6, <1>7, <1>8, <1>9, <1>10, <1>11, <1>12, <1>13, Steps DEF RunOnly

-----------------------------------------------------------------------------
(* The memory of a story that is followed.                                 *)
LEMMA MemoryCarry ==
    ASSUME Memory, devs' = devs, state' = state, stranded' = stranded,
           \A u \in User, c \in Cluster :
             Follows(u, c)' => /\ Follows(u, c) /\ follow'[u][c].created = follow[u][c].created
                               /\ follow'[u][c].shown = follow[u][c].shown
                               /\ follow'[u][c].first = follow[u][c].first,
           \A u \in User : request'[u].open => request'[u] = request[u]
    PROVE  Memory'
<1> SUFFICES ASSUME NEW u \in User, NEW c \in Cluster \ stranded
             PROVE  Recalls(u, c)'
  BY DEF Memory
<1>1. \A t : Since(c, t)' = Since(c, t)
  BY DEF Since
<1>2. \A t : Remembers(c, t) => Remembers(c, t)'
  BY <1>1 DEF Remembers
<1>3. Asks(u, c)' => Asks(u, c) /\ request'[u] = request[u]
  BY DEF Asks
<1>4. Recalls(u, c)
  BY DEF Memory
<1>5. CASE Follows(u, c)'
  <2>1. /\ Follows(u, c) /\ follow'[u][c].created = follow[u][c].created
        /\ follow'[u][c].shown = follow[u][c].shown /\ follow'[u][c].first = follow[u][c].first
    BY <1>5
  <2> QED
    BY <1>3, <1>4, <2>1 DEF Recalls, Remembers, Since
<1>6. CASE ~Follows(u, c)'
  BY <1>3, <1>4, <1>6 DEF Recalls, Remembers, Since
<1> QED
  BY <1>5, <1>6

(* What recording the developments does to one story.                      *)
Learns(c) ==
    /\ state[c].tracked /\ state'[c].tracked /\ state[c].known \subseteq state'[c].known
    /\ \A d \in devs' \ devs : d.cluster = c => d.bullet \in state'[c].known \ state[c].known
    /\ \A d, e \in devs' \ devs : d.cluster = c /\ e.cluster = c => d = e

LEMMA DetectLearns ==
    ASSUME Inv, DetectCommit, NEW c \in Cluster
    PROVE  /\ devs \subseteq devs'
           /\ \/ state'[c] = state[c] /\ \A d \in devs' : d.cluster = c => d \in devs
              \/ Learns(c)
<1>0. TypeOK /\ Looks
  BY DEF Inv
<1> DEFINE G == {l \in run.looks : Genuine(l)}
<1>1. PICK D \in SUBSET G :
         LET new == Cardinality(devs) + 1 .. Cardinality(devs) + Cardinality(D) IN
         /\ new \subseteq DevId
         /\ \E id \in [D -> new], b \in [D -> Bullet] :
              /\ \A k, l \in D : id[k] = id[l] => k = l
              /\ \A l \in D : b[l] \in NewBullets(l)
              /\ devs' = devs \cup {[id |-> id[l], cluster |-> l.cluster, bullet |-> b[l],
                                     at |-> run.now] : l \in D}
  BY DEF DetectCommit
<1> DEFINE new == Cardinality(devs) + 1 .. Cardinality(devs) + Cardinality(D)
<1>2. PICK id \in [D -> new], b \in [D -> Bullet] :
         /\ \A l \in D : b[l] \in NewBullets(l)
         /\ devs' = devs \cup {[id |-> id[l], cluster |-> l.cluster, bullet |-> b[l],
                                at |-> run.now] : l \in D}
  BY <1>1
<1> HIDE DEF new, G
<1>3. ASSUME NEW d \in devs', d \notin devs
      PROVE  \E l \in D : /\ d = [id |-> id[l], cluster |-> l.cluster, bullet |-> b[l], at |-> run.now]
                          /\ d.cluster = l.cluster /\ d.bullet \in l.bullets \ l.known
  BY <1>2, <1>3 DEF NewBullets
<1>4. D \subseteq run.looks
  BY DEF G
<1>5. state' = [e \in Cluster |->
                   IF \E l \in run.looks : l.cluster = e
                   THEN Remembered(CHOOSE l \in run.looks : l.cluster = e)
                   ELSE state[e]]
  BY DEF DetectCommit
<1>6. CASE ~\E l \in run.looks : l.cluster = c
  <2>1. state'[c] = state[c]
    BY <1>5, <1>6
  <2>2. \A d \in devs' : d.cluster = c => d \in devs
    BY <1>3, <1>4, <1>6
  <2> QED
    BY <1>2, <2>1, <2>2
<1>7. ASSUME NEW l \in run.looks, l.cluster = c PROVE Learns(c)
  <2>1. (CHOOSE k \in run.looks : k.cluster = c) = l
    BY <1>0, <1>7 DEF Looks
  <2>2. state'[c] = Remembered(l)
    BY <1>5, <1>7, <2>1
  <2>3. state[c].tracked /\ state[c].known = l.known
    BY <1>0, <1>7 DEF Looks
  <2>4. state'[c].tracked /\ state'[c].known = l.known \cup l.bullets
    BY <2>2 DEF Remembered
  <2>5. \A k \in D : k.cluster = c => k = l
    BY <1>0, <1>4, <1>7 DEF Looks
  <2>6. \A d \in devs' \ devs : d.cluster = c => d.bullet \in state'[c].known \ state[c].known
    BY <1>3, <2>3, <2>4, <2>5
  <2>7. \A d, e \in devs' \ devs : d.cluster = c /\ e.cluster = c => d = e
    BY <1>3, <2>5
  <2> QED
    BY <2>3, <2>4, <2>6, <2>7 DEF Learns
<1> QED
  BY <1>2, <1>6, <1>7

LEMMA MemoryLearns == ASSUME Inv, DetectCommit PROVE Memory'
<1>0. TypeOK /\ Memory
  BY DEF Inv
<1>1. UNCHANGED <<follow, request, stranded>>
  BY DEF DetectCommit
<1> SUFFICES ASSUME NEW u \in User, NEW c \in Cluster \ stranded PROVE Recalls(u, c)'
  BY <1>1 DEF Memory
<1>2. Recalls(u, c) /\ (Follows(u, c)' <=> Follows(u, c)) /\ (Asks(u, c)' <=> Asks(u, c))
  BY <1>0, <1>1 DEF Memory, Follows, Asks
<1>3. CASE state'[c] = state[c] /\ devs \subseteq devs' /\ \A d \in devs' : d.cluster = c => d \in devs
  <2>1. \A t : Since(c, t)' = Since(c, t)
    BY <1>3 DEF Since
  <2>2. \A t : Remembers(c, t) => Remembers(c, t)'
    BY <1>3, <2>1 DEF Remembers
  <2> QED
    BY <1>1, <1>2, <1>3, <2>1, <2>2 DEF Recalls, Remembers, Since
<1>4. CASE Learns(c) /\ devs \subseteq devs'
  <2>1. \A t : \A d \in Since(c, t)' :
           \/ d \in Since(c, t)
           \/ d \in devs' \ devs /\ d.cluster = c /\ d.bullet \in state'[c].known \ state[c].known
    BY <1>4 DEF Since, Learns
  <2>2. ASSUME NEW t, Remembers(c, t) PROVE Remembers(c, t)'
    <3>1. \A d \in Since(c, t)' : d.bullet \in state'[c].known
      BY <1>4, <2>1, <2>2 DEF Remembers, Learns
    <3>2. ASSUME NEW d \in Since(c, t)', NEW e \in Since(c, t)', d.bullet = e.bullet PROVE d = e
      <4>1. CASE d \in Since(c, t) /\ e \in Since(c, t)
        BY <2>2, <3>2, <4>1 DEF Remembers
      <4>2. CASE d \notin Since(c, t) /\ e \notin Since(c, t)
        BY <1>4, <2>1, <3>2, <4>2 DEF Learns
      <4>3. \A x \in Since(c, t) : x.bullet \in state[c].known
        BY <2>2 DEF Remembers
      <4> QED
        BY <2>1, <3>2, <4>1, <4>2, <4>3
    <3> QED
      BY <1>4, <3>1, <3>2 DEF Remembers, Learns
  <2>3. Follows(u, c) => Remembers(c, follow[u][c].created)'
    BY <1>1, <1>2, <2>2 DEF Recalls, Remembers, Since
  <2>4. Asks(u, c) /\ ~request[u].seeds => Remembers(c, request[u].at)'
    BY <1>1, <1>2, <2>2 DEF Recalls, Remembers, Since
  <2>5. Follows(u, c) /\ follow[u][c].first =>
         /\ follow[u][c].shown \subseteq state'[c].known
         /\ \A d \in Since(c, follow[u][c].created)' : d.bullet \notin follow[u][c].shown
    <3> SUFFICES ASSUME Follows(u, c), follow[u][c].first
                 PROVE  /\ follow[u][c].shown \subseteq state'[c].known
                        /\ \A d \in Since(c, follow[u][c].created)' : d.bullet \notin follow[u][c].shown
      OBVIOUS
    <3>1. /\ follow[u][c].shown \subseteq state[c].known
          /\ \A d \in Since(c, follow[u][c].created) : d.bullet \notin follow[u][c].shown
      BY <1>2 DEF Recalls
    <3> QED
      BY <1>1, <1>4, <2>1, <3>1 DEF Learns, Since
  <2>6. state'[c].tracked
    BY <1>4 DEF Learns
  <2>7. follow' = follow /\ request' = request
    BY <1>1
  <2> QED
    BY <1>2, <2>3, <2>4, <2>5, <2>6, <2>7 DEF Recalls, Remembers, Since
<1> QED
  BY <1>3, <1>4, DetectLearns

LEMMA MemoryDrops == ASSUME Inv, DropStates PROVE Memory'
<1>0. TypeOK /\ Memory
  BY DEF Inv
<1>1. /\ UNCHANGED <<follow, request, devs>>
      /\ state' = [c \in Cluster |-> IF c \in Dropped THEN Untracked ELSE state[c]]
      /\ stranded' = stranded \cup {c \in Dropped : state[c].tracked /\ \E u \in User : Asks(u, c)}
  BY DEF DropStates
<1> SUFFICES ASSUME NEW u \in User, NEW c \in Cluster, c \notin stranded' PROVE Recalls(u, c)'
  BY DEF Memory
<1>2. Recalls(u, c) /\ (Follows(u, c)' <=> Follows(u, c)) /\ (Asks(u, c)' <=> Asks(u, c))
  BY <1>0, <1>1 DEF Memory, Follows, Asks
<1>3. \A t : Since(c, t)' = Since(c, t)
  BY <1>1 DEF Since
<1>4. CASE c \in Dropped
  <2>1. ~Follows(u, c)
    BY <1>4 DEF Dropped, Followed
  <2>2. state'[c].tracked = FALSE
    BY <1>1, <1>4 DEF Untracked
  <2>3. Asks(u, c) => ~state[c].tracked
    BY <1>1, <1>4
  <2>4. Asks(u, c) => request[u].seeds /\ Since(c, request[u].at) = {}
    BY <1>2, <2>3 DEF Recalls, Remembers
  <2> QED
    BY <1>1, <1>2, <1>3, <2>1, <2>4 DEF Recalls, Since
<1>5. CASE c \notin Dropped
  <2>1. state'[c] = state[c]
    BY <1>1, <1>5
  <2>2. \A t : Remembers(c, t) => Remembers(c, t)'
    BY <1>3, <2>1 DEF Remembers
  <2> QED
    BY <1>1, <1>2, <1>3, <2>1, <2>2 DEF Recalls, Remembers, Since
<1> QED
  BY <1>4, <1>5

LEMMA MemoryAsks == ASSUME Inv, NEW v \in User, NEW b \in Cluster, BeginFollow(v, b) PROVE Memory'
<1>0. TypeOK /\ Memory /\ Past
  BY DEF Inv
<1>n. clock \in Nat /\ \A d \in devs : d.at \in Nat
  BY <1>0, Numbers
<1>1. /\ UNCHANGED <<follow, state, devs, stranded>>
      /\ \A u \in User : u # v => request'[u] = request[u]
  BY <1>0 DEF BeginFollow, tables, TypeOK
<1>2. /\ request'[v].open /\ request'[v].at = clock + 1 /\ request'[v].cluster = b
      /\ request'[v].seeds = ~state[b].tracked
  BY <1>0 DEF BeginFollow, Takes, TypeOK
<1> SUFFICES ASSUME NEW u \in User, NEW c \in Cluster \ stranded PROVE Recalls(u, c)'
  BY <1>1 DEF Memory
<1>3. Recalls(u, c) /\ (Follows(u, c)' <=> Follows(u, c))
  BY <1>0, <1>1 DEF Memory, Follows
<1>4. \A t : Since(c, t)' = Since(c, t) /\ (Remembers(c, t)' <=> Remembers(c, t))
  BY <1>1 DEF Since, Remembers
<1>5. CASE u # v
  <2>1. request'[u] = request[u] /\ (Asks(u, c)' <=> Asks(u, c))
    BY <1>1, <1>5 DEF Asks
  <2> QED
    BY <1>1, <1>3, <1>4, <2>1 DEF Recalls, Remembers, Since
<1>6. CASE u = v
  <2>1. Since(c, clock + 1) = {}
    BY <1>0, <1>n DEF Since, Past
  <2>2. Asks(u, c)' => c = b
    BY <1>2, <1>6 DEF Asks
  <2>3. Asks(u, c)' /\ ~request'[u].seeds => Remembers(c, clock + 1)
    BY <1>2, <1>6, <2>1, <2>2 DEF Remembers
  <2> QED
    BY <1>1, <1>2, <1>3, <1>4, <1>6, <2>1, <2>3 DEF Recalls, Remembers, Since
<1> QED
  BY <1>5, <1>6

(* A follow that seeds the state finds that nobody follows the story.      *)
LEMMA MemorySeeds == ASSUME Inv, NEW v \in User, FinishFollow(v) PROVE Memory'
<1>0. TypeOK /\ Memory
  BY DEF Inv
<1> DEFINE q == request[v]
           b == request[v].cluster
<1>1. /\ UNCHANGED <<devs, stranded>> /\ request[v].open /\ b \in Cluster
      /\ q.seeds => ~state[b].tracked
      /\ state' = IF q.seeds THEN [state EXCEPT ![b] = Seeded(q)] ELSE state
      /\ request' = [request EXCEPT ![v] = NoRequest]
  BY <1>0, Numbers DEF FinishFollow
<1>2. /\ ~request'[v].open
      /\ \A u \in User : u # v => request'[u] = request[u]
  BY <1>0, <1>1 DEF TypeOK, NoRequest
<1> SUFFICES ASSUME NEW u \in User, NEW c \in Cluster \ stranded PROVE Recalls(u, c)'
  BY <1>1 DEF Memory
<1>3. Recalls(u, c) /\ \A w \in User : Recalls(w, c)
  BY <1>0 DEF Memory
<1>4. \A t : Since(c, t)' = Since(c, t)
  BY <1>1 DEF Since
<1>5. Asks(u, c)' => Asks(u, c) /\ request'[u] = request[u] /\ u # v
  BY <1>2 DEF Asks
<1>6. Follows(u, c)' => \/ Follows(u, c) /\ follow'[u][c] = follow[u][c]
                        \/ /\ u = v /\ c = b
                           /\ follow'[u][c].created = q.at /\ follow'[u][c].shown = q.seen
                           /\ follow'[u][c].first = q.seeds
  BY <1>0, FinishRows, MadeFields DEF Follows
<1>7. CASE c # b \/ ~q.seeds
  <2>1. state'[c] = state[c]
    BY <1>0, <1>1, <1>7 DEF TypeOK
  <2>2. \A t : Remembers(c, t) => Remembers(c, t)'
    BY <1>4, <2>1 DEF Remembers
  <2>3. CASE Follows(u, c)' /\ ~(Follows(u, c) /\ follow'[u][c] = follow[u][c])
    <3>1. /\ u = v /\ c = b /\ ~q.seeds
          /\ follow'[u][c].created = q.at /\ ~follow'[u][c].first
      BY <1>6, <1>7, <2>3
    <3>2. Remembers(c, q.at)
      BY <1>1, <1>3, <3>1 DEF Recalls, Asks
    <3>3. ~Asks(u, c)'
      BY <1>5, <3>1
    <3> QED
      BY <1>4, <2>1, <3>1, <3>2, <3>3 DEF Recalls, Remembers, Since
  <2>4. CASE ~Follows(u, c)' \/ (Follows(u, c) /\ follow'[u][c] = follow[u][c])
    BY <1>3, <1>4, <1>5, <2>1, <2>2, <2>4 DEF Recalls, Remembers, Since
  <2> QED
    BY <2>3, <2>4
<1>8. CASE c = b /\ q.seeds
  <2>1. ~state[c].tracked /\ \A w \in User : ~Follows(w, c)
    BY <1>1, <1>3, <1>8 DEF Recalls, Remembers
  <2>2. state'[c].tracked /\ state'[c].known = q.seen
    BY <1>0, <1>1, <1>8 DEF TypeOK, Seeded
  <2>3. Since(c, q.at) = {}
    BY <1>1, <1>3, <1>8, <2>1 DEF Recalls, Asks
  <2>4. Follows(u, c)' => /\ follow'[u][c].created = q.at /\ follow'[u][c].shown = q.seen
    BY <1>6, <2>1
  <2>5. ~(Asks(u, c)' /\ ~request'[u].seeds)
    BY <1>3, <1>5, <2>1 DEF Recalls, Remembers
  <2> QED
    BY <1>4, <2>2, <2>3, <2>4, <2>5 DEF Recalls, Remembers, Since
<1> QED
  BY <1>7, <1>8

LEMMA MemoryKept == ASSUME Inv, Next PROVE Memory'
<1>0. TypeOK /\ Memory
  BY DEF Inv
<1>1. CASE Story \/ RunOnly \/ \E u \in User : FollowFails(u)
  <2>1. UNCHANGED <<devs, state, stranded, follow>>
    BY <1>1, RunOnlyLeaves DEF Story, JoinArticle, Enrich, FollowFails, tables
  <2>2. \A u \in User : request'[u].open => request'[u] = request[u]
    <3>1. ASSUME NEW v \in User, FollowFails(v), NEW u \in User, request'[u].open
          PROVE  request'[u] = request[u]
      BY <1>0, <3>1 DEF FollowFails, TypeOK, NoRequest
    <3> QED
      BY <1>1, <3>1, RunOnlyLeaves DEF Story, JoinArticle, Enrich
  <2> QED
    BY <1>0, <2>1, <2>2, MemoryCarry DEF Follows
<1>2. CASE Leave
  <2>1. UNCHANGED <<devs, state, stranded, request>>
    BY <1>2 DEF Leave, Unfollow, EndFollow
  <2>2. \A u \in User, c \in Cluster : follow'[u][c] = follow[u][c] \/ follow'[u][c] = NoFollow
    BY <1>0, <1>2, GoneRows DEF Leave
  <2> QED
    BY <1>0, <2>1, <2>2, MemoryCarry DEF Follows
<1>3. CASE (\E j \in run.jobs : SkipPast(j)) \/ (\E j \in run.job : Claim(j))
  <2>1. UNCHANGED <<devs, state, stranded, request>>
    BY <1>3 DEF SkipPast, Claim
  <2>2. \A u \in User, c \in Cluster :
           /\ follow'[u][c].created = follow[u][c].created /\ follow'[u][c].shown = follow[u][c].shown
           /\ follow'[u][c].first = follow[u][c].first
           /\ follow'[u][c] # NoFollow <=> follow[u][c] # NoFollow
    BY <1>0, <1>3, SkipPastRows, ClaimRows
  <2> QED
    BY <1>0, <2>1, <2>2, MemoryCarry DEF Follows
<1> QED
  BY <1>1, <1>2, <1>3, MemoryLearns, MemoryDrops, MemoryAsks, MemorySeeds, Steps

-----------------------------------------------------------------------------
(* The invariant holds at the start, and every step keeps it.              *)
LEMMA InvInit == Init => Inv
<1> SUFFICES ASSUME Init PROVE Inv
  OBVIOUS
<1>1. /\ clock = 0 /\ log = {} /\ devs = {} /\ stranded = {}
      /\ run.pc = "off" /\ run.now = 0 /\ run.looks = {} /\ run.jobs = {} /\ run.job = {} /\ run.ending = {}
      /\ \A u \in User : run.sent[u] = -1 /\ ~request[u].open
  BY DEF Init, Off, NoRequest
<1>2. \A u \in User, c \in Cluster :
         /\ follow[u][c].created = 0 /\ follow[u][c].shown = {}
         /\ Follows(u, c) => state[c].tracked /\ state[c].known = {}
  <2>1. \A r \in {NoFollow, [NoFollow EXCEPT !.first = TRUE]} : r.created = 0 /\ r.shown = {}
    BY DEF NoFollow
  <2>2. \A u \in User, c \in Cluster : follow[u][c] \in {NoFollow, [NoFollow EXCEPT !.first = TRUE]}
    <3> DEFINE rows == {NoFollow, [NoFollow EXCEPT !.first = TRUE]}
    <3>1. follow \in [User -> [Cluster -> rows]]
      BY DEF Init
    <3> HIDE DEF rows
    <3>2. \A u \in User, c \in Cluster : follow[u][c] \in rows
      BY <3>1
    <3> QED
      BY <3>2 DEF rows
  <2>3. \A u \in User, c \in Cluster : Follows(u, c) => state[c].tracked /\ state[c].known = {}
    BY DEF Init, Followed
  <2> QED
    BY <2>1, <2>2, <2>3
<1>3. TypeOK
  BY TypeInit
<1>4. Past
  BY <1>1, <1>2 DEF Past
<1>5. Open
  BY <1>1 DEF Open
<1>6. Jobs
  BY <1>1 DEF Jobs
<1>7. Counted
  <2>1. IsFiniteSet(log)
    BY <1>1, FS_EmptySet
  <2>2. \A u \in User : ~(run.sent[u] >= 0)
    BY <1>1
  <2> QED
    BY <2>1, <2>2 DEF Counted
<1>8. Rows
  BY <1>1 DEF Rows
<1>9. Memory
  BY <1>1, <1>2 DEF Memory, Recalls, Remembers, Since, Asks
<1>10. Looks /\ Ending
  BY <1>1 DEF Looks, Ending
<1> QED
  BY <1>3, <1>4, <1>5, <1>6, <1>7, <1>8, <1>9, <1>10 DEF Inv

LEMMA InvKept == Inv /\ [Next]_vars => Inv'
<1>1. ASSUME Inv, Next PROVE Inv'
  BY <1>1, TypeKept, PastKept, OpenKept, JobsKept, CountedKept, RowsKept, MemoryKept, LooksKept,
     EndingKept DEF Inv
<1>2. ASSUME Inv, UNCHANGED vars PROVE Inv'
  BY <1>2 DEF vars, Inv, TypeOK, Past, Open, Jobs, SameRow, Fits, Follows, Counted, Today, Rows, Holds,
              Memory, Recalls, Remembers, Since, Asks, Looks, Ending
<1> QED
  BY <1>1, <1>2

LEMMA Invariance == Spec => []Inv
BY InvInit, InvKept, PTL DEF Spec

(* The fields of every row, record and message stay in their sets; of the  *)
(* code: the count of a day is taken before it is added to, and a seeded   *)
(* or recorded state is a whole row.                                       *)
THEOREM TypeCorrect == Spec => []TypeOK
<1>1. Inv => TypeOK
  BY DEF Inv
<1> QED
  BY <1>1, Invariance, PTL

(* detect_developments finds the state of every story that is followed,    *)
(* unless a run dropped it during a follow request.                        *)
THEOREM FollowedTracked == Spec => []FollowedIsTracked
<1>1. ASSUME Inv PROVE FollowedIsTracked
  BY <1>1 DEF Inv, Memory, Recalls, Remembers, FollowedIsTracked, Followed
<1> QED
  BY <1>1, Invariance, PTL

(* A follow that seeded the state of its story is only told what was not   *)
(* in the summary when it was made.                                        *)
THEOREM FirstFollowNews == Spec => []FirstFollowShowsNews
<1>1. ASSUME Inv PROVE FirstFollowShowsNews
  <2> SUFFICES ASSUME NEW l \in log, l.cluster \notin stranded,
                      follow[l.user][l.cluster].created = l.id, follow[l.user][l.cluster].first
               PROVE  l.dev.bullet \notin follow[l.user][l.cluster].shown
    BY DEF FirstFollowShowsNews
  <2>1. l.user \in User /\ l.cluster \in Cluster
    BY <1>1, Numbers DEF Inv
  <2>2. Follows(l.user, l.cluster)
    <3>1. NoFollow.first = FALSE
      BY NoFollowFields
    <3> QED
      BY <3>1, Zenon DEF Follows
  <2>3. l.dev \in Since(l.cluster, l.id)
    BY <1>1 DEF Inv, Rows, Since
  <2>4. Recalls(l.user, l.cluster)
    BY <1>1, <2>1 DEF Inv, Memory
  <2> QED
    BY <2>2, <2>3, <2>4 DEF Recalls
<1> QED
  BY <1>1, Invariance, PTL

-----------------------------------------------------------------------------
(* What a claim writes against what the log says of the same follow.       *)
LEMMA ClaimIsNew ==
    ASSUME Inv, NEW j \in run.job, Claim(j), NEW l \in log,
           l.user = j.user, l.cluster = j.cluster, l.id = j.row.created
    PROVE  /\ run.now - l.at >= Gap
           /\ l.cluster \notin stranded => l.dev.bullet # j.dev.bullet
<1>0. TypeOK /\ Jobs /\ Rows /\ Memory /\ run.pc = "claim"
  BY DEF Inv, Claim
<1>n. /\ run.now \in Nat /\ Gap \in Nat /\ l.at \in Nat /\ j.row.notified \in Int
      /\ j.user \in User /\ j.cluster \in Cluster /\ l.dev.id \in Nat /\ j.dev.id \in Nat
      /\ follow[j.user][j.cluster].last \in Nat
  BY <1>0, Numbers
<1>1. /\ Follows(j.user, j.cluster) /\ follow[j.user][j.cluster].created = j.row.created
      /\ follow[j.user][j.cluster].last < j.dev.id
  BY DEF Claim, Unsent, SameRow
<1>2. follow[j.user][j.cluster].notified = j.row.notified /\ run.now - j.row.notified >= Gap
  BY <1>0, <1>1 DEF Jobs, Fits, SameRow
<1>3. l.at <= follow[j.user][j.cluster].notified /\ l.dev.id <= follow[j.user][j.cluster].last
  BY <1>0, <1>1 DEF Rows, Holds
<1>4. run.now - l.at >= Gap
  BY <1>n, <1>2, <1>3
<1>5. ASSUME l.cluster \notin stranded PROVE l.dev.bullet # j.dev.bullet
  <2>1. l.dev \in Since(j.cluster, j.row.created) /\ j.dev \in Since(j.cluster, j.row.created)
    BY <1>0 DEF Rows, Jobs, Since
  <2>2. Remembers(j.cluster, j.row.created)
    BY <1>0, <1>n, <1>1, <1>5 DEF Memory, Recalls
  <2>3. l.dev # j.dev
    BY <1>n, <1>1, <1>3
  <2> QED
    BY <2>1, <2>2, <2>3 DEF Remembers
<1> QED
  BY <1>4, <1>5

(* Only a claim writes to the log.                                         *)
LEMMA LogGrows ==
    ASSUME Inv, [Next]_vars
    PROVE  /\ stranded \subseteq stranded'
           /\ \/ log' = log
              \/ \E j \in run.job : Claim(j)
<1>1. CASE UNCHANGED vars
  BY <1>1 DEF vars
<1>2. CASE Story \/ Leave \/ DetectCommit \/ DropStates
  BY <1>2 DEF Story, JoinArticle, Enrich, Leave, Unfollow, EndFollow, DetectCommit, DropStates
<1>3. CASE \E u \in User : FinishFollow(u) \/ FollowFails(u) \/ \E c \in Cluster : BeginFollow(u, c)
  BY <1>3 DEF FinishFollow, FollowFails, BeginFollow, tables
<1>4. CASE (\E j \in run.jobs : SkipPast(j)) \/ (\E j \in run.job : Claim(j))
  BY <1>4 DEF SkipPast, Claim
<1> QED
  BY <1>1, <1>2, <1>3, <1>4, Steps, RunOnlyLeaves

(* A follow never gets the same bullet twice: a paraphrase of what fired   *)
(* never fires again, whatever the summary said in between.                *)
THEOREM NoBulletTwice == Spec => []BulletOnce
<1>1. Init => BulletOnce
  BY DEF Init, BulletOnce
<1>2. Inv /\ BulletOnce /\ [Next]_vars => BulletOnce'
  <2> SUFFICES ASSUME Inv, BulletOnce, [Next]_vars PROVE BulletOnce'
    OBVIOUS
  <2>1. CASE log' = log
    BY <2>1, LogGrows DEF BulletOnce, SameFollow
  <2>2. ASSUME NEW j \in run.job, Claim(j) PROVE BulletOnce'
    <3> DEFINE entry == [user |-> j.user, cluster |-> j.cluster, id |-> j.row.created,
                         dev |-> j.dev, at |-> run.now]
    <3>1. log' = log \cup {entry} /\ stranded' = stranded
      BY <2>2 DEF Claim
    <3>2. ASSUME NEW l \in log, SameFollow(l, entry) \/ SameFollow(entry, l), l.cluster \notin stranded
          PROVE  l.dev.bullet # entry.dev.bullet /\ entry.cluster = l.cluster
      BY <2>2, <3>2, ClaimIsNew DEF SameFollow
    <3>3. \A l \in log : SameFollow(l, entry) \/ SameFollow(entry, l) => entry.cluster = l.cluster
      BY DEF SameFollow
    <3> HIDE DEF entry
    <3> QED
      BY <3>1, <3>2, <3>3 DEF BulletOnce
  <2> QED
    BY <2>1, <2>2, LogGrows
<1> QED
  BY <1>1, <1>2, Invariance, PTL DEF Spec

(* At most one push per follow within MIN_GAP_BETWEEN_PUSHES.              *)
THEOREM PushesSpaced == Spec => []Spaced
<1>1. Init => Spaced
  BY DEF Init, Spaced
<1>2. Inv /\ Spaced /\ [Next]_vars => Spaced'
  <2> SUFFICES ASSUME Inv, Spaced, [Next]_vars PROVE Spaced'
    OBVIOUS
  <2>1. CASE log' = log
    BY <2>1 DEF Spaced, SameFollow
  <2>2. ASSUME NEW j \in run.job, Claim(j) PROVE Spaced'
    <3> DEFINE entry == [user |-> j.user, cluster |-> j.cluster, id |-> j.row.created,
                         dev |-> j.dev, at |-> run.now]
    <3>1. log' = log \cup {entry}
      BY <2>2 DEF Claim
    <3>n. /\ run.now \in Nat /\ Gap \in Nat \ {0} /\ \A l \in log : l.at \in Nat
          /\ entry.at = run.now
      BY Numbers DEF Inv
    <3>2. ASSUME NEW l \in log, SameFollow(l, entry) \/ SameFollow(entry, l)
          PROVE  entry.at - l.at >= Gap
      BY <2>2, <3>2, ClaimIsNew DEF SameFollow
    <3>3. \A l \in log : SameFollow(entry, l) => ~(entry.at <= l.at)
      BY <3>n, <3>2
    <3> HIDE DEF entry
    <3> QED
      BY <3>1, <3>2, <3>3 DEF Spaced
  <2> QED
    BY <2>1, <2>2, LogGrows
<1> QED
  BY <1>1, <1>2, Invariance, PTL DEF Spec

(* At most DAILY_CAP pushes to a reader in one day, over all stories: what *)
(* the run has in memory covers the log.                                   *)
THEOREM PushesCapped == Spec => []DailyCap
<1> DEFINE On(u, t) == {l \in log : l.user = u /\ DayOf(l.at) = DayOf(t)}
<1>1. Init => DailyCap
  <2> SUFFICES ASSUME Init, NEW u \in User, NEW t \in Time PROVE Cardinality(On(u, t)) <= Cap
    BY DEF DailyCap
  <2>1. On(u, t) = {}
    BY DEF Init
  <2>2. Cardinality(On(u, t)) = 0
    BY <2>1, FS_EmptySet, Zenon
  <2> HIDE DEF On
  <2> QED
    BY <2>2, StoryUpdatesAssumption
<1>2. Inv /\ DailyCap /\ [Next]_vars => DailyCap'
  <2> SUFFICES ASSUME Inv, DailyCap, [Next]_vars PROVE DailyCap'
    OBVIOUS
  <2>1. CASE log' = log
    BY <2>1 DEF DailyCap
  <2>2. ASSUME NEW j \in run.job, Claim(j) PROVE DailyCap'
    <3> DEFINE entry == [user |-> j.user, cluster |-> j.cluster, id |-> j.row.created,
                         dev |-> j.dev, at |-> run.now]
    <3>1. log' = log \cup {entry} /\ entry.user = j.user /\ entry.at = run.now
      BY <2>2 DEF Claim
    <3>n. Cap \in Nat /\ j.user \in User /\ IsFiniteSet(log)
      BY Numbers DEF Inv, Counted
    <3> HIDE DEF entry
    <3> SUFFICES ASSUME NEW u \in User, NEW t \in Time PROVE Cardinality(On(u, t)') <= Cap
      BY DEF DailyCap
    <3>2. Cardinality(On(u, t)) <= Cap
      BY DEF DailyCap
    <3>3. CASE u # j.user \/ DayOf(run.now) # DayOf(t)
      <4>1. On(u, t)' = On(u, t)
        BY <3>1, <3>3
      <4> QED
        BY <3>2, <4>1
    <3>4. CASE u = j.user /\ DayOf(run.now) = DayOf(t)
      <4>1. On(u, t) \in SUBSET Today(u) /\ Today(u) \in SUBSET log
        <5>1. DayOf(run.now) \in Int
          BY StoryUpdatesAssumption, Numbers DEF Inv, DayOf
        <5>2. DayOf(run.now) >= DayOf(run.now)
          BY <5>1
        <5> QED
          BY <3>4, <5>2 DEF Today
      <4>2. run.sent[u] \in 0 .. Cap - 1
        BY <2>2, <3>4 DEF Inv, Jobs, Claim
      <4>3. Cardinality(Today(u)) <= run.sent[u]
        BY <4>2 DEF Inv, Counted
      <4>4. /\ IsFiniteSet(Today(u)) /\ IsFiniteSet(On(u, t))
            /\ Cardinality(Today(u)) \in Nat /\ Cardinality(On(u, t)) \in Nat
            /\ Cardinality(On(u, t)) <= Cardinality(Today(u))
        <5>1. IsFiniteSet(Today(u)) /\ Cardinality(Today(u)) \in Nat
          BY <3>n, <4>1, FS_Subset, FS_CardinalityType
        <5> QED
          BY <4>1, <5>1, FS_Subset, FS_CardinalityType
      <4>5. On(u, t)' = On(u, t) \cup {entry}
        BY <3>1, <3>4
      <4>6. Cardinality(On(u, t) \cup {entry}) \in {Cardinality(On(u, t)), Cardinality(On(u, t)) + 1}
        BY <4>4, FS_AddElement
      <4>7. Cardinality(On(u, t) \cup {entry}) <= Cap
        BY <3>n, <4>2, <4>3, <4>4, <4>6
      <4> QED
        BY <4>5, <4>7
    <3> QED
      BY <3>3, <3>4
  <2> QED
    BY <2>1, <2>2, LogGrows
<1> QED
  BY <1>1, <1>2, Invariance, PTL DEF Spec

-----------------------------------------------------------------------------
(* A run ends no follow of a story that was active within QUIET_EXPIRY of  *)
(* the run's start, nor a follow younger than that.                        *)
THEOREM EndsQuietFollows == Spec => EndedWasQuiet
<1> DEFINE A == \A u \in User, c \in Cluster : Follows(u, c) /\ follow'[u][c] = NoFollow =>
                   \/ Unfollow(u, {c}) \/ Unfollow(u, Cluster)
                   \/ /\ run.now - follow[u][c].created >= Quiet
                      /\ run.now - story[c].updated >= Quiet \/ story[c].updated >= run.now
<1>1. Inv /\ [Next]_vars => [A]_vars
  <2> SUFFICES ASSUME Inv, Next, NEW u \in User, NEW c \in Cluster,
                      follow[u][c] # NoFollow, follow'[u][c] = NoFollow
               PROVE  \/ Unfollow(u, {c}) \/ Unfollow(u, Cluster)
                      \/ /\ run.now - follow[u][c].created >= Quiet
                         /\ run.now - story[c].updated >= Quiet \/ story[c].updated >= run.now
    BY DEF Follows
  <2>0. TypeOK /\ Open /\ Ending /\ follow \in [User -> [Cluster -> FollowRow]]
    BY DEF Inv, TypeOK
  <2>1. follow' # follow
    OBVIOUS
  <2>2. CASE Story \/ RunOnly \/ DetectCommit \/ DropStates
             \/ \E v \in User : FollowFails(v) \/ \E b \in Cluster : BeginFollow(v, b)
    BY <2>1, <2>2, RunOnlyLeaves
       DEF Story, JoinArticle, Enrich, DetectCommit, DropStates, FollowFails, BeginFollow, tables
  <2>3. CASE (\E j \in run.jobs : SkipPast(j)) \/ (\E j \in run.job : Claim(j))
    BY <2>0, <2>3, SkipPastRows, ClaimRows
  <2>4. ASSUME NEW v \in User, FinishFollow(v) PROVE FALSE
    <3>1. follow'[u][c] = Made(request[v]) /\ u = v
      BY <2>0, <2>4, FinishRows
    <3>2. request[v].at \in Nat /\ follow[v][c].created < request[v].at /\ follow[v][c].created \in Nat
      BY <2>0, <2>4, Numbers DEF FinishFollow, Open
    <3>3. request[v].at = 0
      BY <3>1, MadeFields, NoFollowFields
    <3> QED
      BY <3>2, <3>3
  <2>5. ASSUME NEW e \in run.ending, EndFollow(e)
        PROVE  /\ run.now - follow[u][c].created >= Quiet
               /\ run.now - story[c].updated >= Quiet \/ story[c].updated >= run.now
    <3>1. e.user \in User /\ e.cluster \in Cluster
      BY <2>0, Numbers
    <3>2. u = e.user /\ c = e.cluster /\ SameRow(e)
      BY <2>0, <2>5, <3>1 DEF EndFollow
    <3> QED
      BY <2>0, <3>2 DEF Ending, SameRow
  <2>6. ASSUME NEW v \in User, NEW C \in {{b} : b \in Cluster} \cup {Cluster}, Unfollow(v, C)
        PROVE  Unfollow(u, {c}) \/ Unfollow(u, Cluster)
    <3>1. v = u /\ c \in C
      BY <2>0, <2>6 DEF Unfollow
    <3> QED
      BY <2>6, <3>1
  <2>7. ASSUME NEW v \in User, Reader(v)
        PROVE  \/ \E b \in Cluster : BeginFollow(v, b)
               \/ FinishFollow(v) \/ FollowFails(v)
               \/ \E C \in {{b} : b \in Cluster} \cup {Cluster} : Unfollow(v, C)
    BY <2>7 DEF Reader
  <2>8. CASE Notify
    BY <2>2, <2>3, <2>5, <2>8 DEF Notify, RunOnly
  <2> QED
    BY <2>2, <2>4, <2>6, <2>7, <2>8 DEF Next, Story
<1> QED
  BY <1>1, Invariance, PTL DEF Spec, EndedWasQuiet

(* The three rules of what a reader is pushed hold together.               *)
THEOREM PushRulesHold == Spec => []PushRules
BY NoBulletTwice, PushesSpaced, PushesCapped, PTL DEF PushRules

(* What a follow request leaves is enough for the runs, with the exception *)
(* both parts name.                                                        *)
THEOREM FollowsSeeded == Spec => []FollowsAreSeeded
BY FollowedTracked, FirstFollowNews, PTL DEF FollowsAreSeeded

=============================================================================
