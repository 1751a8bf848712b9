---------------------------- MODULE StoryUpdates ----------------------------
(***************************************************************************)
(* Followed stories (app/services/story_updates.py, the followed-stories   *)
(* endpoints of app/main.py): a run of scripts/send_notifications.py       *)
(* detects developments, fans them out to the followers and ends follows   *)
(* of stories that went quiet, while readers follow and unfollow and the   *)
(* poller and the enrichment rewrite the stories.                          *)
(*                                                                         *)
(* The clock advances when a run or a follow request takes the time; what  *)
(* happens at tick t comes after the run or the request that began it.  So *)
(* created_at identifies a row.  Two bullets are the same model value when *)
(* find_new_bullet takes one for a restatement of the other.  Runs do not  *)
(* overlap: they hold the job lease (JobLease).  The devices of a reader   *)
(* are in Notifications.                                                   *)
(***************************************************************************)
EXTENDS Integers, FiniteSets

CONSTANTS
    User, Cluster, Bullet,
    Gap,            \* MIN_GAP_BETWEEN_PUSHES
    Cap,            \* DAILY_CAP
    Quiet,          \* QUIET_EXPIRY
    Lookback,       \* _DEVELOPMENT_LOOKBACK
    DayLen,
    Summary,        \* bound: the sets of bullets an enrichment can write
    LastTick,       \* bound: clock
    MaxOutlets,     \* bound: outlets of a story
    MaxDev          \* bound: developments

ASSUME StoryUpdatesAssumption ==
    /\ Gap \in Nat \ {0} /\ Cap \in Nat \ {0} /\ Quiet \in Nat \ {0}
    /\ Lookback \in Nat /\ DayLen \in Nat \ {0}
    /\ Summary \subseteq SUBSET Bullet
    /\ LastTick \in Nat /\ MaxOutlets \in Nat \ {0} /\ MaxDev \in Nat

VARIABLES
    clock,
    story,      \* story_clusters: summary, outlets, the two dates
    follow,     \* story_follows
    state,      \* cluster_follow_state
    devs,       \* story_developments
    request,    \* the follow request each reader is in the middle of
    run,        \* what the run holds in memory
    log,        \* notification_log, mode story_update
    stranded    \* history: clusters whose state went during a follow request

vars == <<clock, story, follow, state, devs, request, run, log, stranded>>
tables == <<story, follow, state, devs, log>>

Time == 0 .. LastTick
Never == -Gap       \* last_notified_at IS NULL: any gap has passed
Unread == -1        \* last_enriched_at IS NULL: before every look
DevId == 1 .. MaxDev
Later(a, b) == IF a >= b THEN a ELSE b

StoryRow == [bullets: SUBSET Bullet, outlets: 1 .. MaxOutlets,
             enriched: Time \cup {Unread}, updated: Time]
\* shown and first are history: what the summary said when the follow was
\* made, and whether it was the one that seeded the story's state.
NoFollow == [created |-> 0, last |-> 0, notified |-> Never, shown |-> {}, first |-> FALSE]
FollowRow == [created: Time, last: 0 .. MaxDev, notified: Time \cup {Never},
              shown: SUBSET Bullet, first: BOOLEAN]
Untracked == [tracked |-> FALSE]
StateRow == {Untracked} \cup [tracked: {TRUE}, known: SUBSET Bullet,
                              count: 1 .. MaxOutlets, checked: Time]
Development == [id: DevId, cluster: Cluster, bullet: Bullet, at: Time]
NoRequest == [open |-> FALSE]
Off == [pc |-> "off", now |-> 0, looks |-> {}, jobs |-> {}, job |-> {},
        ending |-> {}, sent |-> [u \in User |-> -1]]

Follows(u, c) == follow[u][c] # NoFollow
Followed(c) == \E u \in User : Follows(u, c)
Takes(t) == clock < LastTick /\ t = clock + 1 /\ clock' = t

\* Any stories are followed already; none has a summary yet.
Init ==
    /\ clock = 0
    /\ story = [c \in Cluster |-> [bullets |-> {}, outlets |-> 1, enriched |-> Unread, updated |-> 0]]
    /\ follow \in [User -> [Cluster -> {NoFollow, [NoFollow EXCEPT !.first = TRUE]}]]
    /\ state = [c \in Cluster |->
                 IF Followed(c) THEN [tracked |-> TRUE, known |-> {}, count |-> 1, checked |-> 0]
                 ELSE Untracked]
    /\ devs = {}
    /\ request = [u \in User |-> NoRequest]
    /\ run = Off
    /\ log = {} /\ stranded = {}

-----------------------------------------------------------------------------
(* The story changes: an article joins, of a new outlet or not; enrichment *)
(* rewrites the summary.                                                   *)
JoinArticle(c, n) ==
    /\ n \in {story[c].outlets, story[c].outlets + 1} /\ n <= MaxOutlets
    /\ story' = [story EXCEPT ![c] = [@ EXCEPT !.outlets = n, !.updated = clock]]
    /\ UNCHANGED <<clock, follow, state, devs, request, run, log, stranded>>

Enrich(c, B) ==
    /\ story' = [story EXCEPT ![c] = [@ EXCEPT !.bullets = B, !.enriched = clock]]
    /\ UNCHANGED <<clock, follow, state, devs, request, run, log, stranded>>

-----------------------------------------------------------------------------
(* The reader.  follow_story is one transaction: it loads the story,       *)
(* inserts the follow unless there is one, looks for the story's state and *)
(* seeds one when there is none.  Nobody sees its inserts before it ends.  *)
BeginFollow(u, c) ==
    /\ ~request[u].open
    /\ \E t \in Time :
         /\ Takes(t)
         /\ request' = [request EXCEPT ![u] =
              [open |-> TRUE, cluster |-> c, at |-> t, old |-> Follows(u, c),
               seeds |-> ~state[c].tracked, seen |-> story[c].bullets,
               count |-> story[c].outlets]]
    /\ UNCHANGED <<tables, run, stranded>>

Seeded(q) == [tracked |-> TRUE, known |-> q.seen, count |-> q.count, checked |-> q.at]

Made(q) == [NoFollow EXCEPT !.created = q.at, !.shown = q.seen, !.first = q.seeds]

FinishFollow(u) ==
    LET q == request[u] IN
    /\ q.open
    /\ q.seeds => ~state[q.cluster].tracked
    /\ follow' = IF q.old THEN follow
                 ELSE [follow EXCEPT ![u][q.cluster] = Made(q)]
    /\ state' = IF q.seeds THEN [state EXCEPT ![q.cluster] = Seeded(q)] ELSE state
    /\ request' = [request EXCEPT ![u] = NoRequest]
    /\ UNCHANGED <<clock, story, devs, run, log, stranded>>

\* Two first followers at once: the second seed violates the primary key
\* and takes its follow with it.  Any other failure has the same effect.
FollowFails(u) ==
    /\ request[u].open
    /\ request' = [request EXCEPT ![u] = NoRequest]
    /\ UNCHANGED <<clock, tables, run, stranded>>

\* unfollow_story and unfollow_all_stories.
Unfollow(u, C) ==
    /\ ~request[u].open
    /\ \E c \in C : Follows(u, c)
    /\ follow' = [follow EXCEPT ![u] = [c \in Cluster |-> IF c \in C THEN NoFollow ELSE @[c]]]
    /\ UNCHANGED <<clock, story, state, devs, request, run, log, stranded>>

-----------------------------------------------------------------------------
(* The run: detect_developments.                                           *)
Start ==
    /\ run.pc = "off"
    /\ \E t \in Time : Takes(t) /\ run' = [Off EXCEPT !.pc = "detect", !.now = t]
    /\ UNCHANGED <<tables, request, stranded>>

\* Stories with followers and a state, enriched since they were looked at:
\* an enrichment of the tick of that look came after its run had started.
LookedAt == {c \in Cluster : /\ Followed(c) /\ state[c].tracked
                             /\ story[c].enriched >= state[c].checked}

DetectRead ==
    /\ run.pc = "detect"
    /\ run' = [run EXCEPT !.pc = "record",
         !.looks = {[cluster |-> c, bullets |-> story[c].bullets, outlets |-> story[c].outlets,
                     known |-> state[c].known, count |-> state[c].count] : c \in LookedAt}]
    /\ UNCHANGED <<clock, tables, request, stranded>>

\* find_new_bullet and is_genuine_development.
NewBullets(l) == l.bullets \ l.known
Genuine(l) == NewBullets(l) # {} /\ l.outlets > l.count

\* Mutant of Remembered: the new bullets are not added.
RememberedOld(l) == [tracked |-> TRUE, known |-> l.known, count |-> l.outlets,
                     checked |-> run.now]

Remembered(l) == [tracked |-> TRUE, known |-> l.known \cup l.bullets, count |-> l.outlets,
                  checked |-> run.now]

\* A development for every genuine look that is not a runaway cluster; all
\* that was seen is remembered.
DetectCommit ==
    /\ run.pc = "record"
    /\ \E D \in SUBSET {l \in run.looks : Genuine(l)} :
         LET new == Cardinality(devs) + 1 .. Cardinality(devs) + Cardinality(D) IN
         /\ new \subseteq DevId
         /\ \E id \in [D -> new], b \in [D -> Bullet] :
              /\ \A k, l \in D : id[k] = id[l] => k = l
              /\ \A l \in D : b[l] \in NewBullets(l)
              /\ devs' = devs \cup {[id |-> id[l], cluster |-> l.cluster, bullet |-> b[l],
                                     at |-> run.now] : l \in D}
    /\ state' = [c \in Cluster |->
                   IF \E l \in run.looks : l.cluster = c
                   THEN Remembered(CHOOSE l \in run.looks : l.cluster = c)
                   ELSE state[c]]
    /\ run' = [run EXCEPT !.pc = "load", !.looks = {}]
    /\ UNCHANGED <<clock, story, follow, request, log, stranded>>

-----------------------------------------------------------------------------
(* send_story_updates.  A job is a follow with the newest development it   *)
(* has not had.                                                            *)

Candidates(u, c) == {d \in devs : /\ d.cluster = c
                                  /\ d.at >= run.now - Lookback
                                  /\ d.at >= follow[u][c].created
                                  /\ d.id > follow[u][c].last}

Newest(D) == CHOOSE d \in D : \A e \in D : e.id <= d.id

\* Readers switch story alerts on and off at any time, so what their
\* preferences say when they are loaded is free.
Load(on) ==
    /\ run.pc = "load"
    /\ run' = [run EXCEPT !.pc = "send",
         !.jobs = {[user |-> x[1], cluster |-> x[2], row |-> follow[x[1]][x[2]], on |-> on[x[1]],
                    dev |-> Newest(Candidates(x[1], x[2]))] :
                     x \in {y \in User \X Cluster : /\ Follows(y[1], y[2])
                                                    /\ Candidates(y[1], y[2]) # {}}}]
    /\ UNCHANGED <<clock, tables, request, stranded>>

SameRow(j) == Follows(j.user, j.cluster) /\ follow[j.user][j.cluster].created = j.row.created

\* The switch is off: skip past the development.  A row that is gone makes
\* the commit fail, which is Abort.
SkipPast(j) ==
    /\ run.pc = "send" /\ j \in run.jobs /\ ~j.on /\ SameRow(j)
    /\ follow' = [follow EXCEPT ![j.user][j.cluster] = [@ EXCEPT !.last = j.dev.id]]
    /\ run' = [run EXCEPT !.jobs = @ \ {j}]
    /\ UNCHANGED <<clock, story, state, devs, request, log, stranded>>

DayOf(t) == t \div DayLen

\* The count is taken once per reader and kept up in memory.
SentToday(u) ==
    IF run.sent[u] >= 0 THEN run.sent[u]
    ELSE Cardinality({l \in log : l.user = u /\ DayOf(l.at) >= DayOf(run.now)})

MayPush(j) == SentToday(j.user) < Cap /\ run.now - j.row.notified >= Gap

Judge(j) ==
    /\ run.pc = "send" /\ j \in run.jobs /\ j.on
    /\ run' = [run EXCEPT !.sent = [run.sent EXCEPT ![j.user] = SentToday(j.user)], !.jobs = @ \ {j},
                          !.pc = IF MayPush(j) THEN "claim" ELSE "send",
                          !.job = IF MayPush(j) THEN {j} ELSE {}]
    /\ UNCHANGED <<clock, tables, request, stranded>>

Unsent(j) == SameRow(j) /\ follow[j.user][j.cluster].last < j.dev.id

\* The guarded UPDATE, the log row and the commit.
Claim(j) ==
    /\ run.pc = "claim" /\ j \in run.job /\ Unsent(j)
    /\ follow' = [follow EXCEPT ![j.user][j.cluster] =
                    [@ EXCEPT !.last = j.dev.id, !.notified = run.now]]
    /\ log' = log \cup {[user |-> j.user, cluster |-> j.cluster, id |-> j.row.created,
                         dev |-> j.dev, at |-> run.now]}
    /\ run' = [run EXCEPT !.pc = "push", !.sent = [run.sent EXCEPT ![j.user] = @ + 1]]
    /\ UNCHANGED <<clock, story, state, devs, request, stranded>>

\* No row matched.  The rollback expires every loaded follow, so the next
\* one that is looked at raises: the loop only survives its last follow.
ClaimLost(j) ==
    /\ run.pc = "claim" /\ j \in run.job /\ ~Unsent(j) /\ run.jobs = {}
    /\ run' = [run EXCEPT !.pc = "send", !.job = {}]
    /\ UNCHANGED <<clock, tables, request, stranded>>

\* The devices are sent to after the commit: a push that is not sent is
\* lost, one that was claimed is not sent again.
Push ==
    /\ run.pc = "push"
    /\ run' = [run EXCEPT !.pc = "send", !.job = {}]
    /\ UNCHANGED <<clock, tables, request, stranded>>

-----------------------------------------------------------------------------
(* expire_quiet_follows.                                                   *)

\* Mutant of Expired: a follow of an old story ends at once.
ExpiredByStory(u, c) == Follows(u, c) /\ run.now - story[c].updated >= Quiet

Expired(u, c) ==
    Follows(u, c) /\ run.now - Later(story[c].updated, follow[u][c].created) >= Quiet

ExpireRead ==
    /\ run.pc = "send" /\ run.jobs = {}
    /\ run' = [run EXCEPT !.pc = "drop", !.sent = Off.sent,
         !.ending = {[user |-> x[1], cluster |-> x[2], row |-> follow[x[1]][x[2]]] :
                       x \in {y \in User \X Cluster : Expired(y[1], y[2])}}]
    /\ UNCHANGED <<clock, tables, request, stranded>>

\* Mutant of Dropped: the states of the follows that end are dropped.
DroppedWithEnding == {c \in Cluster : ~Followed(c)} \cup {e.cluster : e \in run.ending}

Dropped == {c \in Cluster : ~Followed(c)}

Asks(u, c) == request[u].open /\ request[u].cluster = c

\* A request that found the state a moment ago has not committed its follow
\* yet, so the statement does not see it.
DropStates ==
    /\ run.pc = "drop"
    /\ state' = [c \in Cluster |-> IF c \in Dropped THEN Untracked ELSE state[c]]
    /\ stranded' = stranded \cup {c \in Dropped : /\ state[c].tracked
                                                  /\ \E u \in User : Asks(u, c)}
    /\ run' = [run EXCEPT !.pc = "end"]
    /\ UNCHANGED <<clock, story, follow, devs, request, log>>

\* One follow ends, if its row is still there.
EndFollow(e) ==
    /\ run.pc = "end" /\ e \in run.ending
    /\ follow' = IF SameRow(e) THEN [follow EXCEPT ![e.user][e.cluster] = NoFollow] ELSE follow
    /\ run' = [run EXCEPT !.ending = @ \ {e}]
    /\ UNCHANGED <<clock, story, state, devs, request, log, stranded>>

Finish ==
    /\ run.pc = "end" /\ run.ending = {}
    /\ run' = Off
    /\ UNCHANGED <<clock, tables, request, stranded>>

\* An exception, or the end of the process: what is not committed is lost.
Abort ==
    /\ run.pc # "off"
    /\ run' = Off
    /\ UNCHANGED <<clock, tables, request, stranded>>

-----------------------------------------------------------------------------
Reader(u) == \/ \E c \in Cluster : BeginFollow(u, c) \/ Unfollow(u, {c})
             \/ FinishFollow(u) \/ FollowFails(u) \/ Unfollow(u, Cluster)

Notify == \/ Start \/ DetectRead \/ DetectCommit \/ Push
          \/ ExpireRead \/ DropStates \/ Finish \/ Abort
          \/ \E on \in [User -> BOOLEAN] : Load(on)
          \/ \E j \in run.jobs : SkipPast(j) \/ Judge(j)
          \/ \E j \in run.job : Claim(j) \/ ClaimLost(j)
          \/ \E e \in run.ending : EndFollow(e)

Next == \/ \E c \in Cluster, n \in 1 .. MaxOutlets : JoinArticle(c, n)
        \/ \E c \in Cluster, B \in Summary : Enrich(c, B)
        \/ \E u \in User : Reader(u)
        \/ Notify

Spec == Init /\ [][Next]_vars

-----------------------------------------------------------------------------
JobRow == [user: User, cluster: Cluster, row: FollowRow, on: BOOLEAN,
           dev: Development]
LogRow == [user: User, cluster: Cluster, id: Time, dev: Development, at: Time]

RunState == [pc: {"off", "detect", "record", "load", "send", "claim", "push", "drop", "end"},
             now: Time,
             looks: SUBSET [cluster: Cluster, bullets: SUBSET Bullet, outlets: 1 .. MaxOutlets,
                            known: SUBSET Bullet, count: 1 .. MaxOutlets],
             jobs: SUBSET JobRow, job: SUBSET JobRow,
             ending: SUBSET [user: User, cluster: Cluster, row: FollowRow],
             sent: [User -> Nat \cup {-1}]]

Request == {NoRequest} \cup [open: {TRUE}, cluster: Cluster, at: Time, old: BOOLEAN,
                             seeds: BOOLEAN, seen: SUBSET Bullet, count: 1 .. MaxOutlets]

TypeOK ==
    /\ clock \in Time
    /\ story \in [Cluster -> StoryRow]
    /\ follow \in [User -> [Cluster -> FollowRow]]
    /\ state \in [Cluster -> StateRow]
    /\ devs \subseteq Development
    /\ request \in [User -> Request]
    /\ run \in RunState
    /\ log \subseteq LogRow
    /\ stranded \subseteq Cluster

SameFollow(k, l) == k.user = l.user /\ k.cluster = l.cluster /\ k.id = l.id

(* "a paraphrase of a point that already fired ... can never fire again":  *)
(* a follow never gets the same bullet twice, whatever the story's summary *)
(* said in between, unless a run forgot the story during a follow request. *)
BulletOnce ==
    \A k, l \in log : SameFollow(k, l) /\ k.dev.bullet = l.dev.bullet /\ l.cluster \notin stranded
                       => k = l

(* "At most one push per followed story per this long": per follow, that   *)
(* is, as following again starts afresh.                                   *)
Spaced == \A k, l \in log : SameFollow(k, l) /\ k.at <= l.at /\ k # l => l.at - k.at >= Gap

(* "at most this many story-update pushes per user per UTC day across all  *)
(* followed stories".                                                      *)
DailyCap ==
    \A u \in User, t \in Time :
        Cardinality({l \in log : l.user = u /\ DayOf(l.at) = DayOf(t)}) <= Cap

(* What is detected depends on the state of the story: a followed story    *)
(* has one, except when a run dropped it while a request relied on it.     *)
FollowedIsTracked == \A c \in Cluster : Followed(c) => state[c].tracked \/ c \in stranded

(* "following never pushes what the user is looking at" holds of the       *)
(* follow that seeded the story's state, with the same exception.          *)
FirstFollowShowsNews ==
    \A l \in log :
        LET row == follow[l.user][l.cluster]
        IN  row.created = l.id /\ row.first => \/ l.dev.bullet \notin row.shown
                                               \/ l.cluster \in stranded

(* What a reader gets of a story: each bullet once, pushes apart, and no   *)
(* more than the cap on a day.                                             *)
PushRules == BulletOnce /\ Spaced /\ DailyCap

(* What a follow request leaves for the runs that follow it.               *)
FollowsAreSeeded == FollowedIsTracked /\ FirstFollowShowsNews

(* A run ends no follow of a story that was active within QUIET_EXPIRY of  *)
(* the run's start, nor a follow younger than that.                        *)
EndedWasQuiet ==
    [][\A u \in User, c \in Cluster : Follows(u, c) /\ follow'[u][c] = NoFollow =>
         \/ Unfollow(u, {c}) \/ Unfollow(u, Cluster)
         \/ /\ run.now - follow[u][c].created >= Quiet
            /\ run.now - story[c].updated >= Quiet \/ story[c].updated >= run.now]_vars
=============================================================================
