--------------------------- MODULE BreakingReview ---------------------------
(***************************************************************************)
(* The "Breaking" slot: the cycle that the poller runs after every poll    *)
(* (app/services/breaking.py) and the admin decisions that run next to it  *)
(* (app/admin_breaking.py).  The cycle runs under the poll lease, so there *)
(* is one at a time, but each of its statements is a transaction of its    *)
(* own.  An approval reads the row, waits for the language model and then  *)
(* writes the row without reading it again, so other decisions and whole   *)
(* cycles may come in between.                                             *)
(*                                                                         *)
(* Time is counted in ticks.  A row keeps ages, not dates, and an age      *)
(* saturates once it is over every threshold it is compared with.  A beat  *)
(* is the number of the model call that produced it.                       *)
(***************************************************************************)
EXTENDS Integers, FiniteSets

CONSTANTS
    Cluster, Admin,
    MaxActive,      \* MAX_ACTIVE_BREAKING
    MinSources,     \* BREAKING_MIN_SOURCES
    Delta,          \* REFRESH_SOURCE_DELTA
    ReviewHours,    \* EXPIRE_REVIEW_HOURS, in ticks
    StaleHours,     \* EXPIRE_STALE_BEAT_HOURS
    AbsoluteHours,  \* EXPIRE_ABSOLUTE_HOURS
    MaxSources,     \* bound: outlets a cluster can reach
    MaxReviews,     \* bound: refresh reviews ever raised
    MaxCalls        \* bound: model calls ever answered

ASSUME BreakingAssumption ==
    /\ IsFiniteSet(Cluster)
    /\ MaxActive \in Nat /\ MinSources \in Nat \ {0} /\ Delta \in Nat \ {0}
    /\ ReviewHours \in Nat /\ StaleHours \in Nat /\ AbsoluteHours \in Nat
    /\ MaxSources \in Nat /\ MaxReviews \in Nat /\ MaxCalls \in Nat

VARIABLES
    story,      \* breaking_stories: one row per cluster at most
    review,     \* breaking_refresh_reviews
    sources,    \* story_clusters.distinct_source_count
    recent,     \* clusters whose became_multi_source_at is inside the window
    cycle,      \* where process_breaking_cycle is
    free,       \* its free_slots
    desk,       \* the decision each admin's request is in the middle of
    calls,      \* model calls answered so far
    overtaken,  \* history: clusters an approval wrote after losing its row
    redone      \* history: clusters a refresh wrote after its review was decided

vars == <<story, review, sources, recent, cycle, free, desk, calls, overtaken, redone>>

ReviewId == 1 .. MaxReviews
OldAge == AbsoluteHours + 1
Quiet == StaleHours + 1

Status == {"none", "pending_review", "active", "expired", "rejected"}
Story == [status: Status,
          age: 0 .. OldAge,             \* now() - promoted_at
          quiet: 0 .. Quiet,            \* now() - last_beat_at
          base: 0 .. MaxSources,        \* sources_at_promotion
          reviewed: 0 .. MaxSources,    \* last_reviewed_source_count, 0: NULL
          beats: SUBSET (1 .. MaxCalls)]
Review == [status: {"none"}]            \* no such row yet
          \cup [status: {"pending", "approved", "rejected"},
                cluster: Cluster,
                count: 0 .. MaxSources] \* source_count_at_review
Desk == [task: {"idle"}]
        \cup [task: {"candidate"}, cluster: Cluster]
        \cup [task: {"refresh"}, id: ReviewId, seen: SUBSET (1 .. MaxCalls)]

NoStory == [status |-> "none", age |-> 0, quiet |-> 0, base |-> 0,
            reviewed |-> 0, beats |-> {}]
NoReview == [status |-> "none"]
Idle == [task |-> "idle"]

WithStatus(S) == {c \in Cluster : story[c].status \in S}
Occupied == WithStatus({"pending_review", "active"})

TypeOK ==
    /\ story \in [Cluster -> Story]
    /\ review \in [ReviewId -> Review]
    /\ sources \in [Cluster -> 0 .. MaxSources]
    /\ recent \subseteq Cluster
    /\ cycle \in {"idle", "expired", "counted", "raised"}
    /\ free \in -Cardinality(Cluster) .. MaxActive
    /\ desk \in [Admin -> Desk]
    /\ calls \in 0 .. MaxCalls
    /\ overtaken \subseteq Cluster /\ redone \subseteq Cluster

Init ==
    /\ story = [c \in Cluster |-> NoStory]
    /\ review = [r \in ReviewId |-> NoReview]
    /\ sources = [c \in Cluster |-> 0]
    /\ recent = Cluster
    /\ cycle = "idle"
    /\ free = 0
    /\ desk = [a \in Admin |-> Idle]
    /\ calls = 0
    /\ overtaken = {} /\ redone = {}

-----------------------------------------------------------------------------
(* The poller: an outlet joins a cluster, the velocity window closes.      *)
JoinOutlet(c) ==
    /\ sources[c] < MaxSources
    /\ sources' = [sources EXCEPT ![c] = @ + 1]
    /\ UNCHANGED <<story, review, recent, cycle, free, desk, calls, overtaken, redone>>

CloseWindow(c) ==
    /\ c \in recent
    /\ recent' = recent \ {c}
    /\ UNCHANGED <<story, review, sources, cycle, free, desk, calls, overtaken, redone>>

Older(n, cap) == IF n < cap THEN n + 1 ELSE n

Tick ==
    /\ story' = [c \in Cluster |->
                   [story[c] EXCEPT !.age = Older(@, OldAge),
                                    !.quiet = Older(@, Quiet)]]
    /\ UNCHANGED <<review, sources, recent, cycle, free, desk, calls, overtaken, redone>>

-----------------------------------------------------------------------------
(* process_breaking_cycle: expire_stale_breaking and                       *)
(* expire_unreviewed_candidates, committed together.                       *)
Stale(c) == /\ story[c].status = "active"
            /\ story[c].quiet > StaleHours \/ story[c].age > AbsoluteHours

Unreviewed(c) == /\ story[c].status = "pending_review"
                 /\ story[c].age > ReviewHours

(* Mutants of CycleExpire: one of its two statements is missing.           *)
CycleExpireStaleOnly ==
    /\ cycle = "idle"
    /\ story' = [c \in Cluster |->
                   IF Stale(c) THEN [story[c] EXCEPT !.status = "expired"]
                               ELSE story[c]]
    /\ cycle' = "expired"
    /\ UNCHANGED <<review, sources, recent, free, desk, calls, overtaken, redone>>

CycleExpire ==
    /\ cycle = "idle"
    /\ story' = [c \in Cluster |->
                   CASE Stale(c) -> [story[c] EXCEPT !.status = "expired"]
                     [] Unreviewed(c) -> [story[c] EXCEPT !.status = "rejected"]
                     [] OTHER -> story[c]]
    /\ cycle' = "expired"
    /\ UNCHANGED <<review, sources, recent, free, desk, calls, overtaken, redone>>

(* Mutants of CycleCount: pending rows do not occupy a slot, and the       *)
(* occupied slots are added.                                               *)
CycleCountActiveOnly ==
    /\ cycle = "expired"
    /\ free' = MaxActive - Cardinality(WithStatus({"active"}))
    /\ cycle' = "counted"
    /\ UNCHANGED <<story, review, sources, recent, desk, calls, overtaken, redone>>

(* detect_breaking_candidates counts the occupied slots ...                *)
CycleCount ==
    /\ cycle = "expired"
    /\ free' = MaxActive - Cardinality(Occupied)
    /\ cycle' = "counted"
    /\ UNCHANGED <<story, review, sources, recent, desk, calls, overtaken, redone>>

(* ... then takes the clusters with most outlets among those that have no  *)
(* row in any status, as many as were free, and writes their rows.         *)
Qualifies(c) == /\ sources[c] >= MinSources
                /\ c \in recent
                /\ story[c].status = "none"

Chosen(S) ==
    LET Q == {c \in Cluster : Qualifies(c)}
        Q_rest == Q \ S
    IN  /\ S \subseteq Q
        /\ Cardinality(S) <= free
        /\ Q_rest # {} => Cardinality(S) = free
        /\ \A c \in S, d \in Q_rest : sources[c] >= sources[d]

CycleRaise ==
    /\ cycle = "counted"
    /\ \/ free <= 0 /\ UNCHANGED story
       \/ /\ free > 0
          /\ \E S \in SUBSET Cluster :
               /\ Chosen(S)
               /\ story' = [c \in Cluster |->
                              IF c \in S
                              THEN [NoStory EXCEPT !.status = "pending_review",
                                                   !.base = sources[c]]
                              ELSE story[c]]
    /\ free' = 0
    /\ cycle' = "raised"
    /\ UNCHANGED <<review, sources, recent, desk, calls, overtaken, redone>>

(* find_refresh_candidates and a pending review for each of its clusters.  *)
Goalpost(c) == IF story[c].reviewed = 0 THEN story[c].base ELSE story[c].reviewed

(* Mutant of HasPending: the NOT EXISTS clause is missing.                 *)
HasPendingUnseen(c) == FALSE

HasPending(c) == \E r \in ReviewId :
                    review[r].status = "pending" /\ review[r].cluster = c

NeedsRefresh(c) == /\ story[c].status = "active"
                   /\ sources[c] >= Goalpost(c) + Delta
                   /\ ~HasPending(c)

CycleRefresh ==
    /\ cycle = "raised"
    /\ LET New == {c \in Cluster : NeedsRefresh(c)}
           Unused == {r \in ReviewId : review[r].status = "none"}
       IN  \E id \in [New -> Unused] :
             /\ \A c, d \in New : id[c] = id[d] => c = d
             /\ review' = [r \in ReviewId |->
                             IF \E c \in New : id[c] = r
                             THEN LET c == CHOOSE c \in New : id[c] = r
                                  IN  [status |-> "pending", cluster |-> c,
                                       count |-> sources[c]]
                             ELSE review[r]]
    /\ cycle' = "idle"
    /\ UNCHANGED <<story, sources, recent, free, desk, calls, overtaken, redone>>

(* Any statement may raise: the cycle logs, notifies and ends.             *)
CycleFails ==
    /\ cycle # "idle"
    /\ cycle' = "idle"
    /\ free' = 0
    /\ UNCHANGED <<story, review, sources, recent, desk, calls, overtaken, redone>>

-----------------------------------------------------------------------------
(* decide_candidate(c, "reject").                                          *)
RejectCandidate(a, c) ==
    /\ desk[a] = Idle
    /\ story[c].status = "pending_review"
    /\ story' = [story EXCEPT ![c].status = "rejected"]
    /\ UNCHANGED <<review, sources, recent, cycle, free, desk, calls, overtaken, redone>>

(* decide_candidate(c, "approve") up to the model call.                    *)
ApproveCandidate(a, c) ==
    /\ desk[a] = Idle
    /\ story[c].status = "pending_review"
    /\ desk' = [desk EXCEPT ![a] = [task |-> "candidate", cluster |-> c]]
    /\ UNCHANGED <<story, review, sources, recent, cycle, free, calls, overtaken, redone>>

(* extract_beats_only: what it answers once the beats without a valid      *)
(* citation are dropped is nothing, or a batch of new beats.               *)
Extracted == {{}, {calls + 1}}

(* The model answers.  Without a citable beat the row is rejected, else it *)
(* goes live; the newest article may be of any age.  The row is written    *)
(* whatever has become of it meanwhile.                                    *)
CandidateAnswered(a, c) ==
    /\ desk[a].task = "candidate" /\ desk[a].cluster = c
    /\ calls < MaxCalls
    /\ calls' = calls + 1
    /\ \/ {} \in Extracted /\ story' = [story EXCEPT ![c].status = "rejected"]
       \/ \E q \in 0 .. Quiet, b \in Extracted \ {{}} :
            story' = [story EXCEPT ![c] =
                        [@ EXCEPT !.status = "active", !.quiet = q,
                                  !.beats = b, !.reviewed = story[c].base]]
    /\ overtaken' = IF story[c].status = "pending_review" THEN overtaken
                                                          ELSE overtaken \cup {c}
    /\ desk' = [desk EXCEPT ![a] = Idle]
    /\ UNCHANGED <<review, sources, recent, cycle, free, redone>>

(* BreakingNarrativeError, no articles, or the request is dropped:         *)
(* "nothing was changed".                                                  *)
DecisionFails(a) ==
    /\ desk[a] # Idle
    /\ desk' = [desk EXCEPT ![a] = Idle]
    /\ UNCHANGED <<story, review, sources, recent, cycle, free, calls, overtaken, redone>>

(* Mutant of SkipRefresh: a rejected batch does not move the goalposts.    *)
SkipRefreshInPlace(a, r) ==
    /\ desk[a] = Idle
    /\ review[r].status = "pending"
    /\ review' = [review EXCEPT ![r].status = "rejected"]
    /\ UNCHANGED <<story, sources, recent, cycle, free, desk, calls, overtaken, redone>>

(* decide_refresh: skip(), on a reject or when no article is new.          *)
SkipRefresh(a, r) ==
    /\ desk[a] = Idle
    /\ review[r].status = "pending"
    /\ review' = [review EXCEPT ![r].status = "rejected"]
    /\ story' = [story EXCEPT ![review[r].cluster].reviewed = review[r].count]
    /\ UNCHANGED <<sources, recent, cycle, free, desk, calls, overtaken, redone>>

(* decide_refresh(r, "approve") up to the model call: the beats it will    *)
(* append to are the ones it has loaded here.                              *)
ApproveRefresh(a, r) ==
    /\ desk[a] = Idle
    /\ review[r].status = "pending"
    /\ desk' = [desk EXCEPT ![a] = [task |-> "refresh", id |-> r,
                                    seen |-> story[review[r].cluster].beats]]
    /\ UNCHANGED <<story, review, sources, recent, cycle, free, calls, overtaken, redone>>

(* The model answers with new beats, or with none.  Nobody looks again     *)
(* whether the review is still pending, or whether the story has other     *)
(* beats by now.                                                           *)
RefreshAnswered(a, r) ==
    /\ desk[a].task = "refresh" /\ desk[a].id = r
    /\ calls < MaxCalls
    /\ calls' = calls + 1
    /\ review' = [review EXCEPT ![r].status = "approved"]
    /\ LET c == review[r].cluster IN
       \/ {} \in Extracted /\ story' = [story EXCEPT ![c].reviewed = review[r].count]
       \/ \E q \in 0 .. Quiet, b \in Extracted \ {{}} :
            story' = [story EXCEPT ![c] =
                        [@ EXCEPT !.beats = desk[a].seen \cup b,
                                  !.quiet = q,
                                  !.reviewed = review[r].count]]
    /\ redone' = IF review[r].status = "pending" THEN redone
                                                 ELSE redone \cup {review[r].cluster}
    /\ desk' = [desk EXCEPT ![a] = Idle]
    /\ UNCHANGED <<sources, recent, cycle, free, overtaken>>

-----------------------------------------------------------------------------
Poller == \/ \E c \in Cluster : JoinOutlet(c) \/ CloseWindow(c)
          \/ Tick

Cycle == CycleExpire \/ CycleCount \/ CycleRaise \/ CycleRefresh \/ CycleFails

Decide(a) ==
    \/ \E c \in Cluster : \/ RejectCandidate(a, c)
                          \/ ApproveCandidate(a, c)
                          \/ CandidateAnswered(a, c)
    \/ \E r \in ReviewId : \/ SkipRefresh(a, r)
                           \/ ApproveRefresh(a, r)
                           \/ RefreshAnswered(a, r)
    \/ DecisionFails(a)

Next == Poller \/ Cycle \/ \E a \in Admin : Decide(a)

Spec == Init /\ [][Next]_vars

(* Polls keep coming, each runs a cycle that reaches its expiry statement  *)
(* and either goes on or fails, and time passes.  Nobody has to decide.    *)
Fairness ==
    /\ WF_vars(Tick)
    /\ WF_vars(CycleExpire)
    /\ WF_vars(CycleCount \/ CycleRaise \/ CycleRefresh \/ CycleFails)

FairSpec == Spec /\ Fairness

-----------------------------------------------------------------------------
(* The slots are never over-committed, except by stories whose approval    *)
(* was overtaken: the row it had read as pending timed out, was rejected   *)
(* or was approved by someone else during the model call.                  *)
Charged == Occupied \ overtaken

BudgetUnlessOvertaken == Cardinality(Charged) <= MaxActive

(* The stories whose decisions were taken one at a time.                   *)
Orderly == Cluster \ (overtaken \cup redone)

(* The beats of a story are "append-only across refreshes", except where   *)
(* two approvals were answered on the same beats.                          *)
BeatsAppendOnly ==
    [][ \A c \in Orderly' : story[c].beats \subseteq story'[c].beats ]_vars

(* A refresh in flight refers to a review that exists; reviews are never   *)
(* taken back to nothing.                                                  *)
DeskReadsReview ==
    \A a \in Admin :
        desk[a].task = "refresh" => review[desk[a].id].status # "none"

(* A live story always has something to show: "rather than showing an      *)
(* empty Breaking card".                                                   *)
NoEmptyCard == \A c \in WithStatus({"active"}) : story[c].beats # {}

(* "a story has at most one *pending* refresh review at a time".           *)
OnePendingReview ==
    \A q, r \in ReviewId :
        (/\ review[q].status = "pending" /\ review[r].status = "pending"
         /\ review[q].cluster = review[r].cluster) => q = r

(* A decided review moves the goalposts, whichever way it was decided: the *)
(* next one needs Delta more outlets than every one before, unless a late  *)
(* answer moved them back.                                                 *)
ReviewsNeedNewCoverage ==
    [][ \A q, r \in ReviewId :
          (/\ review[r].status = "none" /\ review'[r].status = "pending"
           /\ review[q].status # "none"
           /\ review[q].cluster = review'[r].cluster
           /\ review[q].cluster \in Orderly)
          => review'[r].count >= review[q].count + Delta ]_vars

(* Nobody has to act for a candidate to leave the queue.                   *)
CandidateLeavesQueue ==
    \A c \in Cluster :
        story[c].status = "pending_review" ~> story[c].status # "pending_review"

(* A story does not stay pinned for as long as it stays newsworthy.        *)
PinIsTemporary ==
    \A c \in Cluster :
        story[c].status = "active" ~> story[c].status # "active"

(* What readers and the desk are shown: at most one pending review of a    *)
(* story, and no pinned story without beats.                               *)
CardsAndReviews == OnePendingReview /\ NoEmptyCard

(* Neither beats nor the coverage that was decided on are gone back on,    *)
(* for stories whose approvals did not overlap.                            *)
CoverageMovesOn == BeatsAppendOnly /\ ReviewsNeedNewCoverage

(* Slots come free: candidates and pins end, whether or not anybody acts.  *)
SlotIsGivenBack == CandidateLeavesQueue /\ PinIsTemporary
=============================================================================
