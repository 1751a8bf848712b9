----------------------- MODULE BreakingReview_proofs -----------------------
(***************************************************************************)
(* Proofs about BreakingReview for any number of clusters and admins, any  *)
(* slot budget and any thresholds.                                         *)
(***************************************************************************)
EXTENDS BreakingReview, FiniteSetTheorems, TLAPS

(* Slots counted by the detector never leave the range of a budget minus   *)
(* a number of clusters.                                                   *)
LEMMA FreeRange ==
    TypeOK => MaxActive - Cardinality(Occupied)
                 \in -Cardinality(Cluster) .. MaxActive
<1> SUFFICES ASSUME TypeOK
             PROVE  MaxActive - Cardinality(Occupied)
                       \in -Cardinality(Cluster) .. MaxActive
  OBVIOUS
<1>1. IsFiniteSet(Cluster) /\ MaxActive \in Nat
  BY BreakingAssumption
<1>2. Occupied \subseteq Cluster
  BY DEF Occupied, WithStatus
<1>3. /\ IsFiniteSet(Occupied)
      /\ Cardinality(Occupied) <= Cardinality(Cluster)
  BY <1>1, <1>2, FS_Subset
<1>4. Cardinality(Occupied) \in Nat /\ Cardinality(Cluster) \in Nat
  BY <1>1, <1>3, FS_CardinalityType
<1> QED
  BY <1>1, <1>3, <1>4

(* The updates of a row that the handlers make keep it a row.              *)
LEMMA StoryUpdates ==
    ASSUME NEW s \in Story, NEW q \in 0 .. Quiet, NEW n \in 0 .. MaxSources,
           NEW b \in SUBSET (1 .. MaxCalls)
    PROVE  /\ \A st \in Status : [s EXCEPT !.status = st] \in Story
           /\ \A g \in 0 .. OldAge : [s EXCEPT !.age = g, !.quiet = q] \in Story
           /\ [s EXCEPT !.status = "active", !.quiet = q, !.beats = b,
                        !.reviewed = n] \in Story
           /\ [s EXCEPT !.beats = b, !.quiet = q, !.reviewed = n] \in Story
           /\ [s EXCEPT !.reviewed = n] \in Story
  BY DEF Story, Status

LEMMA StoryFields ==
    ASSUME NEW s \in Story
    PROVE  /\ s.status \in Status /\ s.age \in 0 .. OldAge
           /\ s.quiet \in 0 .. Quiet /\ s.base \in 0 .. MaxSources
           /\ s.reviewed \in 0 .. MaxSources /\ s.beats \subseteq 1 .. MaxCalls
  BY DEF Story

LEMMA OlderStays ==
    ASSUME NEW cap \in Nat, NEW n \in 0 .. cap
    PROVE  Older(n, cap) \in 0 .. cap
  BY DEF Older

LEMMA ReviewUpdates ==
    ASSUME NEW v \in Review, v.status # "none"
    PROVE  /\ v.cluster \in Cluster /\ v.count \in 0 .. MaxSources
           /\ \A st \in {"approved", "rejected"} :
                /\ [v EXCEPT !.status = st] \in Review
                /\ [v EXCEPT !.status = st].status = st
  BY DEF Review

(* The state a request in flight carries.                                  *)
LEMMA DeskFields ==
    ASSUME NEW d \in Desk
    PROVE  /\ d.task = "candidate" => d.cluster \in Cluster
           /\ d.task = "refresh" => /\ d.id \in ReviewId
                                    /\ d.seen \subseteq 1 .. MaxCalls
  BY DEF Desk

-----------------------------------------------------------------------------
TypeInv == TypeOK /\ DeskReadsReview

LEMMA InitTypeInv == Init => TypeInv
<1> SUFFICES ASSUME Init PROVE TypeInv
  OBVIOUS
<1>1. IsFiniteSet(Cluster) /\ Cardinality(Cluster) \in Nat
  BY BreakingAssumption, FS_CardinalityType
<1>2. NoStory \in Story
  BY BreakingAssumption DEF NoStory, Story, Status, OldAge, Quiet
<1>3. NoReview \in Review /\ Idle \in Desk
  BY DEF NoReview, Review, Idle, Desk
<1>4. 0 \in -Cardinality(Cluster) .. MaxActive
  BY <1>1, BreakingAssumption
<1> QED
  BY <1>2, <1>3, <1>4, BreakingAssumption
  DEF Init, TypeInv, TypeOK, DeskReadsReview, Idle

LEMMA PollerType == TypeInv /\ Poller => TypeInv'
<1> SUFFICES ASSUME TypeInv, Poller PROVE TypeInv'
  OBVIOUS
<1> USE DEF TypeInv, TypeOK, DeskReadsReview
<1>1. ASSUME NEW c \in Cluster, JoinOutlet(c) PROVE TypeInv'
  BY <1>1, BreakingAssumption DEF JoinOutlet
<1>2. ASSUME NEW c \in Cluster, CloseWindow(c) PROVE TypeInv'
  BY <1>2 DEF CloseWindow
<1>3. CASE Tick
  <2>1. OldAge \in Nat /\ Quiet \in Nat /\ MaxSources \in Nat
    BY BreakingAssumption DEF OldAge, Quiet
  <2>2. ASSUME NEW c \in Cluster
        PROVE  [story[c] EXCEPT !.age = Older(@, OldAge),
                                !.quiet = Older(@, Quiet)] \in Story
    <3>1. story[c] \in Story
      OBVIOUS
    <3>2. /\ Older(story[c].age, OldAge) \in 0 .. OldAge
          /\ Older(story[c].quiet, Quiet) \in 0 .. Quiet
      BY <2>1, <3>1, StoryFields, OlderStays
    <3>3. 0 \in 0 .. MaxSources
      BY <2>1
    <3> QED
      BY <3>1, <3>2, <3>3, StoryUpdates
  <2> QED
    BY <1>3, <2>2 DEF Tick
<1> QED
  BY <1>1, <1>2, <1>3 DEF Poller

LEMMA CycleType == TypeInv /\ Cycle => TypeInv'
<1> SUFFICES ASSUME TypeInv, Cycle PROVE TypeInv'
  OBVIOUS
<1> USE DEF TypeInv, TypeOK, DeskReadsReview
<1>0. 0 \in -Cardinality(Cluster) .. MaxActive
  BY FS_CardinalityType, BreakingAssumption
<1>1. CASE CycleExpire
  <2>1. ASSUME NEW c \in Cluster
        PROVE  /\ [story[c] EXCEPT !.status = "expired"] \in Story
               /\ [story[c] EXCEPT !.status = "rejected"] \in Story
    BY DEF Story, Status
  <2> QED
    BY <1>1, <2>1 DEF CycleExpire
<1>2. CASE CycleCount
  BY <1>2, FreeRange DEF CycleCount
<1>3. CASE CycleRaise
  <2>1. \A c \in Cluster :
          [NoStory EXCEPT !.status = "pending_review", !.base = sources[c]]
            \in Story
    <3>1. NoStory \in Story
      BY BreakingAssumption DEF NoStory, Story, Status, OldAge, Quiet
    <3>2. ASSUME NEW s \in Story, NEW n \in 0 .. MaxSources
          PROVE  [s EXCEPT !.status = "pending_review", !.base = n] \in Story
      BY DEF Story, Status
    <3> QED
      BY <3>1, <3>2
  <2>2. story' \in [Cluster -> Story]
    <3>1. CASE UNCHANGED story
      BY <3>1
    <3>2. ASSUME NEW S \in SUBSET Cluster,
                 story' = [c \in Cluster |->
                              IF c \in S
                              THEN [NoStory EXCEPT !.status = "pending_review",
                                                   !.base = sources[c]]
                              ELSE story[c]]
          PROVE  story' \in [Cluster -> Story]
      BY <2>1, <3>2
    <3> QED
      BY <1>3, <3>1, <3>2 DEF CycleRaise
  <2> QED
    BY <1>0, <1>3, <2>2 DEF CycleRaise
<1>4. CASE CycleRefresh
  <2> DEFINE New == {c \in Cluster : NeedsRefresh(c)}
             Unused == {r \in ReviewId : review[r].status = "none"}
  <2>1. PICK id \in [New -> Unused] :
          review' = [r \in ReviewId |->
                       IF \E c \in New : id[c] = r
                       THEN LET c == CHOOSE c \in New : id[c] = r
                            IN  [status |-> "pending", cluster |-> c,
                                 count |-> sources[c]]
                       ELSE review[r]]
    BY <1>4 DEF CycleRefresh
  <2>2. ASSUME NEW r \in ReviewId, \E c \in New : id[c] = r
        PROVE  LET c == CHOOSE c \in New : id[c] = r
               IN  [status |-> "pending", cluster |-> c,
                    count |-> sources[c]] \in Review
    <3> DEFINE c == CHOOSE c \in New : id[c] = r
    <3>1. c \in Cluster
      BY <2>2
    <3>2. sources[c] \in 0 .. MaxSources
      BY <3>1
    <3> QED
      BY <3>1, <3>2 DEF Review
  <2>3. review' \in [ReviewId -> Review]
    BY <2>1, <2>2
  <2>4. \A r \in ReviewId :
          review[r].status # "none" => review'[r].status # "none"
    BY <2>1
  <2>5. DeskReadsReview'
    BY <1>4, <2>4, DeskFields DEF CycleRefresh
  <2> QED
    BY <1>4, <2>3, <2>5 DEF CycleRefresh
<1>5. CASE CycleFails
  BY <1>0, <1>5 DEF CycleFails
<1> QED
  BY <1>1, <1>2, <1>3, <1>4, <1>5 DEF Cycle

(* A model call that answers with beats answers with the batch it numbers. *)
LEMMA OneBatch == Extracted \ {{}} = {{calls + 1}}
  BY DEF Extracted

LEMMA DecideType == ASSUME NEW a \in Admin PROVE TypeInv /\ Decide(a) => TypeInv'
<1> SUFFICES ASSUME TypeInv, Decide(a) PROVE TypeInv'
  OBVIOUS
<1> USE DEF TypeInv, TypeOK, DeskReadsReview
<1>0. Idle \in Desk
  BY DEF Idle, Desk
<1>1. ASSUME NEW c \in Cluster, RejectCandidate(a, c) PROVE TypeInv'
  <2>1. [story[c] EXCEPT !.status = "rejected"] \in Story
    BY DEF Story, Status
  <2> QED
    BY <1>1, <2>1 DEF RejectCandidate
<1>2. ASSUME NEW c \in Cluster, ApproveCandidate(a, c) PROVE TypeInv'
  <2>1. [task |-> "candidate", cluster |-> c] \in Desk
    BY DEF Desk
  <2> QED
    BY <1>2, <2>1 DEF ApproveCandidate
<1>3. ASSUME NEW c \in Cluster, CandidateAnswered(a, c) PROVE TypeInv'
  <2>1. calls \in 0 .. MaxCalls /\ calls < MaxCalls /\ MaxCalls \in Nat
    BY <1>3, BreakingAssumption DEF CandidateAnswered
  <2>2. {calls + 1} \in SUBSET (1 .. MaxCalls) /\ calls + 1 \in 0 .. MaxCalls
    BY <2>1
  <2>3. story[c] \in Story /\ story[c].base \in 0 .. MaxSources
    BY StoryFields
  <2>4. [story[c] EXCEPT !.status = "rejected"] \in Story
    BY <2>3 DEF Story, Status
  <2>5. ASSUME NEW q \in 0 .. Quiet
        PROVE  [story[c] EXCEPT !.status = "active", !.quiet = q,
                                !.beats = {calls + 1},
                                !.reviewed = story[c].base] \in Story
    BY <2>2, <2>3, StoryUpdates
  <2>6. story' \in [Cluster -> Story]
    <3>1. \/ story' = [story EXCEPT ![c].status = "rejected"]
          \/ \E q \in 0 .. Quiet :
               story' = [story EXCEPT ![c] =
                           [@ EXCEPT !.status = "active", !.quiet = q,
                                     !.beats = {calls + 1},
                                     !.reviewed = story[c].base]]
      BY <1>3, OneBatch DEF CandidateAnswered
    <3> QED
      BY <2>4, <2>5, <3>1
  <2>7. overtaken' \subseteq Cluster
    BY <1>3 DEF CandidateAnswered
  <2>8. desk' \in [Admin -> Desk] /\ DeskReadsReview'
    BY <1>0, <1>3 DEF CandidateAnswered, Idle
  <2> QED
    BY <1>3, <2>2, <2>6, <2>7, <2>8 DEF CandidateAnswered
<1>4. CASE DecisionFails(a)
  BY <1>0, <1>4 DEF DecisionFails, Idle
<1>5. ASSUME NEW r \in ReviewId, SkipRefresh(a, r) PROVE TypeInv'
  <2>1. review[r] \in Review /\ review[r].status # "none"
    BY <1>5 DEF SkipRefresh
  <2>2. /\ review[r].cluster \in Cluster /\ review[r].count \in 0 .. MaxSources
        /\ [review[r] EXCEPT !.status = "rejected"] \in Review
    BY <2>1, ReviewUpdates
  <2>3. [story[review[r].cluster] EXCEPT !.reviewed = review[r].count] \in Story
    BY <2>2 DEF Story
  <2>4. review' \in [ReviewId -> Review] /\ DeskReadsReview'
    BY <1>5, <2>2, DeskFields DEF SkipRefresh
  <2> QED
    BY <1>5, <2>2, <2>3, <2>4 DEF SkipRefresh
<1>6. ASSUME NEW r \in ReviewId, ApproveRefresh(a, r) PROVE TypeInv'
  <2>1. review[r] \in Review /\ review[r].status = "pending"
    BY <1>6 DEF ApproveRefresh
  <2>2. story[review[r].cluster].beats \subseteq 1 .. MaxCalls
    BY <2>1, ReviewUpdates, StoryFields
  <2>3. [task |-> "refresh", id |-> r,
         seen |-> story[review[r].cluster].beats] \in Desk
    BY <2>2 DEF Desk
  <2> QED
    BY <1>6, <2>1, <2>3 DEF ApproveRefresh
<1>7. ASSUME NEW r \in ReviewId, RefreshAnswered(a, r) PROVE TypeInv'
  <2> DEFINE c == review[r].cluster
  <2>1. review[r] \in Review /\ review[r].status # "none"
    BY <1>7 DEF RefreshAnswered
  <2>2. /\ c \in Cluster /\ review[r].count \in 0 .. MaxSources
        /\ [review[r] EXCEPT !.status = "approved"] \in Review
        /\ [review[r] EXCEPT !.status = "approved"].status = "approved"
    BY <2>1, ReviewUpdates
  <2>3. desk[a].seen \subseteq 1 .. MaxCalls
    BY <1>7, DeskFields DEF RefreshAnswered
  <2>4. calls \in 0 .. MaxCalls /\ calls < MaxCalls /\ MaxCalls \in Nat
    BY <1>7, BreakingAssumption DEF RefreshAnswered
  <2>5. /\ desk[a].seen \cup {calls + 1} \in SUBSET (1 .. MaxCalls)
        /\ calls + 1 \in 0 .. MaxCalls
    BY <2>3, <2>4
  <2>6. story[c] \in Story
    BY <2>2
  <2>7. [story[c] EXCEPT !.reviewed = review[r].count] \in Story
    BY <2>2, <2>6 DEF Story
  <2>8. ASSUME NEW q \in 0 .. Quiet
        PROVE  [story[c] EXCEPT !.beats = desk[a].seen \cup {calls + 1},
                                !.quiet = q,
                                !.reviewed = review[r].count] \in Story
    BY <2>2, <2>5, <2>6, StoryUpdates
  <2>9. story' \in [Cluster -> Story]
    <3>1. \/ story' = [story EXCEPT ![c].reviewed = review[r].count]
          \/ \E q \in 0 .. Quiet :
               story' = [story EXCEPT ![c] =
                           [@ EXCEPT !.beats = desk[a].seen \cup {calls + 1},
                                     !.quiet = q,
                                     !.reviewed = review[r].count]]
      BY <1>7, OneBatch DEF RefreshAnswered
    <3> QED
      BY <2>2, <2>7, <2>8, <3>1
  <2>10. review' \in [ReviewId -> Review]
    BY <1>7, <2>2 DEF RefreshAnswered
  <2>11. \A q \in ReviewId :
           review[q].status # "none" => review'[q].status # "none"
    BY <1>7, <2>2 DEF RefreshAnswered
  <2>12. desk' \in [Admin -> Desk]
    BY <1>0, <1>7 DEF RefreshAnswered
  <2>13. ASSUME NEW b \in Admin, desk'[b].task = "refresh"
         PROVE  review'[desk'[b].id].status # "none"
    <3>1. b # a /\ desk'[b] = desk[b]
      BY <1>7, <2>13 DEF RefreshAnswered, Idle
    <3>2. desk[b].id \in ReviewId /\ review[desk[b].id].status # "none"
      BY <2>13, <3>1, DeskFields
    <3> QED
      BY <2>11, <3>1, <3>2
  <2>14. redone' \subseteq Cluster
    BY <1>7, <2>2 DEF RefreshAnswered
  <2> QED
    BY <1>7, <2>5, <2>9, <2>10, <2>12, <2>13, <2>14 DEF RefreshAnswered
<1> QED
  BY <1>1, <1>2, <1>3, <1>4, <1>5, <1>6, <1>7 DEF Decide

LEMMA NextTypeInv == TypeInv /\ [Next]_vars => TypeInv'
<1>1. TypeInv /\ UNCHANGED vars => TypeInv'
  BY DEF TypeInv, TypeOK, DeskReadsReview, vars
<1> QED
  BY <1>1, PollerType, CycleType, DecideType DEF Next

(* The tables, the cycle and the requests in flight keep their shape, and  *)
(* a refresh in flight always refers to a review that exists.              *)
THEOREM TypeInvariant == Spec => []TypeInv
  BY InitTypeInv, NextTypeInv, PTL DEF Spec

(* In particular the state keeps its types.                                *)
THEOREM TypeCorrect == Spec => []TypeOK
<1>1. TypeInv => TypeOK
  BY DEF TypeInv
<1> QED
  BY <1>1, TypeInvariant, PTL

-----------------------------------------------------------------------------
(* The slot budget: between the count and the insert, decisions only free  *)
(* slots, so what the detector counted stays enough for what it raises.    *)
CountStaysEnough ==
    cycle = "counted" => Cardinality(Charged) + free <= MaxActive

BudgetInv == BudgetUnlessOvertaken /\ CountStaysEnough

LEMMA ChargedFinite ==
    /\ Charged \subseteq Cluster
    /\ IsFiniteSet(Charged) /\ Cardinality(Charged) \in Nat
<1>1. Charged \subseteq Cluster
  BY DEF Charged, Occupied, WithStatus
<1> QED
  BY <1>1, BreakingAssumption, FS_Subset, FS_CardinalityType

(* Nothing but the detector's insert charges a slot to a new story.        *)
LEMMA OnlyRaiseCharges ==
    ASSUME TypeInv, [Next]_vars, ~CycleRaise
    PROVE  Charged' \subseteq Charged
<1> USE DEF TypeInv, TypeOK, Charged, Occupied, WithStatus
<1>0. ASSUME story' = story, overtaken' = overtaken
      PROVE  Charged' \subseteq Charged
  BY <1>0
<1>1. ASSUME Poller PROVE Charged' \subseteq Charged
  <2>1. CASE Tick
    <3>1. \A c \in Cluster : story'[c].status = story[c].status
      BY <2>1 DEF Tick, Story
    <3> QED
      BY <2>1, <3>1 DEF Tick
  <2> QED
    BY <1>0, <1>1, <2>1 DEF Poller, JoinOutlet, CloseWindow
<1>2. CASE CycleExpire
  <2>1. ASSUME NEW c \in Cluster
        PROVE  story'[c].status \in {story[c].status, "expired", "rejected"}
    BY <1>2 DEF CycleExpire, Story
  <2> QED
    BY <1>2, <2>1 DEF CycleExpire
<1>3. CASE CycleCount \/ CycleRefresh \/ CycleFails
  BY <1>0, <1>3 DEF CycleCount, CycleRefresh, CycleFails
<1>4. ASSUME NEW a \in Admin, Decide(a) PROVE Charged' \subseteq Charged
  <2>1. ASSUME NEW c \in Cluster, RejectCandidate(a, c)
        PROVE  Charged' \subseteq Charged
    <3>1. \A d \in Cluster : story'[d].status \in {story[d].status, "rejected"}
      BY <2>1 DEF RejectCandidate, Story
    <3> QED
      BY <2>1, <3>1 DEF RejectCandidate
  <2>2. ASSUME NEW c \in Cluster, CandidateAnswered(a, c)
        PROVE  Charged' \subseteq Charged
    <3>1. \A d \in Cluster \ {c} : story'[d].status = story[d].status
      BY <2>2 DEF CandidateAnswered
    <3>2. overtaken \subseteq overtaken'
      BY <2>2 DEF CandidateAnswered
    <3>3. story[c].status = "pending_review" \/ c \in overtaken'
      BY <2>2 DEF CandidateAnswered
    <3>4. ASSUME NEW d \in Charged' PROVE d \in Charged
      <4>1. CASE d = c
        BY <3>2, <3>3, <3>4, <4>1
      <4>2. CASE d # c
        BY <3>1, <3>2, <3>4, <4>2
      <4> QED
        BY <4>1, <4>2
    <3> QED
      BY <3>4
  <2>3. ASSUME NEW r \in ReviewId, SkipRefresh(a, r) \/ RefreshAnswered(a, r)
        PROVE  Charged' \subseteq Charged
    <3>1. ASSUME NEW s \in Story, NEW b, NEW q, NEW n
          PROVE  /\ [s EXCEPT !.reviewed = n].status = s.status
                 /\ [s EXCEPT !.beats = b, !.quiet = q,
                              !.reviewed = n].status = s.status
      BY DEF Story
    <3>2. CASE SkipRefresh(a, r)
      <4>1. \A d \in Cluster : story'[d].status = story[d].status
        BY <3>1, <3>2 DEF SkipRefresh
      <4> QED
        BY <3>2, <4>1 DEF SkipRefresh
    <3>3. CASE RefreshAnswered(a, r)
      <4> DEFINE c == review[r].cluster
      <4>1. ASSUME NEW v, v.status = story[c].status,
                   story' = [story EXCEPT ![c] = v]
            PROVE  \A d \in Cluster : story'[d].status = story[d].status
        BY <4>1
      <4>2. c \in Cluster /\ story[c] \in Story
        BY <3>3, ReviewUpdates DEF RefreshAnswered, DeskReadsReview
      <4> HIDE DEF c
      <4>3. ASSUME story' = [story EXCEPT ![c].reviewed = review[r].count]
            PROVE  \A d \in Cluster : story'[d].status = story[d].status
        <5>1. [story[c] EXCEPT !.reviewed = review[r].count].status
                = story[c].status
          BY <3>1, <4>2
        <5> QED
          BY <4>1, <4>3, <5>1
      <4>4. ASSUME NEW q \in 0 .. Quiet,
                   story' = [story EXCEPT ![c] =
                        [@ EXCEPT !.beats = desk[a].seen \cup {calls + 1},
                                  !.quiet = q,
                                  !.reviewed = review[r].count]]
            PROVE  \A d \in Cluster : story'[d].status = story[d].status
        BY <3>1, <4>1, <4>2, <4>4
      <4>5. \A d \in Cluster : story'[d].status = story[d].status
        <5>1. \/ story' = [story EXCEPT ![c].reviewed = review[r].count]
              \/ \E q \in 0 .. Quiet :
                   story' = [story EXCEPT ![c] =
                        [@ EXCEPT !.beats = desk[a].seen \cup {calls + 1},
                                  !.quiet = q,
                                  !.reviewed = review[r].count]]
          BY <3>3, OneBatch DEF RefreshAnswered, c
        <5> QED
          BY <4>3, <4>4, <5>1
      <4> QED
        BY <3>3, <4>5 DEF RefreshAnswered
    <3> QED
      BY <2>3, <3>2, <3>3
  <2> QED
    BY <1>0, <1>4, <2>1, <2>2, <2>3
    DEF Decide, ApproveCandidate, ApproveRefresh, DecisionFails
<1>5. CASE UNCHANGED vars
  BY <1>0, <1>5 DEF vars
<1> QED
  BY <1>1, <1>2, <1>3, <1>4, <1>5 DEF Next, Cycle

(* The insert charges at most the slots that were counted free.            *)
LEMMA RaiseCharges ==
    ASSUME TypeInv, BudgetInv, CycleRaise
    PROVE  Cardinality(Charged') <= MaxActive
<1> USE DEF TypeInv, TypeOK
<1>1. Cardinality(Charged) + free <= MaxActive /\ free \in Int
  <2>1. cycle = "counted"
    BY DEF CycleRaise
  <2>2. Cardinality(Cluster) \in Nat /\ MaxActive \in Nat
    BY FS_CardinalityType, BreakingAssumption
  <2> QED
    BY <2>1, <2>2 DEF BudgetInv, CountStaysEnough
<1>2. CASE UNCHANGED story
  BY <1>2 DEF CycleRaise, BudgetInv, BudgetUnlessOvertaken, Charged, Occupied,
     WithStatus
<1>3. ASSUME NEW S \in SUBSET Cluster, Chosen(S),
             story' = [c \in Cluster |->
                          IF c \in S
                          THEN [NoStory EXCEPT !.status = "pending_review",
                                               !.base = sources[c]]
                          ELSE story[c]]
      PROVE  Cardinality(Charged') <= MaxActive
  <2>1. Charged' \subseteq Charged \cup S
    BY <1>3 DEF CycleRaise, Charged, Occupied, WithStatus
  <2>2. IsFiniteSet(S) /\ Cardinality(S) \in Nat /\ Cardinality(S) <= free
    BY <1>3, BreakingAssumption, FS_Subset, FS_CardinalityType DEF Chosen
  <2>3. /\ IsFiniteSet(Charged \cup S)
        /\ Cardinality(Charged \cup S) <= Cardinality(Charged) + Cardinality(S)
    <3>1. /\ IsFiniteSet(Charged \cup S)
          /\ Cardinality(Charged \cup S) =
               Cardinality(Charged) + Cardinality(S) - Cardinality(Charged \cap S)
      BY <2>2, ChargedFinite, FS_Union
    <3>2. Cardinality(Charged \cap S) \in Nat
      BY ChargedFinite, FS_Intersection, FS_CardinalityType
    <3> QED
      BY <2>2, <3>1, <3>2, ChargedFinite
  <2>4. Cardinality(Charged') <= Cardinality(Charged \cup S)
    BY <2>1, <2>3, FS_Subset
  <2>5. Cardinality(Charged') \in Nat /\ Cardinality(Charged \cup S) \in Nat
    BY <2>1, <2>3, FS_Subset, FS_CardinalityType
  <2> QED
    BY <1>1, <2>2, <2>3, <2>4, <2>5, ChargedFinite, BreakingAssumption
<1> QED
  BY <1>2, <1>3 DEF CycleRaise

LEMMA NextBudget == TypeInv /\ BudgetInv /\ [Next]_vars => BudgetInv'
<1> SUFFICES ASSUME TypeInv, BudgetInv, [Next]_vars PROVE BudgetInv'
  OBVIOUS
<1>1. CASE CycleRaise
  <2>1. cycle' = "raised"
    BY <1>1 DEF CycleRaise
  <2> QED
    BY <1>1, <2>1, RaiseCharges
    DEF BudgetInv, BudgetUnlessOvertaken, CountStaysEnough
<1>2. CASE ~CycleRaise
  <2>1. Charged' \subseteq Charged
    BY <1>2, OnlyRaiseCharges
  <2>2. Cardinality(Charged') <= Cardinality(Charged)
    BY <2>1, ChargedFinite, FS_Subset
  <2>3. Cardinality(Charged') \in Nat
    BY <2>1, ChargedFinite, FS_Subset, FS_CardinalityType
  <2>4. MaxActive \in Nat /\ Cardinality(Charged) \in Nat
    BY BreakingAssumption, ChargedFinite
  <2>5. BudgetUnlessOvertaken'
    BY <2>2, <2>3, <2>4 DEF BudgetInv, BudgetUnlessOvertaken
  <2>6. CASE CycleCount
    <3>1. free' = MaxActive - Cardinality(Occupied)
      BY <2>6 DEF CycleCount
    <3>2. IsFiniteSet(Occupied) /\ Charged \subseteq Occupied
      BY BreakingAssumption, FS_Subset DEF Charged, Occupied, WithStatus
    <3>3. /\ Cardinality(Charged) <= Cardinality(Occupied)
          /\ Cardinality(Occupied) \in Nat
      BY <3>2, FS_Subset, FS_CardinalityType
    <3> QED
      BY <2>2, <2>3, <2>4, <2>5, <3>1, <3>3 DEF BudgetInv, CountStaysEnough
  <2>7. CASE ~CycleCount
    <3>1. cycle' = "counted" => cycle = "counted" /\ free' = free
      BY <1>2, <2>7
      DEF Next, vars, Poller, JoinOutlet, CloseWindow, Tick, Cycle,
          CycleExpire, CycleRefresh, CycleFails, Decide, RejectCandidate,
          ApproveCandidate, CandidateAnswered, SkipRefresh, ApproveRefresh,
          RefreshAnswered, DecisionFails
    <3>2. free \in Int
      BY DEF TypeInv, TypeOK
    <3> QED
      BY <2>2, <2>3, <2>4, <2>5, <3>1, <3>2 DEF BudgetInv, CountStaysEnough
  <2> QED
    BY <2>6, <2>7
<1> QED
  BY <1>1, <1>2

(* However decisions, timeouts and cycles interleave, the stories that no  *)
(* overtaken approval wrote fit in the slots.                              *)
THEOREM BudgetHolds == Spec => []BudgetUnlessOvertaken
<1>1. Init => BudgetInv
  <2> SUFFICES ASSUME Init PROVE BudgetInv
    OBVIOUS
  <2>1. Charged = {}
    BY DEF Init, NoStory, Charged, Occupied, WithStatus
  <2>2. Cardinality(Charged) = 0
    BY <2>1, FS_EmptySet
  <2> QED
    BY <2>2, BreakingAssumption
    DEF Init, BudgetInv, BudgetUnlessOvertaken, CountStaysEnough
<1>2. BudgetInv => BudgetUnlessOvertaken
  BY DEF BudgetInv
<1> QED
  BY <1>1, <1>2, NextBudget, TypeInvariant, PTL DEF Spec

-----------------------------------------------------------------------------
(* Cards and reviews.                                                      *)

(* A story that was approved or turned down, and a review that was.        *)
Known(c) == story[c].status \notin {"none", "pending_review"}
Decided(r) == review[r].status \in {"approved", "rejected"}

(* A story has beats only after its candidate was approved, and reviews    *)
(* only of a story that was live once.                                     *)
BeatsAfterApproval == \A c \in Cluster : ~Known(c) => story[c].beats = {}
ReviewedWasLive ==
    \A r \in ReviewId : review[r].status # "none" => Known(review[r].cluster)

(* While the decisions on a story are taken one at a time, the answer that *)
(* a refresh is waiting for will be appended to what the story has ...     *)
AnswerIsCurrent ==
    \A a \in Admin :
        (/\ desk[a].task = "refresh" /\ review[desk[a].id].status = "pending"
         /\ review[desk[a].id].cluster \in Orderly)
        => desk[a].seen = story[review[desk[a].id].cluster].beats

(* ... and the goalpost of the story is not below the coverage of any      *)
(* review that was decided, nor within Delta of that of the pending one.   *)
GoalpostMoves ==
    \A r \in ReviewId :
        review[r].status # "none" /\ review[r].cluster \in Orderly =>
            /\ Decided(r) => review[r].count <= Goalpost(review[r].cluster)
            /\ ~Decided(r) => review[r].count >= Goalpost(review[r].cluster) + Delta

RowsInv == /\ CardsAndReviews /\ BeatsAfterApproval /\ ReviewedWasLive
           /\ AnswerIsCurrent /\ GoalpostMoves

(* A step that leaves beats, goalposts and reviews alone, and at most ends *)
(* stories and requests.                                                   *)
LEMMA RowsStay ==
    ASSUME TypeInv, RowsInv, Orderly' \subseteq Orderly,
           \A c \in Cluster : /\ story'[c].status \in {story[c].status, "expired", "rejected"}
                              /\ story'[c].beats = story[c].beats
                              /\ story'[c].base = story[c].base
                              /\ story'[c].reviewed = story[c].reviewed,
           review' = review,
           \A a \in Admin : desk'[a] = desk[a] \/ desk'[a].task # "refresh"
    PROVE  RowsInv'
<1>1. \A c \in Cluster : Known(c) => Known(c)'
  BY DEF Known
<1>2. \A c \in Cluster : Goalpost(c)' = Goalpost(c)
  BY DEF Goalpost
<1>3. \A r \in ReviewId : review[r].status # "none" => review[r].cluster \in Cluster
  BY ReviewUpdates DEF TypeInv, TypeOK
<1>4. CardsAndReviews'
  BY DEF RowsInv, CardsAndReviews, OnePendingReview, NoEmptyCard, WithStatus
<1>5. BeatsAfterApproval'
  BY <1>1 DEF RowsInv, BeatsAfterApproval
<1>6. ReviewedWasLive'
  BY <1>1, <1>3 DEF RowsInv, ReviewedWasLive
<1>7. AnswerIsCurrent'
  <2>1. \A a \in Admin : desk[a].task = "refresh" => desk[a].id \in ReviewId
    BY DeskFields DEF TypeInv, TypeOK
  <2>2. SUFFICES ASSUME NEW a \in Admin, desk'[a].task = "refresh",
                        review'[desk'[a].id].status = "pending",
                        review'[desk'[a].id].cluster \in Orderly'
                 PROVE  desk'[a].seen = story'[review'[desk'[a].id].cluster].beats
    BY DEF AnswerIsCurrent
  <2>3. desk'[a] = desk[a]
    BY <2>2
  <2> QED
    BY <1>3, <2>1, <2>2, <2>3 DEF RowsInv, AnswerIsCurrent
<1>8. GoalpostMoves'
  BY <1>2, <1>3 DEF RowsInv, GoalpostMoves, Decided
<1> QED
  BY <1>4, <1>5, <1>6, <1>7, <1>8 DEF RowsInv

(* The coverage that a step leaves behind: beats only grow and new reviews *)
(* wait for new outlets, where decisions were taken one at a time.         *)
Grows ==
    /\ \A c \in Orderly' : story[c].beats \subseteq story'[c].beats
    /\ \A q, r \in ReviewId :
          (/\ review[r].status = "none" /\ review'[r].status = "pending"
           /\ review[q].status # "none"
           /\ review[q].cluster = review'[r].cluster
           /\ review[q].cluster \in Orderly)
          => review'[r].count >= review[q].count + Delta

(* What is known of the review of a row that exists.                       *)
LEMMA ReviewFacts ==
    ASSUME TypeInv, NEW r \in ReviewId, review[r].status # "none"
    PROVE  /\ review[r].cluster \in Cluster /\ review[r].count \in 0 .. MaxSources
           /\ review[r].status \in {"pending", "approved", "rejected"}
  BY DEF TypeInv, TypeOK, Review

(* The goalpost is a number of outlets.                                    *)
LEMMA GoalpostType ==
    ASSUME TypeInv, NEW c \in Cluster PROVE Goalpost(c) \in 0 .. MaxSources
  BY StoryFields DEF TypeInv, TypeOK, Goalpost

(* An answer is written to a review that is decided by then, so whatever   *)
(* happens to the row of c, what waits for other rows is as it was.        *)
LEMMA OneRowWritten ==
    ASSUME TypeInv, RowsInv, Orderly' \subseteq Orderly, NEW c \in Cluster,
           \A d \in Cluster \ {c} : story'[d] = story[d],
           Known(c)', Known(c) \/ c \notin Orderly' \/ \A r \in ReviewId :
                         review[r].status # "none" => review[r].cluster # c,
           story'[c].status = "active" => story'[c].beats # {},
           review' = review,
           \A a \in Admin : desk'[a] = desk[a] \/ desk'[a].task # "refresh",
           Known(c) => c \notin Orderly'
    PROVE  RowsInv'
<1>1. \A d \in Cluster : Known(d) => Known(d)'
  BY DEF Known
<1>2. \A d \in Cluster \ {c} : Goalpost(d)' = Goalpost(d)
  BY DEF Goalpost
<1>3. \A r \in ReviewId : review[r].status # "none" =>
        /\ review[r].cluster \in Cluster
        /\ review[r].cluster \in Orderly' => review[r].cluster # c
  BY ReviewFacts DEF RowsInv, ReviewedWasLive
<1>4. CardsAndReviews'
  BY DEF RowsInv, CardsAndReviews, OnePendingReview, NoEmptyCard, WithStatus
<1>5. BeatsAfterApproval'
  BY <1>1 DEF RowsInv, BeatsAfterApproval, Known
<1>6. ReviewedWasLive'
  BY <1>1, <1>3 DEF RowsInv, ReviewedWasLive
<1>7. AnswerIsCurrent'
  <2>1. \A a \in Admin : desk[a].task = "refresh" => desk[a].id \in ReviewId
    BY DeskFields DEF TypeInv, TypeOK
  <2>2. SUFFICES ASSUME NEW a \in Admin, desk'[a].task = "refresh",
                        review'[desk'[a].id].status = "pending",
                        review'[desk'[a].id].cluster \in Orderly'
                 PROVE  desk'[a].seen = story'[review'[desk'[a].id].cluster].beats
    BY DEF AnswerIsCurrent
  <2>3. desk'[a] = desk[a]
    BY <2>2
  <2> QED
    BY <1>3, <2>1, <2>2, <2>3 DEF RowsInv, AnswerIsCurrent
<1>8. GoalpostMoves'
  BY <1>2, <1>3 DEF RowsInv, GoalpostMoves, Decided
<1> QED
  BY <1>4, <1>5, <1>6, <1>7, <1>8 DEF RowsInv

LEMMA CandidateRows ==
    ASSUME TypeInv, RowsInv, NEW a \in Admin, NEW c \in Cluster, CandidateAnswered(a, c)
    PROVE  RowsInv' /\ Grows
<1> USE DEF TypeInv, TypeOK
<1>1. /\ Orderly' \subseteq Orderly
      /\ story[c].status # "pending_review" => c \notin Orderly'
  BY DEF CandidateAnswered, Orderly
<1>2. story[c] \in Story
  OBVIOUS
<1>3. /\ story'[c].status \in {"active", "rejected"}
      /\ story'[c].status = "active" => story'[c].beats # {}
      /\ \A d \in Cluster \ {c} : story'[d] = story[d]
  <2>1. CASE story' = [story EXCEPT ![c].status = "rejected"]
    BY <1>2, <2>1 DEF Story
  <2>2. ASSUME NEW q \in 0 .. Quiet,
               story' = [story EXCEPT ![c] =
                           [@ EXCEPT !.status = "active", !.quiet = q,
                                     !.beats = {calls + 1},
                                     !.reviewed = story[c].base]]
        PROVE  /\ story'[c].status = "active" /\ story'[c].beats = {calls + 1}
               /\ \A d \in Cluster \ {c} : story'[d] = story[d]
    BY <1>2, <2>2 DEF Story
  <2> QED
    BY <2>1, <2>2, OneBatch DEF CandidateAnswered
<1>4. Known(c)' /\ (Known(c) => c \notin Orderly')
  BY <1>1, <1>3 DEF Known
<1>5. Known(c) \/ \A r \in ReviewId : review[r].status # "none" => review[r].cluster # c
  BY DEF RowsInv, ReviewedWasLive
<1>6. \A b \in Admin : desk'[b] = desk[b] \/ desk'[b].task # "refresh"
  BY DEF CandidateAnswered, Idle
<1>7. review' = review
  BY DEF CandidateAnswered
<1>8. RowsInv'
  BY <1>1, <1>3, <1>4, <1>5, <1>6, <1>7, OneRowWritten
<1>9. \A d \in Orderly' : story[d].beats \subseteq story'[d].beats
  <2>1. CASE Known(c)
    BY <1>3, <1>4, <2>1 DEF Orderly
  <2>2. CASE ~Known(c)
    BY <1>3, <2>2 DEF RowsInv, BeatsAfterApproval, Orderly
  <2> QED
    BY <2>1, <2>2
<1> QED
  BY <1>7, <1>8, <1>9 DEF Grows

(* A review is decided: its coverage is the new goalpost of its story.     *)
LEMMA RefreshRows ==
    ASSUME TypeInv, RowsInv, NEW a \in Admin, NEW r \in ReviewId,
           SkipRefresh(a, r) \/ RefreshAnswered(a, r)
    PROVE  RowsInv' /\ Grows
<1> USE DEF TypeInv, TypeOK
<1>a. review[r].status # "none"
  BY DEF SkipRefresh, RefreshAnswered, DeskReadsReview
<1>c. PICK c \in Cluster : c = review[r].cluster
  BY <1>a, ReviewFacts
<1>0. /\ review[r].status # "none" /\ review[r].cluster = c
      /\ review[r].count \in 0 .. MaxSources /\ story[c] \in Story
  BY <1>a, <1>c, ReviewFacts
<1>1. /\ Orderly' \subseteq Orderly
      /\ c \in Orderly' => review[r].status = "pending"
  BY <1>0 DEF SkipRefresh, RefreshAnswered, Orderly
<1>2. /\ review'[r].status \in {"approved", "rejected"}
      /\ review'[r].cluster = c /\ review'[r].count = review[r].count
      /\ \A q \in ReviewId \ {r} : review'[q] = review[q]
  <2>1. ASSUME NEW st \in {"approved", "rejected"},
               review' = [review EXCEPT ![r].status = st]
        PROVE  /\ review'[r].status \in {"approved", "rejected"}
               /\ review'[r].cluster = c /\ review'[r].count = review[r].count
               /\ \A q \in ReviewId \ {r} : review'[q] = review[q]
    BY <1>0, <2>1 DEF Review
  <2> QED
    BY <2>1 DEF SkipRefresh, RefreshAnswered
<1>3. \A b \in Admin : desk'[b] = desk[b] \/ desk'[b].task # "refresh"
  <2>1. desk' = desk \/ desk' = [desk EXCEPT ![a] = Idle]
    BY DEF SkipRefresh, RefreshAnswered
  <2> QED
    BY <2>1 DEF Idle
<1>4. /\ \A d \in Cluster \ {c} : story'[d] = story[d]
      /\ story'[c].status = story[c].status /\ story'[c].base = story[c].base
      /\ story'[c].reviewed = review[r].count
      /\ \/ story'[c].beats = story[c].beats
         \/ /\ desk[a].task = "refresh" /\ desk[a].id = r
            /\ story'[c].beats = desk[a].seen \cup {calls + 1}
  <2>1. CASE story' = [story EXCEPT ![c].reviewed = review[r].count]
    <3>1. story'[c] = [story[c] EXCEPT !.reviewed = review[r].count]
      BY <1>0, <2>1
    <3> QED
      BY <1>0, <2>1, <3>1 DEF Story
  <2>2. ASSUME NEW q \in 0 .. Quiet, RefreshAnswered(a, r),
               story' = [story EXCEPT ![c] =
                           [@ EXCEPT !.beats = desk[a].seen \cup {calls + 1},
                                     !.quiet = q,
                                     !.reviewed = review[r].count]]
        PROVE  /\ \A d \in Cluster \ {c} : story'[d] = story[d]
               /\ story'[c].status = story[c].status /\ story'[c].base = story[c].base
               /\ story'[c].reviewed = review[r].count
               /\ desk[a].task = "refresh" /\ desk[a].id = r
               /\ story'[c].beats = desk[a].seen \cup {calls + 1}
    <3>1. story'[c] = [story[c] EXCEPT !.beats = desk[a].seen \cup {calls + 1},
                                       !.quiet = q, !.reviewed = review[r].count]
      BY <1>0, <2>2
    <3>2. desk[a].task = "refresh" /\ desk[a].id = r
      BY <2>2 DEF RefreshAnswered
    <3> QED
      BY <1>0, <2>2, <3>1, <3>2 DEF Story
  <2> QED
    BY <1>0, <2>1, <2>2, OneBatch DEF SkipRefresh, RefreshAnswered
<1>5. Known(c) /\ \A d \in Cluster : Known(d)' <=> Known(d)
  BY <1>0, <1>4 DEF RowsInv, ReviewedWasLive, Known
<1>6. \A q \in ReviewId : review[q].status # "none" =>
         /\ review[q].cluster \in Cluster
         /\ review[q].count \in 0 .. MaxSources
         /\ review[q].status \in {"pending", "approved", "rejected"}
  BY ReviewFacts
<1>7. c \in Orderly' => /\ review[r].count >= Goalpost(c) + Delta
                        /\ \A q \in ReviewId \ {r} :
                             review[q].status # "none" /\ review[q].cluster = c =>
                               Decided(q) /\ review[q].count <= Goalpost(c)
  <2> SUFFICES ASSUME c \in Orderly'
               PROVE  /\ review[r].count >= Goalpost(c) + Delta
                      /\ \A q \in ReviewId \ {r} :
                           review[q].status # "none" /\ review[q].cluster = c =>
                             Decided(q) /\ review[q].count <= Goalpost(c)
    OBVIOUS
  <2>1. c \in Orderly /\ review[r].status = "pending"
    BY <1>1
  <2>2. review[r].count >= Goalpost(c) + Delta
    BY <1>0, <2>1 DEF RowsInv, GoalpostMoves, Decided
  <2>3. ASSUME NEW q \in ReviewId \ {r}, review[q].status # "none", review[q].cluster = c
        PROVE  Decided(q) /\ review[q].count <= Goalpost(c)
    <3>1. review[q].status # "pending"
      BY <1>0, <2>1, <2>3 DEF RowsInv, CardsAndReviews, OnePendingReview
    <3>2. Decided(q)
      BY <1>6, <2>3, <3>1 DEF Decided
    <3> QED
      BY <2>1, <2>3, <3>2 DEF RowsInv, GoalpostMoves
  <2> QED
    BY <2>2, <2>3
<1>8. /\ c \in Orderly' => Goalpost(c)' = review[r].count
      /\ \A d \in Cluster \ {c} : Goalpost(d)' = Goalpost(d)
  <2>1. Goalpost(c) \in 0 .. MaxSources /\ Delta \in Nat \ {0} /\ MaxSources \in Nat
    BY <1>0, GoalpostType, BreakingAssumption
  <2>2. c \in Orderly' => review[r].count # 0
    BY <1>0, <1>7, <2>1
  <2>3. Goalpost(c)' = IF review[r].count = 0 THEN story'[c].base ELSE review[r].count
    BY <1>4 DEF Goalpost
  <2> QED
    BY <1>4, <2>2, <2>3 DEF Goalpost
<1>9. (c \in Orderly' /\ desk[a].task = "refresh" /\ desk[a].id = r)
        => desk[a].seen = story[c].beats
  BY <1>0, <1>1 DEF RowsInv, AnswerIsCurrent
<1>10. CardsAndReviews'
  <2>1. OnePendingReview'
    BY <1>2 DEF RowsInv, CardsAndReviews, OnePendingReview
  <2>2. NoEmptyCard'
    <3> SUFFICES ASSUME NEW d \in Cluster, story'[d].status = "active"
                 PROVE  story'[d].beats # {}
      BY DEF NoEmptyCard, WithStatus
    <3>1. story[d].beats # {}
      BY <1>4 DEF RowsInv, CardsAndReviews, NoEmptyCard, WithStatus
    <3> QED
      BY <1>4, <3>1
  <2> QED
    BY <2>1, <2>2 DEF CardsAndReviews
<1>11. BeatsAfterApproval'
  BY <1>4, <1>5 DEF RowsInv, BeatsAfterApproval
<1>12. ReviewedWasLive'
  BY <1>0, <1>2, <1>5, <1>6 DEF RowsInv, ReviewedWasLive
<1>13. AnswerIsCurrent'
  <2>1. \A b \in Admin : desk[b].task = "refresh" => desk[b].id \in ReviewId
    BY DeskFields
  <2>2. SUFFICES ASSUME NEW b \in Admin, desk'[b].task = "refresh",
                        review'[desk'[b].id].status = "pending",
                        review'[desk'[b].id].cluster \in Orderly'
                 PROVE  desk'[b].seen = story'[review'[desk'[b].id].cluster].beats
    BY DEF AnswerIsCurrent
  <2>3. desk'[b] = desk[b] /\ desk[b].id \in ReviewId \ {r}
    BY <1>2, <1>3, <2>1, <2>2
  <2> DEFINE q == desk[b].id
  <2>4. review'[q] = review[q] /\ review[q].status = "pending" /\ review[q].cluster \in Orderly'
    BY <1>2, <2>2, <2>3
  <2>5. review[q].cluster # c
    BY <1>7, <2>3, <2>4 DEF Decided
  <2>6. desk[b].seen = story[review[q].cluster].beats
    BY <1>1, <2>2, <2>3, <2>4 DEF RowsInv, AnswerIsCurrent
  <2> QED
    BY <1>4, <1>6, <2>3, <2>4, <2>5, <2>6
<1>14. GoalpostMoves'
  <2> SUFFICES ASSUME NEW q \in ReviewId, review'[q].status # "none",
                      review'[q].cluster \in Orderly'
               PROVE  /\ Decided(q)' => review'[q].count <= Goalpost(review[q].cluster)'
                      /\ ~Decided(q)' =>
                           review'[q].count >= Goalpost(review[q].cluster)' + Delta
    BY DEF GoalpostMoves
  <2>1. CASE q = r
    BY <1>0, <1>2, <1>8, <2>1 DEF Decided
  <2>2. CASE q # r /\ review[q].cluster = c
    <3>1. Decided(q)' /\ review'[q].count <= Goalpost(c)
      BY <1>2, <1>7, <2>2 DEF Decided
    <3>2. /\ Goalpost(c) \in 0 .. MaxSources /\ Delta \in Nat \ {0} /\ MaxSources \in Nat
          /\ review[q].count \in 0 .. MaxSources
      BY <1>0, <1>2, <1>6, <2>2, GoalpostType, BreakingAssumption
    <3> QED
      BY <1>0, <1>2, <1>7, <1>8, <2>2, <3>1, <3>2
  <2>3. CASE q # r /\ review[q].cluster # c
    <3>1. review'[q] = review[q] /\ review[q].cluster \in Cluster \ {c}
      BY <1>2, <1>6, <2>3
    <3>2. Goalpost(review[q].cluster)' = Goalpost(review[q].cluster)
      BY <1>8, <3>1
    <3> QED
      BY <1>1, <2>3, <3>1, <3>2 DEF RowsInv, GoalpostMoves, Decided
  <2> QED
    BY <2>1, <2>2, <2>3
<1>15. Grows
  <2>1. \A d \in Orderly' : story[d].beats \subseteq story'[d].beats
    BY <1>4, <1>9 DEF Orderly
  <2>2. \A q \in ReviewId : review'[q].status = "pending" => review[q].status = "pending"
    BY <1>2
  <2> QED
    BY <2>1, <2>2 DEF Grows
<1> QED
  BY <1>10, <1>11, <1>12, <1>13, <1>14, <1>15 DEF RowsInv

(* The request that an approval opens holds the beats of the story.        *)
LEMMA ApproveRows ==
    ASSUME TypeInv, RowsInv, NEW a \in Admin, NEW r \in ReviewId, ApproveRefresh(a, r)
    PROVE  RowsInv' /\ Grows
<1> USE DEF TypeInv, TypeOK
<1>1. /\ story' = story /\ review' = review /\ Orderly' = Orderly
      /\ desk' = [desk EXCEPT ![a] = [task |-> "refresh", id |-> r,
                                      seen |-> story[review[r].cluster].beats]]
  BY DEF ApproveRefresh, Orderly
<1>2. AnswerIsCurrent'
  <2> SUFFICES ASSUME NEW b \in Admin, desk'[b].task = "refresh",
                      review[desk'[b].id].status = "pending",
                      review[desk'[b].id].cluster \in Orderly
               PROVE  desk'[b].seen = story[review[desk'[b].id].cluster].beats
    BY <1>1 DEF AnswerIsCurrent
  <2>1. CASE b = a
    BY <1>1, <2>1
  <2>2. CASE b # a
    BY <1>1, <2>2 DEF RowsInv, AnswerIsCurrent
  <2> QED
    BY <2>1, <2>2
<1>3. /\ CardsAndReviews' /\ BeatsAfterApproval' /\ ReviewedWasLive' /\ GoalpostMoves'
  BY <1>1 DEF RowsInv, CardsAndReviews, OnePendingReview, NoEmptyCard, WithStatus,
     BeatsAfterApproval, ReviewedWasLive, GoalpostMoves, Known, Decided, Goalpost
<1>4. Grows
  BY <1>1 DEF Grows, Orderly
<1> QED
  BY <1>2, <1>3, <1>4 DEF RowsInv

(* The detector writes rows for stories that had none, and no reviews.     *)
LEMMA RaiseRows ==
    ASSUME TypeInv, RowsInv, CycleRaise
    PROVE  RowsInv' /\ Grows
<1> USE DEF TypeInv, TypeOK
<1>1. review' = review /\ desk' = desk /\ Orderly' = Orderly
  BY DEF CycleRaise, Orderly
<1>2. PICK S \in SUBSET Cluster :
         /\ \A c \in Cluster \ S : story'[c] = story[c]
         /\ \A c \in S : /\ story[c].status = "none"
                         /\ story'[c].status = "pending_review" /\ story'[c].beats = {}
  <2>1. CASE UNCHANGED story
    <3> WITNESS {} \in SUBSET Cluster
    <3> QED
      BY <2>1
  <2>2. ASSUME NEW S \in SUBSET Cluster, Chosen(S),
               story' = [c \in Cluster |->
                            IF c \in S
                            THEN [NoStory EXCEPT !.status = "pending_review",
                                                 !.base = sources[c]]
                            ELSE story[c]]
        PROVE  \E T \in SUBSET Cluster :
                 /\ \A c \in Cluster \ T : story'[c] = story[c]
                 /\ \A c \in T : /\ story[c].status = "none"
                                 /\ story'[c].status = "pending_review"
                                 /\ story'[c].beats = {}
    <3> WITNESS S \in SUBSET Cluster
    <3> QED
      BY <2>2 DEF Chosen, Qualifies, NoStory
  <2> QED
    BY <2>1, <2>2 DEF CycleRaise
<1>3. \A r \in ReviewId : review[r].status # "none" =>
         review[r].cluster \in Cluster \ S
  BY <1>2, ReviewFacts DEF RowsInv, ReviewedWasLive, Known
<1>4. /\ \A c \in Cluster : Known(c)' <=> Known(c)
      /\ \A c \in Cluster \ S : Goalpost(c)' = Goalpost(c)
  BY <1>2 DEF Known, Goalpost
<1>5. CardsAndReviews'
  BY <1>1, <1>2 DEF RowsInv, CardsAndReviews, OnePendingReview, NoEmptyCard, WithStatus
<1>6. BeatsAfterApproval' /\ ReviewedWasLive'
  BY <1>1, <1>2, <1>3, <1>4 DEF RowsInv, BeatsAfterApproval, ReviewedWasLive
<1>7. AnswerIsCurrent'
  <2>1. \A a \in Admin : desk[a].task = "refresh" => desk[a].id \in ReviewId
    BY DeskFields
  <2> QED
    BY <1>1, <1>2, <1>3, <2>1 DEF RowsInv, AnswerIsCurrent
<1>8. GoalpostMoves'
  BY <1>1, <1>3, <1>4 DEF RowsInv, GoalpostMoves, Decided
<1>9. Grows
  <2>1. \A c \in Cluster : story[c].beats \subseteq story'[c].beats
    BY <1>2 DEF RowsInv, BeatsAfterApproval, Known
  <2> QED
    BY <1>1, <2>1 DEF Grows, Orderly
<1> QED
  BY <1>5, <1>6, <1>7, <1>8, <1>9 DEF RowsInv

(* New reviews are of live stories that have none pending, Delta outlets   *)
(* past the goalpost.                                                      *)
LEMMA RefreshCycleRows ==
    ASSUME TypeInv, RowsInv, CycleRefresh
    PROVE  RowsInv' /\ Grows
<1> USE DEF TypeInv, TypeOK
<1>1. /\ story' = story /\ desk' = desk /\ Orderly' = Orderly
  BY DEF CycleRefresh, Orderly
<1>2. PICK N \in SUBSET ReviewId :
         /\ \A r \in ReviewId \ N : review'[r] = review[r]
         /\ \A r \in N : /\ review[r].status = "none" /\ review'[r].status = "pending"
                         /\ review'[r].cluster \in Cluster
                         /\ NeedsRefresh(review'[r].cluster)
                         /\ review'[r].count = sources[review'[r].cluster]
         /\ \A q, r \in N : review'[q].cluster = review'[r].cluster => q = r
  <2> DEFINE New == {c \in Cluster : NeedsRefresh(c)}
             Unused == {r \in ReviewId : review[r].status = "none"}
  <2>1. PICK id \in [New -> Unused] :
          /\ \A c, d \in New : id[c] = id[d] => c = d
          /\ review' = [r \in ReviewId |->
                          IF \E c \in New : id[c] = r
                          THEN LET c == CHOOSE c \in New : id[c] = r
                               IN  [status |-> "pending", cluster |-> c,
                                    count |-> sources[c]]
                          ELSE review[r]]
    BY DEF CycleRefresh
  <2> DEFINE N == {id[c] : c \in New}
  <2>2. N \in SUBSET ReviewId
    OBVIOUS
  <2>3. \A c \in New : review'[id[c]] = [status |-> "pending", cluster |-> c,
                                         count |-> sources[c]]
    <3> TAKE c \in New
    <3>1. id[c] \in ReviewId
      OBVIOUS
    <3>2. c = CHOOSE d \in New : id[d] = id[c]
      BY <2>1
    <3> QED
      BY <2>1, <3>1, <3>2
  <2>4. \A r \in ReviewId \ N : review'[r] = review[r]
    BY <2>1
  <2>5. \A r \in N : /\ review[r].status = "none" /\ review'[r].status = "pending"
                     /\ review'[r].cluster \in Cluster
                     /\ NeedsRefresh(review'[r].cluster)
                     /\ review'[r].count = sources[review'[r].cluster]
    <3> TAKE r \in N
    <3>1. PICK c \in New : id[c] = r
      OBVIOUS
    <3>2. review'[r] = [status |-> "pending", cluster |-> c, count |-> sources[c]]
      BY <2>3, <3>1
    <3>3. review[r].status = "none"
      BY <3>1
    <3> QED
      BY <3>2, <3>3
  <2>6. \A q, r \in N : review'[q].cluster = review'[r].cluster => q = r
    <3> TAKE q, r \in N
    <3>1. PICK c \in New : id[c] = q
      OBVIOUS
    <3>2. PICK d \in New : id[d] = r
      OBVIOUS
    <3>3. review'[q] = [status |-> "pending", cluster |-> c, count |-> sources[c]]
      BY <2>3, <3>1
    <3>4. review'[r] = [status |-> "pending", cluster |-> d, count |-> sources[d]]
      BY <2>3, <3>2
    <3> QED
      BY <3>1, <3>2, <3>3, <3>4
  <2> HIDE DEF N
  <2> WITNESS N \in SUBSET ReviewId
  <2> QED
    BY <2>4, <2>5, <2>6
<1>3. \A r \in ReviewId : review[r].status # "none" =>
         /\ r \notin N /\ review'[r] = review[r] /\ review[r].cluster \in Cluster
         /\ review[r].count \in 0 .. MaxSources
         /\ review[r].status \in {"pending", "approved", "rejected"}
  BY <1>2, ReviewFacts
<1>4. \A r \in ReviewId, q \in N :
         review[r].status # "none" /\ review[r].cluster = review'[q].cluster => Decided(r)
  BY <1>2, <1>3 DEF NeedsRefresh, HasPending, Decided
<1>5. /\ \A c \in Cluster : Known(c)' <=> Known(c)
      /\ \A c \in Cluster : Goalpost(c)' = Goalpost(c)
  BY <1>1 DEF Known, Goalpost
<1>6. CardsAndReviews'
  <2>1. OnePendingReview'
    <3> SUFFICES ASSUME NEW q \in ReviewId, NEW r \in ReviewId,
                        review'[q].status = "pending", review'[r].status = "pending",
                        review'[q].cluster = review'[r].cluster
                 PROVE  q = r
      BY DEF OnePendingReview
    <3>1. CASE q \in N /\ r \in N
      BY <1>2, <3>1
    <3>2. CASE q \notin N /\ r \notin N
      BY <1>2, <3>2 DEF RowsInv, CardsAndReviews, OnePendingReview
    <3>3. CASE q \in N /\ r \notin N
      BY <1>2, <1>4, <3>3 DEF Decided
    <3>4. CASE q \notin N /\ r \in N
      BY <1>2, <1>4, <3>4 DEF Decided
    <3> QED
      BY <3>1, <3>2, <3>3, <3>4
  <2> QED
    BY <1>1, <2>1 DEF RowsInv, CardsAndReviews, NoEmptyCard, WithStatus
<1>7. BeatsAfterApproval'
  BY <1>1 DEF RowsInv, BeatsAfterApproval, Known
<1>8. ReviewedWasLive'
  <2> SUFFICES ASSUME NEW r \in ReviewId, review'[r].status # "none"
               PROVE  Known(review[r].cluster)'
    BY DEF ReviewedWasLive
  <2>1. CASE r \in N
    BY <1>1, <1>2, <2>1 DEF NeedsRefresh, Known
  <2>2. CASE r \notin N
    BY <1>1, <1>2, <2>2 DEF RowsInv, ReviewedWasLive, Known
  <2> QED
    BY <2>1, <2>2
<1>9. AnswerIsCurrent'
  <2>1. \A a \in Admin : desk[a].task = "refresh" =>
           desk[a].id \in ReviewId /\ review[desk[a].id].status # "none"
    BY DeskFields DEF DeskReadsReview
  <2> QED
    BY <1>1, <1>3, <2>1 DEF RowsInv, AnswerIsCurrent
<1>10. GoalpostMoves'
  <2> SUFFICES ASSUME NEW r \in ReviewId, review'[r].status # "none",
                      review'[r].cluster \in Orderly'
               PROVE  /\ Decided(r)' => review'[r].count <= Goalpost(review[r].cluster)'
                      /\ ~Decided(r)' =>
                           review'[r].count >= Goalpost(review[r].cluster)' + Delta
    BY DEF GoalpostMoves
  <2>1. CASE r \in N
    <3>1. Goalpost(review[r].cluster)' = IF story[review'[r].cluster].reviewed = 0
                                         THEN story[review'[r].cluster].base
                                         ELSE story[review'[r].cluster].reviewed
      BY <1>1 DEF Goalpost
    <3> QED
      BY <1>2, <2>1, <3>1 DEF NeedsRefresh, Decided, Goalpost
  <2>2. CASE r \notin N
    <3>1. review'[r] = review[r] /\ review[r].cluster \in Cluster
      BY <1>2, <1>3, <2>2
    <3>2. Goalpost(review[r].cluster)' = Goalpost(review[r].cluster)
      BY <1>1, <3>1 DEF Goalpost
    <3> QED
      BY <1>1, <3>1, <3>2 DEF RowsInv, GoalpostMoves, Decided
  <2> QED
    BY <2>1, <2>2
<1>11. Grows
  <2> SUFFICES ASSUME NEW q \in ReviewId, NEW r \in ReviewId,
                      review[r].status = "none", review'[r].status = "pending",
                      review[q].status # "none", review[q].cluster = review'[r].cluster,
                      review[q].cluster \in Orderly
               PROVE  review'[r].count >= review[q].count + Delta
    BY <1>1 DEF Grows, Orderly
  <2> DEFINE c == review[q].cluster
  <2>1. r \in N /\ c \in Cluster
    BY <1>2, <1>3
  <2>2. review'[r].count >= Goalpost(c) + Delta /\ review'[r].count \in 0 .. MaxSources
    BY <1>2, <2>1 DEF NeedsRefresh
  <2>3. review[q].count <= Goalpost(c)
    BY <1>4, <2>1 DEF RowsInv, GoalpostMoves
  <2>4. /\ Goalpost(c) \in 0 .. MaxSources /\ review[q].count \in 0 .. MaxSources
        /\ MaxSources \in Nat /\ Delta \in Nat
    BY <1>3, <2>1, GoalpostType, BreakingAssumption
  <2> QED
    BY <2>2, <2>3, <2>4
<1> QED
  BY <1>6, <1>7, <1>8, <1>9, <1>10, <1>11 DEF RowsInv

LEMMA NextRows == TypeInv /\ RowsInv /\ [Next]_vars => RowsInv' /\ Grows
<1> SUFFICES ASSUME TypeInv, RowsInv, [Next]_vars PROVE RowsInv' /\ Grows
  OBVIOUS
<1>1. ASSUME \A c \in Cluster : /\ story'[c].status \in {story[c].status, "expired", "rejected"}
                                /\ story'[c].beats = story[c].beats
                                /\ story'[c].base = story[c].base
                                /\ story'[c].reviewed = story[c].reviewed,
             UNCHANGED <<review, overtaken, redone>>,
             \A a \in Admin : desk'[a] = desk[a] \/ desk'[a].task # "refresh"
      PROVE  RowsInv' /\ Grows
  <2>1. RowsInv'
    BY <1>1, RowsStay DEF Orderly
  <2> QED
    BY <1>1, <2>1 DEF Grows, Orderly
<1>2. CASE \/ \E c \in Cluster : JoinOutlet(c) \/ CloseWindow(c)
           \/ CycleCount \/ CycleFails \/ UNCHANGED vars
  BY <1>1, <1>2 DEF JoinOutlet, CloseWindow, CycleCount, CycleFails, vars
<1>3. CASE Tick
  <2>1. \A c \in Cluster : /\ story'[c].status = story[c].status
                           /\ story'[c].beats = story[c].beats
                           /\ story'[c].base = story[c].base
                           /\ story'[c].reviewed = story[c].reviewed
    BY <1>3 DEF Tick, TypeInv, TypeOK, Story
  <2> QED
    BY <1>1, <1>3, <2>1 DEF Tick
<1>4. CASE CycleExpire
  <2>1. \A c \in Cluster : /\ story'[c].status \in {story[c].status, "expired", "rejected"}
                           /\ story'[c].beats = story[c].beats
                           /\ story'[c].base = story[c].base
                           /\ story'[c].reviewed = story[c].reviewed
    BY <1>4 DEF CycleExpire, TypeInv, TypeOK, Story
  <2> QED
    BY <1>1, <1>4, <2>1 DEF CycleExpire
<1>5. ASSUME NEW a \in Admin, NEW c \in Cluster, RejectCandidate(a, c)
      PROVE  RowsInv' /\ Grows
  <2>1. \A d \in Cluster : /\ story'[d].status \in {story[d].status, "expired", "rejected"}
                           /\ story'[d].beats = story[d].beats
                           /\ story'[d].base = story[d].base
                           /\ story'[d].reviewed = story[d].reviewed
    BY <1>5 DEF RejectCandidate, TypeInv, TypeOK, Story
  <2> QED
    BY <1>1, <1>5, <2>1 DEF RejectCandidate
<1>6. ASSUME NEW a \in Admin, (\E c \in Cluster : ApproveCandidate(a, c)) \/ DecisionFails(a)
      PROVE  RowsInv' /\ Grows
  <2>1. \A b \in Admin : desk'[b] = desk[b] \/ desk'[b].task # "refresh"
    BY <1>6 DEF ApproveCandidate, DecisionFails, Idle, TypeInv, TypeOK
  <2> QED
    BY <1>1, <1>6, <2>1 DEF ApproveCandidate, DecisionFails
<1> QED
  BY <1>2, <1>3, <1>4, <1>5, <1>6, RaiseRows, RefreshCycleRows, CandidateRows, RefreshRows,
     ApproveRows DEF Next, Poller, Cycle, Decide

LEMMA InitRows == Init => RowsInv
  BY DEF Init, RowsInv, CardsAndReviews, OnePendingReview, NoEmptyCard, WithStatus,
     BeatsAfterApproval, ReviewedWasLive, AnswerIsCurrent, GoalpostMoves, Known,
     NoStory, NoReview, Idle

LEMMA RowsInvariant == Spec => []RowsInv
  BY InitRows, NextRows, TypeInvariant, PTL DEF Spec

(* However two admins' approvals, cycles and timeouts interleave, a story  *)
(* has one pending review at most, and no story is pinned without beats.   *)
THEOREM CardsAndReviewsHold == Spec => []CardsAndReviews
<1>1. RowsInv => CardsAndReviews
  BY DEF RowsInv
<1> QED
  BY <1>1, RowsInvariant, PTL

(* For the stories whose approvals did not overlap, beats are only         *)
(* appended, and a new review waits for Delta outlets more than any before *)
(* it had.                                                                 *)
THEOREM CoverageOnlyGrows == Spec => CoverageMovesOn
<1> DEFINE Appended == \A c \in Orderly' : story[c].beats \subseteq story'[c].beats
           Waited == \A q, r \in ReviewId :
                       (/\ review[r].status = "none" /\ review'[r].status = "pending"
                        /\ review[q].status # "none"
                        /\ review[q].cluster = review'[r].cluster
                        /\ review[q].cluster \in Orderly)
                       => review'[r].count >= review[q].count + Delta
<1>1. TypeInv /\ RowsInv /\ [Next]_vars => [Appended]_vars /\ [Waited]_vars
  BY NextRows DEF Grows
<1> QED
  BY <1>1, TypeInvariant, RowsInvariant, PTL DEF Spec, CoverageMovesOn, BeatsAppendOnly,
     ReviewsNeedNewCoverage
=============================================================================
