------------------------------- MODULE MCFeed -------------------------------
(* Bounded instances of Feed:                                                  *)
(*   all, category, videos, launcher, search   a client pages through one      *)
(*              listing, and starts over, while stories move                   *)
(*   you        the same of For You                                            *)
(*   explore    two callers' first pages and reads, the decision on candidates *)
(*   promos     every page and client of the launcher                          *)
EXTENDS Lanes, Feed

FeedLanes == Listings \cup {"you", "explore", "promos"}

\* All Stories: any scores, a story of one outlet, one that was promoted.
FirstRows ==
    CASE lane = "videos" ->
           {[c \in Cluster |-> StoryRow(1, 1, CASE c = 1 -> a [] c = 2 -> b [] OTHER -> "playable")] :
              a \in {"none", "other"}, b \in {"other", "playable"}}
      [] lane = "all" ->
           {[c \in Cluster |-> [StoryRow(IF c = 3 THEN 2 ELSE f[c], IF c = 2 THEN n ELSE 2, "none")
                EXCEPT !.explore = IF c = 1 THEN "promoted" ELSE @]] :
              f \in [{1, 2} -> {1, 2}], n \in {1, 2}}
      [] lane = "you" -> {[c \in Cluster |-> StoryRow(f[c], 2, "none")] : f \in [Cluster -> {1, 2}]}
      [] lane = "explore" -> {[c \in Cluster |-> StoryRow(1, IF c = 1 THEN 3 ELSE n, "none")] : n \in {1, 2}}
      [] OTHER -> {[c \in Cluster |-> StoryRow(1, 2, "none")]}

Reader == CHOOSE u \in Caller : TRUE

FeedLaneInit ==
    \E rows \in FirstRows :
        CASE lane = "all" -> \E who \in {Anonymous, Reader} : FeedInit("all", rows, who)
          [] lane = "explore" -> FeedInit("all", rows, Reader)
          [] OTHER -> FeedInit(lane, rows, Anonymous)

\* At most some exposures.
FirstPage(n) == client.state = "new" /\ client.who \in Caller => \A c \in Cluster : Count(c) <= n

NextListing ==
    \/ FirstPage(1) /\ NextPage
    \/ Forgotten \/ Reload
    \/ \E u \in Caller \cap {client.who} : PickCandidate(u) \/ RecordExposure(u)
    \/ \E c \in Cluster : Join(c)
    \/ lane \in {"all", "launcher"} /\ moves = 0 /\ Rescore
NextYou == ForYou \/ Reload \/ \E c \in Cluster : Like(c) \/ Join(c)
NextExplore ==
    \/ UNCHANGED remembered /\ FirstPage(MinExposures) /\ client.state = "new" /\ NextPage
    \/ Reload
    \/ \E u \in Caller :
         \/ (\A c \in Cluster : Count(c) <= MinExposures) /\ PickCandidate(u)
         \/ RecordExposure(u)
         \/ \E c \in Cluster, how \in {"full", "glance"} :
              exposures[c][u].before + exposures[c][u].after > 0 /\ OpenStory(u, c, how)
    \/ \E bar \in {0, 40} : Recompute(bar)
NextPromos ==
    /\ cards.stories = 0
    /\ \E n \in 1 .. 20, first, installed \in BOOLEAN, age \in -1 .. 3,
          gone \in SUBSET {"game", "continue"} : ApplyPromos(n, first, installed, age, gone)
FeedNext ==
    \/ lane \in Listings /\ NextListing
    \/ lane = "you" /\ NextYou
    \/ lane = "explore" /\ NextExplore
    \/ lane = "promos" /\ NextPromos

=============================================================================
