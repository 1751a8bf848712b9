-------------------------- MODULE MCBreakingReview --------------------------
(* Instances of BreakingReview for TLC: thresholds of a tick or two and one *)
(* outlet per refresh.  A behaviour is about several stories and one admin  *)
(* while time passes, or about one story, several admins and an instant.    *)
EXTENDS BreakingReview, Lanes, TLC

CONSTANTS OneStory, OneAdmin

Waiting == Cluster \ {OneStory}

Stories ==
    /\ lane = "stories"
    /\ Poller \/ Cycle \/ Decide(OneAdmin)
    /\ \A c \in Cluster : sources'[c] < MaxSources
    /\ calls' < MaxCalls

Admins ==
    /\ lane = "admins"
    /\ Next /\ ~Tick
    /\ \A c \in Waiting : sources'[c] = 0 /\ c \in recent'

MCInit == Init /\ lane \in {"stories", "admins"}
MCSpec == MCInit /\ [][(Stories \/ Admins) /\ UNCHANGED lane]_<<vars, lane>> /\ Fairness
=============================================================================
