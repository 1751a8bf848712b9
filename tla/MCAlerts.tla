------------------------------ MODULE MCAlerts ------------------------------
(* Instances of Notifications, UpdateAlerts and ReadyAlerts for TLC.  A    *)
(* behaviour follows one of the alerts, its lane: they share nothing but   *)
(* the registrations of the devices, and one run may check them all.       *)
(* Stories and runs that nothing tells apart yet stand for each other, and *)
(* the first is taken.                                                     *)
EXTENDS Lanes, Notifications, UpdateAlerts, ReadyAlerts

CONSTANTS p1, p2, c1

mcvars == <<vars, uvars, rvars, lane>>

Summaries == {{p1}, {p2}}
From == [k \in {"brief", "wrapup"} |-> IF k = "brief" THEN 1 ELSE 2]

MCInit ==
    /\ Init /\ UpdateInit /\ ReadyInit
    /\ lane \in {"digest", "crowd"} \cup Channel \cup Kind

First(S) == CHOOSE x \in S : TRUE
Mentioned == {row.item : row \in {x \in log \cup {run[r].row : r \in Run} : x.mode = "breaking"}}

DigestLane ==
    /\ lane = "digest"
    /\ Next
    /\ (\A r \in Run : run[r] = Idle) => \A r \in Run : run'[r] # Idle => r = First(Run)
    /\ \A s \in Mentioned' \ Mentioned : s = First(Story \ Mentioned)
    /\ UNCHANGED <<uvars, rvars, lane>>

\* A follower of a source changes the preference at any time, one of a topic
\* before anything else happens.  The topic has one story, or a crowd of more
\* than its candidates, which one run at a time looks at.
UpdateLane ==
    /\ lane \in Channel \cup {"crowd"}
    /\ UpdateNext
    /\ (\A r \in UpdateRun : urun[r] = Quiet) =>
           \A r \in UpdateRun : urun'[r] # Quiet => r = First(UpdateRun)
    /\ lane # "source" => UNCHANGED newest /\ follow'["source"] = follow["source"] /\ now' <= 2
    /\ lane = "topic" => /\ \A c \in Cluster \ {c1} : story'[c] = story[c]
                         /\ story' # story => story'[c1].sources # story[c1].sources
                         /\ muted' # muted => made = 0 /\ now = 0
    /\ lane = "crowd" => /\ UNCHANGED muted
                         /\ Cardinality({r \in UpdateRun : urun'[r] # Quiet}) <= 1
                         /\ \A c \in Cluster : ~story'[c].runaway /\ story'[c].points \subseteq {p1} /\ story'[c].sources <= 2
                         /\ made' <= 1
    /\ lane = "source" => UNCHANGED <<story, asking>>
    /\ UNCHANGED <<vars, rvars, lane>>

ReadyLane ==
    /\ lane \in Kind
    /\ ReadyNext
    /\ (\A r \in ReadyRun : rrun[r] = Asleep) =>
           \A r \in ReadyRun : rrun'[r] # Asleep => r = First(ReadyRun)
    /\ \A k \in Brief \ {lane} : UNCHANGED ready[k]
    /\ lane # "stars" => UNCHANGED forecast
    /\ lane # "trial" => UNCHANGED starting
    /\ UNCHANGED <<vars, uvars, lane>>

MCSpec == MCInit /\ [][DigestLane \/ UpdateLane \/ ReadyLane]_mcvars
=============================================================================
