------------------------------ MODULE MCEditorial ------------------------------
(* Instances of Explainers, DailyBriefs, Timelines and StoryChains for TLC.  *)
(* They share nothing, and a behaviour follows one of them, its lane: the   *)
(* explainer's desk or its readers, the builds of the brief or its choice   *)
(* of stories, the timelines with narrations or with picks, or the chains.  *)
(* The weeks of the picks have no chain of three.                           *)
(* What a history variable exempts for good is not followed further.        *)
EXTENDS Explainers, DailyBriefs, Timelines, StoryChains, TLC

VARIABLE lane

vars == <<evars, bvars, tvars, cvars, lane>>

CoreOfTwo == <<"national", "sports">>
FallbackOfOne == <<"health">>
Weeks == {<<>>, <<{1, 2}>>, <<{1, 2, 3}>>, <<{2, 3}, {1, 2}>>}
SharedWeeks == {<<{3, 4}, {1, 3}, {1, 2}>>, <<{1, 4}>>}
AllWeeks == Weeks \cup SharedWeeks

MCInit ==
    /\ lane \in {"desk", "cache", "builds", "selection", "voice", "picks", "shared", "chains"}
    /\ ExplainersInit /\ BriefsInit /\ TimelinesInit
    /\ lane \notin {"desk", "cache"} => row.srcs = {}
    /\ lane # "selection" => stories = <<>>
    /\ lane # "builds" => hour = "day"
    /\ IF lane = "chains" THEN ChainsInit
       ELSE qualifying = [c \in Chained |-> {}] /\ groups = {} /\ kept = <<>>

Explaining ==
    /\ lane \in {"desk", "cache"} /\ ExplainersNext
    /\ lane = "desk" => ~crossed /\ reader' = reader /\ cached' = cached
    /\ lane = "cache" => ~late /\ ~lapsed' /\ \E t \in Task : \A x \in Task \ {t} : task'[x] = Free
    /\ UNCHANGED <<bvars, tvars, cvars, lane>>

Briefing ==
    /\ IF lane = "builds" THEN ~lost /\ ~stale /\ BuildsNext ELSE lane = "selection" /\ SelectNext
    /\ UNCHANGED <<evars, tvars, cvars, lane>>

Unvoiced(m) == m.pc = "scan" => (\A f \in m.fresh : f.voice = 0) /\ \A i \in DOMAIN m.mine : m.mine[i].voice = 0

InWeeks(weeks) == \A g \in Generation : gen'[g] # Waits => gen'[g].chains \in weeks
WithoutVoices == narrator' = narrator /\ \A g \in Generation : Unvoiced(gen'[g])
Anchors(fs) == {fs[i].anchor : i \in DOMAIN fs}

Telling ==
    /\ lane \in {"voice", "picks", "shared"} /\ ~over /\ TimelinesNext
    /\ lane = "voice" => InWeeks(Weeks) /\ Anchors(feature') \subseteq 1 .. 3 /\ \A i \in DOMAIN feature' : ~feature'[i].pick
    /\ lane = "picks" => InWeeks(Weeks \ {<<{1, 2, 3}>>}) /\ Anchors(feature') \subseteq 1 .. 3 /\ WithoutVoices
    /\ lane = "shared" => InWeeks(SharedWeeks) /\ Anchors(feature') \subseteq 2 .. 4 /\ WithoutVoices
    /\ UNCHANGED <<evars, bvars, cvars, lane>>

Chaining == lane = "chains" /\ ChainsNext /\ UNCHANGED <<evars, bvars, tvars, lane>>

Symmetry == Permutations(Build) \cup Permutations(Task)

MCSpec == MCInit /\ [][Explaining \/ Briefing \/ Telling \/ Chaining]_vars
=============================================================================
