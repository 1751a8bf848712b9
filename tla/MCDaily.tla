------------------------------- MODULE MCDaily -------------------------------
(* Instances of DailyGames, DailyFeatures and Puzzles for TLC.  They share  *)
(* nothing, and a behaviour follows one of them, its lane: the first        *)
(* generation of the games, the quiz desk, the bank, one of the other       *)
(* features, or the generators.                                             *)
EXTENDS DailyGames, DailyFeatures, Puzzles, TLC

CONSTANTS w1, w2, w3

VARIABLE lane

mcvars == <<gvars, fvars, pvars, lane>>

GamesLane == {"first", "desk", "bank"}
FeaturesLane == Puzzle \cup {"feature", "stars"}

Keys == [w \in {w1, w2, w3} |-> IF w = w3 THEN 2 ELSE 1]
PackedWords == {<<1, 2, 3>>, <<2, 1, 2>>, <<3, 1, 1, 2>>, <<1, 2, 3, 1>>, <<2, 3, 1, 2>>}
HiddenWords == {<<1, 2, 3>>, <<2, 1, 1, 3>>}
Rungs == {<<1, 1, 1>>, <<1, 1, 2>>, <<1, 2, 2>>, <<2, 2, 2>>, <<2, 1, 1>>, <<3, 1, 2>>, <<3, 3, 3>>, <<3, 2, 2>>}

MCInit ==
    /\ lane \in GamesLane \cup FeaturesLane \cup {"generators"}
    /\ GamesInit /\ FeaturesInit /\ PuzzlesInit
    /\ lane # "bank" => \A p, q \in Question : bank[p] = bank[q]
    /\ lane # "first" /\ lane # "bank" => \A q \in Question : bank[q] = Unlisted
    /\ lane # "stars" => stars = {}
    /\ lane # "generators" => algo = "ladder" /\ from = to /\ from = CHOOSE w \in LadderWords : TRUE

Reviewing == \E e \in Editor : ed[e].pc \in {"approve", "reject"}

Games ==
    /\ lane \in GamesLane
    /\ GamesNext
    /\ lane # "desk" => ~Reviewing' /\ page' = page
    /\ lane # "first" => req' = req /\ script' = script
    /\ lane = "first" => \A w \in Party : pick'[w].at <= 2
    /\ lane # "bank" => \A q \in Question : bank'[q].active = bank[q].active /\ bank'[q].row = bank[q].row
    /\ UNCHANGED <<fvars, pvars, lane>>

Doing(pcs) == \A v \in Visit : visit'[v].pc \in pcs \cup {"off"}

Features ==
    /\ lane \in FeaturesLane
    /\ FeaturesNext
    /\ lane \in Puzzle => /\ Doing({"puzzle", "make"}) /\ clock' = clock
                          /\ \A v \in Visit : visit'[v].pc # "off" => visit'[v].on = lane
    /\ lane = "feature" => Doing({"feature", "compose", "picture", "quote"})
    /\ lane = "stars" => Doing({"stars", "fetch"})
    /\ UNCHANGED <<gvars, pvars, lane>>

Generators == lane = "generators" /\ PuzzlesNext /\ UNCHANGED <<gvars, fvars, lane>>

Symmetry ==
    Permutations(Editor) \cup Permutations(Visit)

MCSpec == MCInit /\ [][Games \/ Features \/ Generators]_mcvars
=============================================================================
