------------------------------ MODULE StoryChains ------------------------------
(***************************************************************************)
(* build_chains of services/story_chains.py: which clusters tell one story. *)
(* A cluster is known by its qualifying entities (neither backdrop nor      *)
(* generic).  Those that behave like an institution are left out, the       *)
(* others each make a group, and a group that is almost inside a kept one   *)
(* joins it.                                                               *)
(***************************************************************************)
EXTENDS Integers, Sequences, FiniteSets, FiniteSetsExt

CONSTANTS
    Chained,        \* clusters of the window
    Key,
    MinPostings,    \* INSTITUTION_MIN_POSTINGS
    MinOverlap,     \* INSTITUTION_OVERLAP_THRESHOLD, in percent
    Subsumption     \* SUBSUMPTION_RATIO, in percent

VARIABLES qualifying, groups, kept

cvars == <<qualifying, groups, kept>>

Postings(k) == {c \in Chained : k \in qualifying[c]}
Companions(k, c) == qualifying[c] \ {k}
SmallerSize(s, t) == IF Cardinality(s) < Cardinality(t) THEN Cardinality(s) ELSE Cardinality(t)

\* How far the other entities of two clusters overlap, in percent.
Overlap(s, t) == IF s = {} \/ t = {} THEN 0 ELSE (100 * Cardinality(s \cap t)) \div SmallerSize(s, t)

Pairs(s) == {p \in s \X s : p[1] # p[2]}

\* The sum over the pairs of a key's clusters, each counted both ways.
SumOfOverlaps(k) == MapThenSumSet(LAMBDA p : Overlap(Companions(k, p[1]), Companions(k, p[2])), Pairs(Postings(k)))

\* Mutant of EnoughPostings: an off-by-one.
EnoughPostingsMore(k) == Cardinality(Postings(k)) > MinPostings

EnoughPostings(k) == Cardinality(Postings(k)) >= MinPostings

Institution(k) ==
    /\ EnoughPostings(k)
    /\ SumOfOverlaps(k) < MinOverlap * Cardinality(Pairs(Postings(k)))

ChainsInit ==
    /\ qualifying \in [Chained -> SUBSET Key]
    /\ groups = {Postings(k) : k \in {x \in Key : ~Institution(x)}}
    /\ kept = <<>>

\* The longest group next: it joins the first kept one that has almost all of it.
Subsumes(k, group) == 100 * Cardinality(group \cap k) >= Subsumption * Cardinality(group)

PlaceGroup(group) ==
    LET hosts == {i \in DOMAIN kept : Subsumes(kept[i], group)} IN
    /\ group \in groups /\ \A g \in groups : Cardinality(g) <= Cardinality(group)
    /\ groups' = groups \ {group}
    /\ kept' = IF Cardinality(group) < 2 THEN kept
               ELSE IF hosts = {} THEN Append(kept, group)
               ELSE LET first == CHOOSE i \in hosts : \A j \in hosts : i <= j IN
                    [kept EXCEPT ![first] = @ \cup group]
    /\ UNCHANGED qualifying

ChainsNext == \E group \in groups : PlaceGroup(group)

\* The chain of a cluster is the one kept last that has it.
ChainOf(c) ==
    LET in == {i \in DOMAIN kept : c \in kept[i]} IN
    IF in = {} THEN {c} ELSE kept[CHOOSE i \in in : \A j \in in : j <= i]

\* A chain is connected by what its clusters share; and clusters that all
\* have one entity and no other two of which have anything else in common
\* are never a chain once there are enough of them to tell: the entity is
\* an institution, not a story.
ChainsAreStories ==
    groups = {} =>
        \A c \in Chained :
            LET chain == ChainOf(c) IN
            /\ \A part \in (SUBSET chain) \ {{}, chain} :
                \E a \in part, b \in chain \ part : qualifying[a] \cap qualifying[b] # {}
            /\ Cardinality(chain) >= MinPostings =>
                ~\E k \in Key : \A a, b \in chain : a # b => qualifying[a] \cap qualifying[b] = {k}
=============================================================================
