------------------------------ MODULE MCStories ------------------------------
(* Instances of Clustering and StoryUpdates for TLC: how articles become      *)
(* stories, and what the followers of a story are told.  A behaviour takes    *)
(* one lane: the feeds list the entries of one pool, or a reader who follows  *)
(* from the start is told, or one follows, leaves and comes back.  The        *)
(* summary of a story makes one point at a time, and may come back to one.    *)
EXTENDS Sequences, Lanes, Clustering, StoryUpdates, TLC

Feeds == {"north", "south", "wire"}

\* outlet, link, title, words, date
Entry == <<
    <<"north", 1, 1, {1, 2, 3, 4}, 0>>,
    <<"wire",  2, 2, {2, 3, 4, 5}, 0>>,
    <<"south", 3, 3, {3, 4, 5, 6}, 0>>,
    <<"north", 4, 4, {1, 2, 3, 4, 5}, 0>>,
    <<"wire",  5, 2, {2, 3, 4, 5}, Undated>>,
    <<"wire",  6, 2, {2, 3, 4, 5}, 0>>,
    <<"south", 3, 7, {3, 4, 5, 7}, -1>>,
    <<"north", 8, 8, {5, 6, 7, 8}, -1>>,
    <<"wire",  9, 9, {4, 5, 6, 7}, Undated>>>>

Pool == [chain |-> {1, 2, 3, 4}, template |-> {2, 5, 6, 1}, age |-> {7, 8, 9}, link |-> {3, 7, 9}]

Entries == 1 .. Len(Entry)
Outlets == [a \in Entries |-> Entry[a][1]]
Links == [a \in Entries |-> Entry[a][2]]
Titles == [a \in Entries |-> Entry[a][3]]
Tokens == [a \in Entries |-> Entry[a][4]]
Dates == [a \in Entries |-> Entry[a][5]]
Regions == [s \in Feeds |-> IF s = "wire" THEN Nowhere ELSE s]


MCSummary == {{b} : b \in Bullet}
Symmetry == Permutations(Bullet)

MCInit ==
    /\ lane \in DOMAIN Pool \cup {"told", "follow"}
    /\ ClusterInit /\ Init
    /\ lane # "follow" => \A u \in User, c \in Cluster : Follows(u, c) <=> lane = "told"

Forming ==
    /\ lane \in DOMAIN Pool
    /\ ClusterNext
    /\ \A s \in Source : listing'[s] \subseteq Pool[lane]
    /\ lane \notin {"age", "link"} => now' = 0
    /\ UNCHANGED <<vars, lane>>

Telling ==
    /\ lane = "told"
    /\ \/ \E c \in Cluster, n \in 1 .. MaxOutlets : JoinArticle(c, n)
       \/ \E c \in Cluster, B \in Summary : Enrich(c, B)
       \/ Notify
    /\ UNCHANGED <<cvars, lane>>

Following ==
    /\ lane = "follow"
    /\ Next /\ clock' < LastTick
    /\ UNCHANGED <<cvars, lane>>

MCSpec == MCInit /\ [][Forming \/ Telling \/ Following]_<<cvars, vars, lane>>
=============================================================================
