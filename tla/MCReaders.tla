------------------------------ MODULE MCReaders ------------------------------
(* One run for three sets of instances: what readers keep and are shown, and   *)
(* the scripts that are run on the same tables.                                *)
EXTENDS MCAccounts, MCFeed, MCUpkeep

mcVars == <<readerVars, feedVars, upkeepVars, lane>>

Init ==
    /\ lane \in AccountLanes \cup FeedLanes \cup UpkeepLanes
    /\ ReaderInit /\ FeedLaneInit /\ UpkeepInit

Next ==
    /\ lane' = lane
    /\ \/ lane \in AccountLanes /\ ReaderNext /\ UNCHANGED <<feedVars, upkeepVars>>
       \/ lane \in FeedLanes /\ FeedNext /\ UNCHANGED <<readerVars, upkeepVars>>
       \/ lane \in UpkeepLanes /\ UpkeepNext /\ UNCHANGED <<readerVars, feedVars>>

Spec == Init /\ [][Next]_mcVars

=============================================================================
