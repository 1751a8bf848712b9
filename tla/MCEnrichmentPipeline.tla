----------------------- MODULE MCEnrichmentPipeline -----------------------
(* Instances of EnrichmentPipeline for TLC.  A live behaviour has either   *)
(* one story, which an admin may re-enrich, or two that nobody does.       *)
EXTENDS EnrichmentPipeline, Lanes, TLC

OneStory == {1}
TwoStories == {1, 2}
Symmetry == Permutations(Outlet) \cup Permutations(BatchId)

LiveInit == lane \in {"one", "two"} /\ PipelineInit

LiveNext ==
    /\ PipelineNext
    /\ lane = "one" => feed'.staged[2] = NotLoaded
    /\ lane = "two" => hand' = NoHand /\ \A c \in Story : basis'[c].answer \in {"none", "compared"}
    /\ UNCHANGED lane

LiveSpec == LiveInit /\ [][LiveNext]_<<pipeVars, lane>> /\ PipelineFairness
=============================================================================
