----------------------------- MODULE MCLeasedRun -----------------------------
(* The lease that the poll cycle and the enrichment run hold, with heartbeats *)
(* that are late but never too late, and the run that it lets have a story to *)
(* itself: a behaviour follows one of the two, its lane.                      *)
EXTENDS JobLease, MCEnrichmentPipeline

\* A story with every kind of answer, made by hand as well, and one batch, or
\* with one kind of answer and two batches, of which one may be lost.
OfItsLane ==
    IF lane = "answers" THEN Cardinality({b \in BatchId : batch'[b].api # "free"}) <= 1
    ELSE hand' = NoHand /\ basis'[1].answer \in {"none", "compared"}

MCInit == lane \in {"lease", "answers", "batches"} /\ Init /\ PipelineInit
Leasing == lane = "lease" /\ Next /\ UNCHANGED <<pipeVars, lane>>
Running == lane # "lease" /\ PipelineNext /\ OfItsLane /\ UNCHANGED <<vars, lane>>
MCSpec == MCInit /\ [][Leasing \/ Running]_<<vars, pipeVars, lane>>
=============================================================================
