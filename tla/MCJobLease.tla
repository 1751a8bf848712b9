----------------------------- MODULE MCJobLease -----------------------------
(* An instance of JobLease for TLC whose heartbeats may be too late.  The  *)
(* timely one, where the heartbeat arithmetic holds with nothing to spare, *)
(* is in MCEnrichmentPipeline.                                             *)
EXTENDS JobLease, TLC
=============================================================================
