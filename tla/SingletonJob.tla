---------------------------- MODULE SingletonJob ----------------------------
(***************************************************************************)
(* What app/services/job_lease.py promises to the jobs that use it (the    *)
(* poller, the enrichment sweep, the notifier, the brief and timeline      *)
(* narrators): of all the runs of one job, in however many processes, at   *)
(* most one is executing its body at any time.                             *)
(***************************************************************************)

CONSTANT Run        \* the runs of one job: one call of job_lease() each

VARIABLE running    \* the runs whose body is executing

Init == running = {}

Start(r) == running = {} /\ running' = {r}

Stop(r) == r \in running /\ running' = running \ {r}

Next == \E r \in Run : Start(r) \/ Stop(r)

Spec == Init /\ [][Next]_running
=============================================================================
