------------------------- MODULE EnrichmentPipeline -------------------------
(***************************************************************************)
(* How an outlet that joins a story reaches the story's AI summary: the    *)
(* feed ingestion of app/services/poller.py, the enrichment run of         *)
(* scripts/enrich_all_clusters.py with its synchronous calls, the Message  *)
(* Batches protocol of app/services/enrichment_batch.py, and the           *)
(* unleased re-enrich endpoint of app/main.py.                             *)
(*                                                                         *)
(* Each of them works on rows loaded earlier, in a session of its own, and *)
(* writes back only the columns whose value differs from the one it loaded *)
(* (SQLAlchemy's unit of work).  Ingestion and the run are under a lease   *)
(* each (module JobLease), so there is one of each at a time.              *)
(*                                                                         *)
(* A framing comparison is represented by the set of outlets it compares:  *)
(* those the request described.  An answer may also say that there is      *)
(* nothing to compare, or not speak of it (Answer).  A cluster's number    *)
(* orders first_seen_at.                                                   *)
(***************************************************************************)
EXTENDS Integers, FiniteSets

CONSTANTS
    Story,     \* story clusters, a larger number was first seen later
    Outlet,
    BatchId,     \* bound: batches that can be open at once
    ByHand,      \* bound: the clusters an operator re-enriches
    MinSources,  \* FEED_MIN_DISTINCT_SOURCES
    RunLimit,    \* LIMIT of the selection query
    MaxArticles, \* MAX_ARTICLES described by a request
    MaxCrashes   \* bound: process deaths

ASSUME PipelineAssumption ==
    /\ Story \subseteq Nat \ {0} /\ IsFiniteSet(Story)
    /\ IsFiniteSet(Outlet) /\ ByHand \subseteq Story
    /\ MinSources \in Nat \ {0, 1} /\ MaxArticles \in Nat \ {0, 1}
    /\ RunLimit \in Nat /\ MaxCrashes \in Nat

VARIABLES
    outlets,  \* outlets with a committed article in each cluster
    row,      \* the story_clusters row
    feed,     \* the poll cycle: the source being ingested and its session
    job,      \* the enrichment run
    batch,    \* each batch, at the API and in enrichment_batches
    hand,     \* a re-enrich request in flight
    late,     \* history: clusters an outlet joined while an answer was due
    basis,    \* history: the last answer written to each cluster, and the
              \* outlets it had for the writer that asked
    crashes

pipeVars == <<outlets, row, feed, job, batch, hand, late, basis, crashes>>

None == "none"

Row == [count: Nat,                 \* distinct_source_count
        multi: BOOLEAN,             \* became_multi_source_at is set
        ai: BOOLEAN,                \* ai_enriched
        ever: BOOLEAN,              \* last_enriched_at is set
        framing: SUBSET Outlet]     \* framing_comparison, {} for NULL
Blank == [count |-> 0, multi |-> FALSE, ai |-> FALSE, ever |-> FALSE, framing |-> {}]

Exists(c) == outlets[c] # {}
Corroborated(c) == row[c].count >= MinSources

-----------------------------------------------------------------------------
(* Ingestion.  staged[c] is the cluster as the source's session holds it:  *)
(* the row as loaded, the row with its changes, and the outlets known to   *)
(* be in it (cluster_source_ids).                                          *)

NotLoaded == [loaded |-> Blank, object |-> Blank, known |-> {}]
Idle == [at |-> "idle", source |-> None, staged |-> [c \in Story |-> NotLoaded], crossed |-> {}]
Loaded(c) == feed.staged[c] # NotLoaded

\* ingest_source starts on the feed of s.
BeginSource(s) ==
    /\ feed.at = "idle"
    /\ feed' = [feed EXCEPT !.at = "ingest", !.source = s]
    /\ UNCHANGED <<outlets, row, job, batch, hand, late, basis, crashes>>

\* Mutant of Joined: a second article of an outlet counts as another outlet.
JoinedTwice(o, s) ==
    LET n == o.object.count + 1 IN
    [o EXCEPT !.known = @ \cup {s}, !.object.count = n,
              !.object.multi = @ \/ n >= MinSources, !.object.ai = FALSE]

Joined(o, s) ==
    IF s \in o.known THEN o
    ELSE LET n == o.object.count + 1 IN
         [o EXCEPT !.known = @ \cup {s},
                   !.object.count = n,
                   !.object.multi = @ \/ n >= MinSources,
                   !.object.ai = FALSE]

\* A candidate for the article of an outlet: any story that an article of
\* another outlet is in may share its headline tokens.
Candidate(c) == outlets[c] \ {feed.source} # {}

\* A new article matches c.
MatchArticle(c) ==
    /\ feed.at = "ingest" /\ Candidate(c)
    /\ LET o == IF Loaded(c) THEN feed.staged[c]
                ELSE [loaded |-> row[c], object |-> row[c], known |-> outlets[c]]
           new == Joined(o, feed.source)
       IN feed' = [feed EXCEPT !.staged[c] = new,
                               !.crossed = IF new.object.multi # o.object.multi
                                           THEN @ \cup {c} ELSE @]
    /\ UNCHANGED <<outlets, row, job, batch, hand, late, basis, crashes>>

\* Nothing matches: the article starts a cluster.
NewCluster(c) ==
    /\ feed.at = "ingest" /\ ~Exists(c) /\ ~Loaded(c)
    /\ feed' = [feed EXCEPT !.staged[c] =
                    [loaded |-> Blank, object |-> [Blank EXCEPT !.count = 1],
                     known |-> {feed.source}]]
    /\ UNCHANGED <<outlets, row, job, batch, hand, late, basis, crashes>>

\* Mutant of Flush: the UPDATE leaves ai_enriched out.
FlushKeepsAi(o, r) == [o.object EXCEPT !.ai = r.ai]

\* Only columns that differ from the loaded row are in the UPDATE.
Flush(o, r) ==
    [k \in DOMAIN r |-> IF o.object[k] = o.loaded[k] THEN r[k] ELSE o.object[k]]

\* An answer to a request made earlier may still be written to c.
AnswerDue(c) ==
    \/ hand.cluster = c
    \/ c \in job.first \cup job.refine
    \/ \E b \in BatchId : batch[b].cover[c] # {} /\ batch[b].status = "in_progress"

CommitSource ==
    /\ feed.at = "ingest"
    /\ outlets' = [c \in Story |-> IF Loaded(c) THEN outlets[c] \cup {feed.source}
                                     ELSE outlets[c]]
    /\ row' = [c \in Story |-> IF Loaded(c) THEN Flush(feed.staged[c], row[c]) ELSE row[c]]
    /\ late' = late \cup {c \in Story :
                   /\ outlets'[c] # outlets[c] /\ Exists(c)
                   /\ AnswerDue(c) \/ (row[c].ai /\ ~feed.staged[c].loaded.ai)}
    /\ feed' = [Idle EXCEPT !.crossed = feed.crossed]
    /\ UNCHANGED <<job, batch, hand, basis, crashes>>

\* The source's transaction is rolled back; the set of crossings is not.
FailSource ==
    /\ feed.at = "ingest"
    /\ feed' = [Idle EXCEPT !.crossed = feed.crossed]
    /\ UNCHANGED <<outlets, row, job, batch, hand, late, basis, crashes>>

-----------------------------------------------------------------------------
(* The enrichment run.                                                     *)

NoJob == [at |-> "idle", by |-> None, queue |-> {}, settled |-> {},
          first |-> {}, refine |-> {}, seen |-> [c \in Story |-> {}], posted |-> None]
Open == {b \in BatchId : batch[b].status = "in_progress"}

\* The lease is free: the timer, or a poll cycle with crossings, starts a run.
StartRun ==
    /\ job.at = "idle"
    /\ \/ /\ job' = [NoJob EXCEPT !.at = "reconcile", !.by = "timer", !.queue = Open]
          /\ UNCHANGED feed
       \/ /\ feed.at = "idle" /\ feed.crossed # {}
          /\ job' = [NoJob EXCEPT !.at = "reconcile", !.by = "poll", !.queue = Open]
          /\ feed' = [feed EXCEPT !.at = "enriching"]
    /\ UNCHANGED <<outlets, row, batch, hand, late, basis, crashes>>

\* The poll cycle ends without a run of its own: the lease is taken.
LeaveToTimer ==
    /\ feed.at = "idle" /\ feed.crossed # {} /\ job.at # "idle"
    /\ feed' = Idle
    /\ UNCHANGED <<outlets, row, job, batch, hand, late, basis, crashes>>

\* What ends a run, normally or by an exception; its session is discarded.
EndRun ==
    /\ job' = NoJob
    /\ feed' = IF job.by = "poll" THEN Idle ELSE feed

\* The status request failed, or the batch is still running and young.
SkipBatch(b) ==
    /\ job.at = "reconcile" /\ b \in job.queue
    /\ job' = [job EXCEPT !.queue = @ \ {b}]
    /\ UNCHANGED <<outlets, row, feed, batch, hand, late, basis, crashes>>

\* The batch is lost: expired.
GiveUpBatch(b) ==
    /\ job.at = "reconcile" /\ b \in job.queue /\ batch[b].api = "lost"
    /\ job' = [job EXCEPT !.queue = @ \ {b}, !.settled = @ \cup {<<b, "expired">>}]
    /\ UNCHANGED <<outlets, row, feed, batch, hand, late, basis, crashes>>

\* _fetch_results raises, and nothing in the run catches it.
FetchFails(b) ==
    /\ job.at = "reconcile" /\ b \in job.queue /\ batch[b].api = "ended"
    /\ EndRun
    /\ UNCHANGED <<outlets, row, batch, hand, late, basis, crashes>>

\* Mutant of Settle: the statuses are never committed.
SettleNothing(bs) == bs

Settle(bs) == [b \in BatchId |->
    [bs[b] EXCEPT !.status = IF <<b, "ended">> \in job.settled THEN "ended"
                             ELSE IF <<b, "expired">> \in job.settled THEN "expired"
                             ELSE @]]

\* The outlets a request may describe, of a cluster loaded with the outlets
\* known: one article of each, MAX_ARTICLES of them at most.  Which ones does
\* not matter before the answer is written.
Described(known) ==
    {x \in SUBSET known : Cardinality(x) = IF Cardinality(known) <= MaxArticles
                                            THEN Cardinality(known) ELSE MaxArticles}

\* A usable answer compares the outlets described, says that there is nothing
\* to compare ([] or null), or lacks the key framing_comparison.
Answer == {"compared", "empty", "absent"}
NoAnswer == [answer |-> "none", known |-> {}]

\* apply_ai_response and the UPDATE of the row r that follows, by a writer
\* that loaded the row as l and knows of the outlets known.  A new comparison
\* is always another value than the one loaded; None is not, on a row loaded
\* with NULL, nor is TRUE on one that was loaded as enriched.
Enriched(r, l, known, answer, described) ==
    LET compares == Cardinality(known) >= 2 IN
    [r EXCEPT !.ai = @ \/ ~l.ai, !.ever = TRUE,
              !.framing = IF compares /\ answer = "compared" THEN described
                          ELSE IF (compares /\ answer = "absent") \/ l.framing = {} THEN @
                          ELSE {}]

\* Some usable answer to a request made with the outlets known is written.
WriteAnswer(c, l, known) ==
    \E answer \in Answer, described \in Described(known) :
        /\ row' = [row EXCEPT ![c] = Enriched(@, l, known, answer, described)]
        /\ basis' = [basis EXCEPT ![c] = [answer |-> answer, known |-> known]]

\* The results of b: clusters in ok got a usable answer, for which the row is
\* loaded again.  This commit also writes the statuses pending in the session;
\* b's own comes with the next.
ApplyResults(b, ok) ==
    /\ job.at = "reconcile" /\ b \in job.queue /\ batch[b].api = "ended"
    /\ ok \subseteq {c \in Story : batch[b].cover[c] # {}}
    /\ \E answer \in [ok -> Answer], described \in [ok -> SUBSET Outlet] :
           /\ \A c \in ok : described[c] \in Described(batch[b].cover[c])
           /\ row' = [c \in Story |-> IF c \in ok
                  THEN Enriched(row[c], row[c], outlets[c], answer[c], described[c]) ELSE row[c]]
           /\ basis' = [c \in Story |-> IF c \in ok
                  THEN [answer |-> answer[c], known |-> batch[b].cover[c]] ELSE basis[c]]
    /\ batch' = [Settle(batch) EXCEPT ![b].applied = IF @ < 2 THEN @ + 1 ELSE @]
    /\ job' = [job EXCEPT !.queue = @ \ {b}, !.settled = {<<b, "ended">>}]
    /\ UNCHANGED <<outlets, feed, hand, late, crashes>>

Wanted == {c \in Story : Corroborated(c) /\ ~row[c].ai}

\* ORDER BY first_seen_at DESC LIMIT RunLimit
Chosen == {c \in Wanted : Cardinality({d \in Wanted : d > c}) < RunLimit}

Select ==
    /\ job.at = "reconcile" /\ job.queue = {}
    /\ batch' = Settle(batch)
    /\ job' = [job EXCEPT !.at = "sync", !.settled = {},
                          !.first = {c \in Chosen : ~row[c].ever},
                          !.refine = {c \in Chosen : row[c].ever},
                          !.seen = [c \in Story |-> IF c \in Chosen THEN outlets[c] ELSE {}]]
    /\ UNCHANGED <<outlets, row, feed, hand, late, basis, crashes>>

\* One synchronous pass, the widest covered cluster first, on the row as Select
\* loaded it: never enriched, with no comparison.
SyncPass(c, ok) ==
    /\ job.at = "sync" /\ c \in job.first
    /\ \A d \in job.first : Cardinality(job.seen[d]) <= Cardinality(job.seen[c])
    /\ IF ok THEN WriteAnswer(c, Blank, job.seen[c]) ELSE UNCHANGED <<row, basis>>
    /\ job' = [job EXCEPT !.first = @ \ {c}]
    /\ UNCHANGED <<outlets, feed, batch, hand, late, crashes>>

\* The API accepts the batch; nothing is recorded yet.
PostBatch(b) ==
    /\ job.at = "sync" /\ job.first = {} /\ job.refine # {}
    /\ batch[b].status # "in_progress"
    /\ batch' = [batch EXCEPT ![b] =
           [api |-> "running", status |-> "none", applied |-> 0,
            cover |-> [c \in Story |-> IF c \in job.refine THEN job.seen[c] ELSE {}]]]
    /\ job' = [job EXCEPT !.at = "record", !.posted = b]
    /\ UNCHANGED <<outlets, row, feed, hand, late, basis, crashes>>

\* raise_for_status raises.
PostFails ==
    /\ job.at = "sync" /\ job.first = {} /\ job.refine # {}
    /\ EndRun
    /\ UNCHANGED <<outlets, row, batch, hand, late, basis, crashes>>

RecordBatch ==
    /\ job.at = "record"
    /\ batch' = [batch EXCEPT ![job.posted].status = "in_progress"]
    /\ EndRun
    /\ UNCHANGED <<outlets, row, hand, late, basis, crashes>>

FinishRun ==
    /\ job.at = "sync" /\ job.first = {} /\ job.refine = {}
    /\ EndRun
    /\ UNCHANGED <<outlets, row, batch, hand, late, basis, crashes>>

\* The API finishes a batch.
BatchEnds(b) ==
    /\ batch[b].api = "running"
    /\ batch' = [batch EXCEPT ![b].api = "ended"]
    /\ UNCHANGED <<outlets, row, feed, job, hand, late, basis, crashes>>

\* It is still running after BATCH_STALE_HOURS, or ended with no results_url.
BatchIsLost(b) ==
    /\ batch[b].api = "running"
    /\ batch' = [batch EXCEPT ![b].api = "lost"]
    /\ UNCHANGED <<outlets, row, feed, job, hand, late, basis, crashes>>

-----------------------------------------------------------------------------
(* POST /clusters/{id}/enrich: any cluster, no lease.                      *)

NoHand == [cluster |-> 0, seen |-> {}, loaded |-> Blank]

Reenrich(c) ==
    /\ hand = NoHand /\ Exists(c)
    /\ hand' = [cluster |-> c, seen |-> outlets[c], loaded |-> row[c]]
    /\ UNCHANGED <<outlets, row, feed, job, batch, late, basis, crashes>>

HandAnswered ==
    /\ hand # NoHand
    /\ WriteAnswer(hand.cluster, hand.loaded, hand.seen)
    /\ hand' = NoHand
    /\ UNCHANGED <<outlets, feed, job, batch, late, crashes>>

HandFails ==
    /\ hand # NoHand /\ hand' = NoHand
    /\ UNCHANGED <<outlets, row, feed, job, batch, late, basis, crashes>>

-----------------------------------------------------------------------------
(* A process dies: the poller, with the run it may be doing, or the run.   *)

PollerDies ==
    /\ crashes < MaxCrashes /\ feed # Idle
    /\ feed' = Idle
    /\ job' = IF job.by = "poll" THEN NoJob ELSE job
    /\ crashes' = crashes + 1
    /\ UNCHANGED <<outlets, row, batch, hand, late, basis>>

RunDies ==
    /\ crashes < MaxCrashes /\ job.by = "timer"
    /\ EndRun
    /\ crashes' = crashes + 1
    /\ UNCHANGED <<outlets, row, batch, hand, late, basis>>

PipelineInit ==
    /\ outlets = [c \in Story |-> {}]
    /\ row = [c \in Story |-> Blank]
    /\ feed = Idle
    /\ job = NoJob
    /\ batch = [b \in BatchId |-> [api |-> "free", status |-> "none", applied |-> 0,
                                   cover |-> [c \in Story |-> {}]]]
    /\ hand = NoHand
    /\ late = {}
    /\ basis = [c \in Story |-> NoAnswer]
    /\ crashes = 0

Ingest ==
    \/ \E s \in Outlet : BeginSource(s)
    \/ \E c \in Story : MatchArticle(c) \/ NewCluster(c)
    \/ CommitSource \/ FailSource

Reconcile ==
    \E b \in BatchId :
        \/ SkipBatch(b) \/ GiveUpBatch(b) \/ FetchFails(b)
        \/ \E ok \in SUBSET Story : ApplyResults(b, ok)

RunStep ==
    \/ Reconcile
    \/ Select
    \/ \E c \in Story, ok \in BOOLEAN : SyncPass(c, ok)
    \/ \E b \in BatchId : PostBatch(b)
    \/ PostFails \/ RecordBatch \/ FinishRun

PipelineNext ==
    \/ Ingest
    \/ StartRun \/ LeaveToTimer \/ RunStep
    \/ \E b \in BatchId : BatchEnds(b) \/ BatchIsLost(b)
    \/ \E c \in ByHand : Reenrich(c)
    \/ HandAnswered \/ HandFails
    \/ PollerDies \/ RunDies

PipelineSpec == PipelineInit /\ [][PipelineNext]_pipeVars

(* The timer keeps firing, a run takes its steps, and what is repeated for *)
(* ever succeeds in the end: a synchronous call, a batch's submission, its *)
(* processing by the API, the question for its status, the reading of its  *)
(* results.                                                                *)
PipelineFairness ==
    /\ WF_pipeVars(StartRun) /\ WF_pipeVars(RunStep)
    /\ WF_pipeVars(CommitSource \/ FailSource)
    /\ \A c \in Story : SF_pipeVars(SyncPass(c, TRUE))
    /\ \A b \in BatchId :
        /\ SF_pipeVars(PostBatch(b)) /\ SF_pipeVars(BatchEnds(b)) /\ SF_pipeVars(GiveUpBatch(b))
        /\ SF_pipeVars(ApplyResults(b, {c \in Story : batch[b].cover[c] # {}}))

-----------------------------------------------------------------------------
Session == [loaded: Row, object: Row, known: SUBSET Outlet]

\* Types of the variables.
PipelineTypeOK ==
    /\ outlets \in [Story -> SUBSET Outlet]
    /\ row \in [Story -> Row]
    /\ feed \in [at: {"idle", "ingest", "enriching"}, source: Outlet \cup {None},
                 staged: [Story -> Session], crossed: SUBSET Story]
    /\ job \in [at: {"idle", "reconcile", "sync", "record"}, by: {None, "timer", "poll"},
                queue: SUBSET BatchId, settled: SUBSET (BatchId \X {"ended", "expired"}),
                first: SUBSET Story, refine: SUBSET Story,
                seen: [Story -> SUBSET Outlet], posted: BatchId \cup {None}]
    /\ batch \in [BatchId -> [api: {"free", "running", "ended", "lost"},
                              status: {"none", "in_progress", "ended", "expired"},
                              applied: 0 .. 2, cover: [Story -> SUBSET Outlet]]]
    /\ hand \in [cluster: Story \cup {0}, seen: SUBSET Outlet, loaded: Row]
    /\ late \subseteq Story
    /\ basis \in [Story -> [answer: Answer \cup {"none"}, known: SUBSET Outlet]]
    /\ crashes \in 0 .. MaxCrashes

\* distinct_source_count, kept by increments across sessions, rollbacks and
\* crashes, is the number of outlets with an article, and the story is stamped
\* corroborated from the moment that number reaches the threshold.
CountIsOutlets ==
    \A c \in Story : /\ row[c].count = Cardinality(outlets[c])
                     /\ row[c].multi <=> Corroborated(c)

\* A framing comparison never rests on a single outlet or on one that has no
\* article in the story, whichever of the three paths wrote it.
FramingIsReal ==
    \A c \in Story : row[c].framing # {} =>
        Cardinality(row[c].framing) >= 2 /\ row[c].framing \subseteq outlets[c]

\* A corroborated story marked as enriched was asked about with all its
\* outlets, and where the answer compared any, it has a comparison of all of
\* them or of as many as a request describes, unless an outlet joined while
\* the answer to an earlier request was due.
StaleOnlyIfLate ==
    \A c \in Story \ late : Corroborated(c) /\ row[c].ai =>
        /\ basis[c].known = outlets[c]
        /\ basis[c].answer = "compared" => row[c].framing \in Described(outlets[c])

\* A comparison is replaced by another and taken away only by an answer that
\* there is nothing to compare: not by a failure, an answer that does not
\* speak of it, or a writer that loaded the row before it was there.
ComparisonNeverBlanked ==
    [][\A c \in Story : row[c].framing # {} /\ row'[c].framing = {} =>
           basis'[c].answer = "empty"]_pipeVars

\* A corroborated story gets a successful paid pass in the end.
CorroboratedGetsItsPass ==
    \A c \in Story : row[c].multi ~> row[c].ever

\* An open batch is settled in the end.
BatchIsSettled ==
    \A b \in BatchId : batch[b].status = "in_progress" ~> batch[b].status # "in_progress"

\* A comparison is of at least two outlets of its story, and of all that a
\* request describes when the story is marked as enriched, the answer compared
\* them and was not overtaken; only an explicit answer takes it away.
ComparisonIsSound == [](FramingIsReal /\ StaleOnlyIfLate) /\ ComparisonNeverBlanked

\* The work ends: passes succeed and batches are settled.
WorkIsFinished == CorroboratedGetsItsPass /\ BatchIsSettled
=============================================================================
