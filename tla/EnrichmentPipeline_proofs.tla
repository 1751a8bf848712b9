---------------------- MODULE EnrichmentPipeline_proofs ----------------------
(***************************************************************************)
(* Proofs about EnrichmentPipeline for any stories, outlets, batches and   *)
(* limits: counters are those of the articles, and a comparison is one of  *)
(* outlets of its story, whichever of the three writers wrote it last and  *)
(* whatever it was answered.                                               *)
(*                                                                         *)
(* No writer holds a lock between the read of a row and its write.  The    *)
(* invariant says of each what it has read, and how that relates to the    *)
(* committed row: of the session of ingestion (SessionsFit), of requests   *)
(* whose answers are awaited (RequestsFit, which hold for every story, and *)
(* RequestsFresh, for those that no outlet joined since), and of the run   *)
(* (RunFits: a batch that may be applied is open, and one that is not yet  *)
(* recorded is still in the hands of the run).                             *)
(***************************************************************************)
EXTENDS EnrichmentPipeline, FiniteSetTheorems, TLAPS

\* A story as the session of source s holds it.
Fits(o, c, s) ==
    /\ o.loaded.count = row[c].count /\ o.loaded.multi = row[c].multi
    /\ o.known = outlets[c] \cup {s}
    /\ o.object.count = Cardinality(o.known)
    /\ o.object.multi <=> o.object.count >= MinSources
    /\ o.object.framing = o.loaded.framing /\ o.object.ever = o.loaded.ever
    /\ s \in outlets[c] => o.object = o.loaded
    /\ s \notin outlets[c] => ~o.object.ai
SessionsFit ==
    /\ feed.at = "ingest" => feed.source \in Outlet
    /\ \A c \in Story : Loaded(c) => feed.at = "ingest" /\ Fits(feed.staged[c], c, feed.source)

\* A request described outlets that the story has, and several of them,
\* unless it is one made by hand.
Comparable(x, c) == x \subseteq outlets[c] /\ Cardinality(x) >= 2
RequestsFit ==
    /\ \A c \in job.first \cup job.refine : Comparable(job.seen[c], c)
    /\ \A b \in BatchId : \A c \in Story : batch[b].cover[c] # {} => Comparable(batch[b].cover[c], c)
    /\ hand # NoHand =>
           /\ hand.cluster \in Story /\ hand.seen # {} /\ hand.seen \subseteq outlets[hand.cluster]
           /\ hand.loaded.framing # {} => Cardinality(hand.seen) >= 2

\* The batches whose answers may still be written.
Due(b) == batch[b].status = "in_progress" \/ (job.at = "record" /\ job.posted = b)
RunFits ==
    /\ job.queue \subseteq Open
    /\ \A b \in job.queue : \A x \in {"ended", "expired"} : <<b, x>> \notin job.settled
    /\ job.at = "record" =>
           /\ job.posted \in BatchId
           /\ \A c \in Story : batch[job.posted].cover[c] # {} => c \in job.refine

\* Unless an outlet joined since, what a request described is all there is.
RequestsFresh ==
    \A c \in Story \ late :
        /\ c \in job.first \cup job.refine => job.seen[c] = outlets[c]
        /\ \A b \in BatchId : Due(b) /\ batch[b].cover[c] # {} => batch[b].cover[c] = outlets[c]
        /\ hand.cluster = c => hand.seen = outlets[c]

\* An answer written to c, and the row r it left, are those of all its outlets.
Current(r, q, c) ==
    q.known = outlets[c] /\ (q.answer = "compared" => r.framing \in Described(outlets[c]))

PipelineInv ==
    /\ PipelineTypeOK
    /\ CountIsOutlets /\ FramingIsReal /\ StaleOnlyIfLate
    /\ SessionsFit /\ RequestsFit /\ RunFits /\ RequestsFresh

FeedState == [at: {"idle", "ingest", "enriching"}, source: Outlet \cup {None},
              staged: [Story -> Session], crossed: SUBSET Story]
JobState == [at: {"idle", "reconcile", "sync", "record"}, by: {None, "timer", "poll"},
             queue: SUBSET BatchId, settled: SUBSET (BatchId \X {"ended", "expired"}),
             first: SUBSET Story, refine: SUBSET Story,
             seen: [Story -> SUBSET Outlet], posted: BatchId \cup {None}]
BatchState == [api: {"free", "running", "ended", "lost"},
               status: {"none", "in_progress", "ended", "expired"},
               applied: 0 .. 2, cover: [Story -> SUBSET Outlet]]
BasisState == [answer: Answer \cup {"none"}, known: SUBSET Outlet]
HandState == [cluster: Story \cup {0}, seen: SUBSET Outlet, loaded: Row]

-----------------------------------------------------------------------------
(* What the operators make of rows and sessions.                           *)

LEMMA TypesOfParts ==
    PipelineTypeOK <=> /\ outlets \in [Story -> SUBSET Outlet] /\ row \in [Story -> Row]
                       /\ feed \in FeedState /\ job \in JobState
                       /\ batch \in [BatchId -> BatchState] /\ hand \in HandState
                       /\ late \subseteq Story /\ crashes \in 0 .. MaxCrashes
                       /\ basis \in [Story -> BasisState]
  BY DEF PipelineTypeOK, FeedState, JobState, BatchState, HandState, BasisState

LEMMA FiniteOutlets ==
    ASSUME NEW x \in SUBSET Outlet
    PROVE  IsFiniteSet(x) /\ Cardinality(x) \in Nat /\ (Cardinality(x) >= 1 => x # {})
  BY FS_Subset, FS_CardinalityType, FS_EmptySet, PipelineAssumption

LEMMA OneMoreOutlet ==
    ASSUME NEW x \in SUBSET Outlet, NEW s \in Outlet, s \notin x
    PROVE  Cardinality(x \cup {s}) = Cardinality(x) + 1
  BY FiniteOutlets, FS_AddElement

LEMMA RowFields ==
    ASSUME NEW r \in Row
    PROVE  /\ r.count \in Nat /\ r.multi \in BOOLEAN /\ r.ai \in BOOLEAN /\ r.ever \in BOOLEAN
           /\ r.framing \in SUBSET Outlet
           /\ DOMAIN r = {"count", "multi", "ai", "ever", "framing"}
  BY DEF Row

(* What the invariant says of a committed story.                           *)
LEMMA Committed ==
    ASSUME PipelineInv, NEW c \in Story
    PROVE  /\ row[c] \in Row /\ outlets[c] \in SUBSET Outlet
           /\ row[c].count = Cardinality(outlets[c])
           /\ row[c].multi <=> row[c].count >= MinSources
           /\ row[c].framing # {} => Comparable(row[c].framing, c)
           /\ c \notin late /\ row[c].count >= MinSources /\ row[c].ai => Current(row[c], basis[c], c)
<1>1. row[c] \in Row /\ outlets[c] \in SUBSET Outlet
  BY TypesOfParts DEF PipelineInv
<1>2. row[c].count = Cardinality(outlets[c]) /\ (row[c].multi <=> Corroborated(c))
  BY DEF PipelineInv, CountIsOutlets
<1>3. row[c].framing # {} => Comparable(row[c].framing, c)
  BY DEF PipelineInv, FramingIsReal, Comparable
<1>4. c \notin late /\ Corroborated(c) /\ row[c].ai => Current(row[c], basis[c], c)
  BY DEF PipelineInv, StaleOnlyIfLate, Current
<1> QED
  BY <1>1, <1>2, <1>3, <1>4 DEF Corroborated

LEMMA Blanks ==
    /\ Blank \in Row /\ NotLoaded \in Session /\ Idle \in FeedState /\ NoJob \in JobState
    /\ NoHand \in HandState /\ Idle.at = "idle" /\ (\A c \in Story : Idle.staged[c] = NotLoaded)
<1>1. Blank \in Row
  BY DEF Blank, Row
<1>2. NotLoaded \in Session
  BY <1>1 DEF NotLoaded, Session
<1>3. NoHand \in HandState
  BY <1>1 DEF NoHand, HandState
<1>4. NoJob \in JobState
  BY DEF NoJob, JobState
<1>5. Idle \in FeedState /\ Idle.at = "idle" /\ \A c \in Story : Idle.staged[c] = NotLoaded
  BY <1>2 DEF Idle, FeedState
<1> QED
  BY <1>1, <1>2, <1>3, <1>4, <1>5

LEMMA EnrichedRow ==
    ASSUME NEW r \in Row, NEW l \in Row, NEW k, NEW a, NEW x \in SUBSET Outlet
    PROVE  /\ Enriched(r, l, k, a, x) \in Row
           /\ Enriched(r, l, k, a, x).count = r.count /\ Enriched(r, l, k, a, x).multi = r.multi
           /\ Enriched(r, l, k, a, x).framing =
                  IF Cardinality(k) >= 2 /\ a = "compared" THEN x
                  ELSE IF (Cardinality(k) >= 2 /\ a = "absent") \/ l.framing = {} THEN r.framing
                  ELSE {}
<1> DEFINE f == IF Cardinality(k) >= 2 /\ a = "compared" THEN x
                ELSE IF (Cardinality(k) >= 2 /\ a = "absent") \/ l.framing = {} THEN r.framing
                ELSE {}
<1>1. f \in SUBSET Outlet
  BY RowFields
<1>2. PICK i \in BOOLEAN : i = (r.ai \/ ~l.ai)
  BY RowFields
<1>3. Enriched(r, l, k, a, x) = [r EXCEPT !.ai = i, !.ever = TRUE, !.framing = f]
  BY <1>2 DEF Enriched
<1> HIDE DEF f
<1>4. /\ Enriched(r, l, k, a, x) \in Row /\ Enriched(r, l, k, a, x).framing = f
      /\ Enriched(r, l, k, a, x).count = r.count /\ Enriched(r, l, k, a, x).multi = r.multi
  BY <1>1, <1>2, <1>3 DEF Row
<1> QED
  BY <1>4 DEF f

(* A request describes several outlets of a story that has several.        *)
LEMMA SeveralDescribed ==
    ASSUME NEW k \in SUBSET Outlet, NEW x \in Described(k)
    PROVE  /\ x \in SUBSET Outlet /\ x \subseteq k
           /\ Cardinality(k) >= 2 => Cardinality(x) >= 2
<1>1. /\ x \in SUBSET k
      /\ Cardinality(x) = IF Cardinality(k) <= MaxArticles THEN Cardinality(k) ELSE MaxArticles
  BY DEF Described
<1>2. MaxArticles \in Nat /\ MaxArticles >= 2
  BY PipelineAssumption
<1> QED
  BY <1>1, <1>2

LEMMA FlushedRow ==
    ASSUME NEW l \in Row, NEW w \in Row, NEW r \in Row, NEW o, o.loaded = l, o.object = w
    PROVE  /\ Flush(o, r) \in Row
           /\ Flush(o, r).count = IF w.count = l.count THEN r.count ELSE w.count
           /\ Flush(o, r).multi = IF w.multi = l.multi THEN r.multi ELSE w.multi
           /\ Flush(o, r).ai = IF w.ai = l.ai THEN r.ai ELSE w.ai
           /\ Flush(o, r).ever = IF w.ever = l.ever THEN r.ever ELSE w.ever
           /\ Flush(o, r).framing = IF w.framing = l.framing THEN r.framing ELSE w.framing
<1>1. Flush(o, r) = [k \in {"count", "multi", "ai", "ever", "framing"} |->
                         IF w[k] = l[k] THEN r[k] ELSE w[k]]
  BY RowFields DEF Flush
<1> QED
  BY <1>1 DEF Row

LEMMA JoinedSession ==
    ASSUME NEW o \in Session, NEW s \in Outlet, s \notin o.known
    PROVE  /\ Joined(o, s) \in Session /\ Joined(o, s).loaded = o.loaded
           /\ Joined(o, s).known = o.known \cup {s}
           /\ Joined(o, s).object.count = o.object.count + 1
           /\ Joined(o, s).object.multi <=> o.object.multi \/ o.object.count + 1 >= MinSources
           /\ ~Joined(o, s).object.ai
           /\ Joined(o, s).object.ever = o.object.ever
           /\ Joined(o, s).object.framing = o.object.framing
<1> DEFINE n == o.object.count + 1
           m == o.object.multi \/ n >= MinSources
<1>1. /\ o.object \in Row /\ o.loaded \in Row /\ o.known \in SUBSET Outlet
      /\ o = [loaded |-> o.loaded, object |-> o.object, known |-> o.known]
  BY DEF Session
<1>2. n \in Nat /\ m \in BOOLEAN
  BY <1>1, RowFields
<1>3. PICK w, k : w = [o.object EXCEPT !.count = n, !.multi = m, !.ai = FALSE] /\ k = o.known \cup {s}
  OBVIOUS
<1>4. Joined(o, s) = [o EXCEPT !.known = k, !.object = w]
  BY <1>3 DEF Joined
<1> HIDE DEF n, m
<1>5. /\ w \in Row /\ w.count = n /\ w.multi = m /\ w.ai = FALSE
      /\ w.ever = o.object.ever /\ w.framing = o.object.framing
  BY <1>1, <1>2, <1>3 DEF Row
<1>6. k \in SUBSET Outlet
  BY <1>1, <1>3
<1>7. /\ Joined(o, s) \in Session /\ Joined(o, s).loaded = o.loaded /\ Joined(o, s).known = k
      /\ Joined(o, s).object = w
  BY <1>4, <1>5, <1>6 DEF Session
<1> QED
  BY <1>3, <1>5, <1>7 DEF n, m

-----------------------------------------------------------------------------
(* The invariant, step by step.                                            *)

LEMMA InitPipelineInv == PipelineInit => PipelineInv
<1> SUFFICES ASSUME PipelineInit PROVE PipelineInv
  OBVIOUS
<1>1. PipelineTypeOK
  <2>1. batch \in [BatchId -> BatchState]
    BY DEF PipelineInit, BatchState
  <2>2. crashes \in 0 .. MaxCrashes
    BY PipelineAssumption DEF PipelineInit
  <2>3. basis \in [Story -> BasisState]
    BY DEF PipelineInit, NoAnswer, BasisState
  <2> QED
    BY <2>1, <2>2, <2>3, Blanks, TypesOfParts DEF PipelineInit
<1>2. \A c \in Story : outlets[c] = {} /\ row[c] = Blank /\ ~Loaded(c)
  BY Blanks DEF PipelineInit, Loaded
<1>3. CountIsOutlets /\ FramingIsReal /\ StaleOnlyIfLate
  <2>1. Cardinality({}) = 0 /\ ~(0 >= MinSources)
    BY FS_EmptySet, PipelineAssumption
  <2>2. \A c \in Story : row[c].count = 0 /\ row[c].multi = FALSE /\ row[c].ai = FALSE /\ row[c].framing = {}
    BY <1>2 DEF Blank
  <2>3. CountIsOutlets /\ FramingIsReal
    BY <1>2, <2>1, <2>2 DEF CountIsOutlets, FramingIsReal, Corroborated
  <2>4. StaleOnlyIfLate
    BY <2>2 DEF StaleOnlyIfLate
  <2> QED
    BY <2>3, <2>4
<1>4. SessionsFit
  BY <1>2, Blanks DEF PipelineInit, SessionsFit
<1>5. /\ job.first = {} /\ job.refine = {} /\ job.queue = {} /\ job.at = "idle"
      /\ hand = NoHand /\ \A b \in BatchId : \A c \in Story : batch[b].cover[c] = {}
  BY DEF PipelineInit, NoJob
<1>6. hand.cluster \notin Story
  BY <1>5, PipelineAssumption DEF NoHand
<1> QED
  BY <1>1, <1>3, <1>4, <1>5, <1>6 DEF PipelineInv, RequestsFit, RunFits, RequestsFresh

(* Ingestion works on its session alone until it commits.                  *)
LEMMA FeedMoves ==
    ASSUME PipelineInv, UNCHANGED <<outlets, row, job, batch, hand, late, basis, crashes>>,
           feed' \in FeedState, SessionsFit'
    PROVE  PipelineInv'
<1>1. PipelineTypeOK'
  BY DEF PipelineInv, PipelineTypeOK, FeedState
<1>2. CountIsOutlets' /\ FramingIsReal' /\ StaleOnlyIfLate'
  BY DEF PipelineInv, CountIsOutlets, FramingIsReal, StaleOnlyIfLate, Corroborated
<1>3. RequestsFit' /\ RunFits' /\ RequestsFresh'
  BY DEF PipelineInv, RequestsFit, Comparable, RunFits, Open, RequestsFresh, Due
<1> QED
  BY <1>1, <1>2, <1>3 DEF PipelineInv

LEMMA NothingLoaded ==
    ASSUME NEW f, f = Idle \/ (\E x : f = [Idle EXCEPT !.crossed = x]), feed' = f
    PROVE  SessionsFit'
<1>1. f.at = "idle" /\ \A c \in Story : f.staged[c] = NotLoaded
  BY DEF Idle
<1> QED
  BY <1>1 DEF SessionsFit, Loaded

LEMMA BeginningKeeps ==
    ASSUME PipelineInv, NEW s \in Outlet, BeginSource(s)
    PROVE  PipelineInv'
<1>1. feed \in FeedState /\ feed.at = "idle" /\ feed' = [feed EXCEPT !.at = "ingest", !.source = s]
      /\ UNCHANGED <<outlets, row, job, batch, hand, late, basis, crashes>>
  BY TypesOfParts DEF PipelineInv, BeginSource
<1>2. feed' \in FeedState /\ feed'.at = "ingest" /\ feed'.source = s /\ feed'.staged = feed.staged
  BY <1>1 DEF FeedState
<1>3. \A c \in Story : ~Loaded(c)
  BY <1>1 DEF PipelineInv, SessionsFit
<1>4. SessionsFit'
  BY <1>2, <1>3 DEF SessionsFit, Loaded
<1> QED
  BY <1>1, <1>2, <1>4, FeedMoves

LEMMA FailingKeeps ==
    ASSUME PipelineInv, FailSource \/ LeaveToTimer
    PROVE  PipelineInv'
<1>1. /\ feed' = Idle \/ (\E x : feed' = [Idle EXCEPT !.crossed = x])
      /\ UNCHANGED <<outlets, row, job, batch, hand, late, basis, crashes>>
  BY DEF FailSource, LeaveToTimer
<1>2. feed' \in FeedState
  <2>1. PICK x \in SUBSET Story : x = feed.crossed
    BY TypesOfParts DEF PipelineInv, FeedState
  <2>2. [Idle EXCEPT !.crossed = x] \in FeedState
    BY Blanks DEF FeedState
  <2> QED
    BY <2>1, <2>2, Blanks DEF FailSource, LeaveToTimer
<1>3. SessionsFit'
  BY <1>1, NothingLoaded
<1> QED
  BY <1>1, <1>2, <1>3, FeedMoves

(* A story is put into the session.                                        *)
LEMMA StagingKeeps ==
    ASSUME PipelineInv, feed.at = "ingest", NEW c \in Story, NEW n \in Session, Fits(n, c, feed.source),
           NEW x \in SUBSET Story, feed' = [feed EXCEPT !.staged = [@ EXCEPT ![c] = n], !.crossed = x],
           UNCHANGED <<outlets, row, job, batch, hand, late, basis, crashes>>
    PROVE  PipelineInv'
<1>1. feed \in FeedState /\ feed.staged \in [Story -> Session] /\ feed.source \in Outlet
  BY TypesOfParts DEF PipelineInv, FeedState, SessionsFit
<1>2. PICK g \in [Story -> Session] : g = [feed.staged EXCEPT ![c] = n]
  BY <1>1
<1>3. feed' = [feed EXCEPT !.staged = g, !.crossed = x]
  BY <1>2
<1>4. feed' \in FeedState /\ feed'.at = "ingest" /\ feed'.source = feed.source /\ feed'.staged = g
  BY <1>1, <1>3 DEF FeedState
<1>5. g[c] = n /\ \A d \in Story : d # c => g[d] = feed.staged[d]
  BY <1>1, <1>2
<1>6. \A d \in Story : Loaded(d)' => Fits(g[d], d, feed.source)
  BY <1>4, <1>5 DEF PipelineInv, SessionsFit, Loaded
<1>7. \A d \in Story : Loaded(d)' => Fits(feed.staged[d], d, feed.source)'
  BY <1>4, <1>6 DEF Fits
<1>8. SessionsFit'
  BY <1>1, <1>4, <1>7 DEF SessionsFit
<1> QED
  BY <1>4, <1>8, FeedMoves

LEMMA MatchingKeeps ==
    ASSUME PipelineInv, NEW c \in Story, MatchArticle(c)
    PROVE  PipelineInv'
<1> DEFINE s == feed.source
<1>1. /\ outlets[c] \in SUBSET Outlet /\ row[c] \in Row /\ feed.staged[c] \in Session
      /\ feed.at = "ingest" /\ s \in Outlet /\ feed.crossed \in SUBSET Story
  BY TypesOfParts DEF PipelineInv, FeedState, SessionsFit, MatchArticle
<1>2. PICK o : o = IF Loaded(c) THEN feed.staged[c]
                   ELSE [loaded |-> row[c], object |-> row[c], known |-> outlets[c]]
  OBVIOUS
<1>3. PICK n : n = Joined(o, s)
  OBVIOUS
<1>4. PICK x : x = IF n.object.multi # o.object.multi THEN feed.crossed \cup {c} ELSE feed.crossed
  OBVIOUS
<1>5. /\ feed' = [feed EXCEPT !.staged = [@ EXCEPT ![c] = n], !.crossed = x]
      /\ UNCHANGED <<outlets, row, job, batch, hand, late, basis, crashes>>
  BY <1>2, <1>3, <1>4 DEF MatchArticle
<1>6. x \in SUBSET Story
  BY <1>1, <1>4
<1>7. o \in Session
  BY <1>1, <1>2 DEF Session
<1>8. row[c].count = Cardinality(outlets[c]) /\ (row[c].multi <=> row[c].count >= MinSources)
  BY Committed
<1>9. CASE s \in o.known
  <2>1. n = o
    BY <1>3, <1>9 DEF Joined
  <2>2. CASE Loaded(c)
    BY <1>2, <1>5, <1>6, <1>7, <2>1, <2>2, <1>1, StagingKeeps DEF PipelineInv, SessionsFit
  <2>3. CASE ~Loaded(c)
    <3>1. /\ o.loaded = row[c] /\ o.object = row[c] /\ o.known = outlets[c]
          /\ s \in outlets[c] /\ outlets[c] = outlets[c] \cup {s}
      BY <1>2, <1>9, <2>3
    <3>2. Fits(o, c, s)
      BY <1>8, <3>1 DEF Fits
    <3> QED
      BY <1>1, <1>5, <1>6, <1>7, <2>1, <3>2, StagingKeeps
  <2> QED
    BY <2>2, <2>3
<1>10. CASE s \notin o.known
  <2>1. ~Loaded(c)
    BY <1>2, <1>10 DEF PipelineInv, SessionsFit, Fits
  <2>2. o.loaded = row[c] /\ o.object = row[c] /\ o.known = outlets[c] /\ s \notin outlets[c]
    BY <1>2, <1>10, <2>1
  <2>3. /\ n \in Session /\ n.loaded = row[c] /\ n.known = outlets[c] \cup {s}
        /\ n.object.count = row[c].count + 1
        /\ n.object.multi <=> row[c].multi \/ row[c].count + 1 >= MinSources
        /\ ~n.object.ai /\ n.object.ever = row[c].ever /\ n.object.framing = row[c].framing
    BY <1>1, <1>3, <1>7, <1>10, <2>2, JoinedSession
  <2>4. n.object.count = Cardinality(n.known)
    BY <1>1, <1>8, <2>2, <2>3, OneMoreOutlet
  <2>5. n.object.multi <=> n.object.count >= MinSources
    BY <1>1, <1>8, <2>3, RowFields, PipelineAssumption
  <2>6. Fits(n, c, s)
    BY <2>2, <2>3, <2>4, <2>5 DEF Fits
  <2> QED
    BY <1>1, <1>5, <1>6, <2>3, <2>6, StagingKeeps
<1> QED
  BY <1>9, <1>10

LEMMA StartingKeeps ==
    ASSUME PipelineInv, NEW c \in Story, NewCluster(c)
    PROVE  PipelineInv'
<1> DEFINE s == feed.source
<1>1. /\ outlets[c] = {} /\ feed.staged \in [Story -> Session] /\ feed \in FeedState
      /\ feed.at = "ingest" /\ s \in Outlet /\ feed.crossed \in SUBSET Story
  BY TypesOfParts DEF PipelineInv, FeedState, SessionsFit, NewCluster, Exists
<1>2. PICK w, n : w = [Blank EXCEPT !.count = 1] /\ n = [loaded |-> Blank, object |-> w, known |-> {s}]
  OBVIOUS
<1>3. /\ w \in Row /\ w.count = 1 /\ w.multi = FALSE /\ w.ai = FALSE
      /\ w.framing = Blank.framing /\ w.ever = Blank.ever
  BY <1>2 DEF Blank, Row
<1>4. n \in Session
  BY <1>1, <1>2, <1>3, Blanks DEF Session
<1>5. PICK g : g = [feed.staged EXCEPT ![c] = n]
  OBVIOUS
<1>6. feed' = [feed EXCEPT !.staged = g] /\ UNCHANGED <<outlets, row, job, batch, hand, late, basis, crashes>>
  BY <1>2, <1>5 DEF NewCluster
<1>7. feed' = [feed EXCEPT !.staged = g, !.crossed = feed.crossed]
  BY <1>1, <1>6 DEF FeedState
<1>8. Cardinality({}) = 0 /\ Cardinality({s}) = 1 /\ ~(1 >= MinSources) /\ ~(0 >= MinSources)
  <2>1. Cardinality({s}) = 1
    BY ONLY FS_Singleton
  <2> QED
    BY <2>1, FS_EmptySet, PipelineAssumption
<1>9. row[c].count = 0 /\ row[c].multi = FALSE
  <2>1. row[c] \in Row /\ row[c].count = Cardinality(outlets[c]) /\ (row[c].multi <=> row[c].count >= MinSources)
    BY Committed
  <2>2. row[c].count = 0 /\ ~row[c].multi
    BY <1>1, <1>8, <2>1
  <2> QED
    BY <2>1, <2>2, RowFields
<1>10. Fits(n, c, s)
  <2>1. Blank.count = 0 /\ Blank.multi = FALSE
    BY DEF Blank
  <2> QED
    BY <1>1, <1>2, <1>3, <1>8, <1>9, <2>1 DEF Fits
<1> QED
  BY <1>1, <1>4, <1>5, <1>6, <1>7, <1>10, StagingKeeps

(* What is due for a story that is not written off as late is not joined.  *)
LEMMA DueIsAnswerDue ==
    ASSUME PipelineInv, NEW c \in Story,
           \/ c \in job.first \cup job.refine
           \/ \E b \in BatchId : Due(b) /\ batch[b].cover[c] # {}
           \/ hand.cluster = c
    PROVE  AnswerDue(c) /\ Exists(c)
<1>1. AnswerDue(c)
  BY DEF PipelineInv, RunFits, Due, AnswerDue
<1>2. \A x \in SUBSET Outlet : Comparable(x, c) => Exists(c)
  <2> SUFFICES ASSUME NEW x \in SUBSET Outlet, Comparable(x, c) PROVE Exists(c)
    OBVIOUS
  <2>1. Cardinality(x) \in Nat /\ (Cardinality(x) >= 1 => x # {})
    BY FiniteOutlets
  <2> QED
    BY <2>1 DEF Comparable, Exists
<1>3. /\ job.seen[c] \in SUBSET Outlet
      /\ \A b \in BatchId : batch[b].cover[c] \in SUBSET Outlet
  BY TypesOfParts DEF PipelineInv, JobState, BatchState
<1>4. hand.cluster = c => Exists(c)
  <2>1. hand.cluster = c => hand # NoHand
    BY PipelineAssumption DEF NoHand
  <2> QED
    BY <2>1 DEF PipelineInv, RequestsFit, Exists
<1> QED
  BY <1>1, <1>2, <1>3, <1>4 DEF PipelineInv, RequestsFit

LEMMA CommittingRow ==
    ASSUME PipelineInv, NEW c \in Story, Loaded(c)
    PROVE  LET s == feed.source
               r == Flush(feed.staged[c], row[c])
           IN  /\ s \in Outlet /\ r \in Row
               /\ r.count = Cardinality(outlets[c] \cup {s}) /\ (r.multi <=> r.count >= MinSources)
               /\ r.framing = row[c].framing
               /\ s \in outlets[c] => r.ai = row[c].ai
               /\ s \notin outlets[c] /\ r.ai => row[c].ai /\ ~feed.staged[c].loaded.ai
<1> DEFINE s == feed.source
           o == feed.staged[c]
           r == Flush(o, row[c])
<1>1. Fits(o, c, s) /\ s \in Outlet /\ o \in Session /\ row[c] \in Row
  BY TypesOfParts DEF PipelineInv, SessionsFit, FeedState
<1>2. o.loaded \in Row /\ o.object \in Row
  BY <1>1 DEF Session
<1>3. /\ r \in Row
      /\ r.count = IF o.object.count = o.loaded.count THEN row[c].count ELSE o.object.count
      /\ r.multi = IF o.object.multi = o.loaded.multi THEN row[c].multi ELSE o.object.multi
      /\ r.ai = IF o.object.ai = o.loaded.ai THEN row[c].ai ELSE o.object.ai
      /\ r.framing = IF o.object.framing = o.loaded.framing THEN row[c].framing ELSE o.object.framing
  <2>1. PICK l \in Row, w \in Row, q \in Row : l = o.loaded /\ w = o.object /\ q = row[c]
    BY <1>1, <1>2
  <2>2. PICK x : x = o
    OBVIOUS
  <2>3. x.loaded = l /\ x.object = w
    BY <2>1, <2>2
  <2>4. /\ Flush(x, q) \in Row
        /\ Flush(x, q).count = IF w.count = l.count THEN q.count ELSE w.count
        /\ Flush(x, q).multi = IF w.multi = l.multi THEN q.multi ELSE w.multi
        /\ Flush(x, q).ai = IF w.ai = l.ai THEN q.ai ELSE w.ai
        /\ Flush(x, q).framing = IF w.framing = l.framing THEN q.framing ELSE w.framing
    BY <2>3, FlushedRow
  <2> QED
    BY <2>1, <2>2, <2>4
<1> HIDE DEF r, o, s
<1>4. r.count = o.object.count /\ r.multi = o.object.multi /\ r.framing = row[c].framing
  BY <1>1, <1>3 DEF Fits
<1>5. r.count = Cardinality(outlets[c] \cup {s}) /\ (r.multi <=> r.count >= MinSources)
  BY <1>1, <1>4 DEF Fits
<1>6. s \in outlets[c] => r.ai = row[c].ai
  BY <1>1, <1>3 DEF Fits
<1>7. s \notin outlets[c] /\ r.ai => row[c].ai /\ ~o.loaded.ai
  BY <1>1, <1>2, <1>3, RowFields DEF Fits
<1> QED
  BY <1>1, <1>3, <1>4, <1>5, <1>6, <1>7 DEF r, o, s

LEMMA CommittingKeeps ==
    ASSUME PipelineInv, CommitSource
    PROVE  PipelineInv' /\ \A c \in Story : row'[c].framing = row[c].framing
<1> DEFINE s == feed.source
<1>1. /\ outlets' = [c \in Story |-> IF Loaded(c) THEN outlets[c] \cup {s} ELSE outlets[c]]
      /\ row' = [c \in Story |-> IF Loaded(c) THEN Flush(feed.staged[c], row[c]) ELSE row[c]]
      /\ late' = late \cup {c \in Story :
                     /\ outlets'[c] # outlets[c] /\ Exists(c)
                     /\ AnswerDue(c) \/ (row[c].ai /\ ~feed.staged[c].loaded.ai)}
      /\ feed' = [Idle EXCEPT !.crossed = feed.crossed] /\ UNCHANGED <<job, batch, hand, basis, crashes>>
  BY DEF CommitSource
<1>2. \A c \in Story : Loaded(c) =>
          /\ s \in Outlet /\ row'[c] \in Row
          /\ row'[c].count = Cardinality(outlets[c] \cup {s}) /\ (row'[c].multi <=> row'[c].count >= MinSources)
          /\ row'[c].framing = row[c].framing
          /\ s \in outlets[c] => row'[c].ai = row[c].ai
          /\ s \notin outlets[c] /\ row'[c].ai => row[c].ai /\ ~feed.staged[c].loaded.ai
  BY <1>1, CommittingRow
<1> HIDE DEF s
<1>3. \A c \in Story : /\ Loaded(c) => outlets'[c] = outlets[c] \cup {s}
                       /\ ~Loaded(c) => outlets'[c] = outlets[c] /\ row'[c] = row[c]
                       /\ outlets[c] \subseteq outlets'[c]
  BY <1>1
<1>4. ASSUME NEW c \in Story
      PROVE  /\ row'[c] \in Row /\ outlets'[c] \in SUBSET Outlet
             /\ row'[c].count = Cardinality(outlets'[c]) /\ (row'[c].multi <=> row'[c].count >= MinSources)
             /\ row'[c].framing = row[c].framing
             /\ outlets'[c] = outlets[c] => row'[c].ai = row[c].ai /\ row'[c].count = row[c].count
  BY <1>2, <1>3, Committed
<1>5. ASSUME NEW c \in Story, c \notin late'
      PROVE  c \notin late /\ (outlets'[c] # outlets[c] /\ Exists(c) =>
                                  ~AnswerDue(c) /\ ~row'[c].ai)
  <2>1. c \notin late /\ (outlets'[c] # outlets[c] /\ Exists(c) =>
                             ~AnswerDue(c) /\ ~(row[c].ai /\ ~feed.staged[c].loaded.ai))
    BY <1>1, <1>5
  <2>2. outlets'[c] # outlets[c] => Loaded(c) /\ s \notin outlets[c]
    BY <1>3
  <2> QED
    BY <1>2, <2>1, <2>2
<1>6. PipelineTypeOK'
  <2>1. outlets' \in [Story -> SUBSET Outlet] /\ row' \in [Story -> Row]
    BY <1>1, <1>4
  <2>2. late' \subseteq Story
    BY <1>1, TypesOfParts DEF PipelineInv
  <2>3. feed' \in FeedState
    <3>1. PICK x \in SUBSET Story : x = feed.crossed
      BY TypesOfParts DEF PipelineInv, FeedState
    <3>2. [Idle EXCEPT !.crossed = x] \in FeedState
      BY Blanks DEF FeedState
    <3> QED
      BY <1>1, <3>1, <3>2
  <2> QED
    BY <1>1, <2>1, <2>2, <2>3 DEF PipelineInv, PipelineTypeOK, FeedState
<1>7. CountIsOutlets'
  BY <1>4 DEF CountIsOutlets, Corroborated
<1>8. FramingIsReal'
  BY <1>3, <1>4 DEF PipelineInv, FramingIsReal
<1>9. StaleOnlyIfLate'
  <2> SUFFICES ASSUME NEW c \in Story, c \notin late', row'[c].count >= MinSources, row'[c].ai
               PROVE  /\ basis[c].known = outlets'[c]
                      /\ basis[c].answer = "compared" => row'[c].framing \in Described(outlets'[c])
    BY <1>1 DEF StaleOnlyIfLate, Corroborated, Described
  <2>1. Exists(c)
    <3> SUFFICES ASSUME outlets[c] = {} PROVE FALSE
      BY DEF Exists
    <3>1. CASE outlets'[c] = {}
      <4>1. row'[c].count = Cardinality({})
        BY <1>4, <3>1
      <4>2. Cardinality({}) = 0
        BY FS_EmptySet
      <4> QED
        BY <4>1, <4>2, PipelineAssumption
    <3>2. CASE outlets'[c] # {}
      <4>1. outlets'[c] = {s}
        BY <1>3, <3>2
      <4>2. Cardinality({s}) = 1
        BY ONLY FS_Singleton
      <4> QED
        BY <1>4, <4>1, <4>2, PipelineAssumption, SMTT(60)
    <3> QED
      BY <3>1, <3>2
  <2>2. outlets'[c] = outlets[c]
    BY <1>5, <2>1
  <2> QED
    BY <1>4, <1>5, <2>2, Committed DEF Current
<1>10. SessionsFit'
  BY <1>1, NothingLoaded
<1>11. RequestsFit'
  BY <1>1, <1>3 DEF PipelineInv, RequestsFit, Comparable, PipelineTypeOK
<1>12. RunFits'
  BY <1>1 DEF PipelineInv, RunFits, Open
<1>13. RequestsFresh'
  <2> SUFFICES ASSUME NEW c \in Story, c \notin late'
               PROVE  /\ c \in job.first \cup job.refine => job.seen[c] = outlets'[c]
                      /\ \A b \in BatchId : Due(b) /\ batch[b].cover[c] # {} => batch[b].cover[c] = outlets'[c]
                      /\ hand.cluster = c => hand.seen = outlets'[c]
    BY <1>1 DEF RequestsFresh, Due
  <2>1. AnswerDue(c) /\ Exists(c) => outlets'[c] = outlets[c]
    BY <1>5
  <2> QED
    BY <1>5, <2>1, DueIsAnswerDue DEF PipelineInv, RequestsFresh
<1> QED
  BY <1>4, <1>6, <1>7, <1>8, <1>9, <1>10, <1>11, <1>12, <1>13 DEF PipelineInv

(* A writer of answers leaves counters alone, and what it writes compares  *)
(* outlets of the story: all of them, unless it is late.                   *)
LEMMA RowsWritten ==
    ASSUME PipelineInv, UNCHANGED <<outlets, late>>, feed' = feed \/ feed' = Idle,
           \A c \in Story : /\ row'[c].count = row[c].count /\ row'[c].multi = row[c].multi
                            /\ row'[c].framing # {} => Comparable(row'[c].framing, c)
                            /\ c \notin late /\ row'[c].count >= MinSources /\ row'[c].ai
                                   => Current(row'[c], basis'[c], c)
    PROVE  CountIsOutlets' /\ FramingIsReal' /\ StaleOnlyIfLate' /\ SessionsFit'
<1>1. CountIsOutlets'
  <2>1. \A c \in Story : row[c].count = Cardinality(outlets[c]) /\ (row[c].multi <=> row[c].count >= MinSources)
    BY Committed
  <2> QED
    BY <2>1 DEF CountIsOutlets, Corroborated
<1>2. FramingIsReal'
  BY DEF FramingIsReal, Comparable
<1>3. StaleOnlyIfLate'
  BY DEF StaleOnlyIfLate, Corroborated, Current, Described
<1>4. CASE feed' = Idle
  BY <1>1, <1>2, <1>3, <1>4, NothingLoaded
<1>5. CASE feed' = feed
  <2>1. \A c \in Story : Loaded(c) => feed.at = "ingest" /\ Fits(feed.staged[c], c, feed.source)'
    BY <1>5 DEF PipelineInv, SessionsFit, Fits
  <2>2. \A c \in Story : Loaded(c)' => Loaded(c)
    BY <1>5 DEF Loaded
  <2>3. SessionsFit'
    BY <1>5, <2>1, <2>2 DEF PipelineInv, SessionsFit
  <2> QED
    BY <1>1, <1>2, <1>3, <2>3
<1> QED
  BY <1>4, <1>5

LEMMA RowsStay ==
    ASSUME PipelineInv, UNCHANGED <<outlets, row, late, basis>>, feed' = feed \/ feed' = Idle
    PROVE  CountIsOutlets' /\ FramingIsReal' /\ StaleOnlyIfLate' /\ SessionsFit'
<1>1. \A c \in Story : /\ row'[c].count = row[c].count /\ row'[c].multi = row[c].multi
                       /\ row'[c].framing # {} => Comparable(row'[c].framing, c)
                       /\ c \notin late /\ row'[c].count >= MinSources /\ row'[c].ai
                              => Current(row'[c], basis'[c], c)
  BY Committed
<1> QED
  BY <1>1, RowsWritten

(* Requests that were made are answered or forgotten.                      *)
LEMMA RequestsMove ==
    ASSUME PipelineInv, UNCHANGED <<outlets, late, hand>>,
           \A b \in BatchId : batch'[b].cover = batch[b].cover /\ (Due(b)' => Due(b)),
           \A c \in Story : c \in job'.first \cup job'.refine =>
               c \in job.first \cup job.refine /\ job'.seen[c] = job.seen[c],
           job' \in JobState
    PROVE  RequestsFit' /\ RequestsFresh'
<1>1. job'.first \cup job'.refine \subseteq Story
  BY DEF JobState
<1>2. RequestsFit'
  <2>1. \A c \in job'.first \cup job'.refine : Comparable(job.seen[c], c) /\ job'.seen[c] = job.seen[c]
    BY <1>1 DEF PipelineInv, RequestsFit
  <2> QED
    BY <2>1 DEF PipelineInv, RequestsFit, Comparable
<1>3. RequestsFresh'
  BY DEF PipelineInv, RequestsFresh
<1> QED
  BY <1>2, <1>3

LEMMA NoRunFits ==
    ASSUME job' = NoJob
    PROVE  RunFits' /\ job' \in JobState /\ job'.first = {} /\ job'.refine = {} /\ job'.at = "idle"
<1>1. NoJob.queue = {} /\ NoJob.at = "idle" /\ NoJob.first = {} /\ NoJob.refine = {}
  BY DEF NoJob
<1> QED
  BY <1>1, Blanks DEF RunFits

(* A run ends, or dies.                                                    *)
LEMMA EndingKeeps ==
    ASSUME PipelineInv, job' = NoJob, feed' = feed \/ feed' = Idle,
           UNCHANGED <<outlets, row, hand, late, basis>>, crashes' \in 0 .. MaxCrashes,
           batch' \in [BatchId -> BatchState],
           \A b \in BatchId : /\ batch'[b].cover = batch[b].cover
                              /\ batch'[b].status = "in_progress" => Due(b)
    PROVE  PipelineInv'
<1>1. CountIsOutlets' /\ FramingIsReal' /\ StaleOnlyIfLate' /\ SessionsFit'
  BY RowsStay
<1>2. RunFits' /\ job' \in JobState /\ job'.first = {} /\ job'.refine = {} /\ job'.at = "idle"
  BY NoRunFits
<1>3. \A b \in BatchId : Due(b)' => Due(b)
  BY <1>2 DEF Due
<1>4. RequestsFit' /\ RequestsFresh'
  BY <1>2, <1>3, RequestsMove
<1>5. PipelineTypeOK'
  <2>1. feed' \in FeedState
    BY TypesOfParts, Blanks DEF PipelineInv
  <2> QED
    BY <1>2, <2>1 DEF PipelineInv, PipelineTypeOK, FeedState, JobState, BatchState
<1> QED
  BY <1>1, <1>2, <1>4, <1>5 DEF PipelineInv

LEMMA EndsOfRuns ==
    ASSUME PipelineInv, (\E b \in BatchId : FetchFails(b)) \/ PostFails \/ FinishRun \/ RunDies
    PROVE  PipelineInv'
<1>1. /\ job' = NoJob /\ (feed' = feed \/ feed' = Idle) /\ UNCHANGED <<outlets, row, hand, late, basis, batch>>
      /\ crashes' = crashes \/ (RunDies /\ crashes < MaxCrashes /\ crashes' = crashes + 1)
  BY DEF FetchFails, PostFails, FinishRun, RunDies, EndRun
<1>2. crashes \in 0 .. MaxCrashes /\ batch \in [BatchId -> BatchState]
  BY TypesOfParts DEF PipelineInv
<1>3. crashes' \in 0 .. MaxCrashes
  BY <1>1, <1>2, PipelineAssumption
<1> QED
  BY <1>1, <1>2, <1>3, EndingKeeps DEF Due

LEMMA RecordingKeeps ==
    ASSUME PipelineInv, RecordBatch
    PROVE  PipelineInv'
<1>1. /\ job.at = "record" /\ job.posted \in BatchId /\ batch \in [BatchId -> BatchState]
      /\ batch' = [batch EXCEPT ![job.posted] = [@ EXCEPT !.status = "in_progress"]]
      /\ job' = NoJob /\ (feed' = feed \/ feed' = Idle) /\ UNCHANGED <<outlets, row, hand, late, basis, crashes>>
      /\ crashes \in 0 .. MaxCrashes
  BY TypesOfParts DEF RecordBatch, EndRun, PipelineInv, RunFits
<1>2. PICK p \in BatchId, x \in BatchState : p = job.posted /\ x = batch[p]
  BY <1>1
<1>3. PICK y : y = [x EXCEPT !.status = "in_progress"]
  OBVIOUS
<1>4. y \in BatchState /\ y.cover = x.cover
  BY <1>3 DEF BatchState
<1>5. batch' = [batch EXCEPT ![p] = y]
  BY <1>1, <1>2, <1>3
<1>6. batch' \in [BatchId -> BatchState]
  BY <1>1, <1>4, <1>5
<1>7. \A b \in BatchId : /\ batch'[b].cover = batch[b].cover
                         /\ batch'[b].status = "in_progress" => Due(b)
  BY <1>1, <1>2, <1>4, <1>5 DEF Due
<1> QED
  BY <1>1, <1>6, <1>7, EndingKeeps

(* Steps of a run, and of the API, that write no row.                      *)
LEMMA RunMoves ==
    ASSUME PipelineInv, UNCHANGED <<outlets, row, hand, late, basis>>, crashes' \in 0 .. MaxCrashes,
           feed' = feed \/ feed' = Idle, job' \in JobState, RunFits',
           batch' \in [BatchId -> BatchState],
           \A b \in BatchId : batch'[b].cover = batch[b].cover /\ (Due(b)' => Due(b)),
           \A c \in Story : c \in job'.first \cup job'.refine =>
               c \in job.first \cup job.refine /\ job'.seen[c] = job.seen[c]
    PROVE  PipelineInv'
<1>1. CountIsOutlets' /\ FramingIsReal' /\ StaleOnlyIfLate' /\ SessionsFit'
  BY RowsStay
<1>2. RequestsFit' /\ RequestsFresh'
  BY RequestsMove
<1>3. PipelineTypeOK'
  <2>1. feed' \in FeedState
    BY TypesOfParts, Blanks DEF PipelineInv
  <2> QED
    BY <2>1 DEF PipelineInv, PipelineTypeOK, FeedState, JobState, BatchState
<1> QED
  BY <1>1, <1>2, <1>3 DEF PipelineInv

LEMMA PollerDyingKeeps ==
    ASSUME PipelineInv, PollerDies
    PROVE  PipelineInv'
<1>1. /\ feed' = Idle /\ job' \in {job, NoJob} /\ UNCHANGED <<outlets, row, hand, late, basis, batch>>
      /\ crashes < MaxCrashes /\ crashes' = crashes + 1
      /\ crashes \in 0 .. MaxCrashes /\ batch \in [BatchId -> BatchState] /\ job \in JobState
  BY TypesOfParts DEF PollerDies, PipelineInv
<1>2. crashes' \in 0 .. MaxCrashes
  BY <1>1, PipelineAssumption
<1>3. CASE job' = NoJob
  BY <1>1, <1>2, <1>3, EndingKeeps DEF Due
<1>4. CASE job' = job
  <2>1. RunFits' /\ (\A b \in BatchId : Due(b)' => Due(b))
    BY <1>1, <1>4 DEF PipelineInv, RunFits, Open, Due
  <2> QED
    BY <1>1, <1>2, <1>4, <2>1, RunMoves
<1> QED
  BY <1>1, <1>3, <1>4

LEMMA QueueMoves ==
    ASSUME PipelineInv, NEW b \in BatchId, SkipBatch(b) \/ GiveUpBatch(b)
    PROVE  PipelineInv'
<1>1. PICK more : /\ job' = [job EXCEPT !.queue = job.queue \ {b}, !.settled = job.settled \cup more]
                  /\ more \in {{}, {<<b, "expired">>}}
  <2>1. CASE GiveUpBatch(b)
    BY <2>1 DEF GiveUpBatch
  <2>2. CASE SkipBatch(b)
    <3>1. job' = [job EXCEPT !.queue = job.queue \ {b}] /\ job \in JobState
      BY <2>2, TypesOfParts DEF SkipBatch, PipelineInv
    <3>2. job' = [job EXCEPT !.queue = job.queue \ {b}, !.settled = job.settled \cup {}]
      BY <3>1 DEF JobState
    <3> QED
      BY <3>2
  <2> QED
    BY <2>1, <2>2
<1>2. /\ UNCHANGED <<outlets, row, feed, batch, hand, late, basis, crashes>> /\ job \in JobState
      /\ batch \in [BatchId -> BatchState] /\ crashes \in 0 .. MaxCrashes /\ job.at = "reconcile"
  BY TypesOfParts DEF SkipBatch, GiveUpBatch, PipelineInv
<1>3. /\ job' \in JobState /\ job'.queue = job.queue \ {b} /\ job'.settled = job.settled \cup more
      /\ job'.at = "reconcile" /\ job'.first = job.first /\ job'.refine = job.refine /\ job'.seen = job.seen
      /\ job'.posted = job.posted
  <2>1. PICK q, t : q = job.queue \ {b} /\ t = job.settled \cup more
    OBVIOUS
  <2>2. q \in SUBSET BatchId /\ t \in SUBSET (BatchId \X {"ended", "expired"})
    BY <1>1, <1>2, <2>1 DEF JobState
  <2>3. job' = [job EXCEPT !.queue = q, !.settled = t]
    BY <1>1, <2>1
  <2> QED
    BY <1>2, <2>1, <2>2, <2>3 DEF JobState
<1>4. RunFits'
  BY <1>1, <1>2, <1>3 DEF PipelineInv, RunFits, Open
<1>5. \A e \in BatchId : Due(e)' => Due(e)
  BY <1>2, <1>3 DEF Due
<1> QED
  BY <1>2, <1>3, <1>4, <1>5, RunMoves

LEMMA RunStarts ==
    ASSUME PipelineInv, StartRun
    PROVE  PipelineInv'
<1>1. PICK who : /\ job' = [NoJob EXCEPT !.at = "reconcile", !.by = who, !.queue = Open]
                 /\ who \in {"timer", "poll"}
  BY DEF StartRun
<1>2. /\ UNCHANGED <<outlets, row, batch, hand, late, basis, crashes>> /\ feed \in FeedState
      /\ feed' = feed \/ (feed.at = "idle" /\ feed' = [feed EXCEPT !.at = "enriching"])
  BY TypesOfParts DEF StartRun, PipelineInv
<1>3. /\ job' \in JobState /\ job'.queue = Open /\ job'.settled = {} /\ job'.at = "reconcile"
      /\ job'.first = {} /\ job'.refine = {}
  <2>1. Open \subseteq BatchId
    BY DEF Open
  <2>2. NoJob.settled = {} /\ NoJob.first = {} /\ NoJob.refine = {}
    BY DEF NoJob
  <2> QED
    BY <1>1, <2>1, <2>2, Blanks DEF JobState
<1>4. RunFits'
  BY <1>2, <1>3 DEF RunFits, Open
<1>5. feed' \in FeedState /\ SessionsFit'
  <2>1. CASE feed' = feed
    BY <1>2, <2>1, RowsStay
  <2>2. CASE feed.at = "idle" /\ feed' = [feed EXCEPT !.at = "enriching"]
    <3>1. feed' \in FeedState /\ feed'.at = "enriching" /\ feed'.staged = feed.staged
      BY <1>2, <2>2 DEF FeedState
    <3> QED
      BY <2>2, <3>1 DEF PipelineInv, SessionsFit, Loaded
  <2> QED
    BY <1>2, <2>1, <2>2
<1>6. CountIsOutlets' /\ FramingIsReal' /\ StaleOnlyIfLate'
  BY <1>2 DEF PipelineInv, CountIsOutlets, FramingIsReal, StaleOnlyIfLate, Corroborated
<1>7. RequestsFit' /\ RequestsFresh'
  BY <1>2, <1>3, RequestsMove DEF Due
<1>8. PipelineTypeOK'
  BY <1>2, <1>3, <1>5 DEF PipelineInv, PipelineTypeOK, FeedState, JobState
<1> QED
  BY <1>4, <1>5, <1>6, <1>7, <1>8 DEF PipelineInv

LEMMA ApiMoves ==
    ASSUME PipelineInv, NEW b \in BatchId, BatchEnds(b) \/ BatchIsLost(b)
    PROVE  PipelineInv'
<1>1. /\ UNCHANGED <<outlets, row, feed, job, hand, late, basis, crashes>> /\ job \in JobState
      /\ batch \in [BatchId -> BatchState] /\ crashes \in 0 .. MaxCrashes
  BY TypesOfParts DEF BatchEnds, BatchIsLost, PipelineInv
<1>2. PICK x \in BatchState : x = batch[b]
  BY <1>1
<1>2a. PICK y : /\ y = [x EXCEPT !.api = "ended"] \/ y = [x EXCEPT !.api = "lost"]
               /\ batch' = [batch EXCEPT ![b] = y]
  BY <1>2 DEF BatchEnds, BatchIsLost
<1>3. y \in BatchState /\ y.cover = x.cover /\ y.status = x.status
  BY <1>2a DEF BatchState
<1>4. /\ batch' \in [BatchId -> BatchState]
      /\ \A e \in BatchId : batch'[e].cover = batch[e].cover /\ batch'[e].status = batch[e].status
  BY <1>1, <1>2, <1>2a, <1>3
<1>5. RunFits' /\ (\A e \in BatchId : Due(e)' => Due(e))
  <2>1. Open' = Open
    BY <1>4 DEF Open
  <2> QED
    BY <1>1, <1>4, <2>1 DEF PipelineInv, RunFits, Due
<1> QED
  BY <1>1, <1>4, <1>5, RunMoves

-----------------------------------------------------------------------------
(* The writers.  Each writes comparisons of outlets that the story has.    *)

NothingBlanked ==
    \A c \in Story : row[c].framing # {} /\ row'[c].framing = {} => basis'[c].answer = "empty"

\* What an answer may leave in the row of c, and with which basis.
Written(r, q, c) ==
    /\ r.count = row[c].count /\ r.multi = row[c].multi
    /\ r.framing # {} => Comparable(r.framing, c)
    /\ row[c].framing # {} /\ r.framing = {} => q.answer = "empty"
    /\ c \notin late /\ r.count >= MinSources /\ r.ai => Current(r, q, c)

LEMMA LeftAlone ==
    ASSUME PipelineInv, NEW c \in Story
    PROVE  Written(row[c], basis[c], c)
  BY Committed DEF Written

LEMMA WritingKeeps ==
    ASSUME PipelineInv, UNCHANGED <<outlets, feed, late, crashes>>, row' \in [Story -> Row],
           basis' \in [Story -> BasisState], \A c \in Story : Written(row'[c], basis'[c], c),
           job' \in JobState, batch' \in [BatchId -> BatchState], hand' \in HandState,
           RequestsFit', RequestsFresh', RunFits'
    PROVE  PipelineInv' /\ NothingBlanked
<1>1. CountIsOutlets' /\ FramingIsReal' /\ StaleOnlyIfLate' /\ SessionsFit'
  BY RowsWritten DEF Written
<1>2. PipelineTypeOK'
  BY DEF PipelineInv, PipelineTypeOK, FeedState, JobState, BatchState, HandState, BasisState
<1>3. NothingBlanked
  BY DEF NothingBlanked, Written
<1> QED
  BY <1>1, <1>2, <1>3 DEF PipelineInv

(* An answer to a request made with the outlets t, by a writer that loaded *)
(* the row as l and knows of the outlets k.                                *)
LEMMA AnswerWritten ==
    ASSUME PipelineInv, NEW c \in Story, NEW l \in Row, NEW k \in SUBSET Outlet, NEW t \in SUBSET Outlet,
           NEW a \in Answer, NEW x \in Described(t), t \subseteq k, t \subseteq outlets[c],
           c \notin late => t = outlets[c], Cardinality(k) >= 2 => Cardinality(t) >= 2,
           l.framing # {} => Cardinality(k) >= 2
    PROVE  /\ Enriched(row[c], l, k, a, x) \in Row
           /\ [answer |-> a, known |-> t] \in BasisState
           /\ Written(Enriched(row[c], l, k, a, x), [answer |-> a, known |-> t], c)
<1>1. PICK r \in Row : r = row[c]
  BY Committed
<1>2. PICK z : z = Enriched(r, l, k, a, x)
  OBVIOUS
<1>3. PICK q : q = [answer |-> a, known |-> t]
  OBVIOUS
<1>4. q \in BasisState /\ q.answer = a /\ q.known = t
  BY <1>3 DEF BasisState
<1>5. x \in SUBSET Outlet /\ x \subseteq t /\ (Cardinality(t) >= 2 => Cardinality(x) >= 2)
  BY SeveralDescribed
<1>6. /\ z \in Row /\ z.count = r.count /\ z.multi = r.multi
      /\ z.framing = IF Cardinality(k) >= 2 /\ a = "compared" THEN x
                     ELSE IF (Cardinality(k) >= 2 /\ a = "absent") \/ l.framing = {} THEN r.framing
                     ELSE {}
  BY <1>2, <1>5, EnrichedRow
<1>7. /\ r.framing # {} => Comparable(r.framing, c)
      /\ r.count = Cardinality(outlets[c])
  BY <1>1, Committed
<1>8. z.framing # {} => Comparable(z.framing, c)
  BY <1>5, <1>6, <1>7 DEF Comparable
<1>9. r.framing # {} /\ z.framing = {} => a = "empty"
  <2>1. Cardinality(x) >= 2 => x # {}
    BY <1>5, FiniteOutlets
  <2> QED
    BY <1>5, <1>6, <2>1 DEF Answer
<1>10. ASSUME c \notin late, z.count >= MinSources, a = "compared"
       PROVE  z.framing \in Described(outlets[c])
  <2>1. t = outlets[c] /\ Cardinality(t) >= 2
    BY <1>6, <1>7, <1>10, FiniteOutlets, PipelineAssumption
  <2>2. Cardinality(k) >= Cardinality(t) /\ Cardinality(k) \in Nat /\ Cardinality(t) \in Nat
    BY FiniteOutlets, FS_Subset
  <2> QED
    BY <1>6, <1>10, <2>1, <2>2
<1>11. Written(z, q, c)
  BY <1>1, <1>4, <1>6, <1>8, <1>9, <1>10 DEF Written, Current
<1> QED
  BY <1>1, <1>2, <1>3, <1>4, <1>6, <1>11

\* What a step that answers at most one request does to the rows.
RowWritten ==
    /\ row' \in [Story -> Row] /\ basis' \in [Story -> BasisState]
    /\ \A c \in Story : Written(row'[c], basis'[c], c)

LEMMA NoneWritten ==
    ASSUME PipelineInv, UNCHANGED <<row, basis>>
    PROVE  RowWritten
  BY LeftAlone, TypesOfParts DEF PipelineInv, RowWritten

LEMMA OneWritten ==
    ASSUME PipelineInv, NEW c \in Story, NEW l \in Row, NEW t \in SUBSET Outlet, WriteAnswer(c, l, t),
           t \subseteq outlets[c], c \notin late => t = outlets[c], l.framing # {} => Cardinality(t) >= 2
    PROVE  RowWritten
<1>1. PICK a \in Answer, x \in Described(t) :
          /\ row' = [row EXCEPT ![c] = Enriched(row[c], l, t, a, x)]
          /\ basis' = [basis EXCEPT ![c] = [answer |-> a, known |-> t]]
  BY DEF WriteAnswer
<1>2. row \in [Story -> Row] /\ basis \in [Story -> BasisState]
  BY TypesOfParts DEF PipelineInv
<1>3. PICK z, q : z = Enriched(row[c], l, t, a, x) /\ q = [answer |-> a, known |-> t]
  OBVIOUS
<1>4. z \in Row /\ q \in BasisState /\ Written(z, q, c)
  BY <1>3, AnswerWritten
<1>5. /\ row' = [row EXCEPT ![c] = z] /\ basis' = [basis EXCEPT ![c] = q]
  BY <1>1, <1>3
<1>6. \A d \in Story : Written(row[d], basis[d], d)
  BY LeftAlone
<1>7. row' \in [Story -> Row] /\ basis' \in [Story -> BasisState]
  BY <1>2, <1>4, <1>5
<1>8. row'[c] = z /\ basis'[c] = q /\ \A d \in Story : d # c => row'[d] = row[d] /\ basis'[d] = basis[d]
  BY <1>2, <1>5
<1> QED
  BY <1>4, <1>6, <1>7, <1>8 DEF RowWritten

LEMMA SettledBatches ==
    ASSUME batch \in [BatchId -> BatchState]
    PROVE  /\ Settle(batch) \in [BatchId -> BatchState]
           /\ \A b \in BatchId :
                  /\ Settle(batch)[b].cover = batch[b].cover
                  /\ Settle(batch)[b].status = "in_progress" <=>
                         /\ batch[b].status = "in_progress"
                         /\ \A x \in {"ended", "expired"} : <<b, x>> \notin job.settled
<1>1. ASSUME NEW b \in BatchId
      PROVE  /\ Settle(batch)[b] \in BatchState
             /\ Settle(batch)[b].cover = batch[b].cover
             /\ Settle(batch)[b].status = "in_progress" <=>
                    /\ batch[b].status = "in_progress"
                    /\ \A x \in {"ended", "expired"} : <<b, x>> \notin job.settled
  <2>1. PICK y \in BatchState : y = batch[b]
    OBVIOUS
  <2>2. PICK z : z = IF <<b, "ended">> \in job.settled THEN "ended"
                     ELSE IF <<b, "expired">> \in job.settled THEN "expired" ELSE y.status
    OBVIOUS
  <2>3. Settle(batch)[b] = [y EXCEPT !.status = z]
    BY <2>1, <2>2 DEF Settle
  <2>4. z \in {"none", "in_progress", "ended", "expired"}
    BY <2>2 DEF BatchState
  <2>5. /\ [y EXCEPT !.status = z] \in BatchState
        /\ [y EXCEPT !.status = z].cover = y.cover /\ [y EXCEPT !.status = z].status = z
    BY <2>4 DEF BatchState
  <2>6. z = "in_progress" <=> /\ y.status = "in_progress"
                              /\ \A x \in {"ended", "expired"} : <<b, x>> \notin job.settled
    BY <2>2
  <2> QED
    BY <2>1, <2>3, <2>5, <2>6
<1>2. Settle(batch) = [b \in BatchId |-> Settle(batch)[b]]
  BY DEF Settle
<1> QED
  BY <1>1, <1>2

LEMMA ApplyingKeeps ==
    ASSUME PipelineInv, NEW b \in BatchId, NEW ok \in SUBSET Story, ApplyResults(b, ok)
    PROVE  PipelineInv' /\ NothingBlanked
<1>1. /\ job.at = "reconcile" /\ b \in job.queue /\ UNCHANGED <<outlets, feed, hand, late, crashes>>
      /\ \A c \in ok : batch[b].cover[c] # {}
      /\ batch' = [Settle(batch) EXCEPT ![b].applied = IF @ < 2 THEN @ + 1 ELSE @]
      /\ job' = [job EXCEPT !.queue = job.queue \ {b}, !.settled = {<<b, "ended">>}]
  BY DEF ApplyResults
<1>1a. PICK answer \in [ok -> Answer], described \in [ok -> SUBSET Outlet] :
           /\ \A c \in ok : described[c] \in Described(batch[b].cover[c])
           /\ row' = [c \in Story |-> IF c \in ok
                  THEN Enriched(row[c], row[c], outlets[c], answer[c], described[c]) ELSE row[c]]
           /\ basis' = [c \in Story |-> IF c \in ok
                  THEN [answer |-> answer[c], known |-> batch[b].cover[c]] ELSE basis[c]]
  BY DEF ApplyResults
<1>2. /\ job \in JobState /\ batch \in [BatchId -> BatchState] /\ hand \in HandState /\ Due(b)
      /\ batch[b].cover \in [Story -> SUBSET Outlet] /\ basis \in [Story -> BasisState]
  BY <1>1, TypesOfParts DEF PipelineInv, RunFits, Due, Open, BatchState
<1>3. ASSUME NEW c \in Story
      PROVE  row'[c] \in Row /\ basis'[c] \in BasisState /\ Written(row'[c], basis'[c], c)
  <2>1. CASE c \in ok
    <3>1. PICK t \in SUBSET Outlet, k \in SUBSET Outlet, l \in Row :
              t = batch[b].cover[c] /\ k = outlets[c] /\ l = row[c]
      BY <1>2, Committed
    <3>2. PICK a \in Answer, x \in Described(t) : a = answer[c] /\ x = described[c]
      BY <1>1a, <2>1, <3>1
    <3>3. Comparable(t, c) /\ t \subseteq k /\ (c \notin late => t = k)
      BY <1>1, <1>2, <2>1, <3>1 DEF PipelineInv, RequestsFit, RequestsFresh, Comparable
    <3>4. Cardinality(t) >= 2 /\ Cardinality(k) >= 2
      <4>1. Cardinality(t) >= 2 /\ Cardinality(t) \in Nat /\ Cardinality(k) \in Nat
            /\ Cardinality(t) <= Cardinality(k)
        BY <3>3, FiniteOutlets, FS_Subset DEF Comparable
      <4> QED
        BY <4>1
    <3>5. row'[c] = Enriched(l, l, k, a, x) /\ basis'[c] = [answer |-> a, known |-> t]
      BY <1>1a, <2>1, <3>1, <3>2
    <3> QED
      BY <3>1, <3>3, <3>4, <3>5, AnswerWritten
  <2>2. CASE c \notin ok
    BY <1>1a, <1>2, <2>2, LeftAlone, Committed
  <2> QED
    BY <2>1, <2>2
<1>4. row' \in [Story -> Row] /\ basis' \in [Story -> BasisState]
  BY <1>1a, <1>3
<1>5. /\ job' \in JobState /\ job'.queue = job.queue \ {b} /\ job'.settled = {<<b, "ended">>}
      /\ job'.at = "reconcile" /\ job'.first = job.first /\ job'.refine = job.refine /\ job'.seen = job.seen
  <2>1. PICK q, t : q = job.queue \ {b} /\ t = {<<b, "ended">>}
    OBVIOUS
  <2>2. q \in SUBSET BatchId /\ t \in SUBSET (BatchId \X {"ended", "expired"})
    BY <1>2, <2>1 DEF JobState
  <2>3. job' = [job EXCEPT !.queue = q, !.settled = t]
    BY <1>1, <2>1
  <2> QED
    BY <1>1, <1>2, <2>1, <2>2, <2>3 DEF JobState
<1>6. /\ batch' \in [BatchId -> BatchState]
      /\ \A e \in BatchId :
             /\ batch'[e].cover = batch[e].cover
             /\ batch'[e].status = "in_progress" <=>
                    /\ batch[e].status = "in_progress"
                    /\ \A x \in {"ended", "expired"} : <<e, x>> \notin job.settled
  <2>1. PICK bs \in [BatchId -> BatchState] : bs = Settle(batch)
    BY <1>2, SettledBatches
  <2>2. PICK y \in BatchState : y = bs[b]
    BY <2>1
  <2>3. PICK n \in 0 .. 2 : n = IF y.applied < 2 THEN y.applied + 1 ELSE y.applied
    BY DEF BatchState
  <2>4. PICK z : z = [y EXCEPT !.applied = n]
    OBVIOUS
  <2>5. batch' = [bs EXCEPT ![b] = z] /\ z \in BatchState /\ z.cover = y.cover /\ z.status = y.status
    <3>1. batch' = [bs EXCEPT ![b].applied = n]
      BY <1>1, <2>1, <2>2, <2>3
    <3>2. [bs EXCEPT ![b].applied = n] = [bs EXCEPT ![b] = z]
      BY <2>2, <2>4
    <3> QED
      BY <2>4, <3>1, <3>2 DEF BatchState
  <2>6. /\ batch' \in [BatchId -> BatchState]
        /\ \A e \in BatchId : batch'[e].cover = bs[e].cover /\ batch'[e].status = bs[e].status
    BY <2>1, <2>2, <2>5
  <2> QED
    BY <1>2, <2>1, <2>6, SettledBatches
<1>7. RunFits'
  BY <1>1, <1>5, <1>6 DEF PipelineInv, RunFits, Open
<1>8. RequestsFit' /\ RequestsFresh'
  <2>1. \A e \in BatchId : Due(e)' => Due(e)
    BY <1>5, <1>6 DEF Due
  <2> QED
    BY <1>1, <1>5, <1>6, <2>1, RequestsMove
<1> QED
  BY <1>1, <1>2, <1>3, <1>4, <1>5, <1>6, <1>7, <1>8, WritingKeeps

LEMMA SelectingKeeps ==
    ASSUME PipelineInv, Select
    PROVE  PipelineInv' /\ NothingBlanked
<1> DEFINE first == {c \in Chosen : ~row[c].ever}
           refine == {c \in Chosen : row[c].ever}
           seen == [c \in Story |-> IF c \in Chosen THEN outlets[c] ELSE {}]
<1>1. /\ job.at = "reconcile" /\ job.queue = {} /\ UNCHANGED <<outlets, row, feed, hand, late, basis, crashes>>
      /\ batch' = Settle(batch)
      /\ job' = [job EXCEPT !.at = "sync", !.settled = {}, !.first = first, !.refine = refine, !.seen = seen]
  BY DEF Select
<1>2. /\ job \in JobState /\ batch \in [BatchId -> BatchState] /\ hand \in HandState
      /\ row \in [Story -> Row] /\ outlets \in [Story -> SUBSET Outlet]
  BY TypesOfParts DEF PipelineInv
<1>3. Chosen \subseteq Story /\ \A c \in Chosen : Comparable(outlets[c], c)
  <2>1. \A c \in Chosen : c \in Story /\ row[c].count >= MinSources
    BY DEF Chosen, Wanted, Corroborated
  <2>2. \A c \in Story : Cardinality(outlets[c]) = row[c].count /\ row[c].count \in Nat
    BY Committed, RowFields
  <2>3. MinSources \in Nat /\ MinSources >= 2
    BY PipelineAssumption
  <2> QED
    BY <2>1, <2>2, <2>3 DEF Comparable
<1>4. /\ first \in SUBSET Story /\ refine \in SUBSET Story /\ seen \in [Story -> SUBSET Outlet]
      /\ \A c \in first \cup refine : c \in Chosen
      /\ \A c \in Chosen : seen[c] = outlets[c]
  BY <1>2, <1>3
<1> HIDE DEF first, refine, seen
<1>5. /\ job' \in JobState /\ job'.at = "sync" /\ job'.queue = {} /\ job'.settled = {}
      /\ job'.first = first /\ job'.refine = refine /\ job'.seen = seen
  BY <1>1, <1>2, <1>4 DEF JobState
<1>6. /\ batch' \in [BatchId -> BatchState]
      /\ \A b \in BatchId : /\ batch'[b].cover = batch[b].cover
                            /\ batch'[b].status = "in_progress" => batch[b].status = "in_progress"
  BY <1>1, <1>2, SettledBatches
<1>7. RunFits'
  BY <1>5 DEF RunFits
<1>8. RequestsFit'
  BY <1>1, <1>3, <1>4, <1>5, <1>6 DEF PipelineInv, RequestsFit, Comparable
<1>9. RequestsFresh'
  <2>1. \A b \in BatchId : Due(b)' => Due(b)
    BY <1>5, <1>6 DEF Due
  <2> QED
    BY <1>1, <1>4, <1>5, <1>6, <2>1 DEF PipelineInv, RequestsFresh
<1>10. RowWritten
  BY <1>1, NoneWritten
<1> QED
  BY <1>1, <1>2, <1>5, <1>6, <1>7, <1>8, <1>9, <1>10, WritingKeeps DEF RowWritten

LEMMA PassingKeeps ==
    ASSUME PipelineInv, NEW c \in Story, NEW ok \in BOOLEAN, SyncPass(c, ok)
    PROVE  PipelineInv' /\ NothingBlanked
<1>1. /\ job.at = "sync" /\ c \in job.first /\ UNCHANGED <<outlets, feed, batch, hand, late, crashes>>
      /\ WriteAnswer(c, Blank, job.seen[c]) \/ UNCHANGED <<row, basis>>
      /\ job' = [job EXCEPT !.first = job.first \ {c}]
  BY DEF SyncPass
<1>2. /\ job \in JobState /\ batch \in [BatchId -> BatchState] /\ hand \in HandState
      /\ job.first \in SUBSET Story /\ job.seen \in [Story -> SUBSET Outlet]
  BY TypesOfParts DEF PipelineInv, JobState
<1>3. PICK t \in SUBSET Outlet : t = job.seen[c]
  BY <1>2
<1>4. Comparable(t, c) /\ (c \notin late => t = outlets[c])
  BY <1>1, <1>3 DEF PipelineInv, RequestsFit, RequestsFresh
<1>5. Blank \in Row /\ Blank.framing = {}
  BY Blanks DEF Blank
<1>6. RowWritten
  BY <1>1, <1>3, <1>4, <1>5, OneWritten, NoneWritten DEF Comparable
<1>7. /\ job' \in JobState /\ job'.queue = job.queue /\ job'.settled = job.settled
      /\ job'.at = "sync" /\ job'.first = job.first \ {c} /\ job'.refine = job.refine /\ job'.seen = job.seen
  <2>1. PICK q \in SUBSET Story : q = job.first \ {c}
    BY <1>2
  <2>2. job' = [job EXCEPT !.first = q]
    BY <1>1, <2>1
  <2> QED
    BY <1>1, <1>2, <2>1, <2>2 DEF JobState
<1>8. RunFits'
  BY <1>1, <1>7 DEF PipelineInv, RunFits, Open
<1>9. RequestsFit' /\ RequestsFresh'
  <2>1. \A b \in BatchId : Due(b)' => Due(b)
    BY <1>1, <1>7 DEF Due
  <2> QED
    BY <1>1, <1>7, <2>1, RequestsMove
<1> QED
  BY <1>1, <1>2, <1>6, <1>7, <1>8, <1>9, WritingKeeps DEF RowWritten

LEMMA PostingKeeps ==
    ASSUME PipelineInv, NEW b \in BatchId, PostBatch(b)
    PROVE  PipelineInv' /\ NothingBlanked
<1> DEFINE cover == [c \in Story |-> IF c \in job.refine THEN job.seen[c] ELSE {}]
           new == [api |-> "running", status |-> "none", applied |-> 0, cover |-> cover]
<1>1. /\ job.at = "sync" /\ job.first = {} /\ batch[b].status # "in_progress"
      /\ batch' = [batch EXCEPT ![b] = new] /\ job' = [job EXCEPT !.at = "record", !.posted = b]
      /\ UNCHANGED <<outlets, row, feed, hand, late, basis, crashes>>
  BY DEF PostBatch
<1>2. /\ job \in JobState /\ batch \in [BatchId -> BatchState] /\ hand \in HandState
      /\ row \in [Story -> Row] /\ job.seen \in [Story -> SUBSET Outlet]
  BY TypesOfParts DEF PipelineInv, JobState
<1>3. new \in BatchState /\ new.cover = cover /\ new.status = "none"
  BY <1>2 DEF BatchState
<1>4. \A c \in Story : cover[c] # {} => c \in job.refine /\ cover[c] = job.seen[c]
  OBVIOUS
<1> HIDE DEF cover, new
<1>5. /\ batch' \in [BatchId -> BatchState] /\ batch'[b] = new
      /\ \A e \in BatchId : e # b => batch'[e] = batch[e]
  BY <1>1, <1>2, <1>3
<1>6. /\ job' \in JobState /\ job'.queue = job.queue /\ job'.settled = job.settled /\ job'.posted = b
      /\ job'.at = "record" /\ job'.first = job.first /\ job'.refine = job.refine /\ job'.seen = job.seen
  BY <1>1, <1>2 DEF JobState
<1>7. RunFits'
  <2>1. \A e \in job.queue : e \in BatchId /\ e # b /\ e \in Open'
    BY <1>1, <1>5 DEF PipelineInv, RunFits, Open
  <2>2. \A c \in Story : batch'[b].cover[c] # {} => c \in job.refine
    BY <1>3, <1>4, <1>5
  <2> QED
    BY <1>6, <2>1, <2>2 DEF PipelineInv, RunFits
<1>8. RequestsFit'
  <2>1. \A c \in Story : new.cover[c] # {} => Comparable(new.cover[c], c)
    BY <1>3, <1>4 DEF PipelineInv, RequestsFit
  <2>2. \A e \in BatchId : \A c \in Story : batch'[e].cover[c] # {} => Comparable(batch'[e].cover[c], c)
    BY <1>5, <2>1 DEF PipelineInv, RequestsFit
  <2> QED
    BY <1>1, <1>6, <2>2 DEF PipelineInv, RequestsFit, Comparable
<1>9. RequestsFresh'
  <2>1. \A c \in Story \ late : new.cover[c] # {} => new.cover[c] = outlets[c]
    BY <1>3, <1>4 DEF PipelineInv, RequestsFresh
  <2>2. \A e \in BatchId : Due(e)' /\ e # b => Due(e)
    BY <1>5, <1>6 DEF Due
  <2> QED
    BY <1>1, <1>5, <1>6, <2>1, <2>2 DEF PipelineInv, RequestsFresh
<1>10. RowWritten
  BY <1>1, NoneWritten
<1> QED
  BY <1>1, <1>2, <1>5, <1>6, <1>7, <1>8, <1>9, <1>10, WritingKeeps DEF RowWritten

LEMMA HandMoves ==
    ASSUME PipelineInv, UNCHANGED <<outlets, feed, job, batch, late, crashes>>, RowWritten, hand' \in HandState,
           hand' # NoHand =>
               /\ hand'.cluster \in Story /\ hand'.seen # {} /\ hand'.seen = outlets[hand'.cluster]
               /\ hand'.loaded.framing # {} => Cardinality(hand'.seen) >= 2
    PROVE  PipelineInv' /\ NothingBlanked
<1>1. job \in JobState /\ batch \in [BatchId -> BatchState]
  BY TypesOfParts DEF PipelineInv
<1>2. \A c \in Story : hand'.cluster = c => hand' # NoHand
  BY PipelineAssumption DEF NoHand
<1>3. RequestsFit' /\ RunFits'
  BY DEF PipelineInv, RequestsFit, RunFits, Open, Comparable
<1>4. RequestsFresh'
  BY <1>2 DEF PipelineInv, RequestsFresh, Due
<1> QED
  BY <1>1, <1>3, <1>4, WritingKeeps DEF RowWritten

LEMMA AskingKeeps ==
    ASSUME PipelineInv, NEW c \in Story, Reenrich(c)
    PROVE  PipelineInv' /\ NothingBlanked
<1>1. /\ Exists(c) /\ hand' = [cluster |-> c, seen |-> outlets[c], loaded |-> row[c]]
      /\ UNCHANGED <<outlets, row, feed, job, batch, late, basis, crashes>> /\ row \in [Story -> Row]
      /\ row[c] \in Row /\ outlets[c] \in SUBSET Outlet
  BY TypesOfParts DEF Reenrich, PipelineInv
<1>2. hand' \in HandState
  BY <1>1 DEF HandState
<1>3. row[c].framing # {} => Cardinality(outlets[c]) >= 2
  <2> SUFFICES ASSUME row[c].framing # {} PROVE Cardinality(outlets[c]) >= 2
    OBVIOUS
  <2>1. PICK x \in SUBSET Outlet : x = row[c].framing
    BY <1>1, RowFields
  <2>2. Cardinality(x) >= 2 /\ x \subseteq outlets[c]
    BY <2>1, Committed DEF Comparable
  <2>3. Cardinality(x) <= Cardinality(outlets[c]) /\ Cardinality(x) \in Nat /\ Cardinality(outlets[c]) \in Nat
    BY <1>1, <2>2, FiniteOutlets, FS_Subset
  <2> QED
    BY <2>2, <2>3
<1>4. RowWritten
  BY <1>1, NoneWritten
<1> QED
  BY <1>1, <1>2, <1>3, <1>4, HandMoves DEF Exists

LEMMA AnswerByHand ==
    ASSUME PipelineInv, HandAnswered
    PROVE  PipelineInv' /\ NothingBlanked
<1>1. PICK c \in Story, t \in SUBSET Outlet, l \in Row : c = hand.cluster /\ t = hand.seen /\ l = hand.loaded
  BY TypesOfParts DEF HandAnswered, PipelineInv, RequestsFit, HandState
<1>2. WriteAnswer(c, l, t) /\ hand' = NoHand /\ UNCHANGED <<outlets, feed, job, batch, late, crashes>>
  BY <1>1 DEF HandAnswered
<1>3. /\ t \subseteq outlets[c] /\ (l.framing # {} => Cardinality(t) >= 2)
      /\ c \notin late => t = outlets[c]
  BY <1>1 DEF HandAnswered, PipelineInv, RequestsFit, RequestsFresh
<1>4. RowWritten
  BY <1>2, <1>3, OneWritten
<1> QED
  BY <1>2, <1>4, Blanks, HandMoves

LEMMA HandFailing ==
    ASSUME PipelineInv, HandFails
    PROVE  PipelineInv'
<1>1. RowWritten
  BY NoneWritten DEF HandFails
<1> QED
  BY <1>1, Blanks, HandMoves DEF HandFails

-----------------------------------------------------------------------------
(* The results.                                                            *)

LEMMA IngestKeeps ==
    ASSUME PipelineInv, Ingest
    PROVE  PipelineInv' /\ NothingBlanked
<1>1. ASSUME NEW s \in Outlet, BeginSource(s) PROVE PipelineInv' /\ NothingBlanked
  BY <1>1, BeginningKeeps DEF BeginSource, NothingBlanked
<1>2. ASSUME NEW c \in Story, MatchArticle(c) PROVE PipelineInv' /\ NothingBlanked
  BY <1>2, MatchingKeeps DEF MatchArticle, NothingBlanked
<1>3. ASSUME NEW c \in Story, NewCluster(c) PROVE PipelineInv' /\ NothingBlanked
  BY <1>3, StartingKeeps DEF NewCluster, NothingBlanked
<1>4. CASE CommitSource
  BY <1>4, CommittingKeeps DEF NothingBlanked
<1>5. CASE FailSource
  BY <1>5, FailingKeeps DEF FailSource, NothingBlanked
<1> QED
  BY <1>1, <1>2, <1>3, <1>4, <1>5 DEF Ingest

LEMMA RunStepKeeps ==
    ASSUME PipelineInv, RunStep
    PROVE  PipelineInv' /\ NothingBlanked
<1>1. ASSUME NEW b \in BatchId, SkipBatch(b) \/ GiveUpBatch(b) PROVE PipelineInv' /\ NothingBlanked
  BY <1>1, QueueMoves DEF SkipBatch, GiveUpBatch, NothingBlanked
<1>2. ASSUME NEW b \in BatchId, FetchFails(b) PROVE PipelineInv' /\ NothingBlanked
  BY <1>2, EndsOfRuns DEF FetchFails, NothingBlanked
<1>3. ASSUME NEW b \in BatchId, NEW ok \in SUBSET Story, ApplyResults(b, ok)
      PROVE  PipelineInv' /\ NothingBlanked
  BY <1>3, ApplyingKeeps DEF NothingBlanked
<1>4. CASE Select
  BY <1>4, SelectingKeeps DEF NothingBlanked
<1>5. ASSUME NEW c \in Story, NEW ok \in BOOLEAN, SyncPass(c, ok) PROVE PipelineInv' /\ NothingBlanked
  BY <1>5, PassingKeeps DEF NothingBlanked
<1>6. ASSUME NEW b \in BatchId, PostBatch(b) PROVE PipelineInv' /\ NothingBlanked
  BY <1>6, PostingKeeps DEF NothingBlanked
<1>7. CASE PostFails \/ FinishRun
  BY <1>7, EndsOfRuns DEF PostFails, FinishRun, NothingBlanked
<1>8. CASE RecordBatch
  BY <1>8, RecordingKeeps DEF RecordBatch, NothingBlanked
<1> QED
  BY <1>1, <1>2, <1>3, <1>4, <1>5, <1>6, <1>7, <1>8 DEF RunStep, Reconcile

LEMMA NextKeeps ==
    ASSUME PipelineInv, [PipelineNext]_pipeVars
    PROVE  PipelineInv' /\ NothingBlanked
<1>1. CASE StartRun
  BY <1>1, RunStarts DEF StartRun, NothingBlanked
<1>2. CASE LeaveToTimer
  BY <1>2, FailingKeeps DEF LeaveToTimer, NothingBlanked
<1>3. ASSUME NEW b \in BatchId, BatchEnds(b) \/ BatchIsLost(b) PROVE PipelineInv' /\ NothingBlanked
  BY <1>3, ApiMoves DEF BatchEnds, BatchIsLost, NothingBlanked
<1>4. ASSUME NEW c \in ByHand, Reenrich(c) PROVE PipelineInv' /\ NothingBlanked
  <2>1. c \in Story
    BY PipelineAssumption
  <2> QED
    BY <1>4, <2>1, AskingKeeps DEF NothingBlanked
<1>5. CASE HandAnswered
  BY <1>5, AnswerByHand DEF NothingBlanked
<1>6. CASE HandFails
  BY <1>6, HandFailing DEF HandFails, NothingBlanked
<1>7. CASE PollerDies
  BY <1>7, PollerDyingKeeps DEF PollerDies, NothingBlanked
<1>8. CASE RunDies
  BY <1>8, EndsOfRuns DEF RunDies, NothingBlanked
<1>9. CASE UNCHANGED pipeVars
  <2>1. UNCHANGED <<outlets, row, feed, job, batch, hand, late, basis, crashes>>
    BY <1>9 DEF pipeVars
  <2>2. SessionsFit' /\ feed \in FeedState
    BY <2>1, RowsStay, TypesOfParts DEF PipelineInv
  <2> QED
    BY <2>1, <2>2, FeedMoves DEF NothingBlanked
<1> QED
  BY <1>1, <1>2, <1>3, <1>4, <1>5, <1>6, <1>7, <1>8, <1>9, IngestKeeps, RunStepKeeps DEF PipelineNext

LEMMA PipelineInvariance == PipelineSpec => []PipelineInv
<1>1. PipelineInit => PipelineInv
  BY InitPipelineInv
<1>2. PipelineInv /\ [PipelineNext]_pipeVars => PipelineInv'
  BY NextKeeps
<1> QED
  BY <1>1, <1>2, PTL DEF PipelineSpec

(* The variables keep their types: no attribute of a row, a session or a   *)
(* batch takes a value outside its column's.                               *)
THEOREM TypeCorrect == PipelineSpec => []PipelineTypeOK
<1>1. PipelineInv => PipelineTypeOK
  BY DEF PipelineInv
<1> QED
  BY <1>1, PipelineInvariance, PTL

(* distinct_source_count, kept by increments in sessions that may be rolled *)
(* back or die with the poller, is the number of outlets of the story, and  *)
(* the story is stamped as corroborated exactly from MinSources on.         *)
THEOREM CountsAreOutlets == PipelineSpec => []CountIsOutlets
<1>1. PipelineInv => CountIsOutlets
  BY DEF PipelineInv
<1> QED
  BY <1>1, PipelineInvariance, PTL

(* Whichever of the run, a batch and a request made by hand answers last,  *)
(* a comparison is one of several outlets of its story; a story marked as  *)
(* enriched was asked about with all of them, and compares as many as a    *)
(* request describes where the answer compared, unless an outlet joined    *)
(* while an answer was due; and only an answer that there is nothing to    *)
(* compare takes a comparison away.                                        *)
THEOREM ComparisonsStaySound == PipelineSpec => ComparisonIsSound
<1> DEFINE A == \A c \in Story : row[c].framing # {} /\ row'[c].framing = {} =>
                    basis'[c].answer = "empty"
<1>1. PipelineInv => FramingIsReal /\ StaleOnlyIfLate
  BY DEF PipelineInv
<1>2. PipelineInv /\ [PipelineNext]_pipeVars => [A]_pipeVars
  BY NextKeeps DEF NothingBlanked
<1> HIDE DEF A
<1>3. PipelineSpec => [](FramingIsReal /\ StaleOnlyIfLate) /\ [][A]_pipeVars
  BY <1>1, <1>2, PipelineInvariance, PTL DEF PipelineSpec
<1> QED
  BY <1>3 DEF ComparisonIsSound, ComparisonNeverBlanked, A

=============================================================================
