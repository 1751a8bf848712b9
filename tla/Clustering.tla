------------------------------ MODULE Clustering ------------------------------
(***************************************************************************)
(* How the articles of the feeds become stories: ingest_source of          *)
(* app/services/poller.py with the candidates it finds in the index of     *)
(* headline words, the test of app/services/dedup.py that confirms one of  *)
(* them, and the conditional request that skips a feed which has not       *)
(* changed.                                                                *)
(*                                                                         *)
(* A feed is ingested in one transaction.  Its session does not flush by   *)
(* itself: a query sees the stories as they were at the last flush, which  *)
(* only a new story brings about, and the index as it is, for words are    *)
(* inserted at once.  The poll cycle holds a lease (module JobLease), so   *)
(* one feed is ingested at a time.                                         *)
(***************************************************************************)
EXTENDS Integers, FiniteSets

CONSTANTS
    Source,       \* outlets, each with one feed
    Article,      \* entries of feeds
    SourceOf,     \* the outlet of an entry
    Url,          \* its url_hash
    Title,        \* its headline
    Words,        \* the title_tokens of it
    Published,    \* the hour of its pubDate, or Undated
    Undated,
    Region,       \* of an outlet: its geographic category, or Nowhere
    Nowhere,
    MinShared,    \* MIN_SHARED_TOKENS
    MatchWindow,  \* CLUSTER_MATCH_WINDOW, MAX_STORY_AGE and MAX_ARTICLE_AGE,
    MaxStoryAge,  \* in hours
    MaxArticleAge,
    MaxArticles,  \* MAX_CLUSTER_ARTICLES
    MaxCandidates, \* MAX_CANDIDATE_CLUSTERS
    MinOutlets,   \* FEED_MIN_DISTINCT_SOURCES
    MaxStories,   \* bound: ids of stories
    LastHour      \* bound: hours that pass

ASSUME ClusteringAssumption ==
    /\ IsFiniteSet(Source) /\ IsFiniteSet(Article) /\ MaxStories \in Nat
    /\ SourceOf \in [Article -> Source]
    /\ Published \in [Article -> Int \cup {Undated}]
    /\ \A a \in Article : IsFiniteSet(Words[a])
    /\ MinShared \in Nat \ {0} /\ MinOutlets \in Nat \ {0, 1}
    /\ MaxArticles \in Nat \ {0} /\ MaxCandidates \in Nat \ {0}
    /\ {MatchWindow, MaxStoryAge, MaxArticleAge} \subseteq Nat
    /\ LastHour \in Nat

VARIABLES
    now,      \* hours
    listing,  \* the entries each feed lists
    etag,     \* sources.etag: the listing the server last vouched for
    db,       \* committed: the story of each article, the rows, the index
    session,  \* the session of the feed being ingested
    crossed   \* crossed_to_multi_source of the cycle

cvars == <<now, listing, etag, db, session, crossed>>

Id == 1 .. MaxStories
Word == UNION {Words[a] : a \in Article}
Stored(d, a) == d.story[a] # 0
Members(d, c) == {a \in Article : d.story[a] = c}
OutletsOf(d, c) == {SourceOf[a] : a \in Members(d, c)}

ClusterRow == [articles: Nat, outlets: Nat, multi: BOOLEAN, first: Int, last: Int]
NoRow == [articles |-> 0, outlets |-> 0, multi |-> FALSE, first |-> 0, last |-> 0]
Empty == [story |-> [a \in Article |-> 0], row |-> [c \in Id |-> NoRow],
          index |-> [c \in Id |-> {}]]
NoTag == [tag |-> FALSE, of |-> {}]
Nobody == "nobody"
NoSession == [by |-> Nobody, tag |-> NoTag, todo |-> {}, tx |-> Empty,
            seen |-> [c \in Id |-> NoRow], known |-> [c \in Id |-> {}]]

-----------------------------------------------------------------------------
(* shares_topic: enough words in common, and three in ten of all of them.  *)

Overlap(x, y) == Cardinality(x \cap y)
SharesTopic(a, b) ==
    /\ Overlap(Words[a], Words[b]) >= MinShared
    /\ 10 * Overlap(Words[a], Words[b]) >= 3 * Cardinality(Words[a] \cup Words[b])

RegionsClash(s, t) == Region[s] # Nowhere /\ Region[t] # Nowhere /\ Region[s] # Region[t]

\* Mutant of Agree: an outlet's own articles confirm each other.
AgreeWithItself(a, b) == SharesTopic(a, b) /\ ~RegionsClash(SourceOf[a], SourceOf[b])

\* b, an article of a story, confirms that a belongs there.
Agree(a, b) ==
    /\ SourceOf[a] # SourceOf[b]
    /\ SharesTopic(a, b)
    /\ ~RegionsClash(SourceOf[a], SourceOf[b])

\* _find_candidate_clusters, before its LIMIT: the stories in the index under
\* enough words of a, still young, still growing and not full, by the rows
\* that the query sees.
InReach(a) ==
    {c \in Id :
        /\ session.seen[c].articles \in 1 .. MaxArticles - 1
        /\ Overlap(Words[a], session.tx.index[c]) >= MinShared
        /\ session.seen[c].last >= now - MatchWindow
        /\ session.seen[c].first >= now - MaxStoryAge}

\* How much of its headline a has in common with what the index has of c.
Rank(a, c) == Overlap(Words[a], session.tx.index[c])

\* ORDER BY count DESC LIMIT: any of those the limit may leave.
Tops(a) ==
    {t \in SUBSET InReach(a) :
        /\ Cardinality(t) = IF Cardinality(InReach(a)) < MaxCandidates
                            THEN Cardinality(InReach(a)) ELSE MaxCandidates
        /\ \A c \in t, d \in InReach(a) \ t : Rank(a, c) >= Rank(a, d)}

Confirmed(a, c) == \E b \in Members(session.tx, c) : Agree(a, b)

\* The first confirmed story of the list, ties in any order.
Matches(a) ==
    UNION {{c \in t : Confirmed(a, c) /\ \A d \in t : Confirmed(a, d) => Rank(a, c) >= Rank(a, d)} :
           t \in Tops(a)}
CanBeNew(a) == \E t \in Tops(a) : \A c \in t : ~Confirmed(a, c)

-----------------------------------------------------------------------------
(* The feeds and the clock.                                                *)

Publish(a) ==
    /\ a \notin listing[SourceOf[a]]
    /\ listing' = [listing EXCEPT ![SourceOf[a]] = @ \cup {a}]
    /\ UNCHANGED <<now, etag, db, session, crossed>>

Tick ==
    /\ now < LastHour /\ now' = now + 1
    /\ UNCHANGED <<listing, etag, db, session, crossed>>

-----------------------------------------------------------------------------
(* ingest_source.                                                          *)

\* parse_pub_date: an entry without a date is of now.
DateOf(a) == IF Published[a] = Undated THEN now ELSE Published[a]
TooOld(a) == now - DateOf(a) > MaxArticleAge
SameUrl(a, b) == Url[a] = Url[b]
Alike(a) == {b \in Article : Stored(db, b) /\ SourceOf[b] = SourceOf[a] /\ Title[b] = Title[a]}
Unknown(a) == \A b \in Article : Stored(db, b) => ~SameUrl(a, b)

\* Pass 1 keeps of the entries l those stored neither under their link nor,
\* for this outlet, under their title; of those with one link the first.
Kept(l) == {a \in l : Unknown(a) /\ Alike(a) = {}}
Picks(l) ==
    {t \in SUBSET Kept(l) : \A a \in Kept(l) : \E b \in t : {x \in t : SameUrl(a, x)} = {b}}

\* scalar_one_or_none raises where two articles have the title, unless an
\* entry with the same link came before.
Raises(a, t) == Unknown(a) /\ Cardinality(Alike(a)) > 1 /\ \A b \in t : ~SameUrl(a, b)

\* A response other than 200 changes nothing but a date; an unchanged listing
\* is a 304 for a request that carries its tag.
NotFetched(s) == session = NoSession /\ s \in Source /\ UNCHANGED cvars

\* A response may come without a tag; the old one stays.
Fetch(s, t, tagged) ==
    /\ session = NoSession
    /\ etag[s] # [tag |-> TRUE, of |-> listing[s]]
    /\ t \in Picks(listing[s])
    /\ \A a \in listing[s] : ~Raises(a, t)
    /\ session' = [NoSession EXCEPT !.by = s, !.todo = {a \in t : ~TooOld(a)}, !.tx = db, !.seen = db.row,
                     !.tag = IF tagged THEN [tag |-> TRUE, of |-> listing[s]] ELSE etag[s]]
    /\ UNCHANGED <<now, listing, etag, db, crossed>>

\* The row of a story that a further article joins.
JoinedRow(r, isNew) ==
    LET n == IF isNew THEN r.outlets + 1 ELSE r.outlets
    IN  [r EXCEPT !.articles = @ + 1, !.last = now, !.outlets = n,
                  !.multi = @ \/ (isNew /\ n >= MinOutlets)]

\* An article is stored in story c, whose row becomes r, and its words indexed.
Placed(d, a, c, r) ==
    [story |-> [d.story EXCEPT ![a] = c], row |-> [d.row EXCEPT ![c] = r],
     index |-> [d.index EXCEPT ![c] = @ \cup Words[a]]]

\* Mutant of KnownOf: the outlets that a story has are never read.
KnownOfBatch(c) == session.known[c]

\* The outlets of c, read on its first use in this session.
KnownOf(c) == IF session.known[c] = {} THEN OutletsOf(session.tx, c) ELSE session.known[c]

Match(a, c) ==
    LET r == JoinedRow(session.tx.row[c], session.by \notin KnownOf(c)) IN
    /\ a \in session.todo /\ c \in Matches(a)
    /\ session' = [session EXCEPT !.todo = @ \ {a}, !.tx = Placed(@, a, c, r),
                     !.known = [@ EXCEPT ![c] = KnownOf(c) \cup {session.by}]]
    /\ crossed' = IF r.multi # session.tx.row[c].multi THEN crossed \cup {c} ELSE crossed
    /\ UNCHANGED <<now, listing, etag, db>>

\* Rows are flushed with a new story, for its id.
StartStory(a, c) ==
    /\ a \in session.todo /\ CanBeNew(a)
    /\ session.tx.row[c] = NoRow /\ \A d \in 1 .. c - 1 : session.tx.row[d] # NoRow
    /\ LET tx == Placed(session.tx, a, c, [NoRow EXCEPT !.articles = 1, !.outlets = 1,
                                              !.first = DateOf(a), !.last = DateOf(a)])
       IN  session' = [session EXCEPT !.todo = @ \ {a}, !.tx = tx, !.seen = tx.row,
                         !.known = [@ EXCEPT ![c] = {session.by}]]
    /\ UNCHANGED <<now, listing, etag, db, crossed>>

Commit ==
    /\ session.by # Nobody /\ session.todo = {}
    /\ db' = session.tx
    /\ etag' = [etag EXCEPT ![session.by] = session.tag]
    /\ session' = NoSession
    /\ UNCHANGED <<now, listing, crossed>>

\* Mutant of Fail: the tag is kept although the entries are not.
FailKeepsTag ==
    /\ session # NoSession /\ session' = NoSession
    /\ etag' = [etag EXCEPT ![session.by] = session.tag]
    /\ UNCHANGED <<now, listing, db, crossed>>

\* An exception, whose rollback takes the whole feed, or the end of the process.
Fail ==
    /\ session # NoSession /\ session' = NoSession
    /\ UNCHANGED <<now, listing, etag, db, crossed>>

\* The cycle ends, and a run of the enrichment has been started for crossings.
EndCycle ==
    /\ session = NoSession /\ crossed # {} /\ crossed' = {}
    /\ UNCHANGED <<now, listing, etag, db, session>>

ClusterInit ==
    /\ now = 0
    /\ listing = [s \in Source |-> {}]
    /\ etag = [s \in Source |-> NoTag]
    /\ db = Empty
    /\ session = NoSession
    /\ crossed = {}

IngestFeed ==
    \/ \E s \in Source : NotFetched(s)
    \/ \E s \in Source, tagged \in BOOLEAN : \E t \in SUBSET listing[s] : Fetch(s, t, tagged)
    \/ \E a \in Article, c \in Id : Match(a, c) \/ StartStory(a, c)
    \/ Commit \/ Fail \/ EndCycle

ClusterNext == IngestFeed \/ (\E a \in Article : Publish(a)) \/ Tick

ClusterSpec == ClusterInit /\ [][ClusterNext]_cvars

-----------------------------------------------------------------------------
(* Properties.                                                             *)

\* Types of the variables.
ClusterTypeOK ==
    /\ now \in 0 .. LastHour
    /\ listing \in [Source -> SUBSET Article]
    /\ etag \in [Source -> [tag: BOOLEAN, of: SUBSET Article]]
    /\ db \in [story: [Article -> Id \cup {0}], row: [Id -> ClusterRow], index: [Id -> SUBSET Word]]
    /\ session \in [by: Source \cup {Nobody}, tag: [tag: BOOLEAN, of: SUBSET Article], todo: SUBSET Article,
                  tx: [story: [Article -> Id \cup {0}], row: [Id -> ClusterRow], index: [Id -> SUBSET Word]],
                  seen: [Id -> ClusterRow], known: [Id -> SUBSET Source]]
    /\ crossed \subseteq Id

\* The counters of a row, kept by increments, are those of its articles.
Counted(d) ==
    \A c \in Id :
        /\ d.row[c].articles = Cardinality(Members(d, c))
        /\ d.row[c].outlets = Cardinality(OutletsOf(d, c))
        /\ d.row[c].multi <=> d.row[c].outlets >= MinOutlets

\* The index reaches a story by the words of every article it has.
Indexed(d) == \A c \in Id : d.index[c] = UNION {Words[a] : a \in Members(d, c)}

\* A story of several articles is never the output of one outlet: another
\* outlet has an article like each of them.
Contrasted(d) ==
    \A c \in Id : \A a \in Members(d, c) : Members(d, c) # {a} =>
        \E b \in Members(d, c) : SourceOf[b] # SourceOf[a] /\ Overlap(Words[a], Words[b]) >= MinShared

\* One link is stored once.
Unique(d) ==
    \A a, b \in Article : Stored(d, a) /\ Stored(d, b) /\ SameUrl(a, b) => a = b

SoundIn(d) == Counted(d) /\ Indexed(d) /\ Contrasted(d) /\ Unique(d)

\* A story that is full, or older than MaxStoryAge, takes no article of a
\* feed read from then on.
Closed(c) ==
    \/ db.row[c].articles >= MaxArticles
    \/ db.row[c].articles > 0 /\ db.row[c].first < now - MaxStoryAge
ClosedStaysClosed ==
    [][session # NoSession /\ session' # NoSession =>
         \A c \in Id : Closed(c) => Members(session'.tx, c) = Members(session.tx, c)]_cvars

\* Stories are counted, indexed and contrasted, and no link is in two of
\* them, after every step of a session as well; a closed one stays closed.
StoriesAreSound ==
    /\ [](SoundIn(db) /\ (session # NoSession => SoundIn(session.tx)))
    /\ ClosedStaysClosed

\* Every entry of a listing that a tag vouches for, and that a 304 will hide
\* from now on, is stored, was stored under its link or its title, or is
\* (like one with its link) too old.
Accounted(a) ==
    \/ ~Unknown(a) \/ Alike(a) # {}
    \/ \E b \in Article : SourceOf[b] = SourceOf[a] /\ SameUrl(a, b) /\ TooOld(b)
NothingIsSkipped == \A s \in Source : etag[s].tag => \A a \in etag[s].of : Accounted(a)

-----------------------------------------------------------------------------
(* EnrichmentPipeline takes from ingestion only which outlet is in which   *)
(* story, and lets any story with an article of another outlet match.      *)

Seen(r) == [count |-> r.outlets, multi |-> r.multi, ai |-> FALSE, ever |-> FALSE, framing |-> {}]
Staged(c) ==
    IF session.known[c] = {} THEN [loaded |-> Seen(NoRow), object |-> Seen(NoRow), known |-> {}]
    ELSE [loaded |-> Seen(db.row[c]), object |-> Seen(session.tx.row[c]), known |-> session.known[c]]
NoRunOfIt == [at |-> "idle", by |-> "none", queue |-> {}, settled |-> {}, first |-> {}, refine |-> {},
              seen |-> [c \in Id |-> {}], posted |-> "none"]

Pipeline == INSTANCE EnrichmentPipeline WITH
    Story <- Id, Outlet <- Source, BatchId <- {}, ByHand <- {}, MinSources <- MinOutlets, RunLimit <- 0,
    MaxArticles <- 2, MaxCrashes <- 0,
    outlets <- [c \in Id |-> OutletsOf(db, c)],
    row <- [c \in Id |-> Seen(db.row[c])],
    feed <- [at |-> IF session = NoSession THEN "idle" ELSE "ingest",
             source |-> IF session = NoSession THEN "none" ELSE session.by,
             staged |-> [c \in Id |-> Staged(c)], crossed |-> crossed],
    job <- NoRunOfIt, batch <- [b \in {} |-> {}],
    hand <- [cluster |-> 0, seen |-> {}, loaded |-> Seen(NoRow)], late <- {},
    basis <- [c \in Id |-> [answer |-> "none", known |-> {}]], crashes <- 0

\* What ingestion does to outlets and counters is what EnrichmentPipeline
\* takes it to do, but for the end of a cycle, which is a run of that module.
IngestsAsThePipeline ==
    /\ Pipeline!PipelineInit
    /\ [][UNCHANGED cvars \/ EndCycle \/ Pipeline!Ingest]_(Pipeline!pipeVars)

-----------------------------------------------------------------------------
\* "if this exact title has already been ingested from this source before,
\* treat it as that same template recurring" (poller.py): no listing makes
\* ingest_source raise.  It does, where one batch stored a title twice.
TemplatesAreSkipped ==
    \A s \in Source : \E t \in Picks(listing[s]) : \A a \in listing[s] : ~Raises(a, t)
=============================================================================
