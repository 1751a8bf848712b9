-------------------------------- MODULE Feed --------------------------------
(* The listings of stories and their pages (app/main.py, app/launcher_feed.py, *)
(* services/cluster_search.py), which are remembered for some minutes while    *)
(* the poller moves stories; For You, whose pages are slices of one ranking;   *)
(* the explore slot (services/explore_bandit.py); and the promos among the     *)
(* launcher's cards (services/launcher_feed.py).                               *)
EXTENDS Integers, FiniteSets

CONSTANTS
    Cluster,        \* stories: their ids
    Score,          \* headline scores
    PageLimit,      \* limit of a page
    Boost,          \* EXPLORE_PROMOTED_BOOST
    YouPages,       \* FOR_YOU_MAX_PAGES
    Caller,         \* readers who are signed in
    MinExposures,   \* MIN_EXPOSURE_COUNT
    MaxMoves        \* bound: changes of the stories

ASSUME FeedAssumption ==
    /\ Cluster \subseteq Nat \ {0} /\ IsFiniteSet(Cluster) /\ Score \subseteq Int /\ Boost \in Int
    /\ PageLimit \in Nat \ {0} /\ IsFiniteSet(Caller)
    /\ MinExposures \in Nat /\ MinExposures >= 2

VARIABLES
    cluster,    \* what the listings look at of story_clusters
    moves,      \* changes so far
    moved,      \* at which of them each story last changed
    remembered, \* the pages in Redis, by cursor, and when each was made
    client,     \* a client that pages through one listing, signed in or not;
                \* first: what is on the first page while the explore slot is
                \* looked after, spliced: the candidate put on that page
    seen,       \* how often its pages showed each story
    liking,     \* the client's affinity_score of each story
    snapshot,   \* the ranking that its For You session is a slice of
    slot,       \* of each caller: the candidate picked, not yet recorded
    exposures,  \* explore_exposures, by story and caller: those with a later
                \* read of the story, those without, and how that read went
    convinced,  \* history: who was engaged when a story was promoted, and
                \* whether somebody had been counted more than once, or it had
                \* been promoted before
    cards       \* a page of the launcher with its promos

storyVars == <<cluster, moves, moved>>
pageVars == <<remembered, client, seen>>
youVars == <<liking, snapshot>>
exploreVars == <<slot, exposures, convinced>>
feedVars == <<cluster, moves, moved, remembered, client, seen, liking, snapshot,
              slot, exposures, convinced, cards>>

Listings == {"all", "category", "videos", "launcher", "search"}
NoCursor == <<>>
Fresh1 == [before |-> 0, after |-> 0, last |-> "none"]

StoryRow(score, sources, video) ==
    [score |-> score, at |-> 0, sources |-> sources, video |-> video, explore |-> "pending"]

Anonymous == "nobody"
NewClient(listing, who) ==
    [listing |-> listing, who |-> who, cursor |-> NoCursor, state |-> "new", oldest |-> 0,
     page |-> 0, lost |-> FALSE, first |-> {}, spliced |-> 0]

FeedInit(listing, rows, who) ==
    /\ cluster = rows /\ moves = 0 /\ moved = [c \in Cluster |-> 0]
    /\ remembered = {} /\ client = NewClient(listing, who) /\ seen = [c \in Cluster |-> 0]
    /\ liking = [c \in Cluster |-> 0] /\ snapshot = {}
    /\ slot = [u \in Caller |-> 0]
    /\ exposures = [c \in Cluster |-> [u \in Caller |-> Fresh1]]
    /\ convinced = [c \in Cluster |-> [by |-> {}, twice |-> rows[c].explore = "promoted"]]
    /\ cards = [stories |-> 0, age |-> 0, dismissed |-> {}, installed |-> FALSE, promos |-> {}]

-----------------------------------------------------------------------------
(* What the poller does to stories meanwhile.                                  *)

Becomes(rows) ==
    /\ cluster' = rows /\ moves' = moves + 1
    /\ moved' = [c \in Cluster |-> IF rows[c] # cluster[c] THEN moves + 1 ELSE moved[c]]

Change(rows) ==
    /\ moves < MaxMoves
    /\ Becomes(rows)
    /\ UNCHANGED <<pageVars, youVars, exploreVars, cards>>

\* An article joins a story, of an outlet that is new to it or not.
Join(c) ==
    \E n \in {cluster[c].sources, 2} :
        Change([cluster EXCEPT ![c] = [@ EXCEPT !.at = moves + 1, !.sources = n]])

\* The scores are recomputed.
Rescore == \E f \in [Cluster -> Score] :
    Change([c \in Cluster |-> [cluster[c] EXCEPT !.score = f[c]]])

-----------------------------------------------------------------------------
(* A page: one row more than fits is fetched, in the order of the listing,     *)
(* below the cursor.                                                           *)

Before(x, y) == x[1] < y[1] \/ (x[1] = y[1] /\ x[2] < y[2])

Effective(c) == cluster[c].score * IF cluster[c].explore = "promoted" THEN Boost ELSE 1

Rank(listing, c) ==
    IF listing = "all" THEN <<Effective(c), c>>
    ELSE IF listing = "launcher" THEN <<cluster[c].score, c>> ELSE <<cluster[c].at, c>>

\* Mutant of Mark: the cursor of All Stories forgets the boost.
MarkUnboosted(listing, c) ==
    IF listing = "search" THEN <<0, c>>
    ELSE IF listing = "all" THEN <<cluster[c].score, c>> ELSE Rank(listing, c)

\* What a cursor keeps of a story, and what it is compared with.
Mark(listing, c) == IF listing = "search" THEN <<0, c>> ELSE Rank(listing, c)

\* The gate and has_watchable_video.
Listed(listing) ==
    {c \in Cluster : /\ listing \in {"all", "launcher", "search"} => cluster[c].sources >= 2
                     /\ listing = "videos" => cluster[c].video # "none"}

\* A video that is not about the story leaves the row with nothing to play.
Shown(listing, c) == listing = "videos" => cluster[c].video = "playable"

Top(rows, listing, n) ==
    {c \in rows : Cardinality({d \in rows : Before(Rank(listing, c), Rank(listing, d))}) < n}

Page(listing, cursor) ==
    LET rows  == {c \in Listed(listing) : cursor = NoCursor \/ Before(Mark(listing, c), cursor)}
        items == Top(rows, listing, PageLimit)
        last  == CHOOSE c \in items : \A d \in items \ {c} : Before(Rank(listing, c), Rank(listing, d))
    IN  [at |-> moves, cursor |-> cursor, items |-> {c \in items : Shown(listing, c)},
         next |-> IF Cardinality(rows) > PageLimit THEN Mark(listing, last) ELSE NoCursor]

Lowest(a, b) == IF a < b THEN a ELSE b

\* A page from Redis, or one that is made and remembered; Redis may be out of
\* reach for either.  The order inside a page is shuffled, which moves nothing
\* to another page.  A caller's first page of All Stories waits for the slot.
NextPage ==
    /\ client.listing # "you" /\ client.state # "end" /\ client.first = {}
    /\ LET held == {p \in remembered : p.cursor = client.cursor}
           made == Page(client.listing, client.cursor)
       IN  \E p \in held \cup {made}, keep \in BOOLEAN :
             /\ seen' = [c \in Cluster |-> seen[c] + IF c \in p.items THEN 1 ELSE 0]
             /\ client' = [client EXCEPT
                    !.cursor = p.next,
                    !.state = IF p.next = NoCursor THEN "end" ELSE "more",
                    !.oldest = IF client.state = "new" THEN p.at ELSE Lowest(@, p.at),
                    !.first = IF client.listing = "all" /\ client.who \in Caller /\ client.state = "new"
                              THEN p.items ELSE {}]
             /\ remembered' = IF p \in held \/ ~keep THEN remembered
                              ELSE (remembered \ held) \cup {made}
    /\ UNCHANGED <<storyVars, youVars, exploreVars, cards>>

\* CACHE_TTL_SECONDS, or LAUNCHER_FEED_CACHE_TTL_SECONDS, are over.
Forgotten ==
    \E p \in remembered :
        /\ remembered' = remembered \ {p}
        /\ UNCHANGED <<storyVars, client, seen, youVars, exploreVars, cards>>

\* The client starts over.
Reload ==
    /\ client.state # "new" /\ client.first = {}
    /\ client' = NewClient(client.listing, client.who) /\ seen' = [c \in Cluster |-> 0]
    /\ UNCHANGED <<storyVars, remembered, youVars, exploreVars, cards>>

\* How often, not counting that it was put on the first page as the candidate.
AtItsRank(c) == seen[c] - IF client.spliced = c THEN 1 ELSE 0

OncePaged(listing) ==
    client.listing = listing =>
        \A c \in Cluster : moved[c] <= client.oldest =>
            /\ AtItsRank(c) <= 1
            /\ client.state = "end" /\ c \in Listed(listing) /\ Shown(listing, c) => AtItsRank(c) = 1

\* A story that keeps its place while a client pages through a listing is shown
\* once, however the others move and however old the pages that were
\* remembered are (app/main.py:2085-2209, 2476-2505, launcher_feed.py:142-173).
\* The candidate put on a reader's first page of All Stories is shown once more,
\* as the cursor does not know of it (app/main.py:2260-2275).
StillStoriesShowOnce == \A l \in Listings \ {"search"} : OncePaged(l)

\* The same of a search, whose cursor is the id alone: app/main.py:2173 says
\* that such a cursor "can silently duplicate or skip rows across pages" and
\* that listings by last_updated_at therefore use a compound one.
SearchShowsOnce == OncePaged("search")

-----------------------------------------------------------------------------
(* list_for_you_clusters.                                                      *)

\* The reader's affinity to a story changes.
Like(c) ==
    /\ moves < MaxMoves /\ moves' = moves + 1
    /\ liking' = [liking EXCEPT ![c] = 1 - @]
    /\ UNCHANGED <<cluster, moved, pageVars, snapshot, exploreVars, cards>>

\* score, headline_score and id, compared in this order.
Lower(m, n) == m[1] < n[1] \/ (m[1] = n[1] /\ Before(<<m[2], m[3]>>, <<n[2], n[3]>>))
Scored == {<<liking[c], cluster[c].score, c>> : c \in Listed("all")}

Best(ranking, n) == {m \in ranking : Cardinality({k \in ranking : Lower(m, k)}) < n}

\* A session that Redis still has goes on; otherwise the window is scored
\* again, from page 0 but below the cursor that the client sent.
ForYou ==
    /\ client.listing = "you" /\ client.state # "end"
    /\ \E found \in {client.state = "more", FALSE} :
         LET ranking == IF found THEN snapshot ELSE Scored
             rest    == {m \in ranking : client.cursor = NoCursor \/ Lower(m, client.cursor)}
             items   == Best(rest, PageLimit)
             last    == CHOOSE m \in items : \A k \in items \ {m} : Lower(m, k)
             page    == (IF found THEN client.page ELSE 0) + 1
             more    == Cardinality(rest) > PageLimit /\ page < YouPages
         IN  /\ snapshot' = ranking
             /\ seen' = [c \in Cluster |-> seen[c] + Cardinality({m \in items : m[3] = c})]
             /\ client' = [client EXCEPT
                    !.page = page,
                    !.state = IF more THEN "more" ELSE "end",
                    !.cursor = IF more THEN last ELSE NoCursor,
                    !.lost = @ \/ (~found /\ client.state = "more")]
    /\ UNCHANGED <<storyVars, remembered, liking, exploreVars, cards>>

\* Within a session the pages show the best of one ranking, each story once,
\* as far as the pages go, whatever is read or rescored in between
\* (app/main.py:2389-2440).
ForYouIsOneRanking ==
    client.listing = "you" /\ ~client.lost =>
        \A m \in snapshot :
            LET above == Cardinality({k \in snapshot : Lower(m, k)})
            IN  seen[m[3]] = IF above < client.page * PageLimit THEN 1 ELSE 0

-----------------------------------------------------------------------------
(* The explore slot.                                                           *)

\* The rows of a story, and those whose reader was engaged by the last read.
Exposures(c) ==
    UNION {{u} \X (1 .. exposures[c][u].before + exposures[c][u].after) : u \in Caller}
Engaged(c, u) == exposures[c][u].before > 0 /\ exposures[c][u].last = "full"
Engagements(c) ==
    UNION {{u} \X (1 .. exposures[c][u].before) : u \in {v \in Caller : Engaged(c, v)}}
Count(c) == Cardinality(Exposures(c))

\* Pending, of few outlets and recent: the least exposed, then the newest.
Candidates == {c \in Cluster : cluster[c].explore = "pending" /\ cluster[c].sources <= 2}
Picked(c) ==
    /\ c \in Candidates
    /\ \A d \in Candidates : Count(c) < Count(d) \/ (Count(c) = Count(d) /\ d <= c)

\* The request that is at work on the client's first page.
Serves(u) == u = client.who /\ client.listing = "all"

\* A caller's first page of All Stories, unless it is empty or has the pick on
\* it already.  Only the client's is followed to the pages below.
PickCandidate(u) ==
    LET items == IF Serves(u) THEN client.first ELSE Page("all", NoCursor).items
        picks == {c \in Cluster \ items : Picked(c)}
    IN  /\ slot[u] = 0 /\ items # {}
        /\ \/ /\ \E c \in picks : slot' = [slot EXCEPT ![u] = c]
              /\ UNCHANGED client
           \/ /\ picks = {} /\ Serves(u)
              /\ client' = [client EXCEPT !.first = {}]
              /\ UNCHANGED slot
        /\ UNCHANGED <<storyVars, remembered, seen, youVars, exposures, convinced, cards>>

\* The candidate is put on the page that is sent, with the exposure.
RecordExposure(u) ==
    /\ slot[u] # 0
    /\ LET c == slot[u]
           e == exposures[c][u]
       IN  /\ exposures' = [exposures EXCEPT ![c] =
                  [exposures[c] EXCEPT ![u] = [e EXCEPT !.after = e.after + 1]]]
           /\ IF Serves(u)
              THEN /\ client' = [client EXCEPT !.first = {}, !.spliced = c]
                   /\ seen' = [seen EXCEPT ![c] = @ + 1]
              ELSE UNCHANGED <<client, seen>>
    /\ slot' = [slot EXCEPT ![u] = 0]
    /\ UNCHANGED <<storyVars, remembered, youVars, convinced, cards>>

\* The caller reads the story, to the end or in passing.
OpenStory(u, c, how) ==
    /\ LET e == exposures[c][u]
       IN  exposures' = [exposures EXCEPT ![c] = [exposures[c] EXCEPT ![u] =
               [before |-> e.before + e.after, after |-> 0, last |-> how]]]
    /\ UNCHANGED <<storyVars, pageVars, youVars, slot, convinced, cards>>

\* Mutant of Clears: the bare mean.
ClearsMean(k, n, bar) == 100 * k > bar * n

\* The mean of k engaged among n exposures, less 1.645 standard errors, is over
\* the bar (in per cent).
Clears(k, n, bar) ==
    LET over == 100 * k - bar * n
    IN  over > 0 /\ over * over * n > 27060 * k * (n - k)

\* recompute_explore_promotions, with the mean of ordinary reads as the bar.
Recompute(bar) ==
    LET ready == {c \in Cluster : cluster[c].explore = "pending" /\ Count(c) >= MinExposures}
        wins == {c \in ready : Clears(Cardinality(Engagements(c)), Count(c), bar)}
    IN  /\ ready # {}
        /\ Becomes([c \in Cluster |-> [cluster[c] EXCEPT !.explore =
               IF c \in wins THEN "promoted" ELSE IF c \in ready THEN "rejected" ELSE @]])
        /\ convinced' = [c \in Cluster |->
               IF c \in wins THEN [by |-> {u \in Caller : Engaged(c, u)},
                                   twice |-> \E u \in Caller : exposures[c][u].before > 1]
               ELSE convinced[c]]
        /\ UNCHANGED <<pageVars, youVars, slot, exposures, cards>>

\* One engaged reader does not promote a story, unless readers were counted
\* more than once (services/explore_bandit.py:170-230).
OneReaderIsNotEnough ==
    \A c \in Cluster : cluster[c].explore = "promoted" =>
        convinced[c].twice \/ Cardinality(convinced[c].by) > 1

-----------------------------------------------------------------------------
(* The launcher's cards: apply_promos on a page of stories.                    *)

MinIndex == 3
Between == 8
ContinuationFrom == 10
YoungDays == 2

Apart(at, placed) ==
    \A p \in placed : Between <= IF p.at < at THEN at - p.at ELSE p.at - at

\* insert_promos, of one promo.
InsertPromo(placed, id, wish, n, dismissed) ==
    LET at == Lowest(IF wish > MinIndex THEN wish ELSE MinIndex, n)
    IN  IF id \notin dismissed /\ n >= MinIndex /\ Apart(at, placed)
        THEN placed \cup {[id |-> id, at |-> at]} ELSE placed

\* A game tile after the third story, then the card that ends the page; age -1:
\* not told.
Placed(n, first, installed, age, dismissed) ==
    LET old  == age >= YoungDays
        game == IF first /\ age >= 0 /\ (installed \/ old) THEN InsertPromo({}, "game", 3, n, dismissed)
                ELSE {}
    IN  IF first /\ ~installed /\ old /\ n >= ContinuationFrom
        THEN InsertPromo(game, "continue", n, n, dismissed) ELSE game

ApplyPromos(n, first, installed, age, dismissed) ==
    /\ cards' = [stories |-> n, age |-> age, dismissed |-> dismissed, installed |-> installed,
                 promos |-> Placed(n, first, installed, age, dismissed)]
    /\ UNCHANGED <<storyVars, pageVars, youVars, exploreVars>>

\* Promos are never among the first three cards nor closer than eight stories,
\* one that was dismissed stays away, and an install that is young, or does
\* not tell its age, sees none that asks for the app
\* (services/launcher_feed.py:95-105, 180-260).
PromosKeepTheirDistance ==
    /\ \A p \in cards.promos :
          /\ MinIndex <= p.at /\ p.at <= cards.stories /\ p.id \notin cards.dismissed
          /\ p.id = "continue" => cards.age >= YoungDays /\ ~cards.installed
    /\ \A p, q \in cards.promos : p # q => p.at + Between <= q.at \/ q.at + Between <= p.at

\* What a reader pages through: every story once at its rank, in For You along
\* one ranking, and promos at their distance.
PagesAreSound == StillStoriesShowOnce /\ ForYouIsOneRanking /\ PromosKeepTheirDistance


-----------------------------------------------------------------------------
(* Everything at once, with any rows, scores and ages.                         *)

StoryRecord == [score : Score, at : Nat, sources : Nat,
                video : {"none", "other", "playable"},
                explore : {"pending", "promoted", "rejected"}]

Shifting == Rescore \/ \E c \in Cluster : Join(c) \/ Like(c)
Paging == NextPage \/ ForYou \/ Forgotten \/ Reload
Exploring ==
    \/ \E u \in Caller :
         \/ PickCandidate(u) \/ RecordExposure(u)
         \/ \E c \in Cluster, how \in {"full", "glance"} : OpenStory(u, c, how)
    \/ \E bar \in 0 .. 100 : Recompute(bar)
Promoting == \E n \in Nat, first, installed \in BOOLEAN, age \in Nat \cup {-1},
               gone \in SUBSET {"game", "continue"} : ApplyPromos(n, first, installed, age, gone)

FeedSpec ==
    /\ \E listing \in Listings \cup {"you"}, first \in [Cluster -> StoryRecord],
          who \in Caller \cup {Anonymous} : FeedInit(listing, first, who)
    /\ [][Shifting \/ Paging \/ Exploring \/ Promoting]_feedVars

=============================================================================
