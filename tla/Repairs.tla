------------------------------ MODULE Repairs ------------------------------
(* The scripts an operator runs on rows that are there (backfills, repairs,   *)
(* clean-ups and second scrapes of scripts/), while the poller goes on.  Most *)
(* read their rows, work (often over the network) and write by id, with one   *)
(* commit at the end: what others wrote in between is written over.  Scripts  *)
(* of a single statement are one step.                                        *)
(*                                                                            *)
(* An article has a topic and an outlet; a value of a text or an address is   *)
(* the class the scripts tell apart.                                          *)
EXTENDS Integers, FiniteSets

CONSTANTS
    Articles,      \* ids of articles; a story has the id of its first article
    Topic,         \* Topic[a]: what title and snippet are about
    Outlet,        \* Outlet[a]: the source of the article
    Least,         \* min_article_count of the repair of stories
    NoRow

VARIABLES
    home,          \* home[a]: the story of an article, NoRow: not in the table
    stories,       \* the rows of story_clusters, by id; NoRow: no row
    page,          \* page[a]: snippet, content, image, video of an article
    script,        \* the script at work: name, what it read, what it fetched
    poll,          \* the poller's step: the story and its count as loaded
    asked,         \* of each story: its comparison as loaded by the enrichment
                   \* that waits for the model; NoRow: none does
    crossed,       \* history: stories that two were at work on at once
    bare           \* history: stories whose outlets were removed as a source

repairVars == <<home, stories, page, script, poll, asked, crossed, bare>>

\* The article was deleted, and its outlet is not read any more.
Deleted == 0

ClusterRow == [count : Int, rep : Articles \cup {NoRow}, framing : {"none", "rules", "model"},
             enriched : BOOLEAN, updated : {"first", "live"}]
Loaded == [article : Articles, story : Articles, count : Int]

ASSUME RepairsAssumption ==
    /\ Articles \subseteq Nat \ {Deleted} /\ IsFiniteSet(Articles)
    /\ NoRow \notin Articles \cup {Deleted} /\ NoRow \notin ClusterRow /\ NoRow \notin Loaded

Stored(a) == home[a] \notin {NoRow, Deleted}

Members(s) == {a \in Articles : home[a] = s}

Outlets(s) == Cardinality({Outlet[a] : a \in Members(s)})

Idle == [name |-> "none", rows |-> {}, got |-> {}, seen |-> [a \in Articles |-> NoRow],
         was |-> [s \in Articles |-> NoRow]]

Rows == {s \in Articles : stories[s] # NoRow}

\* A story of one article.
Alone(a) == [count |-> 1, rep |-> a, framing |-> "none", enriched |-> FALSE,
             updated |-> "first"]

\* Some articles are there, each in a story of its own.
RepairsInit(known, pages) ==
    /\ home = [a \in Articles |-> IF a \in known THEN a ELSE NoRow]
    /\ stories = [a \in Articles |-> IF a \in known THEN Alone(a) ELSE NoRow]
    /\ page = pages
    /\ script = Idle /\ poll = NoRow /\ asked = [s \in Articles |-> NoRow] /\ crossed = {} /\ bare = {}

-----------------------------------------------------------------------------
(* The poller and the enrichment, as far as the scripts meet them.            *)

\* An article that matches no story starts one.
Publish(a) ==
    /\ home[a] = NoRow /\ poll = NoRow
    /\ \A b \in Articles : b < a => home[b] # NoRow
    /\ home' = [home EXCEPT ![a] = a]
    /\ stories' = [stories EXCEPT ![a] = Alone(a)]
    /\ UNCHANGED <<page, script, poll, asked, crossed, bare>>

\* The poller loads a story it will add the article to.
Match(a, s) ==
    /\ home[a] = NoRow /\ s \in Rows /\ poll = NoRow
    /\ \A b \in Articles : b < a => home[b] # NoRow
    /\ poll' = [article |-> a, story |-> s, count |-> stories[s].count]
    /\ UNCHANGED <<home, stories, page, script, asked, crossed, bare>>

\* An outlet the story does not have yet: it is enriched anew.
Joins(p) == \A a \in Members(p.story) : Outlet[a] # Outlet[p.article]

\* The count it loaded, plus one, is what it writes.
Attach ==
    /\ poll # NoRow /\ stories[poll.story] # NoRow
    /\ home' = [home EXCEPT ![poll.article] = poll.story]
    /\ stories' = [stories EXCEPT ![poll.story].count = poll.count + 1,
                                  ![poll.story].enriched = IF Joins(poll) THEN FALSE ELSE @,
                                  ![poll.story].updated = "live"]
    /\ crossed' = IF stories[poll.story].count = poll.count /\ poll.story \notin script.rows
                  THEN crossed ELSE crossed \cup {poll.story}
    /\ poll' = NoRow
    /\ UNCHANGED <<page, script, asked, bare>>

\* The row is gone: the cycle fails on it and the article starts anew.
AttachFails ==
    /\ poll # NoRow /\ stories[poll.story] = NoRow
    /\ poll' = NoRow
    /\ UNCHANGED <<home, stories, page, script, asked, crossed, bare>>

\* Two outlets: the model is asked.
Ask(s) ==
    /\ s \in Rows /\ Outlets(s) >= 2 /\ ~ stories[s].enriched /\ asked[s] = NoRow
    /\ asked' = [asked EXCEPT ![s] = stories[s].framing]
    /\ UNCHANGED <<home, stories, page, script, poll, crossed, bare>>

\* A comparison, by the model or (once) by the rules; none, which is not in the
\* UPDATE of a row that was loaded without; or nothing is said of it.
Said(answer, was, now) ==
    IF answer = "nothing" \/ (answer = "none" /\ was = "none") THEN now ELSE answer

\* Written to the story by its id, or the call fails.
Answer(s) ==
    /\ asked[s] # NoRow /\ asked' = [asked EXCEPT ![s] = NoRow]
    /\ \/ UNCHANGED stories
       \/ /\ s \in Rows
          /\ \E answer \in {"rules", "model", "none", "nothing"} :
               stories' = [stories EXCEPT ![s].framing = Said(answer, asked[s], @), ![s].enriched = TRUE]
    /\ UNCHANGED <<home, page, script, poll, crossed, bare>>

-----------------------------------------------------------------------------
(* Stories.                                                                   *)

Begin(name, rows) ==
    /\ script.name = "none"
    /\ script' = [name |-> name, rows |-> rows, got |-> {}, seen |-> home, was |-> stories]
    /\ UNCHANGED <<home, stories, page, poll, asked, crossed, bare>>

\* Members without a word in common with the representative one; none when that
\* one is not a member any more.
Misfits(s, seen) ==
    LET rep == s           \* a story is represented by the article that began it
        own == {a \in Articles : seen[a] = s}
    IN IF rep \notin own THEN {} ELSE {a \in own \ {rep} : Topic[a] # Topic[rep]}

RunawayBegin(least) ==
    Begin("runaway", {s \in Rows : stories[s].count >= least /\ Misfits(s, home) # {}})

\* Mutant of Repaired: the count of the story is left as it was.
RepairedSameCount(s, out) ==
    [stories[s] EXCEPT !.framing = "none", !.updated = "live"]

\* A column that is set to what was loaded is not in the UPDATE.
Assigned(was, new, now) == IF new = was THEN now ELSE new

\* Each misfit gets a story of its own; what is left is counted, and forgets
\* what was said of the others when one article is left.
Repaired(s, out) ==
    LET left == Cardinality({a \in Articles : script.seen[a] = s} \ out)
        was  == script.was[s]
    IN [stories[s] EXCEPT !.count = Assigned(was.count, left, @),
            !.framing = IF left <= 1 THEN Assigned(was.framing, "none", @) ELSE @,
            !.updated = IF left <= 1 THEN Assigned(was.updated, "first", @) ELSE "live"]

\* The poller or the enrichment is at work on the story, or the enrichment wrote
\* the first comparison since the repair had read it.
Overtaken(s) ==
    \/ poll # NoRow /\ poll.story = s
    \/ asked[s] # NoRow
    \/ script.was[s].framing = "none" /\ stories[s].framing # "none"

\* An UPDATE of a row that is gone raises, and all of the run is lost.
RunawayCommit ==
    /\ script.name = "runaway"
    /\ LET out == [s \in script.rows |-> Misfits(s, script.seen)]
           all == UNION {out[s] : s \in script.rows}
       IN IF \A a \in all : Stored(a)
          THEN /\ home' = [a \in Articles |-> IF a \in all THEN a ELSE home[a]]
               /\ stories' = [s \in Articles |->
                     IF s \in all THEN Alone(s)
                     ELSE IF s \in script.rows THEN Repaired(s, out[s]) ELSE stories[s]]
               /\ crossed' = crossed \cup {s \in script.rows : Overtaken(s)}
          ELSE UNCHANGED <<home, stories, crossed>>
    /\ script' = Idle
    /\ UNCHANGED <<page, poll, asked, bare>>

SingletonsBegin ==
    Begin("singletons", {s \in Rows : stories[s].count = 1 /\ stories[s].updated # "first"})

\* The write names the id only.
SingletonsCommit ==
    /\ script.name = "singletons"
    /\ stories' = [s \in Articles |-> IF s \in script.rows /\ stories[s] # NoRow
                                      THEN [stories[s] EXCEPT !.updated = "first"]
                                      ELSE stories[s]]
    /\ script' = Idle
    /\ UNCHANGED <<home, page, poll, asked, crossed, bare>>

\* Comparisons of a story that has no two outlets.
PurgeFraming ==
    /\ stories' = [s \in Articles |-> IF s \in Rows /\ Outlets(s) < 2
                                      THEN [stories[s] EXCEPT !.framing = "none"]
                                      ELSE stories[s]]
    /\ UNCHANGED <<home, page, script, poll, asked, crossed, bare>>

\* Comparisons by the rules; the story is queued again.
ClearRules ==
    /\ stories' = [s \in Articles |-> IF s \in Rows /\ stories[s].framing = "rules"
                      THEN [stories[s] EXCEPT !.framing = "none", !.enriched = FALSE]
                      ELSE stories[s]]
    /\ UNCHANGED <<home, page, script, poll, asked, crossed, bare>>

\* A source goes with its articles, and the stories left without any; the counts
\* of the others stay, and a representative that went leaves none.
RemoveSource(o) ==
    LET gone == {a \in Articles : Stored(a) /\ Outlet[a] = o}
        left(s) == Members(s) \ gone
    IN /\ gone # {}
       /\ home' = [a \in Articles |-> IF a \in gone THEN Deleted ELSE home[a]]
       /\ stories' = [s \in Articles |->
              IF stories[s] = NoRow \/ left(s) = {} THEN NoRow
              ELSE [stories[s] EXCEPT !.rep = IF @ \in gone THEN NoRow ELSE @]]
       /\ bare' = (bare \cup {home[a] : a \in gone}) \ {s \in Articles : stories'[s] = NoRow}
       /\ UNCHANGED <<page, script, poll, asked, crossed>>

-----------------------------------------------------------------------------
(* Texts and pictures of an article.  A script of rows takes them at once and *)
(* writes them with one commit.                                               *)

Pages(P(_)) == {a \in Articles : Stored(a) /\ P(page[a])}

Rewrite(name, f(_)) ==
    /\ script.name = name
    /\ page' = [a \in Articles |-> IF a \in script.rows THEN f(page[a]) ELSE page[a]]
    /\ script' = Idle
    /\ UNCHANGED <<home, stories, poll, asked, crossed, bare>>

\* A sign-off after the text is cut; a text that was nothing else stays with one
\* script and goes with the other.
Unsigned(t)  == IF t = "signed" THEN "clean" ELSE t
Clean(t) == IF t = "signed" THEN "clean" ELSE IF t = "signoff" THEN "" ELSE t

CleanSnippetsBegin == Begin("clean", Pages(LAMBDA p : p.snippet = "signed"))
CleanSnippetsCommit == Rewrite("clean", LAMBDA p : [p EXCEPT !.snippet = Unsigned(@)])

BackfillSnippetsBegin == Begin("snippets", Pages(LAMBDA p : p.snippet \in {"signed", "signoff"}))
BackfillSnippetsCommit == Rewrite("snippets", LAMBDA p : [p EXCEPT !.snippet = Clean(@)])

BackfillContentBegin == Begin("content", Pages(LAMBDA p : p.content = "signed"))
BackfillContentCommit == Rewrite("content", LAMBDA p : [p EXCEPT !.content = Clean(@)])

BrandedCardsBegin == Begin("branded", Pages(LAMBDA p : p.image = "card"))
BrandedCardsCommit == Rewrite("branded", LAMBDA p : [p EXCEPT !.image = "none"])

PlaceholdersBegin == Begin("placeholder", Pages(LAMBDA p : p.image = "shared"))
PlaceholdersCommit == Rewrite("placeholder", LAMBDA p :
                                  IF p.image = "shared" THEN [p EXCEPT !.image = "none"] ELSE p)

\* Addresses without a scheme, and cleartext ones.
RelativeVideosBegin == Begin("relative", Pages(LAMBDA p : p.video = "//"))
RelativeVideosCommit == Rewrite("relative", LAMBDA p : [p EXCEPT !.video = "https"])

FixSchemeBegin == Begin("scheme", Pages(LAMBDA p : p.video = "http"))
FixSchemeCommit == Rewrite("scheme", LAMBDA p : [p EXCEPT !.video = "https"])

\* A player that was taken for a video: the kind of the row goes with it.
ClearFalseVideos ==
    /\ page' = [a \in Articles |-> IF page[a].video = "false"
                   THEN [page[a] EXCEPT !.video = "none",
                            !.kind = IF page[a].image # "none" THEN "image" ELSE "none"]
                   ELSE page[a]]
    /\ UNCHANGED <<home, stories, script, poll, asked, crossed, bare>>

\* Sizes of images that have none yet, measured in between; a failure has none.
DimensionsBegin == Begin("sizes", Pages(LAMBDA p : p.image # "none" /\ p.size = NoRow))

DimensionsCommit ==
    \E failed \in {{}, script.rows} :
        /\ script.name = "sizes"
        /\ page' = [a \in Articles |-> IF a \in script.rows \ failed
                       THEN [page[a] EXCEPT !.size = "known"] ELSE page[a]]
        /\ script' = Idle
        /\ UNCHANGED <<home, stories, poll, asked, crossed, bare>>

-----------------------------------------------------------------------------
(* Pages fetched again.                                                       *)

\* Articles without a video, or whose video has no mark of a short.
VideosBegin == Begin("videos", Pages(LAMBDA p : p.video = "none" \/ p.short = NoRow))

\* A video of YouTube is shown as an image and keeps the kind of the row; another
\* makes the row a video.  Only what was found is written.
Found(p, v) == [p EXCEPT !.video = v, !.short = IF v = "youtube" THEN "yes" ELSE @,
                         !.kind = IF v = "youtube" THEN @ ELSE "video"]

VideosCommit ==
    \E v \in {"none", "youtube", "https"} :
        /\ script.name = "videos"
        /\ page' = [a \in Articles |-> IF a \in script.rows /\ v # "none"
                                       THEN Found(page[a], v) ELSE page[a]]
        /\ script' = Idle
        /\ UNCHANGED <<home, stories, poll, asked, crossed, bare>>

\* The texts that are missing.
MissingBegin == Begin("missing", Pages(LAMBDA p : p.content = "none"))

\* The workers share one session, and each writes as soon as its page has come.
MissingFetched(a) ==
    /\ script.name = "missing" /\ a \in script.rows \ script.got
    /\ script' = [script EXCEPT !.got = @ \cup {a}]
    /\ UNCHANGED <<home, stories, page, poll, asked, crossed, bare>>

\* The text, and the picture of the page over the one that is there, if it has any.
Rescraped(p, image) == [p EXCEPT !.content = "clean", !.image = IF image = "none" THEN @ ELSE image]

\* One after the other: all that had a text is stored.
MissingCommit ==
    \E found \in SUBSET script.got, image \in {"card", "shared", "own", "none"} :
        /\ script.name = "missing" /\ script.got = script.rows
        /\ page' = [a \in Articles |-> IF a \in found THEN Rescraped(page[a], image) ELSE page[a]]
        /\ script' = Idle
        /\ UNCHANGED <<home, stories, poll, asked, crossed, bare>>

\* Two at once: the second execute raises, gather passes it on, nothing is
\* committed.
MissingRaises ==
    /\ script.name = "missing" /\ Cardinality(script.got) >= 2
    /\ script' = [Idle EXCEPT !.got = script.got]
    /\ UNCHANGED <<home, stories, page, poll, asked, crossed, bare>>

\* A process ends: nothing of a script that commits once.
Crash ==
    /\ script.name # "none"
    /\ script' = Idle
    /\ UNCHANGED <<home, stories, page, poll, asked, crossed, bare>>

-----------------------------------------------------------------------------
Regroup ==
    \/ \E a \in Articles : Publish(a) \/ (\E s \in Articles : Match(a, s))
    \/ Attach \/ AttachFails \/ (\E s \in Articles : Ask(s) \/ Answer(s))
    \/ RunawayBegin(Least) \/ RunawayCommit \/ SingletonsBegin \/ SingletonsCommit
    \/ PurgeFraming \/ ClearRules \/ Crash
    \/ \E a \in Articles : RemoveSource(Outlet[a])

Scrapes ==
    \/ CleanSnippetsBegin \/ CleanSnippetsCommit
    \/ BackfillSnippetsBegin \/ BackfillSnippetsCommit
    \/ BackfillContentBegin \/ BackfillContentCommit
    \/ BrandedCardsBegin \/ BrandedCardsCommit \/ PlaceholdersBegin \/ PlaceholdersCommit
    \/ RelativeVideosBegin \/ RelativeVideosCommit \/ FixSchemeBegin \/ FixSchemeCommit
    \/ ClearFalseVideos \/ DimensionsBegin \/ DimensionsCommit
    \/ VideosBegin \/ VideosCommit \/ Crash
    \/ MissingBegin \/ MissingCommit \/ MissingRaises
    \/ \E a \in Articles : MissingFetched(a)

PageRow == [snippet : {"signed", "signoff", "clean", ""}, content : {"signed", "clean", "none"},
            image : {"card", "shared", "own", "none"},
            video : {"//", "http", "https", "youtube", "false", "none"},
            size : {NoRow, "known"}, short : {NoRow, "yes"}, kind : {"image", "video", "none"}]

RepairsSpec ==
    /\ \E known \in SUBSET Articles, pages \in [Articles -> PageRow] : RepairsInit(known, pages)
    /\ [][Regroup \/ Scrapes]_repairVars

-----------------------------------------------------------------------------
(* Properties.                                                                *)

\* Every article is in a story that exists, a story counts its own articles, and
\* one that grew is not dated back to its first article, except where a repair
\* and the poller or the enrichment were at work on it at once, or a source was
\* taken out of it.
StoryCountsItsOwn ==
    \A s \in Articles :
        /\ Members(s) # {} => stories[s] # NoRow
        /\ stories[s] # NoRow /\ s \notin crossed \cup bare
              => /\ stories[s].count = Cardinality(Members(s))
                 /\ stories[s].count >= 2 => stories[s].updated = "live"

\* No script spoils what is good: a clean text stays one, a picture of the story
\* stays, unless the second scrape of the page found another, and so does a
\* video that plays.
GoodPageStays ==
    [][\A a \in Articles :
         /\ page[a].snippet = "clean" => page'[a].snippet = "clean"
         /\ page[a].content = "clean" => page'[a].content = "clean"
         /\ page[a].image = "own" => \/ page'[a].image = "own"
                                    \/ (script.name = "missing" /\ page'[a].image # "none")
         /\ page[a].video \in {"https", "youtube"} => page'[a].video # "none"
      ]_page

\* A story of one article has no comparison between outlets left over from what
\* it was before its misfits were taken out, even when it was enriched before
\* and after; only an answer that the repair did not know of, when it read the
\* story or when it wrote it, survives.
FramingIsOfTheStory ==
    \A s \in Rows \ (crossed \cup bare) :
        Cardinality(Members(s)) = 1 => stories[s].framing = "none"

\* Repairs leave stories that are true to their articles, and good pages as
\* they are.
StoriesStayTrue == [](StoryCountsItsOwn /\ FramingIsOfTheStory) /\ GoodPageStays
=============================================================================
