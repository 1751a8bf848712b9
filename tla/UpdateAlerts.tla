---------------------------- MODULE UpdateAlerts ----------------------------
(***************************************************************************)
(* Alerts about a followed topic (services/topic_updates.py) and a         *)
(* followed source (services/source_updates.py), and the requests that     *)
(* follow and unfollow them (app/main.py).                                 *)
(*                                                                         *)
(* A run of scripts/send_notifications.py detects developments of the      *)
(* topic, sends them, drops the states nobody follows, and then sends the  *)
(* sources' new articles.  Runs overlap as they like: the job lease is not *)
(* relied on.  Each step is isolated: an error ends it and not the run.    *)
(*                                                                         *)
(* One topic and one source, which is all that two followers can contend   *)
(* for.  A summary is a set of points; points that overlap count as one.   *)
(* Time is counted in ticks, DayLen of them to a day.                      *)
(***************************************************************************)
EXTENDS Integers, Sequences, FiniteSets, Functions

CONSTANTS
    Reader, Cluster, Summary, UpdateRun,   \* a summary is the set of its points
    Candidates, \* MAX_CANDIDATES_PER_TOPIC
    Lookback,   \* MATCH_LOOKBACK
    Gap,        \* MIN_GAP_BETWEEN_PUSHES
    DailyLimit, \* DAILY_CAP
    DayTicks,
    MaxNow,   \* bound: clock
    MaxEdits,   \* bound: enrichments of all stories
    MaxArticle, \* bound: articles of the source
    MaxDevs,    \* bound: developments recorded
    MaxFollows  \* bound: follows made

ASSUME UpdateAssumption == Gap \in Nat /\ IsFiniteSet(Cluster) /\ Candidates \in Nat

VARIABLES
    now,
    story,      \* story_clusters: what a search for the topic sees
    state,      \* topic_cluster_state of the topic
    dev,        \* topic_developments, by id
    newest,     \* highest article id of the source
    follow,     \* topic_follows and source_follows
    logged,     \* notification_log rows, counted by channel, reader and day
    reach,      \* readers with a device token
    urun,       \* what each run holds in memory
    asking,     \* follow requests between their reads and their commit
    told,       \* history: what each follow was pushed, in order
    before,     \* history: the newest stories that matched when the follow was made
    raced,      \* history: states were dropped while a follow was made
    lowered,    \* history: follows whose mark a run moved back, by channel
    muted,      \* preferences: readers with these alerts off
    made        \* follows made: the last id

uvars == <<now, story, state, dev, newest, follow, logged, reach, urun, asking, told, before, raced,
           lowered, muted, made>>

Channel == {"topic", "source"}
UDay(t) == t \div DayTicks

NoFollow == [id |-> 0, since |-> 0, mark |-> 0, at |-> -Gap]
Untracked == [known |-> {}, sources |-> 0, checked |-> -1]
Quiet == [pc |-> "off", now |-> 0, seen |-> <<>>, states |-> [c \in Cluster |-> Untracked],
          rows |-> [u \in Reader |-> NoFollow], items |-> <<>>, todo |-> {}, who |-> {}, tokens |-> {}, off |-> {}]
NotAsking == [pc |-> "off"]

UpdateInit ==
    /\ now = 0
    /\ story = [c \in Cluster |-> [matches |-> FALSE, runaway |-> FALSE, points |-> {}, sources |-> 1,
                                enriched |-> -1, updated |-> -1]]
    /\ state = [c \in Cluster |-> Untracked]
    /\ dev = <<>>
    /\ newest = 0
    /\ follow = [ch \in Channel |-> [u \in Reader |-> NoFollow]]
    /\ logged = [ch \in Channel |-> [u \in Reader |-> [d \in 0 .. UDay(MaxNow) |-> 0]]]
    /\ reach = Reader
    /\ urun = [r \in UpdateRun |-> Quiet]
    /\ asking = [u \in Reader |-> NotAsking]
    /\ told = [ch \in Channel |-> [u \in Reader |-> <<>>]]
    /\ before = [u \in Reader |-> {}]
    /\ raced = FALSE
    /\ lowered = {}
    /\ muted = {}
    /\ made = 0

Tracked(c) == state[c] # Untracked
Followed == \E u \in Reader : follow["topic"][u].id # 0

-----------------------------------------------------------------------------
(* The poller and the enrichment, as far as this step sees them.           *)

\* A story gains a source and a summary; from now on it matches the topic.
Enrich(c) ==
    \E ps \in Summary, wide \in BOOLEAN :
        /\ story[c].sources <= MaxEdits
        /\ story' = [story EXCEPT ![c] = [matches |-> TRUE, runaway |-> wide, points |-> ps,
                                          sources |-> @.sources + 1, enriched |-> now, updated |-> now]]
        /\ UNCHANGED <<now, state, dev, newest, follow, logged, reach, urun, asking, told, before, raced, lowered, muted, made>>

\* Another article of a source it has: last_updated_at moves, and nothing else.
Rejoin(c) ==
    /\ story[c].matches
    /\ story' = [story EXCEPT ![c].updated = now]
    /\ UNCHANGED <<now, state, dev, newest, follow, logged, reach, urun, asking, told, before, raced, lowered, muted, made>>

Publish ==
    /\ newest < MaxArticle
    /\ newest' = newest + 1
    /\ UNCHANGED <<now, story, state, dev, follow, logged, reach, urun, asking, told, before, raced, lowered, muted, made>>

UTick ==
    /\ now < MaxNow
    /\ now' = now + 1
    /\ UNCHANGED <<story, state, dev, newest, follow, logged, reach, urun, asking, told, before, raced, lowered, muted, made>>

-----------------------------------------------------------------------------
(* follow_topic, unfollow_topic, subscribe_to_source and its opposite.     *)

Matching == {c \in Cluster : story[c].matches /\ story[c].updated >= now - Lookback}

\* _matching_clusters takes the newest of them, those of one time in any order.
Newest ==
    {w \in SUBSET Matching :
        /\ Cardinality(w) = IF Cardinality(Matching) <= Candidates THEN Cardinality(Matching) ELSE Candidates
        /\ \A c \in w, d \in Matching \ w : story[c].updated >= story[d].updated}

\* Mutant of Missing: nothing is seeded.
MissingForNone(w) == {}

Missing(w) == {c \in w : ~Tracked(c)}

\* seed_topic_follow_state reads the stories and which of them are tracked.
AskTopic(u) ==
    /\ asking[u].pc = "off"
    /\ follow["topic"][u].id = 0 /\ made < MaxFollows
    /\ \E w \in Newest :
           asking' = [asking EXCEPT ![u] = [pc |-> "topic", at |-> now, missing |-> Missing(w), match |-> w,
                                            seen |-> [c \in Cluster |-> story[c]]]]
    /\ UNCHANGED <<now, story, state, dev, newest, follow, logged, reach, urun, told, before, raced, lowered, muted, made>>

\* The follow and the missing states are committed together, or not at all
\* when one of the states has been inserted by somebody else.
FollowTopic(u) ==
    LET q == asking[u] IN
    /\ q.pc = "topic"
    /\ asking' = [asking EXCEPT ![u] = NotAsking]
    /\ IF \E c \in q.missing : Tracked(c)
       THEN UNCHANGED <<state, follow, told, before, lowered, made>>
       ELSE /\ state' = [c \in Cluster |-> IF c \in q.missing
                            THEN [known |-> q.seen[c].points, sources |-> q.seen[c].sources, checked |-> q.at]
                            ELSE state[c]]
            /\ follow' = [follow EXCEPT !["topic"][u] = [id |-> made + 1, since |-> q.at, mark |-> 0, at |-> -Gap]]
            /\ told' = [told EXCEPT !["topic"][u] = <<>>]
            /\ before' = [before EXCEPT ![u] = q.match]
            /\ made' = made + 1
            /\ lowered' = lowered \ {<<"topic", u>>}
    /\ UNCHANGED <<now, story, dev, newest, logged, reach, urun, raced, muted>>

UnfollowTopic(u) ==
    /\ follow["topic"][u].id # 0
    /\ follow' = [follow EXCEPT !["topic"][u] = NoFollow]
    /\ told' = [told EXCEPT !["topic"][u] = <<>>]
    /\ before' = [before EXCEPT ![u] = {}]
    /\ lowered' = lowered \ {<<"topic", u>>}
    /\ UNCHANGED <<now, story, state, dev, newest, logged, reach, urun, asking, raced, muted, made>>

\* expire_orphaned_topic_state: one statement, which does not see a follow
\* that is not committed.
DropOrphans ==
    /\ state' = IF Followed THEN state ELSE [c \in Cluster |-> Untracked]
    /\ raced' = (raced \/ (~Followed /\ \E u \in Reader : asking[u].pc = "topic"))

ExpireOrphans ==
    /\ ~Followed /\ \E c \in Cluster : Tracked(c)
    /\ DropOrphans
    /\ UNCHANGED <<now, story, dev, newest, follow, logged, reach, urun, asking, told, before, lowered, muted, made>>

Subscribe(u) ==
    /\ follow["source"][u].id = 0 /\ made < MaxFollows
    /\ made' = made + 1
    /\ follow' = [follow EXCEPT !["source"][u] = [id |-> made + 1, since |-> now, mark |-> newest, at |-> -Gap]]
    /\ told' = [told EXCEPT !["source"][u] = <<>>]
    /\ lowered' = lowered \ {<<"source", u>>}
    /\ UNCHANGED <<now, story, state, dev, newest, logged, reach, urun, asking, before, raced, muted>>

Unsubscribe(u) ==
    /\ follow["source"][u].id # 0
    /\ follow' = [follow EXCEPT !["source"][u] = NoFollow]
    /\ told' = [told EXCEPT !["source"][u] = <<>>]
    /\ lowered' = lowered \ {<<"source", u>>}
    /\ UNCHANGED <<now, story, state, dev, newest, logged, reach, urun, asking, before, raced, muted, made>>

\* PUT /users/{id}/preferences, at any time.
SetPreference(u) ==
    /\ muted' = IF u \in muted THEN muted \ {u} ELSE muted \cup {u}
    /\ UNCHANGED <<now, story, state, dev, newest, follow, logged, reach, urun, asking, told, before, raced, lowered, made>>

-----------------------------------------------------------------------------
(* detect_topic_developments.                                              *)

\* The run's time is read first: whatever happens after it is later.
StartRun(r) ==
    /\ urun[r].pc = "off"
    /\ now < MaxNow
    /\ now' = now + 1
    /\ \E w \in Newest :
           urun' = [urun EXCEPT ![r] = [Quiet EXCEPT !.now = now, !.pc = IF Followed THEN "detect" ELSE "topic",
                                                     !.seen = [c \in w |-> story[c]]]]
    /\ UNCHANGED <<story, state, dev, newest, follow, logged, reach, asking, told, before, raced, lowered, muted, made>>

ReadStates(r) ==
    /\ urun[r].pc = "detect"
    /\ urun' = [urun EXCEPT ![r].pc = "record", ![r].states = state]
    /\ UNCHANGED <<now, story, state, dev, newest, follow, logged, reach, asking, told, before, raced, lowered, muted, made>>

\* A story without a state is new; one enriched since its state was checked
\* develops if it has a point nobody knew and more sources than before.
IsNew(m, c) == m.states[c] = Untracked
Reviewed(m, c) == ~IsNew(m, c) /\ m.seen[c].enriched > m.states[c].checked
Develops(m, c) ==
    /\ Reviewed(m, c) /\ ~m.seen[c].runaway
    /\ m.seen[c].points \ m.states[c].known # {}
    /\ m.seen[c].sources > m.states[c].sources

Finds(m) == {c \in DOMAIN m.seen : (IsNew(m, c) /\ ~m.seen[c].runaway) \/ Develops(m, c)}

Checked(m, c) ==
    [known |-> m.seen[c].points \cup m.states[c].known, sources |-> m.seen[c].sources, checked |-> m.now]

\* The commit fails if a new state exists by now, or a changed one is gone.
Conflict(m) ==
    \E c \in DOMAIN m.seen : \/ IsNew(m, c) /\ Tracked(c)
                             \/ Reviewed(m, c) /\ ~Tracked(c)

NewDevs(m) ==
    {[i \in DOMAIN order |-> [story |-> order[i], at |-> m.now,
                              kind |-> IF IsNew(m, order[i]) THEN "new_story" ELSE "new_bullet"]] :
        order \in Injection(1 .. Cardinality(Finds(m)), Finds(m))}

\* An error ends the step: the sources are next, or whatever follows them.
Aborted(m, ch) == IF ch = "topic" THEN [Quiet EXCEPT !.pc = "source", !.now = m.now] ELSE Quiet

Record(r) ==
    LET m == urun[r] IN
    /\ m.pc = "record"
    /\ Len(dev) + Cardinality(Finds(m)) <= MaxDevs
    /\ IF Conflict(m)
       THEN /\ urun' = [urun EXCEPT ![r] = Aborted(m, "topic")]
            /\ UNCHANGED <<state, dev>>
       ELSE /\ state' = [c \in Cluster |-> IF c \in DOMAIN m.seen /\ (IsNew(m, c) \/ Reviewed(m, c))
                                         THEN Checked(m, c) ELSE state[c]]
            /\ \E new \in NewDevs(m) : dev' = dev \o new
            /\ urun' = [urun EXCEPT ![r] = [Quiet EXCEPT !.pc = "topic", !.now = m.now]]
    /\ UNCHANGED <<now, story, newest, follow, logged, reach, asking, told, before, raced, lowered, muted, made>>

-----------------------------------------------------------------------------
(* send_topic_updates and send_source_updates: load everything, and then,  *)
(* follow by follow, count, claim and push.                                *)

DevelopmentsSince(m, t) == {i \in 1 .. Len(m.items) : m.items[i].at >= t}
LatestArticle(m) == {m.items[1]}

\* What a follow has not been told of, and the latest of it.
News(m, ch, u) ==
    {i \in IF ch = "source" THEN LatestArticle(m) ELSE DevelopmentsSince(m, m.rows[u].since) : i > m.rows[u].mark}
Latest(m, ch, u) == {i \in News(m, ch, u) : \A j \in News(m, ch, u) : j <= i}

Loop(ch) == IF ch = "topic" THEN "topics" ELSE "sources"

\* What comes after a step that has come to its end.
Ended(m, ch) == [Quiet EXCEPT !.pc = IF ch = "topic" THEN "expire" ELSE "off", !.now = m.now]
Without(m, ch, u) == IF m.todo = {u} THEN Ended(m, ch) ELSE [m EXCEPT !.todo = @ \ {u}, !.who = {}]

\* Follows with nothing new are passed by.
Load(r, ch) ==
    LET m == [Quiet EXCEPT !.pc = Loop(ch), !.now = urun[r].now, !.rows = follow[ch], !.tokens = reach,
                           !.off = muted, !.items = IF ch = "topic" THEN dev ELSE <<newest>>]
        due == {u \in Reader : follow[ch][u].id # 0 /\ News(m, ch, u) # {}} IN
    /\ urun[r].pc = ch
    /\ urun' = [urun EXCEPT ![r] = IF due = {} THEN Ended(m, ch) ELSE [m EXCEPT !.todo = due]]
    /\ UNCHANGED <<now, story, state, dev, newest, follow, logged, reach, asking, told, before, raced, lowered, muted, made>>

MayPush(m, u, today) == today < DailyLimit /\ m.now - m.rows[u].at >= Gap

\* The row that was loaded is still there.
Same(m, ch, u) == follow[ch][u].id = m.rows[u].id

Step(r, ch, u) == urun[r].pc = Loop(ch) /\ urun[r].who = {} /\ u \in urun[r].todo

\* Alerts were off when the users were loaded: the mark is set, whatever it is
\* by now; a follow that has been deleted meanwhile cannot be written and ends
\* the step.
PassOver(r, ch, u) ==
    LET m == urun[r] IN
    /\ Step(r, ch, u) /\ u \in m.off
    /\ IF Same(m, ch, u)
       THEN /\ \E i \in Latest(m, ch, u) :
                   /\ follow' = [follow EXCEPT ![ch][u].mark = i]
                   /\ lowered' = IF i < follow[ch][u].mark THEN lowered \cup {<<ch, u>>} ELSE lowered
            /\ urun' = [urun EXCEPT ![r] = Without(m, ch, u)]
       ELSE /\ urun' = [urun EXCEPT ![r] = Aborted(m, ch)]
            /\ UNCHANGED <<follow, lowered>>
    /\ UNCHANGED <<now, story, state, dev, newest, logged, reach, asking, told, before, raced, muted, made>>

\* The day's count is read once per reader and run.
Count(r, ch, u) ==
    LET m == urun[r] IN
    /\ Step(r, ch, u) /\ u \notin m.off
    /\ urun' = [urun EXCEPT ![r] = IF MayPush(m, u, logged[ch][u][UDay(m.now)])
                                   THEN [m EXCEPT !.who = {u}] ELSE Without(m, ch, u)]
    /\ UNCHANGED <<now, story, state, dev, newest, follow, logged, reach, asking, told, before, raced, lowered, muted, made>>

\* UPDATE ... WHERE the mark is lower, with the log row, in one commit.  A
\* lost claim rolls back, which expires every loaded row: the next follow
\* cannot be read and the step ends.
Claimable(m, ch, u, i) == Same(m, ch, u) /\ follow[ch][u].mark < i

ClaimUpdate(r, ch, u) ==
    LET m == urun[r] IN
    /\ m.pc = Loop(ch) /\ m.who = {u}
    /\ \E i \in Latest(m, ch, u) :
         IF Claimable(m, ch, u, i)
         THEN /\ follow' = [follow EXCEPT ![ch][u].mark = i, ![ch][u].at = m.now]
              /\ logged' = [logged EXCEPT ![ch][u][UDay(m.now)] = @ + 1]
              /\ told' = [told EXCEPT ![ch][u] = IF u \in m.tokens THEN Append(told[ch][u], i) ELSE told[ch][u]]
              /\ urun' = [urun EXCEPT ![r] = Without(m, ch, u)]
              /\ \/ UNCHANGED reach
                 \/ u \in m.tokens /\ reach' = reach \ {u}    \* the push failed
         ELSE /\ urun' = [urun EXCEPT ![r] = IF m.todo = {u} THEN Ended(m, ch) ELSE Aborted(m, ch)]
              /\ UNCHANGED <<follow, logged, told, reach>>
    /\ UNCHANGED <<now, story, state, dev, newest, asking, before, raced, lowered, muted, made>>

RunExpires(r) ==
    /\ urun[r].pc = "expire"
    /\ DropOrphans
    /\ urun' = [urun EXCEPT ![r].pc = "source"]
    /\ UNCHANGED <<now, story, dev, newest, follow, logged, reach, asking, told, before, lowered, muted, made>>

Send(r, ch) ==
    \/ Load(r, ch)
    \/ \E u \in Reader : PassOver(r, ch, u) \/ Count(r, ch, u) \/ ClaimUpdate(r, ch, u)

detect_topic_developments(r) == StartRun(r) \/ ReadStates(r) \/ Record(r)
send_topic_updates(r) == Send(r, "topic")
send_source_updates(r) == Send(r, "source")

UpdateNext ==
    \/ \E c \in Cluster : Enrich(c) \/ Rejoin(c)
    \/ Publish \/ UTick \/ ExpireOrphans
    \/ \E u \in Reader : \/ AskTopic(u) \/ FollowTopic(u) \/ UnfollowTopic(u)
                         \/ Subscribe(u) \/ Unsubscribe(u) \/ SetPreference(u)
    \/ \E r \in UpdateRun :
        \/ detect_topic_developments(r) \/ send_topic_updates(r) \/ RunExpires(r)
        \/ send_source_updates(r)

UpdateSpec == UpdateInit /\ [][UpdateNext]_uvars

-----------------------------------------------------------------------------
(* Properties.                                                             *)

\* A follower is told once that a story is new, whatever runs overlap: the
\* development and the state that says so are committed together
\* (detect_topic_developments), unless the states were dropped as orphans
\* while the follow was being made.
ToldNewOnce ==
    raced \/ \A u \in Reader : \A i, j \in DOMAIN told["topic"][u] :
        LET a == told["topic"][u][i]
            b == told["topic"][u][j]
        IN  (dev[a].kind = "new_story" /\ dev[b].kind = "new_story" /\ dev[a].story = dev[b].story) => a = b

\* A story that was among the newest that matched the topic when it was
\* followed is not news to the follower (seed_topic_follow_state), unless the
\* states were dropped as orphans while the follow was being made.
NewIsNew ==
    raced \/ \A u \in Reader : \A i \in DOMAIN told["topic"][u] :
        LET d == dev[told["topic"][u][i]] IN d.kind = "new_story" => d.story \notin before[u]

\* What a follow is pushed moves forward, in both channels: a run that
\* loaded its items earlier does not push an older one after a newer one,
\* nor the same again (the guarded UPDATE of the claim), unless a run that
\* had loaded the reader with alerts off moved the mark back.
PushesMoveForward ==
    \A ch \in Channel, u \in Reader : <<ch, u>> \notin lowered =>
        \A i, j \in DOMAIN told[ch][u] : i < j => told[ch][u][i] < told[ch][u][j]

\* What a follower is told is news, once, and in order.
FollowersHearNews == ToldNewOnce /\ NewIsNew /\ PushesMoveForward

=============================================================================
