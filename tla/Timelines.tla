------------------------------- MODULE Timelines -------------------------------
(***************************************************************************)
(* The timelines ("story so far"): the daily run that gives chains of       *)
(* clusters a narrative and the first of them a place in the top           *)
(* (scripts/build_story_timelines.py), the desk that picks some of them     *)
(* (app/admin_timelines.py) and narrates one again                         *)
(* (services/timeline_narration.py).                                       *)
(*                                                                         *)
(* A run works in one session that is committed at its end.  The session   *)
(* does not flush before a query (autoflush=False, app/database.py) and    *)
(* writes the columns it has changed; a query that meets a row the session *)
(* has loaded keeps the loaded attributes.                                 *)
(***************************************************************************)
EXTENDS Integers, Sequences, FiniteSets

CONSTANTS
    Generation,     \* runs
    Narrator,       \* narrations
    Slots,
    ScanCap,        \* chains a run tries at most, besides the picks'
    Newest,         \* the newest cluster: they are numbered as they were first seen
    Chains,         \* lists of groups of clusters that build_chains may keep
    MaxTexts,       \* bound: narratives written
    MaxFeatures     \* bound: rows

\* build_chains keeps no group of one.
TimelinesAssumption ==
    /\ {Slots, ScanCap, Newest, MaxTexts, MaxFeatures} \subseteq Nat
    /\ \A chains \in Chains :
        /\ chains \in Seq(SUBSET (1 .. Newest))
        /\ \A k \in DOMAIN chains : Cardinality(chains[k]) > 1
ASSUME TimelinesAssumption

VARIABLES
    feature,    \* story_timeline_features, in the order of their ids
    gen,        \* what each run has in its session
    narrator,   \* what each narration has read
    texts,
    last,       \* history: the rows the last run gave a place, those it moved to a new anchor,
                \* and those whose narrative failed
    mute,       \* history: rows whose narrative is newer than their audio, since that failed
    over        \* history: a row changed under somebody who then wrote

tvars == <<feature, gen, narrator, texts, last, mute, over>>

\* A row as the desk's pick inserts it; last_seen_in_top is true by default.
Unwritten(c, pick) ==
    [anchor |-> c, pick |-> pick, coherent |-> "unjudged", of |-> {}, text |-> 0, voice |-> 0, top |-> TRUE, dropped |-> FALSE]

Waits == [pc |-> "off"]

TimelinesInit ==
    /\ feature = <<>>
    /\ gen = [g \in Generation |-> Waits] /\ narrator = [n \in Narrator |-> Waits]
    /\ texts = 0 /\ last = [filled |-> {}, moved |-> {}, failed |-> {}] /\ mute = {} /\ over = FALSE

Id == DOMAIN feature
Known == 1 .. Newest
Latest(s) == CHOOSE x \in s : \A y \in s : y <= x

\* The chain of a cluster: of the groups it is in, the one kept last.
Assigned(chains, c) == LET in == {k \in DOMAIN chains : c \in chains[k]} IN IF in = {} THEN {} ELSE chains[Latest(in)]

-----------------------------------------------------------------------------
(* A run.                                                                  *)

\* What the desk has to say, for the history of a run.
Marks == [i \in Id |-> feature[i].pick]

\* A cycle is due at six, at the scheduler's start and by hand.
CycleDue(g) == gen[g] = Waits

\* load_candidates: the picks are loaded rows, the chains are those some
\* cluster is assigned to and no rejected timeline touches.
StartGeneration(g, chains) ==
    LET rejected == UNION {feature[i].of : i \in {x \in Id : feature[x].coherent = "no"}}
        picks == {i \in Id : feature[i].pick} IN
    /\ CycleDue(g)
    /\ gen' = [gen EXCEPT ![g] =
        [pc |-> "scan", chains |-> chains, start |-> Marks, picks |-> picks, found |-> 0, scanned |-> 0, filled |-> {}, tried |-> {}, used |-> {},
         passed |-> {}, failed |-> {}, crossed |-> FALSE,
         open |-> {c \in {Assigned(chains, x) : x \in Known} : Cardinality(c) > 1 /\ c \cap rejected = {}},
         loaded |-> [i \in picks |-> feature[i]], mine |-> [i \in picks |-> feature[i]], fresh |-> {}]]
    /\ UNCHANGED <<feature, narrator, texts, last, mute, over>>

\* _find_existing_row: the row at the newest cluster of the chain, or else
\* the one generated last.
Seen(m, i) == IF i \in DOMAIN m.mine THEN m.mine[i] ELSE feature[i]
Existing(m, chain) ==
    LET matches == {i \in Id : feature[i].anchor \in chain}
        exact == {i \in matches : Seen(m, i).anchor = Latest(chain)} IN
    IF exact # {} THEN exact
    ELSE {i \in matches : \A j \in matches : feature[i].text = 0 \/ feature[j].text <= feature[i].text}

Outcome == {"error", "rejected", "silent", "voiced"}

\* What a narrative makes of a row; a failed one leaves the new anchor and pick.
Narrated(f, chain, pick, outcome) ==
    LET moved == [f EXCEPT !.anchor = Latest(chain), !.pick = pick] IN
    IF outcome = "error" THEN moved
    ELSE [moved EXCEPT !.coherent = IF outcome = "rejected" THEN "no" ELSE "yes",
                       !.of = chain, !.text = texts + 1, !.voice = IF outcome = "voiced" THEN texts + 1 ELSE @]

Overlaps(m, chain) == chain \cap m.used # {}

\* generate_for_chain, and what run makes of its answer.
Given(m, chain, pick, coherent) ==
    [m EXCEPT !.tried = @ \cup {Latest(chain)}, !.used = @ \cup chain,
              !.filled = IF pick \/ coherent THEN @ \cup {Latest(chain)} ELSE @,
              !.found = IF pick \/ coherent THEN @ + 1 ELSE @]
Loads(m, i, f) ==
    [m EXCEPT !.loaded = [x \in DOMAIN m.loaded \cup {i} |-> IF x \in DOMAIN m.loaded THEN m.loaded[x] ELSE feature[x]],
              !.mine = [x \in DOMAIN m.mine \cup {i} |-> IF x = i THEN f ELSE m.mine[x]]]
UpToDate(f, chain) == f.text # 0 /\ f.of = chain

SkipChain(g, m, chain, pick) ==
    \E i \in Existing(m, chain) :
        /\ UpToDate(Seen(m, i), chain)
        /\ gen' = [gen EXCEPT ![g] = Given(Loads(m, i, Seen(m, i)), chain, pick, Seen(m, i).coherent = "yes")]
        /\ UNCHANGED texts

Generate(g, m, chain, pick) ==
    \E outcome \in Outcome :
        LET took == Given(m, chain, pick, outcome \in {"silent", "voiced"}) IN
        /\ texts' = IF outcome = "error" THEN texts ELSE texts + 1
        /\ texts' <= MaxTexts
        /\ \/ /\ Existing(m, chain) = {}
              /\ gen' = [gen EXCEPT ![g] =
                    [took EXCEPT !.fresh = @ \cup {Narrated(Unwritten(Latest(chain), pick), chain, pick, outcome)}]]
           \/ \E i \in Existing(m, chain) :
                /\ ~UpToDate(Seen(m, i), chain)
                /\ gen' = [gen EXCEPT ![g] =
                    [Loads(took, i, Narrated(Seen(m, i), chain, pick, outcome)) EXCEPT
                        !.failed = IF outcome = "error" THEN @ \cup {i} ELSE @]]

\* The picks come first, in any order; one takes a place whatever comes of it.
NextPick(g, i) ==
    LET m == gen[g]
        chain == Assigned(m.chains, m.mine[i].anchor)
        rest == [m EXCEPT !.picks = @ \ {i}] IN
    /\ m.pc = "scan" /\ i \in m.picks
    /\ IF Cardinality(chain) <= 1 \/ Overlaps(m, chain)
       THEN /\ gen' = [gen EXCEPT ![g] = [rest EXCEPT !.passed = IF Overlaps(m, chain) THEN @ \cup {i} ELSE @]]
            /\ UNCHANGED texts
       ELSE SkipChain(g, rest, chain, TRUE) \/ Generate(g, rest, chain, TRUE)
    /\ UNCHANGED <<feature, narrator, last, mute, over>>

\* Then the others, the longest first, while there are slots.
Ranked(m) == {c \in m.open : ~Overlaps(m, c)}
More(m) == m.found < Slots /\ m.scanned < ScanCap
NextChain(g) ==
    LET m == gen[g] IN
    /\ m.pc = "scan" /\ m.picks = {} /\ More(m)
    /\ \E chain \in Ranked(m) :
        LET next == [m EXCEPT !.scanned = @ + 1] IN
        /\ \A c \in Ranked(m) : Cardinality(c) <= Cardinality(chain)
        /\ SkipChain(g, next, chain, FALSE) \/ Generate(g, next, chain, FALSE)
    /\ UNCHANGED <<feature, narrator, last, mute, over>>

\* set_last_seen_in_top, of a row or of none.
Placed(f, value) == [f EXCEPT !.top = value, !.dropped = IF value THEN FALSE ELSE @ \/ f.top]

Falls(m, f) == f.anchor \notin m.tried

\* The rows are looked for at their committed anchors, and what is new is
\* not found: both keep the place they have.
SetTop(m, i) ==
    IF feature[i].anchor \notin m.tried THEN Seen(m, i)
    ELSE IF feature[i].anchor \in m.filled THEN Placed(Seen(m, i), TRUE) ELSE Placed(Seen(m, i), FALSE)
Swept(m, i) == IF Falls(m, SetTop(m, i)) THEN Placed(SetTop(m, i), FALSE) ELSE SetTop(m, i)

\* Only changed columns are written.
Kept(now, was, is) == IF is = was THEN now ELSE is
Merged(m, i) ==
    LET now == feature[i]  was == IF i \in DOMAIN m.loaded THEN m.loaded[i] ELSE now  is == Swept(m, i) IN
    [anchor |-> Kept(now.anchor, was.anchor, is.anchor), pick |-> Kept(now.pick, was.pick, is.pick),
     coherent |-> Kept(now.coherent, was.coherent, is.coherent), of |-> Kept(now.of, was.of, is.of),
     text |-> Kept(now.text, was.text, is.text), voice |-> Kept(now.voice, was.voice, is.voice),
     top |-> Kept(now.top, was.top, is.top), dropped |-> Kept(now.dropped, was.dropped, is.dropped)]

Rewritten(m, i) == i \in DOMAIN m.mine /\ m.mine[i].text # m.loaded[i].text
Crossed(m) == IF m = Waits THEN m ELSE [m EXCEPT !.crossed = TRUE]

Done(m) == m.pc = "scan" /\ m.picks = {} /\ (More(m) => Ranked(m) = {})

\* The commit; two rows at one anchor lose the whole run.
CommitRun(g) ==
    LET m == gen[g]
        merged == [i \in Id |-> Merged(m, i)] IN
    /\ Done(m)
    /\ \E new \in {f \in [1 .. Cardinality(m.fresh) -> m.fresh] : \A x, y \in DOMAIN f : x # y => f[x] # f[y]} :
        LET all == merged \o new IN
        IF \E x, y \in DOMAIN all : x # y /\ all[x].anchor = all[y].anchor
        THEN gen' = [gen EXCEPT ![g] = Waits] /\ UNCHANGED <<feature, last, mute, over>>
        ELSE /\ Len(all) <= MaxFeatures
             /\ feature' = all
             /\ last' = [filled |-> {i \in DOMAIN all : all[i].anchor \in m.filled}, failed |-> m.failed,
                         moved |-> {i \in DOMAIN m.mine : m.mine[i].anchor # m.loaded[i].anchor}]
             /\ mute' = {i \in DOMAIN all : IF i \notin Id THEN all[i].voice # all[i].text
                                             ELSE IF Rewritten(m, i) THEN m.mine[i].voice # m.mine[i].text ELSE i \in mute}
             /\ over' = (over \/ m.crossed \/ m.start # Marks)
             /\ gen' = [h \in Generation |-> IF h = g THEN Waits ELSE Crossed(gen[h])]
    /\ UNCHANGED <<narrator, texts>>

\* An exception or the end of the process loses the session.
LoseRun(g) ==
    /\ gen[g] # Waits
    /\ gen' = [gen EXCEPT ![g] = Waits]
    /\ UNCHANGED <<feature, narrator, texts, last, mute, over>>

-----------------------------------------------------------------------------
(* The desk.                                                               *)

Pick(c) ==
    /\ IF \E i \in Id : feature[i].anchor = c
       THEN feature' = [i \in Id |-> IF feature[i].anchor = c THEN [feature[i] EXCEPT !.pick = TRUE] ELSE feature[i]]
       ELSE Len(feature) < MaxFeatures /\ feature' = Append(feature, Unwritten(c, TRUE))
    /\ feature' # feature
    /\ UNCHANGED <<gen, narrator, texts, last, mute, over>>

Unpick(i) ==
    /\ feature[i].pick
    /\ feature' = [feature EXCEPT ![i].pick = FALSE]
    /\ UNCHANGED <<gen, narrator, texts, last, mute, over>>

-----------------------------------------------------------------------------
(* A narration, one at a time of a row.                                    *)

StartNarration(n, i) ==
    /\ narrator[n] = Waits
    /\ feature[i].coherent = "yes"
    /\ \A x \in Narrator : narrator[x] # Waits => narrator[x].row # i
    /\ narrator' = [narrator EXCEPT ![n] = [pc |-> "voicing", row |-> i, text |-> feature[i].text]]
    /\ UNCHANGED <<feature, gen, texts, last, mute, over>>

\* Mutant of SameText: what was read before the calls is written after them.
SameTextAlways(v) == TRUE

SameText(v) == feature[v.row].text = v.text

CheckNarration(n, ok) ==
    LET v == narrator[n] IN
    /\ v.pc = "voicing"
    /\ narrator' = [narrator EXCEPT ![n] = IF ok /\ SameText(v) THEN [v EXCEPT !.pc = "save"] ELSE Waits]
    /\ UNCHANGED <<feature, gen, texts, last, mute, over>>

SaveNarration(n) ==
    LET v == narrator[n] IN
    /\ v.pc = "save"
    /\ feature' = [feature EXCEPT ![v.row].voice = v.text]
    /\ mute' = IF feature[v.row].text = v.text THEN mute \ {v.row} ELSE mute
    /\ narrator' = [narrator EXCEPT ![n] = Waits]
    /\ over' = (over \/ ~SameText(v))
    /\ UNCHANGED <<gen, texts, last>>

TimelinesNext ==
    \/ \E g \in Generation : \/ \E chains \in Chains : StartGeneration(g, chains)
                             \/ \E i \in Id : NextPick(g, i)
                             \/ NextChain(g) \/ CommitRun(g) \/ LoseRun(g)
    \/ \E c \in Known : Pick(c)
    \/ \E i \in Id : Unpick(i) \/ \E n \in Narrator : StartNarration(n, i)
    \/ \E n \in Narrator : SaveNarration(n) \/ \E ok \in BOOLEAN : CheckNarration(n, ok)

TimelinesSpec == TimelinesInit /\ [][TimelinesNext]_tvars

-----------------------------------------------------------------------------
(* Properties.                                                             *)

\* What the tab lists.
Listed == {i \in Id : feature[i].top /\ feature[i].coherent = "yes"}

\* The tab shows what the last run gave a place, and nothing else, but for
\* the rows that it moved to a new anchor; no cluster is told twice there, but
\* by a pick whose narrative has failed and is that of an earlier day.
TopIsOfTheRun ==
    LET listed == Listed \ last.moved IN
    over \/ /\ listed = {i \in last.filled : feature[i].coherent = "yes"} \ last.moved
            /\ \A i, j \in listed \ last.failed : i # j => feature[i].of \cap feature[j].of = {}
            /\ \A i \in listed : ~feature[i].dropped

\* The audio of a row is of the narrative on its page, or the row's own
\* synthesis failed since: a narration that a run has overtaken is not stored.
VoiceIsOfThePage == over \/ \A i \in Id : feature[i].voice \in {0, feature[i].text} \/ i \in mute
\* A pick is only taken back by the desk: no run ends it, unless the desk
\* picked while it was under way, or the run passed the pick over since its
\* chain overlaps another pick's.
PickIsTheDesks ==
    [][(\E g \in Generation : gen'[g] # gen[g]) =>
        over' \/ \A i \in Id : feature[i].pick => feature'[i].pick
                    \/ \E g \in Generation : gen[g] # Waits /\ gen'[g] = Waits /\ i \in gen[g].passed]_tvars

\* What the tab lists, and what is spoken there, is of the last run, and the
\* desk's picks are kept.
TimelinesAreOfTheRun == [](TopIsOfTheRun /\ VoiceIsOfThePage) /\ PickIsTheDesks

=============================================================================
