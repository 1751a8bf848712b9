----------------------------- MODULE DailyBriefs -----------------------------
(***************************************************************************)
(* The daily brief and the late-night wrap-up: the choice of the stories    *)
(* (services/daily_brief_select.py), the script and what is accepted of it  *)
(* (services/daily_brief_script.py), the build of one day and kind          *)
(* (services/daily_brief.py), started by the scheduler or at the desk       *)
(* (app/admin_daily_brief.py), and the page that readers get through a      *)
(* cache (get_daily_brief of app/main.py).                                  *)
(***************************************************************************)
EXTENDS Integers, Sequences, FiniteSets

CONSTANTS
    Build,          \* runs of build_brief
    BriefReader,
    LastDay,        \* bound: days
    MaxBuilds,      \* bound: briefs that became ready
    Core, Fallback, \* CORE_CATEGORIES, FALLBACK_CATEGORIES, in order
    Tag,            \* entities of a story
    MaxStories,     \* bound: candidates
    MostCovered, MaxSlots

\* No category is in both lists or twice in one, and "top" is not one.
ASSUME BriefsAssumption ==
    /\ "nobody" \notin Build
    /\ LastDay \in Nat \ {0} /\ {MaxBuilds, MaxStories, MostCovered, MaxSlots} \subseteq Nat /\ MostCovered <= MaxSlots
    /\ IsFiniteSet(Tag)
    /\ Core \in Seq(STRING) /\ Fallback \in Seq(STRING)
    /\ \A i, j \in DOMAIN Core : Core[i] = Core[j] => i = j
    /\ \A i \in DOMAIN Core, j \in DOMAIN Fallback : Core[i] # Fallback[j]
    /\ (\A i \in DOMAIN Core : Core[i] # "top") /\ \A j \in DOMAIN Fallback : Fallback[j] # "top"

VARIABLES
    hour,       \* "day" or "night": what readers are to be shown
    today,
    brief,      \* daily_briefs, by day and kind
    holder,     \* of the lease of each kind
    build, breader,     \* what each of them is in the middle of
    page,       \* the cache entry of each kind
    built,
    lost,       \* history: a lease ended under a running build
    stale,      \* history: an entry was stored late, or its invalidation was lost
    stories, chosen, slot, missed   \* the selection: candidates in order, and what is taken

bvars == <<hour, today, brief, holder, build, breader, page, built, lost, stale, stories, chosen, slot, missed>>
svars == <<stories, chosen, slot, missed>>

BKind == {"brief", "wrapup"}
BDay == 1 .. LastDay
NoBrief == [status |-> "none", no |-> 0, day |-> 0, kind |-> "none"]
NoHolder == "nobody"
Resting == [pc |-> "off"]

\* A candidate: its category, if any passes its gate, and its entities.
Story == [category : {Core[i] : i \in DOMAIN Core} \cup {Fallback[i] : i \in DOMAIN Fallback} \cup {"none"},
          entities : SUBSET Tag]

BriefsInit ==
    /\ hour \in {"day", "night"} /\ today = 1
    /\ brief = [d \in BDay |-> [k \in BKind |-> NoBrief]]
    /\ holder = [k \in BKind |-> NoHolder]
    /\ build = [b \in Build |-> Resting]
    /\ breader = [r \in BriefReader |-> Resting]
    /\ page = [k \in BKind |-> NoBrief]
    /\ built = 0 /\ lost = FALSE /\ stale = FALSE
    /\ stories \in UNION {[1 .. n -> Story] : n \in 0 .. MaxStories}
    /\ chosen = <<>> /\ slot = 1 /\ missed = 0

-----------------------------------------------------------------------------
(* build_brief.                                                            *)

Turns(b, m) == build' = [build EXCEPT ![b] = m]
Row(m) == brief[m.day][m.kind]
Upsert(m, status) ==
    brief' = [brief EXCEPT ![m.day][m.kind] = [status |-> status, no |-> Row(m).no, day |-> m.day, kind |-> m.kind]]
GiveUpLease(b) == holder' = [k \in BKind |-> IF holder[k] = b THEN NoHolder ELSE holder[k]]

\* The scheduler builds what is due, and at its start what was.
Scheduled(k) == TRUE

\* The desk rebuilds today's, unless one is running.
Requested(k) == holder[k] = NoHolder

StartBrief(b, k, force) ==
    /\ build[b] = Resting
    /\ IF force THEN Requested(k) ELSE Scheduled(k)
    /\ Turns(b, [pc |-> "queued", day |-> today, kind |-> k, force |-> force])
    /\ UNCHANGED <<hour, today, brief, holder, breader, page, built, lost, stale, svars>>

MayBuild(k) == holder[k] = NoHolder

NotBuilt(b) ==
    LET m == build[b] IN
    /\ m.pc = "queued"
    /\ ~MayBuild(m.kind) \/ (Row(m).status = "ready" /\ ~m.force)
    /\ Turns(b, Resting)
    /\ UNCHANGED <<hour, today, brief, holder, breader, page, built, lost, stale, svars>>

AcquireBrief(b) ==
    LET m == build[b]
        had == Row(m).status = "ready" IN
    /\ m.pc = "queued" /\ MayBuild(m.kind) /\ (had => m.force)
    /\ holder' = [holder EXCEPT ![m.kind] = b]
    /\ IF had THEN UNCHANGED brief ELSE Upsert(m, "building")
    /\ Turns(b, [pc |-> "work", day |-> m.day, kind |-> m.kind, had |-> had])
    /\ UNCHANGED <<hour, today, breader, page, built, lost, stale, svars>>

MayHide(m) == ~m.had

\* Too few stories, or no valid script.
FailBrief(b) ==
    LET m == build[b] IN
    /\ m.pc = "work"
    /\ IF MayHide(m) THEN Upsert(m, "failed") ELSE UNCHANGED brief
    /\ GiveUpLease(b) /\ Turns(b, Resting)
    /\ UNCHANGED <<hour, today, breader, page, built, lost, stale, svars>>

\* A script is taken with a line for each story or, after a retry, not at all.
Written(m, no) == [status |-> "ready", no |-> no, day |-> m.day, kind |-> m.kind]

\* With audio or, if it was not voiced, without.
PublishBrief(b) ==
    LET m == build[b] IN
    /\ m.pc = "work" /\ built < MaxBuilds
    /\ built' = built + 1
    /\ brief' = [brief EXCEPT ![m.day][m.kind] = Written(m, built + 1)]
    /\ Turns(b, [pc |-> "flush", day |-> m.day, kind |-> m.kind])
    /\ UNCHANGED <<hour, today, holder, breader, page, lost, stale, svars>>

FlushBrief(b) ==
    /\ build[b].pc = "flush"
    /\ page' = [page EXCEPT ![build[b].kind] = NoBrief]
    /\ GiveUpLease(b) /\ Turns(b, Resting)
    /\ UNCHANGED <<hour, today, brief, breader, built, lost, stale, svars>>

\* An exception or the end of the process: the row stays as it is.
StopBrief(b) ==
    /\ build[b].pc \in {"work", "flush"}
    /\ GiveUpLease(b) /\ Turns(b, Resting)
    /\ stale' = (stale \/ build[b].pc = "flush")
    /\ UNCHANGED <<hour, today, brief, breader, page, built, lost, svars>>

BriefLeaseEnds(k) ==
    /\ holder[k] # NoHolder
    /\ holder' = [holder EXCEPT ![k] = NoHolder] /\ lost' = TRUE
    /\ UNCHANGED <<hour, today, brief, build, breader, page, built, stale, svars>>

NextHour ==
    /\ hour' = IF hour = "day" THEN "night" ELSE "day"
    /\ today' = IF hour = "night" THEN today + 1 ELSE today
    /\ today' \in BDay
    /\ UNCHANGED <<brief, holder, build, breader, page, built, lost, stale, svars>>

-----------------------------------------------------------------------------
(* get_daily_brief.                                                        *)

served_kind == IF hour = "night" THEN "wrapup" ELSE "brief"
Other(k) == IF k = "brief" THEN "wrapup" ELSE "brief"

Readied(k) == {brief[d][k] : d \in {x \in BDay : brief[x][k].status = "ready"}}
LatestOf(rows) == CHOOSE x \in rows : \A y \in rows : y.day <= x.day
LatestReady(k) == IF Readied(k) = {} THEN NoBrief ELSE LatestOf(Readied(k))

\* Mutant of EntryOf: a fallback is stored under the kind that was asked for.
EntryOfAsked(asked, shown) == asked

EntryOf(asked, shown) == shown

\* The kind of the hour, or else the other one, from the cache or the rows.
AskBrief(r) ==
    LET k == IF page[served_kind] # NoBrief \/ LatestReady(served_kind) # NoBrief
             THEN served_kind ELSE Other(served_kind) IN
    /\ breader[r] = Resting /\ page[k] = NoBrief /\ LatestReady(k) # NoBrief
    /\ breader' = [breader EXCEPT ![r] = [pc |-> EntryOf(served_kind, k), copy |-> LatestReady(k)]]
    /\ UNCHANGED <<hour, today, brief, holder, build, page, built, lost, stale, svars>>

StoreBrief(r) ==
    LET k == breader[r].pc IN
    /\ k \in BKind
    /\ page' = [page EXCEPT ![k] = breader[r].copy]
    /\ stale' = (stale \/ breader[r].copy # LatestReady(breader[r].copy.kind))
    /\ breader' = [breader EXCEPT ![r] = Resting]
    /\ UNCHANGED <<hour, today, brief, holder, build, built, lost, svars>>

PageExpires(k) ==
    /\ page[k] # NoBrief
    /\ page' = [page EXCEPT ![k] = NoBrief]
    /\ UNCHANGED <<hour, today, brief, holder, build, breader, built, lost, stale, svars>>

-----------------------------------------------------------------------------
(* select_stories: the most covered first, then one of each core category, *)
(* then a fallback category for each core category that had none.          *)

\* Half of the smaller set of entities is shared.
SameEvent(a, b) == a # {} /\ b # {} /\ 2 * Cardinality(a \cap b) >= (IF Cardinality(a) < Cardinality(b) THEN Cardinality(a) ELSE Cardinality(b))

Took(i) == \E j \in DOMAIN chosen : chosen[j].story = i

Eligible(i) == ~Took(i) /\ \A j \in DOMAIN chosen : ~SameEvent(stories[i].entities, stories[chosen[j].story].entities)

FirstOf(s) == CHOOSE i \in s : \A j \in s : i <= j
Take(s, category) == chosen' = Append(chosen, [story |-> FirstOf(s), category |-> category])
InCategory(c) == {i \in DOMAIN stories : stories[i].category = c /\ Eligible(i)}

\* Slots are numbered: 1 the most covered, then the categories in turn.
TakeMostCovered ==
    LET open == {i \in DOMAIN stories : Eligible(i)} IN
    /\ slot = 1
    /\ IF Len(chosen) < MostCovered /\ open # {}
       THEN Take(open, "top") /\ UNCHANGED slot
       ELSE slot' = 2 /\ UNCHANGED chosen
    /\ UNCHANGED <<hour, today, brief, holder, build, breader, page, built, lost, stale, stories, missed>>

FillCore ==
    LET c == Core[slot - 1] IN
    /\ slot - 1 \in DOMAIN Core
    /\ slot' = slot + 1
    /\ IF Len(chosen) < MaxSlots /\ InCategory(c) # {}
       THEN Take(InCategory(c), c) /\ UNCHANGED missed
       ELSE missed' = (IF Len(chosen) < MaxSlots THEN missed + 1 ELSE missed) /\ UNCHANGED chosen
    /\ UNCHANGED <<hour, today, brief, holder, build, breader, page, built, lost, stale, stories>>

FillFallback ==
    LET n == slot - 1 - Len(Core)
        c == Fallback[n] IN
    /\ n \in DOMAIN Fallback /\ missed > 0 /\ Len(chosen) < MaxSlots
    /\ slot' = slot + 1
    /\ IF InCategory(c) # {} THEN Take(InCategory(c), c) /\ missed' = missed - 1 ELSE UNCHANGED <<chosen, missed>>
    /\ UNCHANGED <<hour, today, brief, holder, build, breader, page, built, lost, stale, stories>>

BuildsNext ==
    \/ NextHour
    \/ \E b \in Build : \/ \E k \in BKind, force \in BOOLEAN : StartBrief(b, k, force)
                        \/ NotBuilt(b) \/ AcquireBrief(b) \/ FailBrief(b) \/ PublishBrief(b) \/ FlushBrief(b) \/ StopBrief(b)
    \/ \E k \in BKind : BriefLeaseEnds(k) \/ PageExpires(k)
    \/ \E r \in BriefReader : AskBrief(r) \/ StoreBrief(r)
SelectNext == TakeMostCovered \/ FillCore \/ FillFallback

BriefsSpec == BriefsInit /\ [][BuildsNext \/ SelectNext]_bvars

-----------------------------------------------------------------------------
(* Properties.                                                             *)

\* A brief that readers have stays up, however many builds are started for
\* its day and however they end ("a regeneration must not take a live brief offline"): only a
\* build whose lease has ended under it may hide what another one published.
ReadyStaysUp ==
    [][\A d \in BDay, k \in BKind : brief[d][k].status = "ready" => brief'[d][k].status = "ready" \/ lost]_bvars

\* Each entry of the cache is a brief of its own kind and, when all
\* invalidations are through, the latest one, also when readers were shown
\* one kind for want of the other.
PageIsLatest ==
    \A k \in BKind : page[k] # NoBrief =>
        /\ page[k].kind = k
        /\ page[k] = LatestReady(k) \/ stale \/ lost \/ \E b \in Build : build[b].pc = "flush" /\ build[b].kind = k

\* No event is told twice; no core category with a story of its own is left
\* out, and no more fallback stories are told than core categories are
\* missing.
Told(cs) == {j \in DOMAIN chosen : chosen[j].category \in cs}
BriefIsBalanced ==
    LET core == {Core[i] : i \in 1 .. (IF slot - 2 > Len(Core) THEN Len(Core) ELSE slot - 2)} IN
    /\ Len(chosen) <= MaxSlots
    /\ \A i, j \in DOMAIN chosen :
        i # j => ~SameEvent(stories[chosen[i].story].entities, stories[chosen[j].story].entities)
    /\ \A c \in core : Told({c}) # {} \/ InCategory(c) = {} \/ Len(chosen) = MaxSlots
    /\ Cardinality(Told({Fallback[i] : i \in DOMAIN Fallback})) <= Cardinality({c \in core : Told({c}) = {}})

\* The brief that is chosen is balanced, the one that is shown is the latest
\* of its kind, and a build does not take it away.
BriefIsRight == [](BriefIsBalanced /\ PageIsLatest) /\ ReadyStaysUp

=============================================================================
