------------------------------ MODULE Explainers ------------------------------
(***************************************************************************)
(* One explainer: its sources, the builds, the narrations and the rewritten *)
(* sections that run beside the desk (services/explainer.py,               *)
(* app/admin_explainers.py), and what readers get of it through two cache  *)
(* entries (app/main.py).                                                  *)
(*                                                                         *)
(* A build and a narration hold the job lease explainer:<id>, whose         *)
(* protocol is JobLease; here it is a holder that may also lapse.  A        *)
(* section is rewritten without it.  Every one of them reads the row,       *)
(* waits for a model, writes, and invalidates afterwards.                   *)
(***************************************************************************)
EXTENDS Integers, FiniteSets

CONSTANTS
    Task,       \* background tasks and slow requests
    Admin, Reader,
    Section, Cluster,
    MaxAnswers, \* bound: answers written
    MaxRewrites \* bound: sections rewritten

ASSUME ExplainersAssumption == "nobody" \notin Task

VARIABLES
    row,        \* the explainers row
    lease,      \* the holder of its job lease
    progress,   \* explainer_status in Redis
    task, desk, reader,     \* what each of them is in the middle of
    cached,     \* the list entry and the detail entry
    answers, rewrites,
    seen,       \* history: answers an admin has had on the page when releasing them
    crossed,    \* history: the row changed under somebody who then wrote it
    lapsed,     \* history: the lease ended under a running task
    late        \* history: an entry was stored after its row had changed, or
                \* its invalidation was lost

evars == <<row, lease, progress, task, desk, reader, cached, answers, rewrites, seen, crossed, lapsed, late>>

Nobody == "nobody"
NoEntry == [status |-> "none"]
Entry == {"list", "detail"}
Free == [pc |-> "off"]

\* An answer is taken with all its sections or not at all.
Answer(no) == [s \in Section |-> [of |-> no, rewrite |-> 0]]

ExplainersInit ==
    /\ row \in {[status |-> "draft", answer |-> 0, text |-> Answer(0), voiced |-> 0, srcs |-> s, cited |-> {}] : s \in SUBSET Cluster}
    /\ lease = Nobody /\ progress = "none"
    /\ task = [t \in Task |-> Free]
    /\ desk = [a \in Admin |-> [pc |-> "off", page |-> NoEntry]]
    /\ reader = [r \in Reader |-> Free]
    /\ cached = [e \in Entry |-> NoEntry]
    /\ answers = 0 /\ rewrites = 0
    /\ seen = {} /\ crossed = FALSE /\ lapsed = FALSE /\ late = FALSE

InProgress == lease # Nobody
Holds(t) == lease = t
GiveBack(t) == lease' = IF Holds(t) THEN Nobody ELSE lease
Becomes(t, m) == task' = [task EXCEPT ![t] = m]
Update(fields) == row' = [f \in DOMAIN row |-> IF f \in DOMAIN fields THEN fields[f] ELSE row[f]]

\* set_status, and the two invalidations below, go on when Redis refuses them.
\* What the progress was before stays then, and is no longer right: "stale".
Tell(state) == progress' \in {state, "stale"}

-----------------------------------------------------------------------------
(* The source picker.                                                      *)

\* A search, or what shares a phrase with the first source.
Offered == Cluster \ row.srcs

SetSources(s) ==
    /\ row.status = "draft"
    /\ (\E c \in Offered : s = row.srcs \cup {c}) \/ (\E c \in row.srcs : s = row.srcs \ {c})
    /\ Update([srcs |-> s])
    /\ UNCHANGED <<lease, progress, task, desk, reader, cached, answers, rewrites, seen, crossed, lapsed, late>>

-----------------------------------------------------------------------------
(* build_explainer and run_build_task.                                     *)

StartBuild(t) ==
    /\ task[t] = Free
    /\ row.status \in {"draft", "generating", "ready_for_review"}   \* the page's buttons
    /\ ~InProgress /\ row.srcs # {}
    /\ Tell("generating") /\ Becomes(t, [pc |-> "queued", job |-> "build"])
    /\ UNCHANGED <<row, lease, desk, reader, cached, answers, rewrites, seen, crossed, lapsed, late>>

\* Mutant of MayRun: a task does not ask for the lease.
MayRunAlways(t) == TRUE

MayRun(t) == lease = Nobody

Refuse(t) ==
    /\ task[t].pc = "queued" /\ ~MayRun(t)
    /\ Tell("error") /\ Becomes(t, Free)
    /\ UNCHANGED <<row, lease, desk, reader, cached, answers, rewrites, seen, crossed, lapsed, late>>

\* The clusters found are those of the sources that still exist.
AcquireBuild(t, found) ==
    /\ task[t].pc = "queued" /\ task[t].job = "build" /\ MayRun(t)
    /\ found \subseteq row.srcs
    /\ IF found = {}
       THEN /\ Update([status |-> "draft"]) /\ Tell("error")
            /\ Becomes(t, Free) /\ UNCHANGED lease
       ELSE /\ Update([status |-> "generating"]) /\ Tell("generating")
            /\ Becomes(t, [pc |-> "writing", found |-> found]) /\ lease' = t
    /\ UNCHANGED <<desk, reader, cached, answers, rewrites, seen, crossed, lapsed, late>>

\* Mutant of Finished: a rebuilt explainer takes the status it had.
FinishedAsBefore(status) == IF seen = {} THEN "ready_for_review" ELSE "published"

Finished(status) == "ready_for_review"

Flushes(t, entries) == Becomes(t, [pc |-> "flush", entries |-> entries])

\* A narration reads a script of its own, or else the text itself.
Narration(ok, no) == IF ok THEN no ELSE 0

\* The model wrote an answer; it may have been voiced as well.
FinishBuild(t, voiced) ==
    /\ task[t].pc = "writing" /\ answers < MaxAnswers
    /\ answers' = answers + 1
    /\ Update([status |-> Finished(row.status), answer |-> answers + 1,
               text |-> Answer(answers + 1), voiced |-> Narration(voiced, answers + 1), cited |-> task[t].found])
    /\ crossed' = (crossed \/ row.status # "generating")
    /\ Tell("done") /\ GiveBack(t) /\ Flushes(t, {"detail"})
    /\ UNCHANGED <<desk, reader, cached, rewrites, seen, lapsed, late>>

\* It did not: the row is a draft again.
FailBuild(t) ==
    /\ task[t].pc = "writing"
    /\ Update([status |-> "draft"]) /\ Tell("error") /\ GiveBack(t) /\ Becomes(t, Free)
    /\ crossed' = (crossed \/ row.status # "generating")
    /\ UNCHANGED <<desk, reader, cached, answers, rewrites, seen, lapsed, late>>

\* An exception gives up the lease, and only then the row is written.
CrashBuild(t) ==
    /\ task[t].pc = "writing"
    /\ GiveBack(t) /\ Becomes(t, [pc |-> "crashed"])
    /\ UNCHANGED <<row, progress, desk, reader, cached, answers, rewrites, seen, crossed, lapsed, late>>

NoteCrash(t) ==
    /\ task[t].pc = "crashed"
    /\ Update([status |-> "draft"]) /\ Tell("error") /\ Becomes(t, Free)
    /\ crossed' = (crossed \/ row.status # "generating" \/ InProgress)
    /\ UNCHANGED <<lease, desk, reader, cached, answers, rewrites, seen, lapsed, late>>

-----------------------------------------------------------------------------
(* regenerate_audio and regenerate_section, of an answer that is there.    *)

Content == {"ready_for_review", "published", "archived"}

StartAudio(t) ==
    /\ task[t] = Free
    /\ row.status \in Content /\ ~InProgress
    /\ Tell("generating") /\ Becomes(t, [pc |-> "queued", job |-> "audio"])
    /\ UNCHANGED <<row, lease, desk, reader, cached, answers, rewrites, seen, crossed, lapsed, late>>

AcquireAudio(t) ==
    /\ task[t].pc = "queued" /\ task[t].job = "audio" /\ MayRun(t)
    /\ IF row.answer = 0
       THEN Tell("error") /\ Becomes(t, Free) /\ UNCHANGED lease
       ELSE Tell("generating") /\ Becomes(t, [pc |-> "voicing", answer |-> row.answer]) /\ lease' = t
    /\ UNCHANGED <<row, desk, reader, cached, answers, rewrites, seen, crossed, lapsed, late>>

FinishAudio(t, ok) ==
    /\ task[t].pc = "voicing"
    /\ IF ok
       THEN Update([voiced |-> task[t].answer]) /\ Tell("done") /\ Flushes(t, Entry)
       ELSE Tell("error") /\ Becomes(t, Free) /\ UNCHANGED row
    /\ GiveBack(t)
    /\ UNCHANGED <<desk, reader, cached, answers, rewrites, seen, crossed, lapsed, late>>

StartSection(t, s) ==
    /\ task[t] = Free
    /\ row.status \in Content /\ row.answer # 0 /\ row.srcs # {}
    /\ Becomes(t, [pc |-> "rewriting", section |-> s, text |-> row.text])
    /\ UNCHANGED <<row, lease, progress, desk, reader, cached, answers, rewrites, seen, crossed, lapsed, late>>

\* The whole list of sections is written back as it was read.
FinishSection(t, ok) ==
    LET m == task[t] IN
    /\ m.pc = "rewriting"
    /\ IF ok
       THEN /\ rewrites < MaxRewrites
            /\ rewrites' = rewrites + 1
            /\ Update([text |-> [m.text EXCEPT ![m.section] = [of |-> @.of, rewrite |-> rewrites + 1]]])
            /\ crossed' = (crossed \/ row.text # m.text)
            /\ Flushes(t, {"detail"})
       ELSE Becomes(t, Free) /\ UNCHANGED <<row, rewrites, crossed>>
    /\ UNCHANGED <<lease, progress, desk, reader, cached, answers, seen, lapsed, late>>

-----------------------------------------------------------------------------
(* Invalidation, and the ends of a process and of a lease.                 *)

Invalidate(entries) == [e \in Entry |-> IF e \in entries THEN NoEntry ELSE cached[e]]

\* It is done, or Redis refuses it and the entries stay.
Drops(entries) ==
    \/ cached' = Invalidate(entries) /\ UNCHANGED late
    \/ late' = TRUE /\ UNCHANGED cached

Flush(t) ==
    /\ task[t].pc = "flush"
    /\ Drops(task[t].entries) /\ Becomes(t, Free)
    /\ UNCHANGED <<row, lease, progress, desk, reader, answers, rewrites, seen, crossed, lapsed>>

\* The process ends; lease and progress go with their TTL.
Die(t) ==
    /\ task[t].pc \in {"writing", "voicing", "flush"}
    /\ GiveBack(t) /\ Becomes(t, Free)
    /\ progress' = "none"
    /\ late' = (late \/ task[t].pc = "flush")
    /\ UNCHANGED <<row, desk, reader, cached, answers, rewrites, seen, crossed, lapsed>>

Lapse ==
    /\ lease # Nobody
    /\ lease' = Nobody /\ lapsed' = TRUE
    /\ UNCHANGED <<row, progress, task, desk, reader, cached, answers, rewrites, seen, crossed, late>>

-----------------------------------------------------------------------------
(* The desk.                                                               *)

OpenPage(a) ==
    /\ desk[a].pc = "off"
    /\ desk[a].page # [status |-> row.status, answer |-> row.answer]
    /\ desk' = [desk EXCEPT ![a].page = [status |-> row.status, answer |-> row.answer]]
    /\ UNCHANGED <<row, lease, progress, task, reader, cached, answers, rewrites, seen, crossed, lapsed, late>>

Button == [publish |-> "ready_for_review", archive |-> "published", restore |-> "archived"]
Decided == [publish |-> "published", archive |-> "archived", restore |-> "published"]

\* publish and restore look at the row first, archive does not.
Ask(a, op) ==
    /\ desk[a].pc = "off" /\ desk[a].page.status = Button[op]
    /\ op = "archive" \/ row.status = Button[op]
    /\ desk' = [desk EXCEPT ![a].pc = op]
    /\ UNCHANGED <<row, lease, progress, task, reader, cached, answers, rewrites, seen, crossed, lapsed, late>>

Decide(a) ==
    LET op == desk[a].pc
        page == desk[a].page IN
    /\ op \in DOMAIN Button
    /\ Update([status |-> Decided[op]])
    /\ crossed' = (crossed \/ row.status # page.status \/ row.answer # page.answer)
    /\ seen' = IF Decided[op] = "published" THEN seen \cup {page.answer} ELSE seen
    /\ desk' = [desk EXCEPT ![a] = [pc |-> "flush", page |-> NoEntry]]
    /\ UNCHANGED <<lease, progress, task, reader, cached, answers, rewrites, lapsed, late>>

FlushDesk(a) ==
    /\ desk[a].pc = "flush"
    /\ Drops(Entry)
    /\ desk' = [desk EXCEPT ![a].pc = "off"]
    /\ UNCHANGED <<row, lease, progress, task, reader, answers, rewrites, seen, crossed, lapsed>>

-----------------------------------------------------------------------------
(* list_explainers and get_explainer: through the cache.                   *)

\* What an entry would hold if it were stored now.
Copy(e) ==
    IF row.status # "published" THEN [status |-> "absent"]
    ELSE IF e = "list" THEN [status |-> "there", answer |-> row.answer, audio |-> row.voiced # 0]
    ELSE [status |-> "there", answer |-> row.answer, text |-> row.text, voiced |-> row.voiced, cited |-> row.cited]

\* A page that is not found is not stored.
Miss(r, e) ==
    /\ reader[r] = Free /\ cached[e] = NoEntry
    /\ e = "detail" => row.status = "published"
    /\ reader' = [reader EXCEPT ![r] = [pc |-> e, copy |-> Copy(e)]]
    /\ UNCHANGED <<row, lease, progress, task, desk, cached, answers, rewrites, seen, crossed, lapsed, late>>

Store(r) ==
    LET e == reader[r].pc IN
    /\ e \in Entry
    /\ cached' = [cached EXCEPT ![e] = reader[r].copy]
    /\ late' = (late \/ reader[r].copy # Copy(e))
    /\ reader' = [reader EXCEPT ![r] = Free]
    /\ UNCHANGED <<row, lease, progress, task, desk, answers, rewrites, seen, crossed, lapsed>>

EndOfTtl(e) ==
    /\ cached[e] # NoEntry
    /\ cached' = [cached EXCEPT ![e] = NoEntry]
    /\ UNCHANGED <<row, lease, progress, task, desk, reader, answers, rewrites, seen, crossed, lapsed, late>>

ExplainersNext ==
    \/ \E s \in SUBSET Cluster : SetSources(s)
    \/ \E t \in Task :
        \/ StartBuild(t) \/ StartAudio(t) \/ \E s \in Section : StartSection(t, s)
        \/ Refuse(t) \/ AcquireAudio(t) \/ \E found \in SUBSET Cluster : AcquireBuild(t, found)
        \/ FailBuild(t) \/ CrashBuild(t) \/ NoteCrash(t) \/ Flush(t) \/ Die(t)
        \/ \E ok \in BOOLEAN : FinishBuild(t, ok) \/ FinishAudio(t, ok) \/ FinishSection(t, ok)
    \/ Lapse
    \/ \E a \in Admin : OpenPage(a) \/ Decide(a) \/ FlushDesk(a) \/ \E op \in DOMAIN Button : Ask(a, op)
    \/ \E r \in Reader : Store(r) \/ \E e \in Entry : Miss(r, e)
    \/ \E e \in Entry : EndOfTtl(e)

ExplainersSpec == ExplainersInit /\ [][ExplainersNext]_evars

-----------------------------------------------------------------------------
(* Properties.                                                             *)

\* An answer that is published was on the page of the admin who released
\* it, unless the row changed under somebody: a build that ends, or crashes,
\* after the desk has decided takes the decision back or publishes unread.
PublishedWasReviewed == row.status = "published" => row.answer \in seen \/ crossed

\* The lease keeps builds and narrations apart: the audio is of the answer
\* that is on the page, and a build never writes over a build.  A section
\* is rewritten without it, and is of another answer only if it crossed one.
AnswerHoldsTogether ==
    /\ lapsed \/ row.voiced \in {0, row.answer}
    /\ crossed \/ \A s \in Section : row.text[s].of = row.answer

\* A page that polls is never left waiting: while the progress says
\* "generating" there is a task that will say something else ("whatever
\* happens, status ends as done/error"), or its process has ended and the
\* progress with its TTL, or Redis refused what was to be said.
ProgressIsTold ==
    progress = "generating" => \E t \in Task : task[t].pc \in {"queued", "writing", "voicing", "crashed"}

Flushing == (\E t \in Task : task[t].pc = "flush") \/ \E a \in Admin : desk[a].pc = "flush"

\* Once all invalidations are through, the detail entry is what a reader
\* would be given from the row; while a build has the row, and after one
\* that failed, it is what was published before.
DetailFollowsRow ==
    (cached["detail"] # NoEntry /\ row.status \in Content) =>
        Flushing \/ late \/ cached["detail"] = Copy("detail")

\* An explainer holds together: sections, audio, progress and detail page.
ExplainerHoldsTogether == AnswerHoldsTogether /\ ProgressIsTold /\ DetailFollowsRow
=============================================================================
