---------------------------- MODULE Desks_proofs ----------------------------
(***************************************************************************)
(* Proofs about what the desks review, and what readers find every morning.*)
(*                                                                         *)
(* DailyPoll, for any reviewers, publishers, voters and number of days.    *)
(*                                                                         *)
(* DailyGames, for any requests, editors and questions: the quiz that is   *)
(* served is vetted (QuizInv), the advisory lock spares the requests until *)
(* somebody writes without it (LockHolds), and the bank rotates (BankInv). *)
(*                                                                         *)
(* DailyFeatures, for any visits, processes, words and days: what a visit  *)
(* has read before and under its lock (PuzzlesFit, FeaturesFit).           *)
(***************************************************************************)
EXTENDS DailyPoll, DailyGames, DailyFeatures, TLAPS, WellFoundedInduction

(* What a row and a request in flight are made of.                         *)
LEMMA PollFields ==
    ASSUME NEW r \in Poll
    PROVE  /\ r.status \in Status /\ r.text \in {"none", "draft", "approved", "bank"}
           /\ r.casting \subseteq Voter /\ r.votes \subseteq Voter
  BY DEF Poll

LEMMA PollUpdates ==
    ASSUME NEW r \in Poll
    PROVE  /\ Rewritten(r, "draft") \in Poll
           /\ [r EXCEPT !.status = "rejected"] \in Poll
           /\ [Rewritten(r, "approved") EXCEPT !.status = "scheduled"] \in Poll
           /\ Rewritten(r, "bank") \in Poll
           /\ [NoPoll EXCEPT !.status = "draft", !.text = "draft"] \in Poll
           /\ [r EXCEPT !.status = "closed"] \in Poll
           /\ [r EXCEPT !.status = "active"] \in Poll
           /\ [Rewritten(r, "bank") EXCEPT !.status = "active"] \in Poll
  BY DEF Poll, Status, Rewritten, NoPoll

(* Rewriting a row exchanges its question and leaves its status alone.     *)
LEMMA RewrittenFields ==
    ASSUME NEW r \in Poll, NEW tx, NEW st
    PROVE  /\ Rewritten(r, tx).status = r.status /\ Rewritten(r, tx).text = tx
           /\ [Rewritten(r, tx) EXCEPT !.status = st].status = st
           /\ [Rewritten(r, tx) EXCEPT !.status = st].text = tx
  BY DEF Poll, Rewritten

(* A vote touches neither the status nor the question.                     *)
LEMMA VoteFields ==
    ASSUME NEW r \in Poll, NEW C, NEW V
    PROVE  /\ [r EXCEPT !.casting = C].status = r.status
           /\ [r EXCEPT !.casting = C].text = r.text
           /\ [r EXCEPT !.casting = C].votes = r.votes
           /\ [r EXCEPT !.casting = C, !.votes = V].status = r.status
           /\ [r EXCEPT !.casting = C, !.votes = V].text = r.text
           /\ [r EXCEPT !.casting = C, !.votes = V].votes = V
  BY DEF Poll

LEMMA StatusFields ==
    ASSUME NEW r \in Poll, NEW st
    PROVE  /\ [r EXCEPT !.status = st].status = st
           /\ [r EXCEPT !.status = st].text = r.text
           /\ [r EXCEPT !.status = st].votes = r.votes
  BY DEF Poll

LEMMA RequestFields ==
    ASSUME NEW r \in Request
    PROVE  /\ r.op \in {"none", "generate", "approve", "reject", "publish"}
           /\ r.day \in Day /\ r.seen \in Status /\ r.old \in BOOLEAN
           /\ [r EXCEPT !.old = TRUE] \in Request
           /\ Aged(r) \in Request
           /\ Aged(r).op = r.op /\ Aged(r).day = r.day /\ Aged(r).seen = r.seen
           /\ r # Free => Aged(r).old
  BY DEF Request, Aged, Free

LEMMA FreeIsRequest == Free \in Request
  BY PollAssumption DEF Free, Request, Day, Status

LEMMA BusyIsRequest ==
    ASSUME TypeOK, NEW op \in {"generate", "approve", "reject", "publish"}
    PROVE  /\ Busy(op) \in Request /\ Busy(op).op = op /\ Busy(op).day = day
           /\ Busy(op).seen = poll[day].status /\ ~Busy(op).old /\ Busy(op) # Free
<1>1. poll[day].status \in Status
  BY PollFields DEF TypeOK
<1> QED
  BY <1>1 DEF TypeOK, Busy, Request, Free

-----------------------------------------------------------------------------
(* What the requests in flight know: a generation or a review started on a *)
(* draft (or on nothing), a publication belongs to the half of the day     *)
(* that it started in or to the next one, and holds the lock of its day.   *)
DeskKnows ==
    \A a \in Desk : /\ desk[a].op \in {"none", "generate", "approve", "reject"}
                    /\ desk[a].op = "generate" => desk[a].seen \in {"none", "draft"}
                    /\ desk[a].op \in {"approve", "reject"} => desk[a].seen = "draft"

PublishingIsTimely ==
    \A p \in Publisher :
        \/ act[p] = Free
        \/ /\ act[p].op = "publish"
           /\ IF act[p].old THEN half = "early" /\ act[p].day = day - 1
                            ELSE half = "late" /\ act[p].day = day

OnePublisher ==
    \A p, q \in Publisher :
        /\ act[p].op = "publish" /\ act[q].op = "publish" /\ act[p].day = act[q].day
        => p = q

(* The calendar: a poll is not live before 09:00 of its day, not closed    *)
(* before the next day, and neither while its publication is under way.    *)
Calendar ==
    /\ \A d \in Day : /\ poll[d].status = "active" => d < day \/ (d = day /\ half = "late")
                      /\ poll[d].status = "closed" => d < day
    /\ \A p \in Publisher : act[p].op = "publish" =>
           poll[act[p].day].status \notin {"active", "closed"}

(* What is scheduled is what a reviewer approved, with the exception.      *)
ScheduledIsApproved ==
    \A d \in Day \ overrun : poll[d].status = "scheduled" => poll[d].text = "approved"

(* A row that a request has read does not go away.                         *)
RowsRemain ==
    /\ \A a \in Desk : desk[a].seen # "none" => poll[desk[a].day].status # "none"
    /\ \A p \in Publisher : act[p].seen # "none" => poll[act[p].day].status # "none"

RequestInv == DeskKnows /\ PublishingIsTimely /\ OnePublisher

PollInv == /\ TypeOK /\ RequestInv /\ Calendar /\ RowsRemain
           /\ OneLivePoll /\ ReviewedUnlessOverrun /\ ScheduledIsApproved

(* What a step does to polls that are approved or published.               *)
Stands ==
    \A d \in Day \ overrun' :
        /\ poll[d].status = "scheduled" =>
              poll'[d].status \in {"scheduled", "active"} /\ poll'[d].text = "approved"
        /\ poll[d].status \in {"active", "closed"} =>
              /\ poll'[d].status \in {poll[d].status, "closed"}
              /\ poll'[d].text = poll[d].text
              /\ poll[d].votes \subseteq poll'[d].votes

LEMMA InitPollInv == Init => PollInv
<1> SUFFICES ASSUME Init PROVE PollInv
  OBVIOUS
<1>1. 1 \in Day
  BY PollAssumption DEF Day
<1>2. NoPoll \in Poll /\ NoPoll.status = "none" /\ NoPoll.text = "none"
  BY DEF NoPoll, Poll, Status
<1>3. Free \in Request /\ Free.op = "none" /\ Free.seen = "none"
  BY FreeIsRequest DEF Free
<1> QED
  BY <1>1, <1>2, <1>3 DEF Init, PollInv, TypeOK, RequestInv, DeskKnows, PublishingIsTimely,
     OnePublisher, Calendar, RowsRemain, OneLivePoll, ReviewedUnlessOverrun, ScheduledIsApproved

-----------------------------------------------------------------------------
(* A step that leaves the status and the question of every poll alone.     *)
LEMMA RowsStay ==
    ASSUME PollInv, TypeOK', RequestInv', UNCHANGED <<day, half, overrun>>,
           \A d \in Day : /\ poll'[d].status = poll[d].status /\ poll'[d].text = poll[d].text
                         /\ poll[d].votes \subseteq poll'[d].votes,
           \A p \in Publisher : act'[p].op = "publish" =>
               \/ act'[p] = act[p]
               \/ poll[act'[p].day].status \notin {"active", "closed"},
           \A a \in Desk : desk'[a] = desk[a] \/ desk'[a].seen \in {"none", poll[desk'[a].day].status},
           \A p \in Publisher : act'[p] = act[p] \/ act'[p].seen \in {"none", poll[act'[p].day].status}
    PROVE  PollInv' /\ Stands
<1>1. \A p \in Publisher : act'[p] \in Request /\ act'[p].day \in Day
  BY RequestFields DEF TypeOK
<1>2. Calendar'
  BY <1>1 DEF PollInv, Calendar
<1>a. \A a \in Desk : desk'[a] \in Request /\ desk'[a].day \in Day
  BY RequestFields DEF TypeOK
<1>b. RowsRemain'
  BY <1>1, <1>a DEF PollInv, RowsRemain
<1>3. OneLivePoll' /\ ReviewedUnlessOverrun' /\ ScheduledIsApproved'
  BY DEF PollInv, OneLivePoll, ReviewedUnlessOverrun, ScheduledIsApproved
<1>4. Stands
  BY DEF PollInv, Stands, ScheduledIsApproved
<1> QED
  BY <1>2, <1>b, <1>3, <1>4 DEF PollInv

(* A request of the desk starts on what it reads, or ends without a word.  *)
LEMMA DeskStarts ==
    ASSUME PollInv, NEW a \in Desk,
           \/ \E replace \in BOOLEAN : StartGenerate(a, replace)
           \/ StartApprove(a) \/ StartReject(a) \/ DropRequest(a)
    PROVE  PollInv' /\ Stands
<1> USE DEF PollInv
<1>1. /\ UNCHANGED <<day, half, poll, act, overrun>>
      /\ \E r \in Request : /\ desk' = [desk EXCEPT ![a] = r]
                            /\ r.op \in {"none", "generate", "approve", "reject"}
                            /\ r.op = "generate" => r.seen \in {"none", "draft"}
                            /\ r.op \in {"approve", "reject"} => r.seen = "draft"
                        /\ r.seen \in {"none", poll[r.day].status}
  <2>1. ASSUME NEW replace \in BOOLEAN, StartGenerate(a, replace)
        PROVE  /\ UNCHANGED <<day, half, poll, act, overrun>>
               /\ \E r \in Request : /\ desk' = [desk EXCEPT ![a] = r]
                                     /\ r.op \in {"none", "generate", "approve", "reject"}
                                     /\ r.op = "generate" => r.seen \in {"none", "draft"}
                                     /\ r.op \in {"approve", "reject"} => r.seen = "draft"
                                     /\ r.seen \in {"none", poll[r.day].status}
    BY <2>1, BusyIsRequest DEF StartGenerate
  <2>2. CASE StartApprove(a) \/ StartReject(a)
    BY <2>2, BusyIsRequest DEF StartApprove, StartReject
  <2>3. CASE DropRequest(a)
    BY <2>3, FreeIsRequest DEF DropRequest, Free
  <2> QED
    BY <2>1, <2>2, <2>3
<1>2. TypeOK'
  BY <1>1 DEF TypeOK
<1>3. RequestInv'
  BY <1>1 DEF RequestInv, DeskKnows, PublishingIsTimely, OnePublisher, TypeOK
<1> QED
  BY <1>1, <1>2, <1>3, RowsStay

(* The same of a publication, which starts only where no other is under    *)
(* way, from 09:00 of the day that it is for.                              *)
LEMMA PublicationStarts ==
    ASSUME PollInv, NEW p \in Publisher, StartPublish(p) \/ DropPublish(p)
    PROVE  PollInv' /\ Stands
<1> USE DEF PollInv
<1>1. UNCHANGED <<day, half, poll, desk, overrun>>
  BY DEF StartPublish, DropPublish
<1>2. CASE StartPublish(p)
  <2> DEFINE r == Busy("publish")
  <2>1. r \in Request /\ r.op = "publish" /\ r.day = day /\ ~r.old /\ r.seen = poll[day].status
    BY BusyIsRequest
  <2> HIDE DEF r
  <2>2. act' = [act EXCEPT ![p] = r] /\ half = "late" /\ poll[day].status # "active"
        /\ \A q \in Publisher : ~(act[q].op = "publish" /\ act[q].day = day)
    BY <1>2 DEF StartPublish, Publishing, r
  <2>3. poll[day].status # "closed"
    BY DEF Calendar, TypeOK, Day
  <2>4. TypeOK'
    BY <1>1, <2>1, <2>2 DEF TypeOK
  <2>5. RequestInv'
    BY <1>1, <2>1, <2>2 DEF RequestInv, DeskKnows, PublishingIsTimely, OnePublisher, TypeOK
  <2> QED
    <3>1. /\ act'[p] = r /\ r.seen = poll[day].status
          /\ \A q \in Publisher \ {p} : act'[q] = act[q]
      BY <2>1, <2>2 DEF TypeOK
    <3> QED
      BY <1>1, <2>1, <2>2, <2>3, <2>4, <2>5, <3>1, RowsStay
<1>3. CASE DropPublish(p)
  <2>1. act' = [act EXCEPT ![p] = Free] /\ Free \in Request /\ Free.op = "none" /\ Free.seen = "none"
    BY <1>3, FreeIsRequest DEF DropPublish, Free
  <2>2. TypeOK'
    BY <1>1, <2>1 DEF TypeOK
  <2>3. RequestInv'
    BY <1>1, <2>1 DEF RequestInv, DeskKnows, PublishingIsTimely, OnePublisher, TypeOK
  <2> QED
    <3>1. act'[p] = Free /\ \A q \in Publisher \ {p} : act'[q] = act[q]
      BY <2>1 DEF TypeOK
    <3> QED
      BY <1>1, <2>1, <2>2, <2>3, <3>1, RowsStay
<1> QED
  BY <1>2, <1>3

(* A vote touches nothing else.                                            *)
LEMMA Voting ==
    ASSUME PollInv, NEW v \in Voter, NEW d \in Day,
           StartVote(v, d) \/ FinishVote(v, d) \/ DropVote(v, d)
    PROVE  PollInv' /\ Stands
<1> USE DEF PollInv
<1>1. UNCHANGED <<day, half, desk, act, overrun>>
  BY DEF StartVote, FinishVote, DropVote
<1>2. PICK C \in SUBSET Voter, V \in SUBSET Voter :
         /\ poll[d].votes \subseteq V
         /\ \/ poll' = [poll EXCEPT ![d] = [@ EXCEPT !.casting = C]]
            \/ poll' = [poll EXCEPT ![d] = [@ EXCEPT !.casting = C, !.votes = V]]
  <2>1. poll[d].casting \subseteq Voter /\ poll[d].votes \subseteq Voter
    BY PollFields DEF TypeOK
  <2>2. CASE StartVote(v, d)
    BY <2>1, <2>2 DEF StartVote
  <2>3. CASE FinishVote(v, d)
    BY <2>1, <2>3 DEF FinishVote
  <2>4. CASE DropVote(v, d)
    BY <2>1, <2>4 DEF DropVote
  <2> QED
    BY <2>2, <2>3, <2>4
<1>3. poll[d] \in Poll /\ Status # {}
  BY DEF TypeOK, Status
<1>4. \A e \in Day : /\ poll'[e] \in Poll /\ poll'[e].status = poll[e].status
                     /\ poll'[e].text = poll[e].text /\ poll[e].votes \subseteq poll'[e].votes
  <2>1. [poll[d] EXCEPT !.casting = C] \in Poll /\ [poll[d] EXCEPT !.casting = C, !.votes = V] \in Poll
    BY <1>3 DEF Poll
  <2>2. ASSUME NEW r \in Poll, r.status = poll[d].status, r.text = poll[d].text,
               poll[d].votes \subseteq r.votes, poll' = [poll EXCEPT ![d] = r]
        PROVE  \A e \in Day : /\ poll'[e] \in Poll /\ poll'[e].status = poll[e].status
                             /\ poll'[e].text = poll[e].text /\ poll[e].votes \subseteq poll'[e].votes
    BY <1>3, <2>2 DEF TypeOK
  <2> DEFINE r1 == [poll[d] EXCEPT !.casting = C]
             r2 == [poll[d] EXCEPT !.casting = C, !.votes = V]
  <2>3. /\ r1.status = poll[d].status /\ r1.text = poll[d].text /\ r1.votes = poll[d].votes
        /\ r2.status = poll[d].status /\ r2.text = poll[d].text /\ r2.votes = V
    BY <1>3, VoteFields
  <2>4. poll' = [poll EXCEPT ![d] = r1] \/ poll' = [poll EXCEPT ![d] = r2]
    BY <1>2
  <2> HIDE DEF r1, r2
  <2> QED
    BY <1>2, <2>1, <2>2, <2>3, <2>4 DEF r1, r2
<1>5. TypeOK'
  BY <1>1, <1>2, <1>4 DEF TypeOK
<1>6. RequestInv'
  BY <1>1 DEF RequestInv, DeskKnows, PublishingIsTimely, OnePublisher
<1> QED
  BY <1>1, <1>4, <1>5, <1>6, RowsStay

-----------------------------------------------------------------------------
(* A request of the desk that writes row d, which it read with status      *)
(* seen, a draft or nothing at all.                                        *)
LEMMA DeskWrites ==
    ASSUME PollInv, NEW a \in Desk, NEW d \in Day, NEW r \in Poll,
           (r.status = "none") <=> (r.text = "none"),
           poll' = [poll EXCEPT ![d] = r],
           desk' = [desk EXCEPT ![a] = Free], UNCHANGED <<day, half, act>>,
           overrun' \subseteq Day, overrun \subseteq overrun',
           r.status # "none" \/ r = poll[d],
           d \in overrun' \/ poll[d].status \in {"none", "draft"} \/ r = poll[d],
           \/ r.status = "draft"
           \/ r.status = "rejected"
           \/ r.status = "scheduled" /\ r.text = "approved"
           \/ r.status = poll[d].status /\ d \in overrun'
           \/ r = poll[d]
    PROVE  PollInv' /\ Stands
<1> USE DEF PollInv
<1>1. /\ poll'[d] = r /\ \A e \in Day \ {d} : poll'[e] = poll[e]
      /\ Free \in Request /\ Free.op = "none" /\ Free.seen = "none"
  BY FreeIsRequest DEF TypeOK, Free
<1>2. TypeOK'
  BY <1>1 DEF TypeOK
<1>3. RequestInv'
  BY <1>1 DEF RequestInv, DeskKnows, PublishingIsTimely, OnePublisher, TypeOK
<1>4. \A e \in Day : poll'[e].status \in {"active", "closed"} => poll'[e].status = poll[e].status
  BY <1>1
<1>5. Calendar'
  <2>1. \A p \in Publisher : act[p].day \in Day
    BY RequestFields DEF TypeOK
  <2> QED
    BY <1>4, <2>1 DEF Calendar
<1>b. RowsRemain'
  <2>1. /\ \A p \in Publisher : act[p].day \in Day
        /\ \A b \in Desk : desk[b].day \in Day
    BY RequestFields DEF TypeOK
  <2>2. \A e \in Day : poll[e].status # "none" => poll'[e].status # "none"
    BY <1>1
  <2> QED
    BY <1>1, <2>1, <2>2 DEF RowsRemain, TypeOK
<1>6. OneLivePoll'
  BY <1>4 DEF OneLivePoll
<1>7. ReviewedUnlessOverrun' /\ ScheduledIsApproved'
  BY <1>1 DEF ReviewedUnlessOverrun, ScheduledIsApproved
<1>8. Stands
  <2>1. \A e \in Day : poll[e].votes \subseteq poll[e].votes
    OBVIOUS
  <2> QED
    BY <1>1, <2>1 DEF Stands, ScheduledIsApproved
<1> QED
  BY <1>2, <1>3, <1>5, <1>b, <1>6, <1>7, <1>8

LEMMA DeskFinishes ==
    ASSUME PollInv, NEW a \in Desk, FinishGenerate(a) \/ FinishApprove(a) \/ FinishReject(a)
    PROVE  PollInv' /\ Stands
<1>1. PICK d \in Day, o \in Poll, seen \in Status :
        /\ d = desk[a].day /\ o = poll[d] /\ seen = desk[a].seen
        /\ overrun \subseteq Day
        /\ (o.status = "none") <=> (o.text = "none")
        /\ seen # "none" => o.status # "none"
        /\ desk[a].op = "generate" => seen \in {"none", "draft"}
        /\ desk[a].op \in {"approve", "reject"} => seen = "draft"
  <2>1. desk[a].day \in Day /\ desk[a].seen \in Status /\ desk[a] \in Request
    BY RequestFields DEF PollInv, TypeOK
  <2>2. poll[desk[a].day] \in Poll
    BY <2>1 DEF PollInv, TypeOK
  <2> QED
    BY <2>1, <2>2 DEF PollInv, TypeOK, RowsRemain, RequestInv, DeskKnows
<1>2. CASE FinishGenerate(a)
  <2>1. /\ desk[a].op = "generate"
        /\ desk' = [desk EXCEPT ![a] = Free] /\ UNCHANGED <<day, half, act>>
        /\ overrun' = IF seen = "none" \/ o.status = seen THEN overrun ELSE overrun \cup {d}
        /\ overrun' \subseteq Day /\ overrun \subseteq overrun'
    BY <1>1, <1>2 DEF FinishGenerate, Overrun
  <2>2. CASE seen = "draft"
    <3>0. Rewritten(o, "draft").status = o.status /\ Rewritten(o, "draft").text = "draft"
      BY RewrittenFields
    <3>1. PICK r \in Poll : r = Rewritten(o, "draft") /\ r.status = o.status /\ r.text = "draft"
      BY <3>0, PollUpdates
    <3>2. poll' = [poll EXCEPT ![d] = r]
      BY <1>1, <1>2, <2>2, <3>1 DEF FinishGenerate
    <3> QED
      BY <1>1, <2>1, <2>2, <3>1, <3>2, DeskWrites
  <2>3. CASE seen = "none" /\ o.status = "none"
    <3>1. PICK r \in Poll : /\ r = [NoPoll EXCEPT !.status = "draft", !.text = "draft"]
                            /\ r.status = "draft" /\ r.text = "draft"
      BY <1>1, PollUpdates DEF NoPoll
    <3>2. poll' = [poll EXCEPT ![d] = r]
      BY <1>1, <1>2, <2>3, <3>1 DEF FinishGenerate
    <3> QED
      BY <1>1, <2>1, <2>3, <3>1, <3>2, DeskWrites
  <2>4. CASE seen = "none" /\ o.status # "none"
    <3>1. poll' = [poll EXCEPT ![d] = o]
      BY <1>1, <1>2, <2>4 DEF FinishGenerate
    <3> QED
      BY <1>1, <2>1, <2>4, <3>1, DeskWrites
  <2> QED
    BY <1>1, <2>1, <2>2, <2>3, <2>4
<1>3. CASE FinishApprove(a)
  <2>1. /\ desk' = [desk EXCEPT ![a] = Free] /\ UNCHANGED <<day, half, act>>
        /\ overrun' = IF o.status = "draft" THEN overrun ELSE overrun \cup {d}
        /\ overrun' \subseteq Day /\ overrun \subseteq overrun'
    BY <1>1, <1>3 DEF FinishApprove, Overrun
  <2>0. /\ [Rewritten(o, "approved") EXCEPT !.status = "scheduled"].status = "scheduled"
        /\ [Rewritten(o, "approved") EXCEPT !.status = "scheduled"].text = "approved"
    BY RewrittenFields
  <2>2. PICK r \in Poll : /\ r = [Rewritten(o, "approved") EXCEPT !.status = "scheduled"]
                          /\ r.status = "scheduled" /\ r.text = "approved"
    BY <2>0, PollUpdates
  <2>3. poll' = [poll EXCEPT ![d] = r]
    BY <1>1, <1>3, <2>2 DEF FinishApprove
  <2> QED
    BY <1>1, <2>1, <2>2, <2>3, DeskWrites
<1>4. CASE FinishReject(a)
  <2>1. /\ desk' = [desk EXCEPT ![a] = Free] /\ UNCHANGED <<day, half, act>>
        /\ overrun' = IF o.status = "draft" THEN overrun ELSE overrun \cup {d}
        /\ overrun' \subseteq Day /\ overrun \subseteq overrun'
    BY <1>1, <1>4 DEF FinishReject, Overrun
  <2>2. PICK r \in Poll : /\ r = [o EXCEPT !.status = "rejected"]
                          /\ r.status = "rejected" /\ r.text = o.text
    BY <1>1, PollUpdates, StatusFields, ZenonT(60)
  <2>3. poll' = [poll EXCEPT ![d] = r]
    BY <1>1, <1>4, <2>2 DEF FinishReject
  <2>4. o.status # "none"
    BY <1>1, <1>4 DEF FinishReject
  <2> QED
    BY <1>1, <2>1, <2>2, <2>3, <2>4, DeskWrites
<1> QED
  BY <1>2, <1>3, <1>4

(* A publication rewrites no poll that is live or closed already: its lock *)
(* kept every other publication of that day away.                          *)
LEMMA PublicationFinishes ==
    ASSUME PollInv, NEW p \in Publisher, FinishPublish(p)
    PROVE  PollInv' /\ Stands
<1>1. PICK d \in Day, o \in Poll, seen \in Status :
        /\ d = act[p].day /\ o = poll[d] /\ seen = act[p].seen
        /\ act[p].op = "publish" /\ o.status \notin {"active", "closed"}
        /\ IF half = "early" THEN d < day ELSE d = day
        /\ (o.status = "none") <=> (o.text = "none")
        /\ seen # "none" => o.status # "none"
  <2>1. act[p].day \in Day /\ act[p].seen \in Status /\ act[p] \in Request /\ act[p].op = "publish"
    BY RequestFields DEF PollInv, TypeOK, FinishPublish
  <2>2. poll[act[p].day] \in Poll
    BY <2>1 DEF PollInv, TypeOK
  <2>3. IF half = "early" THEN act[p].day < day ELSE act[p].day = day
    <3>1. act[p] # Free
      BY <2>1 DEF Free
    <3>2. day \in Nat /\ half \in {"early", "late"}
      BY DEF PollInv, TypeOK, Day
    <3> QED
      BY <2>1, <3>1, <3>2 DEF PollInv, RequestInv, PublishingIsTimely
  <2> QED
    BY <2>1, <2>2, <2>3 DEF PollInv, TypeOK, RowsRemain, Calendar
<1>2. /\ act' = [act EXCEPT ![p] = Free] /\ UNCHANGED <<day, half, desk>>
      /\ Free \in Request /\ Free.op = "none" /\ Free.seen = "none"
  BY FreeIsRequest DEF FinishPublish, Free
<1>3. RequestInv'
  BY <1>2 DEF PollInv, RequestInv, DeskKnows, PublishingIsTimely, OnePublisher, TypeOK
<1>4. CASE seen = "none" /\ o.status # "none"
  <2>1. UNCHANGED <<poll, overrun>>
    BY <1>1, <1>4 DEF FinishPublish
  <2>2. TypeOK'
    BY <1>2, <2>1 DEF PollInv, TypeOK
  <2>3. act'[p] = Free /\ \A q \in Publisher \ {p} : act'[q] = act[q]
    BY <1>2 DEF PollInv, TypeOK
  <2> QED
    BY <1>2, <1>3, <2>1, <2>2, <2>3, RowsStay
<1>5. CASE ~(seen = "none" /\ o.status # "none")
  <2>1. PICK r \in Poll : /\ r = IF seen = "scheduled" THEN [o EXCEPT !.status = "active"]
                                 ELSE [Rewritten(o, "bank") EXCEPT !.status = "active"]
                          /\ r.status = "active"
                          /\ r.text = IF seen = "scheduled" THEN o.text ELSE "bank"
    <3>1. /\ [o EXCEPT !.status = "active"].status = "active"
          /\ [o EXCEPT !.status = "active"].text = o.text
      BY StatusFields
    <3>2. /\ [Rewritten(o, "bank") EXCEPT !.status = "active"].status = "active"
          /\ [Rewritten(o, "bank") EXCEPT !.status = "active"].text = "bank"
      BY RewrittenFields
    <3> QED
      BY <3>1, <3>2, PollUpdates
  <2>2. poll' = [e \in Day |-> IF e # d
                               THEN IF poll[e].status = "active"
                                    THEN [poll[e] EXCEPT !.status = "closed"] ELSE poll[e]
                               ELSE r]
        /\ overrun' = IF o.status = seen THEN overrun ELSE overrun \cup {d}
    BY <1>1, <1>5, <2>1 DEF FinishPublish, Published, Overrun
  <2>3. /\ poll'[d] = r
        /\ \A e \in Day \ {d} :
              /\ poll'[e] \in Poll
              /\ poll'[e].text = poll[e].text /\ poll'[e].votes = poll[e].votes
              /\ poll'[e].status = IF poll[e].status = "active" THEN "closed" ELSE poll[e].status
    <3>1. ASSUME NEW e \in Day \ {d}
          PROVE  /\ poll'[e] \in Poll
                 /\ poll'[e].text = poll[e].text /\ poll'[e].votes = poll[e].votes
                 /\ poll'[e].status = IF poll[e].status = "active" THEN "closed" ELSE poll[e].status
      <4>1. poll[e] \in Poll
        BY DEF PollInv, TypeOK
      <4>2. /\ [poll[e] EXCEPT !.status = "closed"].status = "closed"
            /\ [poll[e] EXCEPT !.status = "closed"].text = poll[e].text
            /\ [poll[e] EXCEPT !.status = "closed"].votes = poll[e].votes
        BY <4>1, StatusFields
      <4>3. [poll[e] EXCEPT !.status = "closed"] \in Poll
        BY <4>1, PollUpdates
      <4> QED
        BY <2>2, <4>1, <4>2, <4>3
    <3> QED
      BY <2>2, <3>1
  <2>4. TypeOK'
    <3>0. r.text # "none"
      BY <1>1, <2>1
    <3>1. \A e \in Day : poll'[e] \in Poll /\ ((poll'[e].status = "none") <=> (poll'[e].text = "none"))
      BY <2>1, <2>3, <3>0 DEF PollInv, TypeOK
    <3>2. poll' \in [Day -> Poll]
      BY <2>2, <3>1
    <3> QED
      BY <1>2, <2>2, <3>1, <3>2 DEF PollInv, TypeOK
  <2>5. Calendar'
    <3>1. \A q \in Publisher : act'[q].op = "publish" =>
              /\ q # p /\ act[q].op = "publish" /\ act'[q] = act[q]
              /\ act[q].day \in Day /\ act[q].day # d
      <4>1. act'[p] = Free /\ \A q \in Publisher \ {p} : act'[q] = act[q]
        BY <1>2 DEF PollInv, TypeOK
      <4>2. \A q \in Publisher : act[q].day \in Day
        BY RequestFields DEF PollInv, TypeOK
      <4> QED
        BY <1>1, <1>2, <4>1, <4>2 DEF PollInv, RequestInv, OnePublisher
    <3>2. \A q \in Publisher : act'[q].op = "publish" =>
              poll'[act'[q].day].status \notin {"active", "closed"}
      BY <2>3, <3>1 DEF PollInv, Calendar
    <3>3. ASSUME NEW e \in Day
          PROVE  /\ poll'[e].status = "active" => e < day \/ (e = day /\ half = "late")
                 /\ poll'[e].status = "closed" => e < day
      <4>0. day \in Nat /\ d \in Nat /\ half \in {"early", "late"}
        BY DEF Day, PollInv, TypeOK
      <4>1. CASE e = d
        BY <1>1, <2>1, <2>3, <4>0, <4>1
      <4>2. CASE e # d /\ poll[e].status = "active"
        <5>1. poll'[e].status = "closed"
          BY <2>3, <4>2
        <5>2. e < day \/ (e = day /\ half = "late")
          BY <4>2 DEF PollInv, Calendar
        <5> QED
          BY <1>1, <4>2, <5>1, <5>2
      <4>3. CASE e # d /\ poll[e].status # "active"
        BY <2>3, <4>3 DEF PollInv, Calendar
      <4> QED
        BY <4>1, <4>2, <4>3
    <3> QED
      BY <1>2, <3>2, <3>3 DEF Calendar
  <2>6. RowsRemain'
    <3>1. \A e \in Day : poll[e].status # "none" => poll'[e].status # "none"
      BY <2>1, <2>3
    <3>2. /\ \A a \in Desk : desk[a].day \in Day
          /\ \A q \in Publisher : act[q].day \in Day
      BY RequestFields DEF PollInv, TypeOK
    <3> QED
      BY <1>2, <3>1, <3>2 DEF PollInv, TypeOK, RowsRemain
  <2>7. OneLivePoll'
    BY <2>3 DEF OneLivePoll
  <2>8. overrun \subseteq overrun' /\ (d \notin overrun' => o.status = seen)
    BY <2>2
  <2>9. ReviewedUnlessOverrun' /\ ScheduledIsApproved' /\ Stands
    <3>1. d \notin overrun' => r.text # "draft"
                            /\ (o.status = "scheduled" => r.text = "approved")
      BY <1>1, <2>1, <2>8 DEF PollInv, ScheduledIsApproved
    <3>2. ReviewedUnlessOverrun'
      BY <2>3, <2>8, <3>1 DEF PollInv, ReviewedUnlessOverrun
    <3>3. ScheduledIsApproved'
      BY <2>1, <2>3, <2>8 DEF PollInv, ScheduledIsApproved
    <3>4. Stands
      <4>1. ASSUME NEW e \in Day \ overrun', poll[e].status = "scheduled"
            PROVE  poll'[e].status \in {"scheduled", "active"} /\ poll'[e].text = "approved"
        <5>1. CASE e = d
          BY <1>1, <2>1, <2>3, <3>1, <4>1, <5>1
        <5>2. CASE e # d
          BY <2>3, <2>8, <4>1, <5>2 DEF PollInv, ScheduledIsApproved
        <5> QED
          BY <5>1, <5>2
      <4>2. ASSUME NEW e \in Day \ overrun', poll[e].status \in {"active", "closed"}
            PROVE  /\ poll'[e].status \in {poll[e].status, "closed"}
                   /\ poll'[e].text = poll[e].text
                   /\ poll[e].votes \subseteq poll'[e].votes
        <5>1. e # d
          BY <1>1, <4>2
        <5> QED
          BY <2>3, <4>2, <5>1
      <4> QED
        BY <4>1, <4>2 DEF Stands
    <3> QED
      BY <3>2, <3>3, <3>4
  <2> QED
    BY <1>3, <2>4, <2>5, <2>6, <2>7, <2>9 DEF PollInv
<1> QED
  BY <1>4, <1>5

(* At 09:00 and at midnight no request is older than half a day.           *)
LEMMA Ticking ==
    ASSUME PollInv, Tick
    PROVE  PollInv' /\ Stands
<1>1. /\ \A a \in Desk : desk[a] \in Request /\ ~desk[a].old
      /\ \A p \in Publisher : act[p] \in Request /\ ~act[p].old
      /\ UNCHANGED <<poll, overrun>> /\ day \in Nat /\ day' \in Nat
  BY DEF Tick, InFlight, PollInv, TypeOK, Day
<1>2. /\ \A a \in Desk : desk'[a] = Aged(desk[a])
      /\ \A p \in Publisher : act'[p] = Aged(act[p])
  BY DEF Tick
<1>3. TypeOK'
  <2>1. \A a \in Desk : Aged(desk[a]) \in Request
    BY <1>1, RequestFields
  <2>2. \A p \in Publisher : Aged(act[p]) \in Request
    BY <1>1, RequestFields
  <2>3. desk' \in [Desk -> Request] /\ act' \in [Publisher -> Request]
    BY <2>1, <2>2 DEF Tick
  <2>4. day' \in Day /\ half' \in {"early", "late"}
    <3>1. CASE half = "early"
      BY <3>1 DEF Tick, PollInv, TypeOK
    <3>2. CASE half = "late"
      <4>1. day \in Nat /\ day >= 1 /\ LastDay \in Nat
        BY PollAssumption DEF PollInv, TypeOK, Day
      <4>2. day < LastDay /\ day' = day + 1 /\ half' = "early"
        BY <3>2 DEF Tick
      <4> QED
        BY <4>1, <4>2, PollAssumption DEF Day
    <3> QED
      BY <3>1, <3>2 DEF PollInv, TypeOK
  <2> QED
    BY <1>1, <2>3, <2>4 DEF PollInv, TypeOK
<1>4. \A a \in Desk : desk'[a].op = desk[a].op /\ desk'[a].day = desk[a].day /\ desk'[a].seen = desk[a].seen
  BY <1>1, <1>2, RequestFields
<1>5. \A p \in Publisher : /\ act'[p].op = act[p].op /\ act'[p].day = act[p].day
                           /\ act'[p].seen = act[p].seen
                           /\ act'[p] = Free \/ act'[p].old
  <2> SUFFICES ASSUME NEW p \in Publisher
               PROVE  /\ act'[p].op = act[p].op /\ act'[p].day = act[p].day
                      /\ act'[p].seen = act[p].seen
                      /\ act'[p] = Free \/ act'[p].old
    OBVIOUS
  <2>1. act[p] = Free => act'[p] = Free
    BY <1>2 DEF Aged
  <2>2. /\ Aged(act[p]).op = act[p].op /\ Aged(act[p]).day = act[p].day
        /\ Aged(act[p]).seen = act[p].seen
        /\ act[p] # Free => Aged(act[p]).old
    BY <1>1, RequestFields
  <2> QED
    BY <1>2, <2>1, <2>2
<1>6. RequestInv'
  <2>1. PublishingIsTimely'
    <3> SUFFICES ASSUME NEW p \in Publisher, act'[p] # Free
                 PROVE  act'[p].op = "publish" /\ act'[p].old /\ half' = "early" /\ act'[p].day = day' - 1
      BY <1>5 DEF PublishingIsTimely
    <3>1. act[p] # Free
      BY <1>2 DEF Aged
    <3>2. act[p].op = "publish" /\ half = "late" /\ act[p].day = day
      BY <1>1, <3>1 DEF PollInv, RequestInv, PublishingIsTimely
    <3>3. half' = "early" /\ day' = day + 1
      BY <3>2 DEF Tick
    <3> QED
      BY <1>1, <1>5, <3>2, <3>3
  <2>2. DeskKnows' /\ OnePublisher'
    BY <1>4, <1>5 DEF PollInv, RequestInv, DeskKnows, OnePublisher
  <2> QED
    BY <2>1, <2>2 DEF RequestInv
<1>7. Calendar'
  <2>1. \A d \in Day : /\ d < day => d < day'
                       /\ d = day /\ half = "late" => d < day'
    BY <1>1 DEF Tick, Day, PollInv, TypeOK
  <2>2. \A p \in Publisher : act'[p].op = "publish" =>
            poll'[act'[p].day].status \notin {"active", "closed"}
    BY <1>1, <1>5 DEF PollInv, Calendar
  <2>3. \A d \in Day : /\ poll'[d].status = "active" => d < day' \/ (d = day' /\ half' = "late")
                       /\ poll'[d].status = "closed" => d < day'
    BY <1>1, <2>1 DEF PollInv, Calendar
  <2> QED
    BY <2>2, <2>3 DEF Calendar
<1>8. RowsRemain'
  BY <1>1, <1>4, <1>5 DEF PollInv, RowsRemain
<1>9. OneLivePoll' /\ ReviewedUnlessOverrun' /\ ScheduledIsApproved' /\ Stands
  BY <1>1 DEF PollInv, OneLivePoll, ReviewedUnlessOverrun, ScheduledIsApproved, Stands
<1> QED
  BY <1>3, <1>6, <1>7, <1>8, <1>9 DEF PollInv

-----------------------------------------------------------------------------
LEMMA StutteringStands ==
    ASSUME PollInv, UNCHANGED vars
    PROVE  PollInv' /\ Stands
<1>1. UNCHANGED <<day, half, poll, desk, act, overrun>>
  BY DEF vars
<1>2. PollInv'
  BY <1>1 DEF PollInv, TypeOK, RequestInv, DeskKnows, PublishingIsTimely, OnePublisher, Calendar,
     RowsRemain, OneLivePoll, ReviewedUnlessOverrun, ScheduledIsApproved
<1>3. Stands
  BY <1>1 DEF PollInv, Stands, ScheduledIsApproved
<1> QED
  BY <1>2, <1>3

LEMMA StepStands == PollInv /\ [Next]_vars => PollInv' /\ Stands
<1> SUFFICES ASSUME PollInv, [Next]_vars PROVE PollInv' /\ Stands
  OBVIOUS
<1>1. ASSUME NEW a \in Desk,
             \/ \E replace \in BOOLEAN : StartGenerate(a, replace)
             \/ StartApprove(a) \/ StartReject(a) \/ DropRequest(a)
      PROVE  PollInv' /\ Stands
  BY <1>1, DeskStarts
<1>2. ASSUME NEW a \in Desk, FinishGenerate(a) \/ FinishApprove(a) \/ FinishReject(a)
      PROVE  PollInv' /\ Stands
  BY <1>2, DeskFinishes
<1>3. ASSUME NEW p \in Publisher, StartPublish(p) \/ DropPublish(p)
      PROVE  PollInv' /\ Stands
  BY <1>3, PublicationStarts
<1>4. ASSUME NEW p \in Publisher, FinishPublish(p)
      PROVE  PollInv' /\ Stands
  BY <1>4, PublicationFinishes
<1>5. ASSUME NEW v \in Voter, NEW d \in Day, StartVote(v, d) \/ FinishVote(v, d) \/ DropVote(v, d)
      PROVE  PollInv' /\ Stands
  BY <1>5, Voting
<1> QED
  BY <1>1, <1>2, <1>3, <1>4, <1>5, Ticking, StutteringStands DEF Next

LEMMA PollInvariance == Spec => []PollInv
<1>1. Init => PollInv
  BY InitPollInv
<1>2. PollInv /\ [Next]_vars => PollInv'
  BY StepStands
<1> QED
  BY <1>1, <1>2, PTL DEF Spec

(* TypeCorrect: the rows, requests and the calendar have their types.      *)
THEOREM TypeCorrect == Spec => []TypeOK
  BY PollInvariance, PTL DEF PollInv

(* LivePollReviewed: readers are shown one poll at most and none that no   *)
(* reviewer approved, an approved one goes live, and what was put to the   *)
(* vote is only ever closed, for any number of reviewers and of publishers *)
(* racing each other; a write over a status that was not read is excepted. *)
THEOREM LivePollReviewed == Spec => LivePollIsReviewed
<1> DEFINE
      GoesLive == \A d \in Day \ overrun' : poll[d].status = "scheduled" =>
                  /\ poll'[d].status \in {"scheduled", "active"}
                  /\ poll'[d].text = "approved"
      Final == \A d \in Day \ overrun' : poll[d].status \in {"active", "closed"} =>
                  /\ poll'[d].status \in {poll[d].status, "closed"}
                  /\ poll'[d].text = poll[d].text
                  /\ poll[d].votes \subseteq poll'[d].votes
<1>1. PollInv /\ [Next]_vars => GoesLive /\ Final
  BY StepStands DEF Stands
<1>2. PollInv => OneLivePoll /\ ReviewedUnlessOverrun
  BY DEF PollInv
<1> HIDE DEF GoesLive, Final
<1>3. PollInv /\ [Next]_vars => [GoesLive]_vars /\ [Final]_vars
  BY <1>1
<1>4. Spec => []PollInv
  BY PollInvariance
<1>5. Spec => [](OneLivePoll /\ ReviewedUnlessOverrun)
  BY <1>2, <1>4, PTL
<1>6. Spec => [][GoesLive]_vars /\ [][Final]_vars
  BY <1>3, <1>4, PTL DEF Spec
<1> QED
  BY <1>5, <1>6 DEF LivePollIsReviewed, ApprovedGoesLive, PublishedIsFinal, GoesLive, Final
-----------------------------------------------------------------------------
(* DailyGames: the quiz.                                                   *)

Row == {NoQuiz} \cup [id: Nat \ {0}, text: Text, status: {"draft", "approved", "rejected"}]
Call == [pc: {"off", "quiz", "draw", "insert"}, games: BOOLEAN]
Edit == {x \in [pc: {"off", "draw", "read", "redraft", "approve", "reject", "quiz", "insert"}, row: Row, text: Text] :
            x.pc \in {"approve", "reject"} => x.row # NoQuiz}
Entry == [row: {"none", "there", "deleted"}, active: BOOLEAN, used: Nat, since: Nat]
Picked == [what: SUBSET Question, at: Nat]
Record == [what: SUBSET Question, at: Nat, done: Nat]

QuizTypeOK ==
    /\ quiz \in Row /\ rowsMade \in Nat /\ games \in BOOLEAN
    /\ req \in [Caller -> Call]
    /\ ed \in [Editor -> Edit] /\ script \in Edit

\* No selection is dated after the last step of a draw, and none by zero.
BankTypeOK ==
    /\ bank \in [Question -> Entry] /\ draws \in Nat
    /\ pick \in [Party -> Picked] /\ drawn \subseteq Record
    /\ \A q \in Question : bank[q].active => There(q)
    /\ \A w \in Party : pick[w].at <= draws /\ (pick[w].what # {} => pick[w].at # 0)
    /\ \A d \in drawn : d.at <= draws /\ d.done <= draws

\* What has been drawn is dated, unless it has been deleted; what has been
\* selected is or was there.
DrawnIsUsed ==
    /\ \A d \in drawn : \A q \in d.what : bank[q].row = "deleted" \/ (There(q) /\ bank[q].used # 0)
    /\ \A w \in Party : \A q \in pick[w].what : bank[q].row # "none"

\* A party that has passed over a question that waits has selected none that
\* had been drawn by then.
PickIsFair ==
    \A w \in Party, p \in Question :
        Waits(p) /\ bank[p].since < pick[w].at /\ p \notin pick[w].what =>
            \A d \in drawn : d.what \cap pick[w].what # {} => pick[w].at < d.done

Holds(r) == req[r].pc \in {"quiz", "draw"}
HasRead(e) == ed[e].pc \notin {"off", "draw", "read"}

\* Until somebody writes without the lock, its holder alone generates, for a
\* day that has no quiz, and every editor works on a row.
LockHolds ==
    \/ unlocked
    \/ /\ ~refused
       /\ \A r \in Caller : /\ req[r].pc # "insert"
                            /\ Holds(r) => /\ lock = r /\ quiz = NoQuiz
                                           /\ (req[r].games => ~games)
       /\ \A e \in Editor : HasRead(e) => ed[e].row # NoQuiz
       /\ script.pc # "insert"

QuizInv == QuizTypeOK /\ 0 \in vetted /\ ServedIsVetted /\ LockHolds
BankInv == BankTypeOK /\ DrawnIsUsed /\ PickIsFair /\ NoQuestionWaits

(* The bank.                                                               *)
LEMMA EntryFields ==
    ASSUME NEW x \in Entry
    PROVE  x.used \in Nat /\ x.since \in Nat
  BY DEF Entry

LEMMA NewEntries ==
    /\ Unlisted \in Entry /\ Fresh \in Entry /\ Deleted \in Entry
    /\ ~Unlisted.active /\ Fresh.row = "there" /\ Deleted.row = "deleted" /\ ~Deleted.active
<1>1. PICK u : u = [row |-> "none", active |-> FALSE, used |-> 0, since |-> 0]
  OBVIOUS
<1>2. u \in Entry /\ ~u.active
  BY <1>1 DEF Entry
<1>3. PICK f : f = [u EXCEPT !.row = "there", !.active = TRUE]
  OBVIOUS
<1>4. f \in Entry /\ f.row = "there"
  BY <1>2, <1>3 DEF Entry
<1>5. PICK g : g = [u EXCEPT !.row = "deleted"]
  OBVIOUS
<1>6. g \in Entry /\ g.row = "deleted" /\ ~g.active
  BY <1>2, <1>5 DEF Entry
<1> QED
  BY <1>1, <1>2, <1>3, <1>4, <1>5, <1>6 DEF Unlisted, Fresh, Deleted

LEMMA NoPickType == NoPick \in Picked /\ NoPick.what = {} /\ NoPick.at = 0
  BY DEF NoPick, Picked

LEMMA BankStays == BankInv /\ UNCHANGED <<bank, pick, draws, drawn>> => BankInv'
  BY DEF BankInv, BankTypeOK, DrawnIsUsed, PickIsFair, NoQuestionWaits, Waits, There

LEMMA BankNumbers ==
    ASSUME BankInv
    PROVE  /\ draws \in Nat
           /\ \A q \in Question : bank[q] \in Entry /\ bank[q].used \in Nat /\ bank[q].since \in Nat
           /\ \A w \in Party : pick[w] \in Picked /\ pick[w].at \in Nat /\ pick[w].what \subseteq Question
           /\ \A d \in drawn : d.at \in Nat /\ d.done \in Nat /\ d.what \subseteq Question
<1>1. ASSUME NEW d \in drawn PROVE d.at \in Nat /\ d.done \in Nat /\ d.what \subseteq Question
  <2>1. d \in Record
    BY DEF BankInv, BankTypeOK
  <2> QED
    BY <2>1 DEF Record
<1>2. ASSUME NEW w \in Party PROVE pick[w] \in Picked /\ pick[w].at \in Nat /\ pick[w].what \subseteq Question
  <2>1. pick[w] \in Picked
    BY DEF BankInv, BankTypeOK
  <2> QED
    BY <2>1 DEF Picked
<1> QED
  BY <1>1, <1>2, EntryFields DEF BankInv, BankTypeOK

\* A selection takes what was never used before it takes anything a second time.
LEMMA SelectingKeeps ==
    ASSUME BankInv, NEW w \in Party, Select(w)
    PROVE  BankInv'
<1>1. PICK s \in Draws : pick' = [pick EXCEPT ![w] = [what |-> s, at |-> draws + 1]]
  BY DEF Select
<1>2. draws' = draws + 1 /\ bank' = bank /\ drawn' = drawn
  BY DEF Select
<1>3. /\ s \subseteq Active /\ Active \subseteq Question
      /\ \A p \in s, q \in Active \ s : bank[p].used <= bank[q].used
  BY DEF Draws, Order, Active
<1>4. PICK n \in Nat : n = draws + 1 /\ n # 0 /\ draws \in Nat
  BY BankNumbers
<1>5. PICK k : k = [what |-> s, at |-> n]
  OBVIOUS
<1>6. k \in Picked /\ k.what = s /\ k.at = n
  BY <1>3, <1>5 DEF Picked
<1>7. pick \in [Party -> Picked]
  BY DEF BankInv, BankTypeOK
<1>8. pick' \in [Party -> Picked] /\ pick'[w] = k /\ \A v \in Party : v # w => pick'[v] = pick[v]
  BY <1>1, <1>4, <1>5, <1>6, <1>7
<1>9. BankTypeOK'
  <2>1. ASSUME NEW v \in Party PROVE pick'[v].at <= n /\ (pick'[v].what # {} => pick'[v].at # 0)
    <3>1. CASE v = w
      BY <1>4, <1>6, <1>8, <3>1
    <3>2. CASE v # w
      <4>1. pick[v].at \in Nat /\ pick[v].at <= draws /\ (pick[v].what # {} => pick[v].at # 0)
        BY BankNumbers DEF BankInv, BankTypeOK
      <4> QED
        BY <1>4, <1>8, <3>2, <4>1
    <3> QED
      BY <3>1, <3>2
  <2>2. ASSUME NEW d \in drawn PROVE d.at <= n /\ d.done <= n
    <3>1. d.at \in Nat /\ d.done \in Nat /\ d.at <= draws /\ d.done <= draws
      BY BankNumbers DEF BankInv, BankTypeOK
    <3> QED
      BY <1>4, <3>1
  <2> QED
    BY <1>2, <1>4, <1>8, <2>1, <2>2 DEF BankInv, BankTypeOK, There
<1>10. \A q \in s : There(q)
  BY <1>3 DEF Active, BankInv, BankTypeOK
<1>11. DrawnIsUsed'
  BY <1>2, <1>6, <1>8, <1>10 DEF BankInv, DrawnIsUsed, There
<1>12. PickIsFair'
  <2> SUFFICES ASSUME NEW v \in Party, NEW p \in Question, Waits(p), bank[p].since < pick'[v].at,
                      p \notin pick'[v].what, NEW d \in drawn, d.what \cap pick'[v].what # {}
               PROVE  pick'[v].at < d.done
    BY <1>2 DEF PickIsFair, Waits
  <2>1. CASE v # w
    BY <1>8, <2>1 DEF BankInv, PickIsFair
  <2>2. CASE v = w
    <3>1. PICK q \in s : q \in d.what
      BY <1>6, <1>8, <2>2
    <3>2. p \in Active \ s
      BY <1>6, <1>8, <2>2 DEF Waits, Active
    <3>3. bank[q].used <= 0 /\ bank[q].used \in Nat
      BY <1>3, <3>2, BankNumbers DEF Waits
    <3>4. There(q)
      BY <1>10
    <3>5. bank[q].used # 0
      BY <3>1, <3>4 DEF BankInv, DrawnIsUsed, There
    <3> QED
      BY <3>3, <3>5
  <2> QED
    BY <2>1, <2>2
<1>13. NoQuestionWaits'
  BY <1>2 DEF BankInv, NoQuestionWaits, Waits
<1> QED
  BY <1>9, <1>11, <1>12, <1>13 DEF BankInv

\* What is committed was selected by then, and everybody else's commit that
\* is to come is later.
LEMMA DrawingKeeps ==
    ASSUME BankInv, NEW w \in Party, EndDraw(w)
    PROVE  BankInv'
<1>1. PICK k \in Picked : k = pick[w]
  BY DEF BankInv, BankTypeOK
<1>2. PICK m \in Nat : m = draws
  BY BankNumbers
<1>3. PICK e : e = [what |-> k.what, at |-> k.at, done |-> m + 1]
  OBVIOUS
<1>4. e \in Record /\ e.what = k.what /\ e.at = k.at /\ e.done = m + 1
  BY <1>3 DEF Picked, Record
<1>5. /\ k.at \in Nat /\ k.at <= m /\ k.what \subseteq Question /\ (k.what # {} => k.at # 0)
  BY <1>1, <1>2, BankNumbers DEF BankInv, BankTypeOK
<1>6. draws' = m + 1 /\ drawn' = drawn \cup {e}
  BY <1>1, <1>2, <1>3 DEF EndDraw
<1>7. bank' = [q \in Question |-> IF q \in k.what /\ There(q) THEN [bank[q] EXCEPT !.used = k.at] ELSE bank[q]]
  BY <1>1 DEF EndDraw
<1>8. pick \in [Party -> Picked] /\ pick' = [pick EXCEPT ![w] = NoPick]
  BY DEF EndDraw, BankInv, BankTypeOK
<1>9. pick' \in [Party -> Picked] /\ \A v \in Party : pick'[v] = pick[v] \/ pick'[v] = NoPick
  BY <1>8, NoPickType
<1>10. ASSUME NEW q \in Question
       PROVE  /\ bank'[q] \in Entry /\ bank'[q].row = bank[q].row /\ bank'[q].active = bank[q].active
              /\ bank'[q].since = bank[q].since
              /\ q \in k.what /\ There(q) => bank'[q].used = k.at
              /\ ~(q \in k.what /\ There(q)) => bank'[q].used = bank[q].used
  <2>1. PICK x \in Entry : x = bank[q]
    BY BankNumbers
  <2>2. CASE q \in k.what /\ There(q)
    <3>1. PICK y : y = [x EXCEPT !.used = k.at]
      OBVIOUS
    <3>2. y \in Entry /\ y.row = x.row /\ y.active = x.active /\ y.since = x.since /\ y.used = k.at
      BY <1>5, <3>1 DEF Entry
    <3>3. bank'[q] = y
      BY <1>7, <2>1, <2>2, <3>1
    <3> QED
      BY <2>1, <2>2, <3>2, <3>3
  <2>3. CASE ~(q \in k.what /\ There(q))
    BY <1>7, <2>1, <2>3
  <2> QED
    BY <2>2, <2>3
<1>11. ASSUME NEW q \in Question, bank[q].used # 0 PROVE bank'[q].used # 0
  BY <1>5, <1>10, <1>11
<1>12. ASSUME NEW p \in Question, Waits(p)' PROVE Waits(p) /\ p \notin k.what
  <2>1. bank[p].active /\ bank[p].used = 0
    BY <1>10, <1>11, <1>12 DEF Waits
  <2>2. There(p)
    BY <2>1 DEF BankInv, BankTypeOK
  <2> QED
    BY <1>5, <1>10, <1>12, <2>1, <2>2 DEF Waits
<1>13. BankTypeOK'
  <2>1. bank' \in [Question -> Entry]
    BY <1>7, <1>10
  <2>2. \A q \in Question : bank'[q].active => There(q)'
    BY <1>10 DEF BankInv, BankTypeOK, There
  <2>3. ASSUME NEW v \in Party PROVE pick'[v].at <= m + 1 /\ (pick'[v].what # {} => pick'[v].at # 0)
    <3>1. pick[v].at \in Nat /\ pick[v].at <= m /\ (pick[v].what # {} => pick[v].at # 0)
      BY <1>2, BankNumbers DEF BankInv, BankTypeOK
    <3> QED
      BY <1>9, <3>1, NoPickType
  <2>4. ASSUME NEW d \in drawn' PROVE d.at <= m + 1 /\ d.done <= m + 1
    <3>1. CASE d = e
      BY <1>4, <1>5, <3>1
    <3>2. CASE d \in drawn
      <4>1. d.at \in Nat /\ d.done \in Nat /\ d.at <= m /\ d.done <= m
        BY <1>2, <3>2, BankNumbers DEF BankInv, BankTypeOK
      <4> QED
        BY <4>1
    <3> QED
      BY <1>6, <3>1, <3>2
  <2>5. drawn' \subseteq Record
    BY <1>4, <1>6 DEF BankInv, BankTypeOK
  <2> QED
    BY <1>6, <1>9, <2>1, <2>2, <2>3, <2>4, <2>5 DEF BankTypeOK
<1>14. DrawnIsUsed'
  <2>1. ASSUME NEW d \in drawn', NEW q \in d.what
        PROVE  bank'[q].row = "deleted" \/ (There(q)' /\ bank'[q].used # 0)
    <3>1. CASE d \in drawn
      <4>1. q \in Question
        BY <3>1, BankNumbers
      <4> QED
        BY <1>10, <1>11, <3>1, <4>1 DEF BankInv, DrawnIsUsed, There
    <3>2. CASE d = e
      <4>1. q \in Question /\ q \in k.what /\ bank[q].row # "none"
        BY <1>1, <1>4, <1>5, <3>2 DEF BankInv, DrawnIsUsed
      <4>2. bank[q].row \in {"none", "there", "deleted"}
        BY <4>1, BankNumbers DEF Entry
      <4> QED
        BY <1>5, <1>10, <4>1, <4>2 DEF There
    <3> QED
      BY <1>6, <3>1, <3>2
  <2>2. ASSUME NEW v \in Party, NEW q \in pick'[v].what PROVE bank'[q].row # "none"
    <3>1. pick'[v] = pick[v]
      BY <1>9, <2>2, NoPickType
    <3>2. q \in Question /\ bank[q].row # "none"
      BY <2>2, <3>1, BankNumbers DEF BankInv, DrawnIsUsed
    <3> QED
      BY <1>10, <3>2
  <2> QED
    BY <2>1, <2>2 DEF DrawnIsUsed
<1>15. PickIsFair'
  <2> SUFFICES ASSUME NEW v \in Party, NEW p \in Question, Waits(p)', bank'[p].since < pick'[v].at,
                      p \notin pick'[v].what, NEW d \in drawn', d.what \cap pick'[v].what # {}
               PROVE  pick'[v].at < d.done
    BY DEF PickIsFair
  <2>1. pick'[v] = pick[v]
    BY <1>9, NoPickType
  <2>2. Waits(p) /\ bank[p].since < pick[v].at
    BY <1>10, <1>12, <2>1
  <2>3. CASE d \in drawn
    BY <2>1, <2>2, <2>3 DEF BankInv, PickIsFair
  <2>4. CASE d = e
    <3>1. pick[v].at \in Nat /\ pick[v].at <= m
      BY <1>2, BankNumbers DEF BankInv, BankTypeOK
    <3> QED
      BY <1>4, <2>1, <2>4, <3>1
  <2> QED
    BY <1>6, <2>3, <2>4
<1>16. NoQuestionWaits'
  <2> SUFFICES ASSUME NEW p \in Question, Waits(p)', NEW c \in drawn', NEW d \in drawn',
                      c.what \cap d.what # {}, d.at > bank'[p].since
               PROVE  d.at < c.done
    BY DEF NoQuestionWaits
  <2>1. Waits(p) /\ p \notin k.what /\ d.at > bank[p].since
    BY <1>10, <1>12
  <2>2. CASE c \in drawn /\ d \in drawn
    BY <2>1, <2>2 DEF BankInv, NoQuestionWaits
  <2>3. CASE c \in drawn /\ d = e
    <3>1. bank[p].since < pick[w].at /\ p \notin pick[w].what /\ c.what \cap pick[w].what # {}
      BY <1>1, <1>4, <2>1, <2>3, BankNumbers
    <3>2. pick[w].at < c.done
      BY <2>1, <2>3, <3>1 DEF BankInv, PickIsFair
    <3> QED
      BY <1>1, <1>4, <2>3, <3>2
  <2>4. CASE c = e
    <3>1. d.at \in Nat /\ d.at <= m
      <4>1. CASE d = e
        BY <1>4, <1>5, <4>1
      <4>2. CASE d \in drawn
        BY <1>2, <4>2, BankNumbers DEF BankInv, BankTypeOK
      <4> QED
        BY <1>6, <4>1, <4>2
    <3> QED
      BY <1>4, <2>4, <3>1
  <2> QED
    BY <1>6, <2>2, <2>3, <2>4
<1> QED
  BY <1>13, <1>14, <1>15, <1>16 DEF BankInv

\* A party that fails leaves the bank as it is.
LEMMA GivingUpKeeps ==
    ASSUME BankInv, NEW w \in Party, pick' = [pick EXCEPT ![w] = NoPick], UNCHANGED <<bank, draws, drawn>>
    PROVE  BankInv'
<1>1. pick \in [Party -> Picked]
  BY DEF BankInv, BankTypeOK
<1>2. pick' \in [Party -> Picked] /\ \A v \in Party : pick'[v] = pick[v] \/ pick'[v] = NoPick
  BY <1>1, NoPickType
<1>3. ASSUME NEW v \in Party PROVE pick'[v].at <= draws /\ (pick'[v].what # {} => pick'[v].at # 0)
  <2>1. pick[v].at <= draws /\ (pick[v].what # {} => pick[v].at # 0) /\ draws \in Nat
    BY DEF BankInv, BankTypeOK
  <2> QED
    BY <1>2, <2>1, NoPickType
<1>4. BankTypeOK'
  BY <1>2, <1>3 DEF BankInv, BankTypeOK, There
<1>5. DrawnIsUsed'
  BY <1>2, NoPickType DEF BankInv, DrawnIsUsed, There
<1>6. PickIsFair'
  <2> SUFFICES ASSUME NEW v \in Party, NEW p \in Question, Waits(p), bank[p].since < pick'[v].at,
                      p \notin pick'[v].what, NEW d \in drawn, d.what \cap pick'[v].what # {}
               PROVE  pick'[v].at < d.done
    BY DEF PickIsFair, Waits
  <2>1. pick'[v] = pick[v]
    BY <1>2, NoPickType
  <2> QED
    BY <2>1 DEF BankInv, PickIsFair
<1>7. NoQuestionWaits'
  BY DEF BankInv, NoQuestionWaits, Waits
<1> QED
  BY <1>4, <1>5, <1>6, <1>7 DEF BankInv

\* What is added or made active waits from then on; nothing else changes in
\* what was drawn.
LEMMA BankDeskKeeps ==
    ASSUME BankInv, UNCHANGED <<pick, draws, drawn>>, bank' \in [Question -> Entry],
           \A q \in Question :
              \/ bank'[q] = bank[q]
              \/ ~bank'[q].active /\ bank'[q].row = "deleted"
              \/ bank[q].row = "none" /\ bank'[q].row = "there" /\ bank'[q].since = draws
              \/ /\ bank[q].row = "there" /\ bank'[q].row = "there"
                 /\ bank'[q].used = bank[q].used /\ bank'[q].since = draws
    PROVE  BankInv'
<1>1. BankTypeOK'
  BY DEF BankInv, BankTypeOK, There
<1>2. DrawnIsUsed'
  <2>1. ASSUME NEW d \in drawn, NEW q \in d.what
        PROVE  bank'[q].row = "deleted" \/ (There(q)' /\ bank'[q].used # 0)
    <3>1. q \in Question /\ (bank[q].row = "deleted" \/ (bank[q].row = "there" /\ bank[q].used # 0))
      BY BankNumbers DEF BankInv, DrawnIsUsed, There
    <3> QED
      BY <3>1 DEF There
  <2>2. ASSUME NEW v \in Party, NEW q \in pick[v].what PROVE bank'[q].row # "none"
    <3>1. q \in Question /\ bank[q].row # "none"
      BY BankNumbers DEF BankInv, DrawnIsUsed
    <3> QED
      BY <3>1
  <2> QED
    BY <2>1, <2>2 DEF DrawnIsUsed
<1>3. ASSUME NEW p \in Question, Waits(p)'
      PROVE  (Waits(p) /\ bank'[p].since = bank[p].since) \/ bank'[p].since = draws
  <2>1. CASE bank'[p] = bank[p]
    BY <1>3, <2>1 DEF Waits
  <2>2. CASE bank'[p] # bank[p]
    BY <1>3, <2>2 DEF Waits
  <2> QED
    BY <2>1, <2>2
<1>4. PickIsFair'
  <2> SUFFICES ASSUME NEW v \in Party, NEW p \in Question, Waits(p)', bank'[p].since < pick[v].at,
                      p \notin pick[v].what, NEW d \in drawn, d.what \cap pick[v].what # {}
               PROVE  pick[v].at < d.done
    BY DEF PickIsFair
  <2>1. pick[v].at \in Nat /\ pick[v].at <= draws /\ draws \in Nat
    BY BankNumbers DEF BankInv, BankTypeOK
  <2>2. Waits(p) /\ bank[p].since < pick[v].at
    BY <1>3, <2>1
  <2> QED
    BY <2>2 DEF BankInv, PickIsFair
<1>5. NoQuestionWaits'
  <2> SUFFICES ASSUME NEW p \in Question, Waits(p)', NEW c \in drawn, NEW d \in drawn,
                      c.what \cap d.what # {}, d.at > bank'[p].since
               PROVE  d.at < c.done
    BY DEF NoQuestionWaits
  <2>1. d.at \in Nat /\ d.at <= draws /\ draws \in Nat
    BY BankNumbers DEF BankInv, BankTypeOK
  <2>2. Waits(p) /\ d.at > bank[p].since
    BY <1>3, <2>1
  <2> QED
    BY <2>2 DEF BankInv, NoQuestionWaits
<1> QED
  BY <1>1, <1>2, <1>4, <1>5 DEF BankInv

LEMMA BankTurns == BankInv /\ [GamesNext]_gvars => BankInv'
<1> SUFFICES ASSUME BankInv, [GamesNext]_gvars PROVE BankInv'
  OBVIOUS
<1>1. ASSUME NEW r \in Caller, NEW src \in Source,
             \/ Enter(r) \/ SelectFromBank(r) \/ GenerateFromBank(r) \/ InsertQuiz(r)
             \/ Generate(r, src)
      PROVE  BankInv'
  <2>1. \/ UNCHANGED <<bank, pick, draws, drawn>> \/ Select(r) \/ EndDraw(r)
        \/ pick' = [pick EXCEPT ![r] = NoPick] /\ UNCHANGED <<bank, draws, drawn>>
    BY <1>1 DEF Enter, SelectFromBank, GenerateFromBank, InsertQuiz, Generate, bankVars
  <2>2. r \in Party
    BY DEF Party
  <2> QED
    BY <2>1, <2>2, BankStays, SelectingKeeps, DrawingKeeps, GivingUpKeeps
<1>2. ASSUME NEW e \in Editor, SelectRedraft(e) \/ DrawRedraft(e) PROVE BankInv'
  <2>1. e \in Party /\ (Select(e) \/ EndDraw(e))
    BY <1>2 DEF Party, SelectRedraft, DrawRedraft
  <2> QED
    BY <2>1, SelectingKeeps, DrawingKeeps
<1>9. CASE SelectRegen \/ DrawRegen
  <2>1. Script \in Party /\ (Select(Script) \/ EndDraw(Script))
    BY <1>9 DEF Party, SelectRegen, DrawRegen
  <2> QED
    BY <2>1, SelectingKeeps, DrawingKeeps
<1>3. ASSUME NEW e \in Editor,
             \/ today_quiz(e) \/ ReadRedraft(e)
             \/ FinishRedraft(e) \/ FinishQuizApproval(e) \/ FinishQuizRejection(e)
             \/ \E src \in Source : StartRedraft(e, src)
             \/ \E op \in {"approve", "reject"}, t \in Text : StartReview(e, op, t)
      PROVE  BankInv'
  <2>1. UNCHANGED <<bank, pick, draws, drawn>>
    BY <1>3 DEF today_quiz, ReadRedraft, FinishRedraft, FinishQuizApproval, FinishQuizRejection,
       StartRedraft, StartReview, bankVars
  <2> QED
    BY <2>1, BankStays
<1>4. CASE StartRegen \/ FinishRegen \/ UNCHANGED gvars \/ \E src \in Source : GenerateRegen(src)
  <2>1. UNCHANGED <<bank, pick, draws, drawn>>
    BY <1>4 DEF StartRegen, FinishRegen, GenerateRegen, gvars, bankVars
  <2> QED
    BY <2>1, BankStays
<1>5. bank \in [Question -> Entry] /\ draws \in Nat
  BY DEF BankInv, BankTypeOK
<1>6. ASSUME NEW q \in Question, AddQuestion(q) PROVE BankInv'
  <2>1. PICK f : f = [Fresh EXCEPT !.since = draws]
    OBVIOUS
  <2>2. f \in Entry /\ f.row = "there" /\ f.since = draws
    <3>1. PICK x \in Entry : x = Fresh /\ x.row = "there"
      BY NewEntries
    <3>2. f = [x EXCEPT !.since = draws]
      BY <2>1, <3>1
    <3> QED
      BY <1>5, <3>1, <3>2 DEF Entry
  <2>3. bank' = [bank EXCEPT ![q] = f] /\ bank[q].row = "none" /\ UNCHANGED <<pick, draws, drawn>>
    BY <1>6, <2>1 DEF AddQuestion, SetBank
  <2> QED
    BY <1>5, <2>2, <2>3, BankDeskKeeps
<1>7. ASSUME NEW s \in SUBSET Question, NEW on \in BOOLEAN, SetActive(s, on) PROVE BankInv'
  <2>1. /\ bank' = [q \in Question |-> IF q \in s THEN [bank[q] EXCEPT !.active = on, !.since = draws] ELSE bank[q]]
        /\ UNCHANGED <<pick, draws, drawn>> /\ \A q \in s : bank[q].row = "there"
    BY <1>7 DEF SetActive, SetBank, There
  <2>2. ASSUME NEW q \in Question
        PROVE  /\ bank'[q] \in Entry
               /\ \/ bank'[q] = bank[q]
                  \/ /\ bank[q].row = "there" /\ bank'[q].row = "there"
                     /\ bank'[q].used = bank[q].used /\ bank'[q].since = draws
    <3>1. bank[q] \in Entry
      BY <1>5
    <3>2. CASE q \in s
      <4>1. bank'[q] = [bank[q] EXCEPT !.active = on, !.since = draws] /\ bank[q].row = "there"
        BY <2>1, <3>2
      <4> QED
        <5>1. PICK x \in Entry : x = bank[q]
          BY <3>1
        <5>2. PICK y : y = [x EXCEPT !.active = on, !.since = draws]
          OBVIOUS
        <5>3. y \in Entry /\ y.used = x.used /\ y.row = x.row /\ y.since = draws
          BY <1>5, <5>1, <5>2 DEF Entry
        <5> QED
          BY <4>1, <5>1, <5>2, <5>3
    <3>3. CASE q \notin s
      BY <2>1, <3>1, <3>3
    <3> QED
      BY <3>2, <3>3
  <2>3. bank' \in [Question -> Entry]
    BY <2>1, <2>2
  <2> QED
    BY <2>1, <2>2, <2>3, BankDeskKeeps
<1>8. ASSUME NEW s \in SUBSET Question, DeleteQuestions(s) PROVE BankInv'
  <2>1. /\ bank' = [q \in Question |-> IF q \in s THEN Deleted ELSE bank[q]]
        /\ UNCHANGED <<pick, draws, drawn>>
    BY <1>8 DEF DeleteQuestions, SetBank
  <2>2. bank' \in [Question -> Entry]
    BY <1>5, <2>1, NewEntries
  <2>3. ASSUME NEW q \in Question
        PROVE  \/ bank'[q] = bank[q]
               \/ ~bank'[q].active /\ bank'[q].row = "deleted"
    BY <2>1, NewEntries
  <2> QED
    BY <2>1, <2>2, <2>3, BankDeskKeeps
<1> QED
  BY <1>1, <1>2, <1>3, <1>4, <1>6, <1>7, <1>8, <1>9 DEF GamesNext, Source

(* The rows of the day's quiz.                                             *)
LEMMA RowFields ==
    ASSUME NEW x \in Row
    PROVE  /\ NoQuiz \in Row /\ NoQuiz.id = 0 /\ NoQuiz.text = 0 /\ NoQuiz.status = "none" /\ 0 \in Text
           /\ x # NoQuiz => /\ x.id \in Nat \ {0} /\ x.text \in Text
                            /\ x.status \in {"draft", "approved", "rejected"}
<1>1. NoQuiz \in Row /\ NoQuiz.id = 0 /\ NoQuiz.text = 0 /\ NoQuiz.status = "none"
  BY DEF Row, NoQuiz
<1>2. 0 \in Text
  BY GamesAssumption DEF Text
<1>3. ASSUME x # NoQuiz PROVE x \in [id: Nat \ {0}, text: Text, status: {"draft", "approved", "rejected"}]
  BY <1>3 DEF Row
<1> QED
  BY <1>1, <1>2, <1>3

LEMMA StatusUpdates ==
    ASSUME NEW x \in Row, x # NoQuiz, NEW st \in {"draft", "approved", "rejected"},
           NEW y, y = [x EXCEPT !.status = st]
    PROVE  y \in Row /\ y.status = st
<1>1. x \in [id: Nat \ {0}, text: Text, status: {"draft", "approved", "rejected"}]
  BY DEF Row
<1>2. y \in [id: Nat \ {0}, text: Text, status: {"draft", "approved", "rejected"}] /\ y.status = st
  BY <1>1
<1> QED
  BY <1>2 DEF Row

LEMMA Storing ==
    ASSUME QuizTypeOK, NEW t \in Text, NEW st \in {"draft", "approved"}, Store(t, st)
    PROVE  quiz' \in Row /\ quiz' # NoQuiz /\ quiz'.text = t /\ quiz'.status = st /\ rowsMade' \in Nat
<1>1. rowsMade \in Nat /\ rowsMade' = rowsMade + 1
  BY DEF QuizTypeOK, Store
<1>2. PICK n : n = rowsMade + 1
  OBVIOUS
<1>3. n \in Nat \ {0}
  BY <1>1, <1>2
<1>4. PICK y : y = [id |-> n, text |-> t, status |-> st]
  OBVIOUS
<1>5. y \in [id: Nat \ {0}, text: Text, status: {"draft", "approved", "rejected"}]
      /\ y.id # 0 /\ y.text = t /\ y.status = st
  BY <1>3, <1>4
<1>6. quiz' = y
  BY <1>2, <1>4 DEF Store
<1>7. y # NoQuiz
  BY <1>5 DEF NoQuiz
<1> QED
  BY <1>1, <1>2, <1>3, <1>5, <1>6, <1>7 DEF Row

LEMMA InitQuizInv == GamesInit => QuizInv /\ BankInv
<1> SUFFICES ASSUME GamesInit PROVE QuizInv /\ BankInv
  OBVIOUS
<1>1. NoQuiz \in Row /\ 0 \in Text
  BY GamesAssumption DEF Row, Text
<1>2. Idle \in Call /\ Idle.pc = "off" /\ Away \in Edit /\ Away.pc = "off"
  BY <1>1 DEF Idle, Call, Away, Edit
<1>3. QuizTypeOK
  BY <1>1, <1>2 DEF GamesInit, QuizTypeOK
<1>4. 0 \in vetted /\ ServedIsVetted
  BY DEF GamesInit, ServedIsVetted, Served, NoQuiz
<1>5. LockHolds
  BY <1>2 DEF GamesInit, LockHolds, Holds, HasRead
<1>6. ASSUME NEW q \in Question PROVE bank[q] \in Entry /\ (bank[q].active => There(q))
  BY NewEntries DEF GamesInit, There
<1>7. BankInv
  BY <1>6, NoPickType DEF GamesInit, BankInv, BankTypeOK, DrawnIsUsed, PickIsFair, NoQuestionWaits
<1> QED
  BY <1>3, <1>4, <1>5, <1>7 DEF QuizInv

\* A request commits a quiz that needs no editor, or a draft.
LEMMA Committing ==
    ASSUME QuizInv, NEW r \in Caller, NEW t \in Text, NEW st \in {"draft", "approved"},
           CommitAll(r, t, st), st = "approved" => t = 0, req[r].pc # "off",
           UNCHANGED <<ed, script, vetted, forced, crossed, unlocked>>
    PROVE  QuizInv'
<1>1. Idle \in Call /\ Idle.pc = "off"
  BY DEF Idle, Call
<1>2. req' = [req EXCEPT ![r] = Idle] /\ req \in [Caller -> Call]
  BY DEF CommitAll, QuizInv, QuizTypeOK
<1>3. \/ quiz' = quiz /\ games' = games /\ rowsMade' = rowsMade /\ Taken(r)
      \/ Store(t, st) /\ games' = TRUE /\ refused' = refused
  BY DEF CommitAll
<1>4. QuizTypeOK'
  BY <1>1, <1>2, <1>3, Storing DEF QuizInv, QuizTypeOK
<1>5. 0 \in vetted' /\ ServedIsVetted'
  <2>1. CASE quiz' = quiz
    BY <2>1 DEF QuizInv, ServedIsVetted, Served
  <2>2. CASE Store(t, st)
    <3>1. quiz'.text = t /\ quiz'.status = st
      BY <2>2, Storing DEF QuizInv
    <3> QED
      BY <3>1 DEF QuizInv, ServedIsVetted, Served
  <2> QED
    BY <1>3, <2>1, <2>2
<1>6. LockHolds'
  <2>1. CASE unlocked
    BY <2>1 DEF LockHolds
  <2>2. CASE ~unlocked
    <3>1. /\ ~refused /\ Holds(r) /\ ~Taken(r)
          /\ \A x \in Caller : req[x].pc # "insert" /\ (Holds(x) => x = r)
          /\ \A e \in Editor : HasRead(e) => ed[e].row # NoQuiz
          /\ script.pc # "insert"
      BY <1>2, <2>2 DEF QuizInv, LockHolds, Holds, Taken, Call
    <3>2. ~refused'
      BY <1>3, <3>1
    <3>3. \A x \in Caller : req'[x].pc \notin {"quiz", "draw", "insert"}
      BY <1>1, <1>2, <3>1 DEF Holds
    <3> QED
      BY <3>1, <3>2, <3>3 DEF LockHolds, Holds, HasRead
  <2> QED
    BY <2>1, <2>2
<1> QED
  BY <1>4, <1>5, <1>6 DEF QuizInv

LEMMA RequestsKeep ==
    ASSUME QuizInv, NEW r \in Caller, NEW src \in Source,
           \/ Enter(r) \/ SelectFromBank(r) \/ GenerateFromBank(r) \/ InsertQuiz(r)
           \/ Generate(r, src)
    PROVE  QuizInv'
<1>1. req \in [Caller -> Call] /\ games \in BOOLEAN /\ Nobody \notin Caller
  BY GamesAssumption DEF QuizInv, QuizTypeOK
<1>2. CASE Generate(r, src)
  <2>1. PICK t \in Text : Generated(src, t) /\ CommitAll(r, t, FirstStatus(src))
    BY <1>2 DEF Generate
  <2>2. FirstStatus(src) \in {"draft", "approved"} /\ (FirstStatus(src) = "approved" => t = 0)
    BY <2>1 DEF FirstStatus, Generated
  <2>3. req[r].pc # "off" /\ UNCHANGED <<ed, script, vetted, forced, crossed, unlocked>>
    BY <1>2 DEF Generate
  <2> QED
    BY <2>1, <2>2, <2>3, Committing
<1>3. CASE InsertQuiz(r)
  <2>1. 0 \in Text
    BY GamesAssumption DEF Text
  <2> QED
    BY <1>3, <2>1, Committing DEF InsertQuiz, FirstStatus
<1>4. CASE Enter(r)
  <2>1. /\ lock = Nobody /\ UNCHANGED <<quiz, ed, script, rowsMade, vetted, forced, crossed, unlocked, refused>>
        /\ \/ /\ quiz = NoQuiz /\ lock' = r /\ games' = games
              /\ req' = [req EXCEPT ![r] = [pc |-> "quiz", games |-> ~games]]
           \/ /\ quiz # NoQuiz /\ games' = TRUE /\ UNCHANGED <<req, lock>>
    BY <1>4 DEF Enter, MayEnter
  <2>2. PICK c : c = [pc |-> "quiz", games |-> ~games]
    OBVIOUS
  <2>3. c \in Call /\ c.pc = "quiz" /\ (c.games => ~games)
    BY <1>1, <2>2 DEF Call
  <2>4. QuizTypeOK'
    BY <2>1, <2>2, <2>3 DEF QuizInv, QuizTypeOK
  <2>5. 0 \in vetted' /\ ServedIsVetted'
    BY <2>1 DEF QuizInv, ServedIsVetted, Served
  <2>6. LockHolds'
    <3>1. CASE unlocked
      BY <2>1, <3>1 DEF LockHolds
    <3>2. CASE ~unlocked
      <4>1. /\ ~refused /\ script.pc # "insert"
            /\ \A e \in Editor : HasRead(e) => ed[e].row # NoQuiz
            /\ \A x \in Caller : req[x].pc \notin {"quiz", "draw", "insert"}
        BY <1>1, <2>1, <3>2 DEF QuizInv, LockHolds, Holds
      <4>2. \A x \in Caller : /\ req'[x].pc # "insert"
                              /\ Holds(x)' => lock' = x /\ quiz' = NoQuiz /\ (req'[x].games => ~games')
        BY <1>1, <2>1, <2>2, <2>3, <4>1 DEF Holds
      <4> QED
        BY <2>1, <4>1, <4>2 DEF LockHolds, HasRead
    <3> QED
      BY <3>1, <3>2
  <2> QED
    BY <2>4, <2>5, <2>6 DEF QuizInv
<1>5. CASE GenerateFromBank(r)
  <2>1. /\ UNCHANGED <<quiz, ed, script, rowsMade, vetted, forced, crossed>> /\ req[r].pc = "draw"
        /\ \/ /\ req[r].games /\ games /\ refused' = TRUE
              /\ req' = [req EXCEPT ![r] = Idle] /\ UNCHANGED <<games, unlocked>>
           \/ /\ games' = TRUE /\ unlocked' = TRUE
              /\ req' = [req EXCEPT ![r] = [pc |-> "insert", games |-> FALSE]]
    BY <1>5 DEF GenerateFromBank
  <2>2. Idle \in Call /\ [pc |-> "insert", games |-> FALSE] \in Call
    BY DEF Idle, Call
  <2>3. QuizTypeOK'
    BY <2>1, <2>2 DEF QuizInv, QuizTypeOK
  <2>4. 0 \in vetted' /\ ServedIsVetted'
    BY <2>1 DEF QuizInv, ServedIsVetted, Served
  <2>5. unlocked'
    BY <2>1 DEF QuizInv, LockHolds, Holds
  <2> QED
    BY <2>3, <2>4, <2>5 DEF QuizInv, LockHolds
<1>6. CASE SelectFromBank(r)
  <2>1. /\ UNCHANGED <<games, quiz, lock, ed, script, rowsMade, vetted, forced, crossed, unlocked, refused>>
        /\ req[r].pc = "quiz" /\ req' = [req EXCEPT ![r].pc = "draw"]
    BY <1>6 DEF SelectFromBank
  <2>2. PICK x \in Call : x = req[r]
    BY <1>1
  <2>3. PICK c : c = [x EXCEPT !.pc = "draw"]
    OBVIOUS
  <2>4. c \in Call /\ c.pc = "draw" /\ c.games = x.games
    BY <2>3 DEF Call
  <2>5. req' = [req EXCEPT ![r] = c]
    BY <1>1, <2>1, <2>2, <2>3
  <2>6. QuizTypeOK'
    BY <2>1, <2>4, <2>5 DEF QuizInv, QuizTypeOK
  <2>7. 0 \in vetted' /\ ServedIsVetted'
    BY <2>1 DEF QuizInv, ServedIsVetted, Served
  <2>8. LockHolds'
    <3>1. CASE unlocked
      BY <2>1, <3>1 DEF LockHolds
    <3>2. CASE ~unlocked
      <4>1. /\ ~refused /\ script.pc # "insert"
            /\ \A e \in Editor : HasRead(e) => ed[e].row # NoQuiz
            /\ \A y \in Caller : req[y].pc # "insert" /\ (Holds(y) => lock = y /\ quiz = NoQuiz /\ (req[y].games => ~games))
        BY <3>2 DEF QuizInv, LockHolds
      <4>2. ASSUME NEW y \in Caller
            PROVE  /\ req'[y].pc # "insert"
                   /\ Holds(y)' => lock = y /\ quiz = NoQuiz /\ (req'[y].games => ~games)
        <5>1. CASE y = r
          <6>1. req'[y] = c /\ lock = y /\ quiz = NoQuiz /\ (c.games => ~games)
            BY <1>1, <2>1, <2>2, <2>4, <2>5, <4>1, <5>1 DEF Holds
          <6> QED
            BY <2>4, <6>1
        <5>2. CASE y # r
          <6>1. req'[y] = req[y]
            BY <1>1, <2>5, <5>2
          <6> QED
            BY <4>1, <6>1 DEF Holds
        <5> QED
          BY <5>1, <5>2
      <4> QED
        BY <2>1, <4>1, <4>2 DEF LockHolds, Holds, HasRead
    <3> QED
      BY <3>1, <3>2
  <2> QED
    BY <2>6, <2>7, <2>8 DEF QuizInv
<1> QED
  BY <1>2, <1>3, <1>4, <1>5, <1>6

LEMMA EditorsStart ==
    ASSUME QuizInv, NEW e \in Editor,
           \/ today_quiz(e) \/ SelectRedraft(e) \/ DrawRedraft(e) \/ ReadRedraft(e)
           \/ \E src \in Source : StartRedraft(e, src)
           \/ \E op \in {"approve", "reject"}, t \in Text : StartReview(e, op, t)
    PROVE  QuizInv'
<1>1. ed \in [Editor -> Edit] /\ quiz \in Row
  BY DEF QuizInv, QuizTypeOK
<1>2. UNCHANGED <<games, quiz, lock, req, script, rowsMade, vetted, forced, crossed, refused>>
  BY DEF today_quiz, SelectRedraft, DrawRedraft, ReadRedraft, StartRedraft, StartReview
<1>3. PICK n \in Edit : /\ ed' = [ed EXCEPT ![e] = n]
                        /\ unlocked' \/ (~unlocked /\ (n.pc \in {"off", "draw", "read"} \/ n.row # NoQuiz \/ n = ed[e]))
                        /\ unlocked => unlocked'
  <2>1. CASE today_quiz(e)
    <3>1. ed' = [ed EXCEPT ![e] = ed[e]] /\ unlocked' = unlocked /\ ed[e] \in Edit
      BY <1>1, <2>1 DEF today_quiz
    <3> QED
      BY <3>1
  <2>2. ASSUME NEW t \in Text, Reading(e, t)
        PROVE  \E n \in Edit : /\ ed' = [ed EXCEPT ![e] = n]
                               /\ unlocked' \/ (~unlocked /\ (n.pc \in {"off", "draw", "read"} \/ n.row # NoQuiz \/ n = ed[e]))
                               /\ unlocked => unlocked'
    <3>1. ed' = [ed EXCEPT ![e] = [pc |-> "redraft", row |-> quiz, text |-> t]]
      BY <2>2 DEF Reading
    <3>2. unlocked' = (unlocked \/ quiz = NoQuiz)
      BY <2>2 DEF Reading
    <3>3. PICK n : n = [pc |-> "redraft", row |-> quiz, text |-> t]
      OBVIOUS
    <3>4. n \in Edit /\ n.row = quiz
      BY <1>1, <3>3 DEF Edit
    <3> QED
      BY <3>1, <3>2, <3>3, <3>4
  <2>4. \A src \in Source : StartRedraft(e, src) => \E t \in Text : Reading(e, t)
    BY DEF StartRedraft
  <2>5. ReadRedraft(e) => Reading(e, 0) /\ 0 \in Text
    BY <1>1, RowFields DEF ReadRedraft
  <2>6. ASSUME NEW pc \in {"draw", "read"}, ed' = [ed EXCEPT ![e].pc = pc], unlocked' = unlocked
        PROVE  \E n \in Edit : /\ ed' = [ed EXCEPT ![e] = n]
                               /\ unlocked' \/ (~unlocked /\ (n.pc \in {"off", "draw", "read"} \/ n.row # NoQuiz \/ n = ed[e]))
                               /\ unlocked => unlocked'
    <3>1. PICK x \in Edit : x = ed[e]
      BY <1>1
    <3>2. PICK n : n = [x EXCEPT !.pc = pc]
      OBVIOUS
    <3>3. n \in Edit /\ n.pc = pc
      BY <3>2 DEF Edit
    <3>4. ed' = [ed EXCEPT ![e] = n]
      BY <1>1, <2>6, <3>1, <3>2
    <3> QED
      BY <2>6, <3>3, <3>4
  <2>7. SelectRedraft(e) \/ DrawRedraft(e) =>
           unlocked' = unlocked /\ \E pc \in {"draw", "read"} : ed' = [ed EXCEPT ![e].pc = pc]
    BY DEF SelectRedraft, DrawRedraft
  <2>3. ASSUME NEW op \in {"approve", "reject"}, NEW t \in Text, StartReview(e, op, t)
        PROVE  \E n \in Edit : /\ ed' = [ed EXCEPT ![e] = n]
                               /\ unlocked' \/ (~unlocked /\ (n.pc \in {"off", "draw", "read"} \/ n.row # NoQuiz \/ n = ed[e]))
                               /\ unlocked => unlocked'
    <3>1. PICK n : n = [pc |-> op, row |-> quiz, text |-> t]
      OBVIOUS
    <3>2. ed' = [ed EXCEPT ![e] = n] /\ unlocked' = unlocked /\ quiz.status = "draft"
      BY <2>3, <3>1 DEF StartReview
    <3>3. quiz # NoQuiz
      BY <3>2 DEF NoQuiz
    <3>4. n \in Edit /\ n.row = quiz
      BY <1>1, <3>1, <3>3 DEF Edit
    <3> QED
      BY <3>2, <3>3, <3>4
  <2> QED
    BY <2>1, <2>2, <2>3, <2>4, <2>5, <2>6, <2>7
<1>4. QuizTypeOK'
  BY <1>1, <1>2, <1>3 DEF QuizInv, QuizTypeOK
<1>5. 0 \in vetted' /\ ServedIsVetted'
  BY <1>2 DEF QuizInv, ServedIsVetted, Served
<1>6. LockHolds'
  <2>1. CASE unlocked'
    BY <2>1 DEF LockHolds
  <2>2. CASE ~unlocked'
    <3>1. /\ ~refused /\ script.pc # "insert"
          /\ \A x \in Editor : HasRead(x) => ed[x].row # NoQuiz
          /\ \A r \in Caller : /\ req[r].pc # "insert"
                               /\ Holds(r) => lock = r /\ quiz = NoQuiz /\ (req[r].games => ~games)
      BY <1>3, <2>2 DEF QuizInv, LockHolds
    <3>2. \A x \in Editor : HasRead(x)' => ed'[x].row # NoQuiz
      BY <1>1, <1>3, <2>2, <3>1 DEF HasRead
    <3> QED
      BY <1>2, <3>1, <3>2 DEF LockHolds, Holds
  <2> QED
    BY <2>1, <2>2
<1> QED
  BY <1>4, <1>5, <1>6 DEF QuizInv

\* What an editor writes: a draft without a row only when the lock is in doubt,
\* and otherwise over the row that was read or not at all.
LEMMA EditorsFinish ==
    ASSUME QuizInv, NEW e \in Editor,
           FinishRedraft(e) \/ FinishQuizApproval(e) \/ FinishQuizRejection(e)
    PROVE  QuizInv'
<1>1. PICK m \in Edit : m = ed[e]
  BY DEF QuizInv, QuizTypeOK
<1>2. m.row \in Row /\ m.text \in Text /\ quiz \in Row /\ ed \in [Editor -> Edit] /\ rowsMade \in Nat
  BY <1>1 DEF Edit, QuizInv, QuizTypeOK
<1>3. /\ UNCHANGED <<games, lock, req, script, forced, unlocked, refused>> /\ m.pc \notin {"off", "draw", "read"}
      /\ ed' = [ed EXCEPT ![e] = Away] /\ (crossed' <=> crossed \/ quiz # m.row)
      /\ vetted' = vetted \/ (vetted' = vetted \cup {m.text} /\ m.pc = "approve")
  BY <1>1 DEF FinishRedraft, FinishQuizApproval, FinishQuizRejection, Leave, Written
<1>4. Away \in Edit /\ Away.pc = "off"
  <2>1. NoQuiz \in Row /\ 0 \in Text
    BY <1>2, RowFields
  <2> QED
    BY <2>1 DEF Away, Edit
<1>5. m.row # NoQuiz => m.row.id \in Nat \ {0}
  BY <1>2, RowFields
<1>6. quiz.id = m.row.id /\ m.row # NoQuiz => quiz # NoQuiz
  BY <1>5 DEF NoQuiz
<1>12. m.pc \in {"approve", "reject"} => m.row # NoQuiz
  BY <1>1 DEF Edit
<1>7. ~unlocked => m.row # NoQuiz
  BY <1>1, <1>3 DEF QuizInv, LockHolds, HasRead
<1>8. /\ quiz' \in Row /\ rowsMade' \in Nat /\ (quiz = NoQuiz /\ m.row # NoQuiz => quiz' = NoQuiz)
      /\ quiz = m.row /\ quiz'.status = "approved" => quiz'.text \in vetted'
  <2>1. CASE FinishRedraft(e) /\ m.row = NoQuiz
    <3>1. IF quiz = NoQuiz THEN Store(m.text, "draft") ELSE UNCHANGED <<quiz, rowsMade>>
      BY <1>1, <2>1 DEF FinishRedraft
    <3> QED
      BY <1>2, <2>1, <3>1, Storing DEF QuizInv
  <2>2. CASE FinishRedraft(e) /\ m.row # NoQuiz
    <3>1. PICK st : st = IF m.row.status = "draft" THEN quiz.status ELSE "draft"
      OBVIOUS
    <3>2. /\ quiz' = (IF quiz.id # m.row.id THEN quiz ELSE [quiz EXCEPT !.text = m.text, !.status = st])
          /\ rowsMade' = rowsMade
      BY <1>1, <2>2, <3>1 DEF FinishRedraft
    <3>3. CASE quiz.id # m.row.id
      BY <1>2, <3>2, <3>3
    <3>4. CASE quiz.id = m.row.id
      <4>1. quiz # NoQuiz
        BY <1>6, <2>2, <3>4
      <4>2. quiz.status \in {"draft", "approved", "rejected"}
        BY <1>2, <4>1, RowFields
      <4>3. st \in {"draft", "approved", "rejected"} /\ (quiz = m.row => st = "draft")
        BY <3>1, <4>2
      <4>4. quiz' \in Row /\ quiz'.status = st
        <5>1. quiz' = [quiz EXCEPT !.text = m.text, !.status = st]
          BY <3>2, <3>4
        <5>2. quiz \in [id: Nat \ {0}, text: Text, status: {"draft", "approved", "rejected"}]
          BY <1>2, <4>1 DEF Row
        <5>3. PICK x \in [id: Nat \ {0}, text: Text, status: {"draft", "approved", "rejected"}], t \in Text :
                  x = quiz /\ t = m.text
          BY <1>2, <5>2
        <5>4. PICK y : y = [x EXCEPT !.text = t, !.status = st]
          OBVIOUS
        <5>5. y \in [id: Nat \ {0}, text: Text, status: {"draft", "approved", "rejected"}] /\ y.status = st
          BY <4>3, <5>3, <5>4
        <5> QED
          BY <5>1, <5>3, <5>4, <5>5 DEF Row
      <4> QED
        BY <1>2, <3>2, <4>1, <4>3, <4>4
    <3> QED
      BY <3>3, <3>4
  <2>3. CASE FinishQuizApproval(e)
    <3>1. PICK t : t = IF m.text = m.row.text THEN quiz.text ELSE m.text
      OBVIOUS
    <3>2. /\ quiz' = (IF quiz.id # m.row.id THEN quiz ELSE [quiz EXCEPT !.text = t, !.status = "approved"])
          /\ rowsMade' = rowsMade /\ vetted' = vetted \cup {m.text}
      BY <1>1, <2>3, <3>1 DEF FinishQuizApproval
    <3>3. CASE quiz.id # m.row.id
      BY <1>2, <3>2, <3>3
    <3>4. CASE quiz.id = m.row.id
      <4>1. quiz # NoQuiz
        BY <1>1, <1>6, <1>12, <2>3, <3>4 DEF FinishQuizApproval
      <4>2. quiz.text \in Text
        BY <1>2, <4>1, RowFields
      <4>3. t \in Text /\ (quiz = m.row => t = m.text)
        BY <1>2, <3>1, <4>2
      <4>4. quiz' = [quiz EXCEPT !.text = t, !.status = "approved"]
        BY <3>2, <3>4
      <4>5. quiz' \in Row /\ quiz'.text = t
        <5>1. quiz \in [id: Nat \ {0}, text: Text, status: {"draft", "approved", "rejected"}]
          BY <1>2, <4>1 DEF Row
        <5>2. PICK x \in [id: Nat \ {0}, text: Text, status: {"draft", "approved", "rejected"}] : x = quiz
          BY <5>1
        <5>3. PICK y : y = [x EXCEPT !.text = t, !.status = "approved"]
          OBVIOUS
        <5>4. y \in [id: Nat \ {0}, text: Text, status: {"draft", "approved", "rejected"}] /\ y.text = t
          BY <4>3, <5>2, <5>3
        <5> QED
          BY <4>4, <5>2, <5>3, <5>4 DEF Row
      <4> QED
        BY <1>2, <3>2, <4>1, <4>3, <4>5
    <3> QED
      BY <3>3, <3>4
  <2>4. CASE FinishQuizRejection(e)
    <3>1. /\ quiz' = (IF quiz.id # m.row.id THEN quiz ELSE [quiz EXCEPT !.status = "rejected"])
          /\ rowsMade' = rowsMade
      BY <1>1, <2>4 DEF FinishQuizRejection
    <3>2. CASE quiz.id # m.row.id
      BY <1>2, <3>1, <3>2
    <3>3. CASE quiz.id = m.row.id /\ quiz # NoQuiz
      <4>1. quiz' \in Row /\ quiz'.status = "rejected"
        BY <1>2, <3>1, <3>3, StatusUpdates
      <4> QED
        BY <1>2, <3>1, <3>3, <4>1
    <3>4. m.row # NoQuiz
      BY <1>1, <1>12, <2>4 DEF FinishQuizRejection
    <3> QED
      BY <1>6, <3>2, <3>3, <3>4
  <2> QED
    BY <2>1, <2>2, <2>3, <2>4
<1>9. QuizTypeOK'
  BY <1>2, <1>3, <1>4, <1>8 DEF QuizInv, QuizTypeOK
<1>10. 0 \in vetted' /\ ServedIsVetted'
  <2>1. 0 \in vetted'
    BY <1>3 DEF QuizInv
  <2>2. CASE crossed'
    BY <2>1, <2>2 DEF ServedIsVetted
  <2>3. CASE ~crossed'
    <3>1. quiz'.status = "approved" => quiz'.text \in vetted'
      BY <1>3, <1>8, <2>3
    <3> QED
      BY <2>1, <3>1 DEF ServedIsVetted, Served
  <2> QED
    BY <2>1, <2>2, <2>3
<1>11. LockHolds'
  <2>1. CASE unlocked
    BY <1>3, <2>1 DEF LockHolds
  <2>2. CASE ~unlocked
    <3>1. /\ ~refused /\ script.pc # "insert" /\ (quiz = NoQuiz => quiz' = NoQuiz)
          /\ \A x \in Editor : HasRead(x) => ed[x].row # NoQuiz
          /\ \A r \in Caller : /\ req[r].pc # "insert"
                               /\ Holds(r) => lock = r /\ quiz = NoQuiz /\ (req[r].games => ~games)
      BY <1>7, <1>8, <2>2 DEF QuizInv, LockHolds
    <3>2. \A x \in Editor : HasRead(x)' => ed'[x].row # NoQuiz
      BY <1>2, <1>3, <1>4, <3>1 DEF HasRead
    <3> QED
      BY <1>3, <3>1, <3>2 DEF LockHolds, Holds
  <2> QED
    BY <2>1, <2>2
<1> QED
  BY <1>9, <1>10, <1>11 DEF QuizInv

LEMMA ScriptKeeps ==
    ASSUME QuizInv,
           StartRegen \/ SelectRegen \/ DrawRegen \/ FinishRegen \/ \E src \in Source : GenerateRegen(src)
    PROVE  QuizInv'
<1>1. quiz \in Row /\ script \in Edit /\ NoQuiz \in Row /\ 0 \in Text /\ NoQuiz.status = "none"
  BY RowFields DEF QuizInv, QuizTypeOK
<1>2. UNCHANGED <<games, lock, req, ed, vetted, crossed, refused>>
  BY DEF StartRegen, SelectRegen, DrawRegen, FinishRegen, GenerateRegen
<1>3. CASE StartRegen
  <2>1. PICK n : n = [pc |-> "quiz", row |-> quiz, text |-> 0]
    OBVIOUS
  <2>2. n \in Edit /\ n.pc = "quiz"
    BY <1>1, <2>1 DEF Edit
  <2>3. script' = n /\ UNCHANGED <<quiz, rowsMade, forced, unlocked>>
    BY <1>3, <2>1 DEF StartRegen
  <2>4. QuizTypeOK'
    BY <1>2, <2>2, <2>3 DEF QuizInv, QuizTypeOK
  <2>5. 0 \in vetted' /\ ServedIsVetted'
    BY <1>2, <2>3 DEF QuizInv, ServedIsVetted, Served
  <2>6. LockHolds'
    BY <1>2, <2>2, <2>3 DEF QuizInv, LockHolds, Holds, HasRead
  <2> QED
    BY <2>4, <2>5, <2>6 DEF QuizInv
<1>6. CASE SelectRegen
  <2>1. script' = [script EXCEPT !.pc = "draw"] /\ UNCHANGED <<quiz, rowsMade, forced, unlocked>>
    BY <1>6 DEF SelectRegen
  <2>2. PICK n : n = [script EXCEPT !.pc = "draw"]
    OBVIOUS
  <2>3. n \in Edit /\ n.pc = "draw"
    BY <1>1, <2>2 DEF Edit
  <2>4. QuizTypeOK'
    BY <1>2, <2>1, <2>2, <2>3 DEF QuizInv, QuizTypeOK
  <2>5. 0 \in vetted' /\ ServedIsVetted'
    BY <1>2, <2>1 DEF QuizInv, ServedIsVetted, Served
  <2>6. LockHolds'
    BY <1>2, <2>1, <2>2, <2>3 DEF QuizInv, LockHolds, Holds, HasRead
  <2> QED
    BY <2>4, <2>5, <2>6 DEF QuizInv
<1>7. CASE DrawRegen
  <2>1. /\ script' = [script EXCEPT !.pc = "insert"] /\ unlocked' /\ UNCHANGED <<rowsMade, forced>>
        /\ quiz' = quiz \/ quiz' = NoQuiz
    BY <1>7 DEF DrawRegen
  <2>2. PICK n : n = [script EXCEPT !.pc = "insert"]
    OBVIOUS
  <2>3. n \in Edit
    BY <1>1, <2>2 DEF Edit
  <2>4. QuizTypeOK'
    BY <1>1, <1>2, <2>1, <2>2, <2>3 DEF QuizInv, QuizTypeOK
  <2>5. 0 \in vetted' /\ ServedIsVetted'
    BY <1>1, <1>2, <2>1 DEF QuizInv, ServedIsVetted, Served
  <2> QED
    BY <2>1, <2>4, <2>5 DEF QuizInv, LockHolds
<1>4. ASSUME NEW src \in Source, GenerateRegen(src) PROVE QuizInv'
  <2>1. PICK t \in Text : script' = [script EXCEPT !.pc = "insert", !.text = t]
    BY <1>4 DEF GenerateRegen
  <2>2. PICK n : n = [script EXCEPT !.pc = "insert", !.text = t]
    OBVIOUS
  <2>3. n \in Edit
    BY <1>1, <2>1, <2>2 DEF Edit
  <2>4. (quiz' = quiz \/ quiz' = NoQuiz) /\ unlocked' /\ UNCHANGED <<rowsMade, forced>>
    BY <1>4 DEF GenerateRegen
  <2>5. QuizTypeOK'
    BY <1>1, <1>2, <2>1, <2>2, <2>3, <2>4 DEF QuizInv, QuizTypeOK
  <2>6. 0 \in vetted' /\ ServedIsVetted'
    BY <1>1, <1>2, <2>4 DEF QuizInv, ServedIsVetted, Served
  <2> QED
    BY <2>4, <2>5, <2>6 DEF QuizInv, LockHolds
<1>5. CASE FinishRegen
  <2>1. /\ script.pc = "insert" /\ script' = Away /\ unlocked' = unlocked
        /\ \/ Store(script.text, "approved") /\ forced' = forced \cup {script.text}
           \/ UNCHANGED <<quiz, rowsMade, forced>>
    BY <1>5 DEF FinishRegen
  <2>2. script.text \in Text /\ Away \in Edit
    BY <1>1 DEF Edit, Away
  <2>3. QuizTypeOK'
    BY <1>2, <2>1, <2>2, Storing DEF QuizInv, QuizTypeOK
  <2>4. 0 \in vetted' /\ ServedIsVetted'
    <3>1. CASE Store(script.text, "approved") /\ forced' = forced \cup {script.text}
      <4>1. quiz'.text = script.text
        BY <2>2, <3>1, Storing DEF QuizInv
      <4> QED
        BY <1>2, <3>1, <4>1 DEF QuizInv, ServedIsVetted, Served
    <3>2. CASE UNCHANGED <<quiz, rowsMade, forced>>
      BY <1>2, <3>2 DEF QuizInv, ServedIsVetted, Served
    <3> QED
      BY <2>1, <3>1, <3>2
  <2>5. unlocked'
    BY <2>1 DEF QuizInv, LockHolds
  <2> QED
    BY <2>3, <2>4, <2>5 DEF QuizInv, LockHolds
<1> QED
  BY <1>3, <1>4, <1>5, <1>6, <1>7

\* The quiz of a day: vetted, from a bank that rotates, and made without
\* failing a request that waited for the lock
\* (services/daily_games.py, app/quiz_admin.py, app/quiz_bank_admin.py).
THEOREM QuizStaysVetted == GamesSpec => []QuizIsVetted
<1>1. QuizInv /\ BankInv /\ [GamesNext]_gvars => QuizInv' /\ BankInv'
  <2> SUFFICES ASSUME QuizInv, BankInv, [GamesNext]_gvars PROVE QuizInv'
    BY BankTurns
  <2>1. ASSUME UNCHANGED <<games, quiz, lock, req, ed, script, rowsMade, vetted, forced, crossed, unlocked, refused>>
        PROVE  QuizInv'
    BY <2>1 DEF QuizInv, QuizTypeOK, ServedIsVetted, Served, LockHolds, Holds, HasRead
  <2>2. ASSUME \/ \E q \in Question : AddQuestion(q)
               \/ \E s \in SUBSET Question \ {{}} : DeleteQuestions(s) \/ \E on \in BOOLEAN : SetActive(s, on)
               \/ UNCHANGED gvars
        PROVE  QuizInv'
    BY <2>1, <2>2 DEF AddQuestion, DeleteQuestions, SetActive, SetBank, gvars
  <2>3. ASSUME NEW r \in Caller, Enter(r) \/ SelectFromBank(r) \/ GenerateFromBank(r) \/ InsertQuiz(r)
        PROVE  QuizInv'
    BY <2>3, RequestsKeep DEF Source
  <2> QED
    BY <2>2, <2>3, RequestsKeep, EditorsStart, EditorsFinish, ScriptKeeps DEF GamesNext
<1>2. QuizInv /\ BankInv => QuizIsVetted
  BY DEF QuizInv, LockHolds, BankInv, QuizIsVetted, LockSparesRequests
<1> QED
  BY InitQuizInv, <1>1, <1>2, PTL DEF GamesSpec

-----------------------------------------------------------------------------
(* DailyFeatures.                                                          *)

Algorithmic == [source |-> "algorithmic", grid |-> 0]
PuzzleRow == {NoPuzzle, Algorithmic} \cup [source : {"apiverve"}, grid : Nat]
FeatureRow == [word : Word, quote : {"apiverve", "ai"}, picture : BOOLEAN]
Keys == {KeyOf[w] : w \in Word}
VisitState ==
    {NoVisit} \cup [pc : {"puzzle", "make"}, on : Puzzle, up : BOOLEAN, row : PuzzleRow]
    \cup [pc : {"feature"}, on : FDays] \cup [pc : {"compose"}, on : FDays, used : SUBSET Keys]
    \cup [pc : {"picture", "quote"}, on : FDays, row : FeatureRow]
    \cup [pc : {"stars", "fetch"}, on : Int, proc : Process, fallback : BOOLEAN]

FeaturesTypeOK ==
    /\ clock \in Nat /\ grids \in Nat
    /\ puzzle \in [Puzzle -> PuzzleRow]
    /\ feature \in [FDays -> {NoFeature} \cup FeatureRow]
    /\ stars \subseteq Int
    /\ cool \in [Process -> [FDays -> Nat]]
    /\ visit \in [Visit -> VisitState]
    /\ served \in [asked : Int, row : Int]

\* What a visit knows of a puzzle: that it is algorithmic if it is to be
\* made again, and that there is none if it is to be made at first.
PuzzlesFit ==
    /\ \A v \in Visit : visit[v].pc \in {"puzzle", "make"} =>
        /\ visit[v].up => visit[v].on = "crossword"
        /\ visit[v].row = NoPuzzle \/ (visit[v].up /\ visit[v].row = Algorithmic)
        /\ visit[v].pc = "make" /\ visit[v].row = NoPuzzle => puzzle[visit[v].on] = NoPuzzle
    /\ \A v, w \in Visit : visit[v].pc = "make" /\ visit[w].pc = "make" /\ visit[v].on = visit[w].on => v = w

\* What a visit knows of a day's feature: that there is none while it
\* composes one, that there is one while it improves it, and the words of the other
\* days unless two are composed at the same time.
FeaturesFit ==
    /\ \A v \in Visit : visit[v].pc = "compose" =>
        /\ feature[visit[v].on] = NoFeature
        /\ side \/ \A e \in FDays : e # visit[v].on /\ feature[e] # NoFeature => KeyOf[feature[e].word] \in visit[v].used
    /\ \A v, w \in Visit : visit[v].pc = "compose" /\ visit[w].pc = "compose" => v = w \/ (side /\ visit[v].on # visit[w].on)
    /\ \A v \in Visit : visit[v].pc \in {"picture", "quote"} => feature[visit[v].on] # NoFeature

FeaturesInv == FeaturesTypeOK /\ ~clash /\ PuzzlesFit /\ FeaturesFit /\ WordsTellApart /\ ServedIsRecent

(* What the states of visits are made of.                                  *)
LEMMA VisitFields ==
    ASSUME NEW m \in VisitState
    PROVE  /\ m.pc \in {"off", "puzzle", "make", "feature", "compose", "picture", "quote", "stars", "fetch"}
           /\ m.pc \in {"puzzle", "make"} => m.on \in Puzzle /\ m.up \in BOOLEAN /\ m.row \in PuzzleRow
           /\ m.pc \in {"puzzle", "make"} => m \in [pc : {"puzzle", "make"}, on : Puzzle, up : BOOLEAN, row : PuzzleRow]
           /\ m.pc \in {"feature", "compose", "picture", "quote"} => m.on \in FDays
           /\ m.pc = "compose" => m.used \subseteq Keys
           /\ m.pc \in {"picture", "quote"} => m.row \in FeatureRow
           /\ m.pc \in {"stars", "fetch"} => m.on \in Int /\ m.proc \in Process /\ m.fallback \in BOOLEAN
           /\ m.pc \in {"stars", "fetch"} => m \in [pc : {"stars", "fetch"}, on : Int, proc : Process, fallback : BOOLEAN]
  BY DEF VisitState, NoVisit

(* The word or quote of a row stays when one column is improved.           *)
LEMMA ColumnFields ==
    ASSUME NEW x \in FeatureRow, NEW m
    PROVE  /\ x # NoFeature /\ x.word \in Word
           /\ WithColumn(m, x) \in FeatureRow
           /\ WithColumn(m, x).word = x.word
           /\ x.quote = "apiverve" => WithColumn(m, x).quote = "apiverve"
           /\ x.picture => WithColumn(m, x).picture
<1>1. x # NoFeature /\ x.word \in Word
  BY DEF FeatureRow, NoFeature
<1>2. PICK yes : yes = TRUE
  OBVIOUS
<1>3. ASSUME NEW y, y = [x EXCEPT !.picture = yes] PROVE y \in FeatureRow /\ y.word = x.word /\ y.quote = x.quote /\ y.picture
  BY <1>2, <1>3 DEF FeatureRow
<1>4. ASSUME NEW y, y = [x EXCEPT !.quote = "apiverve"] PROVE y \in FeatureRow /\ y.word = x.word /\ y.quote = "apiverve" /\ y.picture = x.picture
  BY <1>4 DEF FeatureRow
<1>5. WithColumn(m, x) = [x EXCEPT !.picture = yes] \/ WithColumn(m, x) = [x EXCEPT !.quote = "apiverve"]
  BY <1>2 DEF WithColumn
<1> QED
  BY <1>1, <1>3, <1>4, <1>5

(* A set of natural numbers has a least element.                           *)
LEMMA LeastOfNumbers ==
    ASSUME NEW T, T \subseteq Nat, T # {}
    PROVE  \E n \in T : \A o \in T : n <= o
<1>1. PICK n \in T : \A o \in T : ~(<<o, n>> \in OpToRel(<, Nat))
  BY NatLessThanWellFounded, WFMin, Zenon
<1>2. \A o \in T : ~(o < n)
  BY <1>1, Zenon DEF OpToRel
<1>3. n \in T /\ n \in Nat /\ \A o \in T : o \in Nat
  OBVIOUS
<1> QED
  BY <1>2, <1>3

(* The latest of the days that are recent is one of them.                  *)
LEMMA LatestIsRecent ==
    ASSUME NEW d \in Int, stars \subseteq Int, Recent(d) # {}
    PROVE  Latest(Recent(d)) \in Int /\ Latest(Recent(d)) <= d /\ Latest(Recent(d)) >= d - FallbackDays
<1> DEFINE before == {n \in Nat : d - n \in Recent(d)}
<1>1. before # {}
  <2>1. PICK x \in Recent(d) : TRUE
    OBVIOUS
  <2>2. x \in Int /\ x <= d
    BY <2>1 DEF Recent
  <2>3. d - x \in Nat /\ d - (d - x) = x
    BY <2>2
  <2> QED
    BY <2>1, <2>3
<1>2. PICK n \in before : \A o \in before : n <= o
  <2> HIDE DEF before
  <2>1. before \subseteq Nat
    BY DEF before
  <2> QED
    BY <1>1, <2>1, LeastOfNumbers
<1>3. \A y \in Recent(d) : y <= d - n
  <2> SUFFICES ASSUME NEW y \in Recent(d) PROVE y <= d - n
    OBVIOUS
  <2>1. y \in Int /\ y <= d /\ n \in Nat
    BY <1>2 DEF Recent
  <2>2. d - y \in Nat /\ d - (d - y) = y
    BY <2>1
  <2>3. n <= d - y
    BY <1>2, <2>2
  <2> QED
    BY <2>1, <2>3
<1>4. \E x \in Recent(d) : \A y \in Recent(d) : y <= x
  BY <1>2, <1>3
<1>5. Latest(Recent(d)) \in Recent(d)
  BY <1>4 DEF Latest
<1> QED
  BY <1>5 DEF Recent

(* Steps that leave the puzzles alone, and the visits that make one.       *)
LEMMA PuzzlesQuiet ==
    ASSUME FeaturesInv, puzzle' = puzzle, visit' \in [Visit -> VisitState],
           \A v \in Visit : visit'[v] = visit[v] \/ visit'[v].pc \notin {"puzzle", "make"}
    PROVE  PuzzlesFit'
  BY DEF FeaturesInv, PuzzlesFit

(* Steps that leave the features alone, and the visits that write one.     *)
LEMMA FeaturesQuiet ==
    ASSUME FeaturesInv, feature' = feature, side' = side, dry' = dry,
           \A v \in Visit : visit'[v] = visit[v] \/ visit'[v].pc \notin {"compose", "picture", "quote"}
    PROVE  FeaturesFit' /\ WordsTellApart'
  BY DEF FeaturesInv, FeaturesFit, WordsTellApart

LEMMA InitFeatures == FeaturesInit => FeaturesInv
<1> SUFFICES ASSUME FeaturesInit PROVE FeaturesInv
  OBVIOUS
<1> USE FeaturesAssumption
<1>1. FeaturesTypeOK
  BY DEF FeaturesInit, FeaturesTypeOK, PuzzleRow, VisitState
<1>2. \A v \in Visit : visit[v].pc = "off"
  BY DEF FeaturesInit, NoVisit
<1>3. \A d \in FDays : feature[d] = NoFeature
  BY DEF FeaturesInit
<1>4. PuzzlesFit /\ FeaturesFit /\ WordsTellApart
  BY <1>2, <1>3 DEF PuzzlesFit, FeaturesFit, WordsTellApart
<1>5. ServedIsRecent
  BY DEF FeaturesInit, ServedIsRecent
<1> QED
  BY <1>1, <1>4, <1>5 DEF FeaturesInv, FeaturesInit

(* What steps may do to what readers have been given.                      *)
Improves ==
    /\ \A k \in Puzzle : puzzle[k] # NoPuzzle =>
            puzzle'[k] = puzzle[k] \/ (k = "crossword" /\ puzzle'[k].source = "apiverve")
    /\ \A d \in FDays : feature[d] # NoFeature =>
            /\ feature'[d].word = feature[d].word
            /\ feature[d].quote = "apiverve" => feature'[d].quote = "apiverve"
            /\ feature[d].picture => feature'[d].picture

LEMMA PuzzlesKeep ==
    ASSUME FeaturesInv, NEW v \in Visit,
           \/ \E k \in Puzzle, up \in BOOLEAN : AskPuzzle(v, k, up)
           \/ LockPuzzle(v)
           \/ \E source \in {"apiverve", "algorithmic"} : MakePuzzle(v, source)
    PROVE  FeaturesInv' /\ Improves
<1> DEFINE Asked == [pc : {"puzzle", "make"}, on : Puzzle, up : BOOLEAN, row : PuzzleRow]
<1>t. FeaturesTypeOK /\ PuzzlesFit
  BY DEF FeaturesInv
<1>v. visit[v] \in VisitState
  BY <1>t DEF FeaturesTypeOK
<1>f. /\ feature' = feature /\ side' = side /\ dry' = dry /\ served' = served
      /\ UNCHANGED <<clock, stars, cool>>
  BY DEF AskPuzzle, LockPuzzle, MakePuzzle
<1>q. ASSUME \A w \in Visit : visit'[w] = visit[w] \/ visit'[w].pc \in {"off", "puzzle", "make"}
      PROVE  FeaturesFit' /\ WordsTellApart'
  BY <1>f, <1>q, FeaturesQuiet
<1>r. ServedIsRecent'
  BY <1>f DEF FeaturesInv, ServedIsRecent
<1>1. ASSUME NEW k \in Puzzle, NEW up \in BOOLEAN, AskPuzzle(v, k, up)
      PROVE  FeaturesInv' /\ Improves
  <2> DEFINE m == [pc |-> "puzzle", on |-> k, up |-> up, row |-> puzzle[k]]
  <2>1. /\ visit' = [visit EXCEPT ![v] = m] /\ puzzle' = puzzle /\ grids' = grids /\ clash' = clash
        /\ up => k = "crossword"
        /\ ~GoodEnough(puzzle[k], up)
    BY <1>1 DEF AskPuzzle, Goes, MayUpgrade
  <2>2. puzzle[k] \in PuzzleRow
    BY <1>t DEF FeaturesTypeOK
  <2>3. puzzle[k] = NoPuzzle \/ (up /\ puzzle[k] = Algorithmic)
    BY <2>1, <2>2 DEF GoodEnough, PuzzleRow
  <2>4. m \in Asked /\ m.pc = "puzzle" /\ m.on = k /\ m.up = up /\ m.row = puzzle[k]
    BY <2>2
  <2> HIDE DEF m
  <2>5. m \in VisitState
    BY <2>4 DEF VisitState
  <2>6. visit'[v] = m /\ \A w \in Visit \ {v} : visit'[w] = visit[w]
    BY <1>t, <2>1 DEF FeaturesTypeOK
  <2>7. FeaturesTypeOK'
    BY <1>t, <1>f, <2>1, <2>5 DEF FeaturesTypeOK
  <2>8. PuzzlesFit'
    BY <1>t, <2>1, <2>3, <2>4, <2>6 DEF PuzzlesFit
  <2>9. FeaturesFit' /\ WordsTellApart'
    BY <1>q, <2>4, <2>6
  <2>10. Improves
    BY <1>f, <2>1 DEF Improves
  <2> QED
    BY <1>r, <2>1, <2>7, <2>8, <2>9, <2>10 DEF FeaturesInv
<1>2. ASSUME LockPuzzle(v)
      PROVE  FeaturesInv' /\ Improves
  <2>1. /\ visit[v].pc = "puzzle" /\ puzzle' = puzzle /\ grids' = grids /\ clash' = clash
        /\ ~Locked("make", visit[v].on)
    BY <1>2 DEF LockPuzzle
  <2>2. visit[v] \in Asked
    BY <1>v, <2>1, VisitFields
  <2>3. \/ visit' = [visit EXCEPT ![v] = NoVisit]
        \/ /\ ~GoodEnough(Reread(visit[v]), visit[v].up)
           /\ visit' = [visit EXCEPT ![v] = [visit[v] EXCEPT !.pc = "make", !.row = Reread(visit[v])]]
    BY <1>2 DEF LockPuzzle, Goes
  <2>4. Improves
    BY <1>f, <2>1 DEF Improves
  <2>5. CASE visit' = [visit EXCEPT ![v] = NoVisit]
    <3>1. visit'[v].pc = "off" /\ \A w \in Visit \ {v} : visit'[w] = visit[w]
      BY <1>t, <2>5 DEF FeaturesTypeOK, NoVisit
    <3>2. FeaturesTypeOK'
      BY <1>t, <1>f, <2>1, <2>5 DEF FeaturesTypeOK, VisitState
    <3>3. PuzzlesFit'
      BY <3>1, <3>2, <2>1, PuzzlesQuiet DEF FeaturesTypeOK
    <3> QED
      BY <1>q, <1>r, <2>1, <2>4, <3>1, <3>2, <3>3 DEF FeaturesInv
  <2>6. CASE /\ ~GoodEnough(Reread(visit[v]), visit[v].up)
             /\ visit' = [visit EXCEPT ![v] = [visit[v] EXCEPT !.pc = "make", !.row = Reread(visit[v])]]
    <3>1. puzzle[visit[v].on] \in PuzzleRow /\ visit[v].on \in Puzzle
      BY <1>t, <2>2 DEF FeaturesTypeOK
    <3>2. Reread(visit[v]) \in PuzzleRow
      BY <2>2, <3>1 DEF Reread
    <3>3. PICK r \in PuzzleRow : r = Reread(visit[v])
      BY <3>2
    <3>4. PICK m : m = [visit[v] EXCEPT !.pc = "make", !.row = r]
      OBVIOUS
    <3>5. m \in Asked /\ m.pc = "make" /\ m.on = visit[v].on /\ m.up = visit[v].up /\ m.row = r
      BY <2>2, <3>4
    <3>6. visit' = [visit EXCEPT ![v] = m]
      BY <2>6, <3>3, <3>4
    <3>7. m \in VisitState
      BY <3>5 DEF VisitState
    <3>8. visit'[v] = m /\ \A w \in Visit \ {v} : visit'[w] = visit[w]
      BY <1>t, <3>6 DEF FeaturesTypeOK
    <3>9. FeaturesTypeOK'
      BY <1>t, <1>f, <2>1, <3>6, <3>7 DEF FeaturesTypeOK
    <3>10. m.up => m.on = "crossword"
      BY <1>t, <2>1, <3>5 DEF PuzzlesFit
    <3>11. r = NoPuzzle \/ (m.up /\ r = Algorithmic)
      BY <2>6, <3>3, <3>5 DEF GoodEnough, PuzzleRow
    <3>12. r = NoPuzzle => puzzle[m.on] = NoPuzzle
      BY <3>3, <3>5 DEF Reread
    <3>13. \A w \in Visit : visit[w].pc = "make" => visit[w].on # m.on
      BY <2>1, <3>5 DEF Locked
    <3>14. PuzzlesFit'
      BY <1>t, <2>1, <3>5, <3>8, <3>10, <3>11, <3>12, <3>13 DEF PuzzlesFit
    <3>15. FeaturesFit' /\ WordsTellApart'
      BY <1>q, <3>5, <3>8
    <3> QED
      BY <1>r, <2>1, <2>4, <3>9, <3>14, <3>15 DEF FeaturesInv
  <2> QED
    BY <2>3, <2>5, <2>6
<1>3. ASSUME NEW source \in {"apiverve", "algorithmic"}, MakePuzzle(v, source)
      PROVE  FeaturesInv' /\ Improves
  <2>1. PICK g : g = IF source = "apiverve" THEN grids + 1 ELSE 0
    OBVIOUS
  <2>2. PICK made : made = [source |-> source, grid |-> g]
    OBVIOUS
  <2>3. PICK k : k = visit[v].on
    OBVIOUS
  <2>4. /\ visit[v].pc = "make"
        /\ source = "apiverve" => k = "crossword"
        /\ grids' = (IF source = "apiverve" THEN grids + 1 ELSE grids)
        /\ IF visit[v].row # NoPuzzle
           THEN /\ puzzle' = (IF made = visit[v].row THEN puzzle ELSE [puzzle EXCEPT ![k] = made])
                /\ clash' = clash
           ELSE /\ puzzle' = (IF puzzle[k] = NoPuzzle THEN [puzzle EXCEPT ![k] = made] ELSE puzzle)
                /\ clash' = (clash \/ puzzle[k] # NoPuzzle)
        /\ visit' = [visit EXCEPT ![v] = NoVisit]
    BY <1>3, <2>1, <2>2, <2>3 DEF MakePuzzle, Goes
  <2>5. k \in Puzzle /\ visit[v].row \in PuzzleRow
    BY <1>v, <2>3, <2>4, VisitFields
  <2>6. made \in PuzzleRow /\ made # NoPuzzle /\ made.source = source /\ (source = "algorithmic" => made = Algorithmic)
    BY <1>t, <2>1, <2>2 DEF FeaturesTypeOK, PuzzleRow, NoPuzzle, Algorithmic
  <2>7. /\ visit[v].row = NoPuzzle => puzzle[k] = NoPuzzle
        /\ visit[v].row = NoPuzzle \/ (visit[v].row = Algorithmic /\ k = "crossword")
    BY <1>t, <2>3, <2>4 DEF PuzzlesFit
  <2>8. ~clash'
    BY <2>4, <2>7 DEF FeaturesInv
  <2>9. puzzle' = puzzle \/ (puzzle' = [puzzle EXCEPT ![k] = made] /\ (puzzle[k] = NoPuzzle \/ (k = "crossword" /\ source = "apiverve")))
    BY <2>4, <2>6, <2>7
  <2>10. visit'[v].pc = "off" /\ \A w \in Visit \ {v} : visit'[w] = visit[w]
    BY <1>t, <2>4 DEF FeaturesTypeOK, NoVisit
  <2>11. FeaturesTypeOK'
    <3>1. puzzle' \in [Puzzle -> PuzzleRow]
      BY <1>t, <2>5, <2>6, <2>9 DEF FeaturesTypeOK
    <3>2. grids' \in Nat
      BY <1>t, <2>4 DEF FeaturesTypeOK
    <3>3. visit' \in [Visit -> VisitState]
      BY <1>t, <2>4 DEF FeaturesTypeOK, VisitState
    <3> QED
      BY <1>t, <1>f, <3>1, <3>2, <3>3 DEF FeaturesTypeOK
  <2>12. \A i \in Puzzle : i # k => puzzle'[i] = puzzle[i]
    BY <1>t, <2>9 DEF FeaturesTypeOK
  <2>13. \A w \in Visit \ {v} : visit[w].pc = "make" => visit[w].on # k
    BY <1>t, <2>3, <2>4 DEF PuzzlesFit
  <2>14. PuzzlesFit'
    <3>1. ASSUME NEW w \in Visit, visit'[w].pc \in {"puzzle", "make"}
          PROVE  /\ visit'[w].up => visit'[w].on = "crossword"
                 /\ visit'[w].row = NoPuzzle \/ (visit'[w].up /\ visit'[w].row = Algorithmic)
                 /\ visit'[w].pc = "make" /\ visit'[w].row = NoPuzzle => puzzle'[visit'[w].on] = NoPuzzle
      <4>1. w # v /\ visit'[w] = visit[w]
        BY <2>10, <3>1
      <4>2. visit[w].on \in Puzzle
        BY <1>t, <3>1, <4>1, VisitFields DEF FeaturesTypeOK
      <4> QED
        BY <1>t, <2>12, <2>13, <3>1, <4>1, <4>2 DEF PuzzlesFit
    <3> QED
      BY <1>t, <2>10, <3>1 DEF PuzzlesFit
  <2>15. FeaturesFit' /\ WordsTellApart'
    BY <1>q, <2>10
  <2>16. Improves
    <3>1. puzzle' = [puzzle EXCEPT ![k] = made] => puzzle'[k] = made
      BY <1>t, <2>5 DEF FeaturesTypeOK
    <3> QED
      BY <1>f, <2>5, <2>6, <2>9, <2>12, <3>1 DEF Improves
  <2> QED
    BY <1>r, <2>8, <2>11, <2>14, <2>15, <2>16 DEF FeaturesInv
<1> QED
  BY <1>1, <1>2, <1>3

LEMMA ComposingKeeps ==
    ASSUME FeaturesInv, NEW v \in Visit,
           \/ \E d \in FDays : AskFeature(v, d)
           \/ LockFeature(v)
           \/ \E w \in Word, quote \in {"apiverve", "ai"}, picture \in BOOLEAN : ComposeFeature(v, w, quote, picture)
    PROVE  FeaturesInv' /\ Improves
<1>t. FeaturesTypeOK /\ FeaturesFit /\ WordsTellApart /\ ~clash
  BY DEF FeaturesInv
<1>v. visit[v] \in VisitState
  BY <1>t DEF FeaturesTypeOK
<1>f. puzzle' = puzzle /\ served' = served /\ UNCHANGED <<clock, stars, cool, grids>>
  BY DEF AskFeature, LockFeature, ComposeFeature
<1>r. ServedIsRecent'
  BY <1>f DEF FeaturesInv, ServedIsRecent
<1>1. ASSUME NEW d \in FDays, AskFeature(v, d)
      PROVE  FeaturesInv' /\ Improves
  <2> DEFINE m == [pc |-> "feature", on |-> d]
  <2>1. /\ visit' = [visit EXCEPT ![v] = m] /\ feature' = feature /\ clash' = clash
        /\ side' = side /\ dry' = dry
    BY <1>1 DEF AskFeature, Goes
  <2>2. m \in VisitState /\ m.pc = "feature"
    BY DEF VisitState
  <2> HIDE DEF m
  <2>3. FeaturesTypeOK'
    BY <1>t, <1>f, <2>1, <2>2 DEF FeaturesTypeOK
  <2>4. \A w \in Visit : visit'[w] = visit[w] \/ visit'[w].pc = "feature"
    BY <1>t, <2>1, <2>2 DEF FeaturesTypeOK
  <2>5. PuzzlesFit'
    BY <1>f, <2>3, <2>4, PuzzlesQuiet DEF FeaturesTypeOK
  <2>6. FeaturesFit' /\ WordsTellApart'
    BY <2>1, <2>4, FeaturesQuiet
  <2> QED
    BY <1>f, <1>r, <1>t, <2>1, <2>3, <2>5, <2>6 DEF FeaturesInv, Improves
<1>2. ASSUME LockFeature(v)
      PROVE  FeaturesInv' /\ Improves
  <2>1. PICK d : d = visit[v].on
    OBVIOUS
  <2>2. /\ visit[v].pc = "feature" /\ ~Locked("compose", d)
        /\ IF feature[d] # NoFeature
           THEN visit' = [visit EXCEPT ![v] = NoVisit] /\ side' = side
           ELSE /\ visit' = [visit EXCEPT ![v] = [pc |-> "compose", on |-> d, used |-> UsedKeys(d)]]
                /\ side' = (side \/ \E e \in FDays \ {d} : Locked("compose", e))
        /\ feature' = feature /\ clash' = clash /\ dry' = dry
    BY <1>2, <2>1 DEF LockFeature, Goes
  <2>3. d \in FDays
    BY <1>v, <2>1, <2>2, VisitFields
  <2>4. CASE feature[d] # NoFeature
    <3>1. visit'[v].pc = "off" /\ \A w \in Visit \ {v} : visit'[w] = visit[w]
      BY <1>t, <2>2, <2>4 DEF FeaturesTypeOK, NoVisit
    <3>2. FeaturesTypeOK'
      BY <1>t, <1>f, <2>2, <2>4 DEF FeaturesTypeOK, VisitState
    <3>3. PuzzlesFit'
      BY <1>f, <3>1, <3>2, PuzzlesQuiet DEF FeaturesTypeOK
    <3>4. FeaturesFit' /\ WordsTellApart'
      BY <2>2, <2>4, <3>1, FeaturesQuiet
    <3> QED
      BY <1>f, <1>r, <1>t, <2>2, <3>2, <3>3, <3>4 DEF FeaturesInv, Improves
  <2>5. CASE feature[d] = NoFeature
    <3>1. PICK u : u = UsedKeys(d)
      OBVIOUS
    <3>2. PICK m : m = [pc |-> "compose", on |-> d, used |-> u]
      OBVIOUS
    <3>3. u \subseteq Keys
      <4>1. \A x \in FDays : feature[x] # NoFeature => feature[x].word \in Word
        BY <1>t, ColumnFields DEF FeaturesTypeOK
      <4> QED
        BY <3>1, <4>1 DEF UsedKeys, Keys
    <3>4. m \in VisitState /\ m.pc = "compose" /\ m.on = d /\ m.used = u
      BY <2>3, <3>2, <3>3 DEF VisitState
    <3>5. visit' = [visit EXCEPT ![v] = m]
      BY <2>2, <2>5, <3>1, <3>2
    <3>6. visit'[v] = m /\ \A w \in Visit \ {v} : visit'[w] = visit[w]
      BY <1>t, <3>5 DEF FeaturesTypeOK
    <3>7. FeaturesTypeOK'
      BY <1>t, <1>f, <2>2, <3>4, <3>5 DEF FeaturesTypeOK
    <3>8. PuzzlesFit'
      BY <1>f, <3>4, <3>6, <3>7, PuzzlesQuiet DEF FeaturesTypeOK
    <3>9. \A e \in FDays : e # d /\ feature[e] # NoFeature => KeyOf[feature[e].word] \in u
      BY <3>1 DEF UsedKeys
    <3>10. side => side'
      BY <2>2, <2>5
    <3>11. \A w \in Visit \ {v} : visit[w].pc = "compose" => visit[w].on # d /\ side'
      <4> SUFFICES ASSUME NEW w \in Visit \ {v}, visit[w].pc = "compose" PROVE visit[w].on # d /\ side'
        OBVIOUS
      <4>1. visit[w].on # d
        BY <2>2 DEF Locked
      <4>2. visit[w].on \in FDays
        BY <1>t, VisitFields DEF FeaturesTypeOK
      <4>3. Locked("compose", visit[w].on)
        BY DEF Locked
      <4> QED
        BY <2>2, <2>5, <4>1, <4>2, <4>3
    <3>12. FeaturesFit'
      <4>1. ASSUME NEW w \in Visit, visit'[w].pc = "compose"
            PROVE  /\ feature'[visit'[w].on] = NoFeature
                   /\ side' \/ \A e \in FDays : e # visit'[w].on /\ feature'[e] # NoFeature => KeyOf[feature'[e].word] \in visit'[w].used
        <5>1. CASE w = v
          BY <2>2, <2>5, <3>4, <3>6, <3>9, <5>1
        <5>2. CASE w # v
          BY <1>t, <2>2, <3>6, <3>10, <4>1, <5>2 DEF FeaturesFit
        <5> QED
          BY <5>1, <5>2
      <4>2. ASSUME NEW w \in Visit, NEW x \in Visit, visit'[w].pc = "compose", visit'[x].pc = "compose"
            PROVE  w = x \/ (side' /\ visit'[w].on # visit'[x].on)
        <5>1. CASE w # v /\ x # v
          BY <1>t, <3>6, <3>10, <4>2, <5>1 DEF FeaturesFit
        <5>2. CASE w = v \/ x = v
          BY <3>4, <3>6, <3>11, <4>2, <5>2
        <5> QED
          BY <5>1, <5>2
      <4>3. \A w \in Visit : visit'[w].pc \in {"picture", "quote"} => feature'[visit'[w].on] # NoFeature
        BY <1>t, <2>2, <3>4, <3>6 DEF FeaturesFit
      <4> QED
        BY <4>1, <4>2, <4>3 DEF FeaturesFit
    <3>13. WordsTellApart'
      BY <1>t, <2>2, <3>10 DEF WordsTellApart
    <3> QED
      BY <1>f, <1>r, <1>t, <2>2, <3>7, <3>8, <3>12, <3>13 DEF FeaturesInv, Improves
  <2> QED
    BY <2>4, <2>5
<1>3. ASSUME NEW w \in Word, NEW quote \in {"apiverve", "ai"}, NEW picture \in BOOLEAN,
             ComposeFeature(v, w, quote, picture)
      PROVE  FeaturesInv' /\ Improves
  <2>1. PICK d : d = visit[v].on
    OBVIOUS
  <2>2. PICK new : new = [word |-> w, quote |-> quote, picture |-> picture]
    OBVIOUS
  <2>3. /\ visit[v].pc = "compose"
        /\ w \in Unused(visit[v]) \/ Unused(visit[v]) = {}
        /\ dry' = (dry \/ Unused(visit[v]) = {})
        /\ clash' = (clash \/ feature[d] # NoFeature)
        /\ feature' = (IF feature[d] # NoFeature \/ \E e \in FDays : feature[e].word = w THEN feature
                       ELSE [feature EXCEPT ![d] = new])
        /\ visit' = [visit EXCEPT ![v] = NoVisit] /\ side' = side
    BY <1>3, <2>1, <2>2 DEF ComposeFeature, Goes
  <2>4. d \in FDays
    BY <1>v, <2>1, <2>3, VisitFields
  <2>5. new \in FeatureRow /\ new.word = w
    BY <2>2 DEF FeatureRow
  <2>6. feature[d] = NoFeature /\ (side \/ \A e \in FDays : e # d /\ feature[e] # NoFeature => KeyOf[feature[e].word] \in visit[v].used)
    BY <1>t, <2>1, <2>3 DEF FeaturesFit
  <2>7. visit'[v].pc = "off" /\ \A x \in Visit \ {v} : visit'[x] = visit[x]
    BY <1>t, <2>3 DEF FeaturesTypeOK, NoVisit
  <2>8. feature' = feature \/ feature' = [feature EXCEPT ![d] = new]
    BY <2>3
  <2>9. FeaturesTypeOK'
    <3>1. feature' \in [FDays -> {NoFeature} \cup FeatureRow]
      BY <1>t, <2>4, <2>5, <2>8 DEF FeaturesTypeOK
    <3>2. visit' \in [Visit -> VisitState]
      BY <1>t, <2>3 DEF FeaturesTypeOK, VisitState
    <3> QED
      BY <1>t, <1>f, <3>1, <3>2 DEF FeaturesTypeOK
  <2>10. PuzzlesFit'
    BY <1>f, <2>7, <2>9, PuzzlesQuiet DEF FeaturesTypeOK
  <2>11. \A e \in FDays : e # d => feature'[e] = feature[e]
    BY <1>t, <2>8 DEF FeaturesTypeOK
  <2>12. \A x \in Visit \ {v} : visit[x].pc = "compose" => side /\ visit[x].on # d
    BY <1>t, <2>1, <2>3 DEF FeaturesFit
  <2>13. FeaturesFit'
    <3>1. ASSUME NEW x \in Visit, visit'[x].pc = "compose"
          PROVE  feature'[visit'[x].on] = NoFeature /\ side'
      <4>1. x # v /\ visit'[x] = visit[x]
        BY <2>7, <3>1
      <4>2. visit[x].on \in FDays
        BY <1>t, <3>1, <4>1, VisitFields DEF FeaturesTypeOK
      <4> QED
        BY <1>t, <2>3, <2>11, <2>12, <3>1, <4>1, <4>2 DEF FeaturesFit
    <3>2. ASSUME NEW x \in Visit, visit'[x].pc \in {"picture", "quote"}
          PROVE  feature'[visit'[x].on] # NoFeature
      <4>1. x # v /\ visit'[x] = visit[x]
        BY <2>7, <3>2
      <4>2. visit[x].on \in FDays
        BY <1>t, <3>2, <4>1, VisitFields DEF FeaturesTypeOK
      <4>3. feature[visit[x].on] # NoFeature
        BY <1>t, <3>2, <4>1 DEF FeaturesFit
      <4> QED
        BY <2>6, <2>11, <4>1, <4>2, <4>3
    <3> QED
      BY <1>t, <2>3, <2>7, <3>1, <3>2 DEF FeaturesFit
  <2>14. WordsTellApart'
    <3>1. CASE side \/ dry'
      BY <2>3, <3>1 DEF WordsTellApart
    <3>2. CASE ~side /\ ~dry'
      <4>1. w \in Unused(visit[v]) /\ ~dry
        BY <2>3, <3>2
      <4>2. \A e \in FDays : e # d /\ feature[e] # NoFeature => KeyOf[feature[e].word] # KeyOf[w]
        BY <2>6, <3>2, <4>1 DEF Unused
      <4>3. feature'[d] = feature[d] \/ feature'[d].word = w
        BY <1>t, <2>4, <2>5, <2>8 DEF FeaturesTypeOK
      <4>4. SUFFICES ASSUME NEW x \in FDays, NEW y \in FDays, x # y, feature'[x] # NoFeature, feature'[y] # NoFeature
                     PROVE  KeyOf[feature'[x].word] # KeyOf[feature'[y].word]
        BY DEF WordsTellApart
      <4>5. CASE x # d /\ y # d
        BY <1>t, <2>11, <3>2, <4>1, <4>4, <4>5 DEF WordsTellApart
      <4>6. CASE x = d
        BY <2>6, <2>11, <4>2, <4>3, <4>4, <4>6
      <4>7. CASE y = d
        BY <2>6, <2>11, <4>2, <4>3, <4>4, <4>7
      <4> QED
        BY <4>5, <4>6, <4>7
    <3> QED
      BY <3>1, <3>2
  <2>15. Improves
    <3>1. \A e \in FDays : feature[e] # NoFeature => feature'[e] = feature[e]
      BY <2>6, <2>11
    <3> QED
      BY <1>f, <3>1 DEF Improves
  <2> QED
    BY <1>r, <1>t, <2>3, <2>6, <2>9, <2>10, <2>13, <2>14, <2>15 DEF FeaturesInv
<1> QED
  BY <1>1, <1>2, <1>3

LEMMA ImprovingKeeps ==
    ASSUME FeaturesInv, NEW v \in Visit,
           \/ \E d \in FDays, what \in {"picture", "quote"} : Improve(v, d, what)
           \/ \E answered \in BOOLEAN : Improved(v, answered)
    PROVE  FeaturesInv' /\ Improves
<1>t. FeaturesTypeOK /\ FeaturesFit /\ WordsTellApart /\ ~clash
  BY DEF FeaturesInv
<1>v. visit[v] \in VisitState
  BY <1>t DEF FeaturesTypeOK
<1>f. /\ puzzle' = puzzle /\ served' = served /\ clash' = clash /\ side' = side /\ dry' = dry
      /\ UNCHANGED <<clock, stars, cool, grids>>
  BY DEF Improve, Improved
<1>r. ServedIsRecent'
  BY <1>f DEF FeaturesInv, ServedIsRecent
<1>1. ASSUME NEW d \in FDays, NEW what \in {"picture", "quote"}, Improve(v, d, what)
      PROVE  FeaturesInv' /\ Improves
  <2>1. PICK m : m = [pc |-> what, on |-> d, row |-> feature[d]]
    OBVIOUS
  <2>2. visit' = [visit EXCEPT ![v] = m] /\ feature' = feature /\ feature[d] # NoFeature
    BY <1>1, <2>1 DEF Improve, Goes
  <2>3. feature[d] \in FeatureRow
    BY <1>t, <2>2 DEF FeaturesTypeOK
  <2>4. m \in VisitState /\ m.pc = what /\ m.on = d
    BY <2>1, <2>3 DEF VisitState
  <2>5. FeaturesTypeOK'
    BY <1>t, <1>f, <2>2, <2>4 DEF FeaturesTypeOK
  <2>6. visit'[v] = m /\ \A w \in Visit \ {v} : visit'[w] = visit[w]
    BY <1>t, <2>2 DEF FeaturesTypeOK
  <2>7. PuzzlesFit'
    BY <1>f, <2>4, <2>5, <2>6, PuzzlesQuiet DEF FeaturesTypeOK
  <2>9. FeaturesFit'
    BY <1>f, <1>t, <2>2, <2>4, <2>6 DEF FeaturesFit
  <2>10. WordsTellApart'
    BY <1>f, <1>t, <2>2 DEF WordsTellApart
  <2> QED
    BY <1>f, <1>r, <1>t, <2>2, <2>5, <2>7, <2>9, <2>10 DEF FeaturesInv, Improves
<1>2. ASSUME NEW answered \in BOOLEAN, Improved(v, answered)
      PROVE  FeaturesInv' /\ Improves
  <2>1. PICK m : m = visit[v]
    OBVIOUS
  <2>2. PICK d : d = m.on
    OBVIOUS
  <2>3. /\ m.pc \in {"picture", "quote"}
        /\ feature' = (IF answered THEN [feature EXCEPT ![d] = WithColumn(m, feature[d])] ELSE feature)
        /\ visit' = [visit EXCEPT ![v] = NoVisit]
    BY <1>2, <2>1, <2>2 DEF Improved, Goes
  <2>4. d \in FDays /\ feature[d] # NoFeature
    BY <1>t, <1>v, <2>1, <2>2, <2>3, VisitFields DEF FeaturesFit
  <2>5. feature[d] \in FeatureRow
    BY <1>t, <2>4 DEF FeaturesTypeOK
  <2>6. PICK x : x = WithColumn(m, feature[d])
    OBVIOUS
  <2>7. /\ x \in FeatureRow /\ x # NoFeature /\ x.word = feature[d].word
        /\ feature[d].quote = "apiverve" => x.quote = "apiverve"
        /\ feature[d].picture => x.picture
    BY <2>5, <2>6, ColumnFields
  <2>8. feature' = feature \/ feature' = [feature EXCEPT ![d] = x]
    BY <2>3, <2>6
  <2>9. feature'[d] \in {feature[d], x} /\ \A e \in FDays : e # d => feature'[e] = feature[e]
    BY <1>t, <2>4, <2>8 DEF FeaturesTypeOK
  <2>10. FeaturesTypeOK'
    <3>1. feature' \in [FDays -> {NoFeature} \cup FeatureRow]
      BY <1>t, <2>4, <2>7, <2>8 DEF FeaturesTypeOK
    <3>2. visit' \in [Visit -> VisitState]
      BY <1>t, <2>3 DEF FeaturesTypeOK, VisitState
    <3> QED
      BY <1>t, <1>f, <3>1, <3>2 DEF FeaturesTypeOK
  <2>11. visit'[v].pc = "off" /\ \A w \in Visit \ {v} : visit'[w] = visit[w]
    BY <1>t, <2>3 DEF FeaturesTypeOK, NoVisit
  <2>12. PuzzlesFit'
    BY <1>f, <2>10, <2>11, PuzzlesQuiet DEF FeaturesTypeOK
  <2>13. \A e \in FDays : (feature'[e] = NoFeature <=> feature[e] = NoFeature) /\ feature'[e].word = feature[e].word
    BY <2>4, <2>7, <2>9
  <2>15. FeaturesFit'
    <3>1. ASSUME NEW w \in Visit, visit'[w].pc = "compose"
          PROVE  /\ feature'[visit'[w].on] = NoFeature
                 /\ side' \/ \A e \in FDays : e # visit'[w].on /\ feature'[e] # NoFeature => KeyOf[feature'[e].word] \in visit'[w].used
      <4>1. visit'[w] = visit[w]
        BY <2>11, <3>1
      <4>2. visit[w].on \in FDays
        BY <1>t, <3>1, <4>1, VisitFields DEF FeaturesTypeOK
      <4> QED
        BY <1>f, <1>t, <2>13, <3>1, <4>1, <4>2 DEF FeaturesFit
    <3>2. ASSUME NEW w \in Visit, visit'[w].pc \in {"picture", "quote"}
          PROVE  feature'[visit'[w].on] # NoFeature
      <4>1. visit'[w] = visit[w]
        BY <2>11, <3>2
      <4>2. visit[w].on \in FDays
        BY <1>t, <3>2, <4>1, VisitFields DEF FeaturesTypeOK
      <4> QED
        BY <1>t, <2>13, <3>2, <4>1, <4>2 DEF FeaturesFit
    <3> QED
      BY <1>f, <1>t, <2>11, <3>1, <3>2 DEF FeaturesFit
  <2>16. WordsTellApart'
    BY <1>f, <1>t, <2>13 DEF WordsTellApart
  <2>17. Improves
    BY <1>f, <2>7, <2>9 DEF Improves
  <2> QED
    BY <1>f, <1>r, <1>t, <2>10, <2>12, <2>15, <2>16, <2>17 DEF FeaturesInv
<1> QED
  BY <1>1, <1>2

(* Steps of the stars, of the clock and of processes: no puzzle and no     *)
(* feature is touched.                                                     *)
LEMMA StarsKeep ==
    ASSUME FeaturesInv,
           \/ FTick
           \/ \E p \in Process : Restart(p)
           \/ \E v \in Visit :
                \/ GiveUp(v) \/ LockStars(v)
                \/ \E p \in Process, fallback \in BOOLEAN : AskStars(v, p, fallback)
                \/ \E answered \in BOOLEAN : FetchStars(v, answered)
           \/ UNCHANGED fvars
    PROVE  FeaturesInv' /\ Improves
<1> USE FeaturesAssumption
<1>t. FeaturesTypeOK /\ ServedIsRecent /\ ~clash
  BY DEF FeaturesInv
<1>f. puzzle' = puzzle /\ feature' = feature /\ side' = side /\ dry' = dry /\ clash' = clash /\ grids' = grids
  BY DEF FTick, Restart, GiveUp, LockStars, AskStars, FetchStars, fvars
<1>i. Improves
  BY <1>f DEF Improves
<1>s. ASSUME /\ clock' \in Nat /\ stars' \subseteq Int /\ cool' \in [Process -> [FDays -> Nat]]
             /\ visit' \in [Visit -> VisitState]
             /\ \A w \in Visit : visit'[w] = visit[w] \/ visit'[w].pc \in {"off", "stars", "fetch"}
             /\ served' \in [asked : Int, row : Int] /\ ServedIsRecent'
      PROVE  FeaturesInv'
  <2>1. FeaturesTypeOK'
    BY <1>f, <1>s, <1>t DEF FeaturesTypeOK
  <2>2. PuzzlesFit'
    BY <1>f, <1>s, PuzzlesQuiet
  <2>3. FeaturesFit' /\ WordsTellApart'
    BY <1>f, <1>s, FeaturesQuiet
  <2> QED
    BY <1>f, <1>s, <1>t, <2>1, <2>2, <2>3 DEF FeaturesInv
<1>d. Today \in Int
  <2>1. clock \in Int /\ DayTicks \in Nat \ {0}
    BY <1>t DEF FeaturesTypeOK
  <2>2. clock \div DayTicks \in Int
    BY <2>1
  <2> QED
    BY <2>2 DEF Today
<1>l. ASSUME NEW d \in Int, Recent(d) # {}, Serve(d, Latest(Recent(d)))
      PROVE  served' \in [asked : Int, row : Int] /\ ServedIsRecent'
  <2>1. Latest(Recent(d)) \in Int /\ Latest(Recent(d)) <= d /\ Latest(Recent(d)) >= d - FallbackDays
    BY <1>l, <1>t, LatestIsRecent DEF FeaturesTypeOK
  <2> QED
    BY <1>l, <2>1 DEF Serve, ServedIsRecent
<1>o. ASSUME NEW d \in Int, Serve(d, d)
      PROVE  served' \in [asked : Int, row : Int] /\ ServedIsRecent'
  BY <1>o DEF Serve, ServedIsRecent
<1>u. ASSUME served' = served
      PROVE  served' \in [asked : Int, row : Int] /\ ServedIsRecent'
  BY <1>u, <1>t DEF FeaturesTypeOK, ServedIsRecent
<1>off. NoVisit \in VisitState /\ NoVisit.pc = "off"
  BY DEF VisitState, NoVisit
<1>1. ASSUME FTick \/ UNCHANGED fvars PROVE FeaturesInv'
  <2>1. /\ clock' = clock \/ clock' = clock + 1
        /\ stars' = stars /\ cool' = cool /\ visit' = visit /\ served' = served
    BY <1>1 DEF FTick, fvars
  <2>2. clock' \in Nat
    BY <1>t, <2>1 DEF FeaturesTypeOK
  <2> QED
    BY <1>s, <1>t, <1>u, <2>1, <2>2 DEF FeaturesTypeOK
<1>2. ASSUME NEW p \in Process, Restart(p)
      PROVE  FeaturesInv'
  <2>1. visit' \in [Visit -> VisitState] /\ \A w \in Visit : visit'[w] = visit[w] \/ visit'[w].pc = "off"
    BY <1>2, <1>off, <1>t DEF Restart, FeaturesTypeOK
  <2>2. cool' \in [Process -> [FDays -> Nat]]
    BY <1>2, <1>t DEF Restart, FeaturesTypeOK
  <2> QED
    BY <1>2, <1>s, <1>t, <1>u, <2>1, <2>2 DEF Restart, FeaturesTypeOK
<1>3. ASSUME NEW v \in Visit, GiveUp(v)
      PROVE  FeaturesInv'
  <2>1. visit' \in [Visit -> VisitState] /\ \A w \in Visit : visit'[w] = visit[w] \/ visit'[w].pc = "off"
    BY <1>3, <1>off, <1>t DEF GiveUp, Goes, FeaturesTypeOK
  <2> QED
    BY <1>3, <1>s, <1>t, <1>u, <2>1 DEF GiveUp, FeaturesTypeOK
<1>4. ASSUME NEW v \in Visit, NEW p \in Process, NEW fallback \in BOOLEAN, AskStars(v, p, fallback)
      PROVE  FeaturesInv'
  <2>1. PICK m : m = [pc |-> "stars", on |-> Today, proc |-> p, fallback |-> fallback]
    OBVIOUS
  <2>2. m \in VisitState /\ m.pc = "stars"
    BY <1>d, <2>1 DEF VisitState
  <2>3. \/ Recent(Today) # {} /\ Serve(Today, Latest(Recent(Today))) /\ visit' = visit
        \/ visit' = [visit EXCEPT ![v] = m] /\ served' = served
    BY <1>4, <2>1 DEF AskStars, Goes
  <2>4. served' \in [asked : Int, row : Int] /\ ServedIsRecent'
    BY <1>d, <1>l, <1>u, <2>3
  <2>5. visit' \in [Visit -> VisitState] /\ \A w \in Visit : visit'[w] = visit[w] \/ visit'[w].pc = "stars"
    BY <1>t, <2>2, <2>3 DEF FeaturesTypeOK
  <2> QED
    BY <1>4, <1>s, <1>t, <2>4, <2>5 DEF AskStars, FeaturesTypeOK
<1>5. ASSUME NEW v \in Visit, LockStars(v)
      PROVE  FeaturesInv'
  <2>1. PICK m : m = [visit[v] EXCEPT !.pc = "fetch"]
    OBVIOUS
  <2>2. visit[v].pc = "stars"
    BY <1>5 DEF LockStars
  <2>3. visit[v] \in [pc : {"stars", "fetch"}, on : Int, proc : Process, fallback : BOOLEAN]
    BY <1>t, <2>2, VisitFields DEF FeaturesTypeOK
  <2>4. m \in [pc : {"stars", "fetch"}, on : Int, proc : Process, fallback : BOOLEAN] /\ m.pc = "fetch" /\ visit[v].on \in Int
    BY <2>1, <2>3
  <2>5. m \in VisitState
    BY <2>4 DEF VisitState
  <2>6. \/ visit' = [visit EXCEPT ![v] = NoVisit] /\ Serve(visit[v].on, visit[v].on)
        \/ visit' = [visit EXCEPT ![v] = m] /\ served' = served
    BY <1>5, <2>1 DEF LockStars, Goes
  <2>7. served' \in [asked : Int, row : Int] /\ ServedIsRecent'
    BY <1>o, <1>u, <2>4, <2>6
  <2>8. visit' \in [Visit -> VisitState] /\ \A w \in Visit : visit'[w] = visit[w] \/ visit'[w].pc \in {"off", "fetch"}
    BY <1>off, <1>t, <2>4, <2>5, <2>6 DEF FeaturesTypeOK
  <2> QED
    BY <1>5, <1>s, <1>t, <2>7, <2>8 DEF LockStars, FeaturesTypeOK
<1>6. ASSUME NEW v \in Visit, NEW answered \in BOOLEAN, FetchStars(v, answered)
      PROVE  FeaturesInv'
  <2>1. PICK d, p : d = visit[v].on /\ p = visit[v].proc
    OBVIOUS
  <2>2. visit[v].pc = "fetch"
    BY <1>6 DEF FetchStars
  <2>3. d \in Int /\ p \in Process
    BY <1>t, <2>1, <2>2, VisitFields DEF FeaturesTypeOK
  <2>4. visit' = [visit EXCEPT ![v] = NoVisit] /\ clock' = clock
    BY <1>6 DEF FetchStars, Goes
  <2>5. \/ Serve(d, d) /\ stars' = stars \cup {d}
        \/ Recent(d) # {} /\ Serve(d, Latest(Recent(d))) /\ stars' = stars
        \/ served' = served /\ stars' = stars
    BY <1>6, <2>1 DEF FetchStars
  <2>6. served' \in [asked : Int, row : Int] /\ ServedIsRecent'
    BY <1>l, <1>o, <1>u, <2>3, <2>5
  <2>7. stars' \subseteq Int
    <3>1. stars' = stars \/ stars' = stars \cup {d}
      BY <2>5
    <3> QED
      BY <1>t, <2>3, <3>1 DEF FeaturesTypeOK
  <2>8. PICK until \in Nat : cool' = [cool EXCEPT ![p][d] = until]
    <3>1. clock + Cooldown \in Nat
      BY <1>t DEF FeaturesTypeOK
    <3>2. cool' = [cool EXCEPT ![p][d] = IF answered THEN 0 ELSE clock + Cooldown]
      BY <1>6, <2>1 DEF FetchStars
    <3> QED
      BY <3>1, <3>2
  <2>9. cool' \in [Process -> [FDays -> Nat]]
    BY <1>t, <2>3, <2>8 DEF FeaturesTypeOK
  <2>10. visit' \in [Visit -> VisitState] /\ \A w \in Visit : visit'[w] = visit[w] \/ visit'[w].pc = "off"
    BY <1>off, <1>t, <2>4 DEF FeaturesTypeOK
  <2> QED
    BY <1>s, <1>t, <2>4, <2>6, <2>7, <2>9, <2>10 DEF FeaturesTypeOK
<1> QED
  BY <1>1, <1>2, <1>3, <1>4, <1>5, <1>6, <1>i

LEMMA FeaturesStep == FeaturesInv /\ [FeaturesNext]_fvars => FeaturesInv' /\ Improves
<1> SUFFICES ASSUME FeaturesInv, [FeaturesNext]_fvars PROVE FeaturesInv' /\ Improves
  OBVIOUS
<1>1. ASSUME \/ FTick
             \/ \E p \in Process : Restart(p)
             \/ UNCHANGED fvars
      PROVE  FeaturesInv' /\ Improves
  BY <1>1, StarsKeep
<1>2. ASSUME NEW v \in Visit,
             \/ GiveUp(v) \/ LockStars(v)
             \/ \E p \in Process, fallback \in BOOLEAN : AskStars(v, p, fallback)
             \/ \E answered \in BOOLEAN : FetchStars(v, answered)
      PROVE  FeaturesInv' /\ Improves
  BY <1>2, StarsKeep
<1>3. ASSUME NEW v \in Visit,
             \/ \E k \in Puzzle, up \in BOOLEAN : AskPuzzle(v, k, up)
             \/ LockPuzzle(v)
             \/ \E source \in {"apiverve", "algorithmic"} : MakePuzzle(v, source)
      PROVE  FeaturesInv' /\ Improves
  BY <1>3, PuzzlesKeep
<1>4. ASSUME NEW v \in Visit,
             \/ \E d \in FDays : AskFeature(v, d)
             \/ LockFeature(v)
             \/ \E w \in Word, quote \in {"apiverve", "ai"}, picture \in BOOLEAN : ComposeFeature(v, w, quote, picture)
      PROVE  FeaturesInv' /\ Improves
  BY <1>4, ComposingKeeps
<1>5. ASSUME NEW v \in Visit,
             \/ \E d \in FDays, what \in {"picture", "quote"} : Improve(v, d, what)
             \/ \E answered \in BOOLEAN : Improved(v, answered)
      PROVE  FeaturesInv' /\ Improves
  BY <1>5, ImprovingKeeps
<1> QED
  BY <1>1, <1>2, <1>3, <1>4, <1>5, Zenon DEF FeaturesNext

\* Each day has its own puzzles, word, quote and stars, and what readers
\* have been given only gets better (services/crossword.py, sudoku.py,
\* word_search.py, editorial_features.py, horoscope.py).
THEOREM DaysHaveTheirOwn == FeaturesSpec => DayHasItsOwn
<1> DEFINE A ==
      /\ \A k \in Puzzle : puzzle[k] # NoPuzzle =>
            puzzle'[k] = puzzle[k] \/ (k = "crossword" /\ puzzle'[k].source = "apiverve")
      /\ \A d \in FDays : feature[d] # NoFeature =>
            /\ feature'[d].word = feature[d].word
            /\ feature[d].quote = "apiverve" => feature'[d].quote = "apiverve"
            /\ feature[d].picture => feature'[d].picture
<1>1. FeaturesInv /\ [FeaturesNext]_fvars => FeaturesInv' /\ A
  BY FeaturesStep DEF Improves
<1>2. FeaturesInv => NoDateTakenTwice /\ WordsTellApart /\ ServedIsRecent
  BY DEF FeaturesInv, NoDateTakenTwice
<1> HIDE DEF A
<1>3. FeaturesSpec => [][A]_fvars /\ [](NoDateTakenTwice /\ WordsTellApart /\ ServedIsRecent)
  BY InitFeatures, <1>1, <1>2, PTL DEF FeaturesSpec
<1>4. [][A]_fvars => GivenOnlyImproves
  BY PTL DEF A, GivenOnlyImproves
<1> QED
  BY <1>3, <1>4, PTL DEF DayHasItsOwn
=============================================================================
