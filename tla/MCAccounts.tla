----------------------------- MODULE MCAccounts -----------------------------
(* Bounded instances of accounts, of what readers leave behind and of          *)
(* payments.  A behaviour works on one lane, chosen at the start:              *)
(*   workers  requests of one device on two workers, one deletion, ticks       *)
(*   devices  the same of two devices on one worker, which remembers one token *)
(*   photo    two requests that upload, sign in or delete                      *)
(*   lists    topics at their limit, and blocks, against the deletion          *)
(*   kinds    every list, one request at a time                                *)
(*   saved    a client pages through saved stories                             *)
(*   reports  two reports of read stories at once                              *)
(*   games    every set of completed days                                      *)
(*   money    deliveries of payments while the donor's account is deleted      *)
(*   purchase one purchase and its lookups                                     *)
(* Only the first token and worker are used in the others; one request at a    *)
(* time and one list row in kinds; only in photo has the provider a picture.   *)
(* A behaviour stops where a named race has happened.                          *)
EXTENDS Lanes, Accounts, Reading, Payments

readerVars == <<accountVars, readingVars, paymentVars>>

AccountLanes == {"workers", "devices", "photo", "lists", "kinds", "saved", "reports", "games", "money", "purchase"}

Visits ==
    CASE lane \in {"workers", "devices"} -> {<<"view", 1>>}
      [] lane = "photo"   -> {<<"upload", p>> : p \in Pictures}
      [] lane = "lists"   -> {<<"topic", 1>>, <<"topic", 2>>, <<"untopic all", 1>>,
                              <<"blocked", 1>>, <<"unblock", 1>>}
      [] lane = "kinds"   -> {<<k, 1>> : k \in (Adds \ {"topic"}) \cup Removes
                                              \cup {"untopic", "unfollow", "unfollow all"}}
      [] OTHER            -> {}

NoRequest == \A r \in Request : request[r] = Free
NothingKnown == \A w \in Worker, t \in Token : cache[w][t] = Absent

\* Requests, workers and tokens that nothing tells apart yet stand for each
\* other, and the first is taken.
First(S) == {CHOOSE x \in S : TRUE}
Requests == IF NoRequest THEN First(Request) ELSE Request
AllAlike == NoRequest /\ NothingKnown /\ gone = <<>>
Workers == IF lane = "workers" /\ ~AllAlike THEN Worker ELSE First(Worker)
TokensUsed == IF lane = "devices" /\ ~AllAlike THEN Token ELSE First(Token)

ReaderInit ==
    /\ AccountInit /\ PaymentsInit
    /\ SavedInit /\ EventInit
    /\ \E g \in Game, days \in IF lane = "games" THEN SUBSET (0 .. Today) ELSE {{}} :
         GameInit(g, days)

NextAccount ==
    \/ lane \in {"workers", "devices"} /\ Tick
    \/ \E r \in Requests, w \in Workers, t \in TokensUsed, v \in Visits :
         /\ lane = "kinds" => NoRequest /\ (v[1] \in Adds => lists = {})
         /\ Arrive(r, w, t, v[1], v[2])
    \/ \E w \in Workers, r \in Request :
         \/ LoginRead(r, w) /\ (lane # "photo" => request'[r].item = "none")
         \/ DeleteRead(r, w)
    \/ \E w \in Workers : Restart(w)
    \/ \E r \in Request : Proceed(r)

NextReading ==
    \/ lane = "saved" /\ (ListSaved \/ \E s \in Story : Save(s) \/ Unsave(s))
    \/ lane = "reports" /\ \E d \in Delivery :
         \/ \E e \in Event, closing \in BOOLEAN, type \in {"read", "framing_view"} :
              Report(d, e, closing, type)
         \/ Commit(d) \/ Lost(d)
    \/ lane = "games" /\ (GetGameStats \/ \E g \in Game : StartGame(g, Today) \/ CompleteGame(g, Today))

NextPayment ==
    \/ lane = "money" /\ MoneyNext
    \/ lane = "purchase" /\ PurchaseNext

ReaderNext ==
    /\ ~revived /\ ~crowded /\ ~reported.again /\ ~reported.mixed
    /\ \/ lane \in {"workers", "devices", "photo", "lists", "kinds"} /\ NextAccount
          /\ UNCHANGED <<readingVars, paymentVars>>
       \/ NextReading /\ UNCHANGED <<accountVars, paymentVars>>
       \/ NextPayment /\ UNCHANGED <<accountVars, readingVars>>

=============================================================================
