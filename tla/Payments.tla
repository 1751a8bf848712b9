------------------------------ MODULE Payments ------------------------------
(* Money: the webhook that records donations (app/main.py,                     *)
(* services/donations.py) and the check of a purchase with Google Play         *)
(* (services/play_billing.py).  The payment provider delivers a captured       *)
(* payment again until it is answered with success; the donor's account may be *)
(* deleted at any moment.                                                      *)
EXTENDS Integers, Sequences, FiniteSets

CONSTANTS
    Payment,    \* donations that a client begins
    Hook,       \* deliveries in progress, at most
    NoDonor,
    MaxLag      \* bound: seconds until Google knows a purchase

ASSUME PaymentsAssumption == MaxLag \in Nat

VARIABLES
    donor,      \* the donor's account exists
    link,       \* at the provider: how far each payment is, and whom it names
    donations,  \* rows: payment, donor
    hook,       \* what each delivery is in the middle of
    told,       \* payments whose capture was answered with success
    purchase    \* the purchase being checked

paymentVars == <<donor, link, donations, hook, told, purchase>>

NoLink == [stage |-> "none", note |-> NoDonor]
NoHook == [payment |-> NoDonor]

\* What Google knows: when it hears of the token, and what it answers then.
States == {"paid", "not paid", "no such token"}
NoPurchase == [state |-> "no such token", from |-> 0, tries |-> 0, verdict |-> "none"]

PaymentsInit ==
    /\ donor = TRUE /\ donations = {} /\ told = {}
    /\ link = [p \in Payment |-> NoLink]
    /\ hook = [h \in Hook |-> NoHook]
    /\ purchase = NoPurchase

\* create_payment_link: the user id rides in the notes, if there is one.
Note(signedIn) == IF signedIn /\ donor THEN "donor" ELSE NoDonor

\* create_donation_link: a donor that is unknown stays out of it.
CreateLink(p, signedIn) ==
    /\ link[p] = NoLink
    /\ link' = [link EXCEPT ![p] = [stage |-> "link", note |-> Note(signedIn)]]
    /\ UNCHANGED <<donor, donations, hook, told, purchase>>

\* The client pays, the provider captures.
Pay(p) ==
    /\ link[p].stage \in {"link", "authorized"}
    /\ link' = [link EXCEPT ![p].stage = IF @ = "link" THEN "authorized" ELSE "captured"]
    /\ UNCHANGED <<donor, donations, hook, told, purchase>>

\* Mutant of Taken: any event of a payment will do.
TakenAny(stage) == stage \in {"authorized", "captured"}

\* parse_captured_payment
Taken(stage) == stage = "captured"

\* A delivery tells how far the payment is.  One of another event, or a body
\* that is malformed or wrongly signed, changes nothing.  The donor is looked
\* up; one that is unknown becomes null.
ReceivePayment(h, p) ==
    /\ hook[h] = NoHook /\ p \notin told
    /\ Taken(link[p].stage)
    /\ hook' = [hook EXCEPT ![h] = [payment |-> p,
           donor |-> IF link[p].note = "donor" /\ donor THEN "donor" ELSE NoDonor]]
    /\ UNCHANGED <<donor, link, donations, told, purchase>>

\* A payment that has its row keeps it.
Recorded(q) ==
    IF \E x \in donations : x.payment = q.payment THEN donations
    ELSE donations \cup {[payment |-> q.payment, donor |-> q.donor]}

\* Fails if the donor has gone since the lookup, and then is delivered again.
RecordPayment(h) ==
    LET q == hook[h]
        fails == q.donor = "donor" /\ ~donor
                 /\ \A x \in donations : x.payment # q.payment
    IN  /\ q # NoHook
        /\ donations' = IF fails THEN donations ELSE Recorded(q)
        /\ told' = IF fails THEN told ELSE told \cup {q.payment}
        /\ hook' = [hook EXCEPT ![h] = NoHook]
        /\ UNCHANGED <<donor, link, purchase>>

\* The worker dies, or the answer is lost, which is after the commit.
LoseHook(h) ==
    LET q == hook[h] IN
    /\ q # NoHook
    /\ \/ donations' = donations
       \/ (q.donor = "donor" => donor) /\ donations' = Recorded(q)
    /\ hook' = [hook EXCEPT ![h] = NoHook]
    /\ UNCHANGED <<donor, link, told, purchase>>

\* The account goes; its donations lose the name (ON DELETE SET NULL).
DeleteDonor ==
    /\ donor /\ donor' = FALSE
    /\ donations' = {[x EXCEPT !.donor = NoDonor] : x \in donations}
    /\ UNCHANGED <<link, hook, told, purchase>>

\* A payment is in the books once from the first success on, whatever is
\* delivered again, never before it is captured, and names its donor only
\* while there is one
\* (app/main.py:3656-3700, models.py:1068-1090).
MoneyIsKept ==
    /\ \A p \in told : \E x \in donations : x.payment = p
    /\ \A x, y \in donations : x.payment = y.payment => x = y
    /\ \A x \in donations :
          link[x.payment].stage = "captured" /\ (~donor => x.donor = NoDonor)

-----------------------------------------------------------------------------
(* verify_purchase.                                                            *)

\* _LOOKUP_RETRY_DELAYS_SECS
Delays == <<1, 2, 4>>

\* When the n-th lookup is made, in seconds from the first.
LookupAt[n \in 1 .. Len(Delays) + 1] == IF n = 1 THEN 0 ELSE LookupAt[n - 1] + Delays[n - 1]

BeginCheck(state, lag) ==
    /\ purchase = NoPurchase
    /\ purchase' = [state |-> state, from |-> lag, tries |-> 0, verdict |-> "none"]
    /\ UNCHANGED <<donor, link, donations, hook, told>>

Transient(status) == status \in {401, 403, 429, 500}

\* What becomes of the check at the n-th lookup.
Verdict(status, n) ==
    IF Transient(status) THEN "unknown"
    ELSE IF status = 400 THEN "refused by Google"
    ELSE IF status = 200 /\ purchase.state = "paid" THEN "valid"
    ELSE IF status = 404 /\ n <= Len(Delays) THEN "none"
    ELSE "invalid"

\* Google has heard of the token by the n-th lookup.
Knows(n) == purchase.state # "no such token" /\ LookupAt[n] >= purchase.from

\* One lookup: an error of Google's or of ours says nothing of the purchase;
\* a token it does not know is looked up again while there are delays left.
Lookup ==
    LET n == purchase.tries + 1 IN
    /\ purchase # NoPurchase /\ purchase.verdict = "none"
    /\ \E status \in {400, 401, 403, 429, 500} \cup (IF Knows(n) THEN {200} ELSE {404}) :
         purchase' = [purchase EXCEPT !.tries = n, !.verdict = Verdict(status, n)]
    /\ UNCHANGED <<donor, link, donations, hook, told>>

\* A buyer whose purchase Google knows of within the seven seconds of retries
\* is not told that it is invalid, whatever fails on the way, unless Google
\* says that the token is malformed (services/play_billing.py:60-92).
BuyerIsBelieved ==
    purchase.state = "paid" /\ purchase.from <= 7 => purchase.verdict # "invalid"

MoneyNext ==
    \/ \E p \in Payment : \/ Pay(p)
                          \/ \E signedIn \in BOOLEAN : CreateLink(p, signedIn)
                          \/ \E h \in Hook : ReceivePayment(h, p)
    \/ \E h \in Hook : RecordPayment(h) \/ LoseHook(h)
    \/ DeleteDonor

PurchaseNext == (\E s \in States, lag \in 0 .. MaxLag : BeginCheck(s, lag)) \/ Lookup

PaymentsSpec == PaymentsInit /\ [][MoneyNext \/ PurchaseNext]_paymentVars

\* Who has paid is in the books and is believed.
PaidIsKept == MoneyIsKept /\ BuyerIsBelieved

=============================================================================
