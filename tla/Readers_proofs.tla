---------------------------- MODULE Readers_proofs ----------------------------
(***************************************************************************)
(* Proofs about what is kept of readers, and by the scripts on their rows. *)
(*                                                                         *)
(* Accounts, for any number of requests, workers and tokens.  Ids are      *)
(* never given twice, so that an id is either that of the row or of a      *)
(* deleted account (IdsFit); every picture in the bucket has somebody who  *)
(* will delete it, or is counted as an orphan (FilesOwned); and a token    *)
(* was remembered no later than its account's deletion, unless the history *)
(* says so (EntriesLapse).                                                 *)
(*                                                                         *)
(* Payments, for any number of payments, deliveries and any lag.           *)
(*                                                                         *)
(* Migrations, for any tables, words, dates and stories.                   *)
(*                                                                         *)
(* Repairs, for any articles, topics and outlets.                          *)
(*                                                                         *)
(* Feed, for any stories, scores, callers and page sizes: a page is what   *)
(* lies between its cursors in the order of its listing.                   *)
(*                                                                         *)
(* Reading, for any stories, reports and number of days.                   *)
(***************************************************************************)
EXTENDS Accounts, Payments, Migrations, Repairs, Feed, Reading, FiniteSetTheorems, TLAPS

Photo == Pictures \cup {"none", "google"}
User == [id: Nat, photo: Photo]
CacheEntry == [id: Nat, until: Nat]
Deletion == [at: Nat, by: Worker, dropped: BOOLEAN, late: BOOLEAN]
Things == Item \cup Pictures
Kinds == Adds \cup Removes \cup {"unfollow", "untopic", "unfollow all", "untopic all", "upload"}

\* What a request is in the middle of.
Visiting == {q \in [step: {"look", "remember", "check", "write", "remove"}, op: Kinds, worker: Worker,
                    token: Token, id: Nat, item: Things] : q.op = "upload" => q.item \in Pictures}
Uploading == [step: {"put", "save", "drop"}, op: {"upload"}, worker: Worker, id: Nat,
              item: Pictures, photo: Photo]
SigningIn == [step: {"login"}, op: {"login"}, worker: Worker, id: Nat, photo: Photo,
              item: {"none", "google"}]
Deleting == [step: {"commit", "forget", "photo", "identity"}, op: {"delete"}, worker: Worker,
             id: Nat, photo: Photo]
Doing == {Free} \cup Visiting \cup Uploading \cup SigningIn \cup Deleting

AccountTypeOK ==
    /\ now \in Nat /\ user \in User /\ given \in Nat
    /\ request \in [Request -> Doing]
    /\ cache \in [Worker -> [Token -> CacheEntry]]
    /\ gone \in [DOMAIN gone -> Deletion]
    /\ IsFiniteSet(lists)

\* Steps at which a request has an id that was given.
Known == {"remember", "check", "write", "remove", "put", "save", "drop", "commit", "forget", "photo"}

IdsFit ==
    /\ user.id <= given /\ DOMAIN gone = (1 .. given) \ {user.id}
    /\ \A r \in Request : /\ request[r].step \in Known => request[r].id \in 1 .. given
                          /\ request[r].step \in {"forget", "photo"} => request[r].id # user.id
    /\ \A x \in lists : x.of \in 1 .. given /\ (x.kind # "report" => x.of = user.id)
    /\ \A f \in files : f.of \in 1 .. given
    /\ answered \subseteq DOMAIN gone /\ (answered # {} => ~firebase)

EntriesLapse ==
    \A w \in Worker, t \in Token : cache[w][t] # Absent =>
        LET e == cache[w][t] IN
        /\ e.id \in 1 .. given /\ e.until <= now + Ttl
        /\ e.id \in DOMAIN gone =>
               \/ gone[e.id].late
               \/ e.until <= gone[e.id].at + Ttl /\ (gone[e.id].by = w => ~gone[e.id].dropped)

\* Who deletes a picture in the end.
Holds(q, f) ==
    \/ q.step = "save" /\ f = File(q.id, q.item)
    \/ q.step \in {"drop", "forget", "photo"} /\ f = File(q.id, q.photo)
FilesOwned ==
    \A f \in files : \/ f \in orphans \/ f = File(user.id, user.photo)
                     \/ \E r \in Request : Holds(request[r], f)

PhotosKept ==
    revived \/
        /\ user.photo \in Pictures => File(user.id, user.photo) \in files
        /\ \A r \in Request : request[r].step = "save" /\ request[r].id = user.id =>
               File(request[r].id, request[r].item) \in files
        /\ \A r \in Request : request[r].step = "drop" /\ request[r].id = user.id /\ user.photo \in Pictures =>
               request[r].photo # user.photo

AccountInv ==
    AccountTypeOK /\ IdsFit /\ EntriesLapse /\ FilesOwned /\ PhotosKept /\ TopicsWithinLimit

-----------------------------------------------------------------------------
(* Requests.                                                               *)

LEMMA MoveOf ==
    ASSUME request \in [Request -> Doing], NEW r \in Request, NEW m \in Doing, Moved(r, m)
    PROVE  /\ request' \in [Request -> Doing] /\ request'[r] = m
           /\ \A x \in Request : x # r => request'[x] = request[x]
  BY DEF Moved

LEMMA RequestKinds ==
    ASSUME request \in [Request -> Doing], NEW r \in Request
    PROVE  /\ request[r].step \in {"look", "remember", "check", "write", "remove"} => request[r] \in Visiting
           /\ request[r].step \in {"put", "save", "drop"} => request[r] \in Uploading
           /\ request[r].step = "login" => request[r] \in SigningIn
           /\ request[r].step \in {"commit", "forget", "photo", "identity"} => request[r] \in Deleting
<1>1. request[r] \in Doing
  OBVIOUS
<1> QED
  BY <1>1 DEF Doing, Free, Visiting, Uploading, SigningIn, Deleting

LEMMA StepsOfRequests ==
    /\ \A q \in Visiting : \A s \in {"look", "remember", "check", "write", "remove"} :
           LET m == [q EXCEPT !.step = s] IN m \in Visiting /\ m.step = s /\ m.id = q.id
    /\ \A q \in Uploading : \A s \in {"put", "save", "drop"} :
           LET m == [q EXCEPT !.step = s] IN
           m \in Uploading /\ m.step = s /\ m.id = q.id /\ m.item = q.item /\ m.photo = q.photo
    /\ \A q \in Deleting : \A s \in {"commit", "forget", "photo", "identity"} :
           LET m == [q EXCEPT !.step = s] IN
           m \in Deleting /\ m.step = s /\ m.id = q.id /\ m.photo = q.photo
    /\ Visiting \subseteq Doing /\ Uploading \subseteq Doing /\ SigningIn \subseteq Doing /\ Deleting \subseteq Doing
    /\ Free \in Doing /\ Free.step = "free"
  BY DEF Visiting, Uploading, SigningIn, Deleting, Doing, Free

LEMMA FilesDiffer ==
    ASSUME NEW i, NEW p, NEW j, NEW o
    PROVE  /\ File(i, p).of = i /\ File(i, p).photo = p
           /\ File(i, p) = File(j, o) <=> i = j /\ p = o
  BY DEF File

LEMMA InitAccountInv == AccountInit => AccountInv
<1> SUFFICES ASSUME AccountInit PROVE AccountInv
  OBVIOUS
<1>1. /\ now = 0 /\ given = 0 /\ user.id = 0 /\ user.photo = "none" /\ user \in User
      /\ DOMAIN gone = {} /\ 1 .. given = {} /\ files = {} /\ lists = {} /\ answered = {}
      /\ request = [r \in Request |-> Free] /\ cache = [w \in Worker |-> [t \in Token |-> Absent]]
  BY DEF AccountInit, Nobody, User, Photo
<1>2. AccountTypeOK
  <2>1. request \in [Request -> Doing]
    BY <1>1, StepsOfRequests
  <2>2. cache \in [Worker -> [Token -> CacheEntry]]
    BY <1>1 DEF Absent, CacheEntry
  <2>3. gone \in [DOMAIN gone -> Deletion] /\ IsFiniteSet(lists)
    BY <1>1, FS_EmptySet DEF AccountInit
  <2> QED
    BY <1>1, <2>1, <2>2, <2>3 DEF AccountTypeOK
<1>3. \A r \in Request : request[r].step = "free"
  BY <1>1, StepsOfRequests
<1>4. IdsFit /\ EntriesLapse /\ FilesOwned
  BY <1>1, <1>3 DEF IdsFit, EntriesLapse, FilesOwned, Known
<1>5. PhotosKept
  BY <1>1, <1>3 DEF PhotosKept, Pictures
<1>6. TopicsWithinLimit
  BY <1>1 DEF TopicsWithinLimit
<1> QED
  BY <1>2, <1>4, <1>5, <1>6 DEF AccountInv

-----------------------------------------------------------------------------
(* A step that only moves a request on, or forgets remembered tokens.      *)

LEMMA MovingKeeps ==
    ASSUME AccountInv, NEW r \in Request, NEW m \in Doing, Moved(r, m),
           UNCHANGED <<now, user, given, gone, files, lists, orphans, revived, crowded>>,
           cache' \in [Worker -> [Token -> CacheEntry]],
           \A w \in Worker, t \in Token : cache'[w][t] \in {cache[w][t], Absent},
           answered' \subseteq DOMAIN gone, answered' # {} => ~firebase',
           m.step \in Known => m.id \in 1 .. given,
           m.step \notin {"save", "drop", "forget", "photo"},
           request[r].step \notin {"save", "drop", "forget", "photo"}
    PROVE  AccountInv'
<1>1. /\ request' \in [Request -> Doing] /\ request'[r] = m
      /\ \A x \in Request : x # r => request'[x] = request[x]
  BY MoveOf DEF AccountInv, AccountTypeOK
<1>2. AccountTypeOK'
  BY <1>1 DEF AccountInv, AccountTypeOK
<1>3. IdsFit'
  BY <1>1 DEF AccountInv, IdsFit
<1>4. EntriesLapse'
  BY DEF AccountInv, EntriesLapse
<1>5. FilesOwned'
  <2> SUFFICES ASSUME NEW f \in files, f \notin orphans, f # File(user.id, user.photo)
               PROVE  \E x \in Request : Holds(request'[x], f)
    BY DEF FilesOwned, File
  <2>1. PICK x \in Request : Holds(request[x], f)
    BY DEF AccountInv, FilesOwned
  <2>2. x # r
    BY <2>1 DEF Holds
  <2> QED
    BY <1>1, <2>1, <2>2
<1>6. PhotosKept'
  BY <1>1 DEF AccountInv, PhotosKept, File
<1>7. TopicsWithinLimit'
  BY DEF AccountInv, TopicsWithinLimit, Topics
<1> QED
  BY <1>2, <1>3, <1>4, <1>5, <1>6, <1>7 DEF AccountInv

(* What the invariant says of caches and answers when they do not change.  *)
LEMMA CachesStay ==
    ASSUME AccountInv
    PROVE  /\ cache \in [Worker -> [Token -> CacheEntry]] /\ answered \subseteq DOMAIN gone
           /\ answered # {} => ~firebase
           /\ request \in [Request -> Doing] /\ user \in User /\ given \in Nat /\ now \in Nat
           /\ user.id \in 0 .. given /\ user.photo \in Photo
  BY DEF AccountInv, AccountTypeOK, IdsFit, User

LEMMA ArrivingKeeps ==
    ASSUME AccountInv, NEW r \in Request, NEW w \in Worker, NEW t \in Token, NEW v \in Visit,
           Arrive(r, w, t, v[1], v[2])
    PROVE  AccountInv'
<1>1. PICK op \in Kinds, item \in Things : op = v[1] /\ item = v[2]
  BY DEF Visit, Kinds, Things
<1>2. PICK e \in CacheEntry : e = cache[w][t]
  BY CachesStay
<1>3. PICK m : m = [step |-> IF Fresh(e) THEN "check" ELSE "look", op |-> op, worker |-> w,
                    token |-> t, id |-> IF Fresh(e) THEN e.id ELSE 0, item |-> item]
  OBVIOUS
<1>4. /\ request[r] = Free /\ Moved(r, m)
      /\ cache' = IF Fresh(e) THEN cache ELSE [cache EXCEPT ![w] = [@ EXCEPT ![t] = Absent]]
      /\ UNCHANGED <<now, user, given, firebase, files, lists, gone, answered, orphans, revived, crowded>>
  BY <1>1, <1>2, <1>3 DEF Arrive
<1>5. m \in Visiting
  <2>1. op = "upload" => item \in Pictures
    BY <1>1 DEF Visit, Adds, Removes
  <2> QED
    BY <1>3, <2>1 DEF Visiting, CacheEntry
<1>6. Fresh(e) => e.id \in 1 .. given
  <2>1. Absent.until = 0 /\ now \in Nat
    BY CachesStay DEF Absent
  <2>2. Fresh(e) => e # Absent
    BY <2>1 DEF Fresh
  <2> QED
    BY <1>2, <2>2 DEF AccountInv, EntriesLapse
<1>7. m.step \in Known => m.id \in 1 .. given
  BY <1>3, <1>6 DEF Known
<1>8. m.step \in {"check", "look"}
  BY <1>3
<1>9. /\ cache' \in [Worker -> [Token -> CacheEntry]]
      /\ \A x \in Worker, y \in Token : cache'[x][y] \in {cache[x][y], Absent}
  <2>1. Absent \in CacheEntry
    BY DEF Absent, CacheEntry
  <2> QED
    BY <1>4, <2>1, CachesStay
<1> QED
  BY <1>4, <1>5, <1>7, <1>8, <1>9, CachesStay, StepsOfRequests, MovingKeeps

LEMMA LookingKeeps ==
    ASSUME AccountInv, NEW r \in Request, Look(r) \/ CheckUser(r) \/ \E k \in Kinds : FindRow(r, k)
    PROVE  AccountInv'
<1>1. PICK q \in Visiting : q = request[r] /\ q.step \in {"look", "check"}
  BY CachesStay, RequestKinds DEF Look, CheckUser, FindRow
<1>2. /\ UNCHANGED <<now, user, given, firebase, files, lists, cache, gone, answered, orphans, revived, crowded>>
      /\ \/ Moved(r, Free)
         \/ q.step = "look" /\ user.id # 0 /\ Moved(r, [q EXCEPT !.step = "remember", !.id = user.id])
         \/ q.step = "check" /\ \E s \in {"write", "remove"} : Moved(r, [q EXCEPT !.step = s])
  BY <1>1 DEF Look, CheckUser, FindRow, Done, Step
<1>3. PICK m \in Doing : /\ Moved(r, m) /\ (m.step \in Known => m.id \in 1 .. given)
                         /\ m.step \in {"free", "remember", "write", "remove"}
  <2>1. CASE Moved(r, Free)
    BY <2>1, StepsOfRequests DEF Known
  <2>2. CASE q.step = "look" /\ user.id # 0 /\ Moved(r, [q EXCEPT !.step = "remember", !.id = user.id])
    <3>1. PICK i \in Nat : i = user.id /\ i \in 1 .. given
      BY <2>2, CachesStay
    <3>2. PICK m : m = [q EXCEPT !.step = "remember", !.id = i]
      OBVIOUS
    <3>3. m \in Visiting /\ m.id = i /\ m.step = "remember"
      BY <3>2 DEF Visiting
    <3>4. m \in Doing
      BY <3>3, StepsOfRequests
    <3> QED
      BY <2>2, <3>1, <3>2, <3>3, <3>4
  <2>3. ASSUME NEW s \in {"write", "remove"}, Moved(r, [q EXCEPT !.step = s]), q.step = "check"
        PROVE  \E m \in Doing : /\ Moved(r, m) /\ (m.step \in Known => m.id \in 1 .. given)
                                /\ m.step \in {"free", "remember", "write", "remove"}
    <3>1. PICK m : m = [q EXCEPT !.step = s]
      OBVIOUS
    <3>2. m \in Visiting /\ m.id = q.id /\ m.step = s
      BY <3>1 DEF Visiting
    <3>3. q.id \in 1 .. given
      BY <1>1, <2>3 DEF AccountInv, IdsFit, Known
    <3>4. m \in Doing /\ m.step \in {"free", "remember", "write", "remove"}
      BY <3>2, StepsOfRequests
    <3> QED
      BY <2>3, <3>1, <3>2, <3>3, <3>4
  <2> QED
    BY <1>2, <2>1, <2>2, <2>3
<1> QED
  BY <1>1, <1>2, <1>3, CachesStay, MovingKeeps

LEMMA ReadingKeeps ==
    ASSUME AccountInv, NEW r \in Request,
           ReadPhoto(r) \/ \E w \in Worker : LoginRead(r, w) \/ DeleteRead(r, w)
    PROVE  AccountInv'
<1>1. PICK p \in Photo, i \in 0 .. given : p = user.photo /\ i = user.id
  BY CachesStay
<1>2. UNCHANGED <<now, user, given, firebase, files, lists, cache, gone, answered, orphans, revived, crowded>>
  BY DEF ReadPhoto, LoginRead, DeleteRead
<1>3. CASE ReadPhoto(r)
  <2>1. PICK q \in Visiting : q = request[r] /\ q.step = "check" /\ q.op = "upload"
    BY <1>3, CachesStay, RequestKinds DEF ReadPhoto
  <2>2. PICK m : m = [step |-> "put", op |-> "upload", worker |-> q.worker, id |-> q.id,
                      item |-> q.item, photo |-> p]
    OBVIOUS
  <2>3. m \in Uploading /\ m.step = "put" /\ m.id = q.id
    <3>1. q.worker \in Worker /\ q.id \in Nat /\ q.item \in Pictures
      BY <2>1 DEF Visiting
    <3> QED
      BY <2>2, <3>1 DEF Uploading
  <2>4. q.id \in 1 .. given
    BY <2>1 DEF AccountInv, IdsFit, Known
  <2>5. Moved(r, m) \/ Moved(r, Free)
    BY <1>1, <1>3, <2>1, <2>2 DEF ReadPhoto, Done
  <2> QED
    BY <1>2, <2>1, <2>3, <2>4, <2>5, CachesStay, StepsOfRequests, MovingKeeps DEF Known
<1>4. ASSUME NEW w \in Worker, LoginRead(r, w) PROVE AccountInv'
  <2>1. PICK pic \in {"none", "google"} :
            Moved(r, [step |-> "login", op |-> "login", worker |-> w, id |-> i, photo |-> p, item |-> pic])
    BY <1>1, <1>4 DEF LoginRead
  <2>2. PICK m : m = [step |-> "login", op |-> "login", worker |-> w, id |-> i, photo |-> p, item |-> pic]
    OBVIOUS
  <2>3. m \in SigningIn /\ m.step = "login"
    BY <2>2, CachesStay DEF SigningIn
  <2>4. request[r].step = "free"
    BY <1>4, StepsOfRequests DEF LoginRead
  <2> QED
    BY <1>2, <2>1, <2>2, <2>3, <2>4, CachesStay, StepsOfRequests, MovingKeeps DEF Known
<1>5. ASSUME NEW w \in Worker, DeleteRead(r, w) PROVE AccountInv'
  <2>1. PICK m : m = [step |-> IF i = 0 THEN "identity" ELSE "commit", op |-> "delete",
                      worker |-> w, id |-> i, photo |-> p]
    OBVIOUS
  <2>2. /\ m \in Deleting /\ m.step \in {"identity", "commit"}
        /\ m.step \in Known => m.id \in 1 .. given
    BY <2>1, CachesStay DEF Deleting, Known
  <2>3. request[r].step = "free" /\ Moved(r, m)
    BY <1>1, <1>5, <2>1, StepsOfRequests DEF DeleteRead
  <2> QED
    BY <1>2, <2>2, <2>3, CachesStay, StepsOfRequests, MovingKeeps
<1> QED
  BY <1>3, <1>4, <1>5

LEMMA PutKeeps ==
    ASSUME AccountInv, NEW r \in Request, Put(r)
    PROVE  AccountInv'
<1>1. PICK q \in Uploading : q = request[r] /\ q.step = "put"
  BY CachesStay, RequestKinds DEF Put
<1>2. PICK m : m = [q EXCEPT !.step = "save"]
  OBVIOUS
<1>3. m \in Uploading /\ m.step = "save" /\ m.id = q.id /\ m.item = q.item
  BY <1>2 DEF Uploading
<1>4. /\ UNCHANGED <<now, user, given, firebase, lists, cache, gone, answered, orphans, revived, crowded>>
      /\ \/ Moved(r, m) /\ files' = files \cup {File(q.id, q.item)}
         \/ Moved(r, Free) /\ files' = files
  BY <1>1, <1>2 DEF Put, Step, Done
<1>5. CASE Moved(r, Free) /\ files' = files
  BY <1>1, <1>4, <1>5, CachesStay, StepsOfRequests, MovingKeeps DEF Known
<1>6. CASE Moved(r, m) /\ files' = files \cup {File(q.id, q.item)}
  <2>1. /\ request' \in [Request -> Doing] /\ request'[r] = m
        /\ \A x \in Request : x # r => request'[x] = request[x]
    BY <1>3, <1>6, MoveOf, StepsOfRequests, CachesStay
  <2>2. q.id \in 1 .. given
    BY <1>1 DEF AccountInv, IdsFit, Known
  <2>3. AccountTypeOK'
    BY <1>4, <2>1 DEF AccountInv, AccountTypeOK
  <2>4. IdsFit'
    BY <1>3, <1>4, <1>6, <2>1, <2>2, FilesDiffer DEF AccountInv, IdsFit
  <2>5. EntriesLapse'
    BY <1>4 DEF AccountInv, EntriesLapse
  <2>6. FilesOwned'
    <3> SUFFICES ASSUME NEW f \in files', f \notin orphans, f # File(user.id, user.photo)
                 PROVE  \E x \in Request : Holds(request'[x], f)
      BY <1>4 DEF FilesOwned, File
    <3>1. CASE f = File(q.id, q.item)
      BY <1>3, <2>1, <3>1 DEF Holds
    <3>2. CASE f \in files
      <4>1. PICK x \in Request : Holds(request[x], f)
        BY <3>2 DEF AccountInv, FilesOwned
      <4>2. x # r
        BY <1>1, <4>1 DEF Holds
      <4> QED
        BY <2>1, <4>1, <4>2
    <3> QED
      BY <1>6, <3>1, <3>2
  <2>7. PhotosKept'
    BY <1>3, <1>4, <1>6, <2>1 DEF AccountInv, PhotosKept, File
  <2>8. TopicsWithinLimit'
    BY <1>4 DEF AccountInv, TopicsWithinLimit, Topics
  <2> QED
    BY <2>3, <2>4, <2>5, <2>6, <2>7, <2>8 DEF AccountInv
<1> QED
  BY <1>4, <1>5, <1>6

LEMMA IdentityKeeps ==
    ASSUME AccountInv, NEW r \in Request, DropIdentity(r)
    PROVE  AccountInv'
<1>1. /\ UNCHANGED <<now, user, given, files, lists, cache, gone, orphans, revived, crowded>>
      /\ request[r].step = "identity" /\ Moved(r, Free)
      /\ \/ firebase' = FALSE /\ answered' = answered \cup DOMAIN gone
         \/ firebase' = firebase /\ answered' = answered
  BY DEF DropIdentity, Done
<1>2. answered' \subseteq DOMAIN gone /\ (answered' # {} => ~firebase')
  BY <1>1, CachesStay
<1> QED
  BY <1>1, <1>2, CachesStay, StepsOfRequests, MovingKeeps DEF Known

LEMMA TickKeeps ==
    ASSUME AccountInv, Tick
    PROVE  AccountInv'
<1>1. /\ now' = now + 1 /\ now \in Nat /\ Ttl \in Nat
      /\ UNCHANGED <<user, given, firebase, files, lists, cache, request, gone, answered, orphans,
                     revived, crowded>>
  BY CachesStay, AccountAssumption DEF Tick
<1>2. AccountTypeOK' /\ IdsFit'
  BY <1>1 DEF AccountInv, AccountTypeOK, IdsFit
<1>3. EntriesLapse'
  <2> SUFFICES ASSUME NEW w \in Worker, NEW t \in Token, cache[w][t] # Absent
               PROVE  cache[w][t].until <= now' + Ttl
    BY <1>1 DEF AccountInv, EntriesLapse
  <2>1. PICK e \in CacheEntry : e = cache[w][t]
    BY CachesStay
  <2>2. e.until \in Nat /\ e.until <= now + Ttl
    BY <2>1 DEF AccountInv, EntriesLapse, CacheEntry
  <2> QED
    BY <1>1, <2>1, <2>2
<1>4. FilesOwned' /\ PhotosKept' /\ TopicsWithinLimit'
  BY <1>1 DEF AccountInv, FilesOwned, PhotosKept, TopicsWithinLimit, Topics, File
<1> QED
  BY <1>2, <1>3, <1>4 DEF AccountInv

-----------------------------------------------------------------------------
(* Remembering and losing tokens.                                          *)

LEMMA RoomKeeps ==
    ASSUME NEW entries \in [Token -> CacheEntry]
    PROVE  /\ Room(entries) \in [Token -> CacheEntry]
           /\ \A t \in Token : Room(entries)[t] \in {entries[t], Absent}
  BY DEF Room, Absent, CacheEntry

LEMMA RememberingKeeps ==
    ASSUME AccountInv, NEW r \in Request, Remember(r)
    PROVE  AccountInv'
<1>1. PICK q \in Visiting : q = request[r] /\ q.step = "remember"
  BY CachesStay, RequestKinds DEF Remember
<1>2. PICK m : m = [q EXCEPT !.step = "check"]
  OBVIOUS
<1>3. m \in Visiting /\ m.step = "check" /\ m.id = q.id
  BY <1>2 DEF Visiting
<1>4. q.id \in 1 .. given /\ q.worker \in Worker /\ q.token \in Token /\ q.id \in Nat
  BY <1>1 DEF AccountInv, IdsFit, Known, Visiting
<1>5. PICK old \in [Token -> CacheEntry] : old = Room(cache[q.worker])
  BY <1>4, CachesStay, RoomKeeps
<1>6. \A t \in Token : old[t] \in {cache[q.worker][t], Absent}
  BY <1>4, <1>5, CachesStay, RoomKeeps
<1>7. PICK e \in CacheEntry : e = [id |-> q.id, until |-> now + Ttl]
  <2>1. now + Ttl \in Nat
    BY CachesStay, AccountAssumption
  <2> QED
    BY <1>4, <2>1 DEF CacheEntry
<1>8. /\ UNCHANGED <<now, user, given, firebase, files, lists, answered, orphans, revived, crowded>>
      /\ cache' = [cache EXCEPT ![q.worker] = [old EXCEPT ![q.token] = e]]
      /\ Moved(r, m)
      /\ gone' = IF q.id \in DOMAIN gone THEN [gone EXCEPT ![q.id] = [@ EXCEPT !.late = TRUE]] ELSE gone
  BY <1>1, <1>2, <1>5, <1>7 DEF Remember, Step
<1>9. /\ request' \in [Request -> Doing] /\ request'[r] = m
      /\ \A x \in Request : x # r => request'[x] = request[x]
  BY <1>3, <1>8, MoveOf, StepsOfRequests, CachesStay
<1>10. gone \in [DOMAIN gone -> Deletion]
  BY DEF AccountInv, AccountTypeOK
<1>11. /\ DOMAIN gone' = DOMAIN gone /\ gone' \in [DOMAIN gone -> Deletion]
       /\ q.id \in DOMAIN gone => gone'[q.id].late
       /\ \A i \in DOMAIN gone : i # q.id => gone'[i] = gone[i]
  <2>1. CASE q.id \in DOMAIN gone
    <3>1. PICK d \in Deletion : d = gone[q.id]
      BY <1>10, <2>1
    <3>2. PICK n : n = [d EXCEPT !.late = TRUE]
      OBVIOUS
    <3>3. n \in Deletion /\ n.late = TRUE
      BY <3>2 DEF Deletion
    <3>4. gone' = [gone EXCEPT ![q.id] = n]
      BY <1>8, <2>1, <3>1, <3>2
    <3> QED
      BY <1>10, <2>1, <3>3, <3>4
  <2> QED
    BY <1>8, <1>10, <2>1
<1>12. AccountTypeOK'
  <2>1. cache' \in [Worker -> [Token -> CacheEntry]]
    BY <1>4, <1>5, <1>7, <1>8, CachesStay
  <2> QED
    BY <1>8, <1>9, <1>11, <2>1 DEF AccountInv, AccountTypeOK
<1>13. IdsFit'
  BY <1>3, <1>4, <1>8, <1>9, <1>11 DEF AccountInv, IdsFit, Known
<1>14. EntriesLapse'
  <2> SUFFICES ASSUME NEW w \in Worker, NEW t \in Token, cache'[w][t] # Absent
               PROVE  LET c == cache'[w][t] IN
                      /\ c.id \in 1 .. given /\ c.until <= now + Ttl
                      /\ c.id \in DOMAIN gone =>
                             \/ gone'[c.id].late
                             \/ c.until <= gone'[c.id].at + Ttl /\ (gone'[c.id].by = w => ~gone'[c.id].dropped)
    BY <1>8, <1>11 DEF EntriesLapse
  <2>1. CASE w = q.worker /\ t = q.token
    <3>1. cache'[w][t] = e
      BY <1>4, <1>8, <2>1, CachesStay
    <3>2. e.id = q.id /\ e.until <= now + Ttl
      BY <1>7, CachesStay, AccountAssumption
    <3> QED
      BY <1>4, <1>11, <3>1, <3>2
  <2>2. CASE ~(w = q.worker /\ t = q.token)
    <3>1. cache'[w][t] = cache[w][t]
      BY <1>4, <1>6, <1>8, <2>2, CachesStay
    <3> QED
      BY <1>11, <3>1 DEF AccountInv, EntriesLapse
  <2> QED
    BY <2>1, <2>2
<1>15. FilesOwned'
  <2> SUFFICES ASSUME NEW f \in files, f \notin orphans, f # File(user.id, user.photo)
               PROVE  \E x \in Request : Holds(request'[x], f)
    BY <1>8 DEF FilesOwned, File
  <2>1. PICK x \in Request : Holds(request[x], f)
    BY DEF AccountInv, FilesOwned
  <2>2. x # r
    BY <1>1, <2>1 DEF Holds
  <2> QED
    BY <1>9, <2>1, <2>2
<1>16. PhotosKept' /\ TopicsWithinLimit'
  BY <1>3, <1>8, <1>9 DEF AccountInv, PhotosKept, File, TopicsWithinLimit, Topics
<1> QED
  BY <1>12, <1>13, <1>14, <1>15, <1>16 DEF AccountInv

LEMMA RestartKeeps ==
    ASSUME AccountInv, NEW w \in Worker, Restart(w)
    PROVE  AccountInv'
<1> DEFINE Mine == {r \in Request : request[r] # Free /\ request[r].worker = w}
<1>1. /\ UNCHANGED <<now, user, given, firebase, files, lists, gone, answered, revived, crowded>>
      /\ cache' = [cache EXCEPT ![w] = [t \in Token |-> Absent]]
      /\ request' = [r \in Request |-> IF r \in Mine THEN Free ELSE request[r]]
  BY DEF Restart
<1>2. /\ orphans \subseteq orphans'
      /\ \A r \in Mine : \A f : Holds(request[r], f) => f \in orphans'
  BY DEF Restart, Holds
<1>3. request' \in [Request -> Doing] /\ \A r \in Request : request'[r] \in {Free, request[r]}
  BY <1>1, CachesStay, StepsOfRequests
<1>4. \A r \in Request : request'[r].step \in Known => request'[r] = request[r]
  BY <1>3, StepsOfRequests DEF Known
<1>5. /\ cache' \in [Worker -> [Token -> CacheEntry]]
      /\ \A x \in Worker, t \in Token : cache'[x][t] \in {cache[x][t], Absent}
  <2>1. Absent \in CacheEntry
    BY DEF Absent, CacheEntry
  <2> QED
    BY <1>1, <2>1, CachesStay
<1>6. AccountTypeOK'
  BY <1>1, <1>3, <1>5 DEF AccountInv, AccountTypeOK
<1>7. IdsFit'
  BY <1>1, <1>4 DEF AccountInv, IdsFit, Known
<1>8. EntriesLapse'
  BY <1>1, <1>5 DEF AccountInv, EntriesLapse
<1>9. FilesOwned'
  <2> SUFFICES ASSUME NEW f \in files, f \notin orphans', f # File(user.id, user.photo)
               PROVE  \E x \in Request : Holds(request'[x], f)
    BY <1>1 DEF FilesOwned, File
  <2>1. PICK x \in Request : Holds(request[x], f)
    BY <1>2 DEF AccountInv, FilesOwned
  <2>2. x \notin Mine
    BY <1>2, <2>1
  <2> QED
    BY <1>1, <2>1, <2>2
<1>10. PhotosKept'
  BY <1>1, <1>4 DEF AccountInv, PhotosKept, File, Known
<1>11. TopicsWithinLimit'
  BY <1>1 DEF AccountInv, TopicsWithinLimit, Topics
<1> QED
  BY <1>6, <1>7, <1>8, <1>9, <1>10, <1>11 DEF AccountInv

-----------------------------------------------------------------------------
(* The lists.                                                              *)

LEMMA ListsKeep ==
    ASSUME AccountInv, NEW r \in Request, Moved(r, Free), request[r].step \in {"check", "write", "remove"},
           UNCHANGED <<now, user, given, firebase, files, cache, gone, answered, orphans, revived>>,
           IsFiniteSet(lists'), TopicsWithinLimit',
           \A x \in lists' : x \in lists \/ (x.of \in 1 .. given /\ (x.kind # "report" => x.of = user.id))
    PROVE  AccountInv'
<1>1. /\ request' \in [Request -> Doing] /\ request'[r] = Free /\ Free.step = "free"
      /\ \A x \in Request : x # r => request'[x] = request[x]
  BY CachesStay, StepsOfRequests, MoveOf
<1>2. AccountTypeOK'
  BY <1>1 DEF AccountInv, AccountTypeOK
<1>3. IdsFit'
  BY <1>1 DEF AccountInv, IdsFit, Known
<1>4. EntriesLapse'
  BY DEF AccountInv, EntriesLapse
<1>5. FilesOwned'
  <2> SUFFICES ASSUME NEW f \in files, f \notin orphans, f # File(user.id, user.photo)
               PROVE  \E x \in Request : Holds(request'[x], f)
    BY DEF FilesOwned, File
  <2>1. PICK x \in Request : Holds(request[x], f)
    BY DEF AccountInv, FilesOwned
  <2>2. x # r
    BY <2>1 DEF Holds
  <2> QED
    BY <1>1, <2>1, <2>2
<1>6. PhotosKept'
  BY <1>1 DEF AccountInv, PhotosKept, File
<1> QED
  BY <1>2, <1>3, <1>4, <1>5, <1>6 DEF AccountInv

LEMMA FewerTopics ==
    ASSUME AccountInv, IsFiniteSet(lists), lists' \subseteq lists, given' = given, crowded' = crowded
    PROVE  IsFiniteSet(lists') /\ TopicsWithinLimit'
<1>1. IsFiniteSet(lists')
  BY FS_Subset
<1>2. ASSUME ~crowded, NEW id \in 1 .. given
      PROVE  Cardinality({x \in lists' : x.of = id /\ x.kind = "topic"}) <= Limit
  <2> DEFINE Old == {x \in lists : x.of = id /\ x.kind = "topic"}
             New == {x \in lists' : x.of = id /\ x.kind = "topic"}
  <2>1. IsFiniteSet(Old) /\ New \subseteq Old
    BY FS_Subset
  <2>2. IsFiniteSet(New) /\ Cardinality(New) <= Cardinality(Old) /\ Cardinality(New) \in Nat /\ Cardinality(Old) \in Nat
    BY <2>1, FS_Subset, FS_CardinalityType
  <2>3. Cardinality(Old) <= Limit
    BY <1>2 DEF AccountInv, TopicsWithinLimit, Topics
  <2> QED
    BY <2>2, <2>3, AccountAssumption
<1> QED
  BY <1>1, <1>2 DEF TopicsWithinLimit, Topics

LEMMA RemovingKeeps ==
    ASSUME AccountInv, NEW r \in Request, NEW k,
           \/ DeleteRow(r, k, "remove") \/ DeleteRow(r, k, "check") \/ DeleteAll(r, k)
    PROVE  AccountInv'
<1>1. /\ Moved(r, Free) /\ request[r].step \in {"check", "remove"} /\ lists' \subseteq lists
      /\ UNCHANGED <<now, user, given, firebase, files, cache, gone, answered, orphans, revived, crowded>>
  BY DEF DeleteRow, DeleteAll, Done
<1>2. IsFiniteSet(lists') /\ TopicsWithinLimit'
  BY <1>1, FewerTopics DEF AccountInv, AccountTypeOK
<1> QED
  BY <1>1, <1>2, ListsKeep

LEMMA InsertingKeeps ==
    ASSUME AccountInv, NEW r \in Request, NEW k \in Adds, Insert(r, k),
           IF k = "topic" THEN crowded' = (crowded \/ ~UnderLimit(request[r].id)) ELSE crowded' = crowded
    PROVE  AccountInv'
<1>1. PICK q \in Visiting : q = request[r] /\ q.step = "write"
  BY CachesStay, RequestKinds DEF Insert
<1>2. PICK row : row = Row(q, k)
  OBVIOUS
<1>3. row.of = q.id /\ row.kind = k
  BY <1>2 DEF Row
<1>4. q.id \in 1 .. given
  BY <1>1 DEF AccountInv, IdsFit, Known
<1>5. /\ Moved(r, Free)
      /\ lists' = IF user.id = q.id \/ k = "report" THEN lists \cup {row} ELSE lists
      /\ UNCHANGED <<now, user, given, firebase, files, cache, gone, answered, orphans, revived>>
  BY <1>1, <1>2 DEF Insert, Done
<1>6. IsFiniteSet(lists) /\ IsFiniteSet(lists')
  BY <1>5, FS_AddElement DEF AccountInv, AccountTypeOK
<1>7. TopicsWithinLimit'
  <2> SUFFICES ASSUME ~crowded', NEW id \in 1 .. given
               PROVE  Cardinality({x \in lists' : x.of = id /\ x.kind = "topic"}) <= Limit
    BY <1>5 DEF TopicsWithinLimit, Topics
  <2> DEFINE Old == {x \in lists : x.of = id /\ x.kind = "topic"}
             New == {x \in lists' : x.of = id /\ x.kind = "topic"}
  <2>1. IsFiniteSet(Old) /\ Cardinality(Old) \in Nat
    BY <1>6, FS_Subset, FS_CardinalityType
  <2>2. ~crowded
    OBVIOUS
  <2>3. Cardinality(Old) <= Limit
    BY <2>2 DEF AccountInv, TopicsWithinLimit, Topics
  <2>4. CASE New = Old
    BY <2>3, <2>4
  <2>5. CASE New # Old
    <3>1. New = Old \cup {row} /\ id = q.id /\ k = "topic"
      BY <1>3, <1>5, <2>5
    <3>2. Cardinality(Old) < Limit
      BY <1>1, <3>1 DEF UnderLimit, Topics
    <3>3. Cardinality(New) <= Cardinality(Old) + 1
      <4> HIDE DEF Old, New
      <4>1. Cardinality(Old \cup {row}) = Cardinality(Old) \/ Cardinality(Old \cup {row}) = Cardinality(Old) + 1
        BY <2>1, FS_AddElement
      <4>2. Cardinality(New) = Cardinality(Old) \/ Cardinality(New) = Cardinality(Old) + 1
        BY <3>1, <4>1
      <4> QED
        BY <2>1, <4>2
    <3>4. Cardinality(New) \in Nat
      <4> HIDE DEF Old, New
      <4> QED
        BY <2>1, <3>1, FS_AddElement, FS_CardinalityType
    <3> QED
      BY <2>1, <3>2, <3>3, <3>4, AccountAssumption
  <2> QED
    BY <2>4, <2>5
<1>8. \A x \in lists' : x \in lists \/ (x.of \in 1 .. given /\ (x.kind # "report" => x.of = user.id))
  BY <1>3, <1>4, <1>5
<1> QED
  BY <1>1, <1>5, <1>6, <1>7, <1>8, ListsKeep

-----------------------------------------------------------------------------
(* The photo.                                                              *)

LEMMA SavingKeeps ==
    ASSUME AccountInv, NEW r \in Request, SavePhoto(r)
    PROVE  AccountInv'
<1>1. PICK q \in Uploading : q = request[r] /\ q.step = "save"
  BY CachesStay, RequestKinds DEF SavePhoto
<1>2. q.id \in 1 .. given /\ q.item \in Pictures /\ q.photo \in Photo
  BY <1>1 DEF AccountInv, IdsFit, Known, Uploading
<1>3. PICK u \in User : u = user
  BY CachesStay
<1>4. PICK d : d = [q EXCEPT !.step = "drop"]
  OBVIOUS
<1>5. d \in Uploading /\ d.step = "drop" /\ d.id = q.id /\ d.photo = q.photo
  BY <1>4 DEF Uploading
<1>6. PICK n : n = [u EXCEPT !.photo = q.item]
  OBVIOUS
<1>7. n \in User /\ n.id = u.id /\ n.photo = q.item
  BY <1>2, <1>6 DEF User, Photo
<1>8. /\ UNCHANGED <<now, given, firebase, files, lists, cache, gone, answered, crowded>>
      /\ revived' = (revived \/ Removing(File(q.id, q.item), r))
      /\ orphans \subseteq orphans'
  BY <1>1 DEF SavePhoto
<1>9. \/ /\ u.id = q.id /\ q.item # q.photo /\ user' = n /\ Moved(r, d)
         /\ u.photo \in {q.item, q.photo} \/ File(q.id, u.photo) \in orphans'
      \/ /\ user' = u /\ Moved(r, Free)
         /\ (u.id = q.id /\ u.photo = q.item) \/ File(q.id, q.item) \in orphans'
  <2>1. CASE u.id = q.id /\ q.item # q.photo
    <3>1. user' = n /\ Moved(r, d)
      BY <1>1, <1>3, <1>4, <1>6, <2>1 DEF SavePhoto, Overwritten, Replaced, Step
    <3>2. orphans' = orphans \cup {File(q.id, p) : p \in {u.photo, q.item} \ ({q.item} \cup {q.photo})}
      BY <1>1, <1>3, <1>7, <2>1, <3>1 DEF SavePhoto, Replaced
    <3> QED
      BY <2>1, <3>1, <3>2
  <2>2. CASE u.id = q.id /\ q.item = q.photo
    <3>1. user' = u /\ Moved(r, Free)
      BY <1>1, <1>3, <2>2 DEF SavePhoto, Overwritten, Replaced, Done
    <3>2. orphans' = orphans \cup {File(q.id, p) : p \in {u.photo, q.item} \ {u.photo}}
      BY <1>1, <1>3, <2>2, <3>1 DEF SavePhoto, Replaced
    <3> QED
      BY <2>2, <3>1, <3>2
  <2>3. CASE u.id # q.id
    BY <1>1, <1>3, <2>3 DEF SavePhoto, Done
  <2> QED
    BY <2>1, <2>2, <2>3
<1>10. PICK m \in {d, Free} : Moved(r, m)
  BY <1>9
<1>11. m \in Doing
  BY <1>5, <1>10, StepsOfRequests
<1>12. /\ request' \in [Request -> Doing] /\ request'[r] = m
       /\ \A x \in Request : x # r => request'[x] = request[x]
  BY <1>10, <1>11, MoveOf, CachesStay
<1>13. Free.step = "free" /\ Free # d
  BY <1>5, StepsOfRequests
<1>14. user' \in User /\ user'.id = u.id
  BY <1>7, <1>9
<1>15. AccountTypeOK'
  BY <1>8, <1>12, <1>14 DEF AccountInv, AccountTypeOK
<1>16. IdsFit'
  BY <1>2, <1>3, <1>5, <1>8, <1>10, <1>12, <1>13, <1>14 DEF AccountInv, IdsFit, Known
<1>17. EntriesLapse'
  BY <1>8 DEF AccountInv, EntriesLapse
<1>18. FilesOwned'
  <2> SUFFICES ASSUME NEW f \in files, f \notin orphans', f # File(u.id, user'.photo)
               PROVE  \E x \in Request : Holds(request'[x], f)
    BY <1>8, <1>14 DEF FilesOwned, File
  <2>1. \/ f = File(u.id, u.photo) \/ \E x \in Request : Holds(request[x], f)
    BY <1>3, <1>8 DEF AccountInv, FilesOwned
  <2>2. CASE f = File(u.id, u.photo)
    <3>1. user' = n /\ Moved(r, d) /\ u.id = q.id
      BY <1>9, <2>2
    <3>2. f = File(q.id, q.photo)
      BY <1>7, <1>9, <2>2, <3>1
    <3>3. request'[r] = d
      BY <1>5, <3>1, MoveOf, CachesStay, StepsOfRequests
    <3> QED
      BY <1>5, <3>2, <3>3 DEF Holds
  <2>3. ASSUME NEW x \in Request, Holds(request[x], f) PROVE \E y \in Request : Holds(request'[y], f)
    <3>1. CASE x # r
      BY <1>12, <2>3, <3>1
    <3>2. CASE x = r
      <4>1. f = File(q.id, q.item)
        BY <1>1, <2>3, <3>2 DEF Holds
      <4> QED
        BY <1>7, <1>9, <4>1
    <3> QED
      BY <3>1, <3>2
  <2> QED
    BY <2>1, <2>2, <2>3
<1>19. PhotosKept'
  <2> SUFFICES ASSUME ~revived', ~revived, ~Removing(File(q.id, q.item), r)
               PROVE  /\ user'.photo \in Pictures => File(user'.id, user'.photo) \in files
                      /\ \A x \in Request : request'[x].step = "save" /\ request'[x].id = user'.id =>
                             File(request'[x].id, request'[x].item) \in files
                      /\ \A x \in Request : request'[x].step = "drop" /\ request'[x].id = user'.id
                                            /\ user'.photo \in Pictures =>
                             request'[x].photo # user'.photo
    BY <1>8 DEF PhotosKept, File
  <2>1. /\ u.photo \in Pictures => File(u.id, u.photo) \in files
        /\ \A x \in Request : request[x].step = "save" /\ request[x].id = u.id =>
               File(request[x].id, request[x].item) \in files
        /\ \A x \in Request : request[x].step = "drop" /\ request[x].id = u.id /\ u.photo \in Pictures =>
               request[x].photo # u.photo
    BY <1>3 DEF AccountInv, PhotosKept
  <2>2. user'.photo \in Pictures => File(user'.id, user'.photo) \in files
    BY <1>1, <1>7, <1>9, <1>14, <2>1
  <2>3. \A x \in Request : request'[x].step = "save" /\ request'[x].id = user'.id =>
            File(request'[x].id, request'[x].item) \in files
    BY <1>5, <1>10, <1>12, <1>13, <1>14, <2>1
  <2>4. ASSUME NEW x \in Request, request'[x].step = "drop", request'[x].id = user'.id, user'.photo \in Pictures
        PROVE  request'[x].photo # user'.photo
    <3>1. CASE x = r
      <4>1. m = d
        BY <1>10, <1>12, <1>13, <2>4, <3>1
      <4>2. user' = n /\ q.item # q.photo
        BY <1>5, <1>9, <1>12, <1>13, <4>1, MoveOf, CachesStay, StepsOfRequests
      <4> QED
        BY <1>5, <1>7, <1>12, <3>1, <4>1, <4>2
    <3>2. CASE x # r /\ user' = u
      BY <1>12, <1>14, <2>1, <2>4, <3>2
    <3>3. CASE x # r /\ user' = n /\ u.id = q.id
      BY <1>7, <1>12, <2>4, <3>3 DEF Removing
    <3> QED
      BY <1>9, <3>1, <3>2, <3>3
  <2> QED
    BY <2>2, <2>3, <2>4
<1>20. TopicsWithinLimit'
  BY <1>8 DEF AccountInv, TopicsWithinLimit, Topics
<1> QED
  BY <1>15, <1>16, <1>17, <1>18, <1>19, <1>20 DEF AccountInv

LEMMA RemovalKeeps ==
    ASSUME AccountInv, NEW r \in Request, NEW m \in Doing, NEW q,
           q = request[r], q.step \in {"drop", "photo"},
           Moved(r, m), m.step \in {"free", "identity"}, Removed(File(q.id, q.photo)),
           UNCHANGED <<now, user, given, firebase, lists, cache, gone, answered, crowded>>,
           revived => revived',
           q.step = "drop" /\ Saving(File(q.id, q.photo), r) => revived'
    PROVE  AccountInv'
<1>1. /\ request' \in [Request -> Doing] /\ request'[r] = m
      /\ \A x \in Request : x # r => request'[x] = request[x]
  BY MoveOf, CachesStay
<1>2. PICK f0 : f0 = File(q.id, q.photo)
  OBVIOUS
<1>3. /\ files' \subseteq files /\ orphans \subseteq orphans'
      /\ \A f \in files : f # f0 => f \in files'
      /\ \A f \in files' : f = f0 => f \in orphans'
  BY <1>2 DEF Removed
<1>4. AccountTypeOK'
  BY <1>1 DEF AccountInv, AccountTypeOK
<1>5. IdsFit'
  BY <1>1, <1>3 DEF AccountInv, IdsFit, Known
<1>6. EntriesLapse'
  BY DEF AccountInv, EntriesLapse
<1>7. FilesOwned'
  <2> SUFFICES ASSUME NEW f \in files', f \notin orphans', f # File(user.id, user.photo)
               PROVE  \E x \in Request : Holds(request'[x], f)
    BY DEF FilesOwned, File
  <2>1. PICK x \in Request : Holds(request[x], f)
    BY <1>3 DEF AccountInv, FilesOwned
  <2>2. x # r
    BY <1>2, <1>3, <2>1 DEF Holds
  <2> QED
    BY <1>1, <2>1, <2>2
<1>8. PhotosKept'
  <2> SUFFICES ASSUME ~revived'
               PROVE  /\ user.photo \in Pictures => File(user.id, user.photo) \in files'
                      /\ \A x \in Request : request'[x].step = "save" /\ request'[x].id = user.id =>
                             File(request'[x].id, request'[x].item) \in files'
                      /\ \A x \in Request : request'[x].step = "drop" /\ request'[x].id = user.id
                                            /\ user.photo \in Pictures =>
                             request'[x].photo # user.photo
    BY DEF PhotosKept, File
  <2>1. /\ user.photo \in Pictures => File(user.id, user.photo) \in files
        /\ \A x \in Request : request[x].step = "save" /\ request[x].id = user.id =>
               File(request[x].id, request[x].item) \in files
        /\ \A x \in Request : request[x].step = "drop" /\ request[x].id = user.id /\ user.photo \in Pictures =>
               request[x].photo # user.photo
    BY DEF AccountInv, PhotosKept
  <2>2. q.step = "photo" => q.id # user.id
    BY DEF AccountInv, IdsFit
  <2>3. user.photo \in Pictures => File(user.id, user.photo) # f0
    BY <1>2, <2>1, <2>2, FilesDiffer
  <2>4. \A x \in Request : request'[x].step = "save" => x # r /\ request'[x] = request[x]
    BY <1>1
  <2>5. ASSUME NEW x \in Request, x # r, request[x].step = "save", request[x].id = user.id
        PROVE  File(request[x].id, request[x].item) # f0
    BY <1>2, <2>2, <2>5, FilesDiffer DEF Saving
  <2>6. \A x \in Request : request'[x].step = "drop" => request'[x] = request[x]
    BY <1>1
  <2> QED
    BY <1>3, <2>1, <2>3, <2>4, <2>5, <2>6
<1>9. TopicsWithinLimit'
  BY DEF AccountInv, TopicsWithinLimit, Topics
<1> QED
  BY <1>4, <1>5, <1>6, <1>7, <1>8, <1>9 DEF AccountInv

LEMMA DroppingKeeps ==
    ASSUME AccountInv, NEW r \in Request, DropOld(r) \/ DropPhoto(r)
    PROVE  AccountInv'
<1>1. PICK q \in Doing : q = request[r]
  BY CachesStay
<1>2. CASE DropOld(r)
  <2>1. /\ q.step = "drop" /\ Removed(File(q.id, q.photo)) /\ Moved(r, Free)
        /\ revived' = (revived \/ Saving(File(q.id, q.photo), r))
        /\ UNCHANGED <<now, user, given, firebase, lists, cache, gone, answered, crowded>>
    BY <1>1, <1>2 DEF DropOld, Done
  <2>2. (revived => revived') /\ (Saving(File(q.id, q.photo), r) => revived')
    BY <2>1
  <2> QED
    BY <1>1, <2>1, <2>2, StepsOfRequests, RemovalKeeps
<1>3. CASE DropPhoto(r)
  <2>1. q.step = "photo" /\ q \in Deleting
    BY <1>1, <1>3, CachesStay, RequestKinds DEF DropPhoto
  <2>2. PICK m : m = [q EXCEPT !.step = "identity"]
    OBVIOUS
  <2>3. m \in Deleting /\ m.step = "identity"
    BY <2>1, <2>2 DEF Deleting
  <2>4. /\ Removed(File(q.id, q.photo)) /\ Moved(r, m)
        /\ UNCHANGED <<now, user, given, firebase, lists, cache, gone, answered, revived, crowded>>
    BY <1>1, <1>3, <2>2 DEF DropPhoto, Step
  <2> QED
    BY <1>1, <2>1, <2>3, <2>4, StepsOfRequests, RemovalKeeps
<1> QED
  BY <1>2, <1>3

-----------------------------------------------------------------------------
(* Signing in.                                                             *)

LEMMA SigningInKeeps ==
    ASSUME AccountInv, NEW r \in Request, LoginCommit(r)
    PROVE  AccountInv'
<1>1. PICK q \in SigningIn : q = request[r] /\ q.step = "login"
  BY CachesStay, RequestKinds DEF LoginCommit
<1>2. PICK u \in User, g \in Nat : u = user /\ g = given /\ u.id \in 0 .. g
  BY CachesStay
<1>3. PICK n : n = [id |-> g + 1, photo |-> q.item]
  OBVIOUS
<1>4. n \in User /\ n.id = g + 1 /\ n.photo \notin Pictures
  BY <1>1, <1>2, <1>3 DEF User, Photo, SigningIn, Pictures
<1>5. PICK s : s = SignedIn(q)
  OBVIOUS
<1>6. /\ s \in User /\ s.id = u.id
      /\ s = u \/ s.photo \notin Pictures
  <2>1. q.item \in {"none", "google"}
    BY <1>1 DEF SigningIn
  <2>2. PICK v : v = [u EXCEPT !.photo = q.item]
    OBVIOUS
  <2>3. v \in User /\ v.id = u.id /\ v.photo = q.item
    BY <2>1, <2>2 DEF User, Photo
  <2>4. s = u \/ s = v
    BY <1>2, <1>5, <2>2 DEF SignedIn
  <2> QED
    BY <2>1, <2>3, <2>4 DEF Pictures
<1>7. /\ UNCHANGED <<now, firebase, files, lists, cache, gone, answered, revived, crowded>>
      /\ Moved(r, Free)
      /\ user' = IF q.id = 0 /\ u.id = 0 THEN n ELSE IF q.id # 0 /\ u.id = q.id THEN s ELSE u
      /\ given' = IF user'.id > g THEN user'.id ELSE g
      /\ orphans' = IF u.id # 0 /\ user'.photo # u.photo THEN orphans \cup {File(u.id, u.photo)} ELSE orphans
  BY <1>1, <1>2, <1>3, <1>5 DEF LoginCommit, Done
<1>8. \/ u.id = 0 /\ user' = n /\ given' = g + 1
      \/ /\ user' \in User /\ user'.id = u.id /\ given' = g
         /\ user' = u \/ user'.photo \notin Pictures
  BY <1>2, <1>4, <1>6, <1>7
<1>9. /\ request' \in [Request -> Doing] /\ request'[r] = Free /\ Free.step = "free"
      /\ \A x \in Request : x # r => request'[x] = request[x]
  BY <1>7, CachesStay, StepsOfRequests, MoveOf
<1>10. \A x \in Request : request'[x].step # "free" => request'[x] = request[x]
  BY <1>9
<1>11. AccountTypeOK'
  BY <1>2, <1>4, <1>7, <1>8, <1>9 DEF AccountInv, AccountTypeOK
<1>12. IdsFit'
  <2>1. given' \in Nat /\ g <= given' /\ user'.id \in 0 .. given' /\ (user'.id = u.id \/ user'.id = g + 1)
    BY <1>2, <1>4, <1>8
  <2>2. DOMAIN gone' = (1 .. given') \ {user'.id}
    <3>1. DOMAIN gone = (1 .. g) \ {u.id}
      BY <1>2 DEF AccountInv, IdsFit
    <3> QED
      BY <1>2, <1>4, <1>7, <1>8, <3>1
  <2>3. \A x \in Request : request'[x].step \in Known => request'[x].id \in 1 .. g
    BY <1>2, <1>10 DEF AccountInv, IdsFit, Known
  <2>4. \A x \in Request : request'[x].step \in {"forget", "photo"} => request'[x].id # user'.id
    <3> SUFFICES ASSUME NEW x \in Request, request'[x].step \in {"forget", "photo"}
                 PROVE  request'[x].id # user'.id
      OBVIOUS
    <3>1. request'[x].id \in 1 .. g
      BY <2>3 DEF Known
    <3>2. request'[x].id # u.id
      BY <1>2, <1>10 DEF AccountInv, IdsFit
    <3> QED
      BY <1>2, <2>1, <3>1, <3>2
  <2>5. \A x \in lists : x.of \in 1 .. g /\ (x.kind # "report" => x.of = u.id)
    BY <1>2 DEF AccountInv, IdsFit
  <2>6. \A x \in lists : x.kind # "report" => x.of = user'.id
    BY <1>2, <1>8, <2>5
  <2>7. \A f \in files : f.of \in 1 .. g
    BY <1>2 DEF AccountInv, IdsFit
  <2>8. answered \subseteq DOMAIN gone /\ (answered # {} => ~firebase)
    BY CachesStay
  <2>9. 1 .. g \subseteq 1 .. given'
    BY <1>2, <2>1
  <2> QED
    BY <1>7, <2>1, <2>2, <2>3, <2>4, <2>5, <2>6, <2>7, <2>8, <2>9 DEF IdsFit
<1>13. EntriesLapse'
  <2>1. 1 .. given \subseteq 1 .. given'
    BY <1>2, <1>8
  <2> QED
    BY <1>7, <2>1 DEF AccountInv, EntriesLapse
<1>14. FilesOwned'
  <2> SUFFICES ASSUME NEW f \in files, f \notin orphans', f # File(user'.id, user'.photo)
               PROVE  \E x \in Request : Holds(request'[x], f)
    BY <1>7 DEF FilesOwned, File
  <2>1. f \notin orphans
    BY <1>7
  <2>2. f # File(u.id, u.photo)
    <3>1. f.of # 0
      BY <1>2 DEF AccountInv, IdsFit
    <3>2. CASE u.id = 0
      BY <3>1, <3>2, FilesDiffer
    <3>3. CASE u.id # 0
      BY <1>7, <1>8, <3>3, FilesDiffer
    <3> QED
      BY <3>2, <3>3
  <2>3. PICK x \in Request : Holds(request[x], f)
    BY <1>2, <2>1, <2>2 DEF AccountInv, FilesOwned
  <2>4. x # r
    BY <1>1, <2>3 DEF Holds
  <2> QED
    BY <1>9, <2>3, <2>4
<1>15. PhotosKept'
  <2> SUFFICES ASSUME ~revived
               PROVE  /\ user'.photo \in Pictures => File(user'.id, user'.photo) \in files
                      /\ \A x \in Request : request'[x].step = "save" /\ request'[x].id = user'.id =>
                             File(request'[x].id, request'[x].item) \in files
                      /\ \A x \in Request : request'[x].step = "drop" /\ request'[x].id = user'.id
                                            /\ user'.photo \in Pictures =>
                             request'[x].photo # user'.photo
    BY <1>7 DEF PhotosKept, File
  <2>1. /\ u.photo \in Pictures => File(u.id, u.photo) \in files
        /\ \A x \in Request : request[x].step = "save" /\ request[x].id = u.id =>
               File(request[x].id, request[x].item) \in files
        /\ \A x \in Request : request[x].step = "drop" /\ request[x].id = u.id /\ u.photo \in Pictures =>
               request[x].photo # u.photo
    BY <1>2 DEF AccountInv, PhotosKept
  <2>2. \A x \in Request : request[x].step \in {"save", "drop"} => request[x].id \in 1 .. g
    BY <1>2 DEF AccountInv, IdsFit, Known
  <2>3. \A x \in Request : request[x].step \in {"save", "drop"} => request[x].id # g + 1
    BY <1>2, <2>2
  <2>4. \A x \in Request : request'[x].step \in {"save", "drop"} => request'[x] = request[x]
    BY <1>10
  <2>5. user'.photo \in Pictures => user' = u
    BY <1>4, <1>8
  <2>6. user'.id = u.id \/ user'.id = g + 1
    BY <1>4, <1>8
  <2> QED
    BY <2>1, <2>3, <2>4, <2>5, <2>6
<1>16. TopicsWithinLimit'
  <2> SUFFICES ASSUME ~crowded, NEW id \in 1 .. given'
               PROVE  Cardinality({x \in lists : x.of = id /\ x.kind = "topic"}) <= Limit
    BY <1>7 DEF TopicsWithinLimit, Topics
  <2>1. CASE id \in 1 .. given
    BY <2>1 DEF AccountInv, TopicsWithinLimit, Topics
  <2>2. CASE id \notin 1 .. given
    <3>1. \A x \in lists : x.of # id
      BY <2>2 DEF AccountInv, IdsFit
    <3>2. {x \in lists : x.of = id /\ x.kind = "topic"} = {}
      BY <3>1
    <3>3. Cardinality({x \in lists : x.of = id /\ x.kind = "topic"}) = 0
      BY <3>2, FS_EmptySet
    <3> QED
      BY <3>3, AccountAssumption
  <2> QED
    BY <2>1, <2>2
<1> QED
  BY <1>11, <1>12, <1>13, <1>14, <1>15, <1>16 DEF AccountInv

-----------------------------------------------------------------------------
(* Deleting the account.                                                   *)

LEMMA DeletingKeeps ==
    ASSUME AccountInv, NEW r \in Request, DeleteCommit(r)
    PROVE  AccountInv'
<1>1. PICK q \in Deleting : q = request[r] /\ q.step = "commit"
  BY CachesStay, RequestKinds DEF DeleteCommit
<1>2. q.id \in 1 .. given /\ q.worker \in Worker /\ given \in Nat /\ now \in Nat
  BY <1>1, CachesStay DEF AccountInv, IdsFit, Known, Deleting
<1>3. PICK m : m = [q EXCEPT !.step = "forget"]
  OBVIOUS
<1>4. m \in Deleting /\ m.step = "forget" /\ m.id = q.id /\ m.photo = q.photo
  BY <1>3 DEF Deleting
<1>5. Moved(r, m) /\ UNCHANGED <<now, given, firebase, files, cache, answered, revived, crowded>>
  BY <1>1, <1>3 DEF DeleteCommit, Step
<1>6. /\ request' \in [Request -> Doing] /\ request'[r] = m
      /\ \A x \in Request : x # r => request'[x] = request[x]
  BY <1>4, <1>5, MoveOf, StepsOfRequests, CachesStay
<1>7. gone \in [DOMAIN gone -> Deletion] /\ DOMAIN gone = (1 .. given) \ {user.id} /\ IsFiniteSet(lists)
  BY DEF AccountInv, AccountTypeOK, IdsFit
<1>8. PICK d \in Deletion : d = [at |-> now, by |-> q.worker, dropped |-> FALSE, late |-> FALSE]
  BY <1>2 DEF Deletion
<1>9. \/ /\ user.id = q.id /\ user' = Nobody /\ lists' = lists \ Cascaded(q.id)
         /\ gone' = [i \in DOMAIN gone \cup {q.id} |-> IF i = q.id THEN d ELSE gone[i]]
         /\ orphans' = IF user.photo = q.photo THEN orphans ELSE orphans \cup {File(q.id, user.photo)}
      \/ user.id # q.id /\ UNCHANGED <<user, lists, gone, orphans>>
  BY <1>1, <1>8 DEF DeleteCommit
<1>10. Nobody \in User /\ Nobody.id = 0 /\ Nobody.photo \notin Pictures
  BY DEF Nobody, User, Photo, Pictures
<1>11. user' \in User /\ user'.id # q.id /\ user'.id <= given /\ (user'.id # user.id => user' = Nobody)
  BY <1>2, <1>9, <1>10 DEF AccountInv, AccountTypeOK, IdsFit
<1>12. /\ gone' \in [DOMAIN gone' -> Deletion] /\ DOMAIN gone' = (1 .. given) \ {user'.id}
       /\ \A i \in DOMAIN gone : i \in DOMAIN gone' /\ gone'[i] = gone[i]
       /\ \A i \in DOMAIN gone' : i \in DOMAIN gone \/ gone'[i] = d
  BY <1>2, <1>7, <1>9, <1>10
<1>13. lists' \subseteq lists /\ \A x \in lists' : x.kind # "report" => x.of = user'.id
  <2>1. \A x \in lists : x.kind # "report" => x.of = user.id
    BY DEF AccountInv, IdsFit
  <2> QED
    BY <1>9, <2>1 DEF Cascaded
<1>14. IsFiniteSet(lists') /\ TopicsWithinLimit'
  BY <1>5, <1>7, <1>13, FewerTopics
<1>15. AccountTypeOK'
  BY <1>5, <1>6, <1>11, <1>12, <1>14 DEF AccountInv, AccountTypeOK
<1>16. IdsFit'
  <2>1. \A x \in Request : request'[x].step \in Known => request'[x].id \in 1 .. given
    BY <1>2, <1>4, <1>6 DEF AccountInv, IdsFit
  <2>2. ASSUME NEW x \in Request, request'[x].step \in {"forget", "photo"} PROVE request'[x].id # user'.id
    <3>1. CASE x = r
      BY <1>4, <1>6, <1>11, <3>1
    <3>2. CASE x # r
      <4>1. request'[x].id # user.id /\ request'[x].id # 0
        BY <1>2, <1>6, <2>1, <2>2, <3>2 DEF AccountInv, IdsFit, Known
      <4> QED
        BY <1>10, <1>11, <4>1
    <3> QED
      BY <3>1, <3>2
  <2>3. \A x \in lists' : x.of \in 1 .. given
    BY <1>13 DEF AccountInv, IdsFit
  <2>4. answered \subseteq DOMAIN gone' /\ (answered # {} => ~firebase)
    BY <1>12, CachesStay
  <2>5. \A f \in files : f.of \in 1 .. given
    BY DEF AccountInv, IdsFit
  <2> QED
    BY <1>5, <1>11, <1>12, <1>13, <2>1, <2>2, <2>3, <2>4, <2>5 DEF IdsFit
<1>17. EntriesLapse'
  <2> SUFFICES ASSUME NEW w \in Worker, NEW t \in Token, cache[w][t] # Absent
               PROVE  LET c == cache[w][t] IN
                      /\ c.id \in 1 .. given /\ c.until <= now + Ttl
                      /\ c.id \in DOMAIN gone' =>
                             \/ gone'[c.id].late
                             \/ c.until <= gone'[c.id].at + Ttl /\ (gone'[c.id].by = w => ~gone'[c.id].dropped)
    BY <1>5 DEF EntriesLapse
  <2>1. PICK c \in CacheEntry : c = cache[w][t]
    BY CachesStay
  <2>2. /\ c.id \in 1 .. given /\ c.until <= now + Ttl
        /\ c.id \in DOMAIN gone => \/ gone[c.id].late
                                   \/ c.until <= gone[c.id].at + Ttl /\ (gone[c.id].by = w => ~gone[c.id].dropped)
    BY <2>1 DEF AccountInv, EntriesLapse
  <2>3. d.at = now /\ d.dropped = FALSE
    BY <1>8
  <2>4. CASE c.id \in DOMAIN gone
    BY <1>12, <2>1, <2>2, <2>4
  <2>5. CASE c.id \notin DOMAIN gone
    <3>1. c.id \in DOMAIN gone' => gone'[c.id] = d
      BY <1>12, <2>5
    <3> QED
      BY <2>1, <2>2, <2>3, <3>1
  <2> QED
    BY <2>4, <2>5
<1>18. FilesOwned'
  <2> SUFFICES ASSUME NEW f \in files, f \notin orphans', f # File(user'.id, user'.photo)
               PROVE  \E x \in Request : Holds(request'[x], f)
    BY <1>5 DEF FilesOwned, File
  <2>1. f \notin orphans
    BY <1>9
  <2>2. CASE f = File(user.id, user.photo)
    <3>1. user.id = q.id /\ user.photo = q.photo
      BY <1>9, <2>2
    <3>2. Holds(m, f)
      BY <1>4, <2>2, <3>1 DEF Holds
    <3> QED
      BY <1>6, <3>2
  <2>3. CASE f # File(user.id, user.photo)
    <3>1. PICK x \in Request : Holds(request[x], f)
      BY <2>1, <2>3 DEF AccountInv, FilesOwned
    <3>2. x # r
      BY <1>1, <3>1 DEF Holds
    <3> QED
      BY <1>6, <3>1, <3>2
  <2> QED
    BY <2>2, <2>3
<1>19. PhotosKept'
  <2> SUFFICES ASSUME ~revived
               PROVE  /\ user'.photo \in Pictures => File(user'.id, user'.photo) \in files
                      /\ \A x \in Request : request'[x].step = "save" /\ request'[x].id = user'.id =>
                             File(request'[x].id, request'[x].item) \in files
                      /\ \A x \in Request : request'[x].step = "drop" /\ request'[x].id = user'.id
                                            /\ user'.photo \in Pictures =>
                             request'[x].photo # user'.photo
    BY <1>5 DEF PhotosKept, File
  <2>1. /\ user.photo \in Pictures => File(user.id, user.photo) \in files
        /\ \A x \in Request : request[x].step = "save" /\ request[x].id = user.id =>
               File(request[x].id, request[x].item) \in files
        /\ \A x \in Request : request[x].step = "drop" /\ request[x].id = user.id /\ user.photo \in Pictures =>
               request[x].photo # user.photo
    BY DEF AccountInv, PhotosKept
  <2>2. \A x \in Request : request'[x].step \in {"save", "drop"} => request'[x] = request[x]
    BY <1>4, <1>6
  <2>3. \A x \in Request : request[x].step \in {"save", "drop"} => request[x].id # 0
    BY <1>2 DEF AccountInv, IdsFit, Known
  <2>4. user' = user \/ user' = Nobody
    BY <1>9
  <2>5. CASE user' = user
    BY <2>1, <2>2, <2>5
  <2>6. CASE user' = Nobody
    BY <1>10, <2>2, <2>3, <2>6
  <2> QED
    BY <2>4, <2>5, <2>6
<1> QED
  BY <1>14, <1>15, <1>16, <1>17, <1>18, <1>19 DEF AccountInv

LEMMA ForgettingKeeps ==
    ASSUME AccountInv, NEW r \in Request, Forget(r)
    PROVE  AccountInv'
<1>1. PICK q \in Deleting : q = request[r] /\ q.step = "forget"
  BY CachesStay, RequestKinds DEF Forget
<1>2. q.id \in 1 .. given /\ q.worker \in Worker /\ q.id # user.id /\ q.id \in DOMAIN gone
  BY <1>1 DEF AccountInv, IdsFit, Known, Deleting
<1>3. PICK m : m = [q EXCEPT !.step = "photo"]
  OBVIOUS
<1>4. m \in Deleting /\ m.step = "photo" /\ m.id = q.id /\ m.photo = q.photo
  BY <1>3 DEF Deleting
<1>5. gone \in [DOMAIN gone -> Deletion]
  BY DEF AccountInv, AccountTypeOK
<1>6. PICK d \in Deletion : d = gone[q.id]
  BY <1>2, <1>5
<1>7. PICK n : n = [gone[q.id] EXCEPT !.dropped = gone[q.id].dropped \/ gone[q.id].by = q.worker]
  OBVIOUS
<1>8. n \in Deletion /\ n.at = d.at /\ n.by = d.by /\ n.late = d.late /\ (n.dropped => d.dropped \/ d.by = q.worker)
  <2>1. n = [d EXCEPT !.dropped = d.dropped \/ d.by = q.worker]
    BY <1>6, <1>7
  <2> QED
    BY <2>1 DEF Deletion
<1>9. PICK old \in [Token -> CacheEntry] : old = cache[q.worker]
  BY <1>2, CachesStay
<1>10. PICK left : left = Kept(old, q.id)
  OBVIOUS
<1>19. /\ left \in [Token -> CacheEntry]
       /\ \A t \in Token : left[t] = IF old[t].id = q.id THEN Absent ELSE old[t]
  <2>1. Absent \in CacheEntry
    BY DEF Absent, CacheEntry
  <2> QED
    BY <1>10, <2>1 DEF Kept
<1>20. \A t \in Token : left[t] = Absent \/ (left[t] = old[t] /\ old[t].id # q.id)
  BY <1>19
<1>11. /\ UNCHANGED <<now, user, given, firebase, files, lists, answered, orphans, revived, crowded>>
       /\ Moved(r, m) /\ gone' = [gone EXCEPT ![q.id] = n]
       /\ cache' = [cache EXCEPT ![q.worker] = left]
  <2>1. cache' = [cache EXCEPT ![q.worker] = Kept(cache[q.worker], q.id)]
    BY <1>1 DEF Forget
  <2>2. gone' = [gone EXCEPT ![q.id] = [gone[q.id] EXCEPT !.dropped = gone[q.id].dropped \/ gone[q.id].by = q.worker]]
    BY <1>1 DEF Forget
  <2> QED
    BY <1>1, <1>3, <1>7, <1>9, <1>10, <2>1, <2>2 DEF Forget, Step
<1>12. /\ request' \in [Request -> Doing] /\ request'[r] = m
       /\ \A x \in Request : x # r => request'[x] = request[x]
  BY <1>4, <1>11, MoveOf, StepsOfRequests, CachesStay
<1>13. /\ DOMAIN gone' = DOMAIN gone /\ gone' \in [DOMAIN gone -> Deletion] /\ gone'[q.id] = n
       /\ \A i \in DOMAIN gone : i # q.id => gone'[i] = gone[i]
  BY <1>2, <1>5, <1>8, <1>11
<1>14. AccountTypeOK'
  <2>1. cache' \in [Worker -> [Token -> CacheEntry]]
    BY <1>2, <1>11, <1>19, CachesStay
  <2> QED
    BY <1>11, <1>12, <1>13, <2>1 DEF AccountInv, AccountTypeOK
<1>15. IdsFit'
  BY <1>1, <1>2, <1>4, <1>11, <1>12, <1>13 DEF AccountInv, IdsFit, Known
<1>16. EntriesLapse'
  <2> SUFFICES ASSUME NEW w \in Worker, NEW t \in Token, cache'[w][t] # Absent
               PROVE  LET c == cache'[w][t] IN
                      /\ c.id \in 1 .. given /\ c.until <= now + Ttl
                      /\ c.id \in DOMAIN gone =>
                             \/ gone'[c.id].late
                             \/ c.until <= gone'[c.id].at + Ttl /\ (gone'[c.id].by = w => ~gone'[c.id].dropped)
    BY <1>11, <1>13 DEF EntriesLapse
  <2>1. cache'[w][t] = cache[w][t] /\ (w = q.worker => cache[w][t].id # q.id)
    BY <1>2, <1>9, <1>11, <1>20, CachesStay
  <2>2. PICK c \in CacheEntry : c = cache[w][t]
    BY CachesStay
  <2>3. /\ c.id \in 1 .. given /\ c.until <= now + Ttl
        /\ c.id \in DOMAIN gone => \/ gone[c.id].late
                                   \/ c.until <= gone[c.id].at + Ttl /\ (gone[c.id].by = w => ~gone[c.id].dropped)
    BY <2>1, <2>2 DEF AccountInv, EntriesLapse
  <2>4. CASE c.id # q.id
    BY <1>13, <2>1, <2>2, <2>3, <2>4
  <2>5. CASE c.id = q.id
    <3>1. w # q.worker
      BY <2>1, <2>2, <2>5
    <3>2. d.late \/ (c.until <= d.at + Ttl /\ (d.by = w => ~d.dropped))
      BY <1>2, <1>6, <2>3, <2>5
    <3>3. n.late \/ (c.until <= n.at + Ttl /\ (n.by = w => ~n.dropped))
      BY <1>8, <3>1, <3>2
    <3> QED
      BY <1>13, <2>1, <2>2, <2>3, <2>5, <3>3
  <2> QED
    BY <2>4, <2>5
<1>17. FilesOwned'
  <2> SUFFICES ASSUME NEW f \in files, f \notin orphans, f # File(user.id, user.photo)
               PROVE  \E x \in Request : Holds(request'[x], f)
    BY <1>11 DEF FilesOwned, File
  <2>1. PICK x \in Request : Holds(request[x], f)
    BY DEF AccountInv, FilesOwned
  <2>2. CASE x # r
    BY <1>12, <2>1, <2>2
  <2>3. CASE x = r
    <3>1. Holds(m, f)
      BY <1>1, <1>4, <2>1, <2>3 DEF Holds
    <3> QED
      BY <1>12, <3>1
  <2> QED
    BY <2>2, <2>3
<1>18. PhotosKept' /\ TopicsWithinLimit'
  BY <1>4, <1>11, <1>12 DEF AccountInv, PhotosKept, File, TopicsWithinLimit, Topics
<1> QED
  BY <1>14, <1>15, <1>16, <1>17, <1>18 DEF AccountInv

-----------------------------------------------------------------------------
(* The theorems.                                                           *)

LEMMA ProceedingKeeps ==
    ASSUME AccountInv, NEW r \in Request, Proceed(r)
    PROVE  AccountInv'
<1> DEFINE Rem(k) == DeleteRow(r, k, "remove") \/ DeleteRow(r, k, "check") \/ DeleteAll(r, k)
<1>1. CASE Look(r) \/ CheckUser(r)
  BY <1>1, LookingKeeps
<1>2. CASE Remember(r)
  BY <1>2, RememberingKeeps
<1>3. CASE \/ SaveStory(r) \/ FollowStory(r) \/ StarSource(r) \/ BlockSource(r)
           \/ SubscribeToSource(r) \/ StartGameSession(r) \/ StartPremiumTrial(r)
           \/ RecordTimelineView(r) \/ ReportStory(r) \/ FollowTopic(r)
  <2>1. PICK k \in Adds : /\ Insert(r, k)
                          /\ IF k = "topic" THEN crowded' = (crowded \/ ~UnderLimit(request[r].id))
                             ELSE crowded' = crowded
    BY <1>3 DEF SaveStory, FollowStory, StarSource, BlockSource, SubscribeToSource, StartGameSession,
       StartPremiumTrial, RecordTimelineView, ReportStory, FollowTopic, Adds
  <2> QED
    BY <2>1, InsertingKeeps
<1>4. CASE \/ UnsaveStory(r) \/ UnstarSource(r) \/ UnblockSource(r) \/ UnsubscribeFromSource(r)
           \/ UnfollowStory(r) \/ UnfollowTopic(r) \/ UnfollowAllStories(r) \/ UnfollowAllTopics(r)
  <2>1. \E k \in Kinds : FindRow(r, k) \/ Rem(k)
    <3>1. {"saved", "starred", "blocked", "subscribed", "followed", "topic"} \subseteq Kinds
      BY DEF Kinds, Adds
    <3> QED
      BY <1>4, <3>1 DEF UnsaveStory, UnstarSource, UnblockSource, UnsubscribeFromSource, UnfollowStory,
         UnfollowTopic, UnfollowAllStories, UnfollowAllTopics
  <2> QED
    BY <2>1, LookingKeeps, RemovingKeeps
<1>5. CASE ReadPhoto(r) \/ Put(r) \/ SavePhoto(r) \/ DropOld(r)
  BY <1>5, ReadingKeeps, PutKeeps, SavingKeeps, DroppingKeeps
<1>6. CASE LoginCommit(r)
  BY <1>6, SigningInKeeps
<1>7. CASE DeleteCommit(r) \/ Forget(r) \/ DropPhoto(r) \/ DropIdentity(r)
  BY <1>7, DeletingKeeps, ForgettingKeeps, DroppingKeeps, IdentityKeeps
<1> QED
  BY <1>1, <1>2, <1>3, <1>4, <1>5, <1>6, <1>7 DEF Proceed

\* The invariant holds of every reachable state.
THEOREM AccountInvariance == AccountSpec => []AccountInv
<1>1. AccountInv /\ [AccountNext]_accountVars => AccountInv'
  <2> SUFFICES ASSUME AccountInv, [AccountNext]_accountVars PROVE AccountInv'
    OBVIOUS
  <2>1. CASE UNCHANGED accountVars
    BY <2>1 DEF accountVars, AccountInv, AccountTypeOK, IdsFit, EntriesLapse, FilesOwned, PhotosKept,
       TopicsWithinLimit, Topics, File
  <2>2. CASE Tick
    BY <2>2, TickKeeps
  <2>3. CASE \E w \in Worker : Restart(w)
    BY <2>3, RestartKeeps
  <2>4. ASSUME NEW r \in Request, Proceed(r) PROVE AccountInv'
    BY <2>4, ProceedingKeeps
  <2>5. ASSUME NEW r \in Request, NEW w \in Worker, LoginRead(r, w) \/ DeleteRead(r, w) PROVE AccountInv'
    BY <2>5, ReadingKeeps
  <2>6. ASSUME NEW r \in Request, NEW w \in Worker, NEW t \in Token, NEW v \in Visit,
               Arrive(r, w, t, v[1], v[2])
        PROVE  AccountInv'
    BY <2>6, ArrivingKeeps
  <2> QED
    BY <2>1, <2>2, <2>3, <2>4, <2>5, <2>6 DEF AccountNext
<1> QED
  BY InitAccountInv, <1>1, PTL DEF AccountSpec

\* A remembered token of a deleted account lapses within the lifetime of an
\* entry, and at once in the worker that deleted the account
\* (services/request_auth.py:88-94, 114-138).
THEOREM TokensOfDeletedAccountsLapse == AccountSpec => []StaleTokenLapses
<1>1. AccountInv => StaleTokenLapses
  <2> SUFFICES ASSUME AccountInv, NEW w \in Worker, NEW t \in Token, Fresh(cache[w][t]),
                      cache[w][t].id \in DOMAIN gone
               PROVE  LET e == cache[w][t] IN
                      \/ gone[e.id].late
                      \/ e.until <= gone[e.id].at + Ttl /\ (gone[e.id].by = w => ~gone[e.id].dropped)
    BY DEF StaleTokenLapses
  <2>1. cache[w][t] # Absent
    BY CachesStay DEF Fresh, Absent
  <2> QED
    BY <2>1 DEF AccountInv, EntriesLapse
<1> QED
  BY AccountInvariance, <1>1, PTL

\* What is stored of an account is all there while the account is, and nothing
\* is once its deletion was answered (app/main.py:860-873, 1682-1712, 4075-4090).
THEOREM AccountsAreWhole == AccountSpec => []AccountIsWhole
<1>1. AccountInv => DeletedIsGone
  <2> SUFFICES ASSUME AccountInv, NEW id \in answered
               PROVE  /\ user.id # id /\ ~firebase
                      /\ \A x \in lists : x.of = id => x.kind = "report"
                      /\ \A f \in files : f.of = id =>
                            \/ f \in orphans
                            \/ \E r \in Request : /\ request[r].step \in {"save", "drop", "forget", "photo"}
                                                  /\ request[r].id = id
    BY DEF DeletedIsGone
  <2>1. user.id # id /\ ~firebase /\ \A x \in lists : x.of = id => x.kind = "report"
    BY DEF AccountInv, IdsFit
  <2>2. ASSUME NEW f \in files, f.of = id, f \notin orphans
        PROVE  \E r \in Request : /\ request[r].step \in {"save", "drop", "forget", "photo"}
                                  /\ request[r].id = id
    <3>1. f # File(user.id, user.photo)
      BY <2>1, <2>2, FilesDiffer
    <3>2. PICK r \in Request : Holds(request[r], f)
      BY <2>2, <3>1 DEF AccountInv, FilesOwned
    <3> QED
      BY <2>2, <3>2, FilesDiffer DEF Holds
  <2> QED
    BY <2>1, <2>2
<1>2. AccountInv => PhotoStands /\ TopicsWithinLimit
  BY DEF AccountInv, PhotosKept, PhotoStands
<1>3. AccountInv => AccountIsWhole
  BY <1>1, <1>2 DEF AccountIsWhole
<1> QED
  BY AccountInvariance, <1>3, PTL

-----------------------------------------------------------------------------
(* Payments.                                                               *)

Link == [stage: {"none", "link", "authorized", "captured"}, note: {"donor", NoDonor}]
Donation == [payment: Payment, donor: {"donor", NoDonor}]
PaidNote == [payment: Payment, donor: {"donor", NoDonor}]

PaymentsTypeOK ==
    /\ link \in [Payment -> Link] /\ donations \subseteq Donation
    /\ hook \in [Hook -> {NoHook} \cup PaidNote] /\ told \subseteq Payment

\* What is delivered, or in the books, was captured.
DeliveredIsCaptured ==
    /\ \A h \in Hook : hook[h] # NoHook => link[hook[h].payment].stage = "captured"
    /\ \A x \in donations : link[x.payment].stage = "captured"

Verdicts == {"none", "valid", "unknown", "refused by Google", "invalid"}
Check == [state: States, from: Nat, tries: Nat, verdict: Verdicts]

LookupsAreCounted ==
    /\ purchase \in Check
    /\ purchase.verdict = "none" => purchase.tries <= 3

PaymentsInv == PaymentsTypeOK /\ DeliveredIsCaptured /\ MoneyIsKept /\ LookupsAreCounted /\ BuyerIsBelieved

\* The lookups are made after 0, 1, 3 and 7 seconds.
LEMMA LookupTimes == /\ LookupAt = [n \in 1 .. 4 |-> IF n = 1 THEN 0 ELSE LookupAt[n - 1] + Delays[n - 1]]
                     /\ LookupAt[1] = 0 /\ LookupAt[2] = 1 /\ LookupAt[3] = 3 /\ LookupAt[4] = 7
<1>1. Len(Delays) = 3 /\ Delays[1] = 1 /\ Delays[2] = 2 /\ Delays[3] = 4
  BY DEF Delays
<1> DEFINE G == [n \in 1 .. 4 |-> IF n = 1 THEN 0 ELSE IF n = 2 THEN 1 ELSE IF n = 3 THEN 3 ELSE 7]
           F == CHOOSE f : f = [n \in 1 .. Len(Delays) + 1 |-> IF n = 1 THEN 0 ELSE f[n - 1] + Delays[n - 1]]
<1>2. G = [n \in 1 .. Len(Delays) + 1 |-> IF n = 1 THEN 0 ELSE G[n - 1] + Delays[n - 1]]
  <2>1. ASSUME NEW n \in 1 .. 4 PROVE G[n] = IF n = 1 THEN 0 ELSE G[n - 1] + Delays[n - 1]
    <3>1. n = 1 \/ n = 2 \/ n = 3 \/ n = 4
      OBVIOUS
    <3>2. G[1] = 0 /\ G[2] = 1 /\ G[3] = 3 /\ G[4] = 7
      OBVIOUS
    <3> HIDE DEF G
    <3> QED
      BY <1>1, <3>1, <3>2
  <2>2. 1 .. Len(Delays) + 1 = 1 .. 4
    BY <1>1
  <2> QED
    BY <2>1, <2>2
<1>3. F = [n \in 1 .. Len(Delays) + 1 |-> IF n = 1 THEN 0 ELSE F[n - 1] + Delays[n - 1]]
  <2> HIDE DEF G
  <2> QED
    BY <1>2
<1>4. LookupAt = F
  BY DEF LookupAt
<1>5. LookupAt = [n \in 1 .. 4 |-> IF n = 1 THEN 0 ELSE LookupAt[n - 1] + Delays[n - 1]]
  <2> HIDE DEF F
  <2>1. 1 .. Len(Delays) + 1 = 1 .. 4
    BY <1>1
  <2> QED
    BY <1>3, <1>4, <2>1
<1>6. ASSUME NEW n \in 1 .. 4 PROVE LookupAt[n] = IF n = 1 THEN 0 ELSE LookupAt[n - 1] + Delays[n - 1]
  BY <1>5
<1>7. LookupAt[1] = 0
  BY <1>6
<1>8. LookupAt[2] = LookupAt[1] + Delays[1] /\ LookupAt[3] = LookupAt[2] + Delays[2]
      /\ LookupAt[4] = LookupAt[3] + Delays[3]
  BY <1>6
<1> QED
  BY <1>1, <1>5, <1>7, <1>8

LEMMA InitPaymentsInv == PaymentsInit => PaymentsInv
<1> SUFFICES ASSUME PaymentsInit PROVE PaymentsInv
  OBVIOUS
<1>1. NoLink \in Link
  BY DEF NoLink, Link
<1>2. PaymentsTypeOK /\ DeliveredIsCaptured /\ MoneyIsKept
  BY <1>1 DEF PaymentsInit, PaymentsTypeOK, DeliveredIsCaptured, MoneyIsKept
<1>3. PICK r : r = [state |-> "no such token", from |-> 0, tries |-> 0, verdict |-> "none"]
  OBVIOUS
<1>4. r \in Check
  BY <1>3 DEF Check, Verdicts, States
<1>5. r.tries = 0 /\ r.verdict = "none"
  BY <1>3
<1>6. r.tries <= 3
  BY <1>5
<1>7. LookupsAreCounted /\ BuyerIsBelieved
  BY <1>3, <1>4, <1>5, <1>6 DEF PaymentsInit, NoPurchase, LookupsAreCounted, BuyerIsBelieved
<1> QED
  BY <1>2, <1>7 DEF PaymentsInv

\* A payment only goes on; what was captured stays so.
LEMMA LinksKeep ==
    ASSUME PaymentsInv, NEW p \in Payment, Pay(p) \/ \E signedIn \in BOOLEAN : CreateLink(p, signedIn)
    PROVE  PaymentsInv'
<1>1. PICK l \in Link : l = link[p]
  BY DEF PaymentsInv, PaymentsTypeOK
<1>2. UNCHANGED <<donor, donations, hook, told, purchase>>
  BY DEF Pay, CreateLink
<1>3. PICK n \in Link : link' = [link EXCEPT ![p] = n] /\ l.stage # "captured"
  <2>1. CASE Pay(p)
    <3>1. PICK n : n = [l EXCEPT !.stage = IF l.stage = "link" THEN "authorized" ELSE "captured"]
      OBVIOUS
    <3>2. n \in Link
      BY <3>1 DEF Link
    <3>3. link' = [link EXCEPT ![p] = n] /\ l.stage # "captured"
      BY <1>1, <2>1, <3>1 DEF Pay
    <3> QED
      BY <3>2, <3>3
  <2>2. ASSUME NEW signedIn \in BOOLEAN, CreateLink(p, signedIn)
        PROVE  \E n \in Link : link' = [link EXCEPT ![p] = n] /\ l.stage # "captured"
    <3>1. PICK n : n = [stage |-> "link", note |-> Note(signedIn)]
      OBVIOUS
    <3>2. n \in Link
      BY <3>1 DEF Link, Note
    <3>3. link' = [link EXCEPT ![p] = n] /\ l.stage # "captured"
      BY <1>1, <2>2, <3>1 DEF CreateLink, NoLink
    <3> QED
      BY <3>2, <3>3
  <2> QED
    BY <2>1, <2>2
<1>4. /\ link' \in [Payment -> Link]
      /\ \A x \in Payment : link[x].stage = "captured" => link'[x].stage = "captured"
  BY <1>1, <1>3 DEF PaymentsInv, PaymentsTypeOK
<1>5. PaymentsTypeOK'
  BY <1>2, <1>4 DEF PaymentsInv, PaymentsTypeOK
<1>6. DeliveredIsCaptured' /\ MoneyIsKept'
  <2>1. /\ \A h \in Hook : hook[h] # NoHook => hook[h].payment \in Payment
        /\ \A x \in donations : x.payment \in Payment
    BY DEF PaymentsInv, PaymentsTypeOK, PaidNote, Donation
  <2> QED
    BY <1>2, <1>4, <2>1 DEF PaymentsInv, DeliveredIsCaptured, MoneyIsKept
<1>7. LookupsAreCounted' /\ BuyerIsBelieved'
  BY <1>2 DEF PaymentsInv, LookupsAreCounted, BuyerIsBelieved
<1> QED
  BY <1>5, <1>6, <1>7 DEF PaymentsInv

LEMMA ReceivingKeeps ==
    ASSUME PaymentsInv, NEW h \in Hook, NEW p \in Payment, ReceivePayment(h, p)
    PROVE  PaymentsInv'
<1>1. PICK q : q = [payment |-> p, donor |-> IF link[p].note = "donor" /\ donor THEN "donor" ELSE NoDonor]
  OBVIOUS
<1>2. q \in PaidNote /\ q.payment = p
  BY <1>1 DEF PaidNote
<1>3. /\ hook' = [hook EXCEPT ![h] = q] /\ link[p].stage = "captured"
      /\ UNCHANGED <<donor, link, donations, told, purchase>>
  BY <1>1 DEF ReceivePayment, Taken
<1>4. PaymentsTypeOK'
  BY <1>2, <1>3 DEF PaymentsInv, PaymentsTypeOK
<1>5. DeliveredIsCaptured'
  BY <1>2, <1>3 DEF PaymentsInv, PaymentsTypeOK, DeliveredIsCaptured
<1>6. MoneyIsKept' /\ LookupsAreCounted' /\ BuyerIsBelieved'
  BY <1>3 DEF PaymentsInv, MoneyIsKept, LookupsAreCounted, BuyerIsBelieved
<1> QED
  BY <1>4, <1>5, <1>6 DEF PaymentsInv

\* What Recorded does to the books.
LEMMA Recording ==
    ASSUME PaymentsInv, NEW q \in PaidNote, link[q.payment].stage = "captured",
           ~donor /\ (\A x \in donations : x.payment # q.payment) => q.donor = NoDonor
    PROVE  /\ Recorded(q) \subseteq Donation /\ donations \subseteq Recorded(q)
           /\ \E x \in Recorded(q) : x.payment = q.payment
           /\ \A x, y \in Recorded(q) : x.payment = y.payment => x = y
           /\ \A x \in Recorded(q) : link[x.payment].stage = "captured" /\ (~donor => x.donor = NoDonor)
<1>1. PICK n \in Donation : n = [payment |-> q.payment, donor |-> q.donor]
  BY DEF Donation, PaidNote
<1>2. n.payment = q.payment /\ n.donor = q.donor
  BY <1>1
<1>3. /\ donations \subseteq Donation
      /\ \A x, y \in donations : x.payment = y.payment => x = y
      /\ \A x \in donations : link[x.payment].stage = "captured" /\ (~donor => x.donor = NoDonor)
  BY DEF PaymentsInv, PaymentsTypeOK, MoneyIsKept
<1>4. CASE \E x \in donations : x.payment = q.payment
  BY <1>3, <1>4 DEF Recorded
<1>5. CASE \A x \in donations : x.payment # q.payment
  <2>1. Recorded(q) = donations \cup {n}
    BY <1>1, <1>5 DEF Recorded
  <2> QED
    BY <1>2, <1>3, <1>5, <2>1
<1> QED
  BY <1>4, <1>5

LEMMA DeliveringKeeps ==
    ASSUME PaymentsInv, NEW h \in Hook, RecordPayment(h) \/ LoseHook(h)
    PROVE  PaymentsInv'
<1>1. PICK q \in PaidNote : q = hook[h] /\ link[q.payment].stage = "captured"
  BY DEF PaymentsInv, PaymentsTypeOK, DeliveredIsCaptured, RecordPayment, LoseHook
<1>2. q.payment \in Payment /\ q.donor \in {"donor", NoDonor}
  BY <1>1 DEF PaidNote
<1>3. UNCHANGED <<donor, link, purchase>> /\ hook' = [hook EXCEPT ![h] = NoHook]
  BY DEF RecordPayment, LoseHook
<1>4. \/ donations' = donations /\ told' = told
      \/ /\ donations' = Recorded(q) /\ told' \subseteq told \cup {q.payment}
         /\ ~donor /\ (\A x \in donations : x.payment # q.payment) => q.donor = NoDonor
  BY <1>1, <1>2 DEF RecordPayment, LoseHook
<1>5. /\ donations' \subseteq Donation /\ donations \subseteq donations' /\ told' \subseteq Payment
      /\ \A p \in told' : p \in told \/ \E x \in donations' : x.payment = p
      /\ \A x, y \in donations' : x.payment = y.payment => x = y
      /\ \A x \in donations' : link[x.payment].stage = "captured" /\ (~donor => x.donor = NoDonor)
  <2>1. CASE donations' = donations /\ told' = told
    BY <2>1 DEF PaymentsInv, PaymentsTypeOK, MoneyIsKept
  <2>2. CASE ~(donations' = donations /\ told' = told)
    <3>1. told \subseteq Payment
      BY DEF PaymentsInv, PaymentsTypeOK
    <3> QED
      BY <1>1, <1>2, <1>4, <2>2, <3>1, Recording
  <2> QED
    BY <2>1, <2>2
<1>6. PaymentsTypeOK'
  BY <1>3, <1>5 DEF PaymentsInv, PaymentsTypeOK
<1>7. DeliveredIsCaptured'
  BY <1>3, <1>5 DEF PaymentsInv, PaymentsTypeOK, DeliveredIsCaptured
<1>8. MoneyIsKept'
  BY <1>3, <1>5 DEF PaymentsInv, MoneyIsKept
<1>9. LookupsAreCounted' /\ BuyerIsBelieved'
  BY <1>3 DEF PaymentsInv, LookupsAreCounted, BuyerIsBelieved
<1> QED
  BY <1>6, <1>7, <1>8, <1>9 DEF PaymentsInv

LEMMA DonorGoingKeeps ==
    ASSUME PaymentsInv, DeleteDonor
    PROVE  PaymentsInv'
<1>1. /\ donor' = FALSE /\ donations' = {[x EXCEPT !.donor = NoDonor] : x \in donations}
      /\ UNCHANGED <<link, hook, told, purchase>>
  BY DEF DeleteDonor
<1>2. ASSUME NEW x \in donations
      PROVE  /\ [x EXCEPT !.donor = NoDonor] \in donations' /\ [x EXCEPT !.donor = NoDonor] \in Donation
             /\ [x EXCEPT !.donor = NoDonor].payment = x.payment /\ [x EXCEPT !.donor = NoDonor].donor = NoDonor
  <2>1. x \in Donation
    BY DEF PaymentsInv, PaymentsTypeOK
  <2>2. [x EXCEPT !.donor = NoDonor] \in donations'
    BY <1>1
  <2>3. PICK n : n = [x EXCEPT !.donor = NoDonor]
    OBVIOUS
  <2>4. n \in Donation /\ n.payment = x.payment /\ n.donor = NoDonor
    BY <2>1, <2>3 DEF Donation
  <2> QED
    BY <2>2, <2>3, <2>4
<1>3. ASSUME NEW n \in donations'
      PROVE  \E x \in donations : /\ n = [x EXCEPT !.donor = NoDonor] /\ n \in Donation
                                 /\ n.payment = x.payment /\ n.donor = NoDonor
  <2>1. PICK x \in donations : n = [x EXCEPT !.donor = NoDonor]
    BY <1>1
  <2> QED
    BY <1>2, <2>1
<1>8. ASSUME NEW x \in donations PROVE \E n \in donations' : n.payment = x.payment
  BY <1>2
<1>4. PaymentsTypeOK'
  BY <1>1, <1>3 DEF PaymentsInv, PaymentsTypeOK
<1>5. DeliveredIsCaptured'
  BY <1>1, <1>3 DEF PaymentsInv, DeliveredIsCaptured
<1>6. MoneyIsKept'
  <2>1. \A p \in told : \E n \in donations' : n.payment = p
    BY <1>8 DEF PaymentsInv, MoneyIsKept
  <2>2. ASSUME NEW m \in donations', NEW n \in donations', m.payment = n.payment PROVE m = n
    <3>1. PICK x \in donations, y \in donations :
              /\ m = [x EXCEPT !.donor = NoDonor] /\ n = [y EXCEPT !.donor = NoDonor]
              /\ m.payment = x.payment /\ n.payment = y.payment
      BY <1>3
    <3>2. x = y
      BY <2>2, <3>1 DEF PaymentsInv, MoneyIsKept
    <3> QED
      BY <3>1, <3>2
  <2>3. \A n \in donations' : link[n.payment].stage = "captured" /\ n.donor = NoDonor
    BY <1>3 DEF PaymentsInv, MoneyIsKept
  <2> QED
    BY <1>1, <2>1, <2>2, <2>3 DEF MoneyIsKept
<1>7. LookupsAreCounted' /\ BuyerIsBelieved'
  BY <1>1 DEF PaymentsInv, LookupsAreCounted, BuyerIsBelieved
<1> QED
  BY <1>4, <1>5, <1>6, <1>7 DEF PaymentsInv

LEMMA CheckingKeeps ==
    ASSUME PaymentsInv, PurchaseNext
    PROVE  PaymentsInv'
<1>1. UNCHANGED <<donor, link, donations, hook, told>>
  BY DEF PurchaseNext, BeginCheck, Lookup
<1>2. PaymentsTypeOK' /\ DeliveredIsCaptured' /\ MoneyIsKept'
  BY <1>1 DEF PaymentsInv, PaymentsTypeOK, DeliveredIsCaptured, MoneyIsKept
<1>3. ASSUME NEW s \in States, NEW lag \in 0 .. MaxLag, BeginCheck(s, lag)
      PROVE  LookupsAreCounted' /\ BuyerIsBelieved'
  <2>1. PICK r : r = [state |-> s, from |-> lag, tries |-> 0, verdict |-> "none"]
    OBVIOUS
  <2>2. lag \in Nat
    BY PaymentsAssumption
  <2>3. r \in Check
    BY <2>1, <2>2 DEF Check, Verdicts
  <2>4. r.tries = 0 /\ r.verdict = "none"
    BY <2>1
  <2>5. r.tries <= 3
    BY <2>4
  <2> QED
    BY <1>3, <2>1, <2>3, <2>4, <2>5 DEF BeginCheck, LookupsAreCounted, BuyerIsBelieved
<1>4. CASE Lookup
  <2>1. PICK p \in Check : p = purchase /\ p.verdict = "none" /\ p.tries <= 3
    BY <1>4 DEF PaymentsInv, LookupsAreCounted, Lookup
  <2>2. PICK k \in Nat : k = p.tries /\ k <= 3
    BY <2>1 DEF Check
  <2>10. PICK n \in 1 .. 4 : n = k + 1
    BY <2>2
  <2>3. Len(Delays) = 3
    BY DEF Delays
  <2> DEFINE Statuses == {200, 404, 400, 401, 403, 429, 500}
         Answered(s) == [p EXCEPT !.tries = n, !.verdict = Verdict(s, n)]
  <2>4. PICK status \in Statuses : (status = 404 => ~Knows(n)) /\ purchase' = Answered(status)
    <3>1. n = p.tries + 1
      BY <2>2, <2>10
    <3> DEFINE Possible == {400, 401, 403, 429, 500} \cup (IF Knows(purchase.tries + 1) THEN {200} ELSE {404})
    <3>10. \E got \in Possible :
              purchase' = [purchase EXCEPT !.tries = purchase.tries + 1, !.verdict = Verdict(got, purchase.tries + 1)]
      BY <1>4, Zenon DEF Lookup
    <3> HIDE DEF Possible
    <3>2. PICK got :
              /\ got \in Possible
              /\ purchase' = [purchase EXCEPT !.tries = purchase.tries + 1, !.verdict = Verdict(got, purchase.tries + 1)]
      BY <3>10, Zenon
    <3>3. purchase' = [p EXCEPT !.tries = n, !.verdict = Verdict(got, n)]
      BY <2>1, <3>1, <3>2, Zenon
    <3>4. got \in {400, 401, 403, 429, 500} \cup (IF Knows(n) THEN {200} ELSE {404})
      <4>1. purchase.tries + 1 = n
        BY <2>1, <3>1
      <4> QED
        BY <3>2, <4>1 DEF Possible
    <3>5. got \in Statuses /\ (got = 404 => ~Knows(n))
      <4>1. CASE Knows(n)
        BY <3>4, <4>1
      <4>2. CASE ~Knows(n)
        BY <3>4, <4>2
      <4> QED
        BY <4>1, <4>2
    <3>6. purchase' = Answered(got)
      BY <3>3
    <3> HIDE DEF Statuses, Answered
    <3> QED
      BY <3>5, <3>6, Zenon
  <2>5. PICK v : v = Verdict(status, n)
    OBVIOUS
  <2>6. /\ v \in Verdicts
        /\ v = "none" => n <= 3
        /\ v = "invalid" => (status = 404 /\ n = 4) \/ (status = 200 /\ p.state # "paid")
    <3>1. n <= 3 \/ n = 4
      BY <2>10
    <3>2. CASE status \in {401, 403, 429, 500}
      <4>1. v = "unknown"
        BY <2>5, <3>2 DEF Verdict, Transient
      <4> QED
        BY <4>1 DEF Verdicts
    <3>3. CASE status = 400
      <4>1. ~Transient(status)
        BY <3>3 DEF Transient
      <4>2. Verdict(status, n) = "refused by Google"
        <5>1. status # 200 /\ status # 404
          BY <3>3
        <5> QED
          BY <3>3, <4>1, <5>1 DEF Verdict
      <4>3. v = "refused by Google"
        BY <2>5, <4>2, Zenon
      <4> QED
        BY <4>3 DEF Verdicts
    <3>4. CASE status = 200
      <4>1. v = IF p.state = "paid" THEN "valid" ELSE "invalid"
        BY <2>1, <2>5, <3>4 DEF Verdict, Transient
      <4> QED
        BY <3>4, <4>1 DEF Verdicts
    <3>5. CASE status = 404
      <4>1. v = IF n <= 3 THEN "none" ELSE "invalid"
        BY <2>3, <2>5, <3>5 DEF Verdict, Transient
      <4> QED
        BY <3>1, <3>5, <4>1 DEF Verdicts
    <3> QED
      BY <2>4, <3>2, <3>3, <3>4, <3>5
  <2>7. purchase' = [p EXCEPT !.tries = n, !.verdict = v]
    BY <2>4, <2>5
  <2>8. LookupsAreCounted'
    <3>1. PICK r : r = [p EXCEPT !.tries = n, !.verdict = v]
      OBVIOUS
    <3>2. n \in Nat
      BY <2>10
    <3>3. r \in Check /\ r.tries = n /\ r.verdict = v
      BY <2>1, <2>6, <3>1, <3>2 DEF Check
    <3> QED
      BY <2>6, <2>7, <3>1, <3>3 DEF LookupsAreCounted
  <2>9. BuyerIsBelieved'
    <3> SUFFICES ASSUME p.state = "paid", p.from <= 7, v = "invalid" PROVE FALSE
      BY <2>1, <2>7 DEF BuyerIsBelieved, Check
    <3>1. status = 404 /\ n = 4
      BY <2>6
    <3>2. LookupAt[n] = 7
      BY <3>1, LookupTimes
    <3>3. p.from \in Nat /\ p.from <= 7 /\ p.state # "no such token"
      BY <2>1 DEF Check
    <3>4. purchase.from <= LookupAt[n] /\ purchase.state # "no such token"
      BY <2>1, <3>2, <3>3
    <3>5. Knows(n)
      BY <3>2, <3>3, <3>4, <2>1 DEF Knows
    <3> QED
      BY <2>4, <3>1, <3>5
  <2> QED
    BY <1>2, <2>8, <2>9 DEF PaymentsInv
<1> QED
  BY <1>2, <1>3, <1>4 DEF PurchaseNext, PaymentsInv

\* Who has paid is in the books and is believed, whatever is delivered again,
\* fails or is deleted on the way (app/main.py:3656-3700,
\* services/play_billing.py:60-92).
THEOREM PaidStaysKept == PaymentsSpec => []PaidIsKept
<1>1. PaymentsInv /\ [MoneyNext \/ PurchaseNext]_paymentVars => PaymentsInv'
  <2> SUFFICES ASSUME PaymentsInv, [MoneyNext \/ PurchaseNext]_paymentVars PROVE PaymentsInv'
    OBVIOUS
  <2>1. CASE MoneyNext
    BY <2>1, LinksKeep, ReceivingKeeps, DeliveringKeeps, DonorGoingKeeps DEF MoneyNext
  <2>2. CASE PurchaseNext
    BY <2>2, CheckingKeeps
  <2>3. CASE UNCHANGED paymentVars
    BY <2>3 DEF paymentVars, PaymentsInv, PaymentsTypeOK, DeliveredIsCaptured, MoneyIsKept,
       LookupsAreCounted, BuyerIsBelieved
  <2> QED
    BY <2>1, <2>2, <2>3
<1>2. PaymentsInv => PaidIsKept
  BY DEF PaymentsInv, PaidIsKept
<1> QED
  BY InitPaymentsInv, <1>1, <1>2, PTL DEF PaymentsSpec

-----------------------------------------------------------------------------
(* The schema scripts, for any tables that are there at the start, any rows of *)
(* the log and any stories.  Each part of the invariant is about rows that no  *)
(* other part names, and most scripts touch none of them (SchemaOnly).         *)

Value == {Null, "filled", "live"}
Preference == [old : {"none", "breaking", "daily"}, breaking : BOOLEAN, daily : BOOLEAN,
               by : {"start", "script", "reader"}]
StoryId == NewId \cup {1}

KeptStory == [outlets : Int, counted : Int, multi : Value, framing : {"none", "rules", "free"},
                enriched : BOOLEAN, pass : Value]

\* What the service wrote of the story is there, or add_ai_enriched_column has
\* guessed its flag again.
StoryKept ==
    /\ story \in KeptStory
    /\ "multi" \in wrote => story.multi = "live"
    /\ "pass" \in wrote => story.pass = "live"
    /\ "enriched" \in wrote \ derived => story.enriched

CellsKept ==
    /\ cells \in [FilledColumns -> [value : Value, due : BOOLEAN]]
    /\ \A c \in FilledColumns \cap wrote : cells[c].value = "live"

LogRecord == [id : LogRow, mode : {"breaking", "daily"}, day : Date, dated : BOOLEAN]

LogFits ==
    /\ logged \subseteq LogRecord
    /\ "AddLogIndexes" \notin refused

\* A document that is read to be migrated has its old key; the reader's has not.
PreferencesKept ==
    /\ prefs \in Preference
    /\ prefs.by = "reader" => prefs.old = "none"
    /\ running.prefs # Null => running.prefs \in Preference /\ running.prefs.old # "none"
    /\ "prefs" \in wrote \ derived => prefs.by = "reader"

\* What the backfill has not reached is still ahead of it.
TokensFollow ==
    /\ tokened \in [stories : SUBSET StoryId, done : SUBSET StoryId, today : BOOLEAN,
                    missed : BOOLEAN, whole : BOOLEAN]
    /\ running.tokens # Null => running.tokens \subseteq StoryId
    /\ ~tokened.missed =>
          /\ running.tokens # Null => tokened.stories \subseteq tokened.done \cup running.tokens
          /\ tokened.whole => tokened.stories \subseteq tokened.done

MigrationsInv ==
    /\ running \in [prefs : {Null} \cup Preference, words : {Null, "checked"},
                    tokens : {Null} \cup SUBSET StoryId]
    /\ StoryKept /\ CellsKept /\ LogFits /\ PreferencesKept /\ TokensFollow

LEMMA InitMigrationsInv ==
    ASSUME NEW tables, NEW due \in BOOLEAN, NEW old \in {"none", "breaking", "daily"},
           SchemaInit(tables, due, old)
    PROVE  MigrationsInv
<1>1. running \in [prefs : {Null} \cup Preference, words : {Null, "checked"},
                   tokens : {Null} \cup SUBSET StoryId]
  BY DEF SchemaInit
<1>2. StoryKept /\ CellsKept /\ LogFits
  BY DEF SchemaInit, StoryKept, KeptStory, CellsKept, LogFits, Value
<1>3. PreferencesKept
  BY DEF SchemaInit, PreferencesKept, Preference
<1>4. TokensFollow
  BY DEF SchemaInit, TokensFollow, StoryId
<1> QED
  BY <1>1, <1>2, <1>3, <1>4 DEF MigrationsInv

\* A script that only changes the schema, or is refused for what is in it.
LEMMA SchemaOnly ==
    ASSUME MigrationsInv, UNCHANGED <<rows, running, wrote, derived>>,
           "AddLogIndexes" \notin refused'
    PROVE  MigrationsInv'
BY DEF MigrationsInv, rows, StoryKept, KeptStory, CellsKept, LogFits, PreferencesKept, TokensFollow

LEMMA CreatesOnly ==
    ASSUME MigrationsInv, NEW needs, NEW new, Creates(needs, new)
    PROVE  MigrationsInv'
BY SchemaOnly DEF Creates, rows, MigrationsInv, LogFits

LEMMA ScriptsThatAdd == MigrationsInv /\ Reading /\ ~AddRanking => MigrationsInv'
BY CreatesOnly DEF Reading, AddSavedStories, AddSourceBlocks, AddSourceFollows, AddEntityStats,
   AddExploreBandit, AddHotPathIndexes, OneProviderUid

LEMMA FeaturesKeep == MigrationsInv /\ Features => MigrationsInv'
BY CreatesOnly DEF Features, AddGameStats, AddDailyWordles, AddGameSources, AddQuizReview, AddQuizBank,
   AddVideoMedia, AddContentColumn, AddJobLease

LEMMA EventsKeep == MigrationsInv /\ Events => MigrationsInv'
<1> SUFFICES ASSUME MigrationsInv, Events PROVE MigrationsInv'
  OBVIOUS
<1>1. CASE AddReadEvents
  <2>1. CASE "uq_read_events index" \in parts
    <3>1. refused' = refused \cup {"AddReadEvents"} /\ UNCHANGED <<rows, running, wrote, derived>>
      BY <1>1, <2>1 DEF AddReadEvents
    <3>2. "AddLogIndexes" \notin refused'
      BY <3>1 DEF MigrationsInv, LogFits
    <3> QED
      BY <3>1, <3>2, SchemaOnly
  <2>2. CASE "uq_read_events index" \notin parts
    BY <1>1, <2>2, CreatesOnly DEF AddReadEvents
  <2> QED
    BY <2>1, <2>2
<1>2. CASE FixReadEventsConstraint
  BY <1>2, SchemaOnly DEF FixReadEventsConstraint, rows, MigrationsInv, LogFits
<1>3. CASE Startup
  BY <1>3, SchemaOnly DEF Startup, rows, MigrationsInv, LogFits
<1>4. CASE AddNotificationTables \/ AddBreakingStories \/ AddTimelineFeatures
           \/ AddTimelineAudio \/ AddDonations
  BY <1>4, CreatesOnly DEF AddNotificationTables, AddBreakingStories, AddTimelineFeatures,
     AddTimelineAudio, AddDonations
<1> QED
  BY <1>1, <1>2, <1>3, <1>4 DEF Events

\* What changes the story alone.
LEMMA StoryStep ==
    ASSUME MigrationsInv, UNCHANGED <<cells, logged, prefs, tokened, running, refused>>,
           wrote' \ {"multi", "pass", "enriched"} = wrote \ {"multi", "pass", "enriched"},
           derived' \ {"enriched"} = derived \ {"enriched"},
           StoryKept'
    PROVE  MigrationsInv'
<1>1. CellsKept'
  <2> SUFFICES ASSUME NEW c \in FilledColumns, c \in wrote' PROVE cells[c].value = "live"
    BY DEF MigrationsInv, CellsKept
  <2>1. c \notin {"multi", "pass", "enriched"}
    BY DEF FilledColumns
  <2>2. c \in wrote
    BY <2>1
  <2> QED
    BY <2>2 DEF MigrationsInv, CellsKept
<1>2. "prefs" \in wrote' \ derived' => "prefs" \in wrote \ derived
  OBVIOUS
<1>3. PreferencesKept'
  BY <1>2 DEF MigrationsInv, PreferencesKept
<1>4. LogFits' /\ TokensFollow'
  BY DEF MigrationsInv, LogFits, TokensFollow
<1> QED
  BY <1>1, <1>3, <1>4 DEF MigrationsInv

LEMMA AddRankingKeeps == MigrationsInv /\ AddRanking => MigrationsInv'
<1> SUFFICES ASSUME MigrationsInv, AddRanking PROVE MigrationsInv'
  OBVIOUS
<1>1. StoryKept'
  BY DEF MigrationsInv, AddRanking, StoryKept, KeptStory
<1> QED
  BY <1>1, StoryStep DEF AddRanking

LEMMA FillKeeps == MigrationsInv /\ Fill => MigrationsInv'
<1> SUFFICES ASSUME MigrationsInv, Fill PROVE MigrationsInv'
  OBVIOUS
<1> USE MigrationsAssumption
<1>1. CASE AddBecameMultiSource
  <2>1. FillMulti(story) \in Value /\ (story.multi = "live" => FillMulti(story) = "live")
    BY DEF MigrationsInv, StoryKept, KeptStory, FillMulti, Value
  <2>2. StoryKept'
    BY <1>1, <2>1 DEF MigrationsInv, AddBecameMultiSource, StoryKept, KeptStory
  <2> QED
    BY <1>1, <2>2, StoryStep DEF AddBecameMultiSource
<1>2. CASE AddAiEnriched
  <2>1. Guess(story) \in BOOLEAN
    BY DEF MigrationsInv, StoryKept, KeptStory, Guess
  <2>2. derived' = IF Guess(story) = story.enriched THEN derived ELSE derived \cup {"enriched"}
    BY <1>2 DEF AddAiEnriched
  <2>3. "enriched" \in wrote' \ derived' => Guess(story)
    BY <1>2, <2>2 DEF MigrationsInv, StoryKept, KeptStory, AddAiEnriched
  <2>4. StoryKept'
    BY <1>2, <2>1, <2>3 DEF MigrationsInv, AddAiEnriched, StoryKept, KeptStory
  <2>5. derived' \ {"enriched"} = derived \ {"enriched"}
    BY <2>2
  <2> QED
    BY <1>2, <2>4, <2>5, StoryStep DEF AddAiEnriched
<1>3. CASE AddEnrichmentBatches
  <2>1. FillPass(story) \in Value /\ (story.pass = "live" => FillPass(story) = "live")
    BY DEF MigrationsInv, StoryKept, KeptStory, FillPass, Value
  <2>2. StoryKept'
    BY <1>3, <2>1 DEF MigrationsInv, AddEnrichmentBatches, StoryKept, KeptStory
  <2> QED
    BY <1>3, <2>2, StoryStep DEF AddEnrichmentBatches
<1>4. CASE AttachOutlet
  <2>1. wrote' = wrote \/ (wrote' = wrote \cup {"multi"} /\ story'.multi = "live")
    BY <1>4 DEF AttachOutlet
  <2>2. StoryKept'
    <3>1. CASE Columns({"story_clusters.distinct_source_count",
                        "story_clusters.became_multi_source_at"})
      <4> DEFINE since == IF story.multi = Null THEN "live" ELSE story.multi
      <4>1. story' = [story EXCEPT !.outlets = 2, !.counted = story.counted + 1, !.multi = since]
        BY <1>4, <3>1 DEF AttachOutlet
      <4>2. since \in Value /\ (story.multi = "live" => since = "live")
        BY DEF MigrationsInv, StoryKept, KeptStory, Value
      <4>3. /\ story' \in KeptStory
            /\ story'.multi = since /\ story'.pass = story.pass /\ story'.enriched = story.enriched
        <5>1. PICK k \in Int, m \in Value : k = story.counted + 1 /\ m = since
          BY <4>2 DEF MigrationsInv, StoryKept, KeptStory
        <5>2. story' = [story EXCEPT !.outlets = 2, !.counted = k, !.multi = m]
          BY <4>1, <5>1
        <5> HIDE DEF since
        <5> DEFINE counts == [story EXCEPT !.outlets = 2]
        <5>3. story' \in KeptStory
          <6>1. counts \in KeptStory
            BY DEF MigrationsInv, StoryKept, KeptStory
          <6>2. [counts EXCEPT !.counted = k] \in KeptStory
            BY <6>1 DEF KeptStory
          <6>3. [[counts EXCEPT !.counted = k] EXCEPT !.multi = m] \in KeptStory
            BY <6>2 DEF KeptStory
          <6>4. story' = [[counts EXCEPT !.counted = k] EXCEPT !.multi = m]
            BY <5>2 DEF MigrationsInv, StoryKept, KeptStory
          <6> QED
            BY <6>3, <6>4
        <5>4. story'.multi = m /\ story'.pass = story.pass
          BY <5>2 DEF MigrationsInv, StoryKept, KeptStory
        <5>5. story'.enriched = story.enriched
          BY <5>2, Zenon DEF MigrationsInv, StoryKept, KeptStory
        <5> QED
          BY <5>1, <5>3, <5>4, <5>5
      <4> HIDE DEF since
      <4> QED
        BY <1>4, <2>1, <4>2, <4>3 DEF MigrationsInv, AttachOutlet, StoryKept, KeptStory
    <3>2. CASE ~Columns({"story_clusters.distinct_source_count",
                         "story_clusters.became_multi_source_at"})
      BY <1>4, <3>2 DEF MigrationsInv, AttachOutlet, StoryKept, KeptStory
    <3> QED
      BY <3>1, <3>2
  <2>3. wrote' \ {"multi", "pass", "enriched"} = wrote \ {"multi", "pass", "enriched"}
    BY <2>1
  <2> QED
    BY <1>4, <2>2, <2>3, StoryStep DEF AttachOutlet
<1>5. CASE FirstAnswer
  <2>1. StoryKept'
    BY <1>5 DEF MigrationsInv, FirstAnswer, StoryKept, KeptStory, Value
  <2>2. /\ wrote' \ {"multi", "pass", "enriched"} = wrote \ {"multi", "pass", "enriched"}
        /\ derived' \ {"enriched"} = derived \ {"enriched"}
    BY <1>5 DEF FirstAnswer
  <2> QED
    BY <1>5, <2>1, <2>2, StoryStep DEF FirstAnswer
<1>6. CASE OldAnswer
  <2>1. StoryKept'
    BY <1>6 DEF MigrationsInv, OldAnswer, StoryKept, KeptStory
  <2> QED
    BY <1>6, <2>1, StoryStep DEF OldAnswer
<1> QED
  BY <1>1, <1>2, <1>3, <1>4, <1>5, <1>6, AddRankingKeeps DEF Fill

\* A fill takes cells without a value.
LEMMA FillsKeeps ==
    ASSUME MigrationsInv, NEW c \in FilledColumns, NEW new, Fills(c, new)
    PROVE  MigrationsInv'
<1> USE MigrationsAssumption
<1>1. cells' = [cells EXCEPT ![c].value = IF cells[c].due /\ cells[c].value = Null THEN "filled"
                                          ELSE cells[c].value]
  BY DEF Fills
<1>2. cells' \in [FilledColumns -> [value : Value, due : BOOLEAN]]
  BY <1>1 DEF MigrationsInv, CellsKept, Value
<1>3. \A x \in FilledColumns : cells[x].value = "live" => cells'[x].value = "live"
  BY <1>1 DEF MigrationsInv, CellsKept
<1>4. CellsKept'
  BY <1>2, <1>3 DEF MigrationsInv, CellsKept, Fills
<1>5. StoryKept' /\ LogFits' /\ PreferencesKept' /\ TokensFollow'
  BY DEF MigrationsInv, Fills, StoryKept, KeptStory, LogFits, PreferencesKept, TokensFollow
<1> QED
  BY <1>4, <1>5 DEF MigrationsInv, Fills

LEMMA CellsKeep == MigrationsInv /\ Cells => MigrationsInv'
<1> SUFFICES ASSUME MigrationsInv, Cells PROVE MigrationsInv'
  OBVIOUS
<1>1. CASE AddBreakingReview \/ AddDroppedFromTop \/ AddWordCount \/ AddRssOnly \/ AddYoutubeVideo
  BY <1>1, FillsKeeps DEF AddBreakingReview, AddDroppedFromTop, AddWordCount, AddRssOnly,
     AddYoutubeVideo, FilledColumns
<1>2. ASSUME NEW c \in FilledColumns, WriteCell(c) PROVE MigrationsInv'
  <2>1. cells' = [cells EXCEPT ![c].value = "live"] /\ wrote' = wrote \cup {c}
    BY <1>2 DEF WriteCell
  <2>2. CellsKept'
    BY <2>1 DEF MigrationsInv, CellsKept, Value
  <2>3. c \notin {"multi", "pass", "enriched", "prefs"}
    BY DEF FilledColumns
  <2>4. StoryKept' /\ LogFits' /\ PreferencesKept' /\ TokensFollow'
    BY <1>2, <2>1, <2>3 DEF MigrationsInv, WriteCell, StoryKept, KeptStory, LogFits, PreferencesKept, TokensFollow
  <2> QED
    BY <1>2, <2>2, <2>4 DEF MigrationsInv, WriteCell
<1> QED
  BY <1>1, <1>2 DEF Cells

\* Of two rows for the same push the one at the higher place is deleted, so
\* that the two deletes leave no repeats, whatever was logged.
LEMMA DeletesLeaveNoRepeat ==
    ASSUME NEW log, log \subseteq LogRecord
    PROVE  NoRepeat(DedupDaily(DedupBreaking(log)))
<1> SUFFICES ASSUME NEW a \in DedupDaily(DedupBreaking(log)), NEW b \in DedupDaily(DedupBreaking(log)),
                    SamePush(a, b), a.id # b.id
             PROVE  FALSE
  BY DEF NoRepeat
<1> USE MigrationsAssumption
<1>1. /\ a \in DedupBreaking(log) /\ b \in DedupBreaking(log)
      /\ a \in log /\ b \in log
  BY DEF DedupDaily, DedupBreaking
<1>2. a.id \in Nat /\ b.id \in Nat /\ a.mode \in {"breaking", "daily"} /\ a.mode = b.mode
  BY <1>1 DEF SamePush, LogRecord
<1>3. SamePush(b, a)
  BY DEF SamePush
<1>4. CASE a.id > b.id
  BY <1>1, <1>2, <1>4 DEF DedupDaily, DedupBreaking
<1>5. CASE b.id > a.id
  BY <1>1, <1>2, <1>3, <1>5 DEF DedupDaily, DedupBreaking
<1> QED
  BY <1>2, <1>4, <1>5

LEMMA LogKeeps == MigrationsInv /\ Log => MigrationsInv'
<1> SUFFICES ASSUME MigrationsInv, Log PROVE MigrationsInv'
  OBVIOUS
<1>1. LogFits' /\ UNCHANGED <<story, cells, prefs, tokened, running, wrote, derived>>
  <2>1. ASSUME NEW id \in LogRow, NEW mode \in {"breaking", "daily"}, NEW day \in Date,
               LogPush(id, mode, day)
        PROVE  LogFits'
    <3>1. PICK row \in LogRecord : logged' = logged \cup {row}
      <4> DEFINE row == [id |-> id, mode |-> mode, day |-> day,
                         dated |-> "notification_log.sent_date" \in parts]
      <4>1. row \in LogRecord
        BY DEF LogRecord
      <4>2. logged' = logged \cup {row}
        BY <2>1 DEF LogPush
      <4> QED
        BY <4>1, <4>2
    <3>2. logged' \subseteq LogRecord
      BY <3>1 DEF MigrationsInv, LogFits
    <3> QED
      BY <2>1, <3>2 DEF MigrationsInv, LogFits, LogPush
  <2>2. CASE AddLogIndexes
    <3> DEFINE old == {[r EXCEPT !.dated = TRUE] : r \in logged}
    <3>1. old \subseteq LogRecord
      BY DEF MigrationsInv, LogFits, LogRecord
    <3>2. NoRepeat(DedupDaily(DedupBreaking(old)))
      BY <3>1, DeletesLeaveNoRepeat
    <3>3. logged' = DedupDaily(DedupBreaking(old)) /\ refused' = refused
      BY <2>2, <3>2 DEF AddLogIndexes
    <3>4. DedupDaily(DedupBreaking(old)) \subseteq old
      BY DEF DedupDaily, DedupBreaking
    <3> QED
      <4>1. logged' \subseteq LogRecord
        BY <3>1, <3>3, <3>4
      <4> QED
        BY <2>2, <3>3, <4>1 DEF MigrationsInv, LogFits, AddLogIndexes
  <2> QED
    BY <2>1, <2>2 DEF Log, LogPush, AddLogIndexes
<1>2. StoryKept' /\ CellsKept' /\ PreferencesKept' /\ TokensFollow'
  BY <1>1 DEF MigrationsInv, StoryKept, KeptStory, CellsKept, PreferencesKept, TokensFollow
<1> QED
  BY <1>1, <1>2 DEF MigrationsInv

\* Only what was read with the old key is written, and a reader's document,
\* which has none, is not what was read.
LEMMA ChoiceKeeps == MigrationsInv /\ Choice => MigrationsInv'
<1> SUFFICES ASSUME MigrationsInv, Choice PROVE MigrationsInv'
  OBVIOUS
<1>1. CASE ReadPreferences
  <2>1. running' = [running EXCEPT !.prefs = prefs] /\ prefs \in Preference /\ prefs.old # "none"
    BY <1>1 DEF ReadPreferences, MigrationsInv, PreferencesKept
  <2> QED
    BY <1>1, <2>1 DEF ReadPreferences, rows, MigrationsInv, StoryKept, KeptStory, CellsKept, LogFits,
       PreferencesKept, TokensFollow
<1>2. CASE WritePreferences
  <2>1. running.prefs \in Preference /\ running.prefs.old # "none"
    BY <1>2 DEF WritePreferences, MigrationsInv, PreferencesKept
  <2>2. prefs' \in Preference /\ prefs'.by = "script"
    BY <1>2, <2>1 DEF WritePreferences, Migrated, Preference
  <2>3. "prefs" \in wrote \ derived => prefs # running.prefs
    BY <2>1 DEF MigrationsInv, PreferencesKept
  <2>4. "prefs" \notin wrote' \ derived'
    BY <1>2, <2>3 DEF WritePreferences
  <2>5. "enriched" \in wrote' \ derived' => "enriched" \in wrote \ derived
    BY <1>2 DEF WritePreferences
  <2>6. running' = [running EXCEPT !.prefs = Null]
    BY <1>2 DEF WritePreferences
  <2>7. PreferencesKept'
    BY <2>2, <2>4, <2>6 DEF MigrationsInv, PreferencesKept
  <2>8. StoryKept' /\ CellsKept' /\ LogFits'
    BY <1>2, <2>5 DEF WritePreferences, MigrationsInv, StoryKept, KeptStory, CellsKept, LogFits
  <2>9. TokensFollow'
    BY <1>2, <2>6 DEF WritePreferences, MigrationsInv, TokensFollow
  <2> QED
    BY <2>6, <2>7, <2>8, <2>9 DEF MigrationsInv
<1>3. CASE ChoosePreferences
  <2>1. prefs' \in Preference /\ prefs'.by = "reader" /\ prefs'.old = "none"
    BY <1>3 DEF ChoosePreferences, Preference
  <2>2. /\ wrote' = wrote \cup {"prefs"}
        /\ UNCHANGED <<story, cells, logged, tokened, running, derived, refused>>
    BY <1>3 DEF ChoosePreferences
  <2>3. "prefs" \notin FilledColumns
    BY DEF FilledColumns
  <2> QED
    BY <2>1, <2>2, <2>3 DEF MigrationsInv, StoryKept, KeptStory, CellsKept, LogFits, PreferencesKept, TokensFollow
<1>4. CASE CheckWords
  <2>1. running' = [running EXCEPT !.words = "checked"]
        /\ UNCHANGED <<story, cells, logged, prefs, tokened, wrote, derived, refused>>
    BY <1>4 DEF CheckWords, rows
  <2> QED
    BY <2>1 DEF MigrationsInv, StoryKept, KeptStory, CellsKept, LogFits, PreferencesKept, TokensFollow
<1>5. CASE IndexWords
  <2>1. /\ running' = [running EXCEPT !.words = Null]
        /\ UNCHANGED <<story, cells, logged, prefs, tokened, wrote, derived>>
        /\ refused' \subseteq refused \cup {"IndexWords"}
    BY <1>5 DEF IndexWords, rows
  <2> QED
    BY <2>1 DEF MigrationsInv, StoryKept, KeptStory, CellsKept, LogFits, PreferencesKept, TokensFollow
<1>6. CASE StopScript
  <2>1. /\ running' = [prefs |-> Null, words |-> Null, tokens |-> Null]
        /\ UNCHANGED <<story, cells, logged, prefs, tokened, wrote, derived, refused>>
    BY <1>6 DEF StopScript, rows
  <2> QED
    BY <2>1 DEF MigrationsInv, StoryKept, KeptStory, CellsKept, LogFits, PreferencesKept, TokensFollow
<1>7. ASSUME NEW d \in Date, NEW w \in Word, WriteWord(d, w) PROVE MigrationsInv'
  BY <1>7 DEF WriteWord, MigrationsInv, StoryKept, KeptStory, CellsKept, LogFits, PreferencesKept, TokensFollow
<1> QED
  BY <1>1, <1>2, <1>3, <1>4, <1>5, <1>6, <1>7 DEF Choice

\* A story that the backfill has not reached is ahead of it, or an older poller
\* has made it since.
LEMMA TokensKeep == MigrationsInv /\ Tokens => MigrationsInv'
<1> SUFFICES ASSUME MigrationsInv, Tokens PROVE MigrationsInv'
  OBVIOUS
<1> USE MigrationsAssumption
<1> DEFINE Rest == UNCHANGED <<story, cells, logged, prefs, wrote, derived, refused>>
<1>1. CASE CreateTokens
  BY <1>1, SchemaOnly DEF CreateTokens, MigrationsInv, LogFits
<1>2. CASE StopScript
  BY <1>2, ChoiceKeeps DEF Choice
<1>3. ASSUME Rest, running'.prefs = running.prefs, TokensFollow',
             running' \in [prefs : {Null} \cup Preference, words : {Null, "checked"},
                           tokens : {Null} \cup SUBSET StoryId]
      PROVE  MigrationsInv'
  BY <1>3 DEF MigrationsInv, StoryKept, KeptStory, CellsKept, LogFits, PreferencesKept
<1>4. CASE ReadStories
  <2>1. running' = [running EXCEPT !.tokens = tokened.stories] /\ tokened' = tokened /\ Rest
    BY <1>4 DEF ReadStories, rows
  <2>2. TokensFollow'
    BY <2>1 DEF MigrationsInv, TokensFollow
  <2> QED
    BY <1>3, <2>1, <2>2 DEF MigrationsInv, TokensFollow
<1>5. CASE WriteChunk
  <2>1. PICK s \in running.tokens :
            /\ tokened' = [tokened EXCEPT !.done = @ \cup {s}]
            /\ running' = [running EXCEPT !.tokens = @ \ {s}]
    BY <1>5 DEF WriteChunk
  <2>2. running.tokens # Null /\ running.tokens \subseteq StoryId /\ s \in StoryId
    BY <1>5 DEF WriteChunk, MigrationsInv, TokensFollow
  <2>3. TokensFollow'
    BY <2>1, <2>2 DEF MigrationsInv, TokensFollow
  <2>4. Rest
    BY <1>5 DEF WriteChunk
  <2> QED
    BY <1>3, <2>1, <2>2, <2>3, <2>4 DEF MigrationsInv
<1>6. CASE EndTokens
  <2>1. /\ running.tokens = {} /\ running' = [running EXCEPT !.tokens = Null]
        /\ tokened' = [tokened EXCEPT !.whole = TRUE] /\ Rest
    BY <1>6 DEF EndTokens
  <2>2. ~tokened.missed => tokened.stories \subseteq tokened.done
    BY <2>1 DEF MigrationsInv, TokensFollow
  <2>3. TokensFollow'
    BY <2>1, <2>2 DEF MigrationsInv, TokensFollow
  <2> QED
    BY <1>3, <2>1, <2>3 DEF MigrationsInv
<1>7. CASE DeployPoller
  <2>1. tokened' = [tokened EXCEPT !.today = TRUE] /\ running' = running /\ Rest
    BY <1>7 DEF DeployPoller
  <2>2. TokensFollow'
    BY <2>1 DEF MigrationsInv, TokensFollow
  <2> QED
    BY <1>3, <2>1, <2>2 DEF MigrationsInv
<1>8. ASSUME NEW s \in NewId, NewStory(s) PROVE MigrationsInv'
  <2> DEFINE late == ~ tokened.today /\ (running.tokens # Null \/ tokened.whole)
  <2>1. tokened' = [tokened EXCEPT
           !.stories = @ \cup {s},
           !.done    = IF tokened.today THEN @ \cup {s} ELSE @,
           !.missed  = @ \/ late]
    BY <1>8 DEF NewStory
  <2>2. running' = running /\ Rest
    BY <1>8 DEF NewStory
  <2>3. /\ tokened'.stories = tokened.stories \cup {s} /\ tokened'.whole = tokened.whole
        /\ tokened'.done = IF tokened.today THEN tokened.done \cup {s} ELSE tokened.done
        /\ tokened'.missed = (tokened.missed \/ late) /\ tokened'.today = tokened.today
    BY <2>1 DEF MigrationsInv, TokensFollow
  <2>4. s \in StoryId /\ late \in BOOLEAN
    BY DEF StoryId
  <2>5. tokened' \in [stories : SUBSET StoryId, done : SUBSET StoryId, today : BOOLEAN,
                      missed : BOOLEAN, whole : BOOLEAN]
    BY <2>1, <2>4 DEF MigrationsInv, TokensFollow
  <2>6. TokensFollow'
    BY <2>2, <2>3, <2>5 DEF MigrationsInv, TokensFollow
  <2> QED
    BY <1>3, <2>2, <2>6 DEF MigrationsInv
<1> QED
  BY <1>1, <1>2, <1>4, <1>5, <1>6, <1>7, <1>8 DEF Tokens

\* What the service wrote stays, and what the scripts are for is done when they
\* end, in any order of the scripts, again and after crashes
\* (scripts/add_became_multi_source_at.py:66-74,
\* scripts/add_notification_log_unique_indexes.py:62-96,
\* scripts/add_cluster_tokens_table.py:64-123).
THEOREM DataIsKept == MigrationsSpec => []MigrationsKeepData
<1>1. (\E tables \in SUBSET STRING, due \in BOOLEAN, old \in {"none", "breaking", "daily"} :
          SchemaInit(tables, due, old)) => MigrationsInv
  BY InitMigrationsInv
<1>2. MigrationsInv /\ [SchemaNext]_schemaVars => MigrationsInv'
  <2> SUFFICES ASSUME MigrationsInv, [SchemaNext]_schemaVars PROVE MigrationsInv'
    OBVIOUS
  <2>1. CASE Reading
    BY <2>1, ScriptsThatAdd, AddRankingKeeps
  <2>2. CASE UNCHANGED schemaVars
    BY <2>2, SchemaOnly DEF schemaVars, rows, MigrationsInv, LogFits
  <2> QED
    BY <2>1, <2>2, FeaturesKeep, EventsKeep, FillKeeps, CellsKeep, LogKeeps, ChoiceKeeps, TokensKeep
       DEF SchemaNext
<1>3. MigrationsInv => MigrationsKeepData
  <2> SUFFICES ASSUME MigrationsInv PROVE MigrationsKeepData
    OBVIOUS
  <2>1. LiveValueKept
    BY DEF MigrationsInv, StoryKept, KeptStory, CellsKept, PreferencesKept, LiveValueKept
  <2>2. MigrationSettles
    BY DEF MigrationsInv, LogFits, TokensFollow, MigrationSettles
  <2> QED
    BY <2>1, <2>2 DEF MigrationsKeepData
<1> QED
  BY <1>1, <1>2, <1>3, PTL DEF MigrationsSpec

-----------------------------------------------------------------------------
(* The repairs, for any articles, topics and outlets, with the poller at work  *)
(* all the time.  A story that lost no article to a removed source still has   *)
(* the article it began with (HomesFit), so that a repair cannot empty it; and *)
(* what a repair has read of a story is still so when it writes, unless it is  *)
(* crossed or bare (AtWork).                                                   *)

Places == Articles \cup {NoRow, Deleted}

Scripts == {"none", "runaway", "singletons", "clean", "snippets", "content", "branded",
            "placeholder", "relative", "scheme", "sizes", "videos", "missing"}

ScriptRecord == [name : Scripts, rows : SUBSET Articles, got : SUBSET Articles,
                 seen : [Articles -> Places], was : [Articles -> ClusterRow \cup {NoRow}]]

RepairsTypeOK ==
    /\ home \in [Articles -> Places]
    /\ stories \in [Articles -> ClusterRow \cup {NoRow}]
    /\ page \in [Articles -> PageRow]
    /\ script \in ScriptRecord
    /\ poll \in Loaded \cup {NoRow}
    /\ asked \in [Articles -> {"none", "rules", "model", NoRow}]

HomesFit ==
    /\ \A a \in Articles : home[a] \notin {a, Deleted} => stories[a] = NoRow
    /\ \A a \in Articles : home[a] \in Articles => stories[home[a]] # NoRow
    /\ \A s \in Articles : stories[s] # NoRow /\ s \notin bare => home[s] = s
    /\ poll # NoRow => home[poll.article] = NoRow

\* A story is true to its articles.
IsTrue(s) ==
    /\ stories[s].count = Cardinality(Members(s))
    /\ stories[s].count >= 2 => stories[s].updated = "live"
    /\ Cardinality(Members(s)) = 1 => stories[s].framing = "none"

StoriesAreTrue ==
    \A s \in Articles \ (crossed \cup bare) : stories[s] # NoRow => IsTrue(s)

\* An answer is awaited of a story that had more than one article, and has them
\* still, if it is there, unless two were at work on it.
AskedFits ==
    \A s \in Articles : asked[s] # NoRow =>
        /\ home[s] \in {s, Deleted}
        /\ stories[s] # NoRow /\ s \notin crossed \cup bare => Cardinality(Members(s)) # 1

Seen(s) == {a \in Articles : script.seen[a] = s}

AtWork ==
    /\ script.name = "runaway" =>
         /\ \A a \in Articles : script.seen[a] # NoRow => home[a] \in {script.seen[a], Deleted}
         /\ \A s \in script.rows : script.seen[s] = s /\ Misfits(s, script.seen) # {}
         /\ \A s \in script.rows \ (crossed \cup bare) : stories[s] # NoRow =>
              Members(s) = Seen(s) /\ stories[s].count = script.was[s].count
    /\ script.name = "singletons" =>
         \A s \in script.rows \ (crossed \cup bare) : stories[s] # NoRow => stories[s].count = 1
    /\ script.name = "branded" => \A a \in script.rows : page[a].image = "card"

RepairsInv == RepairsTypeOK /\ HomesFit /\ StoriesAreTrue /\ AskedFits /\ AtWork

LEMMA MembersFinite ==
    ASSUME NEW s \in Articles
    PROVE  IsFiniteSet(Members(s)) /\ Cardinality(Members(s)) \in Nat
<1>1. Members(s) \subseteq Articles /\ IsFiniteSet(Articles)
  BY RepairsAssumption DEF Members
<1> QED
  BY <1>1, FS_Subset, FS_CardinalityType

LEMMA AloneIsRow ==
    ASSUME NEW a \in Articles
    PROVE  Alone(a) \in ClusterRow /\ Alone(a) # NoRow
<1>1. Alone(a) \in ClusterRow
  BY DEF Alone, ClusterRow
<1> QED
  BY <1>1, RepairsAssumption

LEMMA IdleIsScript ==
    /\ Idle \in ScriptRecord /\ Idle.name = "none"
    /\ \A g \in SUBSET Articles :
          [Idle EXCEPT !.got = g] \in ScriptRecord /\ [Idle EXCEPT !.got = g].name = "none"
<1>1. [a \in Articles |-> NoRow] \in [Articles -> Places]
  BY DEF Places
<1>2. PICK f \in [Articles -> Places] : f = [a \in Articles |-> NoRow]
  BY <1>1
<1>3. PICK w \in [Articles -> ClusterRow \cup {NoRow}] : w = [a \in Articles |-> NoRow]
  OBVIOUS
<1>4. Idle = [name |-> "none", rows |-> {}, got |-> {}, seen |-> f, was |-> w]
  BY <1>2, <1>3 DEF Idle
<1> QED
  BY <1>4 DEF Scripts, ScriptRecord

Grown(f, k, e) == [f EXCEPT !.count = k, !.enriched = e, !.updated = "live"]

LEMMA RowGrows ==
    ASSUME NEW f \in ClusterRow, NEW k \in Int, NEW e \in BOOLEAN
    PROVE  /\ Grown(f, k, e) \in ClusterRow /\ Grown(f, k, e) # NoRow
           /\ Grown(f, k, e).count = k /\ Grown(f, k, e).updated = "live"
<1>1. [f EXCEPT !.count = k] \in ClusterRow
  BY DEF ClusterRow
<1>2. [[f EXCEPT !.count = k] EXCEPT !.enriched = e] \in ClusterRow
  BY <1>1 DEF ClusterRow
<1>3. [[[f EXCEPT !.count = k] EXCEPT !.enriched = e] EXCEPT !.updated = "live"] \in ClusterRow
  BY <1>2 DEF ClusterRow
<1>4. Grown(f, k, e) = [[[f EXCEPT !.count = k] EXCEPT !.enriched = e] EXCEPT !.updated = "live"]
  BY DEF ClusterRow, Grown
<1>5. Grown(f, k, e).count = k /\ Grown(f, k, e).updated = "live"
  BY DEF ClusterRow, Grown
<1>6. Grown(f, k, e) \in ClusterRow
  BY <1>3, <1>4
<1> QED
  BY <1>5, <1>6, RepairsAssumption

LEMMA InitRepairsInv ==
    ASSUME NEW known \in SUBSET Articles, NEW first \in [Articles -> PageRow],
           RepairsInit(known, first)
    PROVE  RepairsInv
<1> USE RepairsAssumption
<1>1. RepairsTypeOK
  <2>1. Idle \in ScriptRecord
    BY IdleIsScript
  <2>2. home \in [Articles -> Places] /\ stories \in [Articles -> ClusterRow \cup {NoRow}]
    BY AloneIsRow DEF RepairsInit, Places
  <2> QED
    BY <2>1, <2>2 DEF RepairsInit, RepairsTypeOK
<1>2. HomesFit
  BY AloneIsRow DEF RepairsInit, HomesFit
<1>3. StoriesAreTrue
  <2> SUFFICES ASSUME NEW s \in Articles, stories[s] # NoRow PROVE IsTrue(s)
    BY DEF StoriesAreTrue
  <2>1. s \in known /\ stories[s] = Alone(s)
    BY DEF RepairsInit
  <2>2. Members(s) = {s}
    BY <2>1 DEF RepairsInit, Members
  <2> QED
    BY <2>1, <2>2, FS_Singleton DEF IsTrue, Alone
<1>4. AtWork /\ AskedFits
  BY DEF RepairsInit, AtWork, Idle, AskedFits
<1> QED
  BY <1>1, <1>2, <1>3, <1>4 DEF RepairsInv

-----------------------------------------------------------------------------
(* The poller and the enrichment.                                              *)

LEMMA PublishKeeps ==
    ASSUME RepairsInv, NEW a \in Articles, Publish(a)
    PROVE  RepairsInv'
<1> USE RepairsAssumption
<1>1. /\ home[a] = NoRow /\ poll = NoRow
      /\ home' = [home EXCEPT ![a] = a] /\ stories' = [stories EXCEPT ![a] = Alone(a)]
      /\ UNCHANGED <<page, script, poll, asked, crossed, bare>>
  BY DEF Publish
<1>2. stories[a] = NoRow /\ Members(a) = {}
  <2>1. stories[a] = NoRow
    BY <1>1 DEF RepairsInv, HomesFit
  <2>2. \A x \in Articles : home[x] # a
    BY <2>1 DEF RepairsInv, HomesFit
  <2> QED
    BY <2>1, <2>2 DEF Members
<1>3. RepairsTypeOK'
  BY <1>1, AloneIsRow DEF RepairsInv, RepairsTypeOK, Places
<1>4. HomesFit'
  BY <1>1, <1>2, AloneIsRow DEF RepairsInv, RepairsTypeOK, HomesFit
<1>5. Members(a)' = {a} /\ \A s \in Articles \ {a} : Members(s)' = Members(s)
  <2>1. \A x \in Articles : home'[x] = IF x = a THEN a ELSE home[x]
    BY <1>1 DEF RepairsInv, RepairsTypeOK
  <2>2. \A s \in Articles : NoRow # s
    OBVIOUS
  <2> QED
    BY <1>1, <1>2, <2>1, <2>2 DEF Members
<1>6. \A s \in Articles : stories'[s] = IF s = a THEN Alone(a) ELSE stories[s]
  BY <1>1 DEF RepairsInv, RepairsTypeOK
<1>7. StoriesAreTrue'
  <2> SUFFICES ASSUME NEW s \in Articles \ (crossed \cup bare), stories'[s] # NoRow
               PROVE  IsTrue(s)'
    BY <1>1 DEF StoriesAreTrue
  <2>1. CASE s = a
    BY <1>5, <1>6, <2>1, FS_Singleton DEF IsTrue, Alone
  <2>2. CASE s # a
    BY <1>5, <1>6, <2>2 DEF RepairsInv, StoriesAreTrue, IsTrue
  <2> QED
    BY <2>1, <2>2
<1>8. AtWork'
  <2>1. CASE script.name = "runaway"
    <3>1. script.seen[a] = NoRow
      BY <1>1, <2>1 DEF RepairsInv, RepairsTypeOK, AtWork
    <3>2. a \notin script.rows
      BY <2>1, <3>1 DEF RepairsInv, AtWork
    <3>3. \A s \in Articles : Seen(s)' = Seen(s)
      BY <1>1 DEF Seen
    <3>4. \A x \in Articles : script.seen[x] # NoRow => home'[x] \in {script.seen[x], Deleted}
      BY <1>1, <2>1, <3>1 DEF RepairsInv, RepairsTypeOK, AtWork
    <3>5. \A s \in script.rows \ (crossed \cup bare) : stories'[s] # NoRow =>
              Members(s)' = Seen(s)' /\ stories'[s].count = script.was[s].count
      BY <1>5, <1>6, <2>1, <3>2, <3>3 DEF RepairsInv, RepairsTypeOK, ScriptRecord, AtWork
    <3> QED
      BY <1>1, <2>1, <3>4, <3>5 DEF RepairsInv, AtWork, Misfits
  <2>2. CASE script.name # "runaway"
    BY <1>1, <1>6, <2>2 DEF RepairsInv, RepairsTypeOK, AtWork, Alone
  <2> QED
    BY <2>1, <2>2
<1>9. AskedFits'
  <2> SUFFICES ASSUME NEW s \in Articles, asked[s] # NoRow
               PROVE  /\ home'[s] \in {s, Deleted}
                      /\ stories'[s] # NoRow /\ s \notin crossed \cup bare => Cardinality(Members(s)') # 1
    BY <1>1 DEF AskedFits
  <2>1. home[s] \in {s, Deleted} /\ s # a
    BY <1>1 DEF RepairsInv, AskedFits
  <2>2. home'[s] = home[s]
    BY <1>1, <2>1 DEF RepairsInv, RepairsTypeOK
  <2> QED
    BY <1>5, <1>6, <2>1, <2>2 DEF RepairsInv, AskedFits
<1> QED
  BY <1>3, <1>4, <1>7, <1>8, <1>9 DEF RepairsInv

LEMMA MatchKeeps ==
    ASSUME RepairsInv, NEW a \in Articles, NEW s \in Articles, Match(a, s)
    PROVE  RepairsInv'
<1>1. /\ home[a] = NoRow /\ stories[s] # NoRow
      /\ poll' = [article |-> a, story |-> s, count |-> stories[s].count]
      /\ UNCHANGED <<home, stories, page, script, asked, crossed, bare>>
  BY DEF Match, Rows
<1>2. stories[s].count \in Int
  BY <1>1 DEF RepairsInv, RepairsTypeOK, ScriptRecord, ClusterRow
<1>3. poll' \in Loaded /\ poll'.article = a
  BY <1>1, <1>2 DEF Loaded
<1> QED
  BY <1>1, <1>3 DEF RepairsInv, RepairsTypeOK, HomesFit, StoriesAreTrue, IsTrue, AskedFits, AtWork,
     Members, Seen, Misfits

LEMMA AttachFailsKeeps == RepairsInv /\ AttachFails => RepairsInv'
BY DEF AttachFails, RepairsInv, RepairsTypeOK, HomesFit, StoriesAreTrue, IsTrue, AskedFits, AtWork,
   Members, Seen, Misfits

LEMMA AttachKeeps == RepairsInv /\ Attach => RepairsInv'
<1> SUFFICES ASSUME RepairsInv, Attach PROVE RepairsInv'
  OBVIOUS
<1> USE RepairsAssumption
<1>1. PICK a \in Articles, s \in Articles, k \in Int :
          poll # NoRow /\ poll.article = a /\ poll.story = s /\ poll.count = k
  BY DEF Attach, RepairsInv, RepairsTypeOK, Loaded
<1>2. PICK e \in BOOLEAN :
          stories' = [stories EXCEPT ![s].count = k + 1, ![s].enriched = e, ![s].updated = "live"]
  <2>1. stories[s] \in ClusterRow
    BY <1>1 DEF Attach, RepairsInv, RepairsTypeOK
  <2>2. (IF Joins(poll) THEN FALSE ELSE stories[s].enriched) \in BOOLEAN
    BY <2>1 DEF ClusterRow
  <2> QED
    BY <1>1, <2>2 DEF Attach
<1>3. /\ stories[s] # NoRow /\ stories[s] \in ClusterRow /\ home[a] = NoRow /\ a # s
      /\ home' = [home EXCEPT ![a] = s] /\ poll' = NoRow
      /\ crossed' = IF stories[s].count = k /\ s \notin script.rows THEN crossed
                    ELSE crossed \cup {s}
      /\ UNCHANGED <<page, script, asked, bare>>
  BY <1>1 DEF Attach, RepairsInv, RepairsTypeOK, HomesFit
<1>4. /\ stories'[s] = Grown(stories[s], k + 1, e)
      /\ \A x \in Articles \ {s} : stories'[x] = stories[x]
  BY <1>2 DEF RepairsInv, RepairsTypeOK, Grown
<1>5. /\ stories'[s] \in ClusterRow /\ stories'[s] # NoRow /\ stories'[s].count = k + 1
      /\ stories'[s].updated = "live"
  <2>1. k + 1 \in Int
    OBVIOUS
  <2> QED
    BY <1>3, <1>4, <2>1, RowGrows
<1>6. \A x \in Articles : home'[x] = IF x = a THEN s ELSE home[x]
  BY <1>3 DEF RepairsInv, RepairsTypeOK
<1>7. /\ Members(s)' = Members(s) \cup {a} /\ a \notin Members(s)
      /\ \A x \in Articles \ {s} : Members(x)' = Members(x)
  BY <1>3, <1>6 DEF Members
<1>8. RepairsTypeOK'
  <2>1. stories' \in [Articles -> ClusterRow \cup {NoRow}]
    BY <1>2, <1>4, <1>5 DEF RepairsInv, RepairsTypeOK
  <2> QED
    BY <1>3, <2>1 DEF RepairsInv, RepairsTypeOK, Places
<1>9. HomesFit'
  <2>1. \A x \in Articles : home'[x] \notin {x, Deleted} => stories'[x] = NoRow
    BY <1>3, <1>4, <1>6 DEF RepairsInv, HomesFit
  <2>2. ASSUME NEW x \in Articles, home'[x] \in Articles PROVE stories'[home'[x]] # NoRow
    <3>1. CASE home'[x] = s
      BY <1>5, <3>1
    <3>2. CASE home'[x] # s
      <4>1. home'[x] = home[x]
        BY <1>6, <3>2
      <4>2. stories[home[x]] # NoRow
        BY <2>2, <4>1 DEF RepairsInv, HomesFit
      <4> QED
        BY <1>4, <2>2, <3>2, <4>1, <4>2
    <3> QED
      BY <3>1, <3>2
  <2>3. \A x \in Articles : stories'[x] # NoRow /\ x \notin bare' => home'[x] = x
    BY <1>3, <1>4, <1>5, <1>6 DEF RepairsInv, HomesFit
  <2> QED
    BY <1>3, <2>1, <2>2, <2>3 DEF HomesFit
<1>10. StoriesAreTrue'
  <2> SUFFICES ASSUME NEW x \in Articles \ (crossed' \cup bare'), stories'[x] # NoRow
               PROVE  IsTrue(x)'
    BY DEF StoriesAreTrue
  <2>1. CASE x = s
    <3>1. stories[s].count = k /\ s \notin crossed \cup bare
      BY <1>3, <2>1
    <3>2. IsTrue(s) /\ home[s] = s
      BY <1>3, <3>1 DEF RepairsInv, StoriesAreTrue, HomesFit
    <3>3. Cardinality(Members(s)') = Cardinality(Members(s)) + 1
      BY <1>7, MembersFinite, FS_AddElement
    <3>4. Cardinality(Members(s)) # 0
      <4>1. s \in Members(s)
        BY <3>2 DEF Members
      <4> QED
        BY <4>1, MembersFinite, FS_EmptySet
    <3> QED
      BY <1>5, <2>1, <3>1, <3>2, <3>3, <3>4, MembersFinite DEF IsTrue
  <2>2. CASE x # s
    BY <1>3, <1>4, <1>7, <2>2 DEF RepairsInv, StoriesAreTrue, IsTrue
  <2> QED
    BY <2>1, <2>2
<1>11. AtWork'
  <2>1. \A x \in script.rows \ (crossed' \cup bare') : x # s /\ x \notin crossed \cup bare
    BY <1>3
  <2>2. CASE script.name = "runaway"
    <3>1. script.seen[a] = NoRow
      BY <1>3, <2>2 DEF RepairsInv, AtWork
    <3>2. \A x \in Articles : script.seen[x] # NoRow => home'[x] \in {script.seen[x], Deleted}
      BY <1>6, <2>2, <3>1 DEF RepairsInv, AtWork
    <3>3. \A x \in script.rows \ (crossed' \cup bare') : stories'[x] # NoRow =>
              Members(x)' = Seen(x) /\ stories'[x].count = script.was[x].count
      BY <1>4, <1>7, <2>1, <2>2 DEF RepairsInv, RepairsTypeOK, ScriptRecord, AtWork
    <3> QED
      BY <1>3, <2>2, <3>2, <3>3 DEF RepairsInv, AtWork, Misfits, Seen
  <2>3. CASE script.name # "runaway"
    BY <1>3, <1>4, <2>1, <2>3 DEF RepairsInv, RepairsTypeOK, ScriptRecord, AtWork
  <2> QED
    BY <2>2, <2>3
<1>12. AskedFits'
  <2> SUFFICES ASSUME NEW x \in Articles, asked[x] # NoRow
               PROVE  /\ home'[x] \in {x, Deleted}
                      /\ stories'[x] # NoRow /\ x \notin crossed' \cup bare' => Cardinality(Members(x)') # 1
    BY <1>3 DEF AskedFits
  <2>1. home[x] \in {x, Deleted} /\ x # a
    BY <1>3 DEF RepairsInv, AskedFits
  <2>2. home'[x] \in {x, Deleted}
    BY <1>6, <2>1
  <2>3. ASSUME x = s, s \notin crossed' \cup bare' PROVE Cardinality(Members(s)') # 1
    <3>1. Cardinality(Members(s)') = Cardinality(Members(s)) + 1
      BY <1>7, MembersFinite, FS_AddElement
    <3>2. s \in Members(s)
      BY <1>3, <2>3 DEF RepairsInv, HomesFit, Members
    <3>3. Cardinality(Members(s)) # 0
      BY <3>2, MembersFinite, FS_EmptySet
    <3> QED
      BY <3>1, <3>3, MembersFinite
  <2>4. ASSUME x # s, stories'[x] # NoRow, x \notin crossed' \cup bare' PROVE Cardinality(Members(x)') # 1
    BY <1>3, <1>4, <1>7, <2>4 DEF RepairsInv, AskedFits
  <2> QED
    BY <2>2, <2>3, <2>4
<1> QED
  BY <1>8, <1>9, <1>10, <1>11, <1>12 DEF RepairsInv

\* What was said of a story changes, and nothing else; a comparison is only
\* given to several outlets.
LEMMA FramingOnly ==
    ASSUME RepairsInv, UNCHANGED <<home, page, script, poll, crossed, bare>>,
           asked' \in [Articles -> {"none", "rules", "model", NoRow}],
           \A s \in Articles : asked'[s] \in {asked[s], NoRow},
           stories' \in [Articles -> ClusterRow \cup {NoRow}],
           \A s \in Articles : (stories'[s] = NoRow) = (stories[s] = NoRow),
           \A s \in Articles : stories[s] # NoRow =>
               /\ stories'[s].count = stories[s].count /\ stories'[s].updated = stories[s].updated
               /\ \/ stories'[s].framing \in {stories[s].framing, "none"}
                  \/ s \in crossed \cup bare \/ Cardinality(Members(s)) # 1
    PROVE  RepairsInv'
<1>1. \A s \in Articles : Members(s)' = Members(s)
  BY DEF Members
<1>2. RepairsTypeOK'
  BY DEF RepairsInv, RepairsTypeOK
<1>3. HomesFit'
  BY RepairsAssumption DEF RepairsInv, RepairsTypeOK, HomesFit, Places
<1>4. StoriesAreTrue'
  BY <1>1 DEF RepairsInv, StoriesAreTrue, IsTrue
<1>5. AtWork'
  BY <1>1 DEF RepairsInv, RepairsTypeOK, ScriptRecord, AtWork, Misfits, Seen
<1>6. AskedFits'
  BY <1>1 DEF RepairsInv, AskedFits
<1> QED
  BY <1>2, <1>3, <1>4, <1>5, <1>6 DEF RepairsInv

\* One article is of one outlet.
LEMMA OneOutlet ==
    ASSUME NEW s \in Articles, Cardinality(Members(s)) = 1
    PROVE  Outlets(s) = 1
<1>1. PICK x : Members(s) = {x}
  BY MembersFinite, FS_Singleton
<1>2. {Outlet[a] : a \in Members(s)} = {Outlet[x]}
  BY <1>1
<1> QED
  BY <1>2, FS_Singleton DEF Outlets

LEMMA AskKeeps ==
    ASSUME RepairsInv, NEW s \in Articles, Ask(s)
    PROVE  RepairsInv'
<1> USE RepairsAssumption
<1>1. /\ stories[s] # NoRow /\ stories[s] \in ClusterRow /\ Outlets(s) >= 2
      /\ asked' = [asked EXCEPT ![s] = stories[s].framing]
      /\ UNCHANGED <<home, stories, page, script, poll, crossed, bare>>
  BY DEF Ask, Rows, RepairsInv, RepairsTypeOK
<1>2. stories[s].framing \in {"none", "rules", "model"}
  BY <1>1 DEF ClusterRow
<1>3. RepairsTypeOK' /\ \A x \in Articles \ {s} : asked'[x] = asked[x]
  BY <1>1, <1>2 DEF RepairsInv, RepairsTypeOK
<1>4. home[s] \in {s, Deleted} /\ Cardinality(Members(s)) # 1
  BY <1>1, OneOutlet DEF RepairsInv, HomesFit
<1>5. \A x \in Articles : Members(x)' = Members(x)
  BY <1>1 DEF Members
<1>6. AskedFits'
  BY <1>1, <1>3, <1>4, <1>5 DEF RepairsInv, AskedFits
<1> QED
  BY <1>1, <1>3, <1>6 DEF RepairsInv, HomesFit, StoriesAreTrue, IsTrue, AtWork, Members, Seen, Misfits

LEMMA AnswerKeeps ==
    ASSUME RepairsInv, NEW s \in Articles, Answer(s)
    PROVE  RepairsInv'
<1> USE RepairsAssumption
<1>0. /\ asked[s] # NoRow /\ asked' = [asked EXCEPT ![s] = NoRow]
      /\ UNCHANGED <<home, page, script, poll, crossed, bare>>
  BY DEF Answer
<1>a. /\ asked' \in [Articles -> {"none", "rules", "model", NoRow}]
      /\ \A x \in Articles : asked'[x] \in {asked[x], NoRow}
  BY <1>0 DEF RepairsInv, RepairsTypeOK
<1>b. CASE UNCHANGED stories
  BY <1>0, <1>a, <1>b, FramingOnly DEF RepairsInv, RepairsTypeOK
<1>c. SUFFICES ASSUME s \in Rows,
                      \E answer \in {"rules", "model", "none", "nothing"} :
                          stories' = [stories EXCEPT ![s].framing = Said(answer, asked[s], @),
                                                     ![s].enriched = TRUE]
               PROVE  RepairsInv'
  BY <1>b DEF Answer
<1>d. stories[s] # NoRow /\ stories[s] \in ClusterRow
  BY <1>c DEF Rows, RepairsInv, RepairsTypeOK
<1>1. PICK f \in {"none", "rules", "model"} :
          stories' = [stories EXCEPT ![s].framing = f, ![s].enriched = TRUE]
  <2>1. PICK answer \in {"rules", "model", "none", "nothing"} :
            stories' = [stories EXCEPT ![s].framing = Said(answer, asked[s], stories[s].framing),
                                       ![s].enriched = TRUE]
    BY <1>c
  <2>2. Said(answer, asked[s], stories[s].framing) \in {"none", "rules", "model"}
    BY <1>d DEF Said, ClusterRow
  <2> QED
    BY <2>1, <2>2
<1>3. PICK t \in BOOLEAN : t = TRUE
  OBVIOUS
<1> DEFINE new == [[stories[s] EXCEPT !.framing = f] EXCEPT !.enriched = t]
<1>4. new \in ClusterRow
  <2>1. [stories[s] EXCEPT !.framing = f] \in ClusterRow
    BY <1>d DEF ClusterRow
  <2> QED
    BY <2>1 DEF ClusterRow
<1>5. stories'[s] = new /\ \A x \in Articles \ {s} : stories'[x] = stories[x]
  BY <1>1, <1>d, <1>3 DEF RepairsInv, RepairsTypeOK, ClusterRow
<1>6. new.count = stories[s].count /\ new.updated = stories[s].updated
  BY <1>d DEF ClusterRow
<1>7. s \notin crossed \cup bare => Cardinality(Members(s)) # 1
  BY <1>0, <1>d DEF RepairsInv, AskedFits
<1> HIDE DEF new
<1>8. stories' \in [Articles -> ClusterRow \cup {NoRow}]
  <2>1. stories' = [x \in Articles |-> stories'[x]]
    BY <1>1 DEF RepairsInv, RepairsTypeOK
  <2> QED
    BY <1>4, <1>5, <2>1 DEF RepairsInv, RepairsTypeOK
<1>9. new # NoRow
  BY <1>4
<1>10. \A x \in Articles : (stories'[x] = NoRow) = (stories[x] = NoRow)
  BY <1>d, <1>5, <1>9
<1>11. \A x \in Articles : stories[x] # NoRow =>
          /\ stories'[x].count = stories[x].count /\ stories'[x].updated = stories[x].updated
          /\ \/ stories'[x].framing \in {stories[x].framing, "none"}
             \/ x \in crossed \cup bare \/ Cardinality(Members(x)) # 1
  BY <1>5, <1>6, <1>7
<1> QED
  BY <1>0, <1>a, <1>8, <1>10, <1>11, FramingOnly

LEMMA PurgesKeep == RepairsInv /\ (PurgeFraming \/ ClearRules) => RepairsInv'
<1> SUFFICES ASSUME RepairsInv, PurgeFraming \/ ClearRules PROVE RepairsInv'
  OBVIOUS
<1> USE RepairsAssumption
<1>1. CASE PurgeFraming
  <2>1. \A s \in Articles : stories[s] # NoRow =>
          stories[s] \in ClusterRow /\ [stories[s] EXCEPT !.framing = "none"] \in ClusterRow
    BY DEF RepairsInv, RepairsTypeOK, ClusterRow
  <2>2. \A s \in Articles : stories'[s] =
          IF s \in Rows /\ Outlets(s) < 2 THEN [stories[s] EXCEPT !.framing = "none"] ELSE stories[s]
    BY <1>1 DEF PurgeFraming
  <2>3. stories' \in [Articles -> ClusterRow \cup {NoRow}]
    BY <1>1, <2>1 DEF PurgeFraming, RepairsInv, RepairsTypeOK, Rows
  <2>4. \A s \in Articles : (stories'[s] = NoRow) = (stories[s] = NoRow)
    BY <2>1, <2>2 DEF Rows
  <2>5. \A s \in Articles : stories[s] # NoRow =>
          /\ stories'[s].count = stories[s].count /\ stories'[s].updated = stories[s].updated
          /\ stories'[s].framing \in {stories[s].framing, "none"}
    BY <2>1, <2>2 DEF ClusterRow
  <2> QED
    BY <1>1, <2>3, <2>4, <2>5, FramingOnly DEF PurgeFraming, RepairsInv, RepairsTypeOK
<1>2. CASE ClearRules
  <2> DEFINE cleared(s) == [[stories[s] EXCEPT !.framing = "none"] EXCEPT !.enriched = FALSE]
  <2>1. \A s \in Articles : stories[s] # NoRow =>
          stories[s] \in ClusterRow /\ cleared(s) \in ClusterRow
    <3> SUFFICES ASSUME NEW s \in Articles, stories[s] # NoRow
                 PROVE  stories[s] \in ClusterRow /\ cleared(s) \in ClusterRow
      OBVIOUS
    <3>1. stories[s] \in ClusterRow
      BY DEF RepairsInv, RepairsTypeOK
    <3>2. [stories[s] EXCEPT !.framing = "none"] \in ClusterRow
      BY <3>1 DEF ClusterRow
    <3>3. cleared(s) \in ClusterRow
      BY <3>2 DEF ClusterRow
    <3> QED
      BY <3>1, <3>3
  <2>2. \A s \in Articles : stories'[s] =
          IF s \in Rows /\ stories[s].framing = "rules" THEN cleared(s) ELSE stories[s]
    <3> SUFFICES ASSUME NEW s \in Articles
                 PROVE  stories'[s] = IF s \in Rows /\ stories[s].framing = "rules" THEN cleared(s)
                                      ELSE stories[s]
      OBVIOUS
    <3>1. s \in Rows => [stories[s] EXCEPT !.framing = "none", !.enriched = FALSE] = cleared(s)
      BY <2>1 DEF Rows, ClusterRow
    <3> QED
      BY <1>2, <3>1 DEF ClearRules
  <2>3. \A s \in Articles : stories[s] # NoRow =>
          /\ cleared(s).count = stories[s].count /\ cleared(s).updated = stories[s].updated
          /\ cleared(s).framing = "none"
    BY <2>1 DEF ClusterRow
  <2> HIDE DEF cleared
  <2>4. stories' \in [Articles -> ClusterRow \cup {NoRow}]
    <3>1. stories' = [s \in Articles |-> stories'[s]]
      BY <1>2 DEF ClearRules
    <3> QED
      BY <2>1, <2>2, <3>1 DEF RepairsInv, RepairsTypeOK, Rows
  <2>5. \A s \in Articles : (stories'[s] = NoRow) = (stories[s] = NoRow)
    BY <2>1, <2>2 DEF Rows
  <2>6. \A s \in Articles : stories[s] # NoRow =>
          /\ stories'[s].count = stories[s].count /\ stories'[s].updated = stories[s].updated
          /\ stories'[s].framing \in {stories[s].framing, "none"}
    BY <2>2, <2>3
  <2> QED
    BY <1>2, <2>4, <2>5, <2>6, FramingOnly DEF ClearRules, RepairsInv, RepairsTypeOK
<1> QED
  BY <1>1, <1>2

-----------------------------------------------------------------------------
(* The repairs of stories.                                                     *)

\* A source goes: the stories that it leaves without articles go too.
LEMMA RemovingSourceKeeps ==
    ASSUME RepairsInv, NEW o, RemoveSource(o)
    PROVE  RepairsInv'
<1> USE RepairsAssumption
<1> DEFINE out == {a \in Articles : Stored(a) /\ Outlet[a] = o}
           empty(s) == Members(s) \ out = {}
<1>1. /\ home' = [a \in Articles |-> IF a \in out THEN Deleted ELSE home[a]]
      /\ bare' = (bare \cup {home[a] : a \in out}) \ {s \in Articles : stories'[s] = NoRow}
      /\ UNCHANGED <<page, script, poll, asked, crossed>>
  BY DEF RemoveSource
<1>2. \A s \in Articles :
          stories'[s] = IF stories[s] = NoRow \/ empty(s) THEN NoRow
                        ELSE [stories[s] EXCEPT !.rep = IF stories[s].rep \in out THEN NoRow
                                                        ELSE stories[s].rep]
  BY DEF RemoveSource
<1>3. \A s \in Articles : stories[s] # NoRow => stories[s] \in ClusterRow
  BY DEF RepairsInv, RepairsTypeOK
<1>4. \A s \in Articles : stories'[s] # NoRow =>
          /\ stories[s] # NoRow /\ ~empty(s) /\ stories'[s] \in ClusterRow
          /\ stories'[s].count = stories[s].count /\ stories'[s].updated = stories[s].updated
          /\ stories'[s].framing = stories[s].framing
  <2> SUFFICES ASSUME NEW s \in Articles, stories'[s] # NoRow
               PROVE  /\ stories[s] # NoRow /\ ~empty(s) /\ stories'[s] \in ClusterRow
                      /\ stories'[s].count = stories[s].count /\ stories'[s].updated = stories[s].updated
                      /\ stories'[s].framing = stories[s].framing
    OBVIOUS
  <2>1. stories[s] # NoRow /\ ~empty(s) /\ stories[s] \in ClusterRow
    BY <1>2, <1>3
  <2>2. PICK r \in Articles \cup {NoRow} : stories'[s] = [stories[s] EXCEPT !.rep = r]
    <3>1. (IF stories[s].rep \in out THEN NoRow ELSE stories[s].rep) \in Articles \cup {NoRow}
      BY <2>1 DEF ClusterRow
    <3> QED
      BY <1>2, <2>1, <3>1
  <2> QED
    BY <2>1, <2>2 DEF ClusterRow
<1>5. \A s \in Articles : stories[s] # NoRow /\ ~empty(s) => stories'[s] # NoRow
  <2> SUFFICES ASSUME NEW s \in Articles, stories[s] # NoRow, ~empty(s) PROVE stories'[s] # NoRow
    OBVIOUS
  <2>1. stories[s] \in ClusterRow
    BY <1>3
  <2>2. PICK r \in Articles \cup {NoRow} : stories'[s] = [stories[s] EXCEPT !.rep = r]
    <3>1. (IF stories[s].rep \in out THEN NoRow ELSE stories[s].rep) \in Articles \cup {NoRow}
      BY <2>1 DEF ClusterRow
    <3> QED
      BY <1>2, <3>1
  <2>3. [stories[s] EXCEPT !.rep = r] \in ClusterRow
    BY <2>1 DEF ClusterRow
  <2> QED
    BY <2>2, <2>3
<1>6. \A s \in Articles : Members(s)' = Members(s) \ out
  BY <1>1 DEF Members
<1>7. \A s \in Articles : stories'[s] # NoRow /\ s \notin bare' =>
          s \notin bare /\ Members(s)' = Members(s)
  BY <1>1, <1>6 DEF Members
<1>8. out \subseteq Articles /\ \A a \in out : home[a] \notin {NoRow, Deleted}
  BY DEF Stored
<1> HIDE DEF out, empty
<1>9. RepairsTypeOK'
  <2>1. stories' \in [Articles -> ClusterRow \cup {NoRow}]
    <3>1. stories' = [s \in Articles |-> stories'[s]]
      BY DEF RemoveSource
    <3> QED
      BY <1>4, <3>1
  <2> QED
    BY <1>1, <2>1 DEF RepairsInv, RepairsTypeOK, Places
<1>10. HomesFit'
  <2>1. \A a \in Articles : home'[a] \notin {a, Deleted} => stories'[a] = NoRow
    BY <1>1, <1>2 DEF RepairsInv, HomesFit
  <2>2. \A a \in Articles : home'[a] \in Articles => stories'[home'[a]] # NoRow
    <3> SUFFICES ASSUME NEW a \in Articles, home'[a] \in Articles PROVE stories'[home'[a]] # NoRow
      OBVIOUS
    <3>1. a \notin out /\ home'[a] = home[a]
      BY <1>1
    <3>2. stories[home[a]] # NoRow /\ a \in Members(home[a]) \ out
      BY <3>1 DEF RepairsInv, HomesFit, Members
    <3> QED
      BY <1>5, <3>1, <3>2 DEF empty
  <2>3. \A s \in Articles : stories'[s] # NoRow /\ s \notin bare' => home'[s] = s
    <3> SUFFICES ASSUME NEW s \in Articles, stories'[s] # NoRow, s \notin bare' PROVE home'[s] = s
      OBVIOUS
    <3>1. stories[s] # NoRow /\ s \notin bare /\ Members(s)' = Members(s)
      BY <1>4, <1>7
    <3>2. home[s] = s /\ s \in Members(s)
      BY <3>1 DEF RepairsInv, HomesFit, Members
    <3> QED
      BY <3>1, <3>2 DEF Members
  <2>4. poll' # NoRow => home'[poll'.article] = NoRow
    BY <1>1, <1>8 DEF RepairsInv, RepairsTypeOK, HomesFit, Loaded
  <2> QED
    BY <2>1, <2>2, <2>3, <2>4 DEF HomesFit
<1>11. StoriesAreTrue'
  <2> SUFFICES ASSUME NEW s \in Articles \ (crossed' \cup bare'), stories'[s] # NoRow
               PROVE  IsTrue(s)'
    BY DEF StoriesAreTrue
  <2>1. s \notin crossed \cup bare /\ Members(s)' = Members(s)
    BY <1>1, <1>7
  <2>2. IsTrue(s)
    BY <1>4, <2>1 DEF RepairsInv, StoriesAreTrue
  <2> QED
    BY <1>4, <2>1, <2>2 DEF IsTrue
<1>12. AtWork'
  <2>1. \A s \in script.rows \ (crossed' \cup bare') : stories'[s] # NoRow =>
            /\ s \in script.rows \ (crossed \cup bare) /\ stories[s] # NoRow
            /\ Members(s)' = Members(s) /\ stories'[s].count = stories[s].count
    BY <1>1, <1>4, <1>7 DEF RepairsInv, RepairsTypeOK, ScriptRecord
  <2>2. \A a \in Articles : home'[a] \in {home[a], Deleted}
    BY <1>1
  <2>3. CASE script.name = "runaway"
    <3>1. \A a \in Articles : script.seen[a] # NoRow => home'[a] \in {script.seen[a], Deleted}
      BY <2>2, <2>3 DEF RepairsInv, AtWork
    <3>2. \A s \in script.rows \ (crossed' \cup bare') : stories'[s] # NoRow =>
              Members(s)' = Seen(s) /\ stories'[s].count = script.was[s].count
      BY <2>1, <2>3 DEF RepairsInv, AtWork
    <3> QED
      BY <1>1, <2>3, <3>1, <3>2 DEF RepairsInv, AtWork, Misfits, Seen
  <2>4. CASE script.name # "runaway"
    BY <1>1, <2>1, <2>4 DEF RepairsInv, AtWork
  <2> QED
    BY <2>3, <2>4
<1>13. AskedFits'
  <2> SUFFICES ASSUME NEW s \in Articles, asked[s] # NoRow
               PROVE  /\ home'[s] \in {s, Deleted}
                      /\ stories'[s] # NoRow /\ s \notin crossed' \cup bare' => Cardinality(Members(s)') # 1
    BY <1>1 DEF AskedFits
  <2>1. home[s] \in {s, Deleted} /\ home'[s] \in {home[s], Deleted}
    BY <1>1 DEF RepairsInv, AskedFits
  <2>2. ASSUME stories'[s] # NoRow, s \notin crossed' \cup bare' PROVE Cardinality(Members(s)') # 1
    <3>1. s \notin crossed \cup bare /\ stories[s] # NoRow /\ Members(s)' = Members(s)
      BY <1>1, <1>4, <1>7, <2>2
    <3> QED
      BY <3>1 DEF RepairsInv, AskedFits
  <2> QED
    BY <2>1, <2>2
<1> QED
  BY <1>9, <1>10, <1>11, <1>12, <1>13 DEF RepairsInv

\* A script that has ended, and has changed no more than pages.
LEMMA ScriptEnds ==
    ASSUME RepairsInv, UNCHANGED <<home, stories, poll, asked, crossed, bare>>,
           page' \in [Articles -> PageRow],
           \/ script' = Idle
           \/ script.got \subseteq Articles /\ script' = [Idle EXCEPT !.got = script.got]
    PROVE  RepairsInv'
<1>1. script' \in ScriptRecord /\ script'.name = "none"
  BY IdleIsScript
<1>2. RepairsTypeOK'
  BY <1>1 DEF RepairsInv, RepairsTypeOK
<1>3. AtWork'
  BY <1>1 DEF AtWork
<1> QED
  BY <1>2, <1>3 DEF RepairsInv, HomesFit, StoriesAreTrue, IsTrue, AskedFits, Members

LEMMA SingletonsCommitKeeps == RepairsInv /\ SingletonsCommit => RepairsInv'
<1> SUFFICES ASSUME RepairsInv, SingletonsCommit PROVE RepairsInv'
  OBVIOUS
<1> USE RepairsAssumption
<1>1. /\ script.name = "singletons" /\ script' = Idle
      /\ UNCHANGED <<home, page, poll, asked, crossed, bare>>
      /\ stories' = [s \in Articles |-> IF s \in script.rows /\ stories[s] # NoRow
                                        THEN [stories[s] EXCEPT !.updated = "first"]
                                        ELSE stories[s]]
  BY DEF SingletonsCommit
<1>2. \A s \in Articles : stories[s] # NoRow =>
          /\ stories[s] \in ClusterRow /\ stories'[s] \in ClusterRow /\ stories'[s] # NoRow
          /\ stories'[s].count = stories[s].count /\ stories'[s].framing = stories[s].framing
          /\ s \notin script.rows => stories'[s].updated = stories[s].updated
  <2>1. \A s \in Articles : stories[s] # NoRow => stories[s] \in ClusterRow
    BY DEF RepairsInv, RepairsTypeOK
  <2>2. \A f \in ClusterRow : /\ [f EXCEPT !.updated = "first"] \in ClusterRow
                              /\ [f EXCEPT !.updated = "first"].count = f.count
                              /\ [f EXCEPT !.updated = "first"].framing = f.framing
    BY DEF ClusterRow
  <2>3. \A s \in Articles : stories[s] # NoRow =>
            stories'[s] = IF s \in script.rows THEN [stories[s] EXCEPT !.updated = "first"]
                          ELSE stories[s]
    BY <1>1
  <2> QED
    BY <2>1, <2>2, <2>3
<1>3. \A s \in Articles : stories[s] = NoRow => stories'[s] = NoRow
  BY <1>1
<1>4. stories' \in [Articles -> ClusterRow \cup {NoRow}]
  <2>1. stories' = [s \in Articles |-> stories'[s]]
    BY <1>1
  <2> QED
    BY <1>2, <1>3, <2>1
<1>5. HomesFit'
  BY <1>1, <1>2, <1>3 DEF RepairsInv, RepairsTypeOK, HomesFit, Places
<1>6. StoriesAreTrue'
  <2> SUFFICES ASSUME NEW s \in Articles \ (crossed \cup bare), stories[s] # NoRow PROVE IsTrue(s)'
    BY <1>1, <1>3 DEF StoriesAreTrue
  <2>1. IsTrue(s) /\ Members(s)' = Members(s)
    BY <1>1 DEF RepairsInv, StoriesAreTrue, Members
  <2>2. CASE s \in script.rows
    <3>1. stories'[s].count = 1
      BY <1>1, <1>2, <2>2 DEF RepairsInv, AtWork
    <3> QED
      BY <1>2, <2>1, <3>1 DEF IsTrue
  <2>3. CASE s \notin script.rows
    BY <1>2, <2>1, <2>3 DEF IsTrue
  <2> QED
    BY <2>2, <2>3
<1>7. AtWork' /\ RepairsTypeOK'
  <2>1. script'.name = "none" /\ script' \in ScriptRecord
    BY <1>1, IdleIsScript
  <2> QED
    BY <1>1, <1>4, <2>1 DEF AtWork, RepairsInv, RepairsTypeOK
<1>8. AskedFits'
  BY <1>1, <1>3 DEF RepairsInv, AskedFits, Members
<1> QED
  BY <1>5, <1>6, <1>7, <1>8 DEF RepairsInv

\* A script starts on rows that it has just read.
LEMMA BeginKeeps ==
    ASSUME RepairsInv, NEW name \in Scripts, NEW found \in SUBSET Articles, Begin(name, found),
           name = "runaway" => \A s \in found : home[s] = s /\ Misfits(s, home) # {},
           name = "singletons" => \A s \in found : stories[s].count = 1,
           name = "branded" => \A a \in found : page[a].image = "card"
    PROVE  RepairsInv'
<1>1. /\ script' = [name |-> name, rows |-> found, got |-> {}, seen |-> home, was |-> stories]
      /\ UNCHANGED <<home, stories, page, poll, asked, crossed, bare>>
  BY DEF Begin
<1>2. script' \in ScriptRecord
  BY <1>1 DEF RepairsInv, RepairsTypeOK, ScriptRecord
<1>3. script'.name = name /\ script'.rows = found /\ script'.seen = home /\ script'.was = stories
  BY <1>1
<1>4. \A s \in Articles : Seen(s)' = Members(s) /\ Members(s)' = Members(s)
  BY <1>1, <1>3 DEF Seen, Members
<1>5. AtWork'
  BY <1>1, <1>3, <1>4 DEF AtWork, Misfits
<1> QED
  BY <1>1, <1>2, <1>5 DEF RepairsInv, RepairsTypeOK, HomesFit, StoriesAreTrue, IsTrue, AskedFits, Members

LEMMA RunawayCommitKeeps == RepairsInv /\ RunawayCommit => RepairsInv'
<1> SUFFICES ASSUME RepairsInv, RunawayCommit PROVE RepairsInv'
  OBVIOUS
<1> USE RepairsAssumption
<1> DEFINE out == [s \in script.rows |-> Misfits(s, script.seen)]
           all == UNION {out[s] : s \in script.rows}
<1>1. /\ script.name = "runaway" /\ script' = Idle /\ UNCHANGED <<page, poll, asked, bare>>
      /\ script.rows \subseteq Articles
  BY DEF RunawayCommit, RepairsInv, RepairsTypeOK, ScriptRecord
<1>2. CASE ~ \A a \in all : Stored(a)
  <2>1. UNCHANGED <<home, stories, crossed>>
    BY <1>2 DEF RunawayCommit
  <2> QED
    BY <1>1, <2>1, ScriptEnds DEF RepairsInv, RepairsTypeOK
<1>3. CASE \A a \in all : Stored(a)
  <2>1. /\ home' = [a \in Articles |-> IF a \in all THEN a ELSE home[a]]
        /\ stories' = [s \in Articles |->
               IF s \in all THEN Alone(s)
               ELSE IF s \in script.rows THEN Repaired(s, out[s]) ELSE stories[s]]
        /\ crossed' = crossed \cup {s \in script.rows : Overtaken(s)}
    BY <1>3 DEF RunawayCommit
  \* A misfit is still where it was seen, which is not its own story.
  <2>2. /\ all \subseteq Articles
        /\ \A s \in script.rows : out[s] = Misfits(s, script.seen) /\ out[s] # {} /\ script.seen[s] = s
        /\ \A s \in script.rows : \A a \in out[s] :
               /\ a \in all /\ a \in Articles /\ a # s /\ script.seen[a] = s /\ home[a] = s
        /\ \A a \in all : \E s \in script.rows : a \in out[s]
    <3>1. \A s \in script.rows : \A a \in out[s] : a \in all
      OBVIOUS
    <3>2. \A a \in all : \E s \in script.rows : a \in out[s]
      OBVIOUS
    <3>3. \A s \in script.rows : out[s] = Misfits(s, script.seen) /\ out[s] # {} /\ script.seen[s] = s
      BY <1>1 DEF RepairsInv, AtWork
    <3>4. \A s \in script.rows : \A a \in Misfits(s, script.seen) :
              a \in Articles /\ a # s /\ script.seen[a] = s
      BY DEF Misfits
    <3>5. \A s \in script.rows : \A a \in out[s] : home[a] = s
      <4> SUFFICES ASSUME NEW s \in script.rows, NEW a \in out[s] PROVE home[a] = s
        OBVIOUS
      <4>1. a \in Articles /\ script.seen[a] = s /\ Stored(a) /\ s # NoRow
        BY <1>1, <1>3, <3>1, <3>3, <3>4
      <4> QED
        BY <1>1, <4>1 DEF RepairsInv, AtWork, Stored
    <3> QED
      BY <3>1, <3>2, <3>3, <3>4, <3>5
  <2> HIDE DEF out, all
  <2>3. \A s \in script.rows : s \notin all /\ s \in Articles /\ stories[s] # NoRow
    <3> SUFFICES ASSUME NEW s \in script.rows PROVE s \notin all /\ stories[s] # NoRow
      BY <1>1
    <3>1. PICK a \in out[s] : home[a] = s
      BY <2>2
    <3>2. stories[s] # NoRow
      BY <1>1, <2>2, <3>1 DEF RepairsInv, HomesFit
    <3>3. ASSUME s \in all PROVE FALSE
      <4>1. PICK t \in script.rows : s \in out[t]
        BY <2>2, <3>3
      <4> QED
        BY <2>2, <4>1
    <3> QED
      BY <3>2, <3>3
  <2>4. \A a \in all : stories[a] = NoRow /\ Members(a) = {}
    <3> SUFFICES ASSUME NEW a \in all PROVE stories[a] = NoRow /\ Members(a) = {}
      OBVIOUS
    <3>1. a \in Articles /\ home[a] # a /\ home[a] \in Articles
      BY <1>1, <2>2
    <3>2. stories[a] = NoRow
      BY <3>1 DEF RepairsInv, HomesFit
    <3> QED
      BY <3>1, <3>2 DEF RepairsInv, HomesFit, Members
  <2>5. \A a \in Articles : home'[a] = IF a \in all THEN a ELSE home[a]
    BY <2>1
  \* What is left of a story, and what is not touched.
  <2>6. \A a \in all : Members(a)' = {a}
    <3> SUFFICES ASSUME NEW a \in all PROVE Members(a)' = {a}
      OBVIOUS
    <3>1. \A x \in Articles : home[x] # a
      BY <2>4 DEF Members
    <3>2. \A x \in Articles : home'[x] = a <=> x = a
      BY <2>5, <3>1
    <3>3. Members(a)' = {x \in Articles : home'[x] = a} /\ a \in Articles
      BY <2>2 DEF Members
    <3> QED
      BY <3>2, <3>3, Zenon
  <2>7. \A s \in script.rows : Members(s)' = Members(s) \ out[s]
    <3> SUFFICES ASSUME NEW s \in script.rows PROVE Members(s)' = Members(s) \ out[s]
      OBVIOUS
    <3>1. \A a \in all : home[a] = s => a \in out[s]
      <4> SUFFICES ASSUME NEW a \in all, home[a] = s PROVE a \in out[s]
        OBVIOUS
      <4>1. PICK t \in script.rows : a \in out[t]
        BY <2>2
      <4> QED
        BY <2>2, <4>1
    <3>2. \A x \in Articles : home'[x] = s <=> home[x] = s /\ x \notin out[s]
      <4> SUFFICES ASSUME NEW x \in Articles PROVE home'[x] = s <=> home[x] = s /\ x \notin out[s]
        OBVIOUS
      <4>1. x \in out[s] => x \in all
        BY <2>2
      <4> QED
        BY <2>3, <2>5, <3>1, <4>1
    <3> QED
      BY <3>2 DEF Members
  <2>8. \A s \in Articles : s \notin all /\ s \notin script.rows => Members(s)' = Members(s)
    <3> SUFFICES ASSUME NEW s \in Articles, s \notin all, s \notin script.rows
                 PROVE  Members(s)' = Members(s)
      OBVIOUS
    <3>1. \A a \in all : home[a] # s
      <4> SUFFICES ASSUME NEW a \in all PROVE home[a] # s
        OBVIOUS
      <4>1. PICK t \in script.rows : a \in out[t]
        BY <2>2
      <4> QED
        BY <2>2, <4>1
    <3>2. \A x \in Articles : home'[x] = s <=> home[x] = s
      BY <2>5, <3>1
    <3> QED
      BY <3>2 DEF Members
  <2>9. \A a \in all : stories'[a] = Alone(a)
    BY <2>1, <2>2
  <2>10. \A s \in Articles : s \notin all /\ s \notin script.rows => stories'[s] = stories[s]
    BY <2>1
  <2> DEFINE left(s) == Cardinality({a \in Articles : script.seen[a] = s} \ out[s])
  <2>11. \A s \in script.rows :
            /\ stories'[s] \in ClusterRow /\ stories'[s] # NoRow
            /\ script.was[s].count # left(s) => stories'[s].count = left(s)
            /\ left(s) <= 1 => \/ stories'[s].framing = "none"
                               \/ script.was[s].framing = "none" /\ stories[s].framing # "none"
            /\ left(s) > 1 => stories'[s].updated = "live"
    <3> SUFFICES ASSUME NEW s \in script.rows
                 PROVE  /\ stories'[s] \in ClusterRow /\ stories'[s] # NoRow
                        /\ script.was[s].count # left(s) => stories'[s].count = left(s)
                        /\ left(s) <= 1 => \/ stories'[s].framing = "none"
                                           \/ script.was[s].framing = "none" /\ stories[s].framing # "none"
                        /\ left(s) > 1 => stories'[s].updated = "live"
      OBVIOUS
    <3>1. stories'[s] = Repaired(s, out[s]) /\ stories[s] \in ClusterRow
      BY <2>1, <2>3 DEF RepairsInv, RepairsTypeOK
    <3>2. left(s) \in Nat
      <4>1. {a \in Articles : script.seen[a] = s} \ out[s] \subseteq Articles
        OBVIOUS
      <4> QED
        BY <4>1, FS_Subset, FS_CardinalityType
    <3>a. /\ stories[s].count \in Int /\ stories[s].framing \in {"none", "rules", "model"}
          /\ stories[s].updated \in {"first", "live"}
      BY <3>1 DEF ClusterRow
    <3>3. PICK k \in Int, f \in {"none", "rules", "model"}, u \in {"first", "live"} :
              /\ k = Assigned(script.was[s].count, left(s), stories[s].count)
              /\ f = IF left(s) <= 1 THEN Assigned(script.was[s].framing, "none", stories[s].framing)
                     ELSE stories[s].framing
              /\ u = IF left(s) <= 1 THEN Assigned(script.was[s].updated, "first", stories[s].updated)
                     ELSE "live"
      <4> DEFINE n == left(s)
                 was == script.was[s]
      <4>1. n \in Int /\ Assigned(was.count, n, stories[s].count) \in {n, stories[s].count}
        BY <3>2 DEF Assigned
      <4>2. Assigned(was.framing, "none", stories[s].framing) \in {"none", "rules", "model"}
        BY <3>a DEF Assigned
      <4>3. Assigned(was.updated, "first", stories[s].updated) \in {"first", "live"}
        BY <3>a DEF Assigned
      <4> HIDE DEF n, was
      <4>4. Assigned(was.count, n, stories[s].count) \in Int
        BY <3>a, <4>1
      <4>5. (IF n <= 1 THEN Assigned(was.framing, "none", stories[s].framing) ELSE stories[s].framing)
              \in {"none", "rules", "model"}
        BY <3>a, <4>2
      <4>6. (IF n <= 1 THEN Assigned(was.updated, "first", stories[s].updated) ELSE "live")
              \in {"first", "live"}
        BY <4>3
      <4> QED
        BY <4>4, <4>5, <4>6, Zenon DEF n, was
    <3>4. stories'[s] = [stories[s] EXCEPT !.count = k, !.framing = f, !.updated = u]
      BY <3>1, <3>3 DEF Repaired
    <3> HIDE DEF left
    <3>5. [stories[s] EXCEPT !.count = k] \in ClusterRow
      BY <3>1 DEF ClusterRow
    <3>6. [[stories[s] EXCEPT !.count = k] EXCEPT !.framing = f] \in ClusterRow
      BY <3>5 DEF ClusterRow
    <3>7. [[[stories[s] EXCEPT !.count = k] EXCEPT !.framing = f] EXCEPT !.updated = u] \in ClusterRow
      BY <3>6 DEF ClusterRow
    <3>8. stories'[s] = [[[stories[s] EXCEPT !.count = k] EXCEPT !.framing = f] EXCEPT !.updated = u]
      BY <3>1, <3>4 DEF ClusterRow
    <3>9. stories'[s].count = k /\ stories'[s].framing = f /\ stories'[s].updated = u
      BY <3>1, <3>4 DEF ClusterRow
    <3>10. stories'[s] \in ClusterRow
      BY <3>7, <3>8
    <3>11. script.was[s].count # left(s) => k = left(s)
      BY <3>3 DEF Assigned
    <3>12. left(s) <= 1 => f = "none" \/ (script.was[s].framing = "none" /\ stories[s].framing # "none")
      BY <3>3 DEF Assigned
    <3>13. left(s) > 1 => u = "live"
      BY <3>2, <3>3
    <3> QED
      BY <3>9, <3>10, <3>11, <3>12, <3>13
  <2>12. RepairsTypeOK'
    <3>1. stories' = [s \in Articles |-> stories'[s]]
      BY <2>1
    <3>2. \A s \in Articles : stories'[s] \in ClusterRow \cup {NoRow}
      BY <2>9, <2>10, <2>11, AloneIsRow DEF RepairsInv, RepairsTypeOK
    <3>3. home' \in [Articles -> Places]
      BY <2>1 DEF RepairsInv, RepairsTypeOK, Places
    <3> QED
      BY <1>1, <3>1, <3>2, <3>3, IdleIsScript DEF RepairsInv, RepairsTypeOK
  <2>13. HomesFit'
    <3>1. \A a \in Articles : home'[a] \notin {a, Deleted} => stories'[a] = NoRow
      <4> SUFFICES ASSUME NEW a \in Articles, home'[a] \notin {a, Deleted} PROVE stories'[a] = NoRow
        OBVIOUS
      <4>1. a \notin all /\ home[a] \notin {a, Deleted}
        BY <2>5
      <4>2. stories[a] = NoRow
        BY <4>1 DEF RepairsInv, HomesFit
      <4> QED
        BY <2>3, <2>10, <4>1, <4>2
    <3>2. \A a \in Articles : home'[a] \in Articles => stories'[home'[a]] # NoRow
      <4> SUFFICES ASSUME NEW a \in Articles, home'[a] \in Articles PROVE stories'[home'[a]] # NoRow
        OBVIOUS
      <4>1. CASE a \in all
        BY <2>5, <2>9, <4>1, AloneIsRow
      <4>2. CASE a \notin all
        <5>1. home'[a] = home[a] /\ stories[home[a]] # NoRow
          BY <2>5, <4>2 DEF RepairsInv, HomesFit
        <5>2. home[a] \notin all
          BY <2>4, <5>1
        <5> QED
          BY <2>10, <2>11, <5>1, <5>2
      <4> QED
        BY <4>1, <4>2
    <3>3. \A s \in Articles : stories'[s] # NoRow /\ s \notin bare' => home'[s] = s
      <4> SUFFICES ASSUME NEW s \in Articles, stories'[s] # NoRow, s \notin bare PROVE home'[s] = s
        BY <1>1
      <4>1. CASE s \in all
        BY <2>5, <4>1
      <4>2. CASE s \notin all
        <5>1. stories[s] # NoRow
          BY <2>3, <2>10, <4>2
        <5> QED
          BY <2>5, <4>2, <5>1 DEF RepairsInv, HomesFit
      <4> QED
        BY <4>1, <4>2
    <3>4. poll' # NoRow => home'[poll'.article] = NoRow
      <4> SUFFICES ASSUME poll # NoRow PROVE home'[poll.article] = NoRow
        BY <1>1
      <4>1. poll.article \in Articles /\ home[poll.article] = NoRow
        BY DEF RepairsInv, RepairsTypeOK, HomesFit, Loaded
      <4>2. ASSUME poll.article \in all PROVE FALSE
        <5>1. PICK t \in script.rows : poll.article \in out[t]
          BY <2>2, <4>2
        <5>2. home[poll.article] = t
          BY <2>2, <5>1
        <5> QED
          BY <1>1, <4>1, <5>2
      <4> QED
        BY <2>5, <4>1, <4>2
    <3> QED
      BY <3>1, <3>2, <3>3, <3>4 DEF HomesFit
  <2>14. StoriesAreTrue'
    <3> SUFFICES ASSUME NEW s \in Articles \ (crossed' \cup bare'), stories'[s] # NoRow
                 PROVE  IsTrue(s)'
      BY DEF StoriesAreTrue
    <3>1. s \notin crossed \cup bare
      BY <1>1, <2>1
    <3>2. CASE s \in all
      <4>1. stories'[s] = Alone(s) /\ Members(s)' = {s}
        BY <2>6, <2>9, <3>2
      <4> QED
        BY <4>1, FS_Singleton DEF IsTrue, Alone
    <3>3. CASE s \in script.rows
      <4>1. Members(s) = Seen(s)
        BY <1>1, <2>3, <3>1, <3>3 DEF RepairsInv, AtWork
      <4>2. Cardinality(Members(s)') = left(s)
        BY <2>7, <3>3, <4>1 DEF Seen
      <4> HIDE DEF left
      \* A misfit goes, so that the count it writes is not the one it had loaded.
      <4>a. script.was[s].count # left(s)
        <5>1. stories[s].count = script.was[s].count /\ IsTrue(s)
          BY <1>1, <2>3, <3>1, <3>3 DEF RepairsInv, AtWork, StoriesAreTrue
        <5>2. Members(s)' = Members(s) \ out[s]
          BY <2>7, <3>3
        <5>3. PICK a : a \in out[s]
          BY <2>2, <3>3
        <5>4. a \in Members(s)
          BY <2>2, <3>3, <5>3 DEF Members
        <5>5. Members(s)' \subseteq Members(s) /\ Members(s)' # Members(s)
          BY <5>2, <5>3, <5>4
        <5>6. Cardinality(Members(s)') < Cardinality(Members(s))
          <6>1. PICK kept1 : kept1 = Members(s)'
            OBVIOUS
          <6>2. kept1 \in SUBSET Members(s) /\ kept1 # Members(s) /\ IsFiniteSet(Members(s))
            BY <1>1, <3>3, <5>5, <6>1, MembersFinite
          <6>3. /\ IsFiniteSet(kept1) /\ Cardinality(kept1) <= Cardinality(Members(s))
                /\ Cardinality(kept1) # Cardinality(Members(s))
            BY <6>2, FS_Subset
          <6>4. Cardinality(kept1) \in Nat /\ Cardinality(Members(s)) \in Nat
            BY <6>2, <6>3, FS_CardinalityType
          <6> QED
            BY <6>1, <6>3, <6>4
        <5>7. Cardinality(Members(s)) \in Nat /\ Cardinality(Members(s)) = stories[s].count
          BY <5>1, MembersFinite DEF IsTrue
        <5> QED
          BY <4>2, <5>1, <5>6, <5>7
      <4>b. ~(script.was[s].framing = "none" /\ stories[s].framing # "none")
        BY <2>1, <3>3 DEF Overtaken
      <4>3. left(s) \in Nat
        <5>1. Members(s)' \subseteq Articles
          BY <2>7, <3>3 DEF Members
        <5> QED
          BY <4>2, <5>1, FS_Subset, FS_CardinalityType
      <4> QED
        BY <2>11, <3>3, <4>2, <4>3, <4>a, <4>b DEF IsTrue
    <3>4. CASE s \notin all /\ s \notin script.rows
      BY <2>8, <2>10, <3>1, <3>4 DEF RepairsInv, StoriesAreTrue, IsTrue
    <3> QED
      BY <3>2, <3>3, <3>4
  <2>15. AtWork'
    BY <1>1, IdleIsScript DEF AtWork
  <2>16. AskedFits'
    <3> SUFFICES ASSUME NEW s \in Articles, asked[s] # NoRow
                 PROVE  /\ home'[s] \in {s, Deleted}
                        /\ stories'[s] # NoRow /\ s \notin crossed' \cup bare' => Cardinality(Members(s)') # 1
      BY <1>1 DEF AskedFits
    <3>1. home[s] \in {s, Deleted}
      BY DEF RepairsInv, AskedFits
    <3>2. s \notin all
      <4> SUFFICES ASSUME s \in all PROVE FALSE
        OBVIOUS
      <4>1. PICK t \in script.rows : s \in out[t]
        BY <2>2
      <4> QED
        BY <1>1, <2>2, <3>1, <4>1
    <3>3. home'[s] \in {s, Deleted}
      BY <2>5, <3>1, <3>2
    <3>4. ASSUME stories'[s] # NoRow, s \notin crossed' \cup bare' PROVE Cardinality(Members(s)') # 1
      <4>1. s \notin script.rows
        BY <2>1, <3>4 DEF Overtaken
      <4>2. Members(s)' = Members(s) /\ stories[s] # NoRow /\ s \notin crossed \cup bare
        BY <1>1, <2>1, <2>8, <2>10, <3>2, <3>4, <4>1
      <4> QED
        BY <4>2 DEF RepairsInv, AskedFits
    <3> QED
      BY <3>3, <3>4
  <2> QED
    BY <2>12, <2>13, <2>14, <2>15, <2>16 DEF RepairsInv
<1> QED
  BY <1>2, <1>3

LEMMA RegroupKeeps == RepairsInv /\ Regroup => RepairsInv'
<1> SUFFICES ASSUME RepairsInv, Regroup PROVE RepairsInv'
  OBVIOUS
<1>1. CASE RunawayBegin(Least)
  <2> DEFINE found == {s \in Rows : stories[s].count >= Least /\ Misfits(s, home) # {}}
  <2>1. \A s \in found : s \in Articles /\ home[s] = s /\ Misfits(s, home) # {}
    BY DEF Rows, Misfits
  <2>2. Begin("runaway", found) /\ found \in SUBSET Articles /\ "runaway" \in Scripts
    BY <1>1, <2>1 DEF RunawayBegin, Scripts
  <2> QED
    BY <2>1, <2>2, BeginKeeps
<1>2. CASE SingletonsBegin
  <2> DEFINE found == {s \in Rows : stories[s].count = 1 /\ stories[s].updated # "first"}
  <2>1. Begin("singletons", found) /\ found \in SUBSET Articles /\ "singletons" \in Scripts
    BY <1>2 DEF SingletonsBegin, Rows, Scripts
  <2> QED
    BY <2>1, BeginKeeps
<1>3. CASE Crash
  BY <1>3, ScriptEnds DEF Crash, RepairsInv, RepairsTypeOK
<1> QED
  BY <1>1, <1>2, <1>3, PublishKeeps, MatchKeeps, AttachKeeps, AttachFailsKeeps, AskKeeps, AnswerKeeps,
     RunawayCommitKeeps, SingletonsCommitKeeps, PurgesKeep, RemovingSourceKeeps DEF Regroup

-----------------------------------------------------------------------------
(* The scripts on texts, pictures and videos.                                  *)

\* What may become of a page: what is good of it stays.
Improves(p, q) ==
    /\ q \in PageRow
    /\ p.snippet = "clean" => q.snippet = "clean"
    /\ p.content = "clean" => q.content = "clean"
    /\ p.image = "own" => q.image = "own" \/ (script.name = "missing" /\ q.image # "none")
    /\ p.video \in {"https", "youtube"} => q.video # "none"

PagesImprove == \A a \in Articles : Improves(page[a], page'[a])

LEMMA PagesStay == RepairsInv /\ UNCHANGED page => PagesImprove
BY DEF RepairsInv, RepairsTypeOK, PagesImprove, Improves

LEMMA ScriptWrites ==
    ASSUME RepairsInv, UNCHANGED <<home, stories, poll, asked, crossed, bare>>,
           page' = [a \in Articles |-> page'[a]],
           \A a \in Articles : page'[a] = page[a] \/ Improves(page[a], page'[a]),
           script' = Idle
    PROVE  RepairsInv' /\ PagesImprove
<1>1. PagesImprove
  BY DEF RepairsInv, RepairsTypeOK, PagesImprove, Improves
<1>2. page' \in [Articles -> PageRow]
  BY <1>1 DEF PagesImprove, Improves
<1> QED
  BY <1>1, <1>2, ScriptEnds

\* What each script makes of a page.
LEMMA Rewrites ==
    ASSUME NEW p \in PageRow
    PROVE  /\ Improves(p, [p EXCEPT !.snippet = Unsigned(p.snippet)])
           /\ Improves(p, [p EXCEPT !.snippet = Clean(p.snippet)])
           /\ Improves(p, [p EXCEPT !.content = Clean(p.content)])
           /\ p.image # "own" => Improves(p, [p EXCEPT !.image = "none"])
           /\ Improves(p, [p EXCEPT !.video = "https"])
           /\ Improves(p, [p EXCEPT !.size = "known"])
<1>1. Improves(p, [p EXCEPT !.snippet = Unsigned(p.snippet)])
  BY DEF Improves, PageRow, Unsigned
<1>2. Improves(p, [p EXCEPT !.snippet = Clean(p.snippet)])
  BY DEF Improves, PageRow, Clean
<1>3. Improves(p, [p EXCEPT !.content = Clean(p.content)])
  BY DEF Improves, PageRow, Clean
<1>4. p.image # "own" => Improves(p, [p EXCEPT !.image = "none"])
  BY DEF Improves, PageRow
<1>5. Improves(p, [p EXCEPT !.video = "https"])
  BY DEF Improves, PageRow
<1>6. Improves(p, [p EXCEPT !.size = "known"])
  BY DEF Improves, PageRow
<1> QED
  BY <1>1, <1>2, <1>3, <1>4, <1>5, <1>6

LEMMA RescrapedImproves ==
    ASSUME NEW p \in PageRow, NEW image \in {"card", "shared", "own", "none"}, script.name = "missing"
    PROVE  Improves(p, Rescraped(p, image))
<1>1. PICK i \in {"card", "shared", "own", "none"} :
          i = (IF image = "none" THEN p.image ELSE image) /\ (p.image = "own" => i # "none")
  BY DEF PageRow
<1>2. Rescraped(p, image) = [p EXCEPT !.content = "clean", !.image = i]
  BY <1>1 DEF Rescraped
<1>3. [p EXCEPT !.content = "clean"] \in PageRow
  BY DEF PageRow
<1>4. [[p EXCEPT !.content = "clean"] EXCEPT !.image = i] \in PageRow
  BY <1>3 DEF PageRow
<1>5. Rescraped(p, image) = [[p EXCEPT !.content = "clean"] EXCEPT !.image = i]
  BY <1>2 DEF PageRow
<1>6. /\ Rescraped(p, image).content = "clean" /\ Rescraped(p, image).image = i
      /\ Rescraped(p, image).snippet = p.snippet /\ Rescraped(p, image).video = p.video
  BY <1>2 DEF PageRow
<1> QED
  BY <1>1, <1>4, <1>5, <1>6 DEF Improves

LEMMA FoundImproves ==
    ASSUME NEW p \in PageRow, NEW v \in {"youtube", "https"}
    PROVE  Improves(p, Found(p, v))
<1>1. PICK s \in {NoRow, "yes"}, k \in {"image", "video", "none"} :
          /\ s = IF v = "youtube" THEN "yes" ELSE p.short
          /\ k = IF v = "youtube" THEN p.kind ELSE "video"
  BY DEF PageRow
<1>2. Found(p, v) = [p EXCEPT !.video = v, !.short = s, !.kind = k]
  BY <1>1 DEF Found
<1>3. [p EXCEPT !.video = v] \in PageRow
  BY DEF PageRow
<1>4. [[p EXCEPT !.video = v] EXCEPT !.short = s] \in PageRow
  BY <1>3 DEF PageRow
<1>5. [[[p EXCEPT !.video = v] EXCEPT !.short = s] EXCEPT !.kind = k] \in PageRow
  BY <1>4 DEF PageRow
<1>6. Found(p, v) = [[[p EXCEPT !.video = v] EXCEPT !.short = s] EXCEPT !.kind = k]
  BY <1>2 DEF PageRow
<1>7. /\ Found(p, v).video = v /\ Found(p, v).snippet = p.snippet
      /\ Found(p, v).content = p.content /\ Found(p, v).image = p.image
  BY <1>2 DEF PageRow
<1> QED
  BY <1>5, <1>6, <1>7 DEF Improves

LEMMA BeginsKeep ==
    ASSUME RepairsInv, NEW name \in Scripts \ {"runaway", "singletons", "branded"}, NEW P(_),
           Begin(name, Pages(P))
    PROVE  RepairsInv' /\ PagesImprove
<1>1. Pages(P) \in SUBSET Articles
  BY DEF Pages
<1>2. RepairsInv'
  BY <1>1, BeginKeeps
<1>3. UNCHANGED page
  BY DEF Begin
<1> QED
  BY <1>2, <1>3, PagesStay

LEMMA ScrapesKeep == RepairsInv /\ Scrapes => RepairsInv' /\ PagesImprove
<1> SUFFICES ASSUME RepairsInv, Scrapes PROVE RepairsInv' /\ PagesImprove
  OBVIOUS
<1> USE RepairsAssumption
<1>1. /\ page \in [Articles -> PageRow] /\ script.rows \in SUBSET Articles
      /\ script.got \in SUBSET Articles /\ \A a \in Articles : page[a] \in PageRow
  BY DEF RepairsInv, RepairsTypeOK, ScriptRecord
<1>2. CASE CleanSnippetsBegin
  BY <1>2, BeginsKeep DEF CleanSnippetsBegin, Scripts
<1>3. CASE BackfillSnippetsBegin
  BY <1>3, BeginsKeep DEF BackfillSnippetsBegin, Scripts
<1>4. CASE BackfillContentBegin
  BY <1>4, BeginsKeep DEF BackfillContentBegin, Scripts
<1>5. CASE PlaceholdersBegin
  BY <1>5, BeginsKeep DEF PlaceholdersBegin, Scripts
<1>6. CASE RelativeVideosBegin
  BY <1>6, BeginsKeep DEF RelativeVideosBegin, Scripts
<1>7. CASE FixSchemeBegin
  BY <1>7, BeginsKeep DEF FixSchemeBegin, Scripts
<1>8. CASE DimensionsBegin
  BY <1>8, BeginsKeep DEF DimensionsBegin, Scripts
<1>9. CASE VideosBegin
  BY <1>9, BeginsKeep DEF VideosBegin, Scripts
<1>10. CASE MissingBegin
  BY <1>10, BeginsKeep DEF MissingBegin, Scripts
<1>11. CASE BrandedCardsBegin
  <2> DEFINE found == {a \in Articles : Stored(a) /\ page[a].image = "card"}
  <2>1. Begin("branded", found) /\ found \in SUBSET Articles /\ "branded" \in Scripts
    BY <1>11 DEF BrandedCardsBegin, Pages, Scripts
  <2>2. RepairsInv' /\ UNCHANGED page
    BY <2>1, BeginKeeps DEF Begin
  <2> QED
    BY <2>2, PagesStay
<1>12. CASE CleanSnippetsCommit
  <2>1. /\ page' = [a \in Articles |-> IF a \in script.rows
                      THEN [page[a] EXCEPT !.snippet = Unsigned(page[a].snippet)]
                      ELSE page[a]]
        /\ script' = Idle /\ UNCHANGED <<home, stories, poll, asked, crossed, bare>>
    BY <1>12 DEF CleanSnippetsCommit, Rewrite
  <2> QED
    BY <1>1, <2>1, Rewrites, ScriptWrites
<1>13. CASE BackfillSnippetsCommit
  <2>1. /\ page' = [a \in Articles |-> IF a \in script.rows
                      THEN [page[a] EXCEPT !.snippet = Clean(page[a].snippet)]
                      ELSE page[a]]
        /\ script' = Idle /\ UNCHANGED <<home, stories, poll, asked, crossed, bare>>
    BY <1>13 DEF BackfillSnippetsCommit, Rewrite
  <2> QED
    BY <1>1, <2>1, Rewrites, ScriptWrites
<1>14. CASE BackfillContentCommit
  <2>1. /\ page' = [a \in Articles |-> IF a \in script.rows
                      THEN [page[a] EXCEPT !.content = Clean(page[a].content)]
                      ELSE page[a]]
        /\ script' = Idle /\ UNCHANGED <<home, stories, poll, asked, crossed, bare>>
    BY <1>14 DEF BackfillContentCommit, Rewrite
  <2> QED
    BY <1>1, <2>1, Rewrites, ScriptWrites
<1>15. CASE RelativeVideosCommit
  <2>1. /\ page' = [a \in Articles |-> IF a \in script.rows
                      THEN [page[a] EXCEPT !.video = "https"]
                      ELSE page[a]]
        /\ script' = Idle /\ UNCHANGED <<home, stories, poll, asked, crossed, bare>>
    BY <1>15 DEF RelativeVideosCommit, Rewrite
  <2> QED
    BY <1>1, <2>1, Rewrites, ScriptWrites
<1>16. CASE FixSchemeCommit
  <2>1. /\ page' = [a \in Articles |-> IF a \in script.rows
                      THEN [page[a] EXCEPT !.video = "https"]
                      ELSE page[a]]
        /\ script' = Idle /\ UNCHANGED <<home, stories, poll, asked, crossed, bare>>
    BY <1>16 DEF FixSchemeCommit, Rewrite
  <2> QED
    BY <1>1, <2>1, Rewrites, ScriptWrites
<1>17. CASE BrandedCardsCommit
  <2>1. /\ page' = [a \in Articles |-> IF a \in script.rows
                      THEN [page[a] EXCEPT !.image = "none"]
                      ELSE page[a]]
        /\ script' = Idle /\ UNCHANGED <<home, stories, poll, asked, crossed, bare>>
    BY <1>17 DEF BrandedCardsCommit, Rewrite
  <2>2. \A a \in script.rows : page[a].image = "card"
    BY <1>17 DEF BrandedCardsCommit, Rewrite, RepairsInv, AtWork
  <2> QED
    BY <1>1, <2>1, <2>2, Rewrites, ScriptWrites
<1>18. CASE PlaceholdersCommit
  <2>1. /\ page' = [a \in Articles |-> IF a \in script.rows
                      THEN (IF page[a].image = "shared" THEN [page[a] EXCEPT !.image = "none"] ELSE page[a])
                      ELSE page[a]]
        /\ script' = Idle /\ UNCHANGED <<home, stories, poll, asked, crossed, bare>>
    BY <1>18 DEF PlaceholdersCommit, Rewrite
  <2> QED
    BY <1>1, <2>1, Rewrites, ScriptWrites
<1>19. CASE DimensionsCommit
  <2>1. PICK failed \in {{}, script.rows} :
          page' = [a \in Articles |-> IF a \in script.rows \ failed
                      THEN [page[a] EXCEPT !.size = "known"] ELSE page[a]]
    BY <1>19 DEF DimensionsCommit
  <2> QED
    BY <1>1, <1>19, <2>1, Rewrites, ScriptWrites DEF DimensionsCommit
<1>20. CASE VideosCommit
  <2>1. PICK v \in {"none", "youtube", "https"} :
          page' = [a \in Articles |-> IF a \in script.rows /\ v # "none"
                                      THEN Found(page[a], v) ELSE page[a]]
    BY <1>20 DEF VideosCommit
  <2>2. \A a \in Articles : page'[a] = page[a] \/ Improves(page[a], page'[a])
    BY <1>1, <2>1, FoundImproves
  <2>3. page' = [a \in Articles |-> page'[a]]
    BY <2>1
  <2> QED
    BY <1>20, <2>2, <2>3, ScriptWrites DEF VideosCommit
<1>21. CASE MissingCommit
  <2>1. PICK found \in SUBSET script.got, image \in {"card", "shared", "own", "none"} :
          page' = [a \in Articles |-> IF a \in found THEN Rescraped(page[a], image) ELSE page[a]]
    BY <1>21 DEF MissingCommit
  <2>2. script.name = "missing"
    BY <1>21 DEF MissingCommit
  <2>3. \A a \in Articles : page'[a] = page[a] \/ Improves(page[a], page'[a])
    BY <1>1, <2>1, <2>2, RescrapedImproves
  <2>4. page' = [a \in Articles |-> page'[a]]
    BY <2>1
  <2> QED
    BY <1>21, <2>3, <2>4, ScriptWrites DEF MissingCommit
<1>22. CASE ClearFalseVideos
  <2>1. page' = [a \in Articles |-> page'[a]]
    BY <1>22 DEF ClearFalseVideos
  <2>2. \A a \in Articles : Improves(page[a], page'[a])
    <3> SUFFICES ASSUME NEW a \in Articles PROVE Improves(page[a], page'[a])
      OBVIOUS
    <3>1. CASE page[a].video = "false"
      <4>1. PICK k \in {"image", "none"} :
                page'[a] = [page[a] EXCEPT !.video = "none", !.kind = k]
        BY <1>22, <3>1 DEF ClearFalseVideos
      <4>2. [page[a] EXCEPT !.video = "none"] \in PageRow
        <5>1. PICK p \in PageRow : p = page[a]
          BY <1>1
        <5>2. [p EXCEPT !.video = "none"] \in PageRow
          BY DEF PageRow
        <5> QED
          BY <5>1, <5>2, Zenon
      <4>3. [[page[a] EXCEPT !.video = "none"] EXCEPT !.kind = k] \in PageRow
        BY <4>2 DEF PageRow
      <4>4. page'[a] = [[page[a] EXCEPT !.video = "none"] EXCEPT !.kind = k]
        BY <1>1, <4>1 DEF PageRow
      <4>5. /\ page'[a].snippet = page[a].snippet /\ page'[a].content = page[a].content
            /\ page'[a].image = page[a].image
        BY <1>1, <4>1 DEF PageRow
      <4> QED
        BY <3>1, <4>3, <4>4, <4>5 DEF Improves
    <3>2. CASE page[a].video # "false"
      BY <1>1, <1>22, <3>2 DEF ClearFalseVideos, Improves
    <3> QED
      BY <3>1, <3>2
  <2>3. page' \in [Articles -> PageRow] /\ PagesImprove
    BY <2>1, <2>2 DEF Improves, PagesImprove
  <2>4. RepairsInv'
    <3>1. /\ UNCHANGED <<home, stories, script, poll, asked, crossed, bare>>
          /\ \A a \in Articles : page[a].image = "card" => page'[a].image = "card"
      <4>1. \A a \in Articles : page'[a].image = page[a].image
        BY <1>1, <1>22 DEF ClearFalseVideos, PageRow
      <4> QED
        BY <1>22, <4>1 DEF ClearFalseVideos
    <3> QED
      <4>1. AtWork'
        <5>2. script.name = "runaway" =>
                \A x \in script.rows \ (crossed' \cup bare') : stories'[x] # NoRow =>
                    Members(x)' = Seen(x)' /\ stories'[x].count = script'.was[x].count
          <6> SUFFICES ASSUME script.name = "runaway", NEW x \in script.rows \ (crossed \cup bare),
                              stories[x] # NoRow
                       PROVE  Members(x)' = Seen(x)' /\ stories'[x].count = script'.was[x].count
            BY <3>1
          <6>1. Members(x) = Seen(x) /\ x \in Articles /\ stories[x].count = script.was[x].count
            BY <1>1 DEF RepairsInv, AtWork
          <6> QED
            BY <3>1, <6>1 DEF Members, Seen
        <5>3. script.name = "branded" => \A x \in script.rows : page'[x].image = "card"
          BY <1>1, <3>1 DEF RepairsInv, AtWork
        <5> QED
          BY <3>1, <5>2, <5>3 DEF RepairsInv, AtWork, Misfits
      <4> QED
        BY <2>3, <3>1, <4>1
           DEF RepairsInv, RepairsTypeOK, HomesFit, StoriesAreTrue, IsTrue, AskedFits, Members
  <2> QED
    BY <2>3, <2>4
<1>23. CASE Crash
  <2>1. RepairsInv' /\ UNCHANGED page
    BY <1>1, <1>23, ScriptEnds DEF Crash
  <2> QED
    BY <2>1, PagesStay
<1>24. CASE MissingRaises
  <2>1. RepairsInv' /\ UNCHANGED page
    BY <1>1, <1>24, ScriptEnds DEF MissingRaises
  <2> QED
    BY <2>1, PagesStay
<1>25. ASSUME NEW a \in Articles, MissingFetched(a) PROVE RepairsInv' /\ PagesImprove
  <2>1. /\ script' = [script EXCEPT !.got = script.got \cup {a}]
        /\ UNCHANGED <<home, stories, page, poll, asked, crossed, bare>> /\ script.name = "missing"
    BY <1>25 DEF MissingFetched
  <2>2. script' \in ScriptRecord /\ script'.name = "missing"
    BY <1>1, <2>1 DEF RepairsInv, RepairsTypeOK, ScriptRecord
  <2>3. RepairsInv'
    BY <2>1, <2>2
       DEF RepairsInv, RepairsTypeOK, HomesFit, StoriesAreTrue, IsTrue, AskedFits, AtWork, Members
  <2> QED
    BY <2>1, <2>3, PagesStay
<1> QED
  BY <1>2, <1>3, <1>4, <1>5, <1>6, <1>7, <1>8, <1>9, <1>10, <1>11, <1>12, <1>13, <1>14, <1>15,
     <1>16, <1>17, <1>18, <1>19, <1>20, <1>21, <1>22, <1>23, <1>24, <1>25 DEF Scrapes

\* Stories stay true to their articles and good pages stay, whatever repairs and
\* backfills are run, again and after crashes, while the poller and the
\* enrichment go on (scripts/repair_runaway_clusters.py:47-130,
\* scripts/remove_odishatv_source.py:35-62, scripts/rescrape_video_urls.py:128-212).
THEOREM RepairsKeepStoriesTrue == RepairsSpec => StoriesStayTrue
<1> DEFINE Start == \E known \in SUBSET Articles, first \in [Articles -> PageRow] :
                        RepairsInit(known, first)
           Good == \A a \in Articles :
             /\ page[a].snippet = "clean" => page'[a].snippet = "clean"
             /\ page[a].content = "clean" => page'[a].content = "clean"
             /\ page[a].image = "own" => \/ page'[a].image = "own"
                                        \/ (script.name = "missing" /\ page'[a].image # "none")
             /\ page[a].video \in {"https", "youtube"} => page'[a].video # "none"
<1>1. Start => RepairsInv
  BY InitRepairsInv
<1>2. RepairsInv /\ [Regroup \/ Scrapes]_repairVars => RepairsInv'
  <2> SUFFICES ASSUME RepairsInv, [Regroup \/ Scrapes]_repairVars PROVE RepairsInv'
    OBVIOUS
  <2>1. CASE UNCHANGED repairVars
    BY <2>1 DEF repairVars, RepairsInv, RepairsTypeOK, HomesFit, StoriesAreTrue, IsTrue, AskedFits,
       AtWork, Members, Seen, Misfits
  <2> QED
    BY <2>1, RegroupKeeps, ScrapesKeep
<1>3. RepairsInv => StoryCountsItsOwn /\ FramingIsOfTheStory
  <2> SUFFICES ASSUME RepairsInv PROVE StoryCountsItsOwn /\ FramingIsOfTheStory
    OBVIOUS
  <2>1. \A s \in Articles : Members(s) # {} => stories[s] # NoRow
    BY DEF RepairsInv, HomesFit, Members
  <2>2. StoryCountsItsOwn
    BY <2>1 DEF RepairsInv, StoriesAreTrue, IsTrue, StoryCountsItsOwn
  <2>3. FramingIsOfTheStory
    BY DEF RepairsInv, StoriesAreTrue, IsTrue, FramingIsOfTheStory, Rows
  <2> QED
    BY <2>2, <2>3
<1>4. RepairsInv /\ [Regroup \/ Scrapes]_repairVars => [Good]_page
  <2> SUFFICES ASSUME RepairsInv, [Regroup \/ Scrapes]_repairVars, page' # page PROVE Good
    OBVIOUS
  <2>1. ~ Regroup
    <3>1. \A a \in Articles : Publish(a) => UNCHANGED page
      BY DEF Publish
    <3>2. \A a, s \in Articles : Match(a, s) => UNCHANGED page
      BY DEF Match
    <3>3. \A s \in Articles : Ask(s) \/ Answer(s) => UNCHANGED page
      BY DEF Ask, Answer
    <3>4. Attach \/ AttachFails \/ PurgeFraming \/ ClearRules \/ Crash => UNCHANGED page
      BY DEF Attach, AttachFails, PurgeFraming, ClearRules, Crash
    <3>5. RunawayBegin(Least) \/ SingletonsBegin => UNCHANGED page
      BY DEF RunawayBegin, SingletonsBegin, Begin
    <3>6. RunawayCommit => UNCHANGED page
      BY DEF RunawayCommit
    <3>7. SingletonsCommit => UNCHANGED page
      BY DEF SingletonsCommit
    <3>8. \A a \in Articles : RemoveSource(Outlet[a]) => UNCHANGED page
      BY DEF RemoveSource
    <3> QED
      BY <3>1, <3>2, <3>3, <3>4, <3>5, <3>6, <3>7, <3>8 DEF Regroup
  <2>2. CASE Scrapes
    BY <2>2, ScrapesKeep DEF PagesImprove, Improves
  <2>3. CASE UNCHANGED repairVars
    BY <2>3 DEF repairVars
  <2> QED
    BY <2>1, <2>2, <2>3
<1> HIDE DEF Start, Good
<1>5. Start /\ [][Regroup \/ Scrapes]_repairVars
        => [](StoryCountsItsOwn /\ FramingIsOfTheStory) /\ [][Good]_page
  BY <1>1, <1>2, <1>3, <1>4, PTL
<1> QED
  BY <1>5 DEF Start, Good, RepairsSpec, StoriesStayTrue, GoodPageStays

-----------------------------------------------------------------------------
(* Pages.  What is at most n-th in a finite set, by a strict total order given *)
(* as a set of pairs <<lower, higher>>.                                        *)

Over(S, R, x) == {y \in S : <<x, y>> \in R}
Orders(S, R) ==
    /\ \A x \in S : <<x, x>> \notin R
    /\ \A x, y, z \in S : <<x, y>> \in R /\ <<y, z>> \in R => <<x, z>> \in R
    /\ \A x, y \in S : x # y => <<x, y>> \in R \/ <<y, x>> \in R

LEMMA OverIsSmaller ==
    ASSUME NEW S, IsFiniteSet(S), NEW R, Orders(S, R)
    PROVE  /\ \A x \in S : IsFiniteSet(Over(S, R, x)) /\ Cardinality(Over(S, R, x)) \in Nat
           /\ \A x \in S : Cardinality(Over(S, R, x)) < Cardinality(S)
           /\ \A x, y \in S : <<x, y>> \in R => Cardinality(Over(S, R, y)) < Cardinality(Over(S, R, x))
<1>1. ASSUME NEW U, IsFiniteSet(U), NEW T \in SUBSET U, NEW x \in U, x \notin T
      PROVE  IsFiniteSet(T) /\ Cardinality(T) \in Nat /\ Cardinality(T) < Cardinality(U)
  <2>1. IsFiniteSet(T) /\ Cardinality(T) <= Cardinality(U) /\ (Cardinality(U) = Cardinality(T) => U = T)
    BY <1>1, FS_Subset
  <2>2. U # T
    BY <1>1
  <2>3. Cardinality(T) \in Nat /\ Cardinality(U) \in Nat
    BY <1>1, <2>1, FS_CardinalityType
  <2> QED
    BY <2>1, <2>2, <2>3
<1>2. ASSUME NEW x \in S
      PROVE  /\ IsFiniteSet(Over(S, R, x)) /\ Cardinality(Over(S, R, x)) \in Nat
             /\ Cardinality(Over(S, R, x)) < Cardinality(S)
  <2>1. Over(S, R, x) \in SUBSET S /\ x \notin Over(S, R, x)
    BY DEF Over, Orders
  <2> QED
    BY <1>1, <2>1
<1>3. ASSUME NEW x \in S, NEW y \in S, <<x, y>> \in R
      PROVE  Cardinality(Over(S, R, y)) < Cardinality(Over(S, R, x))
  <2>1. Over(S, R, y) \in SUBSET Over(S, R, x)
    BY <1>3 DEF Over, Orders
  <2>2. y \in Over(S, R, x) /\ y \notin Over(S, R, y)
    BY <1>3 DEF Over, Orders
  <2>3. IsFiniteSet(Over(S, R, x))
    BY <1>2
  <2> QED
    BY <1>1, <2>1, <2>2, <2>3
<1> QED
  BY <1>2, <1>3

(* Each place from the first to the last is somebody's.                        *)
LEMMA EveryPlaceIsTaken ==
    ASSUME NEW S, IsFiniteSet(S), NEW R, Orders(S, R), NEW n \in Nat, n < Cardinality(S)
    PROVE  \E x \in S : Cardinality(Over(S, R, x)) = n
<1> DEFINE f == [x \in S |-> Cardinality(Over(S, R, x))]
           T == 0 .. Cardinality(S) - 1
<1>1. Cardinality(S) \in Nat /\ Cardinality(S) > 0
  BY FS_CardinalityType
<1>2. IsFiniteSet(T) /\ Cardinality(T) = Cardinality(S)
  <2> DEFINE b == Cardinality(S) - 1
  <2>1. b \in Int /\ 0 \in Int /\ ~(0 > b) /\ b - 0 + 1 = Cardinality(S)
    BY <1>1
  <2> HIDE DEF b
  <2>2. IsFiniteSet(0 .. b) /\ Cardinality(0 .. b) = IF 0 > b THEN 0 ELSE b - 0 + 1
    BY <2>1, FS_Interval
  <2>3. IsFiniteSet(0 .. b) /\ Cardinality(0 .. b) = Cardinality(S)
    BY <2>1, <2>2
  <2> QED
    BY <2>3 DEF b
<1>3. f \in [S -> T]
  BY <1>1, OverIsSmaller
<1>4. ASSUME NEW x \in S, NEW y \in S, f[x] = f[y] PROVE x = y
  <2>1. x # y => <<x, y>> \in R \/ <<y, x>> \in R
    BY DEF Orders
  <2>2. f[x] \in Nat /\ f[x] = Cardinality(Over(S, R, x)) /\ f[y] = Cardinality(Over(S, R, y))
    BY OverIsSmaller
  <2>3. (<<x, y>> \in R => f[y] < f[x]) /\ (<<y, x>> \in R => f[x] < f[y])
    BY <2>2, OverIsSmaller
  <2> QED
    BY <1>4, <2>1, <2>2, <2>3
<1>5. f \in Injection(S, T)
  BY <1>3, <1>4 DEF Injection, IsInjective
<1>6. f \in Surjection(S, T)
  BY <1>2, <1>5, FS_Injection
<1>7. n \in T
  BY <1>1
<1>8. PICK x \in S : f[x] = n
  BY <1>6, <1>7 DEF Surjection
<1> QED
  BY <1>8

(* A page of n of them: all, or those down to the n-th.                        *)
FirstOf(S, R, n) == {x \in S : Cardinality(Over(S, R, x)) < n}
EndsAt(S, R, n, x) ==
    /\ x \in S /\ Cardinality(Over(S, R, x)) = n - 1
    /\ FirstOf(S, R, n) = {y \in S : y = x \/ <<x, y>> \in R}

LEMMA PagesEnd ==
    ASSUME NEW S, IsFiniteSet(S), NEW R, Orders(S, R), NEW n \in Nat \ {0}
    PROVE  /\ Cardinality(S) <= n => FirstOf(S, R, n) = S
           /\ Cardinality(S) > n => \E x \in S : EndsAt(S, R, n, x)
           /\ \A x, y \in S : EndsAt(S, R, n, x) /\ y \in FirstOf(S, R, n)
                /\ (\A z \in FirstOf(S, R, n) \ {y} : <<y, z>> \in R) => y = x
           /\ \A x \in S : EndsAt(S, R, n, x) =>
                \A z \in FirstOf(S, R, n) \ {x} : <<x, z>> \in R
<1>0. Cardinality(S) \in Nat
  BY FS_CardinalityType
<1>1. Cardinality(S) <= n => FirstOf(S, R, n) = S
  <2> SUFFICES ASSUME Cardinality(S) <= n, NEW x \in S PROVE Cardinality(Over(S, R, x)) < n
    BY DEF FirstOf
  <2>1. Cardinality(Over(S, R, x)) \in Nat /\ Cardinality(Over(S, R, x)) < Cardinality(S)
    BY OverIsSmaller
  <2> QED
    BY <1>0, <2>1
<1>2. ASSUME Cardinality(S) > n PROVE \E x \in S : EndsAt(S, R, n, x)
  <2>1. n - 1 \in Nat /\ n - 1 < Cardinality(S)
    BY <1>0, <1>2
  <2>2. PICK x \in S : Cardinality(Over(S, R, x)) = n - 1
    BY <2>1, EveryPlaceIsTaken
  <2>3. ASSUME NEW y \in S PROVE y \in FirstOf(S, R, n) <=> y = x \/ <<x, y>> \in R
    <3>1. /\ Cardinality(Over(S, R, y)) \in Nat
          /\ <<x, y>> \in R => Cardinality(Over(S, R, y)) < Cardinality(Over(S, R, x))
          /\ <<y, x>> \in R => Cardinality(Over(S, R, x)) < Cardinality(Over(S, R, y))
      BY OverIsSmaller
    <3>2. x # y => <<x, y>> \in R \/ <<y, x>> \in R
      BY DEF Orders
    <3>3. <<y, x>> \in R => ~(<<x, y>> \in R)
      BY <2>2, <3>1
    <3>4. y \in FirstOf(S, R, n) <=> Cardinality(Over(S, R, y)) < n
      BY DEF FirstOf
    <3> QED
      BY <2>2, <3>1, <3>2, <3>3, <3>4
  <2>4. FirstOf(S, R, n) = {y \in S : y = x \/ <<x, y>> \in R}
    BY <2>3 DEF FirstOf
  <2> QED
    BY <2>2, <2>4 DEF EndsAt
<1>3. ASSUME NEW x \in S, EndsAt(S, R, n, x), NEW z \in FirstOf(S, R, n) \ {x} PROVE <<x, z>> \in R
  BY <1>3 DEF EndsAt
<1>4. ASSUME NEW x \in S, NEW y \in S, EndsAt(S, R, n, x), y \in FirstOf(S, R, n),
             \A z \in FirstOf(S, R, n) \ {y} : <<y, z>> \in R
      PROVE  y = x
  <2>1. x \in FirstOf(S, R, n)
    BY <1>4 DEF EndsAt
  <2>2. x # y => <<y, x>> \in R /\ <<x, y>> \in R
    BY <1>3, <1>4, <2>1
  <2>3. ~(<<y, x>> \in R /\ <<x, y>> \in R)
    BY DEF Orders
  <2> QED
    BY <2>2, <2>3
<1> QED
  BY <1>1, <1>2, <1>3, <1>4

-----------------------------------------------------------------------------
(* The order of a listing.                                                     *)

Key == Int \X Cluster
Cursor == {NoCursor} \cup Key
Judged == Int \X Int \X Cluster

PageRecord == [at : Nat, cursor : Cursor, items : SUBSET Cluster, next : Cursor]
ClientRecord == [listing : Listings \cup {"you"}, cursor : Cursor \cup Judged,
                 state : {"new", "more", "end"}, oldest : Nat, page : Nat, lost : BOOLEAN,
                 who : Caller \cup {Anonymous}, first : SUBSET Cluster, spliced : Cluster \cup {0}]
ExposureRecord == [before : Nat, after : Nat, last : {"none", "full", "glance"}]

FeedTypeOK ==
    /\ cluster \in [Cluster -> StoryRecord] /\ moves \in Nat /\ moved \in [Cluster -> Nat]
    /\ remembered \subseteq PageRecord /\ client \in ClientRecord /\ seen \in [Cluster -> Nat]
    /\ liking \in [Cluster -> {0, 1}]
    /\ snapshot \subseteq Judged /\ IsFiniteSet(snapshot)
    /\ slot \in [Caller -> Cluster \cup {0}]
    /\ exposures \in [Cluster -> [Caller -> ExposureRecord]]
    /\ convinced \in [Cluster -> [by : SUBSET Caller, twice : BOOLEAN]]

RankOrder(listing, S) == {p \in S \X S : Before(Rank(listing, p[1]), Rank(listing, p[2]))}

LEMMA KeysAreNoCursor == NoCursor \notin Key /\ NoCursor \notin Judged
  BY DEF NoCursor, Key, Judged

LEMMA BeforeOrders ==
    ASSUME NEW x \in Key, NEW y \in Key, NEW z \in Key
    PROVE  /\ ~Before(x, x)
           /\ Before(x, y) /\ Before(y, z) => Before(x, z)
           /\ Before(x, y) \/ Before(y, x) \/ x = y
           /\ ~(Before(x, y) /\ Before(y, x))
<1>1. PICK a \in Int, b \in Cluster : x = <<a, b>>
  BY DEF Key
<1>2. PICK c \in Int, d \in Cluster : y = <<c, d>>
  BY DEF Key
<1>3. PICK e \in Int, f \in Cluster : z = <<e, f>>
  BY DEF Key
<1>4. b \in Int /\ d \in Int /\ f \in Int
  BY FeedAssumption
<1>5. /\ Before(x, y) <=> a < c \/ (a = c /\ b < d)
      /\ Before(y, z) <=> c < e \/ (c = e /\ d < f)
      /\ Before(x, z) <=> a < e \/ (a = e /\ b < f)
      /\ Before(y, x) <=> c < a \/ (c = a /\ d < b)
      /\ Before(x, x) <=> a < a \/ (a = a /\ b < b)
  BY <1>1, <1>2, <1>3 DEF Before
<1> QED
  BY <1>1, <1>2, <1>4, <1>5

LEMMA RanksAreKeys ==
    ASSUME cluster \in [Cluster -> StoryRecord]
    PROVE  \A listing : \A c \in Cluster :
             Rank(listing, c) \in Key /\ Mark(listing, c) \in Key /\ Rank(listing, c)[2] = c
<1> SUFFICES ASSUME NEW listing, NEW c \in Cluster
             PROVE  Rank(listing, c) \in Key /\ Mark(listing, c) \in Key /\ Rank(listing, c)[2] = c
  OBVIOUS
<1>1. cluster[c].score \in Int /\ cluster[c].at \in Int
  <2>1. cluster[c] \in StoryRecord /\ Score \subseteq Int
    BY FeedAssumption
  <2>2. cluster[c].score \in Score /\ cluster[c].at \in Nat
    BY <2>1 DEF StoryRecord
  <2>3. cluster[c].score \in Int
    BY <2>1, <2>2, Zenon
  <2> QED
    BY <2>2, <2>3
<1>2. Effective(c) \in Int
  <2>1. Boost \in Int
    BY FeedAssumption
  <2>2. Effective(c) = cluster[c].score * Boost \/ Effective(c) = cluster[c].score * 1
    BY DEF Effective
  <2> QED
    BY <1>1, <2>1, <2>2
<1>3. Rank(listing, c) \in {<<Effective(c), c>>, <<cluster[c].score, c>>, <<cluster[c].at, c>>}
  BY DEF Rank
<1>4. Rank(listing, c) \in Key /\ Rank(listing, c)[2] = c
  BY <1>1, <1>2, <1>3 DEF Key
<1>5. Mark(listing, c) = <<0, c>> \/ Mark(listing, c) = Rank(listing, c)
  BY DEF Mark
<1> QED
  BY <1>4, <1>5 DEF Key

LEMMA RanksOrder ==
    ASSUME cluster \in [Cluster -> StoryRecord], NEW listing, NEW S \in SUBSET Cluster
    PROVE  Orders(S, RankOrder(listing, S))
<1> DEFINE R == RankOrder(listing, S)
<1>1. ASSUME NEW x \in S, NEW y \in S
      PROVE  <<x, y>> \in R <=> Before(Rank(listing, x), Rank(listing, y))
  BY DEF RankOrder
<1>2. \A x \in S : Rank(listing, x) \in Key /\ Rank(listing, x)[2] = x
  BY RanksAreKeys
<1> HIDE DEF R
<1>3. \A x \in S : <<x, x>> \notin R
  BY <1>1, <1>2, BeforeOrders
<1>4. ASSUME NEW x \in S, NEW y \in S, NEW z \in S, <<x, y>> \in R, <<y, z>> \in R
      PROVE  <<x, z>> \in R
  BY <1>1, <1>2, <1>4, BeforeOrders
<1>5. ASSUME NEW x \in S, NEW y \in S, x # y PROVE <<x, y>> \in R \/ <<y, x>> \in R
  <2>1. Rank(listing, x) # Rank(listing, y)
    BY <1>2, <1>5
  <2> QED
    BY <1>1, <1>2, <2>1, BeforeOrders
<1> QED
  BY <1>3, <1>4, <1>5 DEF R, Orders

LEMMA TopIsAPage ==
    ASSUME NEW listing, NEW S \in SUBSET Cluster, NEW n
    PROVE  Top(S, listing, n) = FirstOf(S, RankOrder(listing, S), n)
<1>1. ASSUME NEW c \in S
      PROVE  {d \in S : Before(Rank(listing, c), Rank(listing, d))} = Over(S, RankOrder(listing, S), c)
  BY DEF Over, RankOrder
<1> QED
  BY <1>1 DEF Top, FirstOf

-----------------------------------------------------------------------------
(* The invariant of the listings.  A story that has not moved since a page was *)
(* made is on it if and only if it lies between the cursors of the page, and a *)
(* client has seen those above its cursor that have not moved since the oldest *)
(* page it was given.                                                          *)

Shows(listing, c) == c \in Listed(listing) /\ Shown(listing, c)

PageFits(listing, p) ==
    /\ p.at <= moves
    /\ p.next # NoCursor /\ p.cursor # NoCursor => Before(p.next, p.cursor)
    /\ \A c \in Cluster : moved[c] <= p.at =>
         (c \in p.items <=> /\ Shows(listing, c)
                            /\ p.cursor = NoCursor \/ Before(Rank(listing, c), p.cursor)
                            /\ p.next = NoCursor \/ ~Before(Rank(listing, c), p.next))

ClientFits(listing) ==
    /\ client.oldest <= moves
    /\ client.state = "more" <=> client.cursor # NoCursor
    /\ client.state = "new" => \A c \in Cluster : AtItsRank(c) = 0
    /\ client.state # "new" =>
         \A c \in Cluster : moved[c] <= client.oldest =>
            AtItsRank(c) = IF /\ Shows(listing, c)
                              /\ client.cursor = NoCursor \/ ~Before(Rank(listing, c), client.cursor)
                           THEN 1 ELSE 0

\* The slot of the client's first page is looked after while it is served.
SlotFits ==
    /\ client.first # {} => client.listing = "all" /\ client.state # "new" /\ client.spliced = 0
    /\ client.state = "new" => client.spliced = 0
    /\ \A u \in Caller : Serves(u) /\ slot[u] # 0 => client.first # {}

ListingFits ==
    /\ client.listing \in Listings => client.cursor \in Cursor
    /\ client.listing \in Listings \ {"search"} =>
         /\ \A p \in remembered : PageFits(client.listing, p)
         /\ ClientFits(client.listing)

\* The page that is made.
Below(listing, cursor) ==
    {c \in Listed(listing) : cursor = NoCursor \/ Before(Mark(listing, c), cursor)}

LEMMA PageMade ==
    ASSUME FeedTypeOK, NEW listing \in Listings, NEW cursor \in Cursor
    PROVE  /\ Page(listing, cursor) \in PageRecord
           /\ Page(listing, cursor).cursor = cursor
           /\ listing # "search" => PageFits(listing, Page(listing, cursor))
<1> DEFINE S == Below(listing, cursor)
           R == RankOrder(listing, S)
           items == Top(S, listing, PageLimit)
           last == CHOOSE c \in items : \A d \in items \ {c} : Before(Rank(listing, c), Rank(listing, d))
           next == IF Cardinality(S) > PageLimit THEN Mark(listing, last) ELSE NoCursor
           p == [at |-> moves, cursor |-> cursor, items |-> {c \in items : Shown(listing, c)}, next |-> next]
<1>1. Page(listing, cursor) = p
  BY DEF Page, Below
<1>2. S \in SUBSET Cluster /\ IsFiniteSet(S) /\ Orders(S, R) /\ PageLimit \in Nat \ {0}
  <2>1. S \in SUBSET Cluster
    BY DEF Below, Listed
  <2>2. IsFiniteSet(Cluster) /\ PageLimit \in Nat \ {0}
    BY FeedAssumption
  <2> QED
    BY <2>1, <2>2, FS_Subset, RanksOrder DEF FeedTypeOK
<1>3. items = FirstOf(S, R, PageLimit)
  BY <1>2, TopIsAPage
<1>4. \A x \in S, y \in S : <<x, y>> \in R <=> Before(Rank(listing, x), Rank(listing, y))
  BY DEF RankOrder
<1>5. \A c \in Cluster : Rank(listing, c) \in Key /\ Mark(listing, c) \in Key
  BY RanksAreKeys DEF FeedTypeOK
<1>6. items \subseteq S
  BY DEF Top
<1>7. Cardinality(S) \in Nat
  BY <1>2, FS_CardinalityType
<1>8. Cardinality(S) <= PageLimit => items = S /\ next = NoCursor
  BY <1>2, <1>3, <1>7, PagesEnd
<1>9. ASSUME Cardinality(S) > PageLimit
      PROVE  /\ last \in S /\ next = Mark(listing, last)
             /\ items = {y \in S : y = last \/ Before(Rank(listing, last), Rank(listing, y))}
  <2>1. PICK x \in S : EndsAt(S, R, PageLimit, x)
    <3> HIDE DEF S, R
    <3>1. Cardinality(S) > PageLimit => \E x \in S : EndsAt(S, R, PageLimit, x)
      BY <1>2, PagesEnd
    <3> QED
      BY <1>9, <3>1
  <2>2. x \in items /\ \A z \in items \ {x} : <<x, z>> \in R
    BY <1>2, <1>3, <2>1, PagesEnd DEF EndsAt
  <2>3. \A z \in items \ {x} : Before(Rank(listing, x), Rank(listing, z))
    BY <1>4, <1>6, <2>2
  <2>4. last \in items /\ \A d \in items \ {last} : Before(Rank(listing, last), Rank(listing, d))
    BY <2>2, <2>3, Zenon
  <2>5. \A z \in items \ {last} : <<last, z>> \in R
    BY <1>4, <1>6, <2>4
  <2>6. last = x
    <3> HIDE DEF last, R, S, items
    <3>1. last \in FirstOf(S, R, PageLimit) /\ last \in S /\ x \in S
      BY <1>3, <1>6, <2>2, <2>4
    <3>2. \A z \in FirstOf(S, R, PageLimit) \ {last} : <<last, z>> \in R
      BY <1>3, <2>5
    <3> QED
      BY <1>2, <2>1, <3>1, <3>2, PagesEnd
  <2>7. items = {y \in S : y = x \/ <<x, y>> \in R}
    BY <1>3, <2>1 DEF EndsAt
  <2> HIDE DEF last, R, S, items
  <2>8. items = {y \in S : y = last \/ Before(Rank(listing, last), Rank(listing, y))}
    BY <1>4, <1>6, <2>1, <2>6, <2>7
  <2>9. next = Mark(listing, last)
    BY <1>9
  <2> QED
    BY <1>6, <2>4, <2>8, <2>9
<1>10. next \in Cursor
  BY <1>2, <1>5, <1>7, <1>8, <1>9 DEF Cursor
<1>11. p \in PageRecord
  <2>1. moves \in Nat /\ {c \in items : Shown(listing, c)} \in SUBSET Cluster
    BY <1>2, <1>6 DEF FeedTypeOK
  <2> HIDE DEF next, items
  <2> QED
    BY <1>10, <2>1 DEF PageRecord
<1>12. ASSUME listing # "search" PROVE PageFits(listing, p)
  <2> HIDE DEF last, R, items, next
  <2>1. \A c \in Cluster : Mark(listing, c) = Rank(listing, c)
    BY <1>12 DEF Mark
  <2>2. p.at = moves /\ p.next = next /\ p.cursor = cursor /\ p.items = {c \in items : Shown(listing, c)}
    OBVIOUS
  <2>3. \A c \in S : c \in Cluster /\ c \in Listed(listing) /\ (cursor = NoCursor \/ Before(Rank(listing, c), cursor))
    BY <1>2, <2>1 DEF Below
  <2>4. \A c \in Listed(listing) : cursor = NoCursor \/ Before(Rank(listing, c), cursor) => c \in S
    BY <1>2, <2>1 DEF Below, Listed
  <2> HIDE DEF S
  <2>5. Cardinality(S) <= PageLimit \/ Cardinality(S) > PageLimit
    BY <1>2, <1>7
  <2>6. next # NoCursor /\ cursor # NoCursor => Before(next, cursor)
    BY <1>2, <1>8, <1>9, <2>1, <2>3, <2>5
  <2>7. ASSUME NEW c \in Cluster
        PROVE  c \in p.items <=> /\ Shows(listing, c)
                                 /\ cursor = NoCursor \/ Before(Rank(listing, c), cursor)
                                 /\ next = NoCursor \/ ~Before(Rank(listing, c), next)
    <3>1. CASE Cardinality(S) <= PageLimit
      BY <1>8, <2>2, <2>3, <2>4, <3>1 DEF Shows
    <3>2. CASE Cardinality(S) > PageLimit
      <4>1. last \in Cluster /\ next = Rank(listing, last) /\ next \in Key /\ next # NoCursor
        BY <1>2, <1>5, <1>9, <2>1, <3>2, KeysAreNoCursor
      <4>2. Before(next, Rank(listing, c)) => ~Before(Rank(listing, c), next)
        BY <1>5, <4>1, BeforeOrders
      <4>3. Rank(listing, last)[2] = last /\ Rank(listing, c)[2] = c
        BY <4>1, RanksAreKeys DEF FeedTypeOK
      <4>4. c # last => Rank(listing, c) # next
        BY <4>1, <4>3
      <4>5. c # last => Before(next, Rank(listing, c)) \/ Before(Rank(listing, c), next)
        BY <1>5, <4>1, <4>4, BeforeOrders
      <4>6. ~Before(next, next)
        BY <4>1, BeforeOrders
      <4>7. c \in items <=> c \in S /\ ~Before(Rank(listing, c), next)
        BY <1>9, <3>2, <4>1, <4>2, <4>5, <4>6
      <4> QED
        BY <2>2, <2>3, <2>4, <4>1, <4>7 DEF Shows
    <3> QED
      BY <2>5, <3>1, <3>2
  <2>8. p.at <= moves
    BY <2>2 DEF FeedTypeOK
  <2> HIDE DEF p
  <2> QED
    BY <2>2, <2>6, <2>7, <2>8 DEF PageFits
<1> HIDE DEF p
<1>13. p.cursor = cursor
  BY DEF p
<1> QED
  BY <1>1, <1>11, <1>12, <1>13

LEMMA StoriesMove ==
    ASSUME FeedTypeOK, ListingFits, NEW newRows \in [Cluster -> StoryRecord], Becomes(newRows),
           UNCHANGED <<remembered, client, seen>>
    PROVE  ListingFits' /\ cluster' \in [Cluster -> StoryRecord] /\ moves' \in Nat
           /\ moved' \in [Cluster -> Nat]
<1>1. cluster' = newRows /\ moves' = moves + 1 /\ moves \in Nat /\ moved \in [Cluster -> Nat]
  BY DEF Becomes, FeedTypeOK
<1>2. moved' = [c \in Cluster |-> IF newRows[c] # cluster[c] THEN moves + 1 ELSE moved[c]]
  BY DEF Becomes
<1>3. moved' \in [Cluster -> Nat] /\ moves' \in Nat
  BY <1>1, <1>2
<1>4. ASSUME NEW n \in Nat, n <= moves, NEW c \in Cluster, moved'[c] <= n
      PROVE  moved[c] <= n /\ cluster'[c] = cluster[c]
  <2>1. moved'[c] = IF newRows[c] # cluster[c] THEN moves + 1 ELSE moved[c]
    BY <1>2
  <2>2. moves + 1 > n
    BY <1>1, <1>4
  <2> QED
    BY <1>1, <1>4, <2>1, <2>2
<1>5. ASSUME NEW c \in Cluster, cluster'[c] = cluster[c], NEW listing
      PROVE  Rank(listing, c)' = Rank(listing, c) /\ (Shows(listing, c)' <=> Shows(listing, c))
  <2>1. Effective(c)' = Effective(c)
    BY <1>5 DEF Effective
  <2>2. Rank(listing, c)' = Rank(listing, c)
    BY <1>5, <2>1 DEF Rank
  <2>3. Shown(listing, c)' <=> Shown(listing, c)
    BY <1>5 DEF Shown
  <2>4. (c \in Listed(listing))' <=> c \in Listed(listing)
    BY <1>5 DEF Listed
  <2> QED
    BY <2>2, <2>3, <2>4 DEF Shows
<1>6. SUFFICES ASSUME client.listing \in Listings \ {"search"}
               PROVE  /\ \A p \in remembered : PageFits(client.listing, p)'
                      /\ ClientFits(client.listing)'
  BY <1>1, <1>3 DEF ListingFits
<1>7. ASSUME NEW p \in remembered PROVE PageFits(client.listing, p)'
  <2>1. PageFits(client.listing, p) /\ p.at \in Nat
    BY <1>6, <1>7 DEF ListingFits, FeedTypeOK, PageRecord
  <2>2. p.at <= moves /\ p.at <= moves'
    BY <1>1, <2>1 DEF PageFits
  <2>3. ASSUME NEW c \in Cluster, moved'[c] <= p.at
        PROVE  /\ moved[c] <= p.at /\ Rank(client.listing, c)' = Rank(client.listing, c)
               /\ Shows(client.listing, c)' <=> Shows(client.listing, c)
    BY <1>4, <1>5, <2>1, <2>2, <2>3
  <2> QED
    BY <2>1, <2>2, <2>3 DEF PageFits
<1>8. ClientFits(client.listing)'
  <2>1. ClientFits(client.listing) /\ client.oldest \in Nat
    BY <1>6 DEF ListingFits, FeedTypeOK, ClientRecord
  <2>2. client.oldest <= moves /\ client.oldest <= moves'
    BY <1>1, <2>1 DEF ClientFits
  <2>3. ASSUME NEW c \in Cluster, moved'[c] <= client.oldest
        PROVE  /\ moved[c] <= client.oldest /\ Rank(client.listing, c)' = Rank(client.listing, c)
               /\ Shows(client.listing, c)' <=> Shows(client.listing, c)
    BY <1>4, <1>5, <2>1, <2>2, <2>3
  <2>4. client' = client /\ \A c \in Cluster : AtItsRank(c)' = AtItsRank(c)
    BY DEF AtItsRank
  <2> QED
    BY <2>1, <2>2, <2>3, <2>4 DEF ClientFits
<1> QED
  BY <1>1, <1>3, <1>7, <1>8

LEMMA ListingStays ==
    ASSUME ListingFits, UNCHANGED <<cluster, moves, moved, remembered, client, seen>>
    PROVE  ListingFits'
<1>1. \A listing, p : PageFits(listing, p)' <=> PageFits(listing, p)
  BY DEF PageFits, Shows, Listed, Shown, Rank, Effective
<1>2. \A listing : ClientFits(listing)' <=> ClientFits(listing)
  BY DEF ClientFits, AtItsRank, Shows, Listed, Shown, Rank, Effective
<1> QED
  BY <1>1, <1>2 DEF ListingFits

(* The candidate on the first page leaves what was shown at its rank alone.    *)
LEMMA ClientStays ==
    ASSUME ListingFits, UNCHANGED <<cluster, moves, moved, remembered>>,
           client'.listing = client.listing, client'.cursor = client.cursor,
           client'.state = client.state, client'.oldest = client.oldest,
           \A c \in Cluster : AtItsRank(c)' = AtItsRank(c)
    PROVE  ListingFits'
<1>1. \A listing, p : PageFits(listing, p)' <=> PageFits(listing, p)
  BY DEF PageFits, Shows, Listed, Shown, Rank, Effective
<1>2. ASSUME NEW listing, NEW c \in Cluster
      PROVE  Rank(listing, c)' = Rank(listing, c) /\ (Shows(listing, c)' <=> Shows(listing, c))
  BY DEF Shows, Listed, Shown, Rank, Effective
<1>3. ASSUME NEW listing, ClientFits(listing) PROVE ClientFits(listing)'
  <2>1. client'.state = "new" => \A c \in Cluster : AtItsRank(c)' = 0
    BY <1>3 DEF ClientFits
  <2>2. ASSUME client'.state # "new", NEW c \in Cluster, moved'[c] <= client'.oldest
        PROVE  AtItsRank(c)' = IF /\ Shows(listing, c)'
                                  /\ client'.cursor = NoCursor \/ ~Before(Rank(listing, c)', client'.cursor)
                               THEN 1 ELSE 0
    <3>1. AtItsRank(c) = IF /\ Shows(listing, c)
                            /\ client.cursor = NoCursor \/ ~Before(Rank(listing, c), client.cursor)
                         THEN 1 ELSE 0
      BY <1>3, <2>2 DEF ClientFits
    <3> QED
      BY <1>2, <3>1
  <2> QED
    BY <1>3, <2>1, <2>2 DEF ClientFits
<1> QED
  BY <1>1, <1>3 DEF ListingFits

LEMMA SlotStays == ASSUME SlotFits, UNCHANGED <<client, slot>> PROVE SlotFits'
  BY DEF SlotFits, Serves

LEMMA PageIsGiven ==
    ASSUME FeedTypeOK, ListingFits, SlotFits, NextPage
    PROVE  /\ ListingFits' /\ remembered' \subseteq PageRecord /\ client' \in ClientRecord
           /\ seen' \in [Cluster -> Nat] /\ client'.listing = client.listing /\ SlotFits'
<1>a. PICK listing : listing = client.listing
  OBVIOUS
<1> DEFINE held == {p \in remembered : p.cursor = client.cursor}
           made == Page(listing, client.cursor)
<1>0. /\ listing = client.listing /\ listing \in Listings /\ client.state # "end" /\ client.first = {}
      /\ UNCHANGED <<cluster, moves, moved, slot>>
  BY <1>a DEF NextPage, FeedTypeOK, ClientRecord, storyVars, exploreVars
<1>1. PICK p \in held \cup {made}, keep \in BOOLEAN :
        /\ seen' = [c \in Cluster |-> seen[c] + IF c \in p.items THEN 1 ELSE 0]
        /\ client' = [client EXCEPT
               !.cursor = p.next,
               !.state = IF p.next = NoCursor THEN "end" ELSE "more",
               !.oldest = IF client.state = "new" THEN p.at ELSE Lowest(@, p.at),
               !.first = IF listing = "all" /\ client.who \in Caller /\ client.state = "new"
                         THEN p.items ELSE {}]
        /\ remembered' = IF p \in held \/ ~keep THEN remembered
                         ELSE (remembered \ held) \cup {made}
  BY <1>a, Zenon DEF NextPage
<1>2. client \in ClientRecord /\ client.cursor \in Cursor /\ moves \in Nat /\ remembered \subseteq PageRecord
      /\ seen \in [Cluster -> Nat]
  BY <1>0 DEF FeedTypeOK, ListingFits
<1>3. made \in PageRecord /\ made.cursor = client.cursor
      /\ (listing # "search" => PageFits(listing, made))
  BY <1>0, <1>2, PageMade
<1> HIDE DEF made
<1>4. p \in PageRecord /\ p.cursor = client.cursor
      /\ (listing # "search" => PageFits(listing, p))
  BY <1>0, <1>1, <1>2, <1>3 DEF ListingFits
<1>5. p.at \in Nat /\ p.next \in Cursor /\ p.items \in SUBSET Cluster
  BY <1>4 DEF PageRecord
<1>6. client.oldest \in Nat /\ client.state \in {"new", "more", "end"}
  BY <1>2 DEF ClientRecord
<1> DEFINE oldest == IF client.state = "new" THEN p.at ELSE Lowest(client.oldest, p.at)
           state == IF p.next = NoCursor THEN "end" ELSE "more"
           first == IF listing = "all" /\ client.who \in Caller /\ client.state = "new"
                    THEN p.items ELSE {}
<1>7. oldest \in Nat /\ oldest <= p.at /\ (client.state # "new" => oldest <= client.oldest)
  BY <1>5, <1>6 DEF Lowest
<1>8. client' = [client EXCEPT !.cursor = p.next, !.state = state, !.oldest = oldest, !.first = first]
  BY <1>1
<1>9. /\ state \in {"end", "more"} /\ (state = "more" <=> p.next # NoCursor)
      /\ first \in SUBSET Cluster /\ (first # {} => listing = "all" /\ client.state = "new")
  BY <1>5
<1> HIDE DEF oldest, state, first
<1>10. /\ client' \in ClientRecord /\ client'.listing = listing
       /\ client'.cursor = p.next /\ client'.state = state /\ client'.oldest = oldest
       /\ client'.first = first /\ client'.who = client.who /\ client'.spliced = client.spliced
  <2>1. PICK got : got = [client EXCEPT !.cursor = p.next]
    OBVIOUS
  <2>2. got \in ClientRecord /\ got.listing = listing /\ got.cursor = p.next
        /\ got.who = client.who /\ got.spliced = client.spliced
    BY <1>0, <1>2, <1>5, <2>1 DEF ClientRecord
  <2>3. PICK then : then = [got EXCEPT !.state = state]
    OBVIOUS
  <2>4. then \in ClientRecord /\ then.listing = listing /\ then.cursor = p.next /\ then.state = state
        /\ then.who = client.who /\ then.spliced = client.spliced
    BY <1>9, <2>2, <2>3 DEF ClientRecord
  <2>5. PICK held1 : held1 = [then EXCEPT !.oldest = oldest]
    OBVIOUS
  <2>6. held1 \in ClientRecord /\ held1.listing = listing /\ held1.cursor = p.next /\ held1.state = state
        /\ held1.oldest = oldest /\ held1.who = client.who /\ held1.spliced = client.spliced
    BY <1>7, <2>4, <2>5 DEF ClientRecord
  <2>7. client' = [held1 EXCEPT !.first = first]
    BY <1>8, <2>1, <2>3, <2>5
  <2> QED
    BY <1>9, <2>6, <2>7 DEF ClientRecord
<1>11. remembered' \subseteq remembered \cup {made}
  BY <1>1
<1>12. seen' \in [Cluster -> Nat] /\ \A c \in Cluster : seen'[c] = seen[c] + IF c \in p.items THEN 1 ELSE 0
  BY <1>1, <1>2
<1>13. remembered' \subseteq PageRecord
  BY <1>2, <1>3, <1>11
<1>14. ASSUME listing # "search", NEW q PROVE PageFits(listing, q)' <=> PageFits(listing, q)
  BY <1>0 DEF PageFits, Shows, Listed, Shown, Rank, Effective
<1>15. ASSUME listing # "search" PROVE ClientFits(listing)'
  <2>1. /\ PageFits(listing, p) /\ ClientFits(listing)
    BY <1>0, <1>4, <1>15 DEF ListingFits
  <2>2. p.at <= moves
    BY <2>1 DEF PageFits
  <2>3. oldest <= moves'
    BY <1>0, <1>2, <1>5, <1>7, <2>2
  <2>4. ASSUME NEW c \in Cluster, moved[c] <= oldest
        PROVE  AtItsRank(c)' = IF /\ Shows(listing, c)
                                  /\ p.next = NoCursor \/ ~Before(Rank(listing, c), p.next)
                               THEN 1 ELSE 0
    <3> DEFINE shows == Shows(listing, c)
               early == client.cursor # NoCursor /\ ~Before(Rank(listing, c), client.cursor)
               late == p.next # NoCursor /\ Before(Rank(listing, c), p.next)
    <3>1. moved[c] \in Nat /\ moved[c] <= p.at /\ (client.state # "new" => moved[c] <= client.oldest)
      BY <1>5, <1>6, <1>7, <2>4 DEF FeedTypeOK
    <3>2. c \in p.items <=> shows /\ ~early /\ ~late
      BY <1>4, <2>1, <3>1 DEF PageFits
    <3>3. client.state = "more" <=> client.cursor # NoCursor
      BY <2>1 DEF ClientFits
    <3>4. early => client.state # "new"
      BY <3>3
    <3>5. client.state = "new" => AtItsRank(c) = 0
      BY <2>1 DEF ClientFits
    <3>6. client.state # "new" => AtItsRank(c) = IF shows /\ early THEN 1 ELSE 0
      BY <1>0, <1>6, <2>1, <3>1, <3>3 DEF ClientFits
    <3>7. AtItsRank(c) = IF shows /\ early THEN 1 ELSE 0
      BY <3>4, <3>5, <3>6
    <3>8. ~(early /\ late)
      <4> SUFFICES ASSUME early, late PROVE FALSE
        OBVIOUS
      <4>1. Before(p.next, client.cursor)
        BY <1>4, <2>1 DEF PageFits
      <4>2. p.next \in Key /\ client.cursor \in Key /\ Rank(listing, c) \in Key
        BY <1>2, <1>5, RanksAreKeys DEF Cursor, FeedTypeOK
      <4>3. Before(Rank(listing, c), client.cursor)
        BY <4>1, <4>2, BeforeOrders
      <4> QED
        BY <4>3
    <3>9. AtItsRank(c)' = AtItsRank(c) + IF c \in p.items THEN 1 ELSE 0
      <4>1. seen'[c] = seen[c] + (IF c \in p.items THEN 1 ELSE 0) /\ seen[c] \in Nat
        BY <1>2, <1>12
      <4>2. client'.spliced = client.spliced
        BY <1>10
      <4> QED
        BY <4>1, <4>2 DEF AtItsRank
    <3>10. p.next = NoCursor \/ ~Before(Rank(listing, c), p.next) <=> ~late
      OBVIOUS
    <3> HIDE DEF shows, early, late
    <3>11. AtItsRank(c)' = IF shows /\ ~late THEN 1 ELSE 0
      BY <3>2, <3>7, <3>8, <3>9
    <3> QED
      BY <3>10, <3>11 DEF shows
  <2>5. ASSUME NEW c \in Cluster PROVE Rank(listing, c)' = Rank(listing, c) /\ (Shows(listing, c)' <=> Shows(listing, c))
    BY <1>0 DEF Shows, Listed, Shown, Rank, Effective
  <2>6. moved' = moved /\ client'.state # "new" /\ (client'.state = "more" <=> client'.cursor # NoCursor)
    BY <1>0, <1>9, <1>10
  <2>7. \A c \in Cluster : moved'[c] <= client'.oldest =>
           AtItsRank(c)' = IF /\ Shows(listing, c)'
                              /\ client'.cursor = NoCursor \/ ~Before(Rank(listing, c)', client'.cursor)
                           THEN 1 ELSE 0
    BY <1>10, <2>4, <2>5, <2>6
  <2>8. client'.oldest <= moves'
    BY <1>10, <2>3
  <2> QED
    BY <2>6, <2>7, <2>8 DEF ClientFits
<1>16. ASSUME listing # "search" PROVE \A q \in remembered' : PageFits(listing, q)'
  <2>1. \A q \in remembered : PageFits(listing, q)
    BY <1>0, <1>16 DEF ListingFits
  <2> QED
    BY <1>3, <1>11, <1>14, <1>16, <2>1
<1>17. ListingFits'
  <2>1. client'.cursor \in Cursor
    BY <1>5, <1>10
  <2> QED
    BY <1>10, <1>15, <1>16, <2>1 DEF ListingFits
<1>18. SlotFits'
  <2>1. client'.state # "new"
    BY <1>9, <1>10
  <2>2. client'.first # {} => client'.listing = "all" /\ client'.spliced = 0
    BY <1>9, <1>10 DEF SlotFits
  <2>3. ASSUME NEW u \in Caller, Serves(u)' PROVE slot'[u] = 0
    <3>1. Serves(u)
      BY <1>0, <1>10, <2>3 DEF Serves
    <3> QED
      BY <1>0, <3>1 DEF SlotFits
  <2> QED
    BY <2>1, <2>2, <2>3 DEF SlotFits
<1> QED
  BY <1>0, <1>10, <1>12, <1>13, <1>17, <1>18

-----------------------------------------------------------------------------
(* For You.  The cursor of a session is the last story shown, at a place of    *)
(* its ranking that is the number of stories shown.                            *)

LowerPairs == {p \in Judged \X Judged : Lower(p[1], p[2])}
Higher(m) == Cardinality(Over(snapshot, LowerPairs, m))

RankingFits ==
    /\ \A m, k \in snapshot : m[3] = k[3] => m = k
    /\ client.listing = "you" =>
         /\ client.state = "new" =>
              /\ client.cursor = NoCursor /\ client.page = 0 /\ ~client.lost
              /\ \A c \in Cluster : seen[c] = 0
         /\ client.state = "more" => client.cursor \in Judged
         /\ client.state = "more" /\ ~client.lost =>
              client.cursor \in snapshot /\ Higher(client.cursor) = client.page * PageLimit - 1
         /\ ~client.lost => \A m \in snapshot :
              seen[m[3]] = IF Higher(m) < client.page * PageLimit THEN 1 ELSE 0

LEMMA LowersOrder == ASSUME NEW S \in SUBSET Judged PROVE Orders(S, LowerPairs)
<1>1. ASSUME NEW x \in Judged, NEW y \in Judged, NEW z \in Judged
      PROVE  /\ ~Lower(x, x)
             /\ Lower(x, y) /\ Lower(y, z) => Lower(x, z)
             /\ Lower(x, y) \/ Lower(y, x) \/ x = y
  <2>1. PICK a \in Int, b \in Int, c \in Cluster : x = <<a, b, c>>
    BY DEF Judged
  <2>2. PICK d \in Int, e \in Int, f \in Cluster : y = <<d, e, f>>
    BY DEF Judged
  <2>3. PICK g \in Int, h \in Int, i \in Cluster : z = <<g, h, i>>
    BY DEF Judged
  <2>4. <<b, c>> \in Key /\ <<e, f>> \in Key /\ <<h, i>> \in Key
    BY DEF Key
  <2>5. /\ Lower(x, y) <=> a < d \/ (a = d /\ Before(<<b, c>>, <<e, f>>))
        /\ Lower(y, z) <=> d < g \/ (d = g /\ Before(<<e, f>>, <<h, i>>))
        /\ Lower(x, z) <=> a < g \/ (a = g /\ Before(<<b, c>>, <<h, i>>))
        /\ Lower(y, x) <=> d < a \/ (d = a /\ Before(<<e, f>>, <<b, c>>))
        /\ Lower(x, x) <=> a < a \/ (a = a /\ Before(<<b, c>>, <<b, c>>))
    BY <2>1, <2>2, <2>3 DEF Lower
  <2>6. ~Lower(x, x)
    BY <2>4, <2>5, BeforeOrders
  <2>7. Lower(x, y) /\ Lower(y, z) => Lower(x, z)
    <3>1. Before(<<b, c>>, <<e, f>>) /\ Before(<<e, f>>, <<h, i>>) => Before(<<b, c>>, <<h, i>>)
      BY <2>4, BeforeOrders
    <3> QED
      BY <2>5, <3>1
  <2>8. Lower(x, y) \/ Lower(y, x) \/ x = y
    <3>1. Before(<<b, c>>, <<e, f>>) \/ Before(<<e, f>>, <<b, c>>) \/ <<b, c>> = <<e, f>>
      BY <2>4, BeforeOrders
    <3>2. <<b, c>> = <<e, f>> => b = e /\ c = f
      OBVIOUS
    <3> QED
      BY <2>1, <2>2, <2>5, <3>1, <3>2
  <2> QED
    BY <2>6, <2>7, <2>8
<1>2. \A x, y \in S : <<x, y>> \in LowerPairs <=> Lower(x, y)
  BY DEF LowerPairs
<1> QED
  BY <1>1, <1>2 DEF Orders

(* What is below a member of an order comes after it and all that is above.    *)
LEMMA PlacesGoOn ==
    ASSUME NEW S, IsFiniteSet(S), NEW R, Orders(S, R), NEW c \in S,
           NEW rest, rest = {m \in S : <<m, c>> \in R}
    PROVE  /\ \A m \in rest : Cardinality(Over(S, R, m))
                                = Cardinality(Over(rest, R, m)) + Cardinality(Over(S, R, c)) + 1
           /\ \A m \in S \ rest : Cardinality(Over(S, R, m)) <= Cardinality(Over(S, R, c))
<1>1. ASSUME NEW m \in rest
      PROVE  Cardinality(Over(S, R, m)) = Cardinality(Over(rest, R, m)) + Cardinality(Over(S, R, c)) + 1
  <2> DEFINE A == Over(rest, R, m)
             B == Over(S, R, c)
  <2>1. m \in S /\ <<m, c>> \in R
    BY <1>1
  <2>2. Over(S, R, m) = A \cup (B \cup {c})
    <3>1. ASSUME NEW x \in S PROVE <<m, x>> \in R <=> (<<m, x>> \in R /\ <<x, c>> \in R) \/ <<c, x>> \in R \/ x = c
      BY <2>1 DEF Orders
    <3> QED
      BY <2>1, <3>1 DEF Over
  <2>3. c \notin B /\ A \cap (B \cup {c}) = {}
    BY DEF Over, Orders
  <2>4. A \in SUBSET S /\ B \in SUBSET S
    BY DEF Over
  <2> HIDE DEF A, B
  <2>5. IsFiniteSet(A) /\ IsFiniteSet(B) /\ Cardinality(A) \in Nat /\ Cardinality(B) \in Nat
    BY <2>4, FS_Subset, FS_CardinalityType
  <2>6. IsFiniteSet(B \cup {c}) /\ Cardinality(B \cup {c}) = Cardinality(B) + 1
    BY <2>3, <2>5, FS_AddElement
  <2>7. Cardinality(A \cup (B \cup {c}))
          = Cardinality(A) + Cardinality(B \cup {c}) - Cardinality(A \cap (B \cup {c}))
    BY <2>5, <2>6, FS_Union
  <2>8. Cardinality(A \cap (B \cup {c})) = 0
    BY <2>3, FS_EmptySet
  <2>9. Cardinality(A \cup (B \cup {c})) = Cardinality(A) + Cardinality(B) + 1
    BY <2>5, <2>6, <2>7, <2>8
  <2> QED
    BY <2>2, <2>9 DEF A, B
<1>2. ASSUME NEW m \in S \ rest PROVE Cardinality(Over(S, R, m)) <= Cardinality(Over(S, R, c))
  <2>1. m = c \/ <<c, m>> \in R
    BY <1>2 DEF Orders
  <2>2. /\ Cardinality(Over(S, R, m)) \in Nat /\ Cardinality(Over(S, R, c)) \in Nat
        /\ <<c, m>> \in R => Cardinality(Over(S, R, m)) < Cardinality(Over(S, R, c))
    BY <1>2, OverIsSmaller
  <2> QED
    BY <2>1, <2>2
<1> QED
  BY <1>1, <1>2

LEMMA ScoredAreJudged ==
    ASSUME FeedTypeOK
    PROVE  /\ Scored \subseteq Judged /\ IsFiniteSet(Scored)
           /\ \A m, k \in Scored : m[3] = k[3] => m = k
<1> DEFINE S == Listed("all")
           f == [c \in S |-> <<liking[c], cluster[c].score, c>>]
<1>1. S \in SUBSET Cluster /\ IsFiniteSet(Cluster)
  BY FeedAssumption DEF Listed
<1>2. \A c \in S : cluster[c].score \in Int /\ liking[c] \in Int
  <2> SUFFICES ASSUME NEW c \in S PROVE cluster[c].score \in Int /\ liking[c] \in Int
    OBVIOUS
  <2>1. cluster[c] \in StoryRecord /\ liking[c] \in {0, 1} /\ Score \subseteq Int
    BY <1>1, FeedAssumption DEF FeedTypeOK
  <2>2. cluster[c].score \in Score
    BY <2>1 DEF StoryRecord
  <2>3. cluster[c].score \in Int
    BY <2>1, <2>2, Zenon
  <2> QED
    BY <2>1, <2>3
<1>3. Scored = {f[c] : c \in S}
  BY DEF Scored
<1>4. f \in [S -> Scored]
  BY DEF Scored
<1>5. f \in Surjection(S, Scored)
  BY <1>3, <1>4 DEF Surjection
<1>6. IsFiniteSet(S)
  BY <1>1, FS_Subset
<1>7. IsFiniteSet(Scored)
  BY <1>5, <1>6, FS_Surjection
<1> HIDE DEF S
<1>8. Scored \subseteq Judged
  BY <1>1, <1>2, <1>3 DEF Judged
<1> QED
  BY <1>3, <1>7, <1>8

LEMMA RankingIsGiven ==
    ASSUME FeedTypeOK, RankingFits, ForYou
    PROVE  /\ RankingFits' /\ snapshot' \subseteq Judged /\ IsFiniteSet(snapshot')
           /\ client' \in ClientRecord /\ client'.listing = "you" /\ seen' \in [Cluster -> Nat]
           /\ client'.first = client.first /\ client'.spliced = client.spliced /\ client'.state # "new"
<1>1. client.listing = "you" /\ client.state \in {"new", "more"} /\ client \in ClientRecord
  BY DEF ForYou, FeedTypeOK, ClientRecord
<1>2. PICK found \in {client.state = "more", FALSE} :
         LET ranking == IF found THEN snapshot ELSE Scored
             rest    == {m \in ranking : client.cursor = NoCursor \/ Lower(m, client.cursor)}
             items   == Best(rest, PageLimit)
             last    == CHOOSE m \in items : \A k \in items \ {m} : Lower(m, k)
             turn    == (IF found THEN client.page ELSE 0) + 1
             more    == Cardinality(rest) > PageLimit /\ turn < YouPages
         IN  /\ snapshot' = ranking
             /\ seen' = [c \in Cluster |-> seen[c] + Cardinality({m \in items : m[3] = c})]
             /\ client' = [client EXCEPT
                    !.page = turn,
                    !.state = IF more THEN "more" ELSE "end",
                    !.cursor = IF more THEN last ELSE NoCursor,
                    !.lost = @ \/ (~found /\ client.state = "more")]
  BY DEF ForYou
<1> DEFINE R == LowerPairs
           ranking == IF found THEN snapshot ELSE Scored
           rest    == {m \in ranking : client.cursor = NoCursor \/ Lower(m, client.cursor)}
           items   == Best(rest, PageLimit)
           last    == CHOOSE m \in items : \A k \in items \ {m} : Lower(m, k)
           turn    == (IF found THEN client.page ELSE 0) + 1
           more    == Cardinality(rest) > PageLimit /\ turn < YouPages
<1>3. /\ snapshot' = ranking
      /\ seen' = [c \in Cluster |-> seen[c] + Cardinality({m \in items : m[3] = c})]
      /\ client' = [client EXCEPT
             !.page = turn,
             !.state = IF more THEN "more" ELSE "end",
             !.cursor = IF more THEN last ELSE NoCursor,
             !.lost = @ \/ (~found /\ client.state = "more")]
  BY <1>2
<1>4. ranking \subseteq Judged /\ IsFiniteSet(ranking) /\ \A m, k \in ranking : m[3] = k[3] => m = k
  BY ScoredAreJudged DEF FeedTypeOK, RankingFits
<1>5. rest \subseteq ranking /\ rest \subseteq Judged /\ items \subseteq rest
  BY <1>4 DEF Best
<1>6. PageLimit \in Nat \ {0}
  BY FeedAssumption
<1>7. items = FirstOf(rest, R, PageLimit)
  <2>1. ASSUME NEW m \in rest PROVE {k \in rest : Lower(m, k)} = Over(rest, R, m)
    BY <1>5 DEF Over, LowerPairs
  <2> QED
    BY <2>1 DEF Best, FirstOf
<1>8. client.page \in Nat /\ client.lost \in BOOLEAN
  BY <1>1 DEF ClientRecord
<1>9. turn \in Nat /\ turn = (IF found THEN client.page ELSE 0) + 1
  BY <1>8
<1>10. \A x, y \in rest : <<x, y>> \in R <=> Lower(x, y)
  BY <1>5 DEF LowerPairs
<1>11. rest = {m \in ranking : client.cursor = NoCursor \/ Lower(m, client.cursor)}
  OBVIOUS
<1>12. ranking = IF found THEN snapshot ELSE Scored
  OBVIOUS
<1>13. (\E x \in items : \A k \in items \ {x} : Lower(x, k))
         => last \in items /\ \A k \in items \ {last} : Lower(last, k)
  <2> HIDE DEF items
  <2> QED
    BY Zenon
<1>14. more => Cardinality(rest) > PageLimit
  OBVIOUS
<1> HIDE DEF items, last, turn, more, rest, ranking
<1>15. Orders(ranking, R) /\ Orders(rest, R) /\ IsFiniteSet(rest)
  BY <1>4, <1>5, LowersOrder, FS_Subset
<1>16. Cardinality(rest) <= PageLimit => items = rest
  BY <1>6, <1>7, <1>15, PagesEnd
<1>17. ASSUME more PROVE last \in items /\ Cardinality(Over(rest, R, last)) = PageLimit - 1
  <2>1. Cardinality(rest) > PageLimit => \E x \in rest : EndsAt(rest, R, PageLimit, x)
    BY <1>6, <1>15, PagesEnd
  <2>2. PICK x \in rest : EndsAt(rest, R, PageLimit, x)
    BY <1>14, <1>17, <2>1
  <2>3. x \in items /\ \A z \in items \ {x} : <<x, z>> \in R
    <3>1. x \in items
      BY <1>7, <2>2 DEF EndsAt
    <3>2. \A z \in FirstOf(rest, R, PageLimit) \ {x} : <<x, z>> \in R
      BY <1>6, <1>15, <2>2, PagesEnd
    <3> QED
      BY <1>7, <3>1, <3>2
  <2>4. \A z \in items \ {x} : Lower(x, z)
    BY <1>5, <1>10, <2>3
  <2>5. last \in items /\ \A z \in items \ {last} : Lower(last, z)
    BY <1>13, <2>3, <2>4
  <2>6. last \in rest /\ \A z \in items \ {last} : <<last, z>> \in R
    BY <1>5, <1>10, <2>5
  <2>7. last = x
    <3>1. last \in FirstOf(rest, R, PageLimit) /\ \A z \in FirstOf(rest, R, PageLimit) \ {last} : <<last, z>> \in R
      BY <1>7, <2>5, <2>6
    <3> QED
      BY <1>6, <1>15, <2>2, <2>6, <3>1, PagesEnd
  <2> QED
    BY <2>2, <2>5, <2>7 DEF EndsAt
<1>18. IsFiniteSet(items)
  BY <1>5, <1>15, FS_Subset
<1>19. ASSUME NEW c \in Cluster PROVE Cardinality({m \in items : m[3] = c}) \in Nat
  <2>1. {m \in items : m[3] = c} \in SUBSET items
    OBVIOUS
  <2> QED
    BY <1>18, <2>1, FS_Subset, FS_CardinalityType
<1>20. seen' \in [Cluster -> Nat] /\ \A c \in Cluster : seen'[c] = seen[c] + Cardinality({m \in items : m[3] = c})
  BY <1>3, <1>19 DEF FeedTypeOK
<1> DEFINE state == IF more THEN "more" ELSE "end"
           cursor == IF more THEN last ELSE NoCursor
           lost == client.lost \/ (~found /\ client.state = "more")
<1>21. state \in {"more", "end"} /\ cursor \in Cursor \cup Judged /\ lost \in BOOLEAN
       /\ (state = "more" => more /\ cursor = last /\ cursor \in Judged)
  BY <1>5, <1>17 DEF Cursor
<1>22. client' = [client EXCEPT !.page = turn, !.state = state, !.cursor = cursor, !.lost = lost]
  BY <1>3
<1>23. lost <=> client.lost \/ (~found /\ client.state = "more")
  OBVIOUS
<1> HIDE DEF state, cursor, lost
<1>24. /\ client' \in ClientRecord /\ client'.listing = "you" /\ client'.page = turn
       /\ client'.state = state /\ client'.cursor = cursor /\ client'.lost = lost
       /\ client'.first = client.first /\ client'.spliced = client.spliced
  <2>1. PICK got : got = [client EXCEPT !.page = turn]
    OBVIOUS
  <2>2. got \in ClientRecord /\ got.listing = "you" /\ got.page = turn
        /\ got.first = client.first /\ got.spliced = client.spliced
    BY <1>1, <1>9, <2>1 DEF ClientRecord
  <2>3. PICK then : then = [got EXCEPT !.state = state]
    OBVIOUS
  <2>4. then \in ClientRecord /\ then.listing = "you" /\ then.page = turn /\ then.state = state
        /\ then.first = client.first /\ then.spliced = client.spliced
    BY <1>21, <2>2, <2>3 DEF ClientRecord
  <2>5. PICK held : held = [then EXCEPT !.cursor = cursor]
    OBVIOUS
  <2>6. held \in ClientRecord /\ held.listing = "you" /\ held.page = turn /\ held.state = state
        /\ held.cursor = cursor /\ held.first = client.first /\ held.spliced = client.spliced
    BY <1>21, <2>4, <2>5 DEF ClientRecord
  <2>7. client' = [held EXCEPT !.lost = lost]
    BY <1>22, <2>1, <2>3, <2>5
  <2> QED
    BY <1>21, <2>6, <2>7 DEF ClientRecord
<1> DEFINE k == (turn - 1) * PageLimit
<1>25. k \in Nat /\ turn * PageLimit = k + PageLimit
  <2>1. turn - 1 \in Nat
    BY <1>8, <1>9
  <2> QED
    BY <1>6, <1>9, <2>1
<1>26. ASSUME ~lost
       PROVE  \A m \in ranking :
                 /\ m \in rest => /\ Cardinality(Over(ranking, R, m)) = k + Cardinality(Over(rest, R, m))
                                  /\ seen[m[3]] = 0
                 /\ m \notin rest => Cardinality(Over(ranking, R, m)) < k /\ seen[m[3]] = 1
  <2>1. ~client.lost /\ (found \/ client.state = "new")
    BY <1>1, <1>23, <1>26
  <2>2. ASSUME NEW m \in ranking PROVE m[3] \in Cluster /\ Cardinality(Over(ranking, R, m)) \in Nat
    BY <1>4, <1>15, OverIsSmaller DEF Judged
  <2>3. CASE client.state = "new"
    <3>1. ~found /\ client.cursor = NoCursor /\ \A c \in Cluster : seen[c] = 0
      BY <1>1, <1>2, <2>3 DEF RankingFits
    <3>2. rest = ranking /\ turn = 1 /\ k = 0
      BY <1>6, <1>9, <1>11, <3>1
    <3> QED
      BY <2>2, <3>1, <3>2
  <2>4. CASE client.state # "new"
    <3>1. found /\ client.state = "more"
      BY <1>1, <1>2, <2>1, <2>4
    <3>2. ranking = snapshot /\ turn = client.page + 1 /\ k = client.page * PageLimit
      BY <1>8, <1>9, <1>12, <3>1
    <3>3. /\ client.cursor \in snapshot /\ client.cursor \in Judged
          /\ Cardinality(Over(snapshot, R, client.cursor)) = client.page * PageLimit - 1
          /\ \A m \in snapshot : seen[m[3]] = IF Cardinality(Over(snapshot, R, m)) < client.page * PageLimit THEN 1 ELSE 0
      BY <1>1, <2>1, <3>1 DEF RankingFits, Higher
    <3>4. Cardinality(Over(ranking, R, client.cursor)) = k - 1 /\ client.cursor \in ranking
          /\ \A m \in ranking : seen[m[3]] = IF Cardinality(Over(ranking, R, m)) < k THEN 1 ELSE 0
      BY <3>2, <3>3
    <3>5. client.cursor # NoCursor
      BY <3>3, KeysAreNoCursor
    <3>6. rest = {m \in ranking : <<m, client.cursor>> \in R}
      BY <1>4, <1>11, <3>3, <3>5 DEF LowerPairs
    <3>7. /\ \A m \in rest : Cardinality(Over(ranking, R, m))
                               = Cardinality(Over(rest, R, m)) + Cardinality(Over(ranking, R, client.cursor)) + 1
          /\ \A m \in ranking \ rest : Cardinality(Over(ranking, R, m)) <= Cardinality(Over(ranking, R, client.cursor))
      BY <1>4, <1>15, <3>4, <3>6, PlacesGoOn
    <3>8. \A m \in rest : Cardinality(Over(rest, R, m)) \in Nat
      BY <1>15, OverIsSmaller
    <3> HIDE DEF k
    <3> QED
      BY <1>5, <1>25, <2>2, <3>4, <3>7, <3>8
  <2> QED
    BY <2>3, <2>4
<1> HIDE DEF k
<1>27. ASSUME ~lost, NEW m \in ranking
       PROVE  seen'[m[3]] = IF Cardinality(Over(ranking, R, m)) < turn * PageLimit THEN 1 ELSE 0
  <2>1. m[3] \in Cluster
    BY <1>4 DEF Judged
  <2>2. m \in items => {x \in items : x[3] = m[3]} = {m}
    BY <1>4, <1>5
  <2>3. m \notin items => {x \in items : x[3] = m[3]} = {}
    BY <1>4, <1>5
  <2>4. Cardinality({x \in items : x[3] = m[3]}) = IF m \in items THEN 1 ELSE 0
    BY <2>2, <2>3, FS_Singleton, FS_EmptySet
  <2>5. seen'[m[3]] = seen[m[3]] + IF m \in items THEN 1 ELSE 0
    BY <1>20, <2>1, <2>4
  <2>6. m \in items <=> m \in rest /\ Cardinality(Over(rest, R, m)) < PageLimit
    BY <1>7 DEF FirstOf
  <2>7. m \in rest => Cardinality(Over(rest, R, m)) \in Nat
    BY <1>15, OverIsSmaller
  <2>8. Cardinality(Over(ranking, R, m)) \in Nat
    BY <1>4, <1>15, OverIsSmaller
  <2>9. /\ m \in rest => /\ Cardinality(Over(ranking, R, m)) = k + Cardinality(Over(rest, R, m))
                         /\ seen[m[3]] = 0
        /\ m \notin rest => Cardinality(Over(ranking, R, m)) < k /\ seen[m[3]] = 1
    BY <1>26, <1>27
  <2> QED
    BY <1>6, <1>25, <2>5, <2>6, <2>7, <2>8, <2>9
<1>28. ASSUME ~lost, state = "more"
       PROVE  cursor \in ranking /\ Cardinality(Over(ranking, R, cursor)) = turn * PageLimit - 1
  <2>1. cursor = last /\ last \in items /\ Cardinality(Over(rest, R, last)) = PageLimit - 1
    BY <1>17, <1>21, <1>28
  <2>2. last \in rest /\ last \in ranking
    BY <1>5, <2>1
  <2>3. Cardinality(Over(ranking, R, last)) = k + Cardinality(Over(rest, R, last))
    BY <1>26, <1>28, <2>2
  <2> QED
    BY <1>6, <1>25, <2>1, <2>2, <2>3
<1>29. RankingFits'
  <2>1. \A m, x \in snapshot' : m[3] = x[3] => m = x
    BY <1>3, <1>4
  <2>2. \A m : Higher(m)' = Cardinality(Over(ranking, R, m))
    BY <1>3 DEF Higher
  <2>3. client'.state # "new" /\ (client'.state = "more" => client'.cursor \in Judged)
    BY <1>21, <1>24
  <2>4. client'.state = "more" /\ ~client'.lost =>
           client'.cursor \in snapshot' /\ Higher(client.cursor)' = client'.page * PageLimit - 1
    BY <1>3, <1>24, <1>28 DEF Higher
  <2>5. ~client'.lost => \A m \in snapshot' :
           seen'[m[3]] = IF Higher(m)' < client'.page * PageLimit THEN 1 ELSE 0
    BY <1>3, <1>24, <1>27, <2>2
  <2> QED
    BY <2>1, <2>3, <2>4, <2>5 DEF RankingFits
<1>30. client'.state # "new"
  BY <1>21, <1>24
<1> QED
  BY <1>3, <1>4, <1>20, <1>24, <1>29, <1>30

-----------------------------------------------------------------------------
(* The promos and the explore slot.                                            *)

LEMMA PromosAreApart ==
    ASSUME NEW n \in Nat, NEW first \in BOOLEAN, NEW installed \in BOOLEAN,
           NEW age \in Nat \cup {-1}, NEW swiped, ApplyPromos(n, first, installed, age, swiped)
    PROVE  PromosKeepTheirDistance'
<1> DEFINE g == [id |-> "game", at |-> 3]
           c == [id |-> "continue", at |-> n]
           game == IF first /\ age >= 0 /\ (installed \/ age >= YoungDays)
                   THEN InsertPromo({}, "game", 3, n, swiped) ELSE {}
           P == Placed(n, first, installed, age, swiped)
<1>1. age \in Int
  OBVIOUS
<1>2. Lowest(IF 3 > MinIndex THEN 3 ELSE MinIndex, n) = IF 3 < n THEN 3 ELSE n
  BY DEF Lowest, MinIndex
<1>3. game = {} \/ (game = {g} /\ "game" \notin swiped /\ n >= 3)
  <2>1. InsertPromo({}, "game", 3, n, swiped)
          = IF "game" \notin swiped /\ n >= 3 /\ Apart(IF 3 < n THEN 3 ELSE n, {})
            THEN {} \cup {[id |-> "game", at |-> IF 3 < n THEN 3 ELSE n]} ELSE {}
    BY <1>2 DEF InsertPromo, MinIndex
  <2>2. n >= 3 => (IF 3 < n THEN 3 ELSE n) = 3
    OBVIOUS
  <2> QED
    BY <2>1, <2>2
<1> HIDE DEF game
<1>4. P = IF first /\ ~installed /\ age >= YoungDays /\ n >= ContinuationFrom
          THEN InsertPromo(game, "continue", n, n, swiped) ELSE game
  BY DEF Placed, game
<1>5. ASSUME n >= 10
      PROVE  InsertPromo(game, "continue", n, n, swiped)
               = IF "continue" \notin swiped /\ Apart(n, game) THEN game \cup {c} ELSE game
  <2>1. Lowest(IF n > MinIndex THEN n ELSE MinIndex, n) = n
    BY <1>5 DEF Lowest, MinIndex
  <2> QED
    BY <1>5, <2>1 DEF InsertPromo, MinIndex
<1>6. \/ P = game
      \/ /\ P = game \cup {c} /\ n >= 10 /\ ~installed /\ age >= 2
         /\ "continue" \notin swiped /\ Apart(n, game)
  BY <1>4, <1>5 DEF ContinuationFrom, YoungDays
<1> HIDE DEF P
<1>7. /\ cards'.promos = P /\ cards'.stories = n /\ cards'.dismissed = swiped
      /\ cards'.age = age /\ cards'.installed = installed
  BY DEF ApplyPromos, P
<1>8. \A p \in game : p = g /\ p.at = 3 /\ p.id = "game"
  BY <1>3
<1>9. c.at = n /\ c.id = "continue" /\ g.at = 3 /\ g.id = "game"
  OBVIOUS
<1> HIDE DEF g, c
<1>10. Apart(n, game) /\ n >= 10 => \A p \in game : p.at + 8 <= n
  BY <1>8 DEF Apart, Between
<1>11. \A p \in P : /\ 3 <= p.at /\ p.at <= n /\ p.id \notin swiped
                    /\ p.id = "continue" => age >= 2 /\ ~installed
  BY <1>3, <1>6, <1>8, <1>9
<1>12. \A p, q \in P : p # q => p.at + 8 <= q.at \/ q.at + 8 <= p.at
  BY <1>3, <1>6, <1>8, <1>9, <1>10
<1> QED
  BY <1>7, <1>11, <1>12 DEF PromosKeepTheirDistance, MinIndex, Between, YoungDays

LEMMA RowsAreCounted ==
    ASSUME FeedTypeOK, NEW c \in Cluster
    PROVE  Cardinality(Exposures(c)) \in Nat
<1> DEFINE views(u) == {u} \X (1 .. exposures[c][u].before + exposures[c][u].after)
           f == [u \in Caller |-> views(u)]
           T == {views(u) : u \in Caller}
<1>1. IsFiniteSet(Caller)
  BY FeedAssumption
<1>2. f \in Surjection(Caller, T)
  BY DEF Surjection
<1>3. IsFiniteSet(T)
  BY <1>1, <1>2, FS_Surjection
<1>4. ASSUME NEW u \in Caller PROVE IsFiniteSet(views(u))
  <2>1. exposures[c] \in [Caller -> ExposureRecord]
    BY DEF FeedTypeOK
  <2>2. exposures[c][u].before \in Nat /\ exposures[c][u].after \in Nat
    BY <2>1 DEF ExposureRecord
  <2> DEFINE b == exposures[c][u].before + exposures[c][u].after
  <2>3. 1 \in Int /\ b \in Int
    BY <2>2
  <2> HIDE DEF b
  <2>4. IsFiniteSet(1 .. b)
    BY <2>3, FS_Interval
  <2> QED
    BY <2>4, FS_Singleton, FS_Product DEF b
<1>5. IsFiniteSet(UNION T)
  BY <1>3, <1>4, FS_UNION
<1> QED
  BY <1>5, FS_CardinalityType DEF Exposures

(* One engaged reader who was counted once is too few for the interval, from   *)
(* two exposures on.                                                           *)
LEMMA OneIsTooFew ==
    ASSUME FeedTypeOK, NEW c \in Cluster, NEW bar \in 0 .. 100, Count(c) >= MinExposures,
           Clears(Cardinality(Engagements(c)), Count(c), bar),
           \A u \in Caller : exposures[c][u].before <= 1
    PROVE  Cardinality({u \in Caller : Engaged(c, u)}) > 1
<1> DEFINE E == {u \in Caller : Engaged(c, u)}
           n == Count(c)
           k == Cardinality(Engagements(c))
<1>1. n \in Nat /\ n >= 2
  BY FeedAssumption, RowsAreCounted DEF Count
<1>2. IsFiniteSet(E) /\ Cardinality(E) \in Nat
  <2>1. E \in SUBSET Caller /\ IsFiniteSet(Caller)
    BY FeedAssumption
  <2> QED
    BY <2>1, FS_Subset, FS_CardinalityType
<1>3. SUFFICES ASSUME Cardinality(E) <= 1 PROVE FALSE
  BY <1>2
<1>4. \A u \in E : exposures[c][u].before = 1
  <2> SUFFICES ASSUME NEW u \in E PROVE exposures[c][u].before = 1
    OBVIOUS
  <2>1. exposures[c] \in [Caller -> ExposureRecord]
    BY DEF FeedTypeOK
  <2>2. exposures[c][u].before \in Nat
    BY <2>1 DEF ExposureRecord
  <2> QED
    BY <2>2 DEF Engaged
<1>5. Engagements(c) = UNION {{u} \X (1 .. exposures[c][u].before) : u \in E}
  BY DEF Engagements
<1>6. k = 0 \/ k = 1
  <2>1. CASE E = {}
    <3>1. Engagements(c) = {}
      BY <1>5, <2>1
    <3> QED
      BY <3>1, FS_EmptySet
  <2>2. CASE E # {}
    <3>1. Cardinality(E) = 1
      BY <1>2, <1>3, <2>2, FS_EmptySet
    <3>2. PICK u : E = {u}
      BY <1>2, <3>1, FS_Singleton
    <3>3. exposures[c][u].before = 1
      BY <1>4, <3>2
    <3> HIDE DEF E
    <3>4. Engagements(c) = {u} \X (1 .. 1)
      BY <1>5, <3>2, <3>3
    <3>5. Engagements(c) = {<<u, 1>>}
      BY <3>4
    <3> QED
      BY <3>5, FS_Singleton
  <2> QED
    BY <2>1, <2>2
<1> DEFINE over == 100 * k - bar * n
<1>7. over > 0 /\ over * over * n > 27060 * k * (n - k)
  BY DEF Clears
<1> HIDE DEF n, k, E
<1>8. bar * n \in Nat
  BY <1>1
<1>9. k = 1 /\ over \in 1 .. 100
  BY <1>6, <1>7, <1>8
<1> HIDE DEF over
<1>10. over * over <= 10000 /\ over * over \in Nat
  BY <1>9
<1>11. over * over * n <= 10000 * n
  BY <1>1, <1>10
<1> QED
  BY <1>1, <1>7, <1>9, <1>11

-----------------------------------------------------------------------------
(* The invariant, action by action.                                            *)

FeedInv ==
    /\ FeedTypeOK /\ ListingFits /\ RankingFits /\ SlotFits
    /\ PromosKeepTheirDistance /\ OneReaderIsNotEnough

LEMMA RankingStays ==
    ASSUME RankingFits, UNCHANGED <<client, seen, snapshot>>
    PROVE  RankingFits'
<1>1. \A m : Higher(m)' = Higher(m)
  BY DEF Higher
<1>2. Higher(client.cursor)' = Higher(client.cursor)
  BY DEF Higher
<1> QED
  BY <1>1, <1>2 DEF RankingFits

LEMMA InitFeedInv ==
    ASSUME NEW listing \in Listings \cup {"you"}, NEW first \in [Cluster -> StoryRecord],
           NEW who \in Caller \cup {Anonymous}, FeedInit(listing, first, who)
    PROVE  FeedInv
<1>1. /\ client = NewClient(listing, who) /\ client \in ClientRecord /\ client.listing = listing
      /\ client.cursor = NoCursor /\ client.state = "new" /\ client.page = 0
      /\ client.oldest = 0 /\ client.lost = FALSE /\ client.first = {} /\ client.spliced = 0
  BY DEF FeedInit, NewClient, ClientRecord, Cursor
<1>2. /\ cluster = first /\ moves = 0 /\ moved = [c \in Cluster |-> 0] /\ remembered = {}
      /\ seen = [c \in Cluster |-> 0] /\ snapshot = {}
  BY DEF FeedInit
<1>3. \A c \in Cluster : seen[c] = 0 /\ AtItsRank(c) = 0
  <2>1. 0 \notin Cluster
    BY FeedAssumption
  <2> QED
    BY <1>1, <1>2, <2>1 DEF AtItsRank
<1>4. FeedTypeOK
  <2>1. exposures \in [Cluster -> [Caller -> ExposureRecord]]
    BY DEF FeedInit, Fresh1, ExposureRecord
  <2>2. convinced \in [Cluster -> [by : SUBSET Caller, twice : BOOLEAN]]
    BY DEF FeedInit
  <2>3. liking \in [Cluster -> {0, 1}] /\ slot \in [Caller -> Cluster \cup {0}]
    BY DEF FeedInit
  <2>4. IsFiniteSet(snapshot)
    BY <1>2, FS_EmptySet
  <2> QED
    BY <1>1, <1>2, <2>1, <2>2, <2>3, <2>4 DEF FeedTypeOK
<1>5. ListingFits
  BY <1>1, <1>2, <1>3 DEF ListingFits, ClientFits, Cursor
<1>6. RankingFits
  BY <1>1, <1>2, <1>3 DEF RankingFits
<1>7. PromosKeepTheirDistance
  BY DEF PromosKeepTheirDistance, FeedInit
<1>8. OneReaderIsNotEnough
  BY DEF OneReaderIsNotEnough, FeedInit
<1>9. SlotFits
  BY <1>1 DEF SlotFits, FeedInit
<1> QED
  BY <1>4, <1>5, <1>6, <1>7, <1>8, <1>9 DEF FeedInv

(* The poller's changes are Becomes of rows that keep explore.                *)
LEMMA ChangeKeeps ==
    ASSUME FeedInv, NEW newRows \in [Cluster -> StoryRecord], Change(newRows),
           \A c \in Cluster : newRows[c].explore = cluster[c].explore
    PROVE  FeedInv'
<1>1. /\ Becomes(newRows) /\ cluster' = newRows
      /\ UNCHANGED <<remembered, client, seen, liking, snapshot, slot, exposures, convinced, cards>>
  BY DEF Change, Becomes, pageVars, youVars, exploreVars
<1>2. FeedTypeOK /\ ListingFits /\ RankingFits
  BY DEF FeedInv
<1>3. ListingFits' /\ cluster' \in [Cluster -> StoryRecord] /\ moves' \in Nat /\ moved' \in [Cluster -> Nat]
  BY <1>1, <1>2, StoriesMove
<1>4. RankingFits'
  BY <1>1, <1>2, RankingStays
<1>5. FeedTypeOK'
  BY <1>1, <1>2, <1>3 DEF FeedTypeOK
<1>6. PromosKeepTheirDistance'
  BY <1>1 DEF FeedInv, PromosKeepTheirDistance
<1>7. OneReaderIsNotEnough'
  BY <1>1 DEF FeedInv, OneReaderIsNotEnough
<1>8. SlotFits'
  BY <1>1, SlotStays DEF FeedInv
<1> QED
  BY <1>3, <1>4, <1>5, <1>6, <1>7, <1>8 DEF FeedInv

LEMMA ShiftingKeeps == ASSUME FeedInv, Shifting PROVE FeedInv'
<1>1. ASSUME NEW c \in Cluster, Join(c) PROVE FeedInv'
  <2>1. PICK n \in {cluster[c].sources, 2} :
          Change([cluster EXCEPT ![c] = [cluster[c] EXCEPT !.at = moves + 1, !.sources = n]])
    BY <1>1 DEF Join
  <2> DEFINE row == [cluster[c] EXCEPT !.at = moves + 1, !.sources = n]
             newRows == [cluster EXCEPT ![c] = row]
  <2>2. cluster \in [Cluster -> StoryRecord] /\ cluster[c] \in StoryRecord /\ moves \in Nat
    BY DEF FeedInv, FeedTypeOK
  <2>3. n \in Nat
    BY <2>2 DEF StoryRecord
  <2>4. row \in StoryRecord /\ row.explore = cluster[c].explore
    <3> DEFINE r == cluster[c]
    <3>1. r \in StoryRecord
      BY <2>2
    <3>2. row = [[r EXCEPT !.at = moves + 1] EXCEPT !.sources = n]
      OBVIOUS
    <3> HIDE DEF r
    <3>3. PICK q : q = [r EXCEPT !.at = moves + 1]
      OBVIOUS
    <3>4. q \in StoryRecord /\ q.explore = r.explore
      BY <2>2, <3>1, <3>3 DEF StoryRecord
    <3>5. row = [q EXCEPT !.sources = n]
      BY <3>2, <3>3
    <3>6. row \in StoryRecord /\ row.explore = q.explore
      BY <2>3, <3>4, <3>5 DEF StoryRecord
    <3> QED
      BY <3>4, <3>6 DEF r
  <2> HIDE DEF row
  <2>5. newRows \in [Cluster -> StoryRecord] /\ \A d \in Cluster : newRows[d].explore = cluster[d].explore
    BY <2>2, <2>4
  <2>6. Change(newRows)
    BY <2>1 DEF row
  <2> HIDE DEF newRows
  <2> QED
    BY <2>5, <2>6, ChangeKeeps
<1>2. ASSUME Rescore PROVE FeedInv'
  <2>1. PICK f \in [Cluster -> Score] : Change([c \in Cluster |-> [cluster[c] EXCEPT !.score = f[c]]])
    BY <1>2 DEF Rescore
  <2> DEFINE newRows == [c \in Cluster |-> [cluster[c] EXCEPT !.score = f[c]]]
  <2>2. ASSUME NEW c \in Cluster PROVE newRows[c] \in StoryRecord /\ newRows[c].explore = cluster[c].explore
    <3>1. cluster[c] \in StoryRecord /\ f[c] \in Score
      BY DEF FeedInv, FeedTypeOK
    <3> QED
      BY <3>1 DEF StoryRecord
  <2>3. newRows \in [Cluster -> StoryRecord]
    BY <2>2
  <2>4. Change(newRows)
    BY <2>1
  <2> HIDE DEF newRows
  <2> QED
    BY <2>2, <2>3, <2>4, ChangeKeeps
<1>3. ASSUME NEW c \in Cluster, Like(c) PROVE FeedInv'
  <2>1. /\ moves' = moves + 1
        /\ UNCHANGED <<cluster, moved, remembered, client, seen, snapshot, slot, exposures, convinced, cards>>
    BY <1>3 DEF Like, pageVars, exploreVars
  <2>2. FeedTypeOK /\ ListingFits /\ RankingFits
    BY DEF FeedInv
  <2>3. liking' \in [Cluster -> {0, 1}]
    BY <1>3, <2>2 DEF Like, FeedTypeOK
  <2>4. FeedTypeOK'
    BY <2>1, <2>2, <2>3 DEF FeedTypeOK
  <2>5. Becomes(cluster)
    BY <2>1, <2>2 DEF Becomes, FeedTypeOK
  <2>6. ListingFits'
    BY <2>1, <2>2, <2>5, StoriesMove DEF FeedTypeOK
  <2>7. RankingFits'
    BY <2>1, <2>2, RankingStays
  <2>8. PromosKeepTheirDistance' /\ OneReaderIsNotEnough'
    BY <2>1 DEF FeedInv, PromosKeepTheirDistance, OneReaderIsNotEnough
  <2>9. SlotFits'
    BY <2>1, SlotStays DEF FeedInv
  <2> QED
    BY <2>4, <2>6, <2>7, <2>8, <2>9 DEF FeedInv
<1> QED
  BY <1>1, <1>2, <1>3 DEF Shifting

LEMMA PagingKeeps == ASSUME FeedInv, Paging PROVE FeedInv'
<1>0. FeedTypeOK /\ ListingFits /\ RankingFits /\ SlotFits
  BY DEF FeedInv
<1>1. ASSUME UNCHANGED <<cards, cluster, convinced>> PROVE PromosKeepTheirDistance' /\ OneReaderIsNotEnough'
  BY <1>1 DEF FeedInv, PromosKeepTheirDistance, OneReaderIsNotEnough
<1>2. ASSUME NextPage PROVE FeedInv'
  <2>1. /\ client.listing # "you"
        /\ UNCHANGED <<cluster, moves, moved, liking, snapshot, slot, exposures, convinced, cards>>
    BY <1>2 DEF NextPage, storyVars, youVars, exploreVars
  <2>2. /\ ListingFits' /\ remembered' \subseteq PageRecord /\ client' \in ClientRecord
        /\ seen' \in [Cluster -> Nat] /\ client'.listing = client.listing /\ SlotFits'
    BY <1>0, <1>2, PageIsGiven
  <2>3. FeedTypeOK'
    BY <1>0, <2>1, <2>2 DEF FeedTypeOK
  <2>4. RankingFits'
    BY <1>0, <2>1, <2>2 DEF RankingFits
  <2> QED
    BY <1>1, <2>1, <2>2, <2>3, <2>4 DEF FeedInv
<1>3. ASSUME ForYou PROVE FeedInv'
  <2>1. UNCHANGED <<cluster, moves, moved, remembered, liking, slot, exposures, convinced, cards>>
    BY <1>3 DEF ForYou, storyVars, exploreVars
  <2>2. /\ RankingFits' /\ snapshot' \subseteq Judged /\ IsFiniteSet(snapshot')
        /\ client' \in ClientRecord /\ client'.listing = "you" /\ seen' \in [Cluster -> Nat]
        /\ client'.first = client.first /\ client'.spliced = client.spliced /\ client'.state # "new"
    BY <1>0, <1>3, RankingIsGiven
  <2>3. FeedTypeOK'
    BY <1>0, <2>1, <2>2 DEF FeedTypeOK
  <2>4. ListingFits'
    BY <2>2 DEF ListingFits, Listings
  <2>5. SlotFits'
    <3>1. client.listing = "you"
      BY <1>3 DEF ForYou
    <3>2. client.first = {}
      BY <1>0, <3>1 DEF SlotFits
    <3> QED
      BY <2>2, <3>2 DEF SlotFits, Serves
  <2> QED
    BY <1>1, <2>1, <2>2, <2>3, <2>4, <2>5 DEF FeedInv
<1>4. ASSUME NEW p \in remembered, remembered' = remembered \ {p},
             UNCHANGED <<storyVars, client, seen, youVars, exploreVars, cards>>
      PROVE  FeedInv'
  <2>1. UNCHANGED <<cluster, moves, moved, client, seen, liking, snapshot, slot, exposures, convinced, cards>>
    BY <1>4 DEF storyVars, youVars, exploreVars
  <2>2. remembered' \subseteq remembered
    BY <1>4
  <2>3. FeedTypeOK'
    BY <1>0, <2>1, <2>2 DEF FeedTypeOK
  <2>4. RankingFits'
    BY <1>0, <2>1, RankingStays
  <2>5. \A listing, q : PageFits(listing, q)' <=> PageFits(listing, q)
    BY <2>1 DEF PageFits, Shows, Listed, Shown, Rank, Effective
  <2>6. \A listing : ClientFits(listing)' <=> ClientFits(listing)
    BY <2>1 DEF ClientFits, AtItsRank, Shows, Listed, Shown, Rank, Effective
  <2>7. ListingFits'
    BY <1>0, <2>1, <2>2, <2>5, <2>6 DEF ListingFits
  <2>8. SlotFits'
    BY <1>0, <2>1, SlotStays
  <2> QED
    BY <1>1, <2>1, <2>3, <2>4, <2>7, <2>8 DEF FeedInv
<1>5. ASSUME Reload PROVE FeedInv'
  <2>1. /\ client.first = {} /\ client' = NewClient(client.listing, client.who)
        /\ seen' = [c \in Cluster |-> 0]
        /\ UNCHANGED <<cluster, moves, moved, remembered, liking, snapshot, slot, exposures, convinced, cards>>
    BY <1>5 DEF Reload, storyVars, youVars, exploreVars
  <2>2. client \in ClientRecord /\ client.listing \in Listings \cup {"you"}
        /\ client.who \in Caller \cup {Anonymous}
    BY <1>0 DEF FeedTypeOK, ClientRecord
  <2>3. /\ client'.listing = client.listing /\ client' \in ClientRecord /\ client'.who = client.who
        /\ client'.first = {} /\ client'.spliced = 0
        /\ client'.cursor = NoCursor /\ client'.state = "new" /\ client'.page = 0
        /\ client'.oldest = 0 /\ client'.lost = FALSE
    BY <2>1, <2>2 DEF NewClient, ClientRecord, Cursor
  <2>4. seen' \in [Cluster -> Nat] /\ \A c \in Cluster : seen'[c] = 0 /\ AtItsRank(c)' = 0
    <3>1. 0 \notin Cluster
      BY FeedAssumption
    <3> QED
      BY <2>1, <2>3, <3>1 DEF AtItsRank
  <2>5. FeedTypeOK'
    BY <1>0, <2>1, <2>3, <2>4 DEF FeedTypeOK
  <2>6. \A listing, q : PageFits(listing, q)' <=> PageFits(listing, q)
    BY <2>1 DEF PageFits, Shows, Listed, Shown, Rank, Effective
  <2>7. moves' \in Nat
    BY <1>0, <2>1 DEF FeedTypeOK
  <2>8. \A listing : ClientFits(listing)'
    BY <2>3, <2>4, <2>7 DEF ClientFits
  <2>9. ListingFits'
    BY <1>0, <2>1, <2>3, <2>6, <2>8 DEF ListingFits, Cursor
  <2>10. RankingFits'
    <3>1. PageLimit \in Nat
      BY FeedAssumption
    <3>2. \A m \in snapshot' : m[3] \in Cluster /\ Cardinality(Over(snapshot', LowerPairs, m)) \in Nat
      <4>1. snapshot' = snapshot /\ Orders(snapshot, LowerPairs) /\ IsFiniteSet(snapshot) /\ snapshot \subseteq Judged
        BY <1>0, <2>1, LowersOrder DEF FeedTypeOK
      <4> QED
        BY <4>1, OverIsSmaller DEF Judged
    <3>3. \A m \in snapshot' : seen'[m[3]] = IF Higher(m)' < client'.page * PageLimit THEN 1 ELSE 0
      BY <2>3, <2>4, <3>1, <3>2 DEF Higher
    <3> QED
      BY <1>0, <2>1, <2>3, <2>4, <3>3 DEF RankingFits
  <2>11. SlotFits'
    BY <1>0, <2>1, <2>3 DEF SlotFits, Serves
  <2> QED
    BY <1>1, <2>1, <2>5, <2>9, <2>10, <2>11 DEF FeedInv
<1> QED
  BY <1>2, <1>3, <1>4, <1>5 DEF Paging, Forgotten

LEMMA ExploringKeeps == ASSUME FeedInv, Exploring PROVE FeedInv'
<1>0. FeedTypeOK /\ ListingFits /\ RankingFits /\ SlotFits
  BY DEF FeedInv
<1>1. ASSUME UNCHANGED <<cluster, moves, moved, remembered, client, seen, liking, snapshot, convinced, cards>>,
             slot' \in [Caller -> Cluster \cup {0}], SlotFits',
             exposures' \in [Cluster -> [Caller -> ExposureRecord]]
      PROVE  FeedInv'
  <2>1. FeedTypeOK'
    BY <1>0, <1>1 DEF FeedTypeOK
  <2>2. ListingFits'
    BY <1>0, <1>1, ListingStays
  <2>3. RankingFits'
    BY <1>0, <1>1, RankingStays
  <2>4. PromosKeepTheirDistance' /\ OneReaderIsNotEnough'
    BY <1>1 DEF FeedInv, PromosKeepTheirDistance, OneReaderIsNotEnough
  <2> QED
    BY <1>1, <2>1, <2>2, <2>3, <2>4 DEF FeedInv
<1>2. slot \in [Caller -> Cluster \cup {0}] /\ exposures \in [Cluster -> [Caller -> ExposureRecord]]
  BY <1>0 DEF FeedTypeOK
<1>a. ASSUME NEW sent \in ClientRecord, client' = sent, sent.listing = client.listing,
             sent.cursor = client.cursor, sent.state = client.state, sent.oldest = client.oldest,
             client.listing = "all", seen' \in [Cluster -> Nat],
             \A d \in Cluster : AtItsRank(d)' = AtItsRank(d), SlotFits',
             UNCHANGED <<cluster, moves, moved, remembered, liking, snapshot, convinced, cards>>,
             slot' \in [Caller -> Cluster \cup {0}],
             exposures' \in [Cluster -> [Caller -> ExposureRecord]]
      PROVE  FeedInv'
  <2>1. FeedTypeOK'
    BY <1>0, <1>a DEF FeedTypeOK
  <2>2. ListingFits'
    BY <1>0, <1>a, ClientStays
  <2>3. RankingFits'
    BY <1>0, <1>a DEF RankingFits
  <2>4. PromosKeepTheirDistance' /\ OneReaderIsNotEnough'
    BY <1>a DEF FeedInv, PromosKeepTheirDistance, OneReaderIsNotEnough
  <2> QED
    BY <1>a, <2>1, <2>2, <2>3, <2>4 DEF FeedInv
<1>3. ASSUME NEW u \in Caller, PickCandidate(u) PROVE FeedInv'
  <2>0. UNCHANGED <<cluster, moves, moved, remembered, seen, liking, snapshot, exposures, convinced, cards>>
    BY <1>3 DEF PickCandidate, storyVars, youVars
  <2>1. ASSUME NEW c \in Cluster, slot' = [slot EXCEPT ![u] = c], client' = client,
               Serves(u) => client.first # {}
        PROVE  FeedInv'
    <3>1. slot' \in [Caller -> Cluster \cup {0}] /\ \A v \in Caller \ {u} : slot'[v] = slot[v]
      BY <1>2, <2>1
    <3>2. SlotFits'
      <4>1. ASSUME NEW v \in Caller, Serves(v)', slot'[v] # 0 PROVE client'.first # {}
        <5>1. Serves(v)
          BY <2>1, <4>1 DEF Serves
        <5>2. CASE v = u
          BY <2>1, <5>1, <5>2
        <5>3. CASE v # u
          BY <1>0, <2>1, <3>1, <4>1, <5>1, <5>3 DEF SlotFits
        <5> QED
          BY <5>2, <5>3
      <4> QED
        BY <1>0, <2>1, <4>1 DEF SlotFits
    <3> QED
      BY <1>1, <1>2, <2>0, <2>1, <3>1, <3>2
  <2>2. ASSUME Serves(u), slot[u] = 0, client' = [client EXCEPT !.first = {}], slot' = slot
        PROVE  FeedInv'
    <3>1. client \in ClientRecord
      BY <1>0 DEF FeedTypeOK
    <3>2. PICK sent : sent = [client EXCEPT !.first = {}]
      OBVIOUS
    <3>3. /\ sent \in ClientRecord /\ sent.listing = client.listing /\ sent.cursor = client.cursor
          /\ sent.state = client.state /\ sent.oldest = client.oldest /\ sent.first = {}
          /\ sent.spliced = client.spliced /\ sent.who = client.who
      BY <3>1, <3>2 DEF ClientRecord
    <3>4. client' = sent
      BY <2>2, <3>2
    <3>5. ASSUME NEW v \in Caller, Serves(v)' PROVE slot'[v] = 0
      BY <2>2, <3>3, <3>4, <3>5 DEF Serves
    <3>6. SlotFits'
      BY <1>0, <3>3, <3>4, <3>5 DEF SlotFits
    <3>7. \A d \in Cluster : AtItsRank(d)' = AtItsRank(d)
      BY <2>0, <3>3, <3>4 DEF AtItsRank
    <3>8. client.listing = "all"
      BY <2>2 DEF Serves
    <3>9. seen' \in [Cluster -> Nat] /\ slot' \in [Caller -> Cluster \cup {0}]
          /\ exposures' \in [Cluster -> [Caller -> ExposureRecord]]
      BY <1>0, <1>2, <2>0, <2>2 DEF FeedTypeOK
    <3> QED
      BY <1>a, <2>0, <3>3, <3>4, <3>6, <3>7, <3>8, <3>9
  <2>3. \/ /\ \E c \in Cluster : slot' = [slot EXCEPT ![u] = c]
           /\ client' = client /\ (Serves(u) => client.first # {})
        \/ Serves(u) /\ slot[u] = 0 /\ client' = [client EXCEPT !.first = {}] /\ slot' = slot
    BY <1>3 DEF PickCandidate
  <2> QED
    BY <2>1, <2>2, <2>3
<1>4. ASSUME NEW u \in Caller, RecordExposure(u) PROVE FeedInv'
  <2> DEFINE c == slot[u]
             e == exposures[c][u]
  <2>1. /\ slot' = [slot EXCEPT ![u] = 0] /\ c # 0
        /\ exposures' = [exposures EXCEPT ![c] = [exposures[c] EXCEPT ![u] = [e EXCEPT !.after = e.after + 1]]]
        /\ IF Serves(u)
           THEN /\ client' = [client EXCEPT !.first = {}, !.spliced = c]
                /\ seen' = [seen EXCEPT ![c] = seen[c] + 1]
           ELSE UNCHANGED <<client, seen>>
        /\ UNCHANGED <<cluster, moves, moved, remembered, liking, snapshot, convinced, cards>>
    BY <1>4 DEF RecordExposure, storyVars, youVars
  <2>2. c \in Cluster /\ e \in ExposureRecord
    BY <1>2, <2>1
  <2>3. PICK x : x = [e EXCEPT !.after = e.after + 1]
    OBVIOUS
  <2>4. x \in ExposureRecord
    BY <2>2, <2>3 DEF ExposureRecord
  <2>5. exposures' = [exposures EXCEPT ![c] = [exposures[c] EXCEPT ![u] = x]]
    BY <2>1, <2>3
  <2> HIDE DEF c, e
  <2>6. PICK g : g = [exposures[c] EXCEPT ![u] = x]
    OBVIOUS
  <2>7. g \in [Caller -> ExposureRecord]
    BY <1>2, <2>2, <2>4, <2>6
  <2>8. exposures' \in [Cluster -> [Caller -> ExposureRecord]]
    BY <1>2, <2>5, <2>6, <2>7
  <2>9. slot' \in [Caller -> Cluster \cup {0}] /\ slot'[u] = 0
        /\ \A v \in Caller \ {u} : slot'[v] = slot[v]
    BY <1>2, <2>1
  <2>10. CASE ~Serves(u)
    <3>1. UNCHANGED <<client, seen>>
      BY <2>1, <2>10
    <3>2. SlotFits'
      BY <1>0, <2>9, <3>1 DEF SlotFits, Serves
    <3> QED
      BY <1>1, <2>1, <2>8, <2>9, <3>1, <3>2
  <2>11. CASE Serves(u)
    <3>1. client.listing = "all" /\ client.state # "new" /\ client.spliced = 0
      BY <1>0, <2>1, <2>11 DEF SlotFits, c
    <3>2. client \in ClientRecord /\ seen \in [Cluster -> Nat]
      BY <1>0 DEF FeedTypeOK
    <3>3. PICK got : got = [client EXCEPT !.first = {}]
      OBVIOUS
    <3>4. /\ got \in ClientRecord /\ got.listing = client.listing /\ got.cursor = client.cursor
          /\ got.state = client.state /\ got.oldest = client.oldest /\ got.first = {}
          /\ got.who = client.who
      BY <3>2, <3>3 DEF ClientRecord
    <3>5. PICK sent : sent = [got EXCEPT !.spliced = c]
      OBVIOUS
    <3>6. /\ sent \in ClientRecord /\ sent.listing = client.listing /\ sent.cursor = client.cursor
          /\ sent.state = client.state /\ sent.oldest = client.oldest /\ sent.first = {}
          /\ sent.who = client.who /\ sent.spliced = c
      BY <2>2, <3>4, <3>5 DEF ClientRecord
    <3>7. client' = sent
      BY <2>1, <2>11, <3>3, <3>5
    <3>8. seen' = [seen EXCEPT ![c] = seen[c] + 1]
      BY <2>1, <2>11
    <3>9. seen' \in [Cluster -> Nat]
      BY <2>2, <3>2, <3>8
    <3>10. ASSUME NEW d \in Cluster PROVE AtItsRank(d)' = AtItsRank(d)
      <4>1. seen[d] \in Nat /\ d # 0 /\ seen'[d] = IF d = c THEN seen[d] + 1 ELSE seen[d]
        BY <3>2, <3>8, FeedAssumption
      <4>2. client'.spliced = c
        BY <3>6, <3>7
      <4> QED
        BY <3>1, <4>1, <4>2 DEF AtItsRank
    <3>11. ASSUME NEW v \in Caller, Serves(v)' PROVE slot'[v] = 0
      BY <2>9, <2>11, <3>6, <3>7, <3>11 DEF Serves
    <3>12. SlotFits'
      BY <3>1, <3>6, <3>7, <3>11 DEF SlotFits
    <3> QED
      BY <1>a, <2>1, <2>8, <2>9, <3>1, <3>6, <3>7, <3>9, <3>10, <3>12
  <2> QED
    BY <2>10, <2>11
<1>5. ASSUME NEW u \in Caller, NEW c \in Cluster, NEW how \in {"full", "glance"}, OpenStory(u, c, how)
      PROVE  FeedInv'
  <2> DEFINE e == exposures[c][u]
             x == [before |-> e.before + e.after, after |-> 0, last |-> how]
  <2>1. /\ exposures' = [exposures EXCEPT ![c] = [exposures[c] EXCEPT ![u] = x]]
        /\ UNCHANGED <<cluster, moves, moved, remembered, client, seen, liking, snapshot, slot, convinced, cards>>
    BY <1>5 DEF OpenStory, storyVars, pageVars, youVars
  <2>2. e \in ExposureRecord
    BY <1>2
  <2>3. x \in ExposureRecord
    BY <2>2 DEF ExposureRecord
  <2> HIDE DEF x
  <2>4. PICK g : g = [exposures[c] EXCEPT ![u] = x]
    OBVIOUS
  <2>5. g \in [Caller -> ExposureRecord]
    BY <1>2, <2>3, <2>4
  <2>6. exposures' \in [Cluster -> [Caller -> ExposureRecord]]
    BY <1>2, <2>1, <2>4, <2>5
  <2>7. SlotFits'
    BY <1>0, <2>1, SlotStays
  <2> QED
    BY <1>1, <1>2, <2>1, <2>6, <2>7
<1>6. ASSUME NEW bar \in 0 .. 100, Recompute(bar) PROVE FeedInv'
  <2> DEFINE ready == {c \in Cluster : cluster[c].explore = "pending" /\ Count(c) >= MinExposures}
             wins == {c \in ready : Clears(Cardinality(Engagements(c)), Count(c), bar)}
             how(c) == IF c \in wins THEN "promoted" ELSE IF c \in ready THEN "rejected" ELSE cluster[c].explore
             newRows == [c \in Cluster |-> [cluster[c] EXCEPT !.explore = how(c)]]
             who(c) == [by |-> {u \in Caller : Engaged(c, u)}, twice |-> \E u \in Caller : exposures[c][u].before > 1]
  <2>1. /\ Becomes(newRows)
        /\ convinced' = [c \in Cluster |-> IF c \in wins THEN who(c) ELSE convinced[c]]
        /\ UNCHANGED <<remembered, client, seen, liking, snapshot, slot, exposures, cards>>
    BY <1>6 DEF Recompute, pageVars, youVars
  <2>2. cluster \in [Cluster -> StoryRecord] /\ convinced \in [Cluster -> [by : SUBSET Caller, twice : BOOLEAN]]
    BY <1>0 DEF FeedTypeOK
  <2>3. ASSUME NEW c \in wins
        PROVE  who(c).twice \/ Cardinality(who(c).by) > 1
    <3>1. c \in Cluster /\ Count(c) >= MinExposures /\ Clears(Cardinality(Engagements(c)), Count(c), bar)
      OBVIOUS
    <3>2. ASSUME NEW u \in Caller PROVE exposures[c][u].before \in Nat
      <4>1. exposures[c] \in [Caller -> ExposureRecord]
        BY <1>2, <3>1
      <4> QED
        BY <4>1 DEF ExposureRecord
    <3>3. (\A u \in Caller : exposures[c][u].before <= 1) => Cardinality({u \in Caller : Engaged(c, u)}) > 1
      BY <1>0, <3>1, OneIsTooFew
    <3> HIDE DEF wins
    <3> QED
      BY <3>2, <3>3
  <2>4. ASSUME NEW c \in Cluster PROVE how(c) \in {"pending", "promoted", "rejected"}
    BY <2>2 DEF StoryRecord
  <2>5. ASSUME NEW c \in Cluster PROVE who(c) \in [by : SUBSET Caller, twice : BOOLEAN]
    OBVIOUS
  <2>6. wins \subseteq Cluster
    OBVIOUS
  <2>7. ASSUME NEW c \in Cluster, how(c) = "promoted", c \notin wins PROVE cluster[c].explore = "promoted"
    BY <2>7
  <2> HIDE DEF ready, wins, how, who
  <2>8. ASSUME NEW c \in Cluster PROVE newRows[c] \in StoryRecord /\ newRows[c].explore = how(c)
    <3>1. cluster[c] \in StoryRecord
      BY <2>2
    <3> QED
      BY <2>4, <3>1 DEF StoryRecord
  <2>9. newRows \in [Cluster -> StoryRecord]
    BY <2>8
  <2> HIDE DEF newRows
  <2>10. ListingFits' /\ cluster' \in [Cluster -> StoryRecord] /\ moves' \in Nat /\ moved' \in [Cluster -> Nat]
    BY <1>0, <2>1, <2>9, StoriesMove
  <2>11. RankingFits'
    BY <1>0, <2>1, RankingStays
  <2>12. convinced' \in [Cluster -> [by : SUBSET Caller, twice : BOOLEAN]]
         /\ \A c \in Cluster : convinced'[c] = IF c \in wins THEN who(c) ELSE convinced[c]
    BY <2>1, <2>2, <2>5
  <2>13. FeedTypeOK'
    BY <1>0, <2>1, <2>10, <2>12 DEF FeedTypeOK
  <2>14. OneReaderIsNotEnough'
    <3>1. cluster' = newRows
      BY <2>1 DEF Becomes
    <3> QED
      BY <2>3, <2>7, <2>8, <2>12, <3>1 DEF FeedInv, OneReaderIsNotEnough
  <2>15. PromosKeepTheirDistance'
    BY <2>1 DEF FeedInv, PromosKeepTheirDistance
  <2>16. SlotFits'
    BY <1>0, <2>1, SlotStays
  <2> QED
    BY <2>10, <2>11, <2>13, <2>14, <2>15, <2>16 DEF FeedInv
<1> QED
  BY <1>3, <1>4, <1>5, <1>6 DEF Exploring

LEMMA PromotingKeeps == ASSUME FeedInv, Promoting PROVE FeedInv'
<1>1. PICK n \in Nat, first \in BOOLEAN, installed \in BOOLEAN, age \in Nat \cup {-1},
           swiped \in SUBSET {"game", "continue"} : ApplyPromos(n, first, installed, age, swiped)
  BY DEF Promoting
<1>2. UNCHANGED <<cluster, moves, moved, remembered, client, seen, liking, snapshot, slot, exposures, convinced>>
  BY <1>1 DEF ApplyPromos, storyVars, pageVars, youVars, exploreVars
<1>3. FeedTypeOK'
  BY <1>2 DEF FeedInv, FeedTypeOK
<1>4. ListingFits' /\ RankingFits' /\ SlotFits'
  BY <1>2, ListingStays, RankingStays, SlotStays DEF FeedInv
<1>5. PromosKeepTheirDistance'
  BY <1>1, PromosAreApart
<1>6. OneReaderIsNotEnough'
  BY <1>2 DEF FeedInv, OneReaderIsNotEnough
<1> QED
  BY <1>3, <1>4, <1>5, <1>6 DEF FeedInv

LEMMA FeedInvariance == FeedSpec => []FeedInv
<1> DEFINE Start == \E listing \in Listings \cup {"you"}, first \in [Cluster -> StoryRecord],
                       who \in Caller \cup {Anonymous} : FeedInit(listing, first, who)
           Steps == Shifting \/ Paging \/ Exploring \/ Promoting
<1>1. Start => FeedInv
  BY InitFeedInv
<1>2. FeedInv /\ [Steps]_feedVars => FeedInv'
  <2> SUFFICES ASSUME FeedInv, [Steps]_feedVars PROVE FeedInv'
    OBVIOUS
  <2>1. CASE UNCHANGED feedVars
    <3>1. UNCHANGED <<cluster, moves, moved, remembered, client, seen, liking, snapshot, slot,
                      exposures, convinced, cards>>
      BY <2>1 DEF feedVars
    <3>2. FeedTypeOK'
      BY <3>1 DEF FeedInv, FeedTypeOK
    <3>3. ListingFits' /\ RankingFits' /\ SlotFits'
      BY <3>1, ListingStays, RankingStays, SlotStays DEF FeedInv
    <3>4. PromosKeepTheirDistance' /\ OneReaderIsNotEnough'
      BY <3>1 DEF FeedInv, PromosKeepTheirDistance, OneReaderIsNotEnough
    <3> QED
      BY <3>2, <3>3, <3>4 DEF FeedInv
  <2> QED
    BY <2>1, ShiftingKeeps, PagingKeeps, ExploringKeeps, PromotingKeeps
<1> HIDE DEF Start, Steps
<1>3. Start /\ [][Steps]_feedVars => []FeedInv
  BY <1>1, <1>2, PTL
<1> QED
  BY <1>3 DEF FeedSpec, Start, Steps

(* Whatever moves, is remembered or forgotten between two pages: a story that  *)
(* keeps its place is shown once at its rank, besides the candidate of a       *)
(* reader's first page of All Stories, a session of For You is one ranking,    *)
(* and promos keep their distance (app/main.py:2085-2283, 2323-2440,           *)
(* services/launcher_feed.py:236-303).                                         *)
THEOREM PagesStaySound == FeedSpec => []PagesAreSound
<1>1. FeedInv => PagesAreSound
  <2> SUFFICES ASSUME FeedInv PROVE PagesAreSound
    OBVIOUS
  <2>1. StillStoriesShowOnce
    <3> SUFFICES ASSUME client.listing \in Listings \ {"search"}, NEW c \in Cluster, moved[c] <= client.oldest
                 PROVE  /\ AtItsRank(c) <= 1
                        /\ client.state = "end" /\ c \in Listed(client.listing) /\ Shown(client.listing, c)
                             => AtItsRank(c) = 1
      BY DEF StillStoriesShowOnce, OncePaged
    <3>1. ClientFits(client.listing)
      BY DEF FeedInv, ListingFits
    <3>2. client.state = "new" => AtItsRank(c) = 0
      BY <3>1 DEF ClientFits
    <3>3. client.state # "new" => AtItsRank(c) \in {0, 1}
      BY <3>1 DEF ClientFits
    <3>4. client.state = "end" => client.cursor = NoCursor
      BY <3>1 DEF ClientFits
    <3>5. client.state = "end" /\ Shows(client.listing, c) => AtItsRank(c) = 1
      BY <3>1, <3>4 DEF ClientFits
    <3> QED
      BY <3>2, <3>3, <3>5 DEF Shows
  <2>2. ForYouIsOneRanking
    <3>1. ASSUME NEW m \in snapshot PROVE {k \in snapshot : Lower(m, k)} = Over(snapshot, LowerPairs, m)
      BY DEF Over, LowerPairs, FeedInv, FeedTypeOK
    <3> QED
      BY <3>1 DEF ForYouIsOneRanking, FeedInv, RankingFits, Higher
  <2> QED
    BY <2>1, <2>2 DEF PagesAreSound, FeedInv
<1> QED
  BY <1>1, FeedInvariance, PTL

(* One engaged reader does not promote a story (services/explore_bandit.py:    *)
(* 176-238).                                                                   *)
THEOREM PromotionNeedsReaders == FeedSpec => []OneReaderIsNotEnough
<1>1. FeedInv => OneReaderIsNotEnough
  BY DEF FeedInv
<1> QED
  BY <1>1, FeedInvariance, PTL

LEMMA FirstPlaceIsTaken ==
    ASSUME NEW S, IsFiniteSet(S), S # {}, NEW R, Orders(S, R)
    PROVE  \E x \in S : Over(S, R, x) = {}
<1>1. 0 \in Nat /\ 0 < Cardinality(S)
  BY FS_EmptySet, FS_CardinalityType
<1>2. ASSUME NEW n \in Nat, n < Cardinality(S), n = 0
      PROVE  \E x \in S : Cardinality(Over(S, R, x)) = n
  BY <1>2, EveryPlaceIsTaken, Zenon
<1>3. \E x \in S : Cardinality(Over(S, R, x)) = 0
  BY <1>1, <1>2
<1>4. PICK m \in S : Cardinality(Over(S, R, m)) = 0
  BY <1>3, Zenon
<1>5. Over(S, R, m) \in SUBSET S
  BY DEF Over
<1>6. IsFiniteSet(Over(S, R, m))
  BY <1>5, FS_Subset
<1>7. Over(S, R, m) = {}
  BY <1>4, <1>6, FS_EmptySet
<1> QED
  BY <1>7, Zenon

-----------------------------------------------------------------------------
(* Streaks.  The days up to one of them that are missing, with the day before  *)
(* the first: the last of these is where the run ends, looked at backwards.    *)

LEMMA GreatestIsThere ==
    ASSUME NEW S \in SUBSET Int, IsFiniteSet(S), S # {}
    PROVE  /\ Max(S) \in S /\ \A y \in S : Max(S) >= y
           /\ Min(S) \in S /\ \A y \in S : Min(S) <= y
<1>1. \E m \in S : \A y \in S : m >= y
  <2> DEFINE R == {p \in S \X S : p[1] < p[2]}
  <2>1. \A x, y \in S : <<x, y>> \in R <=> x < y
    OBVIOUS
  <2>2. Orders(S, R)
    <3> HIDE DEF R
    <3> QED
      BY <2>1 DEF Orders
  <2> HIDE DEF R
  <2>3. PICK m \in S : Over(S, R, m) = {}
    BY <2>2, FirstPlaceIsTaken, Zenon
  <2>4. \A y \in S : m \in Int /\ y \in Int /\ ~(m < y)
    BY <2>1, <2>3 DEF Over
  <2> QED
    BY <2>4
<1>2. \E m \in S : \A y \in S : m <= y
  <2> DEFINE R == {p \in S \X S : p[2] < p[1]}
  <2>1. \A x, y \in S : <<x, y>> \in R <=> y < x
    OBVIOUS
  <2>2. Orders(S, R)
    <3> HIDE DEF R
    <3> QED
      BY <2>1 DEF Orders
  <2> HIDE DEF R
  <2>3. PICK m \in S : Over(S, R, m) = {}
    BY <2>2, FirstPlaceIsTaken, Zenon
  <2>4. \A y \in S : m \in Int /\ y \in Int /\ ~(y < m)
    BY <2>1, <2>3 DEF Over
  <2> QED
    BY <2>4
<1>3. Max(S) \in S /\ \A y \in S : Max(S) >= y
  BY <1>1 DEF Max
<1>4. Min(S) \in S /\ \A y \in S : Min(S) <= y
  BY <1>2 DEF Min
<1> QED
  BY <1>3, <1>4

LEMMA DaysAreFinite ==
    ASSUME NEW a \in Int, NEW b \in Int, NEW S \in SUBSET (a .. b)
    PROVE  IsFiniteSet(S) /\ S \subseteq Int
<1>1. IsFiniteSet(a .. b)
  BY FS_Interval
<1>2. \A x \in a .. b : x \in Int
  OBVIOUS
<1> QED
  BY <1>1, <1>2, FS_Subset

Missing(days, d) == {m \in -1 .. d : m \notin days}
Place(days, d) == d - Max(Missing(days, d))

LEMMA PlaceOfADay ==
    ASSUME NEW days \in SUBSET (0 .. Today), NEW d \in 0 .. Today
    PROVE  /\ Place(days, d) \in 0 .. d + 1
           /\ d - Place(days, d) \notin days
           /\ \A k \in d - Place(days, d) + 1 .. d : k \in days
<1> DEFINE M == Missing(days, d)
<1>1. M \in SUBSET (-1 .. d) /\ -1 \in M /\ d \in Int /\ -1 \in Int
  BY DEF Missing
<1>2. IsFiniteSet(M) /\ M \subseteq Int
  BY <1>1, DaysAreFinite
<1>3. Max(M) \in M /\ \A y \in M : Max(M) >= y
  BY <1>1, <1>2, GreatestIsThere
<1>4. PICK m : m = Max(M)
  OBVIOUS
<1>5. m \in -1 .. d /\ m \notin days /\ Place(days, d) = d - m
  BY <1>1, <1>3, <1>4 DEF Place, Missing
<1>6. ASSUME NEW k \in m + 1 .. d PROVE k \in days
  <2>1. k \in M => m >= k
    BY <1>3, <1>4
  <2>2. k \in -1 .. d /\ ~(m >= k)
    BY <1>5
  <2> QED
    BY <2>1, <2>2 DEF Missing
<1>7. d - Place(days, d) = m
  BY <1>5
<1> QED
  BY <1>5, <1>6, <1>7

LEMMA PlaceIsUnique ==
    ASSUME NEW days \in SUBSET (0 .. Today), NEW d \in 0 .. Today, NEW n \in 0 .. d + 1,
           d - n \notin days, \A k \in d - n + 1 .. d : k \in days
    PROVE  Place(days, d) = n
<1>1. PICK p \in 0 .. d + 1 : p = Place(days, d)
  BY PlaceOfADay
<1>2. d - p \notin days /\ \A k \in d - p + 1 .. d : k \in days
  BY <1>1, PlaceOfADay
<1>3. ~(p < n)
  <2>1. p < n => d - p \in d - n + 1 .. d
    OBVIOUS
  <2> QED
    BY <1>2, <2>1
<1>4. ~(n < p)
  <2>1. n < p => d - n \in d - p + 1 .. d
    OBVIOUS
  <2> QED
    BY <1>2, <2>1
<1> QED
  BY <1>1, <1>3, <1>4

LEMMA PlaceGrows ==
    ASSUME NEW days \in SUBSET (0 .. Today), NEW d \in 0 .. Today
    PROVE  Place(days, d) = IF d \notin days THEN 0 ELSE IF d = 0 THEN 1 ELSE Place(days, d - 1) + 1
<1>1. CASE d \notin days
  <2>1. d - 0 \notin days /\ \A k \in d - 0 + 1 .. d : k \in days
    BY <1>1
  <2> QED
    BY <1>1, <2>1, PlaceIsUnique
<1>2. CASE d \in days /\ d = 0
  <2>1. d - 1 \notin days /\ \A k \in d - 1 + 1 .. d : k \in days
    BY <1>2
  <2>2. Place(days, d) = 1
    BY <1>2, <2>1, PlaceIsUnique
  <2> QED
    BY <1>2, <2>2
<1>3. CASE d \in days /\ d # 0
  <2>1. d - 1 \in 0 .. Today
    BY <1>3, ReadingAssumption
  <2>2. PICK p \in 0 .. d : p = Place(days, d - 1)
    BY <2>1, PlaceOfADay
  <2>3. d - 1 - p \notin days /\ \A k \in d - 1 - p + 1 .. d - 1 : k \in days
    BY <2>1, <2>2, PlaceOfADay
  <2>4. p + 1 \in 0 .. d + 1 /\ d - (p + 1) = d - 1 - p
    BY <2>2
  <2>5. \A k \in d - (p + 1) + 1 .. d : k \in days
    <3> SUFFICES ASSUME NEW k \in d - (p + 1) + 1 .. d PROVE k \in days
      OBVIOUS
    <3>1. k = d \/ k \in d - 1 - p + 1 .. d - 1
      OBVIOUS
    <3> QED
      BY <1>3, <2>3, <3>1
  <2>6. Place(days, d) = p + 1
    BY <2>3, <2>4, <2>5, PlaceIsUnique
  <2> QED
    BY <1>3, <2>2, <2>6
<1> QED
  BY <1>1, <1>2, <1>3

Loop(R) == [d \in 0 .. Today |-> [days \in SUBSET (0 .. Today) |->
              IF d \notin days THEN 0 ELSE IF d = 0 THEN 1 ELSE R[d - 1][days] + 1]]

LEMMA RunIsPlace ==
    ASSUME NEW days \in SUBSET (0 .. Today), NEW d \in 0 .. Today PROVE Run[d][days] = Place(days, d)
<1>0. Today \in Nat
  BY ReadingAssumption
<1>1. Run = Loop(Run)
  <2> DEFINE G == [f \in 0 .. Today |-> [e \in SUBSET (0 .. Today) |-> Place(e, f)]]
  <2>1. ASSUME NEW f \in 0 .. Today, NEW e \in SUBSET (0 .. Today)
        PROVE  G[f][e] = Loop(G)[f][e]
    <3>1. G[f][e] = Place(e, f)
      OBVIOUS
    <3>2. Loop(G)[f][e] = IF f \notin e THEN 0 ELSE IF f = 0 THEN 1 ELSE G[f - 1][e] + 1
      BY DEF Loop
    <3>3. f # 0 => G[f - 1][e] = Place(e, f - 1)
      <4>1. f # 0 => f - 1 \in 0 .. Today
        BY <1>0
      <4> QED
        BY <4>1
    <3> HIDE DEF G
    <3> QED
      BY <3>1, <3>2, <3>3, PlaceGrows
  <2>2. ASSUME NEW f \in 0 .. Today PROVE G[f] = Loop(G)[f]
    <3>1. G[f] = [e \in SUBSET (0 .. Today) |-> G[f][e]]
      OBVIOUS
    <3>2. Loop(G)[f] = [e \in SUBSET (0 .. Today) |-> Loop(G)[f][e]]
      BY DEF Loop
    <3> HIDE DEF G
    <3> QED
      BY <2>1, <3>1, <3>2
  <2>3. G = [f \in 0 .. Today |-> G[f]]
    OBVIOUS
  <2>4. Loop(G) = [f \in 0 .. Today |-> Loop(G)[f]]
    BY DEF Loop
  <2> HIDE DEF G
  <2>5. G = Loop(G)
    BY <2>2, <2>3, <2>4
  <2> QED
    BY <2>5 DEF Run, Loop
<1>2. ASSUME NEW f \in 0 .. Today
      PROVE  Run[f][days] = IF f \notin days THEN 0 ELSE IF f = 0 THEN 1 ELSE Run[f - 1][days] + 1
  <2>1. Loop(Run)[f][days] = IF f \notin days THEN 0 ELSE IF f = 0 THEN 1 ELSE Run[f - 1][days] + 1
    BY DEF Loop
  <2> QED
    BY <1>1, <2>1, Zenon
<1> DEFINE Wrong == {f \in 0 .. Today : Run[f][days] # Place(days, f)}
<1>3. Wrong = {}
  <2> SUFFICES ASSUME Wrong # {} PROVE FALSE
    OBVIOUS
  <2>1. Wrong \in SUBSET (0 .. Today) /\ 0 \in Int /\ Today \in Int
    BY <1>0
  <2>2. IsFiniteSet(Wrong) /\ Wrong \subseteq Int
    <3> HIDE DEF Wrong
    <3> QED
      BY <2>1, DaysAreFinite
  <2>3. PICK f \in Wrong : \A y \in Wrong : f <= y
    BY <2>2, GreatestIsThere
  <2>4. f \in 0 .. Today /\ Run[f][days] # Place(days, f)
    OBVIOUS
  <2>5. f # 0 => f - 1 \in 0 .. Today /\ ~(f <= f - 1)
    BY <1>0, <2>4
  <2>6. f # 0 => Run[f - 1][days] = Place(days, f - 1)
    BY <2>3, <2>5
  <2> QED
    BY <1>2, <2>4, <2>6, PlaceGrows
<1> QED
  BY <1>3

LEMMA RunsEndAtAPlace ==
    ASSUME NEW days \in SUBSET (0 .. Today)
    PROVE  /\ \A r \in Runs(days) : /\ r[2] \in 0 .. Today /\ r[2] \in days
                                    /\ Length(r) \in 1 .. Place(days, r[2])
           /\ \A d \in 0 .. Today : Place(days, d) > 0 =>
                \E r \in Runs(days) : r[2] = d /\ Length(r) = Place(days, d)
<1>0. Today \in Nat
  BY ReadingAssumption
<1>1. ASSUME NEW r \in Runs(days)
      PROVE  r[2] \in 0 .. Today /\ r[2] \in days /\ Length(r) \in 1 .. Place(days, r[2])
  <2>1. PICK a \in 0 .. Today, b \in 0 .. Today : r = <<a, b>> /\ a <= b /\ a .. b \subseteq days
    BY DEF Runs
  <2>2. PICK p \in 0 .. b + 1 : p = Place(days, b)
    BY PlaceOfADay
  <2>3. b - p \notin days
    BY <2>2, PlaceOfADay
  <2>4. ~(b - p \in a .. b)
    BY <2>1, <2>3
  <2>5. b - a + 1 \in 1 .. p
    BY <2>1, <2>4
  <2>6. b \in a .. b
    BY <2>1
  <2>7. r[2] = b /\ Length(r) = b - a + 1
    BY <2>1 DEF Length
  <2> QED
    BY <2>1, <2>2, <2>5, <2>6, <2>7
<1>2. ASSUME NEW d \in 0 .. Today, Place(days, d) > 0
      PROVE  \E r \in Runs(days) : r[2] = d /\ Length(r) = Place(days, d)
  <2>1. PICK p \in 0 .. d + 1 : p = Place(days, d)
    BY PlaceOfADay
  <2>2. \A k \in d - p + 1 .. d : k \in days
    BY <2>1, PlaceOfADay
  <2>3. d - p + 1 \in 0 .. Today /\ d - p + 1 <= d
    BY <1>0, <1>2, <2>1
  <2>4. PICK a \in 0 .. Today : a = d - p + 1
    BY <2>3
  <2>5. a .. d \subseteq days /\ a <= d /\ d - a + 1 = p
    BY <2>1, <2>2, <2>3, <2>4
  <2>6. <<a, d>> \in Runs(days) /\ Length(<<a, d>>) = d - a + 1
    BY <2>5 DEF Runs, Length
  <2> QED
    BY <2>1, <2>5, <2>6
<1> QED
  BY <1>1, <1>2

LEMMA MostOfRuns ==
    ASSUME NEW days \in SUBSET (0 .. Today), NEW rs \in SUBSET Runs(days), NEW n \in Nat,
           \A r \in rs : Length(r) <= n, n > 0 => \E r \in rs : Length(r) = n
    PROVE  Most(rs) = n
<1>0. Today \in Nat
  BY ReadingAssumption
<1>1. CASE rs = {}
  BY <1>1 DEF Most
<1>2. CASE rs # {}
  <2> DEFINE S == {Length(r) : r \in rs}
  <2>1. \A r \in rs : Length(r) \in 1 .. n
    <3> SUFFICES ASSUME NEW r \in rs PROVE Length(r) \in 1 .. n
      OBVIOUS
    <3>1. r[2] \in 0 .. Today /\ Length(r) \in 1 .. Place(days, r[2]) /\ Length(r) <= n
      BY RunsEndAtAPlace
    <3>2. Place(days, r[2]) \in 0 .. r[2] + 1
      BY <3>1, PlaceOfADay
    <3> QED
      BY <3>1, <3>2
  <2>2. S \in SUBSET (1 .. n) /\ S # {} /\ 1 \in Int /\ n \in Int
    BY <1>2, <2>1
  <2>3. n \in S
    <3>1. n > 0
      BY <2>2
    <3> QED
      BY <3>1
  <2>4. Most(rs) = Max(S)
    BY <1>2 DEF Most
  <2> HIDE DEF S
  <2>5. IsFiniteSet(S) /\ S \subseteq Int
    BY <2>2, DaysAreFinite
  <2>6. PICK k : k = Max(S)
    OBVIOUS
  <2>7. k \in 1 .. n /\ k >= n
    BY <2>2, <2>3, <2>5, <2>6, GreatestIsThere
  <2> QED
    BY <2>4, <2>6, <2>7
<1> QED
  BY <1>1, <1>2

LEMMA StreaksAreOfRuns ==
    ASSUME NEW days \in SUBSET (0 .. Today)
    PROVE  /\ Streaks(days).longest = Most(Runs(days))
           /\ Streaks(days).current = Most(Late(days))
           /\ Streaks(days).of = days
<1>0. Today \in Nat \ {0}
  BY ReadingAssumption
<1>1. \A d \in 0 .. Today : Run[d][days] = Place(days, d) /\ Place(days, d) \in 0 .. d + 1
  BY RunIsPlace, PlaceOfADay
<1>2. Max({Run[d][days] : d \in 0 .. Today}) = Most(Runs(days))
  <2> DEFINE S == {Run[d][days] : d \in 0 .. Today}
  <2>1. S \in SUBSET (0 .. Today + 1)
    BY <1>0, <1>1
  <2>2. S # {}
    BY <1>0
  <2>3. \A d \in 0 .. Today : Place(days, d) \in S
    BY <1>1
  <2>4. \A n \in S : \E d \in 0 .. Today : n = Place(days, d)
    BY <1>1
  <2> HIDE DEF S
  <2>5. IsFiniteSet(S) /\ S \subseteq Int
    <3>1. 0 \in Int /\ Today + 1 \in Int
      BY <1>0
    <3> QED
      BY <2>1, <3>1, DaysAreFinite
  <2>6. PICK n : n = Max(S)
    OBVIOUS
  <2>7. n \in S /\ \A y \in S : n >= y
    BY <2>2, <2>5, <2>6, GreatestIsThere
  <2>8. n \in Nat
    BY <2>1, <2>7
  <2>9. ASSUME NEW r \in Runs(days) PROVE Length(r) <= n
    <3>1. r[2] \in 0 .. Today /\ Length(r) \in 1 .. Place(days, r[2])
      BY RunsEndAtAPlace
    <3>2. n >= Place(days, r[2]) /\ Place(days, r[2]) \in 0 .. r[2] + 1
      BY <1>1, <2>3, <2>7, <3>1
    <3> QED
      BY <2>8, <3>1, <3>2
  <2>10. ASSUME n > 0 PROVE \E r \in Runs(days) : Length(r) = n
    <3>1. PICK d \in 0 .. Today : n = Place(days, d)
      BY <2>4, <2>7
    <3> QED
      BY <2>10, <3>1, RunsEndAtAPlace
  <2>11. Most(Runs(days)) = n
    BY <2>8, <2>9, <2>10, MostOfRuns
  <2> QED
    BY <2>6, <2>11 DEF S
<1>3. PICK t : t = IF Today \in days THEN Today ELSE Today - 1
  OBVIOUS
<1>4. t \in 0 .. Today
  BY <1>0, <1>3
<1>5. Late(days) = {r \in Runs(days) : r[2] = t}
  <2>1. \A r \in Runs(days) : r[2] \in 0 .. Today /\ r[2] \in days
    BY RunsEndAtAPlace
  <2>2. ASSUME NEW r \in Runs(days)
        PROVE  r[2] = Today \/ (r[2] = Today - 1 /\ Today \notin days) <=> r[2] = t
    BY <1>0, <1>3, <2>1
  <2> QED
    BY <2>2 DEF Late
<1>6. Run[t][days] = Most(Late(days))
  <2>1. PICK n \in 0 .. t + 1 : n = Place(days, t)
    BY <1>1, <1>4
  <2>2. n \in Nat /\ Late(days) \in SUBSET Runs(days)
    BY <1>4, <1>5, <2>1
  <2>3. ASSUME NEW r \in Late(days) PROVE Length(r) <= n
    <3>1. r \in Runs(days) /\ r[2] = t
      BY <1>5
    <3>2. Length(r) \in 1 .. n
      BY <2>1, <3>1, RunsEndAtAPlace
    <3> QED
      BY <2>2, <3>2
  <2>4. ASSUME n > 0 PROVE \E r \in Late(days) : Length(r) = n
    <3>1. PICK r \in Runs(days) : r[2] = t /\ Length(r) = n
      BY <1>4, <2>1, <2>4, RunsEndAtAPlace
    <3> QED
      BY <1>5, <3>1
  <2>5. Most(Late(days)) = n
    BY <2>2, <2>3, <2>4, MostOfRuns
  <2> QED
    BY <1>1, <1>4, <2>1, <2>5
<1>7. Streaks(days) = [current |-> Run[t][days], longest |-> Max({Run[d][days] : d \in 0 .. Today}), of |-> days]
  BY <1>3 DEF Streaks
<1> QED
  BY <1>2, <1>6, <1>7

-----------------------------------------------------------------------------
(* Reports.  While no report was repeated or overlapped another, the affinity  *)
(* is the number of closed reads but the one that is still to be counted.      *)

ReadingReport == [event : Event, closing : BOOLEAN, engages : BOOLEAN, seen : Nat]
ReportHistory == [closed : SUBSET Event, again : BOOLEAN, mixed : BOOLEAN]

Counting == {d \in Delivery : delivery[d] # NoReport /\ delivery[d].engages}
Settled == {e \in reported.closed : \A d \in Counting : delivery[d].event # e}

ReportsFit ==
    /\ event \in [Event -> [open : BOOLEAN, closed : BOOLEAN]] /\ affinity \in Nat
    /\ delivery \in [Delivery -> {NoReport} \cup ReadingReport]
    /\ reported \in ReportHistory /\ IsFiniteSet(reported.closed)
    /\ \A d, x \in Delivery : delivery[d] # NoReport /\ delivery[d].event = delivery[x].event => d = x
    /\ ~reported.again /\ ~reported.mixed =>
         /\ \A d, x \in Counting : d = x
         /\ \A d \in Counting : delivery[d].event \in reported.closed /\ delivery[d].seen = affinity
         /\ affinity = Cardinality(Settled)
         /\ \A e \in Settled : event[e].open

LEMMA ReportsAreNone ==
    /\ NoReport \notin ReadingReport
    /\ \A q \in ReadingReport : q.event \in Event /\ q.event # 0 /\ q # NoReport
    /\ NoReport.event = 0
<1>1. NoReport.event = 0 /\ 0 \notin Event
  BY ReadingAssumption DEF NoReport
<1>2. \A q \in ReadingReport : q.event \in Event
  BY DEF ReadingReport
<1> QED
  BY <1>1, <1>2

LEMMA ReportKeeps ==
    ASSUME ReportsFit, NEW d \in Delivery, NEW e \in Event, NEW closing \in BOOLEAN, NEW type,
           Report(d, e, closing, type)
    PROVE  ReportsFit'
<1> DEFINE q == [event |-> e, closing |-> closing, engages |-> Engages(closing, type), seen |-> affinity]
<1>1. /\ delivery[d] = NoReport /\ \A x \in Delivery : delivery[x].event # e
      /\ delivery' = [delivery EXCEPT ![d] = q] /\ event' = event /\ affinity' = affinity
  BY DEF Report
<1>2. PICK closed, again, mixed :
        /\ closed = IF closing /\ type = "read" THEN reported.closed \cup {e} ELSE reported.closed
        /\ again = (reported.again \/ (closing /\ e \in reported.closed))
        /\ mixed = (reported.mixed \/ (Engages(closing, type)
                      /\ \E x \in Delivery : delivery[x] # NoReport /\ delivery[x].engages))
  OBVIOUS
<1>3. reported \in ReportHistory /\ affinity \in Nat /\ IsFiniteSet(reported.closed)
  BY DEF ReportsFit
<1>4. reported' = [reported EXCEPT !.closed = closed, !.again = again, !.mixed = mixed]
  BY <1>2 DEF Report
<1>5. reported'.closed = closed /\ reported'.again = again /\ reported'.mixed = mixed
  BY <1>3, <1>4 DEF ReportHistory
<1>6. Engages(closing, type) \in BOOLEAN /\ (Engages(closing, type) <=> closing /\ type = "read")
  BY DEF Engages
<1>7. q \in ReadingReport /\ q # NoReport /\ q.event = e /\ q.engages = Engages(closing, type) /\ q.seen = affinity
  BY <1>3, <1>6, ReportsAreNone DEF ReadingReport
<1> HIDE DEF q
<1>8. /\ \A x \in Delivery : delivery'[x] = IF x = d THEN q ELSE delivery[x]
      /\ delivery' \in [Delivery -> {NoReport} \cup ReadingReport]
  BY <1>1, <1>7 DEF ReportsFit
<1>9. reported' \in ReportHistory /\ IsFiniteSet(reported'.closed)
  <2>1. closed \in SUBSET Event /\ again \in BOOLEAN /\ mixed \in BOOLEAN
    BY <1>2, <1>3, <1>6 DEF ReportHistory
  <2>2. IsFiniteSet(closed)
    BY <1>2, <1>3, FS_AddElement
  <2> QED
    BY <1>3, <1>4, <1>5, <2>1, <2>2 DEF ReportHistory
<1>10. \A c, x \in Delivery : delivery'[c] # NoReport /\ delivery'[c].event = delivery'[x].event => c = x
  BY <1>1, <1>7, <1>8 DEF ReportsFit
<1>11. ASSUME ~reported'.again, ~reported'.mixed
       PROVE  /\ \A c, x \in Counting' : c = x
              /\ \A c \in Counting' : delivery'[c].event \in reported'.closed /\ delivery'[c].seen = affinity'
              /\ affinity' = Cardinality(Settled')
              /\ \A x \in Settled' : event'[x].open
  <2>1. ~reported.again /\ ~reported.mixed /\ (closing => e \notin reported.closed)
    BY <1>2, <1>3, <1>5, <1>11
  <2>2. /\ \A c, x \in Counting : c = x
        /\ \A c \in Counting : delivery[c].event \in reported.closed /\ delivery[c].seen = affinity
        /\ affinity = Cardinality(Settled)
        /\ \A x \in Settled : event[x].open
    BY <2>1 DEF ReportsFit
  <2>3. d \notin Counting
    BY <1>1 DEF Counting
  <2>4. CASE Engages(closing, type)
    <3>1. Counting = {}
      BY <1>2, <1>5, <1>11, <2>4 DEF Counting
    <3>2. Counting' = {d}
      BY <1>7, <1>8, <2>4, <3>1 DEF Counting
    <3>3. closed = reported.closed \cup {e} /\ e \notin reported.closed
      BY <1>2, <1>6, <2>1, <2>4
    <3>4. Settled = reported.closed
      BY <3>1 DEF Settled
    <3>5. Settled' = reported.closed
      <4>1. delivery'[d].event = e
        BY <1>7, <1>8
      <4>2. \A x : x \in Settled' <=> x \in closed /\ x # e
        BY <1>5, <3>2, <4>1 DEF Settled
      <4> QED
        BY <3>3, <4>2
    <3> QED
      BY <1>1, <1>5, <1>7, <1>8, <2>2, <3>2, <3>3, <3>4, <3>5
  <2>5. CASE ~Engages(closing, type)
    <3>1. closed = reported.closed
      BY <1>2, <1>6, <2>5
    <3>2. Counting' = Counting
      BY <1>7, <1>8, <2>3, <2>5 DEF Counting
    <3>3. \A c \in Counting : delivery'[c] = delivery[c]
      BY <1>8, <2>3 DEF Counting
    <3>4. Settled' = Settled
      BY <1>5, <3>1, <3>2, <3>3 DEF Settled
    <3> QED
      BY <1>1, <1>5, <2>2, <3>1, <3>2, <3>3, <3>4
  <2> QED
    BY <2>4, <2>5
<1> QED
  BY <1>1, <1>3, <1>8, <1>9, <1>10, <1>11 DEF ReportsFit

LEMMA CommitKeeps ==
    ASSUME ReportsFit, NEW d \in Delivery, Commit(d)
    PROVE  ReportsFit'
<1>1. PICK q : q = delivery[d]
  OBVIOUS
<1>2. PICK fails : fails = (q.engages /\ q.seen = 0 /\ affinity # 0)
  OBVIOUS
<1>3. /\ q # NoReport /\ reported' = reported
      /\ event' = IF fails THEN event ELSE [event EXCEPT ![q.event] = [open |-> TRUE, closed |-> q.closing]]
      /\ affinity' = IF fails THEN affinity ELSE IF q.engages THEN q.seen + 1 ELSE affinity
      /\ delivery' = [delivery EXCEPT ![d] = NoReport]
  BY <1>1, <1>2 DEF Commit, Counted
<1>4. q \in ReadingReport
  BY <1>1, <1>3 DEF ReportsFit
<1>5. q.event \in Event /\ q.closing \in BOOLEAN /\ q.engages \in BOOLEAN /\ q.seen \in Nat /\ affinity \in Nat
  BY <1>4 DEF ReadingReport, ReportsFit
<1>6. event' \in [Event -> [open : BOOLEAN, closed : BOOLEAN]] /\ affinity' \in Nat
  BY <1>3, <1>5 DEF ReportsFit
<1>7. /\ \A x \in Delivery : delivery'[x] = IF x = d THEN NoReport ELSE delivery[x]
      /\ delivery' \in [Delivery -> {NoReport} \cup ReadingReport]
  BY <1>3 DEF ReportsFit
<1>8. \A c, x \in Delivery : delivery'[c] # NoReport /\ delivery'[c].event = delivery'[x].event => c = x
  <2> SUFFICES ASSUME NEW c \in Delivery, NEW x \in Delivery, delivery'[c] # NoReport,
                      delivery'[c].event = delivery'[x].event
               PROVE  c = x
    OBVIOUS
  <2>1. c # d /\ delivery'[c] = delivery[c] /\ delivery[c] # NoReport
    BY <1>7
  <2>2. delivery[c] \in ReadingReport
    BY <2>1 DEF ReportsFit
  <2>3. delivery[c].event # 0
    BY <2>2, ReportsAreNone
  <2>4. x # d
    BY <1>7, <2>1, <2>3, ReportsAreNone
  <2> QED
    BY <1>7, <2>1, <2>4 DEF ReportsFit
<1>9. ASSUME ~reported.again, ~reported.mixed
      PROVE  /\ \A c, x \in Counting' : c = x
             /\ \A c \in Counting' : delivery'[c].event \in reported.closed /\ delivery'[c].seen = affinity'
             /\ affinity' = Cardinality(Settled')
             /\ \A x \in Settled' : event'[x].open
  <2>1. /\ \A c, x \in Counting : c = x
        /\ \A c \in Counting : delivery[c].event \in reported.closed /\ delivery[c].seen = affinity
        /\ affinity = Cardinality(Settled)
        /\ \A x \in Settled : event[x].open
    BY <1>9 DEF ReportsFit
  <2>2. Counting' = Counting \ {d}
    BY <1>7 DEF Counting
  <2>3. d \in Counting <=> q.engages
    BY <1>1, <1>3 DEF Counting
  <2>4. ~fails
    BY <1>1, <1>2, <2>1, <2>3
  <2>5. event' = [event EXCEPT ![q.event] = [open |-> TRUE, closed |-> q.closing]]
    BY <1>3, <2>4
  <2>6. \A x \in Event : event'[x].open = IF x = q.event THEN TRUE ELSE event[x].open
    BY <1>5, <2>5 DEF ReportsFit
  <2>7. reported.closed \subseteq Event /\ IsFiniteSet(reported.closed)
    BY DEF ReportsFit, ReportHistory
  <2>8. CASE q.engages
    <3>1. Counting = {d} /\ Counting' = {}
      BY <2>1, <2>2, <2>3, <2>8
    <3>2. Settled' = reported.closed
      BY <1>3, <3>1 DEF Settled
    <3>3. Settled = reported.closed \ {q.event} /\ q.event \in reported.closed
      BY <1>1, <2>1, <3>1 DEF Settled
    <3>4. Settled' = Settled \cup {q.event} /\ q.event \notin Settled /\ IsFiniteSet(Settled)
      BY <2>7, <3>2, <3>3, FS_Subset
    <3>5. Cardinality(Settled') = Cardinality(Settled) + 1
      BY <3>4, FS_AddElement
    <3>6. affinity' = affinity + 1
      BY <1>1, <1>3, <2>1, <2>4, <2>8, <3>1
    <3>7. \A x \in Settled' : event'[x].open
      BY <2>1, <2>6, <2>7, <3>2, <3>4
    <3> QED
      BY <2>1, <3>1, <3>5, <3>6, <3>7
  <2>9. CASE ~q.engages
    <3>1. Counting' = Counting /\ d \notin Counting
      BY <2>2, <2>3, <2>9
    <3>2. \A c \in Counting : c \in Delivery /\ delivery'[c] = delivery[c]
      BY <1>7, <3>1 DEF Counting
    <3>3. Settled' = Settled
      BY <1>3, <3>1, <3>2 DEF Settled
    <3>4. affinity' = affinity
      BY <1>3, <2>4, <2>9
    <3>5. \A x \in Settled : x \in Event
      BY <2>7 DEF Settled
    <3> QED
      BY <2>1, <2>6, <3>1, <3>2, <3>3, <3>4, <3>5
  <2> QED
    BY <1>5, <2>8, <2>9
<1> QED
  BY <1>3, <1>6, <1>7, <1>8, <1>9 DEF ReportsFit

LEMMA LostKeeps ==
    ASSUME ReportsFit, NEW d \in Delivery, Lost(d)
    PROVE  ReportsFit'
<1>1. PICK q : q = delivery[d]
  OBVIOUS
<1>2. PICK closed : closed = IF q.engages THEN reported.closed \ {q.event} ELSE reported.closed
  OBVIOUS
<1>3. /\ q # NoReport /\ event' = event /\ affinity' = affinity
      /\ reported' = [reported EXCEPT !.closed = closed]
      /\ delivery' = [delivery EXCEPT ![d] = NoReport]
  BY <1>1, <1>2 DEF Lost
<1>4. q \in ReadingReport
  BY <1>1, <1>3 DEF ReportsFit
<1>5. reported \in ReportHistory /\ IsFiniteSet(reported.closed) /\ closed \in SUBSET reported.closed
  BY <1>2 DEF ReportsFit
<1>6. reported' \in ReportHistory /\ IsFiniteSet(reported'.closed)
  BY <1>3, <1>5, FS_Subset DEF ReportHistory
<1>7. reported'.closed = closed /\ reported'.again = reported.again /\ reported'.mixed = reported.mixed
  BY <1>3, <1>5 DEF ReportHistory
<1>8. /\ \A x \in Delivery : delivery'[x] = IF x = d THEN NoReport ELSE delivery[x]
      /\ delivery' \in [Delivery -> {NoReport} \cup ReadingReport]
  BY <1>3 DEF ReportsFit
<1>9. \A c, x \in Delivery : delivery'[c] # NoReport /\ delivery'[c].event = delivery'[x].event => c = x
  <2> SUFFICES ASSUME NEW c \in Delivery, NEW x \in Delivery, delivery'[c] # NoReport,
                      delivery'[c].event = delivery'[x].event
               PROVE  c = x
    OBVIOUS
  <2>1. c # d /\ delivery'[c] = delivery[c] /\ delivery[c] # NoReport
    BY <1>8
  <2>2. delivery[c] \in ReadingReport
    BY <2>1 DEF ReportsFit
  <2>3. delivery[c].event # 0
    BY <2>2, ReportsAreNone
  <2>4. x # d
    BY <1>8, <2>1, <2>3, ReportsAreNone
  <2> QED
    BY <1>8, <2>1, <2>4 DEF ReportsFit
<1>10. ASSUME ~reported'.again, ~reported'.mixed
       PROVE  /\ \A c, x \in Counting' : c = x
              /\ \A c \in Counting' : delivery'[c].event \in reported'.closed /\ delivery'[c].seen = affinity
              /\ affinity = Cardinality(Settled')
              /\ \A x \in Settled' : event[x].open
  <2>1. /\ \A c, x \in Counting : c = x
        /\ \A c \in Counting : delivery[c].event \in reported.closed /\ delivery[c].seen = affinity
        /\ affinity = Cardinality(Settled)
        /\ \A x \in Settled : event[x].open
    BY <1>7, <1>10 DEF ReportsFit
  <2>2. Counting' = Counting \ {d}
    BY <1>8 DEF Counting
  <2>3. d \in Counting <=> q.engages
    BY <1>1, <1>3 DEF Counting
  <2>4. CASE q.engages
    <3>1. Counting = {d} /\ Counting' = {}
      BY <2>1, <2>2, <2>3, <2>4
    <3>2. Settled' = closed
      BY <1>7, <3>1 DEF Settled
    <3>3. Settled = reported.closed \ {q.event}
      BY <1>1, <3>1 DEF Settled
    <3>4. Settled' = Settled
      BY <1>2, <2>4, <3>2, <3>3
    <3> QED
      BY <2>1, <3>1, <3>4
  <2>5. CASE ~q.engages
    <3>1. Counting' = Counting /\ d \notin Counting /\ closed = reported.closed
      BY <1>2, <2>2, <2>3, <2>5
    <3>2. \A c \in Counting : c \in Delivery /\ delivery'[c] = delivery[c]
      BY <1>8, <3>1 DEF Counting
    <3>3. Settled' = Settled
      BY <1>7, <3>1, <3>2 DEF Settled
    <3> QED
      BY <1>7, <2>1, <3>1, <3>2, <3>3
  <2> QED
    BY <1>4, <2>4, <2>5 DEF ReadingReport
<1> QED
  BY <1>3, <1>6, <1>7, <1>8, <1>9, <1>10 DEF ReportsFit

-----------------------------------------------------------------------------
(* Saved stories.  What is below the cursor was not listed yet, and what was   *)
(* saved all along and is not below it was.                                    *)

SavedRow == [id : Nat, story : Story]
SavedPage == [cursor : Nat, state : {"none", "more", "end"}]

SavedFits ==
    /\ saved \subseteq SavedRow /\ IsFiniteSet(saved) /\ lastSaved \in Nat
    /\ \A x \in saved : x.id \in 1 .. lastSaved
    /\ \A x, y \in saved : x.id = y.id \/ x.story = y.story => x = y
    /\ pages \in SavedPage /\ listed \in [Story -> {0, 1}]
    /\ \A s \in kept : s \in Story /\ \E x \in saved : x.story = s
    /\ pages.state = "none" => pages.cursor = 0 /\ kept = {} /\ \A s \in Story : listed[s] = 0
    /\ pages.state = "more" =>
         /\ pages.cursor \in 1 .. lastSaved
         /\ \A x \in saved : x.id < pages.cursor => listed[x.story] = 0
         /\ \A x \in saved : x.id >= pages.cursor /\ x.story \in kept => listed[x.story] = 1
    /\ pages.state = "end" => \A s \in kept : listed[s] = 1

IdOrder(S) == {p \in S \X S : p[2].id > p[1].id}

LEMMA IdsOrder ==
    ASSUME SavedFits, NEW S \in SUBSET saved
    PROVE  /\ Orders(S, IdOrder(S)) /\ IsFiniteSet(S)
           /\ \A n : Newest(S, n) = FirstOf(S, IdOrder(S), n)
           /\ \A x, y \in S : <<x, y>> \in IdOrder(S) <=> y.id > x.id
<1>1. \A x \in S : x.id \in Int
  BY DEF SavedFits
<1>2. \A x, y \in S : x.id = y.id => x = y
  BY DEF SavedFits
<1>3. \A x, y \in S : <<x, y>> \in IdOrder(S) <=> y.id > x.id
  BY DEF IdOrder
<1>4. Orders(S, IdOrder(S))
  BY <1>1, <1>2, <1>3 DEF Orders
<1>5. ASSUME NEW n PROVE Newest(S, n) = FirstOf(S, IdOrder(S), n)
  <2>1. \A x \in S : {y \in S : y.id > x.id} = Over(S, IdOrder(S), x)
    BY <1>3 DEF Over
  <2> QED
    BY <2>1 DEF Newest, FirstOf
<1>6. IsFiniteSet(S)
  BY FS_Subset DEF SavedFits
<1> QED
  BY <1>3, <1>4, <1>5, <1>6

LEMMA OneMoreThanAPage ==
    ASSUME SavedFits, NEW S \in SUBSET saved
    PROVE  /\ Newest(Newest(S, PageSize + 1), PageSize) = Newest(S, PageSize)
           /\ Cardinality(Newest(S, PageSize + 1)) > PageSize <=> Cardinality(S) > PageSize
           /\ Cardinality(S) <= PageSize => Newest(S, PageSize) = S
<1> DEFINE R == IdOrder(S)
<1>0. PageSize \in Nat /\ Cardinality(S) \in Nat /\ PageSize \in Nat \ {0} /\ PageSize + 1 \in Nat \ {0}
  BY IdsOrder, ReadingAssumption, FS_CardinalityType
<1>1. PICK T : T = Newest(S, PageSize + 1)
  OBVIOUS
<1>2. T = FirstOf(S, R, PageSize + 1) /\ T \in SUBSET S /\ T \in SUBSET saved
  BY <1>1, IdsOrder DEF FirstOf
<1>3. ASSUME NEW x \in T PROVE {y \in T : y.id > x.id} = Over(S, R, x)
  <2>1. /\ \A y \in S : Cardinality(Over(S, R, y)) \in Nat
        /\ \A y \in S : <<x, y>> \in R => Cardinality(Over(S, R, y)) < Cardinality(Over(S, R, x))
    BY <1>2, OverIsSmaller, IdsOrder
  <2>2. Cardinality(Over(S, R, x)) < PageSize + 1 /\ x \in S
    BY <1>2 DEF FirstOf
  <2>3. ASSUME NEW y \in S, y.id > x.id PROVE y \in T
    <3>1. <<x, y>> \in R
      BY <2>2, <2>3, IdsOrder
    <3>2. Cardinality(Over(S, R, y)) < PageSize + 1
      BY <1>0, <2>1, <2>2, <3>1
    <3> QED
      BY <1>2, <3>2 DEF FirstOf
  <2>4. Over(S, R, x) = {y \in S : y.id > x.id}
    BY <2>2, IdsOrder DEF Over
  <2> QED
    BY <1>2, <2>3, <2>4
<1>4. Newest(T, PageSize) = Newest(S, PageSize)
  <2>1. Newest(T, PageSize) = {x \in T : Cardinality(Over(S, R, x)) < PageSize}
    BY <1>3 DEF Newest
  <2>2. Newest(S, PageSize) = {x \in S : Cardinality(Over(S, R, x)) < PageSize}
    BY IdsOrder DEF FirstOf
  <2>3. \A x \in S : Cardinality(Over(S, R, x)) \in Nat
    BY OverIsSmaller, IdsOrder
  <2>4. \A x \in S : Cardinality(Over(S, R, x)) < PageSize => x \in T
    BY <1>0, <1>2, <2>3 DEF FirstOf
  <2> QED
    BY <1>2, <2>1, <2>2, <2>4
<1>5. Cardinality(T) > PageSize <=> Cardinality(S) > PageSize
  <2>1. IsFiniteSet(T) /\ Cardinality(T) \in Nat /\ Cardinality(T) <= Cardinality(S)
    BY <1>2, IdsOrder, FS_Subset, FS_CardinalityType
  <2>2. ASSUME Cardinality(S) > PageSize PROVE Cardinality(T) > PageSize
    <3>1. PICK x \in S : Cardinality(Over(S, R, x)) = PageSize
      BY <1>0, <2>2, EveryPlaceIsTaken, IdsOrder
    <3>2. x \in T
      BY <1>0, <1>2, <3>1 DEF FirstOf
    <3>3. Over(T, IdOrder(T), x) = Over(S, R, x)
      <4>1. Over(T, IdOrder(T), x) = {y \in T : y.id > x.id}
        BY <1>2, <3>2, IdsOrder DEF Over
      <4> QED
        BY <1>3, <3>2, <4>1
    <3>4. Cardinality(Over(T, IdOrder(T), x)) < Cardinality(T)
      BY <1>2, <3>2, OverIsSmaller, IdsOrder
    <3> QED
      BY <1>0, <2>1, <3>1, <3>3, <3>4
  <2> QED
    BY <1>0, <2>1, <2>2
<1>6. Cardinality(S) <= PageSize => Newest(S, PageSize) = S
  <2>1. Cardinality(S) <= PageSize => FirstOf(S, R, PageSize) = S
    BY <1>0, PagesEnd, IdsOrder
  <2> QED
    BY <2>1, IdsOrder
<1> QED
  BY <1>1, <1>4, <1>5, <1>6

LEMMA ListSavedKeeps == ASSUME SavedFits, ListSaved PROVE SavedFits'
<1>1. PICK S : S = IF pages.cursor = 0 THEN saved ELSE {x \in saved : x.id < pages.cursor}
  OBVIOUS
<1>2. PICK items : items = Newest(S, PageSize)
  OBVIOUS
<1>3. S \in SUBSET saved /\ items \in SUBSET S
  BY <1>1, <1>2 DEF Newest
<1>4. PICK more \in BOOLEAN : more <=> Cardinality(S) > PageSize
  OBVIOUS
<1>5. PICK cursor : cursor = IF more THEN Min({x.id : x \in items}) ELSE 0
  OBVIOUS
<1>6. /\ pages.state # "end"
      /\ pages' = [cursor |-> cursor, state |-> IF more THEN "more" ELSE "end"]
      /\ listed' = [s \in Story |-> listed[s] + Cardinality({x \in items : x.story = s})]
      /\ kept' = IF pages.state = "none" THEN {x.story : x \in saved} ELSE kept
      /\ UNCHANGED <<saved, lastSaved>>
  <2>1. RowsAfter(pages.cursor) = Newest(S, PageSize + 1)
    BY <1>1 DEF RowsAfter
  <2>2. Newest(RowsAfter(pages.cursor), PageSize) = items
    BY <1>2, <1>3, <2>1, OneMoreThanAPage
  <2>3. Cardinality(RowsAfter(pages.cursor)) > PageSize <=> more
    BY <1>3, <1>4, <2>1, OneMoreThanAPage
  <2> QED
    BY <1>5, <2>2, <2>3 DEF ListSaved
<1>7. /\ \A x \in saved : x \in SavedRow /\ x.id \in 1 .. lastSaved /\ x.id \in Int /\ x.story \in Story
      /\ \A x, y \in saved : x.id = y.id \/ x.story = y.story => x = y
      /\ lastSaved \in Nat /\ pages \in SavedPage /\ listed \in [Story -> {0, 1}]
  BY DEF SavedFits, SavedRow
<1>8. pages.cursor \in Nat /\ pages.state \in {"none", "more"}
  BY <1>6, <1>7 DEF SavedPage
\* What is on the page was not listed.
<1>9. \A x \in S : listed[x.story] = 0
  BY <1>1, <1>3, <1>7, <1>8 DEF SavedFits
<1>10. ASSUME NEW x \in saved
       PROVE  listed'[x.story] = IF x \in items THEN 1 ELSE listed[x.story]
  <2>1. {y \in items : y.story = x.story} = IF x \in items THEN {x} ELSE {}
    BY <1>3, <1>7
  <2>2. Cardinality({x}) = 1 /\ Cardinality({}) = 0
    BY FS_Singleton, FS_EmptySet
  <2>3. listed'[x.story] = listed[x.story] + Cardinality({y \in items : y.story = x.story})
    BY <1>6, <1>7
  <2>4. listed[x.story] \in {0, 1} /\ (x \in items => listed[x.story] = 0)
    BY <1>3, <1>7, <1>9
  <2> QED
    BY <2>1, <2>2, <2>3, <2>4
<1>11. listed' \in [Story -> {0, 1}]
  <2>1. ASSUME NEW s \in Story PROVE listed[s] + Cardinality({x \in items : x.story = s}) \in {0, 1}
    <3>1. CASE \E x \in items : x.story = s
      BY <1>3, <1>6, <1>10, <2>1, <3>1
    <3>2. CASE ~\E x \in items : x.story = s
      <4>1. {x \in items : x.story = s} = {}
        BY <3>2
      <4>2. Cardinality({x \in items : x.story = s}) = 0
        BY <4>1, FS_EmptySet
      <4>3. listed[s] \in {0, 1}
        BY <1>7
      <4> QED
        BY <4>2, <4>3
    <3> QED
      BY <3>1, <3>2
  <2> QED
    BY <1>6, <2>1
<1>12. \A s \in kept' : s \in Story /\ \E x \in saved : x.story = s
  BY <1>6, <1>7 DEF SavedFits
<1>13. \A x \in saved \ S : x.story \in kept' => listed[x.story] = 1
  BY <1>1, <1>6, <1>7, <1>8 DEF SavedFits
<1>14. CASE ~more
  <2>1. Cardinality(S) <= PageSize
    <3>1. Cardinality(S) \in Nat /\ PageSize \in Nat
      BY <1>3, IdsOrder, ReadingAssumption, FS_CardinalityType
    <3> QED
      BY <1>4, <1>14, <3>1
  <2>2. items = S
    BY <1>2, <1>3, <2>1, OneMoreThanAPage
  <2>3. \A x \in saved : x.story \in kept' => listed'[x.story] = 1
    BY <1>10, <1>13, <2>2
  <2>4. \A s \in kept' : listed'[s] = 1
    BY <1>12, <2>3
  <2>5. pages' \in SavedPage /\ pages'.state = "end"
    BY <1>5, <1>6, <1>14 DEF SavedPage
  <2> QED
    BY <1>6, <1>11, <1>12, <2>4, <2>5 DEF SavedFits
<1>15. CASE more
  <2>1. PICK x \in S : EndsAt(S, IdOrder(S), PageSize, x)
    BY <1>3, <1>4, <1>15, PagesEnd, IdsOrder, ReadingAssumption
  <2>2. items = {y \in S : y = x \/ y.id > x.id}
    BY <1>2, <1>3, <2>1, IdsOrder DEF EndsAt
  <2>3. cursor = x.id
    <3> DEFINE I == {y.id : y \in items}
    <3>1. x.id \in I /\ x.id \in Int /\ \A n \in I : n \in Int /\ x.id <= n
      BY <1>3, <1>7, <2>2
    <3>2. cursor = Min(I)
      BY <1>5, <1>15
    <3> HIDE DEF I
    <3>3. Min(I) \in I /\ Min(I) <= x.id
      BY <3>1 DEF Min
    <3> QED
      BY <3>1, <3>2, <3>3
  <2>4. x \in saved /\ cursor \in 1 .. lastSaved
    BY <1>3, <1>7, <2>3
  <2>5. \A y \in saved : y.id < cursor => listed'[y.story] = 0
    <3> SUFFICES ASSUME NEW y \in saved, y.id < cursor PROVE listed'[y.story] = 0
      OBVIOUS
    <3>1. y \in S
      BY <1>1, <1>3, <1>7, <1>8, <2>1, <2>3
    <3>2. y \notin items
      BY <1>3, <1>7, <2>2, <2>3, <2>4
    <3> QED
      BY <1>9, <1>10, <3>1, <3>2
  <2>6. \A y \in saved : y.id >= cursor /\ y.story \in kept' => listed'[y.story] = 1
    <3> SUFFICES ASSUME NEW y \in saved, y.id >= cursor, y.story \in kept' PROVE listed'[y.story] = 1
      OBVIOUS
    <3>1. y \in S => y \in items
      BY <1>3, <1>7, <2>2, <2>3, <2>4
    <3> QED
      BY <1>10, <1>13, <3>1
  <2>7. pages' \in SavedPage /\ pages'.state = "more" /\ pages'.cursor = cursor
    BY <1>6, <1>15, <2>4 DEF SavedPage
  <2> QED
    BY <1>6, <1>11, <1>12, <2>4, <2>5, <2>6, <2>7 DEF SavedFits
<1> QED
  BY <1>14, <1>15

LEMMA SaveKeeps == ASSUME SavedFits, NEW s \in Story, Save(s) PROVE SavedFits'
<1>1. /\ lastSaved' = lastSaved + 1 /\ UNCHANGED <<pages, listed, kept>>
      /\ saved' = IF \E x \in saved : x.story = s THEN saved
                  ELSE saved \cup {[id |-> lastSaved + 1, story |-> s]}
  BY DEF Save
<1>2. lastSaved \in Nat /\ pages.cursor \in Nat
  BY DEF SavedFits, SavedPage
<1>3. CASE \E x \in saved : x.story = s
  BY <1>1, <1>2, <1>3 DEF SavedFits
<1>4. CASE ~\E x \in saved : x.story = s
  <2>1. PICK r : r = [id |-> lastSaved + 1, story |-> s]
    OBVIOUS
  <2>2. saved' = saved \cup {r} /\ r \in SavedRow /\ r.id = lastSaved + 1 /\ r.story = s
    BY <1>1, <1>2, <1>4, <2>1 DEF SavedRow
  <2>3. saved' \subseteq SavedRow /\ IsFiniteSet(saved')
    BY <2>2, FS_AddElement DEF SavedFits
  <2>4. \A x \in saved' : x.id \in 1 .. lastSaved'
    BY <1>1, <1>2, <2>2 DEF SavedFits
  <2>5. \A x \in saved : x.id # r.id /\ x.story # r.story
    BY <1>2, <1>4, <2>2 DEF SavedFits
  <2>6. \A x, y \in saved' : x.id = y.id \/ x.story = y.story => x = y
    BY <2>2, <2>5 DEF SavedFits
  <2>7. s \notin kept
    BY <1>4 DEF SavedFits
  <2>8. pages.state = "more" => ~(r.id < pages.cursor)
    BY <1>2, <2>2 DEF SavedFits
  <2>9. pages.state = "more" =>
         /\ pages.cursor \in 1 .. lastSaved + 1
         /\ \A x \in saved' : x.id < pages.cursor => listed[x.story] = 0
         /\ \A x \in saved' : x.id >= pages.cursor /\ x.story \in kept => listed[x.story] = 1
    BY <1>2, <2>2, <2>7, <2>8 DEF SavedFits
  <2> QED
    BY <1>1, <1>2, <2>2, <2>3, <2>4, <2>6, <2>9 DEF SavedFits
<1> QED
  BY <1>3, <1>4

LEMMA UnsaveKeeps == ASSUME SavedFits, NEW s \in Story, Unsave(s) PROVE SavedFits'
<1>1. /\ saved' = {x \in saved : x.story # s} /\ kept' = kept \ {s}
      /\ UNCHANGED <<lastSaved, pages, listed>>
  BY DEF Unsave
<1>2. IsFiniteSet(saved')
  BY <1>1, FS_Subset DEF SavedFits
<1> QED
  BY <1>1, <1>2 DEF SavedFits

-----------------------------------------------------------------------------
HistoryFits == SavedFits /\ ReportsFit /\ StreaksAreRuns

LEMMA HistoryStarts ==
    ASSUME SavedInit, EventInit, NEW game \in Game, NEW days \in SUBSET (0 .. Today), GameInit(game, days)
    PROVE  HistoryFits
<1>1. SavedFits
  <2>1. saved = {} /\ lastSaved = 0 /\ kept = {} /\ pages = [cursor |-> 0, state |-> "none"]
        /\ listed = [s \in Story |-> 0]
    BY DEF SavedInit
  <2>2. IsFiniteSet(saved)
    BY <2>1, FS_EmptySet
  <2> QED
    BY <2>1, <2>2 DEF SavedFits, SavedPage
<1>2. ReportsFit
  <2>1. /\ event = [e \in Event |-> Unread] /\ affinity = 0
        /\ delivery = [d \in Delivery |-> NoReport]
        /\ reported = [closed |-> {}, again |-> FALSE, mixed |-> FALSE]
    BY DEF EventInit
  <2>2. reported \in ReportHistory /\ reported.closed = {}
    BY <2>1 DEF ReportHistory
  <2>3. Counting = {} /\ Settled = {}
    BY <2>1, <2>2 DEF Counting, Settled
  <2>4. IsFiniteSet(reported.closed) /\ Cardinality(Settled) = 0
    BY <2>2, <2>3, FS_EmptySet
  <2>5. \A d \in Delivery : delivery[d] = NoReport
    BY <2>1
  <2>6. event \in [Event -> [open : BOOLEAN, closed : BOOLEAN]]
    BY <2>1 DEF Unread
  <2>7. delivery \in [Delivery -> {NoReport} \cup ReadingReport]
    BY <2>1
  <2>8. affinity \in Nat
    BY <2>1
  <2>9. affinity = Cardinality(Settled)
    BY <2>1, <2>4
  <2> QED
    BY <2>2, <2>3, <2>4, <2>5, <2>6, <2>7, <2>8, <2>9 DEF ReportsFit
<1>3. StreaksAreRuns
  <2>1. stats.current = 0 /\ stats.longest = 0 /\ stats.of = {}
    BY DEF GameInit
  <2>2. Runs({}) = {} /\ Late({}) = {}
    <3>1. {} \in SUBSET (0 .. Today)
      OBVIOUS
    <3>2. \A r \in Runs({}) : r[2] \in {}
      BY <3>1, RunsEndAtAPlace
    <3> QED
      BY <3>2 DEF Late
  <2> QED
    BY <2>1, <2>2 DEF StreaksAreRuns, Most
<1> QED
  BY <1>1, <1>2, <1>3 DEF HistoryFits

LEMMA HistoryGoesOn ==
    ASSUME HistoryFits, [Saves \/ Reports \/ Plays]_readingVars
    PROVE  HistoryFits'
<1>0. SavedFits /\ ReportsFit /\ StreaksAreRuns
  BY DEF HistoryFits
<1>1. ASSUME UNCHANGED <<saved, lastSaved, pages, listed, kept>> PROVE SavedFits'
  BY <1>0, <1>1 DEF SavedFits
<1>2. ASSUME UNCHANGED <<event, affinity, delivery, reported>> PROVE ReportsFit'
  <2>1. Counting' = Counting
    BY <1>2 DEF Counting
  <2>2. Settled' = Settled
    BY <1>2, <2>1 DEF Settled
  <2> QED
    BY <1>0, <1>2, <2>1, <2>2 DEF ReportsFit
<1>3. ASSUME UNCHANGED stats PROVE StreaksAreRuns'
  BY <1>0, <1>3 DEF StreaksAreRuns
<1>4. ASSUME Saves PROVE HistoryFits'
  <2>1. UNCHANGED <<event, affinity, delivery, reported>> /\ UNCHANGED stats
    BY <1>4 DEF Saves, ListSaved, Save, Unsave, eventVars, gameVars
  <2>2. SavedFits'
    BY <1>0, <1>4, ListSavedKeeps, SaveKeeps, UnsaveKeeps DEF Saves
  <2> QED
    BY <1>2, <1>3, <2>1, <2>2 DEF HistoryFits
<1>5. ASSUME Reports PROVE HistoryFits'
  <2>1. UNCHANGED <<saved, lastSaved, pages, listed, kept>> /\ UNCHANGED stats
    BY <1>5 DEF Reports, Report, Commit, Lost, savedVars, gameVars
  <2>2. ReportsFit'
    BY <1>0, <1>5, ReportKeeps, CommitKeeps, LostKeeps DEF Reports
  <2> QED
    BY <1>1, <1>3, <2>1, <2>2 DEF HistoryFits
<1>6. ASSUME Plays PROVE HistoryFits'
  <2>1. UNCHANGED <<saved, lastSaved, pages, listed, kept>> /\ UNCHANGED <<event, affinity, delivery, reported>>
    BY <1>6 DEF Plays, StartGame, CompleteGame, GetGameStats, savedVars, eventVars
  <2>2. StreaksAreRuns'
    <3>1. CASE GetGameStats
      <4>1. Completed \in SUBSET (0 .. Today)
        BY DEF Completed
      <4>2. stats' = Streaks(Completed)
        BY <3>1 DEF GetGameStats
      <4> QED
        BY <4>1, <4>2, StreaksAreOfRuns DEF StreaksAreRuns
    <3>2. CASE UNCHANGED stats
      BY <1>3, <3>2
    <3>3. GetGameStats \/ UNCHANGED stats
      BY <1>6 DEF Plays, StartGame, CompleteGame
    <3> QED
      BY <3>1, <3>2, <3>3
  <2> QED
    BY <1>1, <1>2, <2>1, <2>2 DEF HistoryFits
<1>7. ASSUME UNCHANGED readingVars PROVE HistoryFits'
  BY <1>1, <1>2, <1>3, <1>7 DEF HistoryFits, readingVars
<1> QED
  BY <1>4, <1>5, <1>6, <1>7

(* What readers did is what is counted and listed of it: saved stories are     *)
(* paged through once, whatever is saved and unsaved meanwhile                 *)
(* (app/main.py:3914-3950); each closed read counts once in the affinity,      *)
(* unless its report came twice or two overlapped (services/affinity.py:68-93);*)
(* and streaks are runs of completed days (app/main.py:3389-3412).             *)
THEOREM HistoryStaysCounted == ReadingSpec => []HistoryIsCounted
<1> DEFINE Start == /\ SavedInit /\ EventInit
                    /\ \E g \in Game, days \in SUBSET (0 .. Today) : GameInit(g, days)
           Steps == Saves \/ Reports \/ Plays
<1>1. Start => HistoryFits
  BY HistoryStarts
<1>2. HistoryFits /\ [Steps]_readingVars => HistoryFits'
  BY HistoryGoesOn
<1>3. HistoryFits => HistoryIsCounted
  <2> SUFFICES ASSUME HistoryFits PROVE HistoryIsCounted
    OBVIOUS
  <2>1. PagesShowEachOnce
    <3>1. \A s \in Story : listed[s] \in {0, 1}
      BY DEF HistoryFits, SavedFits
    <3>2. \A s \in Story : listed[s] <= 1
      BY <3>1
    <3> QED
      BY <3>2 DEF HistoryFits, SavedFits, PagesShowEachOnce
  <2>2. AffinityCountsReads
    <3> SUFFICES ASSUME \A d \in Delivery : delivery[d] = NoReport, ~reported.again, ~reported.mixed
                 PROVE  affinity = Cardinality(reported.closed) /\ \A e \in reported.closed : event[e].open
      BY DEF AffinityCountsReads
    <3>1. Settled = reported.closed
      BY DEF Settled, Counting
    <3> QED
      BY <3>1 DEF HistoryFits, ReportsFit
  <2> QED
    BY <2>1, <2>2 DEF HistoryFits, HistoryIsCounted
<1> HIDE DEF Start, Steps
<1>4. Start /\ [][Steps]_readingVars => []HistoryIsCounted
  BY <1>1, <1>2, <1>3, PTL
<1> QED
  BY <1>4 DEF ReadingSpec, Start, Steps

=============================================================================
