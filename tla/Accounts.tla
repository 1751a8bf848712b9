------------------------------ MODULE Accounts ------------------------------
(* The account of one person: sign-in, the tokens that each server process     *)
(* remembers (services/request_auth.py), the profile photo, the lists that the *)
(* person keeps, and the deletion of all of it (app/main.py).                  *)
(*                                                                             *)
(* A request is a few steps with awaits in between; each step sees what the    *)
(* others have committed.  users has one row for the person or none; a row     *)
(* that is created again has a new id.  A Firebase ID token stays good for its *)
(* lifetime, which outlasts every behaviour here: it is verified by signature, *)
(* without asking whether the Firebase user still exists.                      *)
EXTENDS Integers, FiniteSets

CONSTANTS
    Request,      \* requests in progress, at most
    Worker,       \* server processes
    Token,        \* ID tokens of the person's devices
    Item,         \* what a list holds: stories, sources, topics, games
    Ttl,          \* _CACHE_TTL_SECONDS
    MaxEntries,   \* _CACHE_MAX_ENTRIES
    Limit,        \* MAX_TOPIC_FOLLOWS_PER_USER
    LastTick,     \* bound: clock
    MaxId         \* bound: rows created for the person

ASSUME AccountAssumption ==
    /\ Ttl \in Nat /\ MaxEntries \in Nat /\ Limit \in Nat /\ LastTick \in Nat /\ MaxId \in Nat

VARIABLES
    now,
    user,         \* the row in users: its id (0: no row) and photo_url
    given,        \* ids given so far
    firebase,     \* the Firebase user exists
    files,        \* avatars in the bucket
    lists,        \* rows of other tables that name a user: owner, kind, item
    cache,        \* _TOKEN_CACHE of each worker
    request,      \* what each request is in the middle of
    gone,         \* history: of each deleted id: when, by which worker, whether
                  \* that worker has dropped it, whether it was remembered later
    answered,     \* history: ids whose deletion was answered with success
    orphans,      \* history: avatars that no later step will delete
    revived,      \* history: a picture was stored again while its removal was under way
    crowded       \* history: topics were counted before another was added

accountVars == <<now, user, given, firebase, files, lists, cache, request,
                 gone, answered, orphans, revived, crowded>>

Nobody == [id |-> 0, photo |-> "none"]
Absent == [id |-> 0, until |-> 0]
Free == [step |-> "free", op |-> "none"]

\* A url in the bucket names the user and the content.
Pictures == {"beach", "hills"}
File(id, photo) == [of |-> id, photo |-> photo]

Fresh(e) == e.until > now
Moved(r, new) == request' = [request EXCEPT ![r] = new]
Done(r) == Moved(r, Free)
Step(r, s) == Moved(r, [request[r] EXCEPT !.step = s])

AccountInit ==
    /\ now = 0 /\ user = Nobody /\ given = 0 /\ firebase = TRUE
    /\ files = {} /\ lists = {}
    /\ cache = [w \in Worker |-> [t \in Token |-> Absent]]
    /\ request = [r \in Request |-> Free]
    /\ gone = [i \in {} |-> 0] /\ answered = {} /\ orphans = {}
    /\ revived = FALSE /\ crowded = FALSE

Tick ==
    /\ now < LastTick /\ now' = now + 1
    /\ UNCHANGED <<user, given, firebase, files, lists, cache, request,
                   gone, answered, orphans, revived, crowded>>

-----------------------------------------------------------------------------
(* require_user.                                                               *)

\* _cached_user_id: a hit, or an entry that has expired and is dropped.
Arrive(r, w, t, op, item) ==
    /\ request[r] = Free
    /\ LET e == cache[w][t] IN
       /\ Moved(r, [step |-> IF Fresh(e) THEN "check" ELSE "look", op |-> op, worker |-> w,
                    token |-> t, id |-> IF Fresh(e) THEN e.id ELSE 0, item |-> item])
       /\ cache' = IF Fresh(e) THEN cache ELSE [cache EXCEPT ![w] = [@ EXCEPT ![t] = Absent]]
    /\ UNCHANGED <<now, user, given, firebase, files, lists, gone, answered, orphans,
                   revived, crowded>>

\* _resolve: the token is verified and the row looked up; 401 without one.
Look(r) ==
    /\ request[r].step = "look"
    /\ IF user.id = 0 THEN Done(r)
       ELSE Moved(r, [request[r] EXCEPT !.step = "remember", !.id = user.id])
    /\ UNCHANGED <<now, user, given, firebase, files, lists, cache, gone, answered,
                   orphans, revived, crowded>>

\* _remember, when the map is full: what has expired is dropped, and if that
\* frees nothing, everything.
Room(entries) ==
    LET kept == [t \in Token |-> IF Fresh(entries[t]) THEN entries[t] ELSE Absent]
        full(es) == Cardinality({t \in Token : es[t] # Absent}) >= MaxEntries
    IN  IF ~full(entries) THEN entries
        ELSE IF full(kept) THEN [t \in Token |-> Absent] ELSE kept

Remember(r) ==
    LET q == request[r] IN
    /\ q.step = "remember"
    /\ cache' = [cache EXCEPT ![q.worker] =
           [Room(@) EXCEPT ![q.token] = [id |-> q.id, until |-> now + Ttl]]]
    /\ Step(r, "check")
    /\ gone' = IF q.id \in DOMAIN gone THEN [gone EXCEPT ![q.id] = [@ EXCEPT !.late = TRUE]]
               ELSE gone
    /\ UNCHANGED <<now, user, given, firebase, files, lists, answered, orphans, revived,
                   crowded>>

\* A worker restarts: its cache and its requests are lost.  A picture that a
\* request had stored, or was about to remove, stays.
Restart(w) ==
    LET mine == {r \in Request : request[r] # Free /\ request[r].worker = w}
        left(q) == IF q.step = "save" THEN {File(q.id, q.item)}
                   ELSE IF q.step \in {"drop", "forget", "photo"}
                        THEN {File(q.id, q.photo)} ELSE {}
    IN  /\ cache' = [cache EXCEPT ![w] = [t \in Token |-> Absent]]
        /\ request' = [r \in Request |-> IF r \in mine THEN Free ELSE request[r]]
        /\ orphans' = orphans \cup UNION {left(request[r]) : r \in mine}
        /\ UNCHANGED <<now, user, given, firebase, files, lists, gone, answered, revived,
                       crowded>>

-----------------------------------------------------------------------------
(* The lists: an endpoint that adds looks the user up, then inserts, which the *)
(* foreign key refuses if the user has gone by then; one that removes reads    *)
(* the row first.  The user of a report is not a foreign key.                  *)

Row(q, kind) == [of |-> q.id, kind |-> kind, item |-> q.item]
Topics(id) == {x \in lists : x.of = id /\ x.kind = "topic"}

Adds == {"saved", "followed", "topic", "starred", "blocked", "subscribed", "game", "trial",
         "view", "report"}

UnderLimit(id) == Cardinality(Topics(id)) < Limit

\* 404 for a user that is gone, except where only the foreign key looks; 400
\* for a topic too many, one that is followed already included.
CheckUser(r) ==
    LET q == request[r] IN
    /\ q.step = "check" /\ q.op \in Adds
    /\ IF /\ q.op \in {"trial", "view"} \/ user.id = q.id
          /\ q.op = "topic" => UnderLimit(q.id)
       THEN Step(r, "write") ELSE Done(r)
    /\ UNCHANGED <<now, user, given, firebase, files, lists, cache, gone, answered, orphans,
                   revived, crowded>>

Insert(r, kind) ==
    LET q == request[r] IN
    /\ q.step = "write" /\ q.op = kind
    /\ lists' = IF user.id = q.id \/ kind = "report" THEN lists \cup {Row(q, kind)} ELSE lists
    /\ Done(r)
    /\ UNCHANGED <<now, user, given, firebase, files, cache, gone, answered, orphans, revived>>

SaveStory(r) == Insert(r, "saved") /\ UNCHANGED crowded
FollowStory(r) == Insert(r, "followed") /\ UNCHANGED crowded
StarSource(r) == Insert(r, "starred") /\ UNCHANGED crowded
BlockSource(r) == Insert(r, "blocked") /\ UNCHANGED crowded
SubscribeToSource(r) == Insert(r, "subscribed") /\ UNCHANGED crowded
StartGameSession(r) == Insert(r, "game") /\ UNCHANGED crowded
StartPremiumTrial(r) == Insert(r, "trial") /\ UNCHANGED crowded
RecordTimelineView(r) == Insert(r, "view") /\ UNCHANGED crowded
ReportStory(r) == Insert(r, "report") /\ UNCHANGED crowded

\* The count was taken a step earlier.
FollowTopic(r) ==
    /\ Insert(r, "topic")
    /\ crowded' = (crowded \/ ~UnderLimit(request[r].id))

Removes == {"unsave", "unstar", "unblock", "unsubscribe"}

FindRow(r, kind) ==
    LET q == request[r] IN
    /\ q.step = "check"
    /\ IF Row(q, kind) \in lists THEN Step(r, "remove") ELSE Done(r)
    /\ UNCHANGED <<now, user, given, firebase, files, lists, cache, gone, answered, orphans,
                   revived, crowded>>

DeleteRow(r, kind, step) ==
    LET q == request[r] IN
    /\ q.step = step
    /\ lists' = lists \ {Row(q, kind)}
    /\ Done(r)
    /\ UNCHANGED <<now, user, given, firebase, files, cache, gone, answered, orphans, revived,
                   crowded>>

UnsaveStory(r) ==
    request[r].op = "unsave" /\ (FindRow(r, "saved") \/ DeleteRow(r, "saved", "remove"))
UnstarSource(r) ==
    request[r].op = "unstar" /\ (FindRow(r, "starred") \/ DeleteRow(r, "starred", "remove"))
UnblockSource(r) ==
    request[r].op = "unblock" /\ (FindRow(r, "blocked") \/ DeleteRow(r, "blocked", "remove"))
UnsubscribeFromSource(r) ==
    /\ request[r].op = "unsubscribe"
    /\ FindRow(r, "subscribed") \/ DeleteRow(r, "subscribed", "remove")

\* One DELETE each.
UnfollowStory(r) == request[r].op = "unfollow" /\ DeleteRow(r, "followed", "check")
UnfollowTopic(r) == request[r].op = "untopic" /\ DeleteRow(r, "topic", "check")

DeleteAll(r, kind) ==
    LET q == request[r] IN
    /\ q.step = "check"
    /\ lists' = {x \in lists : x.of # q.id \/ x.kind # kind}
    /\ Done(r)
    /\ UNCHANGED <<now, user, given, firebase, files, cache, gone, answered, orphans, revived,
                   crowded>>

UnfollowAllStories(r) == request[r].op = "unfollow all" /\ DeleteAll(r, "followed")
UnfollowAllTopics(r) == request[r].op = "untopic all" /\ DeleteAll(r, "topic")

-----------------------------------------------------------------------------
(* upload_user_photo: the row is read, the picture stored, its url written     *)
(* and the picture of the url that was read removed.                           *)

ReadPhoto(r) ==
    LET q == request[r] IN
    /\ q.step = "check" /\ q.op = "upload"
    /\ IF user.id = q.id
       THEN Moved(r, [step |-> "put", op |-> "upload", worker |-> q.worker, id |-> q.id,
                      item |-> q.item, photo |-> user.photo])
       ELSE Done(r)
    /\ UNCHANGED <<now, user, given, firebase, files, lists, cache, gone, answered, orphans,
                   revived, crowded>>

\* upload_avatar: the storage may refuse.
Put(r) ==
    LET q == request[r] IN
    /\ q.step = "put"
    /\ \/ Step(r, "save") /\ files' = files \cup {File(q.id, q.item)}
       \/ Done(r) /\ files' = files
    /\ UNCHANGED <<now, user, given, firebase, lists, cache, gone, answered, orphans,
                   revived, crowded>>

\* The picture is one that another request is about to remove, or has yet to
\* refer to when this one removes it.
Removing(f, r) == \E x \in Request \ {r} :
    request[x].step = "drop" /\ File(request[x].id, request[x].photo) = f
Saving(f, r) == \E x \in Request \ {r} :
    request[x].step = "save" /\ File(request[x].id, request[x].item) = f

\* The new url is written if it differs from the one that was read.
Overwritten(q) == IF q.item = q.photo THEN user ELSE [user EXCEPT !.photo = q.item]

Replaced(q) == q.item # q.photo

\* The commit fails if the row has gone.  A url that was written since the
\* read is lost, and its picture stays.
SavePhoto(r) ==
    LET q == request[r] IN
    /\ q.step = "save"
    /\ IF user.id = q.id
       THEN /\ user' = Overwritten(q)
            /\ IF Replaced(q) THEN Step(r, "drop") ELSE Done(r)
            /\ orphans' = orphans \cup {File(q.id, p) : p \in {user.photo, q.item}
                              \ ({user'.photo} \cup IF Replaced(q) THEN {q.photo} ELSE {})}
       ELSE /\ user' = user /\ Done(r) /\ orphans' = orphans \cup {File(q.id, q.item)}
    /\ revived' = (revived \/ Removing(File(q.id, q.item), r))
    /\ UNCHANGED <<now, given, firebase, files, lists, cache, gone, answered, crowded>>

\* delete_avatar, whose failure is only logged: the picture of an old url, if
\* it is in the bucket.
Removed(f) ==
    \/ files' = files \ {f} /\ orphans' = orphans
    \/ files' = files /\ orphans' = IF f \in files THEN orphans \cup {f} ELSE orphans

DropOld(r) ==
    LET q == request[r] IN
    /\ q.step = "drop"
    /\ Removed(File(q.id, q.photo)) /\ Done(r)
    /\ revived' = (revived \/ Saving(File(q.id, q.photo), r))
    /\ UNCHANGED <<now, user, given, firebase, lists, cache, gone, answered, crowded>>

-----------------------------------------------------------------------------
(* login_user: the row is read, then created or brought up to date.            *)

\* The ID token may carry a picture of the provider.
LoginRead(r, w) ==
    /\ request[r] = Free
    /\ \E picture \in {"none", "google"} :
         Moved(r, [step |-> "login", op |-> "login", worker |-> w, id |-> user.id,
                   photo |-> user.photo, item |-> picture])
    /\ UNCHANGED <<now, user, given, firebase, files, lists, cache, gone, answered, orphans,
                   revived, crowded>>

\* The provider's picture fills a photo that was empty when it was read.
SignedIn(q) == IF q.photo = "none" /\ q.item # "none" THEN [user EXCEPT !.photo = q.item] ELSE user

\* A second row for the person is refused, and so is the update of a row that
\* has gone.
LoginCommit(r) ==
    LET q == request[r] IN
    /\ q.step = "login"
    /\ q.id = 0 /\ user.id = 0 => given < MaxId
    /\ user' = IF q.id = 0 /\ user.id = 0 THEN [id |-> given + 1, photo |-> q.item]
               ELSE IF q.id # 0 /\ user.id = q.id THEN SignedIn(q) ELSE user
    /\ given' = IF user'.id > given THEN user'.id ELSE given
    /\ orphans' = IF user.id # 0 /\ user'.photo # user.photo
                  THEN orphans \cup {File(user.id, user.photo)} ELSE orphans
    /\ Done(r)
    /\ UNCHANGED <<now, firebase, files, lists, cache, gone, answered, revived, crowded>>

-----------------------------------------------------------------------------
(* delete_account.                                                             *)

DeleteRead(r, w) ==
    /\ request[r] = Free
    /\ Moved(r, [step |-> IF user.id = 0 THEN "identity" ELSE "commit", op |-> "delete",
                 worker |-> w, id |-> user.id, photo |-> user.photo])
    /\ UNCHANGED <<now, user, given, firebase, files, lists, cache, gone, answered, orphans,
                   revived, crowded>>

\* Mutant of Cascaded: one table has no cascade.
CascadedButBlocks(id) == {x \in lists : x.of = id /\ x.kind \notin {"blocked", "report"}}

\* The rows that go with the user's; reports stay.
Cascaded(id) == {x \in lists : x.of = id /\ x.kind # "report"}

\* A row that another request has deleted by now is only warned about.
DeleteCommit(r) ==
    LET q == request[r] IN
    /\ q.step = "commit"
    /\ IF user.id = q.id
       THEN /\ user' = Nobody /\ lists' = lists \ Cascaded(q.id)
            /\ gone' = [i \in DOMAIN gone \cup {q.id} |->
                  IF i = q.id THEN [at |-> now, by |-> q.worker, dropped |-> FALSE, late |-> FALSE]
                  ELSE gone[i]]
            /\ orphans' = IF user.photo = q.photo THEN orphans
                          ELSE orphans \cup {File(q.id, user.photo)}
       ELSE UNCHANGED <<user, lists, gone, orphans>>
    /\ Step(r, "forget")
    /\ UNCHANGED <<now, given, firebase, files, cache, answered, revived, crowded>>

\* Mutant of Kept: only what has expired is dropped.
KeptFresh(entries, id) ==
    [t \in Token |-> IF entries[t].id = id /\ ~Fresh(entries[t]) THEN Absent ELSE entries[t]]

\* invalidate_token_cache_for_user, in the worker at hand.
Kept(entries, id) == [t \in Token |-> IF entries[t].id = id THEN Absent ELSE entries[t]]

Forget(r) ==
    LET q == request[r] IN
    /\ q.step = "forget"
    /\ cache' = [cache EXCEPT ![q.worker] = Kept(@, q.id)]
    /\ LET g == gone[q.id] IN
       gone' = [gone EXCEPT ![q.id] = [g EXCEPT !.dropped = g.dropped \/ g.by = q.worker]]
    /\ Step(r, "photo")
    /\ UNCHANGED <<now, user, given, firebase, files, lists, answered, orphans, revived,
                   crowded>>

DropPhoto(r) ==
    LET q == request[r] IN
    /\ q.step = "photo"
    /\ Removed(File(q.id, q.photo))
    /\ Step(r, "identity")
    /\ UNCHANGED <<now, user, given, firebase, lists, cache, gone, answered, revived, crowded>>

\* delete_firebase_user: one that is gone already is as good; any other
\* failure is answered 500, and the client may ask again.
DropIdentity(r) ==
    LET q == request[r] IN
    /\ q.step = "identity"
    /\ \/ firebase' = FALSE /\ answered' = answered \cup DOMAIN gone
       \/ firebase' = firebase /\ answered' = answered
    /\ Done(r)
    /\ UNCHANGED <<now, user, given, files, lists, cache, gone, orphans, revived, crowded>>

-----------------------------------------------------------------------------
\* What an authenticated request may ask for, and about what.
Visit == ((Adds \cup Removes \cup {"unfollow", "untopic", "unfollow all", "untopic all"}) \X Item)
             \cup ({"upload"} \X Pictures)

\* A request goes on.
Proceed(r) ==
    \/ Look(r) \/ Remember(r) \/ CheckUser(r)
    \/ SaveStory(r) \/ FollowStory(r) \/ StarSource(r) \/ BlockSource(r)
    \/ SubscribeToSource(r) \/ StartGameSession(r) \/ StartPremiumTrial(r)
    \/ RecordTimelineView(r) \/ ReportStory(r) \/ FollowTopic(r)
    \/ UnsaveStory(r) \/ UnstarSource(r) \/ UnblockSource(r) \/ UnsubscribeFromSource(r)
    \/ UnfollowStory(r) \/ UnfollowTopic(r) \/ UnfollowAllStories(r) \/ UnfollowAllTopics(r)
    \/ ReadPhoto(r) \/ Put(r) \/ SavePhoto(r) \/ DropOld(r) \/ LoginCommit(r)
    \/ DeleteCommit(r) \/ Forget(r) \/ DropPhoto(r) \/ DropIdentity(r)

AccountNext ==
    \/ Tick
    \/ \E w \in Worker : Restart(w)
    \/ \E r \in Request : \/ Proceed(r)
                          \/ \E w \in Worker : LoginRead(r, w) \/ DeleteRead(r, w)
                          \/ \E w \in Worker, t \in Token, v \in Visit : Arrive(r, w, t, v[1], v[2])

AccountSpec == AccountInit /\ [][AccountNext]_accountVars

-----------------------------------------------------------------------------
\* Once a deletion is answered nothing but reports names the account: no row
\* of another table, no identity, and no picture but one that overlapping requests, a
\* crash or the storage left without an owner (app/main.py:1682-1712).
DeletedIsGone ==
    \A id \in answered :
        /\ user.id # id /\ ~firebase
        /\ \A x \in lists : x.of = id => x.kind = "report"
        /\ \A f \in files : f.of = id =>
              \/ f \in orphans
              \/ \E r \in Request : /\ request[r].step \in {"save", "drop", "forget", "photo"}
                                    /\ request[r].id = id

\* A remembered token of a deleted account lapses within the lifetime of an
\* entry, and at once in the worker that deleted the account, unless a request
\* looked it up before the deletion and remembered it after
\* (services/request_auth.py:88-94, 114-138).
StaleTokenLapses ==
    \A w \in Worker, t \in Token :
        LET e == cache[w][t] IN
        Fresh(e) /\ e.id \in DOMAIN gone =>
            \/ gone[e.id].late
            \/ e.until <= gone[e.id].at + Ttl /\ (gone[e.id].by = w => ~gone[e.id].dropped)

\* The photo of an account is in the bucket, unless the same picture was
\* stored again while another request was removing it (app/main.py:860-873).
PhotoStands ==
    user.photo \in Pictures => revived \/ File(user.id, user.photo) \in files

\* The limit on topics is passed only by two follows at once
\* (app/main.py:4075-4090).
TopicsWithinLimit ==
    crowded \/ \A id \in 1 .. given : Cardinality(Topics(id)) <= Limit

\* What is stored of an account: all that belongs to it while it is there,
\* nothing once it has gone.
AccountIsWhole == DeletedIsGone /\ PhotoStands /\ TopicsWithinLimit
=============================================================================
