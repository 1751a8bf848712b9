------------------------------ MODULE MCUpkeep ------------------------------
(* Bounded instances of the schema scripts and of the repairs.  They share no *)
(* row, so a behaviour works on one lane, chosen at the start, and the other  *)
(* state keeps its initial value:                                             *)
(*   reading, features, events the scripts that only add, in three groups, on *)
(*            an old database; in the last the service starts as well         *)
(*   fill     story_clusters, filled while the service writes                 *)
(*   cells    the filled columns of other tables                              *)
(*   log      the notification log and its indexes                            *)
(*   choice   preferences and words, read first and written later             *)
(*   tokens   the backfill of tokens                                          *)
(*   regroup  the repairs of stories while the poller attaches                *)
(*   pages    the scripts on texts, pictures and videos                       *)
EXTENDS Lanes, Migrations, Repairs

upkeepVars == <<schemaVars, repairVars>>

UpkeepLanes == {"reading", "features", "events", "fill", "cells", "log", "choice",
                "tokens", "regroup", "pages"}

TopicOf == [a \in 1..3 |-> IF a = 2 THEN "cricket" ELSE "floods"]
OutletOf == [a \in 1..3 |-> IF a = 1 THEN "hindu" ELSE "mint"]

OldPages == [snippet : {"signed", "signoff", "clean"}, content : {"signed", "none"},
             image : {"card", "shared", "own"}, video : {"//", "http", "false", "none"},
             size : {NoRow}, short : {NoRow}, kind : {"image"}]

Blank == [snippet |-> "clean", content |-> "clean", image |-> "own", video |-> "none",
          size |-> NoRow, short |-> NoRow, kind |-> "image"]

InitSchema ==
    \E new \in CASE lane = "features" -> {{"game_sessions", "daily_quizzes"}}
                 [] lane = "events"   -> {{}, {"read_events", "uq_read_events index"}}
                 [] lane = "cells"    -> {{"breaking_stories", "story_timeline_features",
                                          "articles.video_url", "articles.media_type"}}
                 [] lane \in {"log", "choice"} -> {{"notification_log"}}
                 [] OTHER             -> {{}},
       due \in IF lane = "cells" THEN BOOLEAN ELSE {FALSE},
       old \in IF lane = "choice" THEN {"none", "breaking", "daily"} ELSE {"none"} :
         SchemaInit({"users", "sources", "articles", "story_clusters"} \cup new, due, old)

InitRepairs ==
    IF lane = "pages"
    THEN \E p \in OldPages :
           RepairsInit({1, 2}, [a \in Articles |-> IF a = 1 THEN p ELSE
                                  [Blank EXCEPT !.content = p.content, !.video = p.video]])
    ELSE RepairsInit({}, [a \in Articles |-> Blank])

UpkeepInit == InitSchema /\ InitRepairs

\* The lane's steps; the other module's state stays.
UpkeepNext ==
    \/ /\ \/ lane = "reading" /\ Reading
          \/ lane = "features" /\ Features
          \/ lane = "events" /\ Events
          \/ lane = "fill" /\ Fill
          \/ lane = "cells" /\ Cells
          \/ lane = "log" /\ Log
          \/ lane = "choice" /\ Choice
          \/ lane = "tokens" /\ Tokens
       /\ UNCHANGED repairVars
    \/ /\ \/ lane = "regroup" /\ Regroup
          \/ lane = "pages" /\ Scrapes
       /\ UNCHANGED schemaVars

=============================================================================
