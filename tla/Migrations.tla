----------------------------- MODULE Migrations -----------------------------
(* The schema scripts (scripts/add_*.py, migrate_*.py, migrations/*.sql) and  *)
(* the start of the service (main.py lifespan), on a database that other      *)
(* processes keep writing.  A script is one transaction: its ALTER TABLE      *)
(* holds the table until the commit, so what it adds and what it fills appear *)
(* at once, and a crash or a refused statement leaves nothing.  The scripts   *)
(* that are more than one transaction, or take no such lock, have a step for  *)
(* each part.                                                                 *)
(*                                                                            *)
(* A column that a script fills is one cell of one row: Null, "filled" by the *)
(* script, or "live", written by the running service.                         *)
EXTENDS Integers, FiniteSets

CONSTANTS
    Null,          \* SQL NULL
    LogRow,        \* places for rows of the notification log
    Date,
    Word,
    NewId          \* ids of stories

ASSUME MigrationsAssumption == LogRow \subseteq Nat /\ Null # "live" /\ Null # {}

VARIABLES
    parts,      \* tables, columns and indexes of the schema
    story,      \* one row of story_clusters
    cells,      \* one cell per filled column of the other tables
    logged,     \* rows of notification_log of one user
    prefs,      \* one user's preferences, and who wrote them
    words,      \* the words of daily_editorial_features, by day
    tokened,    \* stories with rows in cluster_tokens, and the stories there are
    running,    \* what a script of several steps has read, by script
    wrote,      \* history: what the service wrote since its column exists
    derived,    \* history: what a script set again from older evidence
    refused     \* history: the scripts whose statements the data refused

schemaVars == <<parts, story, cells, logged, prefs, words, tokened, running,
          wrote, derived, refused>>

rows == <<story, cells, logged, prefs, words, tokened>>

FilledColumns == {"reviewed", "dropped", "words", "rss", "short"}

\* No script has run: the tables there are, whether a row is due for each fill,
\* and the old key of the preferences.
SchemaInit(tables, due, old) ==
    /\ parts = tables
    /\ story = [outlets |-> 1, counted |-> 1, multi |-> Null, framing |-> "none",
                enriched |-> FALSE, pass |-> Null]
    /\ cells = [c \in FilledColumns |-> [value |-> Null, due |-> due]]
    /\ logged = {} /\ words = {}
    /\ prefs = [old |-> old, breaking |-> FALSE, daily |-> FALSE, by |-> "start"]
    /\ tokened = [stories |-> {1}, done |-> {}, today |-> FALSE, missed |-> FALSE,
                  whole |-> FALSE]
    /\ running = [prefs |-> Null, words |-> Null, tokens |-> Null]
    /\ wrote = {} /\ derived = {} /\ refused = {}

-----------------------------------------------------------------------------
(* Scripts that only add.                                                     *)

\* A transaction of CREATE .. IF NOT EXISTS on tables it needs: nothing at all
\* when one of them is missing.
Creates(needs, new) ==
    /\ needs \subseteq parts
    /\ parts' = parts \cup new
    /\ UNCHANGED <<story, cells, logged, prefs, words, tokened, running,
                   wrote, derived, refused>>

AddSavedStories == Creates({"users", "story_clusters"},
    {"saved_stories", "ix_saved_stories_user_id", "ix_saved_stories_cluster_id",
     "uq_saved_stories_user_cluster"})

AddSourceBlocks == Creates({"users", "sources"}, {"user_source_blocks"})

AddSourceFollows == Creates({"users", "sources"}, {"user_source_follows"})

AddEntityStats == Creates({"story_clusters"},
    {"entity_stats", "story_clusters.entity_boost"})

AddExploreBandit == Creates({"users", "story_clusters"},
    {"explore_exposures", "story_clusters.explore_status"})

AddGameStats == Creates({"game_sessions"}, {"game_sessions.score",
    "game_sessions.completion_time_seconds", "game_sessions.difficulty"})

AddTimelineAudio == Creates({"story_timeline_features"},
    {"story_timeline_features.spoken_script", "story_timeline_features.spoken_script_hash",
     "story_timeline_features.audio_url", "story_timeline_features.audio_duration_seconds",
     "story_timeline_features.audio_beat_offsets",
     "story_timeline_features.audio_generated_at"})

AddNotificationTables == Creates({"users", "story_clusters"},
    {"device_tokens", "uq_device_tokens_fcm_token", "notification_log",
     "idx_notiflog_user_sent", "idx_notiflog_user_cluster"})

AddBreakingStories == Creates({"story_clusters"},
    {"breaking_stories", "ix_breaking_stories_status"})

AddTimelineFeatures == Creates({"story_clusters"},
    {"story_timeline_features", "ix_story_timeline_features_anchor_cluster_id",
     "ix_story_timeline_features_is_editorial_pick"})

AddContentColumn == Creates({"articles"}, {"articles.content"})

AddDailyWordles == Creates({}, {"daily_wordles", "ix_daily_wordles_puzzle_date"})

AddGameSources == Creates({"daily_quizzes"}, {"daily_quizzes.source"})

AddHotPathIndexes == Creates(
    {"sources", "articles", "story_clusters", "story_clusters.distinct_source_count",
     "story_clusters.headline_score", "story_clusters.explore_status"},
    {"idx_clusters_distinct_source_count", "idx_clusters_explore_status",
     "idx_sources_category", "idx_articles_source_lower_title"})

\* Three columns and an index; the rows that exist count as approved.
AddQuizReview == Creates({"daily_quizzes"}, {"daily_quizzes.status",
    "daily_quizzes.publish_at", "daily_quizzes.approved_at", "ix_daily_quizzes_status"})

AddQuizBank == Creates({}, {"quiz_bank_questions", "ix_quiz_bank_questions_is_active"})

AddVideoMedia == Creates({"articles"}, {"articles.video_url", "articles.media_type"})

\* The leases, without the rows that have run out (none of them is read here).
AddJobLease == Creates({}, {"job_lease", "ix_job_lease_expires_at"})

\* The index of the same name on two columns gives way to one on one column.
OneProviderUid == Creates({"users"}, {"uq_users_provider_uid"})

\* Donations, and the kind of a read event.
AddDonations == Creates({"users", "read_events"},
    {"donations", "uq_donations_provider_payment_id", "read_events.event_type",
     "ix_read_events_event_type"})

-----------------------------------------------------------------------------
(* read_events: its uniqueness is an index when the service made the table,   *)
(* or an earlier form of the script did, and a constraint when this one did.  *)

UniqueEvents == {"uq_read_events index", "uq_read_events constraint"}

\* No constraint of the name and an index of the name: ADD CONSTRAINT meets a
\* relation of that name, and the transaction leaves nothing.
AddReadEvents ==
    IF "uq_read_events index" \in parts
    THEN /\ refused' = refused \cup {"AddReadEvents"}
         /\ UNCHANGED <<parts, rows, running, wrote, derived>>
    ELSE Creates({"users", "story_clusters"},
              {"read_events", "uq_read_events constraint", "user_entity_affinity"})

FixReadEventsConstraint ==
    /\ "read_events" \in parts
    /\ "uq_read_events constraint" \notin parts
    /\ parts' = (parts \ UniqueEvents) \cup {"uq_read_events constraint"}
    /\ UNCHANGED <<rows, running, wrote, derived, refused>>

-----------------------------------------------------------------------------
(* The start of the service.                                                  *)

\* Tables the models declare, with what create_all makes along with each.
TableParts == [
    read_events |-> {"read_events", "uq_read_events index", "read_events.event_type"},
    user_entity_affinity |-> {"user_entity_affinity"},
    saved_stories |-> {"saved_stories", "uq_saved_stories_user_cluster"},
    notification_log |-> {"notification_log", "notification_log.sent_date",
        "notification_log.daily_slot_utc", "uq_notiflog_breaking_user_cluster",
        "uq_notiflog_daily_user_slot_day"},
    breaking_stories |-> {"breaking_stories", "breaking_stories.reviewed_at",
        "breaking_stories.last_reviewed_source_count"},
    cluster_tokens |-> {"cluster_tokens", "ix_cluster_tokens_token"}]

\* Missing tables come with all of their columns; a table that exists gets only
\* the columns of the list below it, whatever else the models declare.
Startup ==
    /\ parts' = parts \cup UNION {TableParts[t] : t \in DOMAIN TableParts \ parts}
                     \cup {"daily_editorial_features.background_image", "users.photo_url",
                           "explainers.source_cluster_ids",
                           "story_timeline_features.view_count"}
    /\ UNCHANGED <<rows, running, wrote, derived, refused>>

-----------------------------------------------------------------------------
(* Scripts that add columns to story_clusters and fill them.                  *)

Columns(s) == s \subseteq parts

\* Both counts are computed again, from the articles.
AddRanking ==
    /\ Columns({"story_clusters", "articles"})
    /\ parts' = parts \cup {"story_clusters.distinct_source_count",
                            "story_clusters.headline_score", "idx_clusters_headline_score"}
    /\ story' = [story EXCEPT !.counted = story.outlets]
    /\ UNCHANGED <<cells, logged, prefs, words, tokened, running, wrote, derived, refused>>

\* Mutant of FillMulti: every story that qualifies is filled.
FillMultiAll(s) == IF s.counted >= 2 THEN "filled" ELSE s.multi

\* Only where nothing is known: a rerun must not move a story's age.
FillMulti(s) == IF s.multi = Null /\ s.counted >= 2 THEN "filled" ELSE s.multi

AddBecameMultiSource ==
    /\ Columns({"story_clusters", "story_clusters.distinct_source_count"})
    /\ parts' = parts \cup {"story_clusters.became_multi_source_at"}
    /\ story' = [story EXCEPT !.multi = FillMulti(story)]
    /\ UNCHANGED <<cells, logged, prefs, words, tokened, running, wrote, derived, refused>>

\* A guess from the framing: the phrases of the rules say that no model answered.
Guess(s) == IF s.outlets = 1 THEN FALSE
            ELSE IF s.framing = "none" THEN s.enriched ELSE s.framing = "free"

AddAiEnriched ==
    /\ Columns({"story_clusters"})
    /\ parts' = parts \cup {"story_clusters.ai_enriched", "idx_clusters_ai_enriched"}
    /\ story' = [story EXCEPT !.enriched = Guess(story)]
    /\ derived' = IF Guess(story) = story.enriched THEN derived ELSE derived \cup {"enriched"}
    /\ UNCHANGED <<cells, logged, prefs, words, tokened, running, wrote, refused>>

FillPass(s) == IF s.pass = Null /\ s.enriched THEN "filled" ELSE s.pass

AddEnrichmentBatches ==
    /\ Columns({"story_clusters", "story_clusters.ai_enriched"})
    /\ parts' = parts \cup {"story_clusters.last_enriched_at", "enrichment_batches",
                            "idx_enrichment_batches_open"}
    /\ story' = [story EXCEPT !.pass = FillPass(story)]
    /\ UNCHANGED <<cells, logged, prefs, words, tokened, running, wrote, derived, refused>>

\* A second outlet: the poller of today needs its columns, an older one has none.
AttachOutlet ==
    /\ story.outlets = 1
    /\ IF Columns({"story_clusters.distinct_source_count",
                   "story_clusters.became_multi_source_at"})
       THEN /\ story' = [story EXCEPT !.outlets = 2, !.counted = @ + 1,
                          !.multi = IF @ = Null THEN "live" ELSE @]
            /\ wrote' = IF story'.multi = "live" THEN wrote \cup {"multi"} ELSE wrote
       ELSE story' = [story EXCEPT !.outlets = 2] /\ wrote' = wrote
    /\ UNCHANGED <<parts, cells, logged, prefs, words, tokened, running, derived, refused>>

\* The first answer of the model; its phrases may be those of the rules.
FirstAnswer ==
    /\ story.outlets = 2 /\ ~ story.enriched
    /\ Columns({"story_clusters.ai_enriched", "story_clusters.last_enriched_at"})
    /\ \E f \in {"rules", "free"} :
         story' = [story EXCEPT !.framing = f, !.enriched = TRUE, !.pass = "live"]
    /\ wrote' = wrote \cup {"enriched", "pass"}
    /\ derived' = derived \ {"enriched"}
    /\ UNCHANGED <<parts, cells, logged, prefs, words, tokened, running, refused>>

\* Before there was a flag: the rules always left their phrases.
OldAnswer ==
    /\ story.outlets = 2 /\ "story_clusters.ai_enriched" \notin parts
    /\ \E f \in {"rules", "free"} : story' = [story EXCEPT !.framing = f]
    /\ UNCHANGED <<parts, cells, logged, prefs, words, tokened, running,
                   wrote, derived, refused>>

-----------------------------------------------------------------------------
(* Scripts that fill one column of another table: cells[c] is the cell, due   *)
(* says whether the row qualifies for the fill.                               *)

Tables == [reviewed |-> "breaking_stories", dropped |-> "story_timeline_features",
           words |-> "articles", rss |-> "sources", short |-> "articles"]

Column(c) == CASE c = "reviewed" -> "breaking_stories.last_reviewed_source_count"
               [] c = "dropped"  -> "story_timeline_features.dropped_from_top_at"
               [] c = "words"    -> "articles.word_count"
               [] c = "rss"      -> "sources.rss_only"
               [] c = "short"    -> "articles.video_is_short"
               [] c = "slot"     -> "notification_log.daily_slot_utc"

\* The row's own condition, and never a cell that has a value.
Fills(c, new) ==
    /\ Tables[c] \in parts
    /\ parts' = parts \cup {Column(c)} \cup new
    /\ cells' = [cells EXCEPT ![c].value =
                     IF cells[c].due /\ @ = Null THEN "filled" ELSE @]
    /\ UNCHANGED <<story, logged, prefs, words, tokened, running, wrote, derived, refused>>

\* An active story starts from the count its summary was written for.
AddBreakingReview == Fills("reviewed",
    {"breaking_stories.reviewed_at", "breaking_refresh_reviews",
     "ix_breaking_refresh_reviews_status", "ix_breaking_refresh_reviews_cluster_id"})

\* A timeline that is out of the top since before the column: since its update.
AddDroppedFromTop == Fills("dropped", {})

AddWordCount == Fills("words", {})

\* Sources of the listed domains that are not flagged yet.
AddRssOnly == Fills("rss", {})

\* The kind of media of a YouTube row: no longer "video" (the poller writes
\* no such row since).
AddYoutubeVideo ==
    /\ Columns({"articles", "articles.video_url", "articles.media_type"})
    /\ Fills("short", {"articles.video_duration_seconds"})

\* The service writes the column, once it is there (the last two it never does).
WriteCell(c) ==
    /\ Column(c) \in parts /\ c \notin {"rss", "short"} /\ cells[c].value # "live"
    /\ cells' = [cells EXCEPT ![c].value = "live"]
    /\ wrote' = wrote \cup {c}
    /\ UNCHANGED <<parts, story, logged, prefs, words, tokened, running, derived, refused>>

-----------------------------------------------------------------------------
(* notification_log: the day of each row, no repeats, two unique indexes.     *)

UniqueLog == {"uq_notiflog_breaking_user_cluster", "uq_notiflog_daily_user_slot_day"}

SamePush(a, b) == a.mode = b.mode /\ (a.mode = "daily" => a.day = b.day)

\* The service logs a push at a place that is free (the deletes tell rows apart
\* by their place); the unique indexes refuse a repeat.
LogPush(id, mode, day) ==
    /\ "notification_log" \in parts /\ \A r \in logged : r.id # id
    /\ LET row == [id |-> id, mode |-> mode, day |-> day,
                   dated |-> "notification_log.sent_date" \in parts]
       IN /\ UniqueLog \subseteq parts => \A r \in logged : ~ SamePush(r, row)
          /\ logged' = logged \cup {row}
    /\ UNCHANGED <<parts, story, cells, prefs, words, tokened, running,
                   wrote, derived, refused>>

DedupBreaking(log) ==
    {a \in log : ~ \E b \in log : /\ a.mode = "breaking" /\ SamePush(a, b)
                                  /\ a.id > b.id}

DedupDaily(log) ==
    {a \in log : ~ \E b \in log : /\ a.mode = "daily" /\ SamePush(a, b)
                                  /\ a.id > b.id}

NoRepeat(log) == \A a, b \in log : SamePush(a, b) => a.id = b.id

\* The ALTER comes first, so no push is logged between the deletes and the
\* indexes; --dry-run rolls all of it back.
AddLogIndexes ==
    /\ "notification_log" \in parts
    /\ LET kept == DedupDaily(DedupBreaking({[r EXCEPT !.dated = TRUE] : r \in logged}))
       IN IF NoRepeat(kept)
          THEN /\ logged' = kept
               /\ parts' = parts \cup UniqueLog \cup {"notification_log.sent_date"}
               /\ refused' = refused
          ELSE refused' = refused \cup {"AddLogIndexes"} /\ UNCHANGED <<logged, parts>>
    /\ UNCHANGED <<story, cells, prefs, words, tokened, running, wrote, derived>>

-----------------------------------------------------------------------------
(* The preferences: read with the old key, written whole without it.  Only    *)
(* notification_log is locked.                                                *)

ReadPreferences ==
    /\ "notification_log" \in parts /\ running.prefs = Null
    /\ prefs.old # "none"
    /\ running' = [running EXCEPT !.prefs = prefs]
    /\ UNCHANGED <<parts, rows, wrote, derived, refused>>

\* A breaking subscriber is one, a daily one keeps the hour; the rest of the
\* document is as it was read.
Migrated(p) == [p EXCEPT !.old = "none", !.breaking = p.old = "breaking",
                         !.daily = p.old = "daily", !.by = "script"]

WritePreferences ==
    /\ running.prefs # Null
    /\ prefs' = Migrated(running.prefs)
    /\ parts' = parts \cup {Column("slot")}
    /\ derived' = IF prefs = running.prefs THEN derived ELSE derived \cup {"prefs"}
    /\ running' = [running EXCEPT !.prefs = Null]
    /\ UNCHANGED <<story, cells, logged, words, tokened, wrote, refused>>

\* The reader's document replaces the whole of the old one, and its old key.
ChoosePreferences ==
    /\ "prefs" \notin wrote
    /\ \E b, d \in BOOLEAN :
         prefs' = [old |-> "none", breaking |-> b, daily |-> d, by |-> "reader"]
    /\ wrote' = wrote \cup {"prefs"}
    /\ UNCHANGED <<parts, story, cells, logged, words, tokened, running, derived, refused>>

-----------------------------------------------------------------------------
(* The word of the day: looked at in one statement, indexed in the next.      *)

Repeated(ws) == \E a, b \in ws : a.word = b.word /\ a.day # b.day

\* Repeats are reported and nothing is done.
CheckWords ==
    /\ running.words = Null /\ ~ Repeated(words) /\ "uq_editorial_word" \notin parts
    /\ running' = [running EXCEPT !.words = "checked"]
    /\ UNCHANGED <<parts, rows, wrote, derived, refused>>

IndexWords ==
    /\ running.words = "checked"
    /\ running' = [running EXCEPT !.words = Null]
    /\ IF Repeated(words) THEN refused' = refused \cup {"IndexWords"} /\ parts' = parts
       ELSE parts' = parts \cup {"uq_editorial_word"} /\ refused' = refused
    /\ UNCHANGED <<rows, wrote, derived>>

\* The day's word is written; after the index, only one that is new.
WriteWord(d, w) ==
    /\ \A x \in words : x.day # d
    /\ words' = words \cup {[day |-> d, word |-> w]}
    /\ "uq_editorial_word" \in parts => ~ Repeated(words')
    /\ UNCHANGED <<parts, story, cells, logged, prefs, tokened, running,
                   wrote, derived, refused>>

-----------------------------------------------------------------------------
(* cluster_tokens: the table in one transaction, the rows in several.         *)

CreateTokens ==
    /\ "cluster_tokens" \notin parts
    /\ parts' = parts \cup {"cluster_tokens", "ix_cluster_tokens_token"}
    /\ UNCHANGED <<rows, running, wrote, derived, refused>>

\* All stories of the window are read at once, and their tokens go in by chunks.
ReadStories ==
    /\ "cluster_tokens" \in parts /\ running.tokens = Null
    /\ running' = [running EXCEPT !.tokens = tokened.stories]
    /\ UNCHANGED <<parts, rows, wrote, derived, refused>>

\* One chunk (here a story) is committed; rows that are there stay as they are.
WriteChunk ==
    /\ running.tokens \notin {Null, {}}
    /\ \E s \in running.tokens :
         /\ tokened' = [tokened EXCEPT !.done = @ \cup {s}]
         /\ running' = [running EXCEPT !.tokens = @ \ {s}]
    /\ UNCHANGED <<parts, story, cells, logged, prefs, words, wrote, derived, refused>>

EndTokens ==
    /\ running.tokens = {}
    /\ running' = [running EXCEPT !.tokens = Null]
    /\ tokened' = [tokened EXCEPT !.whole = TRUE]
    /\ UNCHANGED <<parts, story, cells, logged, prefs, words, wrote, derived, refused>>

\* The new poller is put to work: only where the table is.
DeployPoller ==
    /\ ~ tokened.today /\ "cluster_tokens" \in parts
    /\ tokened' = [tokened EXCEPT !.today = TRUE]
    /\ UNCHANGED <<parts, story, cells, logged, prefs, words, running,
                   wrote, derived, refused>>

\* A story is made: today's poller writes its tokens with it, the older one none,
\* and what the backfill has read by then misses it.
NewStory(s) ==
    /\ s \notin tokened.stories
    /\ tokened' = [tokened EXCEPT
           !.stories = @ \cup {s},
           !.done    = IF tokened.today THEN @ \cup {s} ELSE @,
           !.missed  = @ \/ (~ tokened.today /\ (running.tokens # Null \/ tokened.whole))]
    /\ UNCHANGED <<parts, story, cells, logged, prefs, words, running,
                   wrote, derived, refused>>

-----------------------------------------------------------------------------
(* A process ends between two transactions: the schema stays as it is.        *)

StopScript ==
    /\ running # [prefs |-> Null, words |-> Null, tokens |-> Null]
    /\ running' = [prefs |-> Null, words |-> Null, tokens |-> Null]
    /\ UNCHANGED <<parts, rows, wrote, derived, refused>>

-----------------------------------------------------------------------------
(* What goes on at the same time: the scripts that only add, in three groups,  *)
(* and the others with the writers of what they fill.                          *)

Reading ==
    \/ AddSavedStories \/ AddSourceBlocks \/ AddSourceFollows \/ AddEntityStats
    \/ AddExploreBandit \/ AddRanking \/ AddHotPathIndexes \/ OneProviderUid

Features ==
    \/ AddGameStats \/ AddDailyWordles \/ AddGameSources \/ AddQuizReview \/ AddQuizBank
    \/ AddVideoMedia \/ AddContentColumn \/ AddJobLease

Events ==
    \/ AddNotificationTables \/ AddBreakingStories \/ AddTimelineFeatures
    \/ AddTimelineAudio \/ AddDonations \/ AddReadEvents \/ FixReadEventsConstraint
    \/ Startup

Fill ==
    \/ AddRanking \/ AddBecameMultiSource \/ AddAiEnriched \/ AddEnrichmentBatches
    \/ AttachOutlet \/ FirstAnswer \/ OldAnswer

Cells ==
    \/ AddBreakingReview \/ AddDroppedFromTop \/ AddWordCount \/ AddRssOnly
    \/ AddYoutubeVideo
    \/ \E c \in FilledColumns : WriteCell(c)

Log ==
    \/ \E id \in LogRow, mode \in {"breaking", "daily"}, day \in Date : LogPush(id, mode, day)
    \/ AddLogIndexes

Choice ==
    \/ ReadPreferences \/ WritePreferences \/ ChoosePreferences
    \/ CheckWords \/ IndexWords \/ StopScript
    \/ \E d \in Date, w \in Word : WriteWord(d, w)

Tokens ==
    \/ CreateTokens \/ ReadStories \/ WriteChunk \/ EndTokens \/ DeployPoller \/ StopScript
    \/ \E s \in NewId : NewStory(s)

SchemaNext == Reading \/ Features \/ Events \/ Fill \/ Cells \/ Log \/ Choice \/ Tokens

\* Any tables may be there.
MigrationsSpec ==
    /\ \E tables \in SUBSET STRING, due \in BOOLEAN, old \in {"none", "breaking", "daily"} :
           SchemaInit(tables, due, old)
    /\ [][SchemaNext]_schemaVars

-----------------------------------------------------------------------------
(* Properties.                                                                *)

\* What the service wrote is not undone by a script run after it, first or
\* again: a fill takes only rows that have no value.  Apart are the flag of
\* add_ai_enriched_column, which a rerun guesses anew, and what a reader changes
\* between the read and the write of migrate_notification_prefs.
LiveValueKept ==
    /\ "multi" \in wrote => story.multi = "live"
    /\ "pass" \in wrote => story.pass = "live"
    /\ "enriched" \in wrote \ derived => story.enriched
    /\ \A c \in DOMAIN cells \cap wrote : cells[c].value = "live"
    /\ "prefs" \in wrote \ derived => prefs.by = "reader"

\* The deletes leave nothing that the unique indexes of the log refuse; a backfill of tokens that has ended,
\* after crashes or not, has reached every story but those of a poller that was
\* still the old one.
MigrationSettles ==
    /\ "AddLogIndexes" \notin refused
    /\ tokened.whole /\ ~ tokened.missed => tokened.stories \subseteq tokened.done

\* The scripts undo nothing, and what they are for is done when they end.
MigrationsKeepData == LiveValueKept /\ MigrationSettles
=============================================================================
