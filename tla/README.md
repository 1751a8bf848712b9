# Verification of the india-news backend

TLA+ models of the parts of this repository in which several actors change the
same rows, the TLC configurations that check them on small instances, and TLAPS
proofs of most of their safety properties for every instance. `PROJECT.json` maps
each definition to the lines it stands for and lists components, runs, mutants,
hazards, findings and theorems.

    tlc -config <run>.cfg <MC module>        # names in the table of runs
    tlapm <Component>_proofs.tla

## 1. The system

A FastAPI application (`app/main.py`) runs in several worker processes on two
droplets over one Postgres database and one Redis. Everything else happens in
processes started by timers: the feed poll, the enrichment run, the
notification run every 15 minutes, the schedulers of polls, games, briefs and
timelines. Humans decide in the admin desk. There is no queue: components
communicate only through rows, and keep each other out with leases
(`job_lease`), advisory locks, unique indexes and guarded UPDATEs. Database
sessions are opened with `autoflush=False, expire_on_commit=False`
(`app/database.py`): a session goes on working with the rows it loaded, a query
does not see what the session has not flushed, and an UPDATE names only the
columns whose value differs from the one loaded.

| Component | State | Operations | Interacts with |
|---|---|---|---|
| Job leases | a row per job: owner, expires_at | acquire or take over, renew, notice the loss, release | wraps the poll, enrichment, notifications, brief, explainer and narration runs |
| Ingestion (poller, dedup) | stories, articles, outlet counts, index of headline words, feed tags | ingest a source per transaction; then recompute scores and statistics in one commit | marks stories for enrichment, then runs the breaking cycle |
| AI enrichment | summary, framing comparison, ai_enriched; open batches | select, synchronous pass, submit and reconcile batches, re-enrich by hand | reads what ingestion writes, both write the same row |
| Breaking slot | breaking_stories, refresh reviews | expire, propose, refresh; approve, reject, skip | counts of the stories; read by the API and by notifications |
| Breaking and daily alerts, devices | notification_log, device tokens | count, claim, push, purge; register, unregister | the API registers devices meanwhile |
| Story-update alerts | story_follows, cluster_follow_state, story_developments, the log | follow, unfollow; detect, claim, push, expire | a step of the notification run; reads what enrichment and ingestion write |
| Topic and source alerts | follows, detection states, developments | the same for a topic and an outlet | steps of the notification run |
| Brief, horoscope and trial alerts | the log, premium trials | check, push, log; start a trial, convert, remind | last steps of the notification run |
| Daily poll | a row per day, votes | draft, approve, reject, regenerate, publish, vote | scheduler, readers and desk write one row |
| Daily games, puzzles, editorial, horoscope | a row per kind and day, the quiz bank | get or create under an advisory lock; review of the quiz | readers and scheduler |
| Explainers | a row, its sections, two cache entries | build, narrate and rewrite; edit, publish, archive | the desk edits next to builds |
| Daily brief and wrap-up | a row per day and kind | select, build under a lease, serve | scheduler, desk, readers |
| Timelines | rows, picks, the flag of the top | chain, rewrite in one session, pick, narrate | daily run, desk |
| Accounts | users, follows, saved stories, photos, token caches | sign in, upload, keep lists, delete | Firebase; every worker remembers tokens |
| Reading history | saved stories, read events, affinity, game sessions | save, report a read, count streaks | feeds read the affinity |
| Donations and purchases | donations, links | webhook, lookup of a purchase | Razorpay, Google Play |
| Feeds, caches, explore slot | Redis entries, snapshots, exposures | list, page, search, pick, decide | read what the poller moves |
| Schema scripts and repairs | columns, tables, the filled cells | add, fill, re-run; repair | run next to the service and the poller |

The behaviours that are hard here are nearly all of one family: **a row is read,
a language model or the network is awaited for seconds to hours, and the row is
written from what was read**, while timers, other workers and people go on.
Around it: leases that run out under a live run, crashes between the commits
of one cycle, batches answered out of order, claims that must be made before a
push that may be repeated, locks that end with the transaction somebody else
commits, pages cached while stories move, and days and windows at their
boundary. `PROJECT.json` has each hazard at its line.

What makes each component correct:

- *leases*: one body at a time while heartbeats keep up; never a theft of a
  live lease; a leftover row does not block the job; a run that lost its lease
  cannot hurt its successor.
- *ingestion*: counters are those of the articles; no listing that a stored tag
  vouches for hides an entry; no outlet confirms itself.
- *enrichment*: a comparison only compares outlets that are there, is taken away
  only by an answer that says there is nothing to compare, and covers what its
  request could describe unless an outlet joined while it was made; every
  corroborated story gets a pass.
- *breaking slot*: the live and proposed stories stay within the budget; every
  pinned card has beats; beats are never lost; one question to the desk per
  batch of coverage; nothing stays for ever.
- *poll*: one live poll, reviewed, unchanged once live, and there on every day.
- *alerts*: nothing twice, a daily cap, a slot once per occurrence, alerts of a
  day on that day, follows hear what is new to them and in order, pushes are
  spaced and capped, and only quiet follows end.
- *games and editorial*: what is served is vetted; a day keeps its row; a puzzle
  has its one solution; a word is not repeated.
- *explainers, briefs, timelines*: what is published was on the page of the one
  who released it; texts, audio and sections belong together; a failed rebuild
  does not hide what is live; a run does not undo a pick.
- *accounts*: a deleted account leaves nothing behind and its tokens lapse;
  payments are in the books once.
- *feeds*: a listing shows a story that kept its place once at its rank, whatever
  the explore slot adds to its first page.
- *schema and repairs*: any order, repetition or crash of the scripts keeps the
  data that is there.

## 2. Modules

| Module | Models |
|---|---|
| `SingletonJob` | abstract: a job of which one instance runs at a time |
| `JobLease` | `app/services/job_lease.py` |
| `Clustering` | `ingest_source` of `poller.py`, `dedup.py`, on the full rows |
| `EnrichmentPipeline` | `poller.py` (abstractly), `enrichment.py`, `enrichment_batch.py`, `enrich_all_clusters.py`, the re-enrich endpoint |
| `BreakingReview` | `breaking.py`, `admin_breaking.py` |
| `DailyPoll` | `polls.py`, `poll_admin.py`, `run_poll_scheduler.py`, the poll endpoints |
| `Notifications` | `send_notifications.py`, the device endpoints |
| `StoryUpdates` | `story_updates.py`, the followed-stories endpoints |
| `UpdateAlerts` | `topic_updates.py`, `source_updates.py`, their follow endpoints |
| `ReadyAlerts` | `morning_brief_notify.py`, `horoscope_notifications.py`, `trial_notifications.py`, `premium_trial.py` |
| `DailyGames` | `daily_games.py`, `quiz_admin.py`, `quiz_bank_admin.py`, `force_daily_games_regen.py` |
| `Puzzles` | `crossword.py`, `word_search.py`, `sudoku.py`, the word ladder: the generators' loops |
| `DailyFeatures` | the rows those end in, `editorial_features.py`, `editorial_backgrounds.py`, `horoscope.py` |
| `Explainers` | `explainer.py`, `admin_explainers.py`, the readers' cache entries |
| `DailyBriefs` | `daily_brief.py`, `daily_brief_select.py`, `daily_brief_script.py`, `admin_daily_brief.py` |
| `StoryChains` | `build_chains` of `story_chains.py` |
| `Timelines` | `build_story_timelines.py`, `admin_timelines.py`, `timeline_narration.py` |
| `Accounts` | sign-in, `request_auth.py`, photo, lists, deletion |
| `Reading` | saved stories, read events, `affinity.py`, game sessions |
| `Payments` | the webhook, `donations.py`, `play_billing.py` |
| `Feed` | the listings, For You, `cluster_search.py`, `explore_bandit.py`, `launcher_feed.py` |
| `Migrations` | `scripts/add_*`, `migrate_*`, `migrations/*.sql`, the start of the service |
| `Repairs` | backfills, repairs, clean-ups and second scrapes of `scripts/` |
| `<X>_proofs` | theorems, see section 5 |
| `MC<X>`, `Lanes` | instances for TLC, see section 3 |

`IngestsAsThePipeline` (a property of `Clustering`) and `ImplementsSingleton` (of
`JobLease`) are the two refinements: the abstract specification is instantiated
with a mapping and its steps are the property.

A request or a run that awaits something is two actions or more: one that reads
and checks, one that writes with what was read. Actions named `...Fails`,
`...Raises`, `Abort` and `Crash` are the error paths. Texts are values that are
equal or not; time is a counter of coarse ticks, thresholds are one or two
ticks apart. Variables that no code has are history, and are named as such at
their declaration (`overtaken`, `late`, `overrun`, `stranded`, `raced`, `told`, ...).
They keep what was pushed, seen or approved, and mark the races that the code
permits, so that a property can say "except after such a race" and nothing more.

*JobLease.* Every call of `job_lease()` is a run with its own uuid, so a run is
its owner. `Acquire` is the one upsert with its `WHERE expires_at < now()`; `Skip`,
a call that finds the lease taken; `Renew`, `LoseLease` and `RenewRaises` are the
three outcomes of a heartbeat; `Release` and `ReleaseRaises` those of the `finally`
block. Dates become the ticks that are left. `Lag` and `MaxFails` describe the
environment: how late an event loop may wake a heartbeat and how many renewals
in a row may fail.

*Clustering.* A feed is ingested in one transaction whose session keeps what it
loaded: `db` is what is committed, `session.tx` what the session will commit,
`session.seen` what its queries see (the rows as of the last flush, which only a
new story brings about). A headline is the set of its words.

*EnrichmentPipeline.* A comparison is the set of outlets its request described, at
most MaxArticles of those the story had. An answer brings a comparison, says that
there is none to make (an explicit `[]` or `null`), or leaves the key out
(`Answer`: "compared", "empty", "absent"); `Enriched` is what each does to the row.
`StageArticle`, `CommitSource` and `FailSource` are one source's transaction with the
session that all sources share; `WriteBack` is SQLAlchemy's rule that an unchanged
column is not written. The run reconciles batches first (`ApplyResults`,
`GiveUpBatch`, ...), then passes stories synchronously or collects them for a
batch; a batch lives at the API as well as in the table, so a crash between the
two loses it. `late` marks stories that an outlet joined while an answer for them
was due; `basis` keeps the last answer written to each story.

*BreakingReview.* The cycle is modelled commit by commit (`CycleExpire`,
`CycleCount`, `CycleRaise`, `CycleRefresh`, and `CycleFails` between any two); the
free slots it computes are a variable because they are used after decisions may
have changed them. `overtaken` are the stories that an approval wrote after its
row had changed. A beat is the number of the model call that made it.

*DailyPoll.* Publication (scheduler and readers alike) holds the advisory lock
from its read to its commit. A day has two halves, before and after 09:00.
`overrun` marks days whose draft was rewritten after it had left the draft state.

*Notifications.* A run takes users one by one: count today's alerts, pick a story
under the cap or the slot whose window is open, claim by insert, push to the
devices it loaded when it started, purge the devices that failed. Runs may
overlap. The log counts UTC days, so a slot at midnight falls on two of them.

*StoryUpdates.* The reader follows in one transaction (`BeginFollow` reads,
`FinishFollow` commits the follow and, if the story had no state, the seeded
state) and unfollows. The run reads what to look at (`DetectRead`), commits the
developments with what it remembers (`DetectCommit`), loads the follows that lag
behind (`Load`), takes them one by one (`SkipPast`, `Judge`, `Claim`, `ClaimLost`,
`Push`), then drops the states nobody needs (`DropStates`) and ends quiet follows
(`EndFollow`). Runs do not overlap here: they hold the lease, which `JobLease`
shows to exclude in time.

*UpdateAlerts* is the same for one topic and one source, but with overlapping runs.
A search finds the newest `Candidates` of the stories that match and moved within
`Lookback`. A follow is told what is past its mark. Preferences change at any time;
a run keeps who had the alerts off when it loaded them, and moves the marks of those
on. `raced` says that a run dropped the states of stories while a follow was being
made, `lowered` that a run moved a mark back.

*ReadyAlerts.* Each kind checks the log, pushes, and logs (brief and wrap-up,
which no unique index covers) or claims (horoscope, trial). Time is counted in
ticks of the Indian day; UTC days begin `Shift` ticks into it.

*DailyGames.* A request holds the advisory lock of the day until its transaction
ends; drawing from the bank commits, which ends it early. The desk and the
script take no lock. A draw is two steps (`Select`, `EndDraw`): the questions are chosen
in one and their use is committed in the other, so the draws of a request, an
editor and the script overlap.

*Explainers.* Builds and narrations hold a lease that may lapse; a section is
rewritten without it. Every one of them reads the row, waits for a model, writes,
and invalidates afterwards. `crossed` says that the row changed under somebody
who then wrote it, `late` that an entry was stored after its row had changed or
that its invalidation was lost. Redis may refuse any write, which the code
swallows: then the progress that the desk reads is an old one ("stale"), and an
invalidation is lost. That a page offers a button only in some states is taken as
a fact about the desk: the endpoints of builds, sections and sources do not
repeat it.

*Accounts.* `users` has one row for the person or none; a row that is created
again has a new id. Each worker remembers tokens with a lifetime.

*Feed.* A client is a reader who is signed in, or is nobody, and pages through one
listing. On the first page of All Stories the explore slot puts a candidate
among the stories (`PickCandidate`, `RecordExposure`) without moving the cursor, so
what is shown there comes again at its rank; `spliced` is that candidate.

*Repairs.* Enrichment asks (`Ask`) and writes the answer later (`Answer`). A script works
on the rows it has loaded (`script.was`), and its commit writes only the columns whose
value differs from those (`Assigned`).

*Migrations, Reading, Payments, DailyFeatures, DailyBriefs,
Timelines, Puzzles, StoryChains*: see the comment at the head of each module.

## 3. Runs

| Run | Distinct states | Bounds | Checks |
|---|---|---|---|
| `JobLease_late` | 18,792 | 2 runs restarted for ever, TTL 3, heartbeat 2, lag 3 | leases are lost and bodies overlap; still no live lease is stolen, a superseded run is harmless, a leftover row is taken |
| `LeasedRun_one_story` | 392,748 | TTL 6, heartbeat 2, lag 1, 1 failure; and 1 story, 3 outlets of which a request describes 2, 1 crash: 1 batch and a request by hand with every answer, or 2 batches | with (1+1)·(2+1) ≤ 6 bodies never overlap and the lease implements `SingletonJob`; counts and comparisons are right |
| `EnrichmentPipeline_live` | 75,720 | 1 story and a request by hand, or 2 stories at one per run; 1 batch, 1 crash | each corroborated story gets a pass, each batch is settled |
| `BreakingReview_cycle` | 423,868 | 2 stories and 1 admin, or 1 story and 2 admins; 1 slot, 3 outlets, 2 reviews, 3 calls | budget, cards, coverage; candidates and pins end though nobody acts |
| `DailyPoll_two_days` | 102,521 | 2 days, 2 reviewers, 2 publishers, 1 voter | one live poll, reviewed unless overrun; a poll each day |
| `Stories_followed` | 666,600 | feeds with entries that chain, share a title or are old; and 1 reader, 1 story, 2 bullets, 2 developments, 4 ticks | ingestion is sound and the pipeline's; follows are served by the rules |
| `Stories_template` | | the lane with a shared title | violated: one title stored twice stops the outlet's feed |
| `Alerts_overlap` | 2,174,404 | 2 runs of each alert; 3 stories, 1 device, a slot at midnight; 1 reader who follows twice and turns alerts off and on, 2 stories of which a search finds 1, and looks back 1 tick; 1 member, 2 trial requests, 4 ticks | once, the cap up to the overlap, news in order, alerts on their day |
| `Daily_morning` | 907,384 | 2 requests, 2 editors, 2 questions, 3 selections or commits before the last selection; 2 visits, 2 processes, 3 words; boards of 6 or 4x4 | vetted quiz, a day's own rows, solvable puzzles |
| `Editorial_day` | 2,313,018 | 2 tasks, 1 admin, 1 reader, 2 sections; 2 builds, 2 days; a run, a narrator, 2 rows, 6 lists of groups (2 with clusters in several groups); 4 clusters | published was reviewed, texts and audio fit, briefs stay up, picks stay |
| `Readers_day` | 1,849,506 | 2 requests, 2 workers, 2 tokens; 2 payments and deliveries, lag 8; 3-4 stories, pages of 1-2, a client who is signed in or not; 3 articles; 3 places in the log, 2 dates, 2 words, 3 stories of the backfill | accounts, history, books, pages, the explore slot, scripts and repairs |
| `Readers_search` | | the search lane | violated: the second page leaves a story out |

Many of these modules share no state, and one run checks several of them: a
behaviour picks a *lane* at the start (variable `lane` of module `Lanes`), works on
one component and leaves the others at their initial state. Within a lane the
variables that its question does not need stay put; another lane of the same
module has them. Lanes therefore do not weaken a property, they only avoid
products of independent state spaces; what interacts is in one lane.

In place of symmetry over wide states some MC modules let "the first of what
nothing tells apart yet" stand for the others (the first run to start, the
first story mentioned). `SYMMETRY` is used in four runs, all without liveness.
`CHECK_DEADLOCK FALSE` is set where a bounded clock or a finished lane really ends
(`Alerts_overlap`, `Daily_morning`, `Editorial_day`, `Readers_day`,
`Readers_search`); elsewhere deadlock is checked.

Why the bounds are enough: each hazard is a race of two actors, at times with a
third that takes the place one of them gave up, so two runs, two admins or a
run and a request, and one more story than slots, show it. Times matter only
through their order, so thresholds are a tick or two apart and ages saturate
behind the largest one. Three outlets are the least for "corroborated, and one
more joins". Four ticks hold two developments, a summary that loses its point and
takes it up again, an expiry and a new follow. Where a property was thought
to be lost on a single reader, the proof decided: the theorems of section 5 hold
for any number, and one such attempt corrected a property (see 4, topic follows).

What the exceptions leave: where a property excepts a race that the code permits
(`overtaken`, `redone`, `overrun`, `stranded`, `raced`, `lowered`, `unlocked`, `crossed`,
`over`, `revived`, `twice`, `again`, `mixed`), it says nothing of the rows in that race
after it, and everything of the others. The promotion bound runs with two
exposures where the code has 20 (the theorem has any number from two), and of the
reports of a read only their counting is checked, not the seconds and depths.

### Fairness
- *JobLease*: weak fairness for the clock, the timers (a run that finds the lease
  taken is followed by another), due heartbeats and the `finally` block of a live
  process. Crashes, failures and the end of a body are never forced.
- *BreakingReview*: weak for the clock and the steps of the cycle, which the poll
  timer repeats. No fairness for people.
- *EnrichmentPipeline*: weak for the timer, the run's steps and the commit or
  failure of a source; strong for the outcomes the code retries without end (a
  synchronous call, a submission, the end of a batch, the reading of results):
  "if it is tried again and again it works some day". Without it the
  language model may be down for ever.
- *DailyPoll*: weak for starting a publication (the scheduler's loop and every
  reader ask for the poll), strong for its commit.

## 4. Divergences from what the code says of itself

Two have a run and a finding:
1. `Stories_template`: two entries of one listing with one title are both stored
   (`poller.py:289` sees only what was stored before), and from then on
   `scalar_one_or_none` (`:299`) raises and rolls back the outlet's whole feed.
2. `Readers_search`: results are ordered by `last_updated_at`, the cursor is the id
   (`cluster_search.py:64`), although `main.py:2171` explains why that is wrong.

The others are behaviours of the models; properties name them as exceptions:

*Breaking.* `decide_candidate` writes `active` after a model call without reading the
row again: the candidate may have timed out or been rejected, and its slot been
given away, so there can be more live stories than "up to two"
(`breaking.py:58`, `admin_breaking.py:208`; `overtaken`). Two approvals of one refresh
lose beats of the first (`admin_breaking.py:264`). Articles stored late with an
old date are missed by a refresh (`breaking.py:234`). A decision does not
invalidate the cached breaking pages (`main.py:3271`).

*Enrichment.* Rows are committed before the status of their batch, and an unreadable
later batch undoes the status: one result set is applied twice
(`enrichment_batch.py:189`, `:197`); a batch that can never be read stops every
later run (`:245`). `enrichment.py:507` derives `ai_enriched` from the load before
the call, so a comparison may miss an outlet until the next one joins; otherwise one
that was made covers what its request described (`ComparisonIsSound`). An answer
without the key keeps the comparison of fewer outlets and marks the story as
enriched all the same (`:503`-`:507`); one that says there is nothing to compare
takes it away, unless the writer had loaded none: setting a column to what was
loaded writes nothing. `enrich_all_clusters.py:171` submits a refinement that waits
for a batch again.

*Ingestion.* The comment at `poller.py:490` on regional merges does not hold of a
story bridged by a national outlet. One listing can pass `MAX_CLUSTER_ARTICLES` by
what it stages before a flush. A story made of an old article is past its age at
birth.

*Poll.* A regeneration that began on a draft ends after the approval and puts text
nobody has seen live (`overrun`).

*Alerts.* Any failure of a push deletes the registration, also one of the network
(`send_notifications.py:176`). A registration is found by user and token but deleted
by id (`main.py:953`, `:967`); the row may be another reader's by then. A slot at
midnight would fire twice if runs came 2·window minutes apart; a cadence of 15
against a window of 7 leaves one minute. `story_updates.py:150` says that seeding
makes a follow start from what the reader sees; that holds of the follow that seeds.
`story_updates.py:335` and `topic_updates.expire_orphaned_topic_state` drop the
states of what nobody follows while a follow request (`main.py:4090`) that saw them
is about to commit: a story follow then never hears of anything, a topic follow may
hear of a story as new twice or of one it matched when it was made (`stranded`,
`raced`; the second was found by the proof). Following a topic makes "every cluster
already matching it" known, so that nothing is pushed that "the user is already
seeing" (`topic_updates.py:102`), but only the newest 30 within 30 days are looked
at (`:63`, `:84`-`:98`): an older match that gets its turn later is pushed as a new
story, and `NewIsNew` is about the newest only. The mark of a reader with alerts off
is written without the claim's guard (`topic_updates.py:289`,
`source_updates.py:120`): a run that loaded the reader as off sets it back behind
what another run has pushed after the reader turned the alerts on, and the same
items are pushed again (`lowered`). After a lost claim the rollback expires every
loaded follow and the loop's next look raises (`story_updates.py:298` and alike).
Two overlapping runs push a brief twice, after which `scalar_one_or_none` ends the
step for all later readers (`morning_brief_notify.py:118`). A purchase between query
and claim still gets the trial reminder. `follow_topic` at the cap refuses a topic
already followed (`main.py:4065`).

*Daily rows.* `force_daily_games_regen.py:86` stores an unreviewed quiz as approved.
`bank_quiz_questions` ends the lock's transaction early (`daily_games.py:492`). It
selects the questions used least recently (`:480`) and commits their use only then,
and the desk's redraft (`quiz_admin.py:102`) shares no lock with a request: two
draws that overlap take the same questions while others wait for their first use.
The rotation is claimed of draws that do not overlap (`NoQuestionWaits`). Two days
generated at once may share a word (`editorial_features.py:499`). The provider of
horoscopes is called during its cooldown by another process (`horoscope.py:148`). A
failing `ensure` ends `puzzle_loop` (`run_crossword_scheduler.py:97`).

*Explainers, briefs, timelines.* A "done" that Redis refuses leaves the page waiting
(`explainer.py:67`). The end of a build invalidates only the detail entry
(`explainer.py:352`). `restore` publishes whatever was archived. A re-anchored
timeline is not put in the top (`build_story_timelines.py:337`, `:370`), rows added
in the session are missed by `set_last_seen_in_top`, a pick can move to another row,
and neither runs nor narrations invalidate caches. Editorial picks "always occupy
their slot" (`build_story_timelines.py:20`), but one whose chain overlaps another
pick's is passed over (`:387`), and the chain of a later candidate that contains its
anchor then writes its row as no pick (`:276`). A pick whose narrative fails keeps
its place with the text of an earlier day, so a cluster may be told twice. Both were
found by the proof, and the properties name them (`passed`, `failed`). Of runs that
overlap (a manual one and the scheduler's) the later commit writes what it had
loaded over the earlier one's rows; `over` marks that.

*Accounts and money.* A login with an unexpired ID token recreates a deleted account
(`main.py:741`, `firebase_auth.py:54`, against `static/privacy.html:290`); its tokens
resolve in other workers until they lapse. A login that races an upload writes the
old photo back (`main.py:763`).

*Feeds.* A For You cursor outlives its snapshot. A promoted story of one outlet is
hidden by the gate (`config.py:68`). A reader who is shown a story often and reads
it once counts each time (`explore_bandit.py:215`); a candidate on page one blocks
the slot (`:126`). `list_users` of the admin pages by offset. The candidate of the
explore slot is put on the first page without a trace in the cursor, and `seen_ids`
(`main.py:2277`) only covers the page: a reader sees that story again at its rank.

*Scripts.* `add_ai_enriched_column` guesses anew on every run;
`migrate_notification_prefs` loses a concurrent update; `add_read_events_table` is
refused on a table that `create_all` made; `rescrape_missing_content.py:68` shares
one session among tasks, and a page's picture replaces the one of the feed (`:67`);
`rescrape_video_urls.py:196` leaves `media_type`; `repair_runaway_clusters.py:105`
clears a comparison that it has loaded only, so one written meanwhile stays with the
one article that is left (`crossed`), as does one whose answer comes after the
repair; `remove_odishatv` and `repair_runaway_clusters` leave counts and flags
behind.

## 5. Proofs

All theorems are for every value of the constants under the assumptions that
the modules declare (numbers are numbers, sets are finite where something is
counted); the column names what is assumed besides.

| Module and theorem | Property of a run | Assumes |
|---|---|---|
| `Leases_proofs`: `LeaseExcludes`, `LeaseImplementsSingleton` (on `HolderAlwaysCovered`) | `MutualExclusion`, `ImplementsSingleton` | `HeartbeatInTime`: (MaxFails+1)·(HB+Lag) ≤ TTL |
| `LiveLeaseIsNotStolen`, `SuccessorIsLeftAlone` | `OnlyOwnerEndsLiveLease`, `SupersededRunIsHarmless` | |
| `ReleasedWasOnThePage`, `ExplainersHold` | `PublishedWasReviewed`, `ExplainerHoldsTogether` | |
| `TimelinesStayOfTheRun` | `TimelinesAreOfTheRun` | `TimelinesAssumption`: a group has more than one cluster |
| `BriefsStayRight` | `BriefIsRight` | `BriefsAssumption`: no category is in both lists or twice in one, MostCovered ≤ MaxSlots |
| `Clustering_proofs`: `NoEntrySkipped`, `StoriesStaySound` | `NothingIsSkipped`, `StoriesAreSound` | |
| `IngestionIsThePipelines` | `IngestsAsThePipeline` | |
| `EnrichmentPipeline_proofs`: `CountsAreOutlets`, `ComparisonsStaySound` | `CountIsOutlets`, `ComparisonIsSound` | |
| `BreakingReview_proofs`: `BudgetHolds`, `CardsAndReviewsHold`, `CoverageOnlyGrows` | `BudgetUnlessOvertaken`, `CardsAndReviews`, `CoverageMovesOn` | |
| `Desks_proofs`: `LivePollReviewed`, `QuizStaysVetted` | `LivePollIsReviewed`, `QuizIsVetted` | |
| `DaysHaveTheirOwn` | `DayHasItsOwn` | |
| `Alerts_proofs`: `CapHolds`, `NothingPushedTwice` | `CapUpToOverlap` | |
| `ServedOncePerOccurrence` | `ServedOnce` | Spacing > 2·Window, the cadence against the window |
| `FollowersStayInformed` | `FollowersHearNews` | |
| `AlertsAreDue` | `ReadyAlertsAreDue` | `ReadyAssumption`: briefs are sent from Shift on, Shift is inside the day |
| `StoryUpdates_proofs`: `PushRulesHold` (of `NoBulletTwice`, `PushesSpaced`, `PushesCapped`), `FollowsSeeded` (of `FollowedTracked`, `FirstFollowNews`), `EndsQuietFollows` | `PushRules`, `FollowsAreSeeded`, `EndedWasQuiet` | |
| `Readers_proofs`: `AccountsAreWhole`, `TokensOfDeletedAccountsLapse`, `PaidStaysKept` | `AccountIsWhole`, `StaleTokenLapses`, `PaidIsKept` | |
| `DataIsKept` | `MigrationsKeepData` | `MigrationsAssumption`: places in the log are numbers, NULL is no value |
| `RepairsKeepStoriesTrue` | `StoriesStayTrue` | `RepairsAssumption`: finitely many articles, NULL is no article and no row |
| `PagesStaySound`, `PromotionNeedsReaders` | `PagesAreSound`, `OneReaderIsNotEnough` | `FeedAssumption`: ids are positive, finitely many stories and callers, PageLimit ≥ 1, MinExposures ≥ 2 |
| `HistoryStaysCounted` | `HistoryIsCounted` | `ReadingAssumption`: PageSize ≥ 1, 0 is no event, at least two days |

Each module has its type invariant as well, as `TypeCorrect` or as part of the
invariant. A proof module holds the proofs of components that belong together.

*Leases.* Mutual exclusion is not inductive. The invariant says that a holder
owns the row and that what is left of its TTL covers what the heartbeat may still
need: the rest of this interval and lag, and a full one for each failure not yet
used. A tick lowers both sides; a renewal resets both; a failed renewal uses up
one of the reserves.

*Explainers.* The lease keeps builds and narrations apart until it lapses
(`TasksKeepApart`); after that, and for sections, which are written without it,
what a task has read is the row's unless the row has been changed under it,
which `crossed` records. For the cache, whoever changes what readers see has the
invalidation of the entry still before it (`FlushesDetail`), so an entry that
differs from the row has somebody who will drop it.

*DailyBriefs.* A build at work holds the lease of its kind or the lease has lapsed, and a
row it has not found ready is not ready (`BuildsHold`); of the choice, the fallback
stories taken and the categories still missed are together no more than the core
categories without a story (`Balance`), and those to be visited have none.

*Timelines.* A run works on what it has loaded. Until another run commits, nobody but the
desk (picks) and the narrations (voices) changes the rows under it, so what it has
loaded is still there, and writing only the changed columns keeps what those two
wrote (`SessionKnows`). The chains it has given a narrative do not overlap, since it
leaves out what meets a used cluster; so a row is written for one chain at most, a
row at an anchor that was tried tells the chain tried there unless its narrative
failed, and no two of these share a cluster (`SessionTells`). A pick that the run began
with and has dealt with was passed over, or its anchor is used and will not be met
again, or no group has it (`SessionKeepsPicks`). A commit by another run ends all of
this for a session, and what it then commits is marked `over`.

*Clustering.* Every counter is that of the *session's* view of the articles, also
between the steps of a transaction that a rollback may undo; the outlets a
session knows of a story are those of the database and of itself. The tag of a
listing is stored with its entries in one commit or not at all, so every entry
it vouches for was handled. The refinement maps the rows of articles to the
outlets, counters and flags of `EnrichmentPipeline`: each step is the step of the
same name, or leaves its state alone.

*EnrichmentPipeline.* No writer holds a lock between the read of a row and its
write. The invariant says of each what it has read and how that relates to the
committed row: of the session of ingestion (`SessionsFit`), of requests whose
answers are awaited (`RequestsFit` for every story, `RequestsFresh` for those that
no outlet joined since), and of the run (`RunFits`). Of the last answer written,
what it covered is tied to the outlets as long as none joined, and to the comparison
if it made one.

*BreakingReview.* The budget is inductive only together with what the cycle knows:
between `CycleCount` and `CycleRaise` the slots it still wants to fill, added to
those occupied by stories no overtaken approval wrote, fit in MaxActive. Decisions
only lower that sum, except an approval, which keeps its story in it or marks
it overtaken. For cards, a request in flight that read a pending row finds it
pending or is marked.

*DailyPoll, DailyGames.* The poll's invariant relates each request and publication
in flight to the row it read; the advisory lock excludes publications of one day.
For the quiz, the lock spares the requests until somebody writes without it
(`LockHolds`). Of the bank, a selection whose use is not yet committed and that
passed over a question still waiting for its first use has none that was in use by
then (`PickIsFair`), so draws that share a question while one waits have overlapped.

*DailyFeatures.* A visit that makes a first puzzle finds none, also when it is about to
insert, and one that makes it again has an algorithmic crossword in memory
(`PuzzlesFit`); a visit that composes has the words of all other days, unless another
composes at the same time (`FeaturesFit`).

*Notifications.* A push needs a claim by the same run, and the log has one row per
reader and story. For the cap, a run that has counted c alerts has "headroom":
every row beyond c was written by another run since, and each of the others holds
one permission at most. For slots, two runs that meet one occurrence of a slot
would have started within two windows of each other.

*UpdateAlerts.* Runs overlap, so memory is never the truth: the invariant says that
what a run has loaded was true when it was loaded and stays true of the follows that
are still there (`Memory`); a follow is told what is past its mark and was recorded
since it was made (`Kept`); the stories a follow counts on, and those announced
since, have been tracked ever since (`Watched`), and what is tracked is not
announced. A mark only moves forward but for the runs in `lowered`, of which `Kept`
says no more than that they were marked. The last part fails for two readers when a
run drops states while a follow is made. That is how the exception `raced` came into
the property.

*ReadyAlerts.* A run that is about to send a brief has seen no row for it, and none
was added since but by a run that took the same step on the same day (`AboutToSend`,
`Crossings`). Rings are counted by Indian days and rows by the log's UTC days, which
begin at 5:30; a brief rings only later (6:30 or 20:00), so the ring of a day has its
row in the UTC day that began in it (`RungIsSent`), and Shift is what joins the two.
The other alerts ring once their row is claimed.

*StoryUpdates.* *Open*: a request is younger than everything of its reader. *Looks*:
nobody writes a tracked state between the read and the write of the detection.
*Memory*: the state of a followed story knows the bullets of all developments since,
and no two share one. *Rows* and *Jobs* turn a gap judged by stale rows into a gap in
the log. *Counted*: the count in memory covers the log's rows of the day. *Ending*:
what ends was quiet when it was read, or has moved since the run began.

*Accounts, Payments.* Ids are never given twice, so an id is the row's or of a
deleted account (`IdsFit`); every picture in the bucket has somebody who will delete
it, or is counted as an orphan (`FilesOwned`); a token was remembered no later than
its account's deletion, unless the history says so (`EntriesLapse`). A delivery
that has been answered found its payment in the books or put it there.

*Migrations.* The index on the log is accepted because its script first deletes, of any
two rows of a key, the one at the later place; that one row is left of each key is a
fact about least places. What the backfill of tokens has not done of the stories there
are is still in the set it has read, unless a poller of the old version added a story
(`TokensFollow`). A document of preferences that is read to be migrated has its old
key, and one the reader has saved since has not (`PreferencesKept`). The theorem lets
the scripts and the service's writes interleave freely; the run takes the groups of
`SchemaNext` one at a time.

*Repairs.* A repair works from what it has read. A story that a removed source has
not touched (`bare`) still has the article it began with (`HomesFit`), so taking out
misfits cannot empty it; and of a story that is not in `crossed` either, what the
repair has read is still so when it writes: its members, or its count of one
(`AtWork`). An answer is awaited of a story of several articles only, unless the
story is bare or crossed (`AskedFits`). Such a story is true to its articles
(`StoriesAreTrue`). Again the theorem interleaves both groups of actions, the
repairs with the poller and the second scrapes.

*Feed.* A listing is a strict order, and a page is what lies between two cursors in
it. A remembered page shows a story that has not moved since if and only if the
story lies between the page's cursors, and a client has seen, once, the stories
above its cursor that have not moved since its oldest page, besides the candidate
put on its first page (`AtItsRank`, `SlotFits`). In For You the place in the
snapshot counts: it is shown when it is below pages times limit. With each reader
counted once, one engaged reader among two exposures or more never clears the bound
of the promotion; the promoted ones keep their distance on the page.

*Reading.* Of the saved stories, what is below the cursor has not been listed, and what
was kept all along and is not below it has (`SavedFits`). The affinity with a topic
counts the closed reads but for the one whose report is still under way (`ReportsFit`,
`Settled`). A streak is the distance to the last day missed: days are finitely many,
so the proof takes the least one at which the recursive definition and that
distance would differ, in place of an induction.

Every inductive invariant was checked by TLC, on the run's bounds and where
readers or requests meet on bounds with one more, before it was proved.

Only model-checked:
- liveness (`LeasesMoveOn`, `SlotIsGivenBack`, `WorkIsFinished`, `TodayHasPoll`):
  fairness and ENABLED are beyond the prover;
- `PuzzlesAreSolvable`, `ChainsAreStories`: what recursive definitions compute
  (solutions, groups) needs induction over data.

## 6. Not modelled, and what is next

Left out, with the reason in `PROJECT.json`: operator mail and failure alerts
(best effort, nothing stored), article extraction (HTML and network; the pipeline
sees success or failure), the text of the breaking prompts, the admin desks that edit
single rows (announcements, topics, feedback, reports), the admin shell, configuration
and declarations, the loops of the schedulers, seeds and offline evaluations, the web
pages, deployment. Components marked `partly` say in their note what is missing.

What would come next: the extraction of articles as a component of its own, and the
loops of the schedulers with the failures that end them.
