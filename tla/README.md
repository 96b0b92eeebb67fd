# BunkerMedia in TLA+

A verification development of BunkerMedia, the self-hosted media acquisition and
playback server: TLA+ modules of its components, TLC runs that check them on small
instances, and theorems about them that TLAPS checks for every value of the constants.
Paths without a directory are under `src/bunkermedia/` of the repository.

## The system

One process (`bunker serve`) runs one asyncio event loop with the HTTP server and six
interval loops; other processes (every CLI command) open the same SQLite file for a
moment. A handler runs undisturbed between two `await`s; a `Database` method holds the
connection's lock and commits once; downloads run in a thread whose progress hook also
writes to the database.

| component | state | operations | interacts with |
|---|---|---|---|
| download queue (`database.py`, `workers.py`) | `download_jobs`, `dead_letter_jobs`, tasks in flight | queue, claim, settle, requeue, dead-letter, retry, pause, resume, priority, recovery | everything that queues; batches; network flag |
| resumable batches (`workers.py`, `database.py`, `downloader.py`) | `download_batches`, `download_batch_items` | discover, open or resume, tick off, reconcile, complete, fail, recovery | queue; catalogue; archive |
| catalogue (`database.py`) | `videos` | upsert, downloaded, evicted, scores | everything |
| profiles (`service.py`, `database.py`) | `profiles`, `profile_video_state`, allowed and blocked channels, channel preferences, the shared row, the active profile | select, create, settings, hide a channel, opinions, privacy | catalogue, pages |
| offline planner (`planner.py`) | none | fill the deficit of unwatched hours within the storage limit | catalogue, queue |
| storage policy (`storage_policy.py`) | files | evict until under the limit | catalogue, archive |
| feed discovery (`scraper.py`, `providers/`) | none | list a feed, upsert, queue what is missing | catalogue, queue, artwork |
| artwork (`artwork.py`) | picture files, `artwork_url` | backfill, on demand, of a provider's result | catalogue, network |
| intelligence (`intelligence.py`) | `video_embeddings` | read a text, store its embedding | catalogue |
| network and sync window (`network.py`) | online flag | refresh, in window | every loop |
| import organizer (`import_organizer.py`) | files of watch folder and library | classify, place, duplicate check, artwork | library scan |
| migrations (`migrations.py`) | schema, recorded versions | apply in order | start-up |
| backup and restore (`maintenance.py`) | archives | copy out, copy back | database files |
| recommender (`recommender.py`) | scores | refresh, rank | catalogue |
| web pages (`ui/app.js`) | profile, rules and cards shown | requests, reloads | server |
| server, service, CLI | locks | dispatch | all |

### What is hard, and what must hold

* **Queue.** Two claimants (loop and sync request), users who pause, resume and retry
  while downloads run, retries with backoff, crashes, and a second process that runs the
  recovery. Nothing may be lost, run twice, revived after it was settled, or retried
  for ever.
* **Batches.** A thread, the loop and a restart all write one batch. Progress is
  monotone, an unfinished batch is never forked or abandoned, a completed one is
  complete, and the library agrees with it.
* **Offline cache.** Planner and eviction work against each other through the
  catalogue, the archive and the queue: the library should converge to its target
  within its limit.
* **Profiles.** Opinions per profile beside a shared row written through; handlers of
  several commits; pages on several devices that learn of a change only by asking. What
  one profile says must not change what another sees, a hidden channel stays hidden, and
  a page at rest shows what is stored.
* **Enrichment.** Four tasks work for minutes on rows they read at their beginning.
  What one fetched another must not undo, and rows that fail must not starve the others.
* **Imports.** Two runs, slow writers and crashes between any look at the disk and any
  change of it: a file the user dropped must not be lost.
* **Migrations and backups.** Statements that commit by themselves beside ones that do
  not, two processes upgrading at once, and copies of a database that is in use.

`PROJECT.json` lists every component and every hazard with its line.

## Modules

| module | what it models | status |
|---|---|---|
| `JobLifecycle` | what the queue promises of one job (abstract) | done |
| `JobQueue` | the queue, its claimants, users, processes, faults | done |
| `JobQueueProofs` | theorems about `JobQueue`, and that it implements `JobLifecycle` | done |
| `BatchDownload` | an attempt step by step: batches, items, catalogue, archive; extends `JobQueue` | done |
| `BatchDownloadProofs` | batch behaviour refines queue behaviour; the batches' invariant | done |
| `BatchSharingProofs` | theorems about batches, jobs and attempts together; extends `BatchDownloadProofs` | done |
| `OfflineCache` | catalogue, files, archive, planner, storage policy, feeds, votes | done |
| `OfflineCacheProofs` | theorems about `OfflineCache`, planner and policy | done |
| `ImportOrganizer` | a run over the watch folder, file operation by file operation | done |
| `ImportOrganizerProofs` | theorems about `ImportOrganizer` | done |
| `Migrations` | the database file and its log, transactions, the start of a process | done |
| `Backup` | copying and restoring these files beside running processes; extends `Migrations` | done |
| `BackupProofs` | theorems about `Migrations` and `Backup` | done |
| `Profiles` | profiles, opinions, rules, and the pages of several devices | done |
| `ProfilesProofs` | theorems about `Profiles` | done |
| `Enrichment` | artwork, embeddings, network flag, sync windows, the sync's lock | done |
| `EnrichmentProofs` | theorems about `Enrichment` | done |
| `MC...` | constants of the runs | done |

### JobQueue

`jobs` is `download_jobs` (the row with id *i* is `jobs[i]`; rows are never deleted),
`deadLetters` is `dead_letter_jobs`. `tasks` are the coroutines of
`_process_single_job` in flight, with the locals they decide by. A queue run is a pair
of a process and a role: the interval loop, or a sync request (serialised by
`sync_lock`). `Claim` is `process_download_queue_once` up to its `gather`; `Succeed`,
`FailAndRequeue` and `FailAndDeadLetter` are the ends of `_process_single_job`;
`BookkeepingFails` is a write of its except handler that SQLite refuses. `Start` is
`Service.initialize` with its recovery, `Stop` a crash or a shutdown (the cancelled
tasks write nothing). `due` stands for `next_run_at`; `online` for the answer of
`_allow_online_sync`. Actions that change nothing in the code (pausing a job that is
not pending, queueing a URL that has a live job) are stuttering steps.
`stranded`, `starts` and `pausedOnce` are history variables.

### BatchDownload

Every action is an action of `JobQueue` conjoined with its effect on the batches, or
leaves the queue alone. `work[i]` is where the task of job *i* is: awaiting discovery,
or the download thread, with the file just finished (`cur`), the entries the call will
return (`got`) and the archive as the thread read it (`seen`). `Prepare` is
`_prepare_batch_download` after its await; it resumes the newest unfinished batch of the
job's URL *and* target type, where the queue refuses a second job by URL alone. `typeOf` is
that target, which users may set whatever the URL (`cli add --type`, the API's
`target_type`); `EnqueueAs` and `ClearLetters` are the queue's operations with it, and with
`cleared`, the jobs whose letter a user cleared. `FinishFile` is the progress hook;
`EndFile` is yt-dlp's postprocessing and archive record; `Complete` and `FailAttempt`
are everything after `asyncio.to_thread` returns or raises, which the loop runs
without interruption. What the loop runs without interruption a crash can still cut,
because each write commits by itself: `StopWhileSettling`, `StopWhilePreparing`,
`StrandJob` and `PrepareRefused` leave every prefix of the writes. yt-dlp is external:
any subset of videos may finish, a finished file may or may not reach the archive, and
a video the thread saw in the archive is skipped.
`completedOnce`, `lost` and `cleared` are history variables. What the loop runs without
interruption is atomic because one process has the database open: the module assumes it
(`OneProcess`).

### OfflineCache

The columns of `videos` that planner and policy decide by are sets and functions
(`downloaded`, `watched`, `liked`, `path`, ...); `opinion` is `profile_video_state`; `times`
is the order of the `updated_at` stamps of rows and of the default profile's opinions.
`files`, `archive` and `arriving` (finished in the download thread, not entered) are the
outside. A video is its own URL and a job is live (`queued`) or not: `JobQueue` has the
rest. `PlanVideo` is one turn of the planner's loop. The policy's query and its loop are in
declarative form: `Candidates` is the set of rows the query returns, `Evictable` the orders
of those the loop does not skip, by key and stamp, and `UntilEnough` cuts an order where the
loop stops. Planner and policy await nothing, so a run of one, and the sequences
`SyncMaintenance` (enforce, plan) and `RecommendationCycle` (scores, plan, enforce), are one
step; `CrashWhileEvicting` cuts between an unlink and its row. `ReadBy` and `Refreshed` say
what reading every row by its opinion's stamp and writing its score does to the order of the
rows; `Kept` selects stamps in their order. The ranking is any order of the catalogue and
the score of `low_score` a constant per video. yt-dlp is external: `Fetch` skips what its
archive has, may miss the archive record, and may leave the hook with the name of a merged
part. `planned` and `torn` are history variables.

### ImportOrganizer

`src` is the watch folder, `lib` and `libArt` the library, both by path; a file holds its
content, a part of it, or nothing. The user may drop any content at any path that is free,
also where an imported file was before. `run[r]` is where the run of a process is: `Begin`
lists the folder, `Visit` takes the next file up to the scan limit and settles its
destination, `Examine` is `_place_file` up to its decision (the target is looked at, and may
be taken by another run afterwards), `DropDuplicate` deletes what the library has, `Rename`,
`StartCopy`, `FinishCopy` are the placing, `PlaceArtwork` the sidecars, `Discover` the scan
of the library that only a run that organized something makes. That scan ends after
`LibraryLimit` files, in whatever order the directories list them: 2000 in the code, less
what the watch folders before the library take of it. A run keeps reading a file that
another run took away under it (`TakeAway`, `read`), but deletes by path (`Unlink`): it may
meet a file dropped there since. `writing[p]` follows a file the user is still writing: into
the watch folder, or after a rename into the library. The digest suffix is a second name per
path. `mode` (move or copy, one filesystem or two) is chosen at the start. `dropped`,
`given`, `clashed`, `mistaken`, `unseen` and `excused` are history: paths and contents that
were dropped, names two runs found free at once, contents deleted in place of another file,
a run that ended before its scan, and artwork with a reason to stay behind.

### Migrations and Backup

`Script` is the list of statements a start executes: those of `initialize` and of every
migration in order, as the schema objects they need and create, down to the versions in
`schema_migrations`. `Statement` runs one. Python's `sqlite3` opens a transaction before an
`INSERT` or `UPDATE` and not before DDL, so DDL commits by itself until the first of these
and with it afterwards (`Define`, `Modify`); one commit ends `initialize` (`Ready`). A page
is a table; `main` and `wal` are the database file and its log, and `DB` is the file
overlaid with the log. `Backup` copies the two files one after the other (`CopyFile`) beside
running processes, and a restore replaces those it has (`RestoreFile`). The main file is
copied in one step: what changes in it during the copy comes from a checkpoint, whose log
overlays it as long as it is not started afresh. `torn` (log reset or deleted between the
copies) and `mixed` (a process ran during a restore, or a log stayed beside a restored file)
are history.

### Profiles

`own[p]` is `profile_video_state`, `rows` the rows it has, `shared` the columns of `videos`
that are written through, `taste` the channel preferences, `profiles` the rules with both
channel lists. A handler is the list `todo` of its commits: it runs commit by commit, and
a crash drops the rest. `page[c]` is what a device shows; a request acts on what its page
shows, and is followed by reloads whose answers (`answers[c]`) arrive in any order. `Home` is
`/home`: the visible cards under the profile's rules. A request takes effect in one step
with its sending, since a delay between the two shows the page nothing new. Ratings, names,
colours and the PIN's value are left out (a wrong PIN is a refused request); the recommender
is any order, and cards are a set. `disturbed` and `hidden` are history.

### Enrichment

`listed` are the videos and `later` their order by `updated_at`, by which the artwork and
embedding queries take the newest rows; `Touch` is a write that makes rows the latest.
`art` and `emb` are what a row has (nothing, a generated picture or a fetched one; nothing,
an embedding of the metadata or of the transcript). A task (`start`, `sync`, `loop`, and the
requests `Pages` that may be served at once) keeps in `runs[t].rows` what it read before its
await and works through it: `TakeMissing`, then preparation video by video, then storing,
for embeddings; the backfill, what a provider found (`Find`), and a single request for
artwork. `CheckSync` is the gate of a sync, with the flag (`RefreshNetwork`) and the day as
`Day` minutes. A sync that passes lists its feeds (`ListFeeds`), then discovers the videos
of each RSS feed and of the watch folders (`DiscoverRss`, `DiscoverLocal`), which enters
them as if they had no artwork (`found`), then backfills and embeds; `Release` is the end of
its lock, `Fail` an exception that ends any task at any stage. `raced` says on which videos
two tasks were at work at once: `Holds` is what a task is going to write, `Contested` what
another task held, too, since the row was read. Storing the prepared texts is one step: a
death between two of its commits leaves some rows missing, as a failed preparation does. The
refresh in the queue loop behaves as that of the intelligence loop and is the same task.
Sidecar pictures and the order by `downloaded` are left out.

## Runs

| run | instance | what it shows |
|---|---|---|
| `JobQueue_safety` | 2 URLs, 3 jobs, loop and sync, 2 attempts, 2 starts, refused writes | types, claims match tasks, attempt budget, dead letters, duplicates only from pause, bound on parallel tasks |
| `JobQueue_promises` | 2 URLs, 2 priorities, 2 jobs, refused writes, 2 starts | every job settles, and the queue implements `JobLifecycle` |
| `JobQueue_cli` (violation) | server and CLI, 1 job | a CLI command resets a job in progress |
| `BatchDownload_shared` | 1 URL queued as a playlist or as a channel, 1 video, 2 jobs in parallel, crash | a batch two jobs share is neither forked nor left running, nor completed early |
| `BatchDownload_faults` | 1 URL queued as a video or as a playlist, 2 videos, 1 job, refused writes, 2 starts | partial writes, progress, accounted items, a job for every unfinished batch, every batch settles |
| `BatchDownload_catalogue` (violation) | 1 feed, 1 video, 1 job | a completed batch with a video that is not in the library |
| `OfflineCache_safety` | 2 remote videos and a watch-folder file, 2 profiles, merging, reserve, `watched_oldest` | types, catalogue against disk, planner and policy do no more than needed, wanted videos go last |
| `OfflineCache_liveness` | 2 videos, `low_score`, refused deletion, crash, missed archive | the library settles within its limit |
| `ImportOrganizer` | 2 media paths of one name, 2 contents, 1 sidecar, server and CLI, 3 modes, a scan of 2 library files, 2 unusual events | nothing lost, artwork follows, the placed is listed, the dropped gets imported |
| `Backup` | server and CLI, versions 0, 1, 4 and 8, 2 unusual events | starts end on the current schema, backups are snapshots, restores bring them back |
| `Profiles` | 2 devices, 4 profiles, 2 videos of 2 channels, 3 requests or listings, 1 crash | opinions stay apart, derived state has its reason, hiding lasts, half a form shows no more, quiet pages are current |
| `Enrichment` | 3 videos in batches of 2: one that always fails, one of an RSS feed with a thumbnail, one of a watch folder; 3 configurations, 1 unusual event | the gate follows the settings, only races and providers undo work, what can be read is embedded |

**Bounds.** `MaxJobs` rows, `MaxBatches` batches and `MaxStarts` process starts bound the
counters, as guards of the actions that grow them. Two URLs and three jobs are enough for a
duplicate, a dead letter with its retry and a third job in the way; two attempts give one
retry and one exhaustion; two starts one crash in any state; two videos a partial batch.
Symmetry (of URLs) is used in safety runs only, where the properties do not tell URLs apart.
In `OfflineCache` sizes, durations and limits are small units chosen so that one or two
videos fit and the next does not; `MaxFeedback`, `MaxCrashes` and `MaxFlaky` bound votes,
deaths and downloads that miss the archive. Without a missed record the archive keeps an
evicted video from coming back, so one is enough to see it evicted twice. `MaxEvents` and
`MaxUnusual` bound what is not the normal course (late or slow drops, a command line run,
crashes, I/O errors, outages, pages opened): two of them are enough for any pair to meet,
which is what the races need (in `Enrichment`, where start, sync and loop meet without any,
one: a request, an outage, an exception or a crash). With one name for both paths the
imports' library has three names, and `LibraryLimit` is below that; with two contents, both
names of a path are taken when two copies are cut off. `OldVersions` are the
schemas with the statements that cannot simply be repeated still ahead. A day of five
minutes has one window across midnight, one of a single minute and two minutes outside.
`StartLimit`, `BackfillLimit`, `DiscoverLimit` and `BatchSize` stand for the code's 48, 120,
24 and batch size: `StartLimit` and `DiscoverLimit` below the number of videos, so that some
are left to the backfill, and `BatchSize` below it, so that the newest rows keep others out
of a batch, and above the number of those that always fail. The runs without deadlock check
are of systems that may stop: everything imported, watched or migrated and the unusual
events used up.

**Fairness.** Weak fairness of an attempt's end: yt-dlp and the socket have timeouts, and
the loop runs every ready task. Strong fairness of the loop's claim: the loop polls for
ever, and the network need only be up at infinitely many polls. Weak fairness of `Start`:
the service manager restarts the server (`deploy/systemd`), of the clock, and of the
network's return. In `OfflineCache` only the recommendation cycle is fair (its loop catches
every exception and runs again), in `ImportOrganizer` the server's runs, the rest of a
command line run that a user has begun (none has to begin) and the end of a file being
written, in `Enrichment` the steps of sync and loop, and strongly the reading of a text that
can be read, as its source is up at infinitely many attempts; in `Migrations` the server's
start and its statements (`docker-compose.yml` restarts it unless stopped). No fairness for
users, requests, stops or faults.

**Violations.** Each of the two runs checks a sentence of the documentation
against the code; the findings in `PROJECT.json` quote it. `EveryJobSettles` exempts jobs a
refused write stranded, and `NoLostJob` says that only those are left without a task.

**Exceptions that the properties state.** Where the code does not keep what one would wish,
the property says exactly when, and holds with that exception:

* A URL queued again as another type, after its first job was paused or failed, gets two unfinished
  batches: jobs are told apart by URL, batches by URL and type (`OneUnfinishedBatch` is per
  type).
* Clearing dead letters removes also those that were never retried: the batch of such a job
  stays unfinished and nothing but adding the URL again continues it (`UnfinishedHasJob`).
* Pausing a job, adding its URL again and resuming downloads the URL twice
  (`DuplicatesComeFromPause`).
* The policy's query takes the oldest rows up to a limit before it skips the liked ones: as
  many liked rows as the limit keep it from evicting anything (`StorageSettles` is checked
  with as many candidates as rows).
* A merged video's row keeps the name of a part, so its eviction leaves the file
  (`CatalogueMatchesDisk`, `Merging`).
* `PlannerIsFrugal` (in `RunsAreFrugal`) bounds one run: what earlier runs queued counts
  neither as hours nor as bytes, so two runs before a download ends may together exceed the
  limit of `docs/BUNKU_MODE_UI.md`.
* `EvictionSparesTheWanted` protects what the shared row says: any profile's vote overwrites
  `videos.liked`, so a video one profile still likes may be evicted.
* Two imports may find one name free and the second replaces the file of the first; a run
  that reads a file another run takes away deletes what the user has dropped there since; a
  file still being written is cut off when it moves between filesystems (`NothingLost`).
* A file is skipped in every run when both names of its path are taken: the third different
  file dropped at one path, or one whose copies were cut off twice (`EventuallyImported`).
  The scan limit of a run counts files that stay in the folder, so it has to admit them all.
* A crash between placing a media file and its artwork or the scan leaves the artwork in the
  folder and the file unlisted, and in a library larger than the scan's limit a file may
  stay unlisted without any crash (`ArtworkFollows`, `ImportedIsListed`).
* A backup is torn when the log is started afresh between its copies, and a restore under a
  running server, or beside the log of a crashed one, mixes two databases (`BackupIsSnapshot`,
  `RestoreBringsBack`).
* Settings saved from an old page, and listings that name no channel, bring a hidden channel
  back (`HiddenStaysHidden`). Hiding the last allowed channel empties the list of the
  allowed, which then restricts nothing; no property speaks of that.
* Two tasks on the artwork of one video at once replace a fetched thumbnail by a generated
  picture; a provider that lists the video again does so by itself, in every sync with RSS
  feeds; two refreshes of one video at once replace a transcript (`OnlyRacesUndo`). The
  intelligence loop works in forced offline mode too.
* `docs/BUNKU_MODE_UI.md` speaks of evicting unwatched items of low value; the policy takes
  watched ones first, and `EvictionSparesTheWanted` is about the policy's order.

## Proofs

Every theorem holds for any values of the constants within the assumption its module
states. In each proof module `Inv` (or the conjunction named there) is inductive, every
action has a lemma that says it keeps `Inv`, and the properties follow from it.

**Queue.** `JobQueueProofs` proves `TypeCorrect` for any number of processes, and for one
process (`SoloProcess`) the invariant `Inv` and from it `SingleOwner`, `OwnerHoldsClaim`,
`NoLostJob` (together `ClaimsMatchTasks`), `AttemptBudget`, `DeadLettersMatchJobs`,
`DuplicatesComeFromPause` and the action property `SettledForGood`. `SoloProcess` is needed: with
two processes the recovery of one takes the jobs of the other, as `JobQueue_cli` shows.

The properties are not inductive one by one. `OwnerHoldsClaim` is the centre: because a
task's row is processing, no user operation and no claim touches it, so at most one task
has it, the attempts the task compares with the limit are the row's, and a letter is
written with attempts at the limit. `NoLostJob` and the link between `tasks` and running
processes make a start find only rows without tasks; a budget that distinguishes pending
rows (an attempt left for this start) from the others makes `AttemptBudget` inductive;
and letters with ids below `nextLetter` for dead rows only make `DeadLettersMatchJobs`
inductive. Each action has its lemma; `Inductive` joins them.

`InFlightBoundHolds` counts: a claim takes the rows it may by rank, so a run has at most
`MaxParallel` of them, and numbering the tasks of a run pairs all tasks with runs and
numbers. It needs finitely many roles (`IsFiniteSet(Roles)`; the code has two).
`LifecycleImplemented` is the refinement of `JobLifecycle`, action by action: a claim moves
waiting jobs to working, an end of an attempt moves one back or settles it, a start moves
back what was working, and the rest are stutters or moves of waiting jobs. It rests on
`Inv`: a row that is processing has a task, and one task.

**Batches.** `BatchDownloadProofs` proves `BatchSpec => Spec`: what a batch attempt adds (discovery,
items, catalogue, archive, prefixes of writes) leaves the queue's variables alone or
changes them by an action of `JobQueue`. All theorems of `JobQueueProofs` therefore
hold of jobs with batches.

It also proves, for one process (`OneProcess`) and a crash or refusal at any write,
`BatchTypeOK`, `CompletedHasNoPending` and `DoneItemsStay`. Apart from opening a batch and
the recovery at start, every write to the tables is one of four operators (`WithItems`,
`MarkItemsDone`, `Listed`, `Marked`) with a lemma each: it *extends* the table (no row goes,
a done item stays done) and leaves it *clean* (a completed batch has nothing pending).
`Listed` is clean only because `start_or_resume_download_batch` has just set the batch it
lists into to running, and `Marked` as completed only because the pending items were read
after the reconciliation with no await in between, and no other process writes. The
inductive invariant `BatchInv` adds to the types that jobs and letters stay within the
bound, so that every task has a progress record.

`BatchSharingProofs` relates batches to jobs. `OneUnfinishedHolds`
says that a URL has one unfinished batch of a type at most: the invariant `Sharing` is that every
batch of a URL and type but its newest has been completed, which opening keeps because it resumes
the newest unfinished one first. `Attempts` ties together what an attempt knows: the
progress of a task names the batch its job is linked to and what its thread has fetched;
every batch never completed has a job linked to it that is live or paused, or dead with its
letter still there or cleared by the user; a batch that is
running has a task that fetches it; and a done item is in the catalogue, fetched by an
attempt in progress, or lost to a refused write or a stop. From these follow
`UnfinishedHasJob`, `UnfinishedIsShared` and `DoneItemsAccountedFor`.

**Imports.** `ImportOrganizerProofs` proves all safety properties of `ImportOrganizer`:
types, `NothingLost`, `ArtworkFollows` and `ImportedIsListed`. The middle of the invariant
is `Claims`: unless two runs found one name free at the same time (`clashed`), a name
belongs to the one run that aims at it, so what a run replaces is nothing or its own part.
`Opened` says that what a run has open is what its path holds, or was taken away by another
run. `Unlisted` and `Sidecars` say in whose hands everything is that is not yet where it
belongs: a run that has placed a file and will scan, a run that has a file and its artwork.

**Backups and migrations.** `BackupProofs` proves `BackupIsSnapshot`, `RestoreBringsBack` and
types from `FilesInv`: between the two copies, the copied file under the log *as it is now*
is the current database, unless the log was reset (`torn`); a log that may be started afresh
holds nothing that the file has not; and a half-done restore that nothing disturbed means
that all processes are down. `UpgradeInv` gives the safety half of the upgrades: in every
database ever seen what is recorded has been done (`Sound`), a process at a statement has
done all before it that was not recorded when it looked (`Progress`), a pending transaction
only adds (`Grows`), and hence `UpIsCurrentAfterRestore`: a process that is up has the
current schema. It uses facts about the script itself: a version is recorded by its last
statement, and a column is altered only after the check for it. The assumptions are that
old databases have a version the program knows and that `"none"` is not a process.

**Profiles.** `ProfilesProofs` proves all properties of `Profiles`: types, `OpinionsHaveReason`,
`HiddenStaysHidden`, `PartialRulesShowNoMore`, `QuietPageIsCurrent` and the action property
`OthersKeepTheirView`. `SharedRowHasAWitness`
is inductive once the rows are known to be opinions: a like replaces a dislike in the
profile's row and in the shared row in the same transaction, and nothing takes an opinion
back. `TasteHasReason` is not, as it speaks only of the moments between handlers: `TasteInv`
adds that while a preference waits for its commit it is that preference, no longer the
stored one, that has a reason, and `TodoShape` that no other preference can be waiting.
`OthersKeepTheirView` rests on `LeftAlone`: a request of another profile leaves the row
alone, and the rejection in the shared row too unless it is the default profile's own.
The rules add `RulesInv`: what is hidden is blocked also by the list that waits to be
committed, and until the first commit of a form the profile has its old lists, after it a
mixture that shows no more than either. A page is current because the last answer of the
client that acted last is either current or overtaken, and a handler with commits left still
has a reload ahead. The assumptions are that the default profile is not a device's name and
that new profiles have ids of their own.

**Offline cache.** `OfflineCacheProofs` proves all safety properties of `OfflineCache`: types,
`CatalogueMatchesDisk`, `EvictionSparesTheWanted` and `RunsAreFrugal`.

* `DiskInv` adds to `CatalogueMatchesDisk` that what arrives has its file or is torn and
  that what is downloaded has a path. A run evicts the first part, a batch at most, of an
  enumeration of the unspared candidates; when the library fits the query all of it is a
  candidate; and unwanted videos sort before wanted ones by the key alone.
* `RunsAreFrugal` speaks of sums of hours and bytes. They are folds over finite sets:
  `FoldExists` and `FoldStays` show that the fold is a function on the subsets and keeps
  what its step keeps, `TotalRemove`, `TotalSplit` and `TotalOrder` that a sum may be taken
  in any order, splits over two parts of its set and grows with its values. The planner's
  loop is a fold over the positions of the recommendations; `Frugal` says of the plan at
  each turn what was counted for the videos queued so far and that all but the last of them
  left a deficit, and `PlanVideoIsFrugal` that a turn keeps it. `PlanInv`, that sizes are
  recorded of downloaded videos only, carries it over the eviction that comes before the
  plan (a sync) or after it (a recommendation cycle). The proof needs that a planned video
  takes time and bytes, which `plan_once` sees to with a fallback duration and a rate of at
  least 0.2 Mbit/s.
* The types need `TimesOK`: the stamps are without duplicates and an opinion is of a row.
  `Kept` is a recursive function, so `RecursionExists` and `UpTo` come first;
  `WrittenHolds` says that a write leaves one stamp of each row and opinion, and
  `RefreshedHolds` that a refresh writes each row once whichever stamp it was read by.

**Enrichment.** `EnrichmentProofs` proves all safety properties of `Enrichment`: types,
`GateFollowsWindows` and the action property `OnlyRacesUndo`. The invariant is that a task
works on rows of listed videos, each once, and that what it read of a row, unless a provider
found it, is still so as long as no other task has the video, too: what a task does to one
row leaves those behind it as they were read, and what two tasks hold is in `raced`. The
gate's outcome is remembered with the minute it was decided at, and `InWindowIsCovered`
shows that comparing the ends of a window and counting its minutes modulo a day agree for
every window and every length of the day.

Only model-checked: liveness under fairness (`EveryJobSettles`, `EveryBatchSettles`,
`StorageSettles`, `EventuallyImported`, `EventuallyCurrent`, `ReadableGetEmbedded`), which is
outside TLAPS. Every safety property the runs check is stated by a theorem, with two
restrictions: what the queue's invariants say of two processes is neither proved nor
checked, except the types, and the two runs that expect a violation are TLC's.

## Not modelled

Time as a quantity (a delay elapses at some point; the retry delay's arithmetic is left
out, as nothing bounds its result), the text of errors, counters such as
`resumed_runs`, the transport of HTTP, and the contents of files. SQLite is trusted to
make a method's transaction atomic and durable. A thread that outlives a cancelled task
(`asyncio.to_thread` is not cancelled) can still add to the archive, never to the closed
database: the same states arise when the archive record precedes the stop.

The ranking of the recommender and the vectors of the intelligence are floating-point
arithmetic and appear as any order and any text. The search pane of the web interface, its
player and its service worker (its scope, `/bunku/`, does not contain the page `/bunku`),
the reports on mounts, metrics, logging and the parsing of settings and arguments have no
protocol of their own. The steps of a sync are spread over the modules of what they work on,
and the modules on the catalogue are not composed: a video whose file was evicted while its
id stays in the archive, two identifiers of one video (RSS), and a download archive restored
with an older database are therefore outside. The files copied into a backup beside the
database and its log are left out.

## Plan

1. Proofs: what the queue keeps when two processes share it.
2. An abstract cache as the specification of `OfflineCache`; the archive beside evicted
   videos and restored databases.
3. The steps of a sync composed over `OfflineCache` and `Enrichment`.
