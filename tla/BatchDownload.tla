---------------------------- MODULE BatchDownload ----------------------------
(***************************************************************************)
(* The resumable batches of BunkerMedia: a job for a playlist, a channel   *)
(* or the trending feed discovers the feed's videos, records them as items *)
(* of a batch (tables download_batches and download_batch_items), downloads *)
(* them in a thread that ticks items off as files finish, enters the       *)
(* result in the catalogue (videos.downloaded) and settles the batch and   *)
(* the job. Every action here is an action of JobQueue and what the same   *)
(* code does to the batches, the catalogue and the download archive.       *)
(*                                                                         *)
(* One process has the database open (OneProcess): between two awaits its  *)
(* event loop belongs to one task, so that nothing comes between the look  *)
(* for an unfinished batch and its opening, or between the count of the    *)
(* pending items and the batch's status. Only the hook of another task's   *)
(* download thread may, and it just ticks items off. Each Database call    *)
(* commits by itself: a process that dies in between leaves a prefix of    *)
(* the writes (StopWhileSettling), and so does a refused write.            *)
(***************************************************************************)
EXTENDS JobQueue

CONSTANTS
  Targets,      \* what a job downloads its URL as, once "auto" is resolved
  Videos,       \* video ids
  MaxBatches    \* bound: rows of download_batches

ASSUME BatchAssumption == MaxBatches \in Nat

ASSUME OneProcess == \A p, q \in Procs : p = q

VARIABLES
  batches,        \* download_batches with their items: batch b is batches[b]
  batchOf,        \* download_jobs.batch_id, 0 for NULL
  downloaded,     \* the videos with videos.downloaded = 1
  archive,        \* archive.txt, yt-dlp's list of the videos it has
  work,           \* the progress of the task of each job
  completedOnce,  \* history: the batches that have ever been completed
  lost,           \* history: videos an attempt fetched and did not catalogue
  typeOf,         \* download_jobs.target_type, as _process_single_job takes it
  cleared         \* history: the dead jobs whose letter was cleared

userVars == <<typeOf, cleared>>
batchVars == <<batches, batchOf, downloaded, archive, work, completedOnce, lost,
               userVars>>
allVars == <<vars, batchVars>>

BatchStatus == {"queued", "running", "partial", "completed", "failed"}
Resumable == BatchStatus \ {"completed"}

(* A user may queue any URL as any target (cli add --type, the API's         *)
(* target_type); whatever is not "single" downloads in batches.             *)
Target == Targets \union {"single"}
BatchTypes == Targets \ {"single"}

(* No code gives an item the status "failed". "none": no row for the video. *)
Batch == [url : Urls, type : Target, status : BatchStatus,
          items : [Videos -> {"none", "pending", "done"}]]

(* at: where the coroutine is. batch: its local batch_id. cur: the file that *)
(* finished and is not archived yet. got: the entries the call will return. *)
(* seen: the archive as the YoutubeDL object read it.                       *)
Work == [at : {"idle", "discover", "fetch"}, batch : Nat, cur : SUBSET Videos,
         got : SUBSET Videos, seen : SUBSET Videos]

Idle == [at |-> "idle", batch |-> 0, cur |-> {}, got |-> {}, seen |-> {}]

Batches == DOMAIN batches

BatchInit ==
  /\ Init
  /\ batches = << >>
  /\ batchOf = [i \in 1..MaxJobs |-> 0]
  /\ downloaded = {}
  /\ archive = {}
  /\ work = [i \in 1..MaxJobs |-> Idle]
  /\ completedOnce = {}
  /\ lost = {}
  /\ typeOf = [i \in 1..MaxJobs |-> "single"]
  /\ cleared = {}

-----------------------------------------------------------------------------
(* The writes of database.py, as functions of the table.                   *)

ItemsPending(bs, b) == {v \in Videos : b # 0 /\ bs[b].items[v] = "pending"}

WithItems(bs, b, V, s) ==
  [bs EXCEPT ![b].items = [v \in Videos |-> IF v \in V THEN s ELSE @[v]]]

(* mark_batch_item_done updates a row, if there is one.                     *)
MarkItemsDone(bs, b, V) ==
  IF b = 0 THEN bs
  ELSE WithItems(bs, b, {v \in V : bs[b].items[v] # "none"}, "done")

(* Mutant of Listed: the upsert forgets that done items stay done.          *)
ListedAfresh(bs, b, E) == WithItems(bs, b, E, "pending")

(* upsert_download_batch_items: new items are pending, done items stay.     *)
Listed(bs, b, E) ==
  WithItems(bs, b, {v \in E : bs[b].items[v] # "done"}, "pending")

(* reconcile_download_batch: what the catalogue has is done.                *)
Reconciled(bs, b, catalogue) == MarkItemsDone(bs, b, catalogue)

(* mark_download_batch_status                                               *)
Marked(bs, b, s) == [bs EXCEPT ![b].status = s]

(* Mutant of ToResume: only a batch that was interrupted is resumed.        *)
InterruptedBatches(u, k) ==
  {b \in Batches : /\ batches[b].url = u
                   /\ batches[b].type = k
                   /\ batches[b].status \in {"queued", "running"}}

(* The unfinished batches of a URL and a type; the newest is resumed.       *)
ToResume(u, k) ==
  {b \in Batches : /\ batches[b].url = u
                   /\ batches[b].type = k
                   /\ batches[b].status \in Resumable}

-----------------------------------------------------------------------------
(* The operations of JobQueue that leave the batches alone.                *)

UserStepB ==
  /\ \/ \E i \in Ids, p \in Priorities : SetJobPriority(i, p)
     \/ \E i \in Ids : PauseJob(i)
     \/ \E i \in Ids : ResumeJob(i)
  /\ UNCHANGED batchVars

ClockAndNetworkStep ==
  /\ (\E i \in Ids : BackoffElapses(i)) \/ GoOnline \/ GoOffline
  /\ UNCHANGED batchVars

(* queue_download with a target: a URL with a live job keeps that job,      *)
(* whatever target it was queued for.                                      *)
EnqueueAs(u, p, k) ==
  /\ Enqueue(u, p)
  /\ typeOf' = [typeOf EXCEPT ![Len(jobs')] = k]
  /\ UNCHANGED <<batches, batchOf, downloaded, archive, work, completedOnce, lost,
                 cleared>>

(* clear_dead_letter_jobs, retried or not.                                  *)
ClearLetters(retriedOnly) ==
  /\ ClearDeadLetters(retriedOnly)
  /\ cleared' = cleared \union {d.job : d \in deadLetters \ deadLetters'}
  /\ UNCHANGED <<batches, batchOf, downloaded, archive, work, completedOnce, lost,
                 typeOf>>

(* The new job of a dead letter continues the dead job's batch.             *)
RetryLetter(d) ==
  /\ RetryDeadLetter(d)
  /\ batchOf' = IF jobs' = jobs THEN batchOf
                ELSE [batchOf EXCEPT ![Len(jobs')] = batchOf[d.job]]
  /\ typeOf' = IF jobs' = jobs THEN typeOf
               ELSE [typeOf EXCEPT ![Len(jobs')] = typeOf[d.job]]
  /\ UNCHANGED <<batches, downloaded, archive, work, completedOnce, lost, cleared>>

-----------------------------------------------------------------------------
(* One attempt of a job: _process_single_job and Downloader.download_url.  *)

(* A batch's job awaits the discovery first, a single video's the download. *)
ClaimJobs(r) ==
  /\ Claim(r)
  /\ work' = [i \in 1..MaxJobs |->
                IF i \notin Picked THEN work[i]
                ELSE IF typeOf[i] \in BatchTypes
                     THEN [Idle EXCEPT !.at = "discover", !.batch = batchOf[i]]
                     ELSE [Idle EXCEPT !.at = "fetch", !.seen = archive]]
  /\ UNCHANGED <<batches, batchOf, downloaded, archive, completedOnce, lost, userVars>>

(* start_or_resume_download_batch: the newest unfinished batch of the URL   *)
(* and the type, or a new one.                                              *)
BatchFor(t) ==
  LET old == ToResume(jobs[t.job].url, typeOf[t.job])
  IN IF old = {} THEN {Len(batches) + 1}
     ELSE {b \in old : \A c \in old : c <= b}

Opened(t, b) ==
  IF b \in Batches THEN Marked(batches, b, "running")
  ELSE Append(batches, [url |-> jobs[t.job].url, type |-> typeOf[t.job],
                        status |-> "running",
                        items |-> [v \in Videos |-> "none"]])

(* _prepare_batch_download after its await: E is what the feed listed, and  *)
(* the download starts.                                                     *)
Prepare(t, E) ==
  /\ work[t.job].at = "discover"
  /\ \E b \in BatchFor(t) :
       /\ b <= MaxBatches
       /\ batches' = Reconciled(Listed(Opened(t, b), b, E), b, downloaded)
       /\ batchOf' = [batchOf EXCEPT ![t.job] = b]
       /\ work' = [work EXCEPT ![t.job].at = "fetch", ![t.job].batch = b,
                               ![t.job].seen = archive]
  /\ UNCHANGED <<vars, downloaded, archive, completedOnce, lost, userVars>>

(* The progress hook, in the download thread: the file of v is finished.    *)
(* A video that is skipped, archived before or failing just does not finish. *)
FinishFile(t, v) ==
  /\ work[t.job].at = "fetch"
  /\ work[t.job].cur = {}
  /\ v \notin work[t.job].seen \union work[t.job].got
  /\ batches' = MarkItemsDone(batches, work[t.job].batch, {v})
  /\ work' = [work EXCEPT ![t.job].cur = {v}]
  /\ UNCHANGED <<vars, batchOf, downloaded, archive, completedOnce, lost, userVars>>

(* The file is processed, which may fail, and archived if it did not.       *)
EndFile(t, V) ==
  /\ work[t.job].cur # {}
  /\ V \subseteq work[t.job].cur
  /\ archive' = archive \union V
  /\ work' = [work EXCEPT ![t.job].cur = {},
                          ![t.job].got = @ \union work[t.job].cur]
  /\ UNCHANGED <<vars, batches, batchOf, downloaded, completedOnce, lost, userVars>>

(* Mutant of Catalogue: the catalogue is left to the next discovery.        *)
CatalogueNothing(t, G) == downloaded' = downloaded

(* upsert_video and mark_downloaded for the videos of G.                    *)
Catalogue(t, G) == downloaded' = downloaded \union G

(* The batches after the writes for G and the reconciliation.               *)
Settling(t, G) ==
  LET b == work[t.job].batch
  IN Reconciled(MarkItemsDone(batches, b, G), b, downloaded \union G)

Leave(t) ==
  /\ work' = [work EXCEPT ![t.job] = Idle]
  /\ UNCHANGED <<batchOf, archive, userVars>>

AllDone(t, G) == ItemsPending(Settling(t, G), work[t.job].batch) = {}

(* Mutant of Complete: a download that returned completes its batch.        *)
CompleteAtOnce(t) ==
  LET b == work[t.job].batch
      G == work[t.job].got
  IN /\ work[t.job].at = "fetch"
     /\ work[t.job].cur = {}
     /\ Catalogue(t, G)
     /\ batches' = IF b = 0 THEN batches ELSE Marked(Settling(t, G), b, "completed")
     /\ completedOnce' = completedOnce \union ({b} \ {0})
     /\ Succeed(t)
     /\ Leave(t)
     /\ UNCHANGED lost

(* download_url returns what it fetched, and nothing in the batch is left.  *)
(* A single video's job succeeds whatever was fetched (ignoreerrors).       *)
Complete(t) ==
  LET b == work[t.job].batch
      G == work[t.job].got
  IN /\ work[t.job].at = "fetch"
     /\ work[t.job].cur = {}
     /\ Catalogue(t, G)
     /\ AllDone(t, G)
     /\ batches' = IF b = 0 THEN batches ELSE Marked(Settling(t, G), b, "completed")
     /\ completedOnce' = completedOnce \union ({b} \ {0})
     /\ Succeed(t)
     /\ Leave(t)
     /\ UNCHANGED lost

(* Mutant of FailedStatus: the batch gets the status of the job.            *)
JobStatusAfterFailure(t) == IF t.attempts >= MaxAttempts THEN "dead" ELSE "pending"

(* The batch keeps "partial" as long as its job will be tried again.        *)
FailedStatus(t) == IF t.attempts >= MaxAttempts THEN "failed" ELSE "partial"

FailJob(t) == FailAndRequeue(t) \/ FailAndDeadLetter(t)

(* download_url has returned, and the catalogue has all of it.              *)
Returned(t, G) ==
  work[t.job].at = "fetch" /\ work[t.job].cur = {} /\ G = work[t.job].got

(* When the except handler runs: the discovery or the download raised, or   *)
(* the download returned with items left, or after some writes of the       *)
(* catalogue the next one was refused.                                      *)
Raised(t, G) ==
  \/ G = {}
  \/ Returned(t, G) /\ ~AllDone(t, G)
  \/ DbFaults /\ work[t.job].cur = {}

(* The except handler, for the batch the coroutine knows.                   *)
FailAttempt(t, G) ==
  LET w == work[t.job]
  IN /\ Raised(t, G)
     /\ Catalogue(t, G)
     /\ batches' = IF w.batch = 0 THEN batches
                   ELSE Marked(Settling(t, G), w.batch, FailedStatus(t))
     /\ lost' = lost \union (w.got \ G) \union w.cur
     /\ FailJob(t)
     /\ Leave(t)
     /\ UNCHANGED completedOnce

(* A write of _prepare_batch_download is refused after the batch was opened  *)
(* and the items of E were listed: the handler settles the batch of an      *)
(* earlier attempt, if the job had one, and not the batch it opened.        *)
PrepareRefused(t, E) ==
  LET old == work[t.job].batch
      Table(b) == Listed(Opened(t, b), b, E)
  IN /\ DbFaults
     /\ work[t.job].at = "discover"
     /\ \E b \in BatchFor(t) :
          /\ b <= MaxBatches
          /\ batches' = IF old = 0 THEN Table(b)
                        ELSE Marked(Reconciled(Table(b), old, downloaded), old,
                                    FailedStatus(t))
          /\ batchOf' = [batchOf EXCEPT ![t.job] = b]
     /\ work' = [work EXCEPT ![t.job] = Idle]
     /\ FailJob(t)
     /\ UNCHANGED <<downloaded, archive, completedOnce, lost, userVars>>

(* What the writes that settle a batch leave when they stop midway, after   *)
(* the catalogue writes for G.                                              *)
HalfSettled(t, G) ==
  LET b == work[t.job].batch
  IN IF b = 0 THEN {batches}
     ELSE {MarkItemsDone(batches, b, G), Settling(t, G)} \union
          {Marked(Settling(t, G), b, s) : s \in
             (IF Raised(t, G) THEN {FailedStatus(t)} ELSE {}) \union
             (IF ~Returned(t, G) THEN {}
              ELSE IF AllDone(t, G) THEN {"completed"} ELSE {"partial"})}

Interrupt(t, G) ==
  /\ work[t.job].cur = {} \/ G = {}
  /\ Catalogue(t, G)
  /\ batches' \in HalfSettled(t, G)
  /\ completedOnce' = completedOnce \union
                        {b \in Batches : batches'[b].status = "completed"}
  /\ UNCHANGED <<batchOf, archive, userVars>>

(* A write of the handler itself is refused: the row stays processing.      *)
StrandJob(t, G) ==
  /\ BookkeepingFails(t)
  /\ Interrupt(t, G)
  /\ lost' = lost \union (work[t.job].got \ G) \union work[t.job].cur
  /\ work' = [work EXCEPT ![t.job] = Idle]

-----------------------------------------------------------------------------
(* Processes.                                                              *)

JobsOf(p) == {t.job : t \in {s \in tasks : s.runner[1] = p}}

LeaveAll(p, G) ==
  /\ work' = [i \in 1..MaxJobs |-> IF i \in JobsOf(p) THEN Idle ELSE work[i]]
  /\ lost' = lost \union
       ((UNION {work[i].cur \union work[i].got : i \in JobsOf(p)}) \ G)

StopIdle(p) ==
  /\ Stop(p)
  /\ LeaveAll(p, {})
  /\ UNCHANGED <<batches, batchOf, downloaded, archive, completedOnce, userVars>>

(* The process dies between the writes that settle t.                       *)
StopWhileSettling(p, t, G) ==
  /\ Stop(p)
  /\ t.runner[1] = p
  /\ Interrupt(t, G)
  /\ LeaveAll(p, G)

(* It dies between the writes of _prepare_batch_download.                   *)
StopWhilePreparing(p, t, E) ==
  /\ Stop(p)
  /\ t.runner[1] = p
  /\ work[t.job].at = "discover"
  /\ \E b \in BatchFor(t) :
       /\ b <= MaxBatches
       /\ batches' = Listed(Opened(t, b), b, E)
       /\ batchOf' = [batchOf EXCEPT ![t.job] = b]
  /\ LeaveAll(p, {})
  /\ UNCHANGED <<downloaded, archive, completedOnce, userVars>>

(* Mutant of Restart: the batches are not recovered with their jobs.        *)
RestartJobsOnly(p) ==
  /\ Start(p)
  /\ UNCHANGED batchVars

(* The recovery of _recover_inflight_download_state, for the batches.       *)
Restart(p) ==
  /\ Start(p)
  /\ batches' = [b \in Batches |-> IF batches[b].status = "running"
                                    THEN [batches[b] EXCEPT !.status = "queued"]
                                    ELSE batches[b]]
  /\ UNCHANGED <<batchOf, downloaded, archive, work, completedOnce, lost, userVars>>

AttemptStep(t) ==
  \/ \E E \in SUBSET Videos : Prepare(t, E)
  \/ \E v \in Videos : FinishFile(t, v)
  \/ \E V \in SUBSET work[t.job].cur : EndFile(t, V)
  \/ Complete(t)
  \/ \E G \in SUBSET work[t.job].got : FailAttempt(t, G)
  \/ \E E \in SUBSET Videos : PrepareRefused(t, E)
  \/ \E G \in SUBSET work[t.job].got : StrandJob(t, G)

ProcessStep(p) ==
  \/ Restart(p)
  \/ StopIdle(p)
  \/ \E t \in tasks : \E G \in SUBSET work[t.job].got : StopWhileSettling(p, t, G)
  \/ \E t \in tasks : \E E \in SUBSET Videos : StopWhilePreparing(p, t, E)

BatchNext ==
  \/ UserStepB
  \/ \E u \in Urls, p \in Priorities, k \in Targets : EnqueueAs(u, p, k)
  \/ \E b \in BOOLEAN : ClearLetters(b)
  \/ ClockAndNetworkStep
  \/ \E d \in deadLetters : RetryLetter(d)
  \/ \E r \in Runners : ClaimJobs(r)
  \/ \E t \in tasks : AttemptStep(t)
  \/ \E p \in Procs : ProcessStep(p)

BatchSpec == BatchInit /\ [][BatchNext]_allVars

-----------------------------------------------------------------------------
(* Fairness: in addition to that of JobQueue, an attempt ends by itself:    *)
(* discovery, every file and the handler that settles the job.              *)
AttemptOf(i) ==
  \E t \in tasks : t.job = i /\ (\/ \E E \in SUBSET Videos : Prepare(t, E)
                               \/ Complete(t)
                               \/ \E G \in SUBSET work[i].got : FailAttempt(t, G))

BatchFairness ==
  /\ \A p \in Procs : SF_allVars(ClaimJobs(<<p, "loop">>)) /\ WF_allVars(Restart(p))
  /\ \A i \in 1..MaxJobs : /\ WF_allVars(AttemptOf(i))
                          /\ WF_allVars(i \in Ids /\ BackoffElapses(i) /\ UNCHANGED batchVars)
  /\ WF_allVars(GoOnline /\ UNCHANGED batchVars)

BatchFairSpec == BatchSpec /\ BatchFairness

-----------------------------------------------------------------------------
(* Properties.                                                             *)

(* The types of the tables and of the tasks' locals.                       *)
BatchTypeOK ==
  /\ TypeOK
  /\ batches \in Seq(Batch)
  /\ batchOf \in [1..MaxJobs -> Batches \union {0}]
  /\ downloaded \subseteq Videos
  /\ archive \subseteq Videos
  /\ work \in [1..MaxJobs -> Work]
  /\ \A i \in 1..MaxJobs : work[i].batch \in Batches \union {0}
  /\ completedOnce \subseteq Batches
  /\ lost \subseteq Videos
  /\ typeOf \in [1..MaxJobs -> Target]
  /\ cleared \subseteq Nat

Held == WithStatus({"paused", "dead"})

(* A completed batch has no item left to download, whatever the order in    *)
(* which several attempts, restarts and retries worked on it.              *)
CompletedHasNoPending ==
  \A b \in Batches :
    batches[b].status = "completed" => ItemsPending(batches, b) = {}

(* A URL that is downloaded as one type has at most one unfinished batch,   *)
(* apart from batches that were complete before and that a later failure    *)
(* marked unfinished again. Queued as two types it may have one of each.    *)
Unfinished == {b \in Batches \ completedOnce : batches[b].status \in Resumable}
OneUnfinishedBatch ==
  \A a, b \in Unfinished :
    batches[a].url = batches[b].url /\ batches[a].type = batches[b].type => a = b

(* docs/OPERATIONS.md: a batch remains resumable until it is finished or    *)
(* dead-lettered. An unfinished batch has a job that goes on with it: one   *)
(* that is live or paused, or a dead one whose letter is still there to be  *)
(* retried. The exception is a dead job whose letter the user cleared,      *)
(* which clear_dead_letter_jobs does to letters never retried, too.         *)
HasLetter(i) == \E d \in deadLetters : d.job = i
UnfinishedHasJob ==
  \A b \in Unfinished :
    \E i \in Ids :
      /\ batchOf[i] = b
      /\ \/ i \in Live \union WithStatus({"paused"})
         \/ HasLetter(i)
         \/ i \in cleared

(* A batch runs only while a task works on it, except where a write failed. *)
RunningBatchHasTask ==
  (up # {} /\ ~DbFaults) =>
    \A b \in Batches : batches[b].status = "running" =>
      \E t \in tasks : work[t.job].batch = b

(* Several jobs for one URL and type share its unfinished batch instead of  *)
(* forking it, and what says it is running is worked on, also after a crash *)
(* between any two writes (start_or_resume_download_batch, the recovery).   *)
UnfinishedIsShared == OneUnfinishedBatch /\ RunningBatchHasTask

(* An item that is done was downloaded, is about to be entered into the     *)
(* catalogue, or belongs to an attempt that was cut short.                  *)
InProgress == UNION {work[i].cur \union work[i].got : i \in 1..MaxJobs}
DoneItemsAccountedFor ==
  \A b \in Batches, v \in Videos :
    batches[b].items[v] = "done" => v \in downloaded \union lost \union InProgress

(* An item that is done stays done through retries, rediscoveries and       *)
(* restarts: a resumed batch never starts over.                             *)
DoneItemsStay ==
  [][\A b \in Batches, v \in Videos :
       batches[b].items[v] = "done" => batches'[b].items[v] = "done"]_allVars

(* A batch that is unfinished is eventually complete or failed, unless its  *)
(* job is held by the user or stranded by a refused write.                  *)
Settled(b) ==
  \/ batches[b].status \in {"completed", "failed"}
  \/ b \in completedOnce
  \/ \E i \in Held \union stranded : batchOf[i] = b
EveryBatchSettles ==
  \A b \in 1..MaxBatches : (b \in Batches) ~> (b \in Batches /\ Settled(b))

-----------------------------------------------------------------------------
(* Statements of the documentation that the code does not keep.            *)

(* docs/OPERATIONS.md: completed items are reconciled from the local        *)
(* library. The videos of a completed batch are in the catalogue.           *)
CompletedIsCatalogued ==
  \A b \in Batches : batches[b].status = "completed" =>
    \A v \in Videos : batches[b].items[v] = "done" => v \in downloaded

=============================================================================
