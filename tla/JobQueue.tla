------------------------------- MODULE JobQueue -------------------------------
(***************************************************************************)
(* The persistent download queue of BunkerMedia: the tables download_jobs  *)
(* and dead_letter_jobs (database.py), the worker runs that claim jobs and *)
(* settle them (workers.py), the users and feeds that add, pause, resume   *)
(* and reprioritise jobs, and the processes that open the database.        *)
(*                                                                         *)
(* Every Database method takes the connection's lock and commits once, and *)
(* an asyncio task yields only at an await, so a method, and the code from *)
(* one await of _process_single_job to the next, is one atomic action.     *)
(* Jobs are single-video jobs; batch jobs add the state of BatchDownload.  *)
(***************************************************************************)
EXTENDS Integers, Sequences, FiniteSets

CONSTANTS
  Urls,          \* download targets
  Priorities,    \* values of download_jobs.priority
  Procs,         \* operating-system processes that may open the database
  Roles,         \* who runs the queue in a process: its loop, a sync request
  MaxAttempts,   \* config.max_download_attempts
  MaxParallel,   \* config.max_parallel_downloads, at least 1
  DbFaults,      \* may SQLite refuse the write that settles a job?
  MaxJobs,       \* bound: rows of download_jobs
  MaxStarts      \* bound: process starts

ASSUME ConstantsAssumption ==
  /\ Priorities \subseteq Int
  /\ IsFiniteSet(Roles)
  /\ MaxAttempts \in Int
  /\ MaxParallel \in Nat \ {0}
  /\ DbFaults \in BOOLEAN
  /\ MaxJobs \in Nat
  /\ MaxStarts \in Nat

VARIABLES
  jobs,         \* download_jobs: the row with id i is jobs[i]
  deadLetters,  \* dead_letter_jobs: a set of rows
  nextLetter,   \* the next AUTOINCREMENT id of dead_letter_jobs
  up,           \* the processes that have run Service.initialize
  tasks,        \* the _process_single_job coroutines that are in flight
  online,       \* does the network answer, inside the sync window?
  starts,       \* history: number of process starts
  pausedOnce,   \* history: the jobs a user has ever paused
  stranded      \* history: jobs whose settling write failed in this run

vars == <<jobs, deadLetters, nextLetter, up, tasks, online, starts, pausedOnce,
          stranded>>

Runners == Procs \X Roles

Status == {"pending", "processing", "paused", "done", "dead"}

(* due abstracts next_run_at: TRUE for NULL and for a time that has passed. *)
Job == [url : Urls, status : Status, priority : Priorities, attempts : Nat,
        due : BOOLEAN]

DeadLetter == [id : Nat, job : Nat, url : Urls, priority : Priorities,
               attempts : Nat, retried : BOOLEAN]

(* The locals of _process_single_job: the claimed row's id and attempts, the *)
(* queue run that created the task, and whether its gather still awaits it.  *)
Task == [job : Nat, attempts : Nat, runner : Runners, awaited : BOOLEAN]

Ids == DOMAIN jobs
WithStatus(S) == {i \in Ids : jobs[i].status \in S}
Live == WithStatus({"pending", "processing"})
(* Mutant of HasLiveJob: the deduplication overlooks the jobs in progress.   *)
HasPendingJob(u) == \E i \in WithStatus({"pending"}) : jobs[i].url = u
HasLiveJob(u) == \E i \in Live : jobs[i].url = u

(* Mutant of NewJob: the initial status of the batch table.                 *)
NewQueuedJob(u, p) == [url |-> u, status |-> "queued", priority |-> p,
                       attempts |-> 0, due |-> TRUE]

NewJob(u, p) == [url |-> u, status |-> "pending", priority |-> p,
                 attempts |-> 0, due |-> TRUE]

Init ==
  /\ jobs = << >>
  /\ deadLetters = {}
  /\ nextLetter = 1
  /\ up = {}
  /\ tasks = {}
  /\ online = TRUE
  /\ starts = 0
  /\ pausedOnce = {}
  /\ stranded = {}

-----------------------------------------------------------------------------
(* Users, feeds and the planner: the operations on download_jobs.          *)

(* queue_download: a URL with a pending or processing job keeps that job.   *)
Enqueue(u, p) ==
  /\ up # {}
  /\ ~HasLiveJob(u)
  /\ Len(jobs) < MaxJobs
  /\ jobs' = Append(jobs, NewJob(u, p))
  /\ UNCHANGED <<deadLetters, nextLetter, up, tasks, online, starts, pausedOnce,
                 stranded>>

SetJobPriority(i, p) ==
  /\ up # {}
  /\ jobs' = [jobs EXCEPT ![i].priority = p]
  /\ UNCHANGED <<deadLetters, nextLetter, up, tasks, online, starts, pausedOnce,
                 stranded>>

(* Mutant of PauseJob: a job in progress can be paused, too.                *)
PauseLiveJob(i) ==
  /\ up # {}
  /\ i \in Live
  /\ jobs' = [jobs EXCEPT ![i].status = "paused"]
  /\ pausedOnce' = pausedOnce \union {i}
  /\ UNCHANGED <<deadLetters, nextLetter, up, tasks, online, starts, stranded>>

PauseJob(i) ==
  /\ up # {}
  /\ jobs[i].status = "pending"
  /\ jobs' = [jobs EXCEPT ![i].status = "paused"]
  /\ pausedOnce' = pausedOnce \union {i}
  /\ UNCHANGED <<deadLetters, nextLetter, up, tasks, online, starts, stranded>>

ResumeJob(i) ==
  /\ up # {}
  /\ jobs[i].status = "paused"
  /\ jobs' = [jobs EXCEPT ![i].status = "pending"]
  /\ UNCHANGED <<deadLetters, nextLetter, up, tasks, online, starts, pausedOnce,
                 stranded>>

(* Mutant of RetryDeadLetter: the dead row itself is queued again.          *)
RetryInPlace(d) ==
  /\ up # {}
  /\ ~HasLiveJob(d.url)
  /\ deadLetters' = (deadLetters \ {d}) \union {[d EXCEPT !.retried = TRUE]}
  /\ jobs' = [jobs EXCEPT ![d.job].status = "pending"]
  /\ UNCHANGED <<nextLetter, up, tasks, online, starts, pausedOnce, stranded>>

(* retry_dead_letter: the letter's URL gets a new job unless it has a live  *)
(* one; a letter that was retried before may be retried again.              *)
RetryDeadLetter(d) ==
  /\ up # {}
  /\ deadLetters' = (deadLetters \ {d}) \union {[d EXCEPT !.retried = TRUE]}
  /\ \/ /\ HasLiveJob(d.url)
        /\ UNCHANGED jobs
     \/ /\ ~HasLiveJob(d.url)
        /\ Len(jobs) < MaxJobs
        /\ jobs' = Append(jobs, NewJob(d.url, d.priority))
  /\ UNCHANGED <<nextLetter, up, tasks, online, starts, pausedOnce, stranded>>

ClearDeadLetters(retriedOnly) ==
  /\ up # {}
  /\ deadLetters' = {d \in deadLetters : retriedOnly /\ ~d.retried}
  /\ UNCHANGED <<jobs, nextLetter, up, tasks, online, starts, pausedOnce,
                 stranded>>

-----------------------------------------------------------------------------
(* The queue runs of workers.py.                                           *)

(* Mutant of Claimable: the claim forgets status='pending'.                 *)
ClaimableLive == {i \in Live : jobs[i].due}

Claimable == {i \in WithStatus({"pending"}) : jobs[i].due}

(* ORDER BY priority DESC, id ASC *)
Before(i, j) ==
  \/ jobs[i].priority > jobs[j].priority
  \/ jobs[i].priority = jobs[j].priority /\ i < j

Picked == {i \in Claimable :
             Cardinality({j \in Claimable : Before(j, i)}) < MaxParallel}

(* Mutant of Running: the run starts its tasks and does not await them.     *)
RunningUnawaited(r) == FALSE

(* A run is awaited until the gather over its tasks returns.                *)
Running(r) == \E t \in tasks : t.runner = r /\ t.awaited

(* process_download_queue_once up to its gather: the loop calls it again    *)
(* only after it returned, and a sync request holds sync_lock. Its private  *)
(* semaphore has as many permits as the claim has jobs, so no task waits.   *)
Claim(r) ==
  /\ r[1] \in up
  /\ ~Running(r)
  /\ online
  /\ Picked # {}
  /\ jobs' = [i \in Ids |->
                IF i \in Picked
                THEN [jobs[i] EXCEPT !.status = "processing",
                                     !.attempts = @ + 1, !.due = TRUE]
                ELSE jobs[i]]
  /\ tasks' = tasks \union
                {[job |-> i, attempts |-> jobs[i].attempts + 1, runner |-> r,
                  awaited |-> TRUE] : i \in Picked}
  /\ UNCHANGED <<deadLetters, nextLetter, up, online, starts, pausedOnce,
                 stranded>>

(* update_job_status(job_id, "done")                                        *)
Succeed(t) ==
  /\ jobs' = [jobs EXCEPT ![t.job].status = "done", ![t.job].due = TRUE]
  /\ tasks' = tasks \ {t}
  /\ UNCHANGED <<deadLetters, nextLetter, up, online, starts, pausedOnce,
                 stranded>>

(* Mutant of FailAndRequeue: off by one in the comparison with the limit.   *)
FailAndRequeueOnceMore(t) ==
  /\ t.attempts <= MaxAttempts
  /\ jobs' = [jobs EXCEPT ![t.job].status = "pending", ![t.job].due = FALSE]
  /\ tasks' = tasks \ {t}
  /\ UNCHANGED <<deadLetters, nextLetter, up, online, starts, pausedOnce,
                 stranded>>

(* requeue_job_with_backoff: a delay of at least one second.                *)
FailAndRequeue(t) ==
  /\ t.attempts < MaxAttempts
  /\ jobs' = [jobs EXCEPT ![t.job].status = "pending", ![t.job].due = FALSE]
  /\ tasks' = tasks \ {t}
  /\ UNCHANGED <<deadLetters, nextLetter, up, online, starts, pausedOnce,
                 stranded>>

(* dead_letter_job: the letter and the job's status in one transaction.     *)
FailAndDeadLetter(t) ==
  /\ t.attempts >= MaxAttempts
  /\ deadLetters' = deadLetters \union
       {[id |-> nextLetter, job |-> t.job, url |-> jobs[t.job].url,
         priority |-> jobs[t.job].priority, attempts |-> jobs[t.job].attempts,
         retried |-> FALSE]}
  /\ nextLetter' = nextLetter + 1
  /\ jobs' = [jobs EXCEPT ![t.job].status = "dead", ![t.job].due = TRUE]
  /\ tasks' = tasks \ {t}
  /\ UNCHANGED <<up, online, starts, pausedOnce, stranded>>

(* The first write of the except handler is refused (SQLITE_BUSY while      *)
(* another process writes): the exception leaves the task, gather raises it *)
(* to the run at once, and the run's other tasks go on unawaited.           *)
BookkeepingFails(t) ==
  /\ DbFaults
  /\ stranded' = stranded \union {t.job}
  /\ tasks' = {IF t.awaited /\ s.runner = t.runner
               THEN [s EXCEPT !.awaited = FALSE] ELSE s : s \in tasks \ {t}}
  /\ UNCHANGED <<jobs, deadLetters, nextLetter, up, online, starts, pausedOnce>>

-----------------------------------------------------------------------------
(* Processes and the environment.                                          *)

(* Mutant of Start: no recovery of the interrupted jobs.                    *)
StartWithoutRecovery(p) ==
  /\ p \notin up
  /\ up' = up \union {p}
  /\ starts' = starts + 1
  /\ stranded' = {}
  /\ UNCHANGED <<jobs, deadLetters, nextLetter, tasks, online, pausedOnce>>

(* Service.initialize runs _recover_inflight_download_state, in the server  *)
(* and in every CLI command: processing jobs become pending.                *)
Start(p) ==
  /\ p \notin up
  /\ up' = up \union {p}
  /\ starts' = starts + 1
  /\ jobs' = [i \in Ids |-> IF jobs[i].status = "processing"
                            THEN [jobs[i] EXCEPT !.status = "pending"]
                            ELSE jobs[i]]
  /\ stranded' = {}
  /\ UNCHANGED <<deadLetters, nextLetter, tasks, online, pausedOnce>>

(* A crash, a kill, or shutdown: WorkerManager.stop cancels the tasks, and  *)
(* CancelledError passes the except Exception handler, so no row changes.   *)
Stop(p) ==
  /\ p \in up
  /\ starts < MaxStarts
  /\ up' = up \ {p}
  /\ tasks' = {t \in tasks : t.runner[1] # p}
  /\ UNCHANGED <<jobs, deadLetters, nextLetter, online, starts, pausedOnce,
                 stranded>>

(* The wall clock passes a job's next_run_at.                               *)
BackoffElapses(i) ==
  /\ ~jobs[i].due
  /\ jobs' = [jobs EXCEPT ![i].due = TRUE]
  /\ UNCHANGED <<deadLetters, nextLetter, up, tasks, online, starts, pausedOnce,
                 stranded>>

GoOnline ==
  /\ ~online
  /\ online' = TRUE
  /\ UNCHANGED <<jobs, deadLetters, nextLetter, up, tasks, starts, pausedOnce,
                 stranded>>

GoOffline ==
  /\ online
  /\ online' = FALSE
  /\ UNCHANGED <<jobs, deadLetters, nextLetter, up, tasks, starts, pausedOnce,
                 stranded>>

UserStep ==
  \/ \E u \in Urls, p \in Priorities : Enqueue(u, p)
  \/ \E i \in Ids, p \in Priorities : SetJobPriority(i, p)
  \/ \E i \in Ids : PauseJob(i)
  \/ \E i \in Ids : ResumeJob(i)
  \/ \E d \in deadLetters : RetryDeadLetter(d)
  \/ \E b \in BOOLEAN : ClearDeadLetters(b)

Settle(t) == Succeed(t) \/ FailAndRequeue(t) \/ FailAndDeadLetter(t)

WorkerStep ==
  \/ \E r \in Runners : Claim(r)
  \/ \E t \in tasks : Settle(t)
  \/ \E t \in tasks : BookkeepingFails(t)

EnvStep ==
  \/ \E p \in Procs : Start(p)
  \/ \E p \in Procs : Stop(p)
  \/ \E i \in Ids : BackoffElapses(i)
  \/ GoOnline
  \/ GoOffline

Next == UserStep \/ WorkerStep \/ EnvStep

Spec == Init /\ [][Next]_vars

-----------------------------------------------------------------------------
(* Fairness: the event loop runs every ready task and its interval loop, a  *)
(* download attempt ends, a stopped server is started again, clocks move,   *)
(* and the network comes back. A poll is taken while the network is up if   *)
(* it is up at infinitely many polls, hence SF. Users and syncs owe nothing. *)
SettleJob(i) == \E t \in tasks : t.job = i /\ Settle(t)
ElapseJob(i) == i \in Ids /\ BackoffElapses(i)

Fairness ==
  /\ \A p \in Procs : SF_vars(Claim(<<p, "loop">>))
  /\ \A p \in Procs : WF_vars(Start(p))
  /\ \A i \in 1..MaxJobs : WF_vars(SettleJob(i)) /\ WF_vars(ElapseJob(i))
  /\ WF_vars(GoOnline)

FairSpec == Spec /\ Fairness

-----------------------------------------------------------------------------
(* Properties.                                                             *)

(* The types of the tables, of the tasks and of the history.               *)
TypeOK ==
  /\ jobs \in Seq(Job)
  /\ deadLetters \subseteq DeadLetter
  /\ nextLetter \in Nat \ {0}
  /\ up \subseteq Procs
  /\ tasks \subseteq Task
  /\ \A t \in tasks : t.job \in Ids
  /\ online \in BOOLEAN
  /\ starts \in Nat
  /\ pausedOnce \subseteq Nat
  /\ stranded \subseteq Nat

(* No job is downloaded by two tasks at once, although the interval loop    *)
(* and a sync request claim from the same table.                            *)
SingleOwner == \A s, t \in tasks : s.job = t.job => s = t

(* While a task works on a job nobody else changes what its locals say: the *)
(* row is processing with the attempt number the task decides retries by.   *)
OwnerHoldsClaim ==
  \A t \in tasks : /\ jobs[t.job].status = "processing"
                   /\ jobs[t.job].attempts = t.attempts

(* A processing row of a running process is being worked on, except where   *)
(* the write that should have settled it was refused.                       *)
NoLostJob ==
  up # {} => \A i \in WithStatus({"processing"}) :
               i \in stranded \/ \E t \in tasks : t.job = i

(* Claims and processing rows go together, whoever claims, pauses, retries  *)
(* or crashes: one task at most for a row, none for a row that is not       *)
(* processing, and no processing row forgotten.                             *)
ClaimsMatchTasks == SingleOwner /\ OwnerHoldsClaim /\ NoLostJob

(* A job is tried at most MaxAttempts times (once if the limit is below 1), *)
(* plus once for each restart that interrupted it: claiming counts the      *)
(* attempt and a crash does not take it back.                               *)
Allowed == IF MaxAttempts < 1 THEN 1 ELSE MaxAttempts
AttemptBudget == \A i \in Ids : jobs[i].attempts < Allowed + starts

(* A dead letter is the record of a dead job that used up its attempts, and  *)
(* a job leaves at most one.                                                *)
DeadLettersMatchJobs ==
  /\ \A d \in deadLetters : /\ jobs[d.job].status = "dead"
                            /\ d.url = jobs[d.job].url
                            /\ d.attempts = jobs[d.job].attempts
                            /\ d.attempts >= MaxAttempts
  /\ \A c, d \in deadLetters : c.job = d.job => c = d

(* Of two live jobs for one URL, one has been paused: every other way of    *)
(* creating or reviving a job respects the deduplication.                   *)
DuplicatesComeFromPause ==
  \A i, j \in Live :
    jobs[i].url = jobs[j].url => i = j \/ {i, j} \cap pausedOnce # {}

(* The two runs of a process bound its parallel downloads, until a failed   *)
(* write detaches the other tasks of its run.                               *)
InFlightBound ==
  stranded = {} => Cardinality(tasks) <= Cardinality(Runners) * MaxParallel

(* A done or dead job keeps its status and its attempts: no late answer,    *)
(* retry, pause, resume or restart revives it.                              *)
SettledForGood ==
  [][\A i \in WithStatus({"done", "dead"}) :
       /\ jobs'[i].status = jobs[i].status
       /\ jobs'[i].attempts = jobs[i].attempts]_vars

(* A job that is pending or processing is eventually done, dead-lettered,   *)
(* paused by the user, or stranded by a refused write.                      *)
SettledOrHeld(i) == jobs[i].status \in {"done", "dead", "paused"} \/ i \in stranded
EveryJobSettles ==
  \A i \in 1..MaxJobs : (i \in Ids) ~> (i \in Ids /\ SettledOrHeld(i))

-----------------------------------------------------------------------------
(* The queue implements JobLifecycle. A processing row without a task is an *)
(* interrupted attempt: to the abstract queue it already waits again, and   *)
(* the recovery at the next start changes nothing.                         *)
Owned(i) == \E t \in tasks : t.job = i

Phase(i) ==
  IF i \notin Ids THEN "absent"
  ELSE IF Owned(i) THEN "working"
  ELSE IF jobs[i].status \in {"done", "dead"} THEN jobs[i].status
  ELSE "waiting"

Lifecycle == INSTANCE JobLifecycle
  WITH JobIds <- 1..MaxJobs,
       phase <- [i \in 1..MaxJobs |-> Phase(i)],
       held <- WithStatus({"paused"})

(* Every behaviour of the queue is a behaviour of the lifecycle: an attempt *)
(* starts only from a job nobody works on or holds, and ends once.          *)
ImplementsLifecycle == Lifecycle!Spec

-----------------------------------------------------------------------------
(* Statements of the documentation that the code does not keep.            *)

(* docs/OPERATIONS.md: interrupted processing jobs are reset to pending on  *)
(* startup. A job that a task of another process works on is not            *)
(* interrupted.                                                            *)
OnlyInterruptedJobsReset ==
  [][starts' # starts =>
       \A i \in WithStatus({"processing"}) :
         Owned(i) => jobs'[i].status = "processing"]_vars
=============================================================================
