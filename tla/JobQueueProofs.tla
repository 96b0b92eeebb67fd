---------------------------- MODULE JobQueueProofs ----------------------------
(***************************************************************************)
(* Safety of the download queue when one process has the database open, by *)
(* one inductive invariant. Type correctness needs no such restriction.    *)
(* Last, the queue of one process implements JobLifecycle: seen through    *)
(* the mapping of JobQueue (Phase and the paused rows), every behaviour of *)
(* the queue is one of the lifecycle. What the status of a row means to    *)
(* its phase rests on the invariant.                                       *)
(***************************************************************************)
EXTENDS JobQueue, FiniteSetTheorems, TLAPS

(* The server alone, or one CLI command alone.                             *)
SoloProcess == \A p, q \in Procs : p = q

-----------------------------------------------------------------------------
(* Rows of a table kept as a sequence.                                     *)

LEMMA UpdateRows ==
  ASSUME NEW S, NEW s \in Seq(S), NEW f \in [DOMAIN s -> S]
  PROVE  f \in Seq(S) /\ DOMAIN f = DOMAIN s
<1>1. DOMAIN s = 1..Len(s) /\ Len(s) \in Nat
  OBVIOUS
<1> QED
  BY <1>1

LEMMA AddRow ==
  ASSUME NEW S, NEW s \in Seq(S), NEW e \in S
  PROVE  /\ Append(s, e) \in Seq(S)
         /\ DOMAIN Append(s, e) = DOMAIN s \union {Len(s) + 1}
         /\ Len(s) + 1 \notin DOMAIN s
         /\ \A i \in DOMAIN s : Append(s, e)[i] = s[i]
         /\ Append(s, e)[Len(s) + 1] = e
<1>1. DOMAIN s = 1..Len(s) /\ Len(s) \in Nat
  OBVIOUS
<1>2. /\ Append(s, e) \in Seq(S)
      /\ Len(Append(s, e)) = Len(s) + 1
      /\ \A i \in 1..Len(s) : Append(s, e)[i] = s[i]
      /\ Append(s, e)[Len(s) + 1] = e
  OBVIOUS
<1>3. DOMAIN Append(s, e) = 1..(Len(s) + 1)
  BY <1>2
<1> QED
  BY <1>1, <1>2, <1>3

-----------------------------------------------------------------------------
(* Types. Every action gives jobs a value whose rows keep their ids; the    *)
(* other conjuncts of TypeOK are then read off the action.                  *)

LEMMA NewJobType ==
  ASSUME NEW u \in Urls, NEW p \in Priorities
  PROVE  NewJob(u, p) \in Job
BY DEF NewJob, Job, Status

LEMMA RowTypes ==
  ASSUME TypeOK
  PROVE  /\ Ids \subseteq Nat
         /\ \A i \in Ids :
              /\ jobs[i] \in Job
              /\ jobs[i].url \in Urls
              /\ jobs[i].status \in Status
              /\ jobs[i].priority \in Priorities
              /\ jobs[i].attempts \in Nat
              /\ jobs[i].due \in BOOLEAN
<1>1. \A i \in Ids : i \in Nat /\ jobs[i] \in Job
  BY DEF TypeOK, Ids
<1> QED
  BY <1>1 DEF Job

LEMMA UserTypes ==
  ASSUME TypeOK, UserStep
  PROVE  TypeOK'
<1> USE DEF TypeOK
<1>1. ASSUME NEW u \in Urls, NEW p \in Priorities, Enqueue(u, p)
      PROVE  TypeOK'
  <2>1. jobs' \in Seq(Job) /\ Ids \subseteq Ids'
    BY <1>1, AddRow, NewJobType DEF Enqueue, Ids
  <2> QED
    BY <1>1, <2>1 DEF Enqueue, Ids
<1>2. ASSUME NEW i \in Ids, NEW p \in Priorities, SetJobPriority(i, p)
      PROVE  TypeOK'
  <2>1. jobs' \in [Ids -> Job]
    BY <1>2, RowTypes DEF SetJobPriority, Job, Ids
  <2>2. jobs' \in Seq(Job) /\ Ids' = Ids
    BY <2>1, UpdateRows DEF Ids
  <2> QED
    BY <1>2, <2>2 DEF SetJobPriority, Ids
<1>3. ASSUME NEW i \in Ids, PauseJob(i)
      PROVE  TypeOK'
  <2>1. jobs' \in [Ids -> Job] /\ i \in Nat
    BY <1>3, RowTypes DEF PauseJob, Job, Status, Ids
  <2>2. jobs' \in Seq(Job) /\ Ids' = Ids
    BY <2>1, UpdateRows DEF Ids
  <2> QED
    BY <1>3, <2>1, <2>2 DEF PauseJob, Ids
<1>4. ASSUME NEW i \in Ids, ResumeJob(i)
      PROVE  TypeOK'
  <2>1. jobs' \in [Ids -> Job]
    BY <1>4, RowTypes, SMTT(30) DEF ResumeJob, Job, Status, Ids
  <2>2. jobs' \in Seq(Job) /\ Ids' = Ids
    BY <2>1, UpdateRows DEF Ids
  <2> QED
    BY <1>4, <2>2 DEF ResumeJob, Ids
<1>5. ASSUME NEW d \in deadLetters, RetryDeadLetter(d)
      PROVE  TypeOK'
  <2>1. d \in DeadLetter /\ [d EXCEPT !.retried = TRUE] \in DeadLetter
    BY DEF DeadLetter
  <2>2. jobs' \in Seq(Job) /\ Ids \subseteq Ids'
    <3>1. CASE UNCHANGED jobs
      BY <3>1 DEF Ids
    <3>2. CASE jobs' = Append(jobs, NewJob(d.url, d.priority))
      <4>1. d.url \in Urls /\ d.priority \in Priorities
        BY <2>1 DEF DeadLetter
      <4> QED
        BY <3>2, <4>1, AddRow, NewJobType DEF Ids
    <3> QED
      BY <1>5, <3>1, <3>2 DEF RetryDeadLetter
  <2> QED
    BY <1>5, <2>1, <2>2 DEF RetryDeadLetter, Ids
<1>6. ASSUME NEW b \in BOOLEAN, ClearDeadLetters(b)
      PROVE  TypeOK'
  BY <1>6 DEF ClearDeadLetters, Ids
<1> QED
  BY <1>1, <1>2, <1>3, <1>4, <1>5, <1>6 DEF UserStep

LEMMA ClaimRows ==
  ASSUME TypeOK, NEW r \in Runners, Claim(r)
  PROVE  /\ jobs' \in Seq(Job)
         /\ Ids' = Ids
         /\ Picked \subseteq Claimable
         /\ Picked \subseteq WithStatus({"pending"})
         /\ \A i \in Ids :
              IF i \in Picked
              THEN /\ jobs'[i].status = "processing"
                   /\ jobs'[i].attempts = jobs[i].attempts + 1
                   /\ jobs'[i].url = jobs[i].url
              ELSE jobs'[i] = jobs[i]
<1>1. Picked \subseteq Claimable /\ Claimable \subseteq WithStatus({"pending"})
  BY DEF Picked, Claimable
<1> DEFINE Claimed(i) == [jobs[i] EXCEPT !.status = "processing",
                                         !.attempts = @ + 1, !.due = TRUE]
<1>2. \A i \in Ids : /\ Claimed(i) \in Job
                     /\ Claimed(i).status = "processing"
                     /\ Claimed(i).attempts = jobs[i].attempts + 1
                     /\ Claimed(i).url = jobs[i].url
  <2> SUFFICES ASSUME NEW i \in Ids
               PROVE  /\ Claimed(i) \in Job
                      /\ Claimed(i).status = "processing"
                      /\ Claimed(i).attempts = jobs[i].attempts + 1
                      /\ Claimed(i).url = jobs[i].url
    OBVIOUS
  <2>1. jobs[i] \in Job /\ jobs[i].attempts + 1 \in Nat
    BY RowTypes
  <2> QED
    BY <2>1 DEF Job, Status
<1>3. jobs' = [i \in Ids |-> IF i \in Picked THEN Claimed(i) ELSE jobs[i]]
  BY DEF Claim
<1> HIDE DEF Claimed
<1>4. jobs' \in [Ids -> Job]
  BY <1>2, <1>3, RowTypes
<1>5. jobs' \in Seq(Job) /\ Ids' = Ids
  BY <1>4, UpdateRows DEF Ids, TypeOK
<1> QED
  BY <1>1, <1>2, <1>3, <1>5

LEMMA WorkerTypes ==
  ASSUME TypeOK, WorkerStep
  PROVE  TypeOK'
<1>1. ASSUME NEW r \in Runners, Claim(r)
      PROVE  TypeOK'
  <2>1. \A i \in Picked : /\ i \in Ids
                          /\ [job |-> i, attempts |-> jobs[i].attempts + 1,
                              runner |-> r, awaited |-> TRUE] \in Task
    BY <1>1, ClaimRows, RowTypes DEF Task, WithStatus
  <2>2. \A t \in tasks' : t \in Task /\ t.job \in Ids
    <3>1. ASSUME NEW t \in tasks'
          PROVE  t \in tasks \/ \E i \in Picked :
                   t = [job |-> i, attempts |-> jobs[i].attempts + 1,
                        runner |-> r, awaited |-> TRUE]
      BY <1>1, <3>1, Zenon DEF Claim
    <3> QED
      BY <2>1, <3>1 DEF TypeOK
  <2>3. jobs' \in Seq(Job) /\ Ids' = Ids
    BY <1>1, ClaimRows
  <2>4. UNCHANGED <<deadLetters, nextLetter, up, online, starts, pausedOnce,
                    stranded>>
    BY <1>1 DEF Claim
  <2>5. /\ tasks' \subseteq Task
        /\ \A t \in tasks' : t.job \in Ids'
    <3>1. \A t \in tasks' : t \in Task /\ t.job \in Ids'
      BY <2>2, <2>3, Zenon
    <3> QED
      BY <3>1, Zenon
  <2> QED
    BY <2>3, <2>4, <2>5, Zenon DEF TypeOK
<1>2. ASSUME NEW t \in tasks, Succeed(t)
      PROVE  TypeOK'
  <2>1. jobs' \in [Ids -> Job]
    BY <1>2, RowTypes, SMTT(30) DEF Succeed, Job, Status, Ids, TypeOK
  <2>2. jobs' \in Seq(Job) /\ Ids' = Ids
    BY <2>1, UpdateRows DEF Ids, TypeOK
  <2> QED
    BY <1>2, <2>2 DEF Succeed, TypeOK
<1>3. ASSUME NEW t \in tasks, FailAndRequeue(t)
      PROVE  TypeOK'
  <2>1. jobs' \in [Ids -> Job]
    BY <1>3, RowTypes, SMTT(30) DEF FailAndRequeue, Job, Status, Ids, TypeOK
  <2>2. jobs' \in Seq(Job) /\ Ids' = Ids
    BY <2>1, UpdateRows DEF Ids, TypeOK
  <2> QED
    BY <1>3, <2>2 DEF FailAndRequeue, TypeOK
<1>4. ASSUME NEW t \in tasks, FailAndDeadLetter(t)
      PROVE  TypeOK'
  <2>1. jobs' \in [Ids -> Job]
    <3> DEFINE r == [jobs[t.job] EXCEPT !.status = "dead", !.due = TRUE]
    <3>1. t.job \in Ids /\ jobs[t.job] \in Job /\ jobs \in [Ids -> Job]
      BY RowTypes DEF TypeOK, Ids
    <3>2. r \in Job
      BY <3>1 DEF Job, Status
    <3>3. jobs' = [jobs EXCEPT ![t.job] = r]
      BY <1>4 DEF FailAndDeadLetter
    <3> HIDE DEF r
    <3> QED
      BY <3>1, <3>2, <3>3
  <2>2. jobs' \in Seq(Job) /\ Ids' = Ids
    BY <2>1, UpdateRows DEF Ids, TypeOK
  <2>3. t.job \in Ids /\ t.job \in Nat
    BY RowTypes DEF TypeOK
  <2>4. [id |-> nextLetter, job |-> t.job, url |-> jobs[t.job].url,
         priority |-> jobs[t.job].priority,
         attempts |-> jobs[t.job].attempts, retried |-> FALSE] \in DeadLetter
    BY <2>3, RowTypes DEF DeadLetter, TypeOK
  <2>5. deadLetters' \subseteq DeadLetter
    BY <1>4, <2>4, Zenon DEF FailAndDeadLetter, TypeOK
  <2>6. nextLetter' \in Nat \ {0}
    BY <1>4 DEF FailAndDeadLetter, TypeOK
  <2>7. /\ tasks' \subseteq tasks
        /\ UNCHANGED <<up, online, starts, pausedOnce, stranded>>
    BY <1>4 DEF FailAndDeadLetter
  <2> QED
    BY <2>2, <2>5, <2>6, <2>7 DEF TypeOK
<1>5. ASSUME NEW t \in tasks, BookkeepingFails(t)
      PROVE  TypeOK'
  <2>1. t.job \in Nat
    BY RowTypes DEF TypeOK
  <2>2. \A s \in tasks : /\ s \in Task
                         /\ [s EXCEPT !.awaited = FALSE] \in Task
                         /\ [s EXCEPT !.awaited = FALSE].job = s.job
    BY DEF TypeOK, Task
  <2>3. \A s \in tasks' : s \in Task /\ s.job \in Ids
    BY <1>5, <2>2 DEF BookkeepingFails, TypeOK
  <2> QED
    BY <1>5, <2>1, <2>3 DEF BookkeepingFails, TypeOK, Ids
<1> QED
  BY <1>1, <1>2, <1>3, <1>4, <1>5 DEF WorkerStep, Settle

LEMMA EnvTypes ==
  ASSUME TypeOK, EnvStep
  PROVE  TypeOK'
<1>1. ASSUME NEW p \in Procs, Start(p)
      PROVE  TypeOK'
  <2>1. jobs' \in [Ids -> Job]
    BY <1>1, RowTypes DEF Start, Job, Status
  <2>2. jobs' \in Seq(Job) /\ Ids' = Ids
    BY <2>1, UpdateRows DEF Ids, TypeOK
  <2> QED
    BY <1>1, <2>2 DEF Start, TypeOK
<1>2. ASSUME NEW p \in Procs, Stop(p)
      PROVE  TypeOK'
  BY <1>2 DEF Stop, TypeOK, Ids
<1>3. ASSUME NEW i \in Ids, BackoffElapses(i)
      PROVE  TypeOK'
  <2>1. jobs' \in [Ids -> Job]
    BY <1>3, RowTypes DEF BackoffElapses, Job, Ids, TypeOK
  <2>2. jobs' \in Seq(Job) /\ Ids' = Ids
    BY <2>1, UpdateRows DEF Ids, TypeOK
  <2> QED
    BY <1>3, <2>2 DEF BackoffElapses, TypeOK
<1>4. CASE GoOnline
  BY <1>4 DEF GoOnline, TypeOK, Ids
<1>5. CASE GoOffline
  BY <1>5 DEF GoOffline, TypeOK, Ids
<1> QED
  BY <1>1, <1>2, <1>3, <1>4, <1>5 DEF EnvStep

LEMMA StepTypes ==
  ASSUME TypeOK, [Next]_vars
  PROVE  TypeOK'
<1>1. CASE UNCHANGED vars
  BY <1>1 DEF vars, TypeOK, Ids
<1> QED
  BY <1>1, UserTypes, WorkerTypes, EnvTypes DEF Next

(* The tables, the tasks and the history variables keep their types.        *)
THEOREM TypeCorrect == Spec => []TypeOK
<1>1. Init => TypeOK
  BY DEF Init, TypeOK, Ids
<1>2. TypeOK /\ [Next]_vars => TypeOK'
  BY StepTypes
<1> QED
  BY <1>1, <1>2, PTL DEF Spec

-----------------------------------------------------------------------------
(* The inductive invariant. The claim a task holds is what every other part *)
(* rests on: nobody but the task moves a processing row, so each part says  *)
(* what the tasks, the letters and the history know of the rows.            *)

(* Tasks die with their process.                                           *)
TasksOfUp == \A t \in tasks : t.runner[1] \in up

(* A row that may be claimed has an attempt left in the budget; before the  *)
(* first start there are no rows.                                          *)
Budget ==
  /\ \A i \in Ids : /\ jobs[i].attempts < Allowed + starts
                    /\ jobs[i].status \in {"pending", "paused"} =>
                         jobs[i].attempts + 1 < Allowed + starts
  /\ up # {} => starts > 0

(* Letters name rows of the table.                                         *)
LettersOfJobs == \A d \in deadLetters : d.job \in Ids

(* The history knows the paused rows.                                      *)
PausedKnown == WithStatus({"paused"}) \subseteq pausedOnce

Inv ==
  /\ TypeOK
  /\ TasksOfUp
  /\ SingleOwner
  /\ OwnerHoldsClaim
  /\ NoLostJob
  /\ Budget
  /\ LettersOfJobs
  /\ DeadLettersMatchJobs
  /\ PausedKnown
  /\ DuplicatesComeFromPause

(* What the invariant reads of a row.                                      *)
SameRow(i) ==
  /\ jobs'[i].url = jobs[i].url
  /\ jobs'[i].status = jobs[i].status
  /\ jobs'[i].attempts = jobs[i].attempts

(* Steps that change neither these nor the tasks: the clock, the network,   *)
(* priorities, and clearing letters.                                       *)
LEMMA QuietStep ==
  ASSUME Inv, TypeOK', Ids' = Ids, \A i \in Ids : SameRow(i),
         deadLetters' \subseteq deadLetters,
         UNCHANGED <<up, tasks, starts, pausedOnce, stranded>>
  PROVE  Inv'
<1> USE DEF Inv, SameRow
<1>1. TasksOfUp'
  BY DEF TasksOfUp
<1>2. SingleOwner' /\ OwnerHoldsClaim'
  BY DEF SingleOwner, OwnerHoldsClaim, TypeOK
<1>3. NoLostJob'
  BY DEF NoLostJob, WithStatus
<1>4. Budget'
  BY DEF Budget, Allowed
<1>5. LettersOfJobs' /\ DeadLettersMatchJobs'
  BY DEF LettersOfJobs, DeadLettersMatchJobs
<1>6. PausedKnown' /\ DuplicatesComeFromPause'
  BY DEF PausedKnown, DuplicatesComeFromPause, Live, WithStatus
<1> QED
  BY <1>1, <1>2, <1>3, <1>4, <1>5, <1>6

(* A row moves between pending and paused.                                 *)
LEMMA HoldStep ==
  ASSUME Inv, TypeOK', NEW i \in Ids, PauseJob(i) \/ ResumeJob(i)
  PROVE  Inv'
<1> USE DEF Inv
<1>1. /\ Ids' = Ids
      /\ \A k \in Ids \ {i} : jobs'[k] = jobs[k]
      /\ jobs'[i].url = jobs[i].url /\ jobs'[i].attempts = jobs[i].attempts
      /\ jobs[i].status \in {"pending", "paused"}
      /\ jobs'[i].status \in {"pending", "paused"}
      /\ jobs'[i].status = "paused" => i \in pausedOnce'
      /\ jobs[i].status = "paused" => i \in pausedOnce
      /\ pausedOnce \subseteq pausedOnce'
      /\ jobs'[i].status = "pending" => jobs[i].status = "paused"
  <2>1. jobs[i] \in Job
    BY RowTypes
  <2>2. jobs \in [Ids -> Job]
    BY RowTypes DEF Ids, TypeOK
  <2>3. jobs[i].status = "paused" => i \in pausedOnce
    BY DEF PausedKnown, WithStatus
  <2> QED
    BY <2>1, <2>2, <2>3 DEF PauseJob, ResumeJob, Job, Ids
<1>2. UNCHANGED <<deadLetters, up, tasks, starts, stranded>>
  BY DEF PauseJob, ResumeJob
<1>3. TasksOfUp' /\ SingleOwner'
  BY <1>2 DEF TasksOfUp, SingleOwner
<1>4. OwnerHoldsClaim'
  BY <1>1, <1>2 DEF OwnerHoldsClaim, TypeOK
<1>5. NoLostJob'
  BY <1>1, <1>2 DEF NoLostJob, WithStatus
<1>6. Budget'
  BY <1>1, <1>2 DEF Budget, Allowed
<1>7. LettersOfJobs' /\ DeadLettersMatchJobs'
  BY <1>1, <1>2 DEF LettersOfJobs, DeadLettersMatchJobs
<1>8. PausedKnown'
  BY <1>1 DEF PausedKnown, WithStatus
<1>9. DuplicatesComeFromPause'
  BY <1>1 DEF DuplicatesComeFromPause, PausedKnown, Live, WithStatus
<1> QED
  BY <1>3, <1>4, <1>5, <1>6, <1>7, <1>8, <1>9

(* A new pending row for a URL without a live one; letters may be marked.   *)
LEMMA AddStep ==
  ASSUME Inv, TypeOK', NEW u \in Urls, NEW p \in Priorities,
         up # {}, ~HasLiveJob(u), jobs' = Append(jobs, NewJob(u, p)),
         UNCHANGED <<up, tasks, starts, pausedOnce, stranded>>
  PROVE  /\ TasksOfUp' /\ SingleOwner' /\ OwnerHoldsClaim' /\ NoLostJob'
         /\ Budget' /\ PausedKnown' /\ DuplicatesComeFromPause'
         /\ Ids \subseteq Ids' /\ \A i \in Ids : jobs'[i] = jobs[i]
<1> USE DEF Inv
<1> DEFINE n == Len(jobs) + 1
<1>1. /\ Ids' = Ids \union {n}
      /\ n \notin Ids
      /\ \A i \in Ids : jobs'[i] = jobs[i]
      /\ jobs'[n] = NewJob(u, p)
  BY AddRow, NewJobType DEF Ids, TypeOK
<1>2. /\ jobs'[n].url = u
      /\ jobs'[n].status = "pending"
      /\ jobs'[n].attempts = 0
  BY <1>1 DEF NewJob
<1> HIDE DEF n
<1>3. TasksOfUp' /\ SingleOwner'
  BY DEF TasksOfUp, SingleOwner
<1>4. OwnerHoldsClaim'
  BY <1>1 DEF OwnerHoldsClaim, TypeOK
<1>5. NoLostJob'
  BY <1>1, <1>2 DEF NoLostJob, WithStatus
<1>6. Budget'
  <2>1. Allowed \in Nat /\ Allowed >= 1 /\ Allowed' = Allowed
    BY ConstantsAssumption DEF Allowed
  <2>2. starts \in Nat /\ starts > 0
    BY DEF Budget, TypeOK
  <2>3. 0 < Allowed + starts /\ 0 + 1 < Allowed + starts
    BY <2>1, <2>2
  <2> QED
    BY <1>1, <1>2, <2>1, <2>3 DEF Budget
<1>7. PausedKnown'
  BY <1>1, <1>2 DEF PausedKnown, WithStatus
<1>8. DuplicatesComeFromPause'
  <2>1. \A i \in Live' : i \in Live \/ i = n
    BY <1>1 DEF Live, WithStatus
  <2>2. \A i \in Live : i \in Ids /\ jobs[i].url # u
    BY DEF HasLiveJob, Live, WithStatus
  <2>3. \A i \in Live : jobs'[i].url = jobs[i].url /\ jobs'[i].url # u
    BY <1>1, <2>2
  <2>4. \A i, j \in Live :
          jobs'[i].url = jobs'[j].url => i = j \/ {i, j} \cap pausedOnce' # {}
    BY <2>3 DEF DuplicatesComeFromPause
  <2> QED
    BY <1>2, <2>1, <2>3, <2>4 DEF DuplicatesComeFromPause
<1> QED
  BY <1>1, <1>3, <1>4, <1>5, <1>6, <1>7, <1>8

LEMMA UserInv ==
  ASSUME Inv, TypeOK', UserStep
  PROVE  Inv'
<1> USE DEF Inv
<1>1. ASSUME NEW u \in Urls, NEW p \in Priorities, Enqueue(u, p)
      PROVE  Inv'
  <2>1. /\ up # {} /\ ~HasLiveJob(u) /\ jobs' = Append(jobs, NewJob(u, p))
        /\ UNCHANGED <<up, tasks, starts, pausedOnce, stranded, deadLetters>>
    BY <1>1 DEF Enqueue
  <2>2. /\ TasksOfUp' /\ SingleOwner' /\ OwnerHoldsClaim' /\ NoLostJob'
        /\ Budget' /\ PausedKnown' /\ DuplicatesComeFromPause'
        /\ Ids \subseteq Ids' /\ \A i \in Ids : jobs'[i] = jobs[i]
    BY <2>1, AddStep
  <2>3. LettersOfJobs' /\ DeadLettersMatchJobs'
    BY <2>1, <2>2 DEF LettersOfJobs, DeadLettersMatchJobs
  <2> QED
    BY <2>2, <2>3
<1>2. ASSUME NEW i \in Ids, NEW p \in Priorities, SetJobPriority(i, p)
      PROVE  Inv'
  <2>1. Ids' = Ids /\ \A k \in Ids : SameRow(k)
    BY <1>2, RowTypes DEF SetJobPriority, SameRow, Ids, Job
  <2> QED
    BY <1>2, <2>1, QuietStep DEF SetJobPriority
<1>3. ASSUME NEW i \in Ids, PauseJob(i) \/ ResumeJob(i)
      PROVE  Inv'
  BY <1>3, HoldStep
<1>4. ASSUME NEW d \in deadLetters, RetryDeadLetter(d)
      PROVE  Inv'
  <2> DEFINE marked == [d EXCEPT !.retried = TRUE]
  <2>1. /\ marked.job = d.job /\ marked.url = d.url
        /\ marked.attempts = d.attempts
        /\ d.url \in Urls /\ d.priority \in Priorities
    BY DEF TypeOK, DeadLetter
  <2>2. /\ deadLetters' = (deadLetters \ {d}) \union {marked}
        /\ UNCHANGED <<up, tasks, starts, pausedOnce, stranded>>
        /\ up # {}
    BY <1>4 DEF RetryDeadLetter
  <2> HIDE DEF marked
  <2>3. /\ TasksOfUp' /\ SingleOwner' /\ OwnerHoldsClaim' /\ NoLostJob'
        /\ Budget' /\ PausedKnown' /\ DuplicatesComeFromPause'
        /\ Ids \subseteq Ids' /\ \A i \in Ids : jobs'[i] = jobs[i]
    <3>1. CASE ~HasLiveJob(d.url) /\ jobs' = Append(jobs, NewJob(d.url, d.priority))
      BY <2>1, <2>2, <3>1, AddStep
    <3>2. CASE UNCHANGED jobs
      BY <2>2, <3>2
         DEF TasksOfUp, SingleOwner, OwnerHoldsClaim, NoLostJob, Budget,
             Allowed, PausedKnown, DuplicatesComeFromPause, Live, WithStatus, Ids
    <3> QED
      BY <1>4, <3>1, <3>2 DEF RetryDeadLetter
  <2>4. LettersOfJobs' /\ DeadLettersMatchJobs'
    BY <2>1, <2>2, <2>3 DEF LettersOfJobs, DeadLettersMatchJobs
  <2> QED
    BY <2>3, <2>4
<1>5. ASSUME NEW b \in BOOLEAN, ClearDeadLetters(b)
      PROVE  Inv'
  <2>1. Ids' = Ids /\ \A k \in Ids : SameRow(k)
    BY <1>5 DEF ClearDeadLetters, SameRow, Ids
  <2> QED
    BY <1>5, <2>1, QuietStep DEF ClearDeadLetters
<1> QED
  BY <1>1, <1>2, <1>3, <1>4, <1>5 DEF UserStep

(* A claim takes rows that no task holds and gives each one task.           *)
LEMMA ClaimInv ==
  ASSUME Inv, TypeOK', NEW r \in Runners, Claim(r)
  PROVE  Inv'
<1> USE DEF Inv
<1>1. /\ Ids' = Ids
      /\ Picked \subseteq Ids
      /\ \A i \in Picked : /\ jobs[i].status = "pending"
                           /\ jobs'[i].status = "processing"
                           /\ jobs'[i].attempts = jobs[i].attempts + 1
                           /\ jobs'[i].url = jobs[i].url
      /\ \A i \in Ids \ Picked : jobs'[i] = jobs[i]
  BY ClaimRows DEF WithStatus
<1>2. /\ UNCHANGED <<deadLetters, up, starts, pausedOnce, stranded>>
      /\ r[1] \in up
  BY DEF Claim
<1> DEFINE new(i) == [job |-> i, attempts |-> jobs[i].attempts + 1,
                      runner |-> r, awaited |-> TRUE]
<1>3. tasks' = tasks \union {new(i) : i \in Picked}
  BY DEF Claim
<1>4. \A i \in Picked : /\ new(i) \in tasks'
                        /\ new(i).job = i
                        /\ new(i).attempts = jobs[i].attempts + 1
                        /\ new(i).runner = r
  BY <1>3
<1> HIDE DEF new
<1>5. \A t \in tasks' : t \in tasks \/ \E i \in Picked : t = new(i)
  BY <1>3, Zenon
<1>6. \A t \in tasks : t \in tasks' /\ t.job \in Ids \ Picked
  BY <1>1, <1>3 DEF OwnerHoldsClaim, TypeOK
<1>7. TasksOfUp'
  BY <1>2, <1>4, <1>5 DEF TasksOfUp
<1>8. SingleOwner'
  BY <1>4, <1>5, <1>6 DEF SingleOwner
<1>9. OwnerHoldsClaim'
  BY <1>1, <1>4, <1>5, <1>6 DEF OwnerHoldsClaim
<1>10. NoLostJob'
  BY <1>1, <1>2, <1>4, <1>6 DEF NoLostJob, WithStatus
<1>11. Budget'
  BY <1>1, <1>2 DEF Budget, Allowed
<1>12. LettersOfJobs' /\ DeadLettersMatchJobs'
  BY <1>1, <1>2 DEF LettersOfJobs, DeadLettersMatchJobs
<1>13. PausedKnown'
  BY <1>1, <1>2 DEF PausedKnown, WithStatus
<1>14. DuplicatesComeFromPause'
  BY <1>1, <1>2 DEF DuplicatesComeFromPause, Live, WithStatus
<1> QED
  BY <1>7, <1>8, <1>9, <1>10, <1>11, <1>12, <1>13, <1>14

(* A task settles: its own row, which it holds, leaves processing, and the  *)
(* task is gone.                                                           *)
LEMMA SettleInv ==
  ASSUME Inv, TypeOK', NEW t \in tasks, Settle(t)
  PROVE  Inv'
<1> USE DEF Inv
<1> DEFINE j == t.job
<1>1. /\ j \in Ids
      /\ jobs[j].status = "processing"
      /\ jobs[j].attempts = t.attempts
      /\ jobs[j] \in Job
  BY RowTypes DEF OwnerHoldsClaim, TypeOK
<1>2. /\ Ids' = Ids
      /\ \A i \in Ids \ {j} : jobs'[i] = jobs[i]
      /\ jobs'[j].url = jobs[j].url
      /\ jobs'[j].attempts = jobs[j].attempts
      /\ jobs'[j].status \in {"done", "dead", "pending"}
  <2>1. jobs \in [Ids -> Job]
    BY RowTypes DEF Ids, TypeOK
  <2>2. CASE Succeed(t)
    BY <1>1, <2>1, <2>2 DEF Succeed, Ids, Job
  <2>3. CASE FailAndRequeue(t)
    BY <1>1, <2>1, <2>3 DEF FailAndRequeue, Ids, Job
  <2>4. CASE FailAndDeadLetter(t)
    BY <1>1, <2>1, <2>4 DEF FailAndDeadLetter, Ids, Job
  <2> QED
    BY <2>2, <2>3, <2>4 DEF Settle
<1>2b. jobs'[j].status = "pending" => t.attempts < MaxAttempts
  <2>1. jobs \in [Ids -> Job]
    BY RowTypes DEF Ids, TypeOK
  <2>2. CASE Succeed(t)
    BY <1>1, <2>1, <2>2 DEF Succeed, Ids, Job
  <2>3. CASE FailAndRequeue(t)
    BY <2>3 DEF FailAndRequeue
  <2>4. CASE FailAndDeadLetter(t)
    BY <1>1, <2>1, <2>4 DEF FailAndDeadLetter, Ids, Job
  <2> QED
    BY <2>2, <2>3, <2>4 DEF Settle
<1>3. /\ tasks' = tasks \ {t}
      /\ UNCHANGED <<up, starts, pausedOnce, stranded>>
  BY DEF Settle, Succeed, FailAndRequeue, FailAndDeadLetter
<1>4. \A s \in tasks' : s \in tasks /\ s.job \in Ids \ {j}
  BY <1>3 DEF SingleOwner, TypeOK
<1> HIDE DEF j
<1>5. TasksOfUp' /\ SingleOwner'
  BY <1>3 DEF TasksOfUp, SingleOwner
<1>6. OwnerHoldsClaim'
  BY <1>2, <1>4 DEF OwnerHoldsClaim
<1>7. NoLostJob'
  <2>1. \A i \in WithStatus({"processing"})' :
          i \in WithStatus({"processing"}) /\ i # j
    BY <1>2 DEF WithStatus
  <2>2. \A s \in tasks : s.job # j => s \in tasks'
    BY <1>3 DEF j
  <2> QED
    BY <1>3, <2>1, <2>2 DEF NoLostJob
<1>8. Budget'
  <2>1. Allowed' = Allowed /\ Allowed \in Int /\ Allowed >= MaxAttempts
    BY ConstantsAssumption DEF Allowed
  <2>2. jobs'[j].status = "pending" => jobs[j].attempts + 1 < Allowed + starts
    <3>1. SUFFICES ASSUME jobs'[j].status = "pending"
                   PROVE  jobs[j].attempts + 1 < Allowed + starts
      OBVIOUS
    <3>2. jobs[j].attempts < MaxAttempts
      BY <1>1, <1>2b, <3>1
    <3>3. starts > 0 /\ starts \in Nat
      BY DEF Budget, TasksOfUp, TypeOK
    <3>4. jobs[j].attempts \in Nat
      BY <1>1 DEF Job
    <3> QED
      BY <2>1, <3>2, <3>3, <3>4, ConstantsAssumption
  <2> QED
    BY <1>1, <1>2, <1>3, <2>1, <2>2 DEF Budget
<1>9. LettersOfJobs' /\ DeadLettersMatchJobs'
  <2>1. \A d \in deadLetters : d.job \in Ids \ {j}
    BY <1>1 DEF LettersOfJobs, DeadLettersMatchJobs
  <2>2. CASE UNCHANGED deadLetters
    BY <1>2, <2>1, <2>2 DEF LettersOfJobs, DeadLettersMatchJobs
  <2>3. CASE FailAndDeadLetter(t)
    <3> DEFINE e == [id |-> nextLetter, job |-> t.job, url |-> jobs[t.job].url,
                     priority |-> jobs[t.job].priority,
                     attempts |-> jobs[t.job].attempts, retried |-> FALSE]
    <3>1. /\ e.job = j /\ e.url = jobs[j].url
          /\ e.attempts = jobs[j].attempts
          /\ jobs[j].attempts >= MaxAttempts
      BY <1>1, <2>3 DEF FailAndDeadLetter, j
    <3>2. deadLetters' = deadLetters \union {e}
      BY <2>3 DEF FailAndDeadLetter
    <3>3. jobs'[j].status = "dead"
      <4>1. jobs \in [Ids -> Job]
        BY RowTypes DEF Ids, TypeOK
      <4> QED
        BY <1>1, <2>3, <4>1 DEF FailAndDeadLetter, Ids, Job, j
    <3> HIDE DEF e
    <3> QED
      BY <1>1, <1>2, <2>1, <3>1, <3>2, <3>3
         DEF LettersOfJobs, DeadLettersMatchJobs
  <2> QED
    BY <2>2, <2>3 DEF Settle, Succeed, FailAndRequeue
<1>10. PausedKnown'
  BY <1>2, <1>3 DEF PausedKnown, WithStatus
<1>11. DuplicatesComeFromPause'
  <2>1. \A i \in Live' : i \in Live /\ jobs'[i].url = jobs[i].url
    BY <1>1, <1>2 DEF Live, WithStatus
  <2> QED
    BY <1>3, <2>1 DEF DuplicatesComeFromPause
<1> QED
  BY <1>5, <1>6, <1>7, <1>8, <1>9, <1>10, <1>11

LEMMA BookkeepingInv ==
  ASSUME Inv, TypeOK', NEW t \in tasks, BookkeepingFails(t)
  PROVE  Inv'
<1> USE DEF Inv
<1>1. UNCHANGED <<jobs, deadLetters, up, starts, pausedOnce>>
  BY DEF BookkeepingFails
<1>2. stranded' = stranded \union {t.job}
  BY DEF BookkeepingFails
<1> DEFINE after(s) == IF t.awaited /\ s.runner = t.runner
                       THEN [s EXCEPT !.awaited = FALSE] ELSE s
<1>3. tasks' = {after(s) : s \in tasks \ {t}}
  BY DEF BookkeepingFails
<1>4. \A s \in tasks : /\ after(s).job = s.job
                       /\ after(s).attempts = s.attempts
                       /\ after(s).runner = s.runner
  BY DEF TypeOK, Task
<1> HIDE DEF after
<1>5. \A s \in tasks' : \E q \in tasks : q # t /\ s = after(q)
  BY <1>3, Zenon
<1>6. \A q \in tasks : q # t => after(q) \in tasks'
  BY <1>3
<1>7. TasksOfUp'
  BY <1>1, <1>4, <1>5 DEF TasksOfUp
<1>8. SingleOwner'
  BY <1>4, <1>5 DEF SingleOwner
<1>9. OwnerHoldsClaim'
  BY <1>1, <1>4, <1>5 DEF OwnerHoldsClaim
<1>10. NoLostJob'
  <2>1. up' = up /\ WithStatus({"processing"})' = WithStatus({"processing"})
    BY <1>1 DEF WithStatus, Ids
  <2>2. \A q \in tasks : q.job \in stranded' \/ \E s \in tasks' : s.job = q.job
    BY <1>2, <1>4, <1>6
  <2> QED
    BY <1>2, <2>1, <2>2 DEF NoLostJob
<1>11. Budget' /\ LettersOfJobs' /\ DeadLettersMatchJobs'
  BY <1>1 DEF Budget, Allowed, LettersOfJobs, DeadLettersMatchJobs, Ids
<1>12. PausedKnown' /\ DuplicatesComeFromPause'
  BY <1>1 DEF PausedKnown, DuplicatesComeFromPause, Live, WithStatus, Ids
<1> QED
  BY <1>7, <1>8, <1>9, <1>10, <1>11, <1>12

(* Here the restriction to one process is used: when a process starts, no   *)
(* other one has tasks, so the recovery takes no row from anybody.          *)
LEMMA StartInv ==
  ASSUME SoloProcess, Inv, TypeOK', NEW p \in Procs, Start(p)
  PROVE  Inv'
<1> USE DEF Inv
<1>1. tasks = {} /\ tasks' = {}
  <2>1. up = {}
    BY DEF Start, SoloProcess, TypeOK
  <2> QED
    BY <2>1 DEF Start, TasksOfUp
<1>2. /\ Ids' = Ids
      /\ \A i \in Ids :
           /\ jobs'[i].url = jobs[i].url
           /\ jobs'[i].attempts = jobs[i].attempts
           /\ jobs'[i].status = IF jobs[i].status = "processing"
                                THEN "pending" ELSE jobs[i].status
  BY RowTypes DEF Start, Ids, Job
<1>3. /\ starts' = starts + 1 /\ UNCHANGED <<deadLetters, pausedOnce>>
  BY DEF Start
<1>4. TasksOfUp' /\ SingleOwner' /\ OwnerHoldsClaim'
  BY <1>1 DEF TasksOfUp, SingleOwner, OwnerHoldsClaim
<1>5. NoLostJob'
  BY <1>2 DEF NoLostJob, WithStatus
<1>6. Budget'
  <2>1. Allowed' = Allowed /\ Allowed \in Int /\ starts \in Nat
    BY ConstantsAssumption DEF Allowed, TypeOK
  <2>2. \A i \in Ids : jobs[i].attempts \in Nat
    BY RowTypes
  <2> QED
    BY <1>2, <1>3, <2>1, <2>2 DEF Budget
<1>7. LettersOfJobs' /\ DeadLettersMatchJobs'
  BY <1>2, <1>3 DEF LettersOfJobs, DeadLettersMatchJobs
<1>8. PausedKnown' /\ DuplicatesComeFromPause'
  BY <1>2, <1>3 DEF PausedKnown, DuplicatesComeFromPause, Live, WithStatus
<1> QED
  BY <1>4, <1>5, <1>6, <1>7, <1>8

LEMMA StopInv ==
  ASSUME SoloProcess, Inv, TypeOK', NEW p \in Procs, Stop(p)
  PROVE  Inv'
<1> USE DEF Inv
<1>1. /\ up' = {} /\ tasks' = {}
      /\ UNCHANGED <<jobs, deadLetters, starts, pausedOnce>>
  BY DEF Stop, SoloProcess, TypeOK, TasksOfUp
<1>2. TasksOfUp' /\ SingleOwner' /\ OwnerHoldsClaim' /\ NoLostJob'
  BY <1>1 DEF TasksOfUp, SingleOwner, OwnerHoldsClaim, NoLostJob
<1>3. Budget' /\ LettersOfJobs' /\ DeadLettersMatchJobs'
  BY <1>1 DEF Budget, Allowed, LettersOfJobs, DeadLettersMatchJobs, Ids
<1>4. PausedKnown' /\ DuplicatesComeFromPause'
  BY <1>1 DEF PausedKnown, DuplicatesComeFromPause, Live, WithStatus, Ids
<1> QED
  BY <1>2, <1>3, <1>4

LEMMA EnvInv ==
  ASSUME SoloProcess, Inv, TypeOK', EnvStep
  PROVE  Inv'
<1>1. ASSUME NEW i \in Ids, BackoffElapses(i)
      PROVE  Inv'
  <2>1. Ids' = Ids /\ \A k \in Ids : SameRow(k)
    BY <1>1, RowTypes DEF BackoffElapses, SameRow, Ids, Job, Inv
  <2> QED
    BY <1>1, <2>1, QuietStep DEF BackoffElapses
<1>2. CASE GoOnline \/ GoOffline
  <2>1. Ids' = Ids /\ \A k \in Ids : SameRow(k)
    BY <1>2 DEF GoOnline, GoOffline, SameRow, Ids
  <2> QED
    BY <1>2, <2>1, QuietStep DEF GoOnline, GoOffline
<1> QED
  BY <1>1, <1>2, StartInv, StopInv DEF EnvStep

LEMMA Inductive ==
  ASSUME SoloProcess, Inv, [Next]_vars
  PROVE  Inv'
<1>1. TypeOK'
  <2>1. CASE UNCHANGED vars
    BY <2>1 DEF vars, TypeOK, Ids, Inv
  <2> QED
    BY <2>1, UserTypes, WorkerTypes, EnvTypes DEF Next, Inv
<1>2. CASE UNCHANGED vars
  <2>1. Ids' = Ids /\ \A k \in Ids : SameRow(k)
    BY <1>2 DEF vars, SameRow, Ids
  <2> QED
    BY <1>1, <1>2, <2>1, QuietStep DEF vars
<1>3. CASE UserStep
  BY <1>1, <1>3, UserInv
<1>4. CASE WorkerStep
  BY <1>1, <1>4, ClaimInv, SettleInv, BookkeepingInv DEF WorkerStep
<1>5. CASE EnvStep
  BY <1>1, <1>5, EnvInv
<1> QED
  BY <1>2, <1>3, <1>4, <1>5 DEF Next

THEOREM Invariance == SoloProcess => (Spec => []Inv)
<1> SUFFICES ASSUME SoloProcess PROVE Spec => []Inv
  OBVIOUS
<1>1. Init => Inv
  BY DEF Init, Inv, TypeOK, TasksOfUp, SingleOwner, OwnerHoldsClaim, NoLostJob,
         Budget, LettersOfJobs, DeadLettersMatchJobs, PausedKnown,
         DuplicatesComeFromPause, Live, WithStatus, Ids
<1>2. Inv /\ [Next]_vars => Inv'
  BY Inductive
<1> QED
  BY <1>1, <1>2, PTL DEF Spec

-----------------------------------------------------------------------------
(* Results.                                                                *)

(* No two tasks download one job, whatever the loop, sync requests, users   *)
(* and restarts do.                                                        *)
THEOREM SingleOwnerHolds == SoloProcess => (Spec => []SingleOwner)
<1>1. Inv => SingleOwner
  BY DEF Inv
<1> QED
  BY <1>1, Invariance, PTL

(* The row of a job in work is processing, with the attempt number of the   *)
(* task that works on it.                                                  *)
THEOREM OwnerHoldsClaimHolds == SoloProcess => (Spec => []OwnerHoldsClaim)
<1>1. Inv => OwnerHoldsClaim
  BY DEF Inv
<1> QED
  BY <1>1, Invariance, PTL

(* A job is never left in processing without a task, except by a refused    *)
(* write.                                                                  *)
THEOREM NoLostJobHolds == SoloProcess => (Spec => []NoLostJob)
<1>1. Inv => NoLostJob
  BY DEF Inv
<1> QED
  BY <1>1, Invariance, PTL

(* Claims and processing rows go together.                                  *)
THEOREM ClaimsMatchTasksHold == SoloProcess => (Spec => []ClaimsMatchTasks)
<1>1. Inv => ClaimsMatchTasks
  BY DEF Inv, ClaimsMatchTasks
<1> QED
  BY <1>1, Invariance, PTL

(* max_download_attempts is exceeded only by the restarts.                  *)
THEOREM AttemptBudgetHolds == SoloProcess => (Spec => []AttemptBudget)
<1>1. Inv => AttemptBudget
  BY DEF Inv, Budget, AttemptBudget
<1> QED
  BY <1>1, Invariance, PTL

(* A dead letter tells the truth about a dead job, once.                    *)
THEOREM DeadLettersHold == SoloProcess => (Spec => []DeadLettersMatchJobs)
<1>1. Inv => DeadLettersMatchJobs
  BY DEF Inv
<1> QED
  BY <1>1, Invariance, PTL

(* Live jobs share a URL only after a pause.                                *)
THEOREM DuplicatesHold == SoloProcess => (Spec => []DuplicatesComeFromPause)
<1>1. Inv => DuplicatesComeFromPause
  BY DEF Inv
<1> QED
  BY <1>1, Invariance, PTL

-----------------------------------------------------------------------------
(* Which rows have a task, before and after the steps of tasks and          *)
(* processes.                                                              *)

LEMMA OwnersAfterClaim ==
  ASSUME NEW r \in Runners, Claim(r)
  PROVE  \A i : Owned(i)' <=> Owned(i) \/ i \in Picked
<1> DEFINE new(i) == [job |-> i, attempts |-> jobs[i].attempts + 1,
                      runner |-> r, awaited |-> TRUE]
<1>1. tasks' = tasks \union {new(i) : i \in Picked}
  BY DEF Claim
<1>2. \A i \in Picked : new(i).job = i
  OBVIOUS
<1> HIDE DEF new
<1> QED
  BY <1>1, <1>2 DEF Owned

LEMMA OwnersAfterAttempt ==
  ASSUME Inv, NEW t \in tasks, Settle(t) \/ BookkeepingFails(t)
  PROVE  \A i : Owned(i)' <=> Owned(i) /\ i # t.job
<1>1. CASE Settle(t)
  <2>1. tasks' = tasks \ {t}
    BY <1>1 DEF Settle, Succeed, FailAndRequeue, FailAndDeadLetter
  <2> QED
    BY <2>1 DEF Owned, Inv, SingleOwner
<1>2. CASE BookkeepingFails(t)
  <2> DEFINE after(s) == IF t.awaited /\ s.runner = t.runner
                         THEN [s EXCEPT !.awaited = FALSE] ELSE s
  <2>1. tasks' = {after(s) : s \in tasks \ {t}}
    BY <1>2 DEF BookkeepingFails
  <2>2. \A s \in tasks : after(s).job = s.job
    BY DEF Inv, TypeOK, Task
  <2> HIDE DEF after
  <2> QED
    BY <2>1, <2>2 DEF Owned, Inv, SingleOwner
<1> QED
  BY <1>1, <1>2

LEMMA OwnersAfterStop ==
  ASSUME SoloProcess, Inv, NEW p \in Procs, Stop(p)
  PROVE  /\ tasks' = {} /\ up' = {}
         /\ \A i : ~Owned(i)'
BY DEF Stop, SoloProcess, Inv, TypeOK, TasksOfUp, Owned

LEMMA OwnersAtStart ==
  ASSUME SoloProcess, Inv, NEW p \in Procs, Start(p)
  PROVE  /\ tasks = {} /\ tasks' = {}
         /\ \A i : ~Owned(i) /\ ~Owned(i)'
<1>1. up = {}
  BY DEF Start, SoloProcess, Inv, TypeOK
<1>2. tasks = {} /\ tasks' = {}
  BY <1>1 DEF Start, Inv, TasksOfUp
<1> QED
  BY <1>2 DEF Owned

-----------------------------------------------------------------------------
(* The rows stay within MaxJobs, and letters name rows: with any number of  *)
(* processes.                                                              *)

QueueBounded == Ids \subseteq 1..MaxJobs /\ LettersOfJobs

LEMMA QueueBoundedStep ==
  ASSUME TypeOK, QueueBounded, [Next]_vars
  PROVE  QueueBounded'
<1>0. Ids = 1..Len(jobs) /\ Len(jobs) \in Nat /\ MaxJobs \in Nat
  BY ConstantsAssumption DEF TypeOK, Ids
<1>1. ASSUME NEW u \in Urls, NEW p \in Priorities, Enqueue(u, p)
      PROVE  QueueBounded'
  <2>1. Ids' = Ids \union {Len(jobs) + 1}
    BY <1>1, AddRow, NewJobType DEF Enqueue, Ids, TypeOK
  <2> QED
    BY <1>0, <1>1, <2>1 DEF Enqueue, QueueBounded, LettersOfJobs
<1>2. ASSUME NEW d \in deadLetters, RetryDeadLetter(d)
      PROVE  QueueBounded'
  <2>1. d \in DeadLetter /\ d.priority \in Priorities /\ d.url \in Urls
        /\ [d EXCEPT !.retried = TRUE].job = d.job
    BY DEF TypeOK, DeadLetter
  <2>2. Ids' = Ids \/ (Ids' = Ids \union {Len(jobs) + 1} /\ Len(jobs) < MaxJobs)
    <3>1. CASE UNCHANGED jobs
      BY <3>1 DEF Ids
    <3>2. CASE jobs' = Append(jobs, NewJob(d.url, d.priority)) /\ Len(jobs) < MaxJobs
      BY <2>1, <3>2, AddRow, NewJobType DEF Ids, TypeOK
    <3> QED
      BY <1>2, <3>1, <3>2 DEF RetryDeadLetter
  <2>3. \A e \in deadLetters' : e.job \in Ids
    BY <1>2, <2>1 DEF RetryDeadLetter, QueueBounded, LettersOfJobs
  <2> QED
    BY <1>0, <2>2, <2>3 DEF QueueBounded, LettersOfJobs
<1>3. ASSUME NEW t \in tasks, FailAndDeadLetter(t)
      PROVE  QueueBounded'
  <2>1. t.job \in Ids /\ Ids' = Ids
    BY <1>3 DEF FailAndDeadLetter, TypeOK, Ids
  <2> QED
    BY <1>3, <2>1 DEF FailAndDeadLetter, QueueBounded, LettersOfJobs
<1>4. ASSUME Ids' = Ids, deadLetters' \subseteq deadLetters
      PROVE  QueueBounded'
  BY <1>4 DEF QueueBounded, LettersOfJobs
<1>5. CASE UNCHANGED vars
  BY <1>4, <1>5 DEF vars, Ids
<1>6. CASE \E i \in Ids, p \in Priorities : SetJobPriority(i, p)
  BY <1>4, <1>6 DEF SetJobPriority, Ids
<1>7. CASE \E i \in Ids : PauseJob(i)
  BY <1>4, <1>7 DEF PauseJob, Ids
<1>8. CASE \E i \in Ids : ResumeJob(i)
  BY <1>4, <1>8 DEF ResumeJob, Ids
<1>9. CASE \E b \in BOOLEAN : ClearDeadLetters(b)
  BY <1>4, <1>9 DEF ClearDeadLetters, Ids
<1>10. CASE \E r \in Runners : Claim(r)
  BY <1>4, <1>10 DEF Claim, Ids
<1>11. CASE \E t \in tasks : Succeed(t) \/ FailAndRequeue(t)
  BY <1>4, <1>11 DEF Succeed, FailAndRequeue, Ids
<1>12. CASE \E t \in tasks : BookkeepingFails(t)
  BY <1>4, <1>12 DEF BookkeepingFails, Ids
<1>13. CASE EnvStep
  BY <1>4, <1>13 DEF EnvStep, Start, Stop, BackoffElapses, GoOnline, GoOffline, Ids
<1> QED
  BY <1>1, <1>2, <1>3, <1>5, <1>6, <1>7, <1>8, <1>9, <1>10, <1>11, <1>12, <1>13
     DEF Next, UserStep, WorkerStep, Settle

-----------------------------------------------------------------------------
(* Settled rows.                                                           *)

(* One step leaves done and dead rows as they are: only a task moves a row  *)
(* it holds, and no task holds a settled one.                              *)
LEMMA SettledStep ==
  ASSUME Inv, [Next]_vars
  PROVE  \A i \in WithStatus({"done", "dead"}) :
           /\ jobs'[i].status = jobs[i].status
           /\ jobs'[i].attempts = jobs[i].attempts
<1> SUFFICES ASSUME NEW i \in Ids, jobs[i].status \in {"done", "dead"}
             PROVE  /\ jobs'[i].status = jobs[i].status
                    /\ jobs'[i].attempts = jobs[i].attempts
  BY DEF WithStatus
<1>1. TypeOK /\ jobs \in [Ids -> Job] /\ jobs \in Seq(Job)
  BY RowTypes DEF Ids, TypeOK, Inv
<1>2. CASE UNCHANGED jobs
  BY <1>2
<1>3. ASSUME NEW u \in Urls, NEW p \in Priorities,
             jobs' = Append(jobs, NewJob(u, p))
      PROVE  jobs'[i] = jobs[i]
  BY <1>1, <1>3, AddRow, NewJobType DEF Ids
<1>4. CASE UserStep
  <2>1. ASSUME NEW d \in deadLetters, RetryDeadLetter(d)
        PROVE  jobs'[i] = jobs[i]
    <3>1. d.url \in Urls /\ d.priority \in Priorities
      BY <1>1 DEF TypeOK, DeadLetter
    <3> QED
      BY <1>3, <2>1, <3>1 DEF RetryDeadLetter
  <2>2. ASSUME NEW k \in Ids, PauseJob(k) \/ ResumeJob(k)
        PROVE  jobs'[i] = jobs[i]
    BY <1>1, <2>2 DEF PauseJob, ResumeJob, Job, Ids
  <2>3. ASSUME NEW k \in Ids, NEW p \in Priorities, SetJobPriority(k, p)
        PROVE  /\ jobs'[i].status = jobs[i].status
               /\ jobs'[i].attempts = jobs[i].attempts
    BY <1>1, <2>3 DEF SetJobPriority, Job, Ids
  <2> QED
    BY <1>3, <1>4, <2>1, <2>2, <2>3 DEF UserStep, Enqueue, ClearDeadLetters
<1>5. CASE WorkerStep
  <2>1. ASSUME NEW r \in Runners, Claim(r)
        PROVE  jobs'[i] = jobs[i]
    BY <1>1, <2>1, ClaimRows DEF WithStatus
  <2>2. ASSUME NEW t \in tasks, Settle(t)
        PROVE  jobs'[i] = jobs[i]
    <3>1. t.job # i /\ t.job \in Ids
      BY <1>1 DEF Inv, OwnerHoldsClaim, TypeOK
    <3> QED
      BY <1>1, <2>2, <3>1
         DEF Settle, Succeed, FailAndRequeue, FailAndDeadLetter, Ids
  <2> QED
    BY <1>5, <2>1, <2>2 DEF WorkerStep, BookkeepingFails
<1>6. CASE EnvStep
  <2>1. ASSUME NEW p \in Procs, Start(p)
        PROVE  jobs'[i] = jobs[i]
    BY <2>1 DEF Start
  <2>2. ASSUME NEW k \in Ids, BackoffElapses(k)
        PROVE  /\ jobs'[i].status = jobs[i].status
               /\ jobs'[i].attempts = jobs[i].attempts
    BY <1>1, <2>2 DEF BackoffElapses, Job, Ids
  <2> QED
    BY <1>6, <2>1, <2>2 DEF EnvStep, Stop, GoOnline, GoOffline
<1> QED
  BY <1>2, <1>4, <1>5, <1>6 DEF Next, vars

(* A settled job stays settled.                                            *)
THEOREM SettledForGoodHolds == SoloProcess => (Spec => SettledForGood)
<1>1. Inv /\ [Next]_vars =>
        [\A i \in WithStatus({"done", "dead"}) :
           /\ jobs'[i].status = jobs[i].status
           /\ jobs'[i].attempts = jobs[i].attempts]_vars
  BY SettledStep
<1> QED
  BY <1>1, Invariance, PTL DEF Spec, SettledForGood

-----------------------------------------------------------------------------
(* How many downloads run at once.                                         *)

(* A claim takes at most MaxParallel rows: the number of rows ahead of a    *)
(* claimable row in ORDER BY priority DESC, id ASC differs from row to row, *)
(* and the picked rows have fewer than MaxParallel ahead of them.           *)
LEMMA ClaimBound ==
  ASSUME TypeOK
  PROVE  IsFiniteSet(Picked) /\ Cardinality(Picked) <= MaxParallel
<1> DEFINE ahead(i) == {j \in Claimable : Before(j, i)}
<1>1. IsFiniteSet(Claimable)
  <2>1. Claimable \subseteq 1..Len(jobs) /\ Len(jobs) \in Int
    BY DEF Claimable, WithStatus, Ids, TypeOK
  <2>2. IsFiniteSet(1..Len(jobs))
    BY <2>1, FS_Interval
  <2> QED
    BY <2>1, <2>2, FS_Subset
<1>2. ASSUME NEW i \in Claimable PROVE i \in Int /\ jobs[i].priority \in Int
  <2>1. i \in Ids
    BY DEF Claimable, WithStatus
  <2>2. i \in Int
    BY <2>1, RowTypes
  <2>3. jobs[i].priority \in Int
    <3>1. jobs[i].priority \in Priorities
      BY <2>1, RowTypes
    <3> QED
      BY <3>1, ConstantsAssumption
  <2> QED
    BY <2>2, <2>3
<1>3. \A i \in Claimable : /\ IsFiniteSet(ahead(i))
                           /\ Cardinality(ahead(i)) \in Nat
  BY <1>1, FS_Subset, FS_CardinalityType
<1>4. \A i, j \in Claimable :
        Before(i, j) => Cardinality(ahead(i)) < Cardinality(ahead(j))
  <2> SUFFICES ASSUME NEW i \in Claimable, NEW j \in Claimable, Before(i, j)
               PROVE  Cardinality(ahead(i)) < Cardinality(ahead(j))
    OBVIOUS
  <2>1. ahead(i) \subseteq ahead(j)
    BY <1>2 DEF Before
  <2>2. i \in ahead(j) /\ i \notin ahead(i)
    BY <1>2 DEF Before
  <2>3. /\ Cardinality(ahead(i)) <= Cardinality(ahead(j))
        /\ Cardinality(ahead(i)) # Cardinality(ahead(j))
    BY <1>3, <2>1, <2>2, FS_Subset
  <2> QED
    BY <1>3, <2>3
<1>5. \A i, j \in Claimable : i = j \/ Before(i, j) \/ Before(j, i)
  BY <1>2 DEF Before
<1> DEFINE rank == [i \in Picked |-> Cardinality(ahead(i))]
<1>6. \A i \in Picked : i \in Claimable /\ Cardinality(ahead(i)) < MaxParallel
  BY DEF Picked
<1> HIDE DEF ahead
<1>7. rank \in Injection(Picked, 0..(MaxParallel - 1))
  <2>1. rank \in [Picked -> 0..(MaxParallel - 1)]
    BY <1>3, <1>6, ConstantsAssumption
  <2>2. \A i, j \in Picked : rank[i] = rank[j] => i = j
    BY <1>3, <1>4, <1>5, <1>6
  <2> QED
    BY <2>1, <2>2 DEF Injection, IsInjective
<1>8. /\ IsFiniteSet(0..(MaxParallel - 1))
      /\ Cardinality(0..(MaxParallel - 1)) = MaxParallel
  BY FS_Interval, ConstantsAssumption
<1> QED
  BY <1>7, <1>8, FS_Injection

TasksOf(r) == {t \in tasks : t.runner = r}

(* Until a write is refused, every task is awaited by its run, and a run    *)
(* has at most the tasks of one claim.                                     *)
Load ==
  /\ IsFiniteSet(tasks)
  /\ stranded = {} =>
       /\ \A t \in tasks : t.awaited
       /\ \A r \in Runners : Cardinality(TasksOf(r)) <= MaxParallel

LEMMA FewerTasks ==
  ASSUME Load, tasks' \subseteq tasks, UNCHANGED stranded
  PROVE  Load'
<1>1. IsFiniteSet(tasks')
  BY FS_Subset DEF Load
<1>2. ASSUME NEW r \in Runners, stranded = {}
      PROVE  Cardinality(TasksOf(r))' <= MaxParallel
  <2>1. IsFiniteSet(TasksOf(r)) /\ TasksOf(r)' \subseteq TasksOf(r)
    BY FS_Subset DEF Load, TasksOf
  <2>2. /\ Cardinality(TasksOf(r)') <= Cardinality(TasksOf(r))
        /\ Cardinality(TasksOf(r)') \in Nat
        /\ Cardinality(TasksOf(r)) \in Nat
    BY <2>1, FS_Subset, FS_CardinalityType
  <2> QED
    BY <1>2, <2>2, ConstantsAssumption DEF Load
<1> QED
  BY <1>1, <1>2 DEF Load

LEMMA ClaimLoad ==
  ASSUME TypeOK, Load, NEW r \in Runners, Claim(r)
  PROVE  Load'
<1> DEFINE new(i) == [job |-> i, attempts |-> jobs[i].attempts + 1,
                      runner |-> r, awaited |-> TRUE]
           News == {new(i) : i \in Picked}
           f == [i \in Picked |-> new(i)]
<1>1. tasks' = tasks \union News /\ UNCHANGED stranded
  BY DEF Claim
<1>2. \A t \in News : t.runner = r /\ t.awaited
  OBVIOUS
<1>3. IsFiniteSet(News) /\ Cardinality(News) <= MaxParallel
  <2>1. f \in Surjection(Picked, News)
    BY DEF Surjection
  <2>2. IsFiniteSet(News) /\ Cardinality(News) <= Cardinality(Picked)
    BY <2>1, ClaimBound, FS_Surjection
  <2>3. Cardinality(News) \in Nat /\ Cardinality(Picked) \in Nat
    BY <2>2, ClaimBound, FS_CardinalityType
  <2> QED
    BY <2>2, <2>3, ClaimBound, ConstantsAssumption
<1> HIDE DEF News
<1>4. IsFiniteSet(tasks')
  BY <1>1, <1>3, FS_Union DEF Load
<1>5. ASSUME stranded = {}, NEW q \in Runners
      PROVE  Cardinality(TasksOf(q))' <= MaxParallel
  <2>1. CASE q = r
    <3>1. TasksOf(q)' = News
      BY <1>1, <1>2, <1>5, <2>1 DEF TasksOf, Claim, Running, Load
    <3> QED
      BY <1>3, <3>1
  <2>2. CASE q # r
    <3>1. TasksOf(q)' = TasksOf(q)
      BY <1>1, <1>2, <2>2 DEF TasksOf
    <3> QED
      BY <1>5, <3>1 DEF Load
  <2> QED
    BY <2>1, <2>2
<1>6. stranded' = {} => \A t \in tasks' : t.awaited
  BY <1>1, <1>2 DEF Load
<1> QED
  BY <1>1, <1>4, <1>5, <1>6 DEF Load

LEMMA LoadStep ==
  ASSUME SoloProcess, Inv, Load, [Next]_vars
  PROVE  Load'
<1>1. CASE tasks' \subseteq tasks /\ UNCHANGED stranded
  BY <1>1, FewerTasks
<1>2. ASSUME NEW r \in Runners, Claim(r)
      PROVE  Load'
  BY <1>2, ClaimLoad DEF Inv
<1>3. ASSUME NEW t \in tasks, BookkeepingFails(t)
      PROVE  Load'
  <2> DEFINE after(s) == IF t.awaited /\ s.runner = t.runner
                         THEN [s EXCEPT !.awaited = FALSE] ELSE s
             Others == tasks \ {t}
             f == [s \in Others |-> after(s)]
  <2>1. tasks' = {after(s) : s \in Others} /\ stranded' # {}
    BY <1>3 DEF BookkeepingFails
  <2> HIDE DEF after
  <2>2. f \in Surjection(Others, tasks')
    BY <2>1 DEF Surjection
  <2>3. IsFiniteSet(Others)
    BY FS_Subset DEF Load
  <2> HIDE DEF Others, f
  <2>4. IsFiniteSet(tasks')
    BY <2>2, <2>3, FS_Surjection
  <2> QED
    BY <2>1, <2>4 DEF Load
<1>4. ASSUME NEW p \in Procs, Start(p)
      PROVE  Load'
  <2>1. tasks' = {}
    BY <1>4, OwnersAtStart
  <2>2. \A r \in Runners : TasksOf(r)' = {}
    BY <2>1 DEF TasksOf
  <2> QED
    BY <2>1, <2>2, FS_EmptySet, ConstantsAssumption DEF Load
<1>5. ASSUME NEW t \in tasks, Settle(t)
      PROVE  tasks' \subseteq tasks /\ UNCHANGED stranded
  BY <1>5 DEF Settle, Succeed, FailAndRequeue, FailAndDeadLetter
<1>6. ASSUME NEW p \in Procs, Stop(p)
      PROVE  tasks' \subseteq tasks /\ UNCHANGED stranded
  BY <1>6 DEF Stop
<1>7. CASE UserStep
  BY <1>1, <1>7 DEF UserStep, Enqueue, SetJobPriority, PauseJob, ResumeJob,
                    RetryDeadLetter, ClearDeadLetters
<1>8. CASE WorkerStep
  BY <1>1, <1>2, <1>3, <1>5, <1>8 DEF WorkerStep
<1>9. CASE EnvStep
  BY <1>1, <1>4, <1>6, <1>9 DEF EnvStep, BackoffElapses, GoOnline, GoOffline
<1>10. CASE UNCHANGED vars
  BY <1>1, <1>10 DEF vars
<1> QED
  BY <1>7, <1>8, <1>9, <1>10 DEF Next

(* Number the tasks of each run: the pair of run and number is different    *)
(* for each task.                                                          *)
LEMMA LoadBounds ==
  ASSUME TypeOK, Load, IsFiniteSet(Runners)
  PROVE  InFlightBound
<1> SUFFICES ASSUME stranded = {}
             PROVE  Cardinality(tasks) <= Cardinality(Runners) * MaxParallel
  BY DEF InFlightBound
<1>1. \A r \in Runners : \E g : g \in Injection(TasksOf(r), 1..MaxParallel)
  <2> SUFFICES ASSUME NEW r \in Runners
               PROVE  \E g : g \in Injection(TasksOf(r), 1..MaxParallel)
    OBVIOUS
  <2>1. PICK n \in Nat : n = Cardinality(TasksOf(r)) /\ n <= MaxParallel
    BY FS_Subset, FS_CardinalityType DEF Load, TasksOf
  <2>2. IsFiniteSet(TasksOf(r)) /\ IsFiniteSet(1..n) /\ Cardinality(1..n) = n
    BY FS_Subset, FS_Interval DEF Load, TasksOf
  <2>3. PICK g : g \in Bijection(TasksOf(r), 1..n)
    BY <2>1, <2>2, FS_SameCardinalityBij DEF ExistsBijection
  <2>4. g \in [TasksOf(r) -> 1..MaxParallel]
    BY <2>1, <2>3, ConstantsAssumption DEF Bijection, Injection
  <2> QED
    BY <2>3, <2>4 DEF Bijection, Injection, IsInjective
<1> DEFINE Number == [r \in Runners |->
                        CHOOSE g : g \in Injection(TasksOf(r), 1..MaxParallel)]
           place == [t \in tasks |-> <<t.runner, Number[t.runner][t]>>]
<1>2. \A r \in Runners : Number[r] \in Injection(TasksOf(r), 1..MaxParallel)
  BY <1>1
<1> HIDE DEF Number
<1>3. \A t \in tasks : t.runner \in Runners /\ t \in TasksOf(t.runner)
  BY DEF TypeOK, Task, TasksOf
<1>4. place \in Injection(tasks, Runners \X (1..MaxParallel))
  <2>1. \A t \in tasks : Number[t.runner][t] \in 1..MaxParallel
    BY <1>2, <1>3 DEF Injection
  <2>2. place \in [tasks -> Runners \X (1..MaxParallel)]
    BY <1>3, <2>1
  <2>3. \A s, t \in tasks : place[s] = place[t] => s = t
    BY <1>2, <1>3 DEF Injection, IsInjective
  <2> QED
    BY <2>2, <2>3 DEF Injection, IsInjective
<1>5. /\ IsFiniteSet(1..MaxParallel)
      /\ Cardinality(1..MaxParallel) = MaxParallel
  BY FS_Interval, ConstantsAssumption
<1>6. /\ IsFiniteSet(Runners \X (1..MaxParallel))
      /\ Cardinality(Runners \X (1..MaxParallel))
           = Cardinality(Runners) * MaxParallel
  BY <1>5, FS_Product
<1> HIDE DEF place
<1> QED
  BY <1>4, <1>6, FS_Injection

LEMMA FiniteRunners == SoloProcess => IsFiniteSet(Runners)
<1> SUFFICES ASSUME SoloProcess PROVE IsFiniteSet(Runners)
  OBVIOUS
<1>1. Procs = {} \/ \E p \in Procs : Procs = {p}
  BY DEF SoloProcess
<1>2. IsFiniteSet(Procs)
  <2>1. CASE Procs = {}
    BY <2>1, FS_EmptySet
  <2>2. ASSUME NEW p \in Procs, Procs = {p}
        PROVE  IsFiniteSet(Procs)
    <3>1. IsFiniteSet({p})
      BY FS_Singleton
    <3> QED
      BY <2>2, <3>1
  <2> QED
    BY <1>1, <2>1, <2>2
<1>3. IsFiniteSet(Roles)
  BY ConstantsAssumption
<1> QED
  BY <1>2, <1>3, FS_Product DEF Runners

(* max_parallel_downloads bounds the downloads of a run, and the runs of a  *)
(* process the downloads in flight, until a refused write detaches tasks.   *)
THEOREM InFlightBoundHolds == SoloProcess => (Spec => []InFlightBound)
<1> SUFFICES ASSUME SoloProcess PROVE Spec => []InFlightBound
  OBVIOUS
<1>1. Init => Load
  <2>1. Init => tasks = {} /\ \A r \in Runners : TasksOf(r) = {}
    BY DEF Init, TasksOf
  <2> QED
    BY <2>1, FS_EmptySet, ConstantsAssumption DEF Load
<1>2. Inv /\ Load /\ [Next]_vars => Load'
  BY LoadStep
<1>3. Inv /\ Load => InFlightBound
  BY LoadBounds, FiniteRunners DEF Inv
<1> QED
  BY <1>1, <1>2, <1>3, Invariance, PTL DEF Spec

-----------------------------------------------------------------------------
(* The lifecycle: its operators under the mapping.                         *)

LEMMA InPhase ==
  ASSUME NEW ph
  PROVE  Lifecycle!In(ph) = {i \in 1..MaxJobs : Phase(i) = ph}
BY DEF Lifecycle!In

LEMMA MovePhases ==
  ASSUME NEW S, NEW ph,
         \A i \in 1..MaxJobs : Phase(i)' = IF i \in S THEN ph ELSE Phase(i)
  PROVE  Lifecycle!Move(S, ph)
BY DEF Lifecycle!Move

-----------------------------------------------------------------------------
(* What the invariant says of the phases.                                  *)

PausedRows == WithStatus({"paused"})

(* The tasks' rows are exactly the working ones, and they are processing.   *)
LEMMA Working ==
  ASSUME Inv, QueueBounded
  PROVE  /\ Ids \subseteq 1..MaxJobs
         /\ PausedRows \subseteq Ids
         /\ \A t \in tasks : t.job \in Ids /\ Phase(t.job) = "working"
         /\ \A i \in Ids : Owned(i) => jobs[i].status = "processing"
BY DEF Inv, QueueBounded, PausedRows, WithStatus, TypeOK, Phase, Owned, OwnerHoldsClaim

(* A step that moves no row and changes no task changes no phase; a row     *)
(* may pass between the statuses in which a job waits.                      *)
LEMMA SamePhase ==
  ASSUME NEW i \in 1..MaxJobs, (i \in Ids)' <=> i \in Ids, Owned(i)' <=> Owned(i),
         i \in Ids => \/ jobs'[i].status = jobs[i].status
                      \/ /\ jobs[i].status \notin {"done", "dead"}
                         /\ jobs'[i].status \notin {"done", "dead"}
  PROVE  Phase(i)' = Phase(i)
BY DEF Phase

-----------------------------------------------------------------------------
(* One lemma per kind of step.                                             *)

(* queue_download and retry_dead_letter add a row: Accept.                  *)
LEMMA AddAccepts ==
  ASSUME Inv, QueueBounded, NEW u \in Urls, NEW p \in Priorities,
         Len(jobs) < MaxJobs, jobs' = Append(jobs, NewJob(u, p)),
         UNCHANGED tasks
  PROVE  Lifecycle!Next
<1>0. PICK n \in Nat : n = Len(jobs) + 1
  BY DEF Inv, TypeOK
<1>1. /\ Ids' = Ids \union {n}
      /\ n \notin Ids
      /\ \A i \in Ids : jobs'[i] = jobs[i]
      /\ jobs'[n] = NewJob(u, p)
  <2>1. jobs \in Seq(Job) /\ NewJob(u, p) \in Job
    BY NewJobType DEF Inv, TypeOK
  <2>2. /\ DOMAIN jobs' = DOMAIN jobs \union {Len(jobs) + 1}
        /\ Len(jobs) + 1 \notin DOMAIN jobs
        /\ \A i \in DOMAIN jobs : jobs'[i] = jobs[i]
        /\ jobs'[Len(jobs) + 1] = NewJob(u, p)
    BY <2>1, AddRow
  <2> QED
    BY <1>0, <2>2 DEF Ids
<1>2. n \in 1..MaxJobs
  <2>1. Len(jobs) \in Nat
    BY DEF Inv, TypeOK
  <2> QED
    BY <1>0, <2>1, ConstantsAssumption
<1>3. jobs'[n].status = "pending"
  <2>1. NewJob(u, p).status = "pending"
    BY DEF NewJob
  <2> QED
    BY <1>1, <2>1
<1>4. \A i \in 1..MaxJobs : Owned(i)' <=> Owned(i)
  BY DEF Owned
<1>5. ~Owned(n)
  BY <1>1 DEF Owned, Inv, TypeOK
<1>6. Phase(n) = "absent" /\ Phase(n)' = "waiting"
  BY <1>1, <1>2, <1>3, <1>4, <1>5 DEF Phase
<1>7. \A i \in 1..MaxJobs : Phase(i)' = IF i \in {n} THEN "waiting" ELSE Phase(i)
  BY <1>1, <1>4, <1>6, SamePhase
<1>8. PausedRows' = PausedRows
  BY <1>1, <1>3 DEF PausedRows, WithStatus
<1>9. Lifecycle!Accept(n)
  BY <1>2, <1>6, <1>7, <1>8, InPhase, MovePhases DEF Lifecycle!Accept, PausedRows
<1> QED
  BY <1>2, <1>9 DEF Lifecycle!Next

(* A user pauses or resumes a waiting job: Hold, Release.                   *)
LEMMA PauseHolds ==
  ASSUME Inv, QueueBounded, NEW i \in Ids, PauseJob(i) \/ ResumeJob(i)
  PROVE  Lifecycle!Next
<1>1. /\ Ids' = Ids
      /\ tasks' = tasks
      /\ \A k \in Ids \ {i} : jobs'[k] = jobs[k]
      /\ jobs[i].status \in {"pending", "paused"}
      /\ jobs'[i].status \in {"pending", "paused"}
      /\ PauseJob(i) => jobs[i].status = "pending" /\ jobs'[i].status = "paused"
      /\ ResumeJob(i) => jobs[i].status = "paused" /\ jobs'[i].status = "pending"
  <2>1. jobs[i] \in Job /\ jobs \in [Ids -> Job]
    BY RowTypes DEF Ids, TypeOK, Inv
  <2> QED
    BY <2>1 DEF PauseJob, ResumeJob, Job, Ids
<1>2. \A k \in 1..MaxJobs : Phase(k)' = Phase(k)
  <2>1. \A k \in 1..MaxJobs : Owned(k)' <=> Owned(k)
    BY <1>1 DEF Owned
  <2> QED
    BY <1>1, <2>1, SamePhase
<1>3. i \in 1..MaxJobs /\ Phase(i) = "waiting"
  BY <1>1, Working DEF Phase
<1>4. CASE PauseJob(i)
  <2>1. i \notin PausedRows /\ PausedRows' = PausedRows \union {i}
    BY <1>1, <1>4 DEF PausedRows, WithStatus
  <2>2. Lifecycle!Hold(i)
    BY <1>2, <1>3, <2>1, InPhase DEF Lifecycle!Hold, PausedRows
  <2> QED
    BY <1>3, <2>2 DEF Lifecycle!Next
<1>5. CASE ResumeJob(i)
  <2>1. i \in PausedRows /\ PausedRows' = PausedRows \ {i}
    BY <1>1, <1>5 DEF PausedRows, WithStatus
  <2>2. Lifecycle!Release(i)
    BY <1>2, <2>1 DEF Lifecycle!Release, PausedRows
  <2> QED
    BY <1>3, <2>2 DEF Lifecycle!Next
<1> QED
  BY <1>4, <1>5

(* claim_due_jobs: the picked rows, which wait and are not held, begin.     *)
LEMMA ClaimBegins ==
  ASSUME Inv, QueueBounded, NEW r \in Runners, Claim(r)
  PROVE  Lifecycle!Next
<1>1. /\ Ids' = Ids
      /\ Picked \subseteq Ids
      /\ \A i \in Picked : jobs[i].status = "pending"
      /\ \A i \in Picked : jobs'[i].status = "processing"
      /\ \A i \in Ids \ Picked : jobs'[i] = jobs[i]
      /\ Picked # {}
  BY ClaimRows DEF WithStatus, Inv, Claim
<1>2. \A i \in 1..MaxJobs : Owned(i)' <=> (Owned(i) \/ i \in Picked)
  BY OwnersAfterClaim
<1>3. \A i \in Picked : Phase(i) = "waiting" /\ i \notin PausedRows
  BY <1>1, Working DEF Phase, PausedRows, WithStatus
<1>4. \A i \in 1..MaxJobs :
        Phase(i)' = IF i \in Picked THEN "working" ELSE Phase(i)
  <2>1. \A i \in Picked : i \in 1..MaxJobs => Phase(i)' = "working"
    BY <1>1, <1>2 DEF Phase
  <2>2. \A i \in (1..MaxJobs) \ Picked : Phase(i)' = Phase(i)
    BY <1>1, <1>2, SamePhase
  <2> QED
    BY <2>1, <2>2
<1>5. PausedRows' = PausedRows
  BY <1>1 DEF PausedRows, WithStatus
<1>6. Picked \in SUBSET (1..MaxJobs)
  BY <1>1, Working
<1>7. Lifecycle!Begin(Picked)
  BY <1>1, <1>3, <1>4, <1>5, <1>6, InPhase, MovePhases
     DEF Lifecycle!Begin, PausedRows
<1> QED
  BY <1>6, <1>7 DEF Lifecycle!Next

(* A task ends its attempt: Finish, or GiveBack when the attempt failed     *)
(* and is to be repeated, or its settling write was refused.                *)
LEMMA AttemptEnds ==
  ASSUME Inv, QueueBounded, NEW t \in tasks, Settle(t) \/ BookkeepingFails(t)
  PROVE  Lifecycle!Next
<1> DEFINE j == t.job
<1>1. /\ j \in Ids /\ j \in 1..MaxJobs
      /\ Phase(j) = "working"
      /\ jobs[j].status = "processing"
  BY Working DEF Inv, OwnerHoldsClaim
<1>2. /\ Ids' = Ids
      /\ \A i \in Ids \ {j} : jobs'[i] = jobs[i]
      /\ Succeed(t) => jobs'[j].status = "done"
      /\ FailAndDeadLetter(t) => jobs'[j].status = "dead"
      /\ FailAndRequeue(t) => jobs'[j].status = "pending"
      /\ BookkeepingFails(t) => jobs'[j].status = "processing"
  <2>1. jobs[j] \in Job /\ jobs \in [Ids -> Job]
    BY <1>1, RowTypes DEF Ids, TypeOK, Inv
  <2>2. CASE Settle(t)
    BY <1>1, <2>1, <2>2 DEF Settle, Succeed, FailAndRequeue,
       FailAndDeadLetter, BookkeepingFails, Job, Ids
  <2>3. CASE BookkeepingFails(t)
    BY <1>1, <2>1, <2>3 DEF BookkeepingFails, Succeed, FailAndRequeue,
       FailAndDeadLetter, Job, Ids
  <2> QED
    BY <2>2, <2>3
<1>3. \A i \in 1..MaxJobs : Owned(i)' <=> Owned(i) /\ i # j
  BY OwnersAfterAttempt
<1>4. PausedRows' = PausedRows
  BY <1>1, <1>2 DEF PausedRows, WithStatus, Settle
<1> HIDE DEF j
<1>5. ASSUME NEW ph, Phase(j)' = ph
      PROVE  Lifecycle!Move({j}, ph)
  <2>1. \A i \in (1..MaxJobs) \ {j} : Phase(i)' = Phase(i)
    BY <1>2, <1>3, SamePhase
  <2> QED
    BY <1>5, <2>1, MovePhases
<1>6. CASE Succeed(t) \/ FailAndDeadLetter(t)
  <2>1. PICK ph \in {"done", "dead"} : jobs'[j].status = ph
    BY <1>2, <1>6
  <2>2. Phase(j)' = ph
    BY <1>1, <1>2, <1>3, <2>1 DEF Phase
  <2>3. Lifecycle!Finish(j, ph)
    BY <1>1, <1>4, <1>5, <2>2, InPhase DEF Lifecycle!Finish, PausedRows
  <2> QED
    BY <1>1, <2>3 DEF Lifecycle!Next
<1>7. CASE FailAndRequeue(t) \/ BookkeepingFails(t)
  <2>1. Phase(j)' = "waiting"
    BY <1>1, <1>2, <1>3, <1>7 DEF Phase
  <2>2. Lifecycle!GiveBack({j})
    BY <1>1, <1>4, <1>5, <2>1, InPhase DEF Lifecycle!GiveBack, PausedRows
  <2>3. {j} \in SUBSET (1..MaxJobs)
    BY <1>1
  <2> QED
    BY <2>2, <2>3 DEF Lifecycle!Next
<1> QED
  BY <1>6, <1>7 DEF Settle

(* The process stops: every attempt in progress is given back.              *)
LEMMA StopGivesBack ==
  ASSUME SoloProcess, Inv, QueueBounded, NEW p \in Procs, Stop(p), tasks # {}
  PROVE  Lifecycle!Next
<1> DEFINE S == {i \in Ids : Owned(i)}
<1>1. UNCHANGED jobs /\ \A i : ~Owned(i)'
  BY OwnersAfterStop DEF Stop
<1>2. /\ S # {}
      /\ S \in SUBSET (1..MaxJobs)
      /\ \A i \in S : Phase(i) = "working"
  BY Working DEF Phase, Owned
<1>3. \A i \in 1..MaxJobs : Phase(i)' = IF i \in S THEN "waiting" ELSE Phase(i)
  <2>1. \A i \in 1..MaxJobs : ~Owned(i)' /\ ((i \in Ids)' <=> i \in Ids)
    BY <1>1 DEF Owned, Ids
  <2>2. \A i \in S : jobs[i].status = "processing" /\ i \in Ids
    BY Working
  <2>3. \A i \in S : i \in 1..MaxJobs => Phase(i)' = "waiting"
    BY <1>1, <2>1, <2>2 DEF Phase
  <2>4. \A i \in (1..MaxJobs) \ S : Phase(i)' = Phase(i)
    <3> SUFFICES ASSUME NEW i \in (1..MaxJobs) \ S
                 PROVE  Phase(i)' = Phase(i)
      OBVIOUS
    <3>1. ~Owned(i)
      BY DEF Owned, Inv, TypeOK
    <3> QED
      BY <1>1, <2>1, <3>1, SamePhase
  <2> QED
    BY <2>3, <2>4
<1>4. PausedRows' = PausedRows
  BY <1>1 DEF PausedRows, WithStatus, Ids
<1> HIDE DEF S
<1>5. Lifecycle!GiveBack(S)
  BY <1>2, <1>3, <1>4, InPhase, MovePhases DEF Lifecycle!GiveBack, PausedRows
<1> QED
  BY <1>2, <1>5 DEF Lifecycle!Next

(* The recovery at startup takes nobody's row and changes no phase.         *)
LEMMA StartStutters ==
  ASSUME SoloProcess, Inv, QueueBounded, NEW p \in Procs, Start(p)
  PROVE  /\ \A i \in 1..MaxJobs : Phase(i)' = Phase(i)
         /\ PausedRows' = PausedRows
<1>1. /\ Ids' = Ids
      /\ \A i \in Ids : jobs'[i].status = IF jobs[i].status = "processing"
                                          THEN "pending" ELSE jobs[i].status
  BY RowTypes DEF Start, Ids, Job, Inv
<1>2. \A i \in 1..MaxJobs : ~Owned(i) /\ ~Owned(i)'
  BY OwnersAtStart
<1> QED
  BY <1>1, <1>2, SamePhase DEF PausedRows, WithStatus

(* Priorities, clocks, the network and cleared letters are not the          *)
(* lifecycle's business.                                                   *)
LEMMA QuietStutters ==
  ASSUME Ids' = Ids, \A i \in Ids : jobs'[i].status = jobs[i].status,
         UNCHANGED tasks
  PROVE  /\ \A i \in 1..MaxJobs : Phase(i)' = Phase(i)
         /\ PausedRows' = PausedRows
<1>1. \A i \in 1..MaxJobs : Owned(i)' <=> Owned(i)
  BY DEF Owned
<1> QED
  BY <1>1, SamePhase DEF PausedRows, WithStatus

-----------------------------------------------------------------------------
(* The refinement.                                                         *)

LifecycleVars == <<[i \in 1..MaxJobs |-> Phase(i)], PausedRows>>

LEMMA Stutter ==
  ASSUME \A i \in 1..MaxJobs : Phase(i)' = Phase(i), PausedRows' = PausedRows
  PROVE  UNCHANGED LifecycleVars
BY DEF LifecycleVars

LEMMA StepRefines ==
  ASSUME SoloProcess, Inv, QueueBounded, [Next]_vars
  PROVE  Lifecycle!Next \/ UNCHANGED LifecycleVars
<1>1. TypeOK /\ jobs \in [Ids -> Job]
  BY RowTypes DEF Ids, TypeOK, Inv
<1>2. CASE UserStep
  <2>1. ASSUME NEW u \in Urls, NEW p \in Priorities, Enqueue(u, p)
        PROVE  Lifecycle!Next
    BY <2>1, AddAccepts DEF Enqueue
  <2>2. ASSUME NEW i \in Ids, NEW p \in Priorities, SetJobPriority(i, p)
        PROVE  UNCHANGED LifecycleVars
    <3>1. Ids' = Ids /\ \A k \in Ids : jobs'[k].status = jobs[k].status
      BY <1>1, <2>2 DEF SetJobPriority, Job, Ids
    <3> QED
      BY <2>2, <3>1, QuietStutters, Stutter DEF SetJobPriority
  <2>3. ASSUME NEW i \in Ids, PauseJob(i) \/ ResumeJob(i)
        PROVE  Lifecycle!Next
    BY <2>3, PauseHolds
  <2>4. ASSUME NEW d \in deadLetters, RetryDeadLetter(d)
        PROVE  Lifecycle!Next \/ UNCHANGED LifecycleVars
    <3>1. d.url \in Urls /\ d.priority \in Priorities
      BY <1>1 DEF TypeOK, DeadLetter
    <3>2. CASE UNCHANGED jobs
      <4>1. Ids' = Ids /\ UNCHANGED tasks
        BY <2>4, <3>2 DEF Ids, RetryDeadLetter
      <4> QED
        BY <3>2, <4>1, QuietStutters, Stutter
    <3> QED
      BY <2>4, <3>1, <3>2, AddAccepts DEF RetryDeadLetter
  <2>5. ASSUME NEW b \in BOOLEAN, ClearDeadLetters(b)
        PROVE  UNCHANGED LifecycleVars
    <3>1. UNCHANGED <<jobs, tasks>> /\ Ids' = Ids
      BY <2>5 DEF ClearDeadLetters, Ids
    <3> QED
      BY <3>1, QuietStutters, Stutter
  <2> QED
    BY <1>2, <2>1, <2>2, <2>3, <2>4, <2>5 DEF UserStep
<1>3. CASE WorkerStep
  BY <1>3, ClaimBegins, AttemptEnds DEF WorkerStep
<1>4. CASE EnvStep
  <2>1. ASSUME NEW p \in Procs, Start(p)
        PROVE  UNCHANGED LifecycleVars
    BY <2>1, StartStutters, Stutter
  <2>2. ASSUME NEW p \in Procs, Stop(p)
        PROVE  Lifecycle!Next \/ UNCHANGED LifecycleVars
    <3>1. CASE tasks = {}
      <4>1. UNCHANGED <<jobs, tasks>> /\ Ids' = Ids
        BY <2>2, <3>1 DEF Stop, Ids
      <4> QED
        BY <4>1, QuietStutters, Stutter
    <3> QED
      BY <2>2, <3>1, StopGivesBack
  <2>3. ASSUME NEW i \in Ids, BackoffElapses(i)
        PROVE  UNCHANGED LifecycleVars
    <3>1. Ids' = Ids /\ \A k \in Ids : jobs'[k].status = jobs[k].status
      BY <1>1, <2>3 DEF BackoffElapses, Job, Ids
    <3> QED
      BY <2>3, <3>1, QuietStutters, Stutter DEF BackoffElapses
  <2>4. ASSUME GoOnline \/ GoOffline
        PROVE  UNCHANGED LifecycleVars
    <3>1. UNCHANGED <<jobs, tasks>> /\ Ids' = Ids
      BY <2>4 DEF GoOnline, GoOffline, Ids
    <3> QED
      BY <3>1, QuietStutters, Stutter
  <2> QED
    BY <1>4, <2>1, <2>2, <2>3, <2>4 DEF EnvStep
<1>5. CASE UNCHANGED vars
  <2>1. UNCHANGED <<jobs, tasks>> /\ Ids' = Ids
    BY <1>5 DEF vars, Ids
  <2> QED
    BY <2>1, QuietStutters, Stutter
<1> QED
  BY <1>2, <1>3, <1>4, <1>5 DEF Next

LEMMA InitRefines == Init => Lifecycle!Init
BY DEF Init, Lifecycle!Init, Phase, WithStatus, Ids

(* Each job of a single process waits, is worked on by one task at a time,  *)
(* is given back when its attempt fails or is cut short, is held by nobody  *)
(* but the user, and is settled once: the queue implements JobLifecycle.    *)
THEOREM LifecycleImplemented == SoloProcess => (Spec => ImplementsLifecycle)
<1> SUFFICES ASSUME SoloProcess PROVE Spec => ImplementsLifecycle
  OBVIOUS
<1>1. Init => QueueBounded
  BY DEF Init, QueueBounded, LettersOfJobs, Ids
<1>2. TypeOK /\ QueueBounded /\ [Next]_vars => QueueBounded'
  BY QueueBoundedStep
<1>3. Spec => []QueueBounded
  BY <1>1, <1>2, TypeCorrect, PTL DEF Spec
<1>4. Inv /\ QueueBounded /\ [Next]_vars => [Lifecycle!Next]_LifecycleVars
  BY StepRefines
<1> QED
  BY <1>3, <1>4, InitRefines, Invariance, PTL
     DEF Spec, ImplementsLifecycle, Lifecycle!Spec, LifecycleVars, PausedRows

=============================================================================
