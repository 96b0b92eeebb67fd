-------------------------- MODULE BatchDownloadProofs --------------------------
(***************************************************************************)
(* Theorems about BatchDownload. A batch attempt does to the queue what     *)
(* JobQueue says an attempt does, so the theorems of JobQueueProofs hold of *)
(* the batch jobs, too. Then the invariants of the batches themselves.     *)
(***************************************************************************)
EXTENDS BatchDownload, JobQueueProofs

LEMMA AttemptIsQueueStep ==
  ASSUME NEW t \in tasks, AttemptStep(t)
  PROVE  Next \/ UNCHANGED vars
<1>1. CASE \E E \in SUBSET Videos : Prepare(t, E)
  BY <1>1 DEF Prepare
<1>2. CASE \E v \in Videos : FinishFile(t, v)
  BY <1>2 DEF FinishFile
<1>3. CASE \E V \in SUBSET work[t.job].cur : EndFile(t, V)
  BY <1>3 DEF EndFile
<1>4. CASE Complete(t)
  <2>1. Succeed(t)
    BY <1>4 DEF Complete
  <2> QED BY <2>1 DEF Next, WorkerStep, Settle
<1>5. CASE \E G \in SUBSET work[t.job].got : FailAttempt(t, G)
  <2>1. FailAndRequeue(t) \/ FailAndDeadLetter(t)
    BY <1>5 DEF FailAttempt, FailJob
  <2> QED BY <2>1 DEF Next, WorkerStep, Settle
<1>6. CASE \E E \in SUBSET Videos : PrepareRefused(t, E)
  <2>1. FailAndRequeue(t) \/ FailAndDeadLetter(t)
    BY <1>6 DEF PrepareRefused, FailJob
  <2> QED BY <2>1 DEF Next, WorkerStep, Settle
<1>7. CASE \E G \in SUBSET work[t.job].got : StrandJob(t, G)
  <2>1. BookkeepingFails(t)
    BY <1>7 DEF StrandJob
  <2> QED BY <2>1 DEF Next, WorkerStep
<1> QED BY <1>1, <1>2, <1>3, <1>4, <1>5, <1>6, <1>7 DEF AttemptStep

LEMMA ProcessIsQueueStep ==
  ASSUME NEW p \in Procs, ProcessStep(p)
  PROVE  Next
<1>1. Start(p) \/ Stop(p)
  BY DEF ProcessStep, Restart, StopIdle, StopWhileSettling, StopWhilePreparing
<1> QED BY <1>1 DEF Next, EnvStep

LEMMA BatchIsQueueStep ==
  ASSUME [BatchNext]_allVars
  PROVE  [Next]_vars
<1>1. CASE \/ UserStepB
           \/ \E u \in Urls, p \in Priorities, k \in Targets : EnqueueAs(u, p, k)
           \/ \E b \in BOOLEAN : ClearLetters(b)
  BY <1>1 DEF UserStepB, EnqueueAs, ClearLetters, Next, UserStep
<1>2. CASE ClockAndNetworkStep
  BY <1>2 DEF ClockAndNetworkStep, Next, EnvStep
<1>3. CASE \E d \in deadLetters : RetryLetter(d)
  BY <1>3 DEF RetryLetter, Next, UserStep
<1>4. CASE \E r \in Runners : ClaimJobs(r)
  BY <1>4 DEF ClaimJobs, Next, WorkerStep
<1>5. CASE \E t \in tasks : AttemptStep(t)
  BY <1>5, AttemptIsQueueStep
<1>6. CASE \E p \in Procs : ProcessStep(p)
  BY <1>6, ProcessIsQueueStep
<1>7. CASE UNCHANGED allVars
  BY <1>7 DEF allVars
<1> QED BY <1>1, <1>2, <1>3, <1>4, <1>5, <1>6, <1>7 DEF BatchNext

(* Everything JobQueue does not say about an attempt (discovery, items,     *)
(* catalogue, archive) leaves the queue alone: batch jobs are queue jobs.   *)
THEOREM QueueRefined == BatchSpec => Spec
<1>1. BatchInit => Init
  BY DEF BatchInit
<1>2. [BatchNext]_allVars => [Next]_vars
  BY BatchIsQueueStep
<1> QED BY <1>1, <1>2, PTL DEF BatchSpec, Spec

-----------------------------------------------------------------------------
(* The writes to the table of batches. A table extends another if it has    *)
(* all its rows and every item that was done still is; it is clean if its   *)
(* completed batches have nothing pending.                                 *)

Extends(bs, cs) ==
  /\ cs \in Seq(Batch)
  /\ DOMAIN bs \subseteq DOMAIN cs
  /\ \A b \in DOMAIN bs, v \in Videos :
       bs[b].items[v] = "done" => cs[b].items[v] = "done"

Clean(bs) ==
  \A b \in DOMAIN bs, v \in Videos :
    bs[b].status = "completed" => bs[b].items[v] # "pending"

LEMMA WithItemsTable ==
  ASSUME NEW bs \in Seq(Batch), NEW b \in DOMAIN bs, NEW V,
         NEW s \in {"pending", "done"}
  PROVE  LET cs == WithItems(bs, b, V, s)
         IN /\ cs \in Seq(Batch)
            /\ DOMAIN cs = DOMAIN bs
            /\ \A c \in DOMAIN bs : cs[c].status = bs[c].status
            /\ \A c \in DOMAIN bs, v \in Videos :
                 cs[c].items[v] = IF c = b /\ v \in V THEN s ELSE bs[c].items[v]
<1> DEFINE cs == WithItems(bs, b, V, s)
<1>1. \A c \in DOMAIN bs : bs[c] \in Batch
  OBVIOUS
<1>2. cs \in [DOMAIN bs -> Batch]
  BY <1>1 DEF WithItems, Batch
<1>3. cs \in Seq(Batch) /\ DOMAIN cs = DOMAIN bs
  BY <1>2, UpdateRows
<1>4. \A c \in DOMAIN bs : cs[c].status = bs[c].status
  BY <1>1 DEF WithItems, Batch
<1>5. \A c \in DOMAIN bs, v \in Videos :
        cs[c].items[v] = IF c = b /\ v \in V THEN s ELSE bs[c].items[v]
  BY <1>1 DEF WithItems, Batch
<1> QED
  BY <1>3, <1>4, <1>5

LEMMA MarkItemsDoneTable ==
  ASSUME NEW bs \in Seq(Batch), NEW b \in DOMAIN bs \union {0}, NEW V, Clean(bs)
  PROVE  /\ Extends(bs, MarkItemsDone(bs, b, V))
         /\ Clean(MarkItemsDone(bs, b, V))
         /\ DOMAIN MarkItemsDone(bs, b, V) = DOMAIN bs
<1>1. CASE b = 0
  BY <1>1 DEF MarkItemsDone, Extends
<1>2. CASE b # 0
  <2> DEFINE W == {v \in V : bs[b].items[v] # "none"}
             cs == WithItems(bs, b, W, "done")
  <2>1. MarkItemsDone(bs, b, V) = cs /\ b \in DOMAIN bs
    BY <1>2 DEF MarkItemsDone
  <2>2. /\ cs \in Seq(Batch)
        /\ DOMAIN cs = DOMAIN bs
        /\ \A c \in DOMAIN bs : cs[c].status = bs[c].status
        /\ \A c \in DOMAIN bs, v \in Videos :
             cs[c].items[v] = IF c = b /\ v \in W THEN "done" ELSE bs[c].items[v]
    BY <2>1, WithItemsTable
  <2> HIDE DEF cs, W
  <2> QED
    BY <2>1, <2>2 DEF Extends, Clean
<1> QED
  BY <1>1, <1>2

LEMMA ListedTable ==
  ASSUME NEW bs \in Seq(Batch), NEW b \in DOMAIN bs, NEW E, Clean(bs),
         bs[b].status # "completed"
  PROVE  /\ Extends(bs, Listed(bs, b, E))
         /\ Clean(Listed(bs, b, E))
         /\ DOMAIN Listed(bs, b, E) = DOMAIN bs
<1> DEFINE W == {v \in E : bs[b].items[v] # "done"}
           cs == WithItems(bs, b, W, "pending")
<1>1. Listed(bs, b, E) = cs
  BY DEF Listed
<1>2. /\ cs \in Seq(Batch)
      /\ DOMAIN cs = DOMAIN bs
      /\ \A c \in DOMAIN bs : cs[c].status = bs[c].status
      /\ \A c \in DOMAIN bs, v \in Videos :
           cs[c].items[v] = IF c = b /\ v \in W THEN "pending" ELSE bs[c].items[v]
  BY WithItemsTable
<1>3. \A v \in W : bs[b].items[v] # "done"
  OBVIOUS
<1> HIDE DEF cs, W
<1> QED
  BY <1>1, <1>2, <1>3 DEF Extends, Clean

LEMMA MarkedTable ==
  ASSUME NEW bs \in Seq(Batch), NEW b \in DOMAIN bs, NEW s \in BatchStatus, Clean(bs),
         s = "completed" => \A v \in Videos : bs[b].items[v] # "pending"
  PROVE  /\ Extends(bs, Marked(bs, b, s))
         /\ Clean(Marked(bs, b, s))
         /\ DOMAIN Marked(bs, b, s) = DOMAIN bs
         /\ Marked(bs, b, s)[b].status = s
<1> DEFINE cs == Marked(bs, b, s)
<1>1. \A c \in DOMAIN bs : bs[c] \in Batch
  OBVIOUS
<1>2. cs \in [DOMAIN bs -> Batch]
  BY <1>1 DEF Marked, Batch
<1>3. cs \in Seq(Batch) /\ DOMAIN cs = DOMAIN bs
  BY <1>2, UpdateRows
<1>4. \A c \in DOMAIN bs : /\ cs[c].items = bs[c].items
                            /\ cs[c].status = IF c = b THEN s ELSE bs[c].status
  BY <1>1 DEF Marked, Batch
<1> HIDE DEF cs
<1> QED
  BY <1>3, <1>4 DEF cs, Extends, Clean

LEMMA ExtendsTransitive ==
  ASSUME NEW as, NEW bs, NEW cs, Extends(as, bs), Extends(bs, cs)
  PROVE  Extends(as, cs)
BY DEF Extends

-----------------------------------------------------------------------------
(* The invariant of the batches. Every row of the queue has its batch and   *)
(* its progress record, since the rows stay within their bound.             *)

BatchInv == BatchTypeOK /\ QueueBounded /\ Clean(batches)

LEMMA OpenedTable ==
  ASSUME BatchInv, NEW t \in tasks, NEW b \in BatchFor(t)
  PROVE  /\ Extends(batches, Opened(t, b))
         /\ Clean(Opened(t, b))
         /\ DOMAIN Opened(t, b) = Batches \union {b}
         /\ Opened(t, b)[b].status = "running"
<1> DEFINE u == jobs[t.job].url
           k == typeOf[t.job]
           row == [url |-> u, type |-> k, status |-> "running",
                   items |-> [v \in Videos |-> "none"]]
<1>1. batches \in Seq(Batch) /\ u \in Urls /\ k \in Target /\ Clean(batches)
  BY RowTypes DEF BatchInv, BatchTypeOK, QueueBounded, TypeOK
<1>2. CASE ToResume(u, k) = {}
  <2>1. b = Len(batches) + 1
    BY <1>2 DEF BatchFor
  <2>2. row \in Batch
    BY <1>1 DEF Batch, BatchStatus
  <2>3. b \notin Batches
    BY <1>1, <2>1 DEF Batches
  <2>4. Opened(t, b) = Append(batches, row)
    BY <2>3 DEF Opened
  <2>5. row.status = "running" /\ row.items = [v \in Videos |-> "none"]
    OBVIOUS
  <2> HIDE DEF row, u, k
  <2>6. /\ Append(batches, row) \in Seq(Batch)
        /\ DOMAIN Append(batches, row) = Batches \union {b}
        /\ \A c \in Batches : Append(batches, row)[c] = batches[c]
        /\ Append(batches, row)[b] = row
    BY <1>1, <2>1, <2>2, AddRow DEF Batches
  <2> QED
    BY <1>1, <2>4, <2>5, <2>6 DEF Extends, Clean, Batches
<1>3. CASE ToResume(u, k) # {}
  <2>1. b \in Batches
    BY <1>3 DEF BatchFor, ToResume
  <2>2. Opened(t, b) = Marked(batches, b, "running")
    BY <2>1 DEF Opened
  <2>3. /\ Extends(batches, Marked(batches, b, "running"))
        /\ Clean(Marked(batches, b, "running"))
        /\ DOMAIN Marked(batches, b, "running") = Batches
        /\ Marked(batches, b, "running")[b].status = "running"
    <3>1. "running" \in BatchStatus /\ "running" # "completed"
      BY DEF BatchStatus
    <3> QED
      BY <1>1, <2>1, <3>1, MarkedTable DEF Batches
  <2> QED
    BY <2>1, <2>2, <2>3
<1> QED
  BY <1>2, <1>3

LEMMA PreparedTable ==
  ASSUME BatchInv, NEW t \in tasks, NEW b \in BatchFor(t), NEW E
  PROVE  /\ Extends(batches, Listed(Opened(t, b), b, E))
         /\ Clean(Listed(Opened(t, b), b, E))
         /\ DOMAIN Listed(Opened(t, b), b, E) = Batches \union {b}
<1>1. /\ Extends(batches, Opened(t, b))
      /\ Clean(Opened(t, b))
      /\ DOMAIN Opened(t, b) = Batches \union {b}
      /\ Opened(t, b)[b].status = "running"
  BY OpenedTable
<1>2. Opened(t, b) \in Seq(Batch)
  BY <1>1 DEF Extends
<1> HIDE DEF Opened
<1> QED
  BY <1>1, <1>2, ListedTable, ExtendsTransitive

LEMMA SettlingTable ==
  ASSUME BatchInv, NEW t \in tasks, NEW G
  PROVE  /\ Extends(batches, Settling(t, G))
         /\ Clean(Settling(t, G))
         /\ DOMAIN Settling(t, G) = Batches
<1> DEFINE b == work[t.job].batch
           half == MarkItemsDone(batches, b, G)
<1>1. b \in Batches \union {0} /\ batches \in Seq(Batch) /\ Clean(batches)
  BY DEF BatchInv, BatchTypeOK, TypeOK, QueueBounded
<1>2. Extends(batches, half) /\ Clean(half) /\ DOMAIN half = Batches
  BY <1>1, MarkItemsDoneTable DEF Batches
<1>3. half \in Seq(Batch)
  BY <1>2 DEF Extends
<1>4. Settling(t, G) = MarkItemsDone(half, b, downloaded \union G)
  BY DEF Settling, Reconciled
<1> HIDE DEF half, b
<1> QED
  BY <1>1, <1>2, <1>3, <1>4, MarkItemsDoneTable, ExtendsTransitive

LEMMA MarkedSettling ==
  ASSUME BatchInv, NEW t \in tasks, NEW G, work[t.job].batch # 0,
         NEW s \in BatchStatus, s = "completed" => AllDone(t, G)
  PROVE  /\ Extends(batches, Marked(Settling(t, G), work[t.job].batch, s))
         /\ Clean(Marked(Settling(t, G), work[t.job].batch, s))
         /\ DOMAIN Marked(Settling(t, G), work[t.job].batch, s) = Batches
<1> DEFINE b == work[t.job].batch
           cs == Settling(t, G)
<1>1. Extends(batches, cs) /\ Clean(cs) /\ DOMAIN cs = Batches
  BY SettlingTable
<1>2. cs \in Seq(Batch) /\ b \in DOMAIN cs
  BY <1>1 DEF Extends, BatchInv, BatchTypeOK, QueueBounded, TypeOK
<1>3. s = "completed" => \A v \in Videos : cs[b].items[v] # "pending"
  BY DEF AllDone, ItemsPending
<1> HIDE DEF cs, b
<1>4. /\ Extends(cs, Marked(cs, b, s))
      /\ Clean(Marked(cs, b, s))
      /\ DOMAIN Marked(cs, b, s) = DOMAIN cs
  BY <1>1, <1>2, <1>3, MarkedTable
<1> QED
  BY <1>1, <1>4, ExtendsTransitive DEF cs, b

LEMMA FailedIsStatus ==
  ASSUME NEW t
  PROVE  FailedStatus(t) \in BatchStatus /\ FailedStatus(t) # "completed"
BY DEF FailedStatus, BatchStatus

LEMMA HalfSettledTable ==
  ASSUME BatchInv, NEW t \in tasks, NEW G, NEW cs \in HalfSettled(t, G)
  PROVE  Extends(batches, cs) /\ Clean(cs) /\ DOMAIN cs = Batches
<1> DEFINE b == work[t.job].batch
<1>1. b \in Batches \union {0} /\ batches \in Seq(Batch) /\ Clean(batches)
  BY DEF BatchInv, BatchTypeOK, TypeOK, QueueBounded
<1>2. CASE b = 0
  BY <1>1, <1>2 DEF HalfSettled, Extends, Batches
<1>3. CASE b # 0 /\ cs = MarkItemsDone(batches, b, G)
  BY <1>1, <1>3, MarkItemsDoneTable DEF Batches
<1>4. CASE b # 0 /\ cs = Settling(t, G)
  BY <1>4, SettlingTable
<1>5. CASE b # 0 /\ \E s \in BatchStatus :
             cs = Marked(Settling(t, G), b, s) /\ (s = "completed" => AllDone(t, G))
  BY <1>5, MarkedSettling
<1>6. \/ b = 0
      \/ b # 0 /\ cs = MarkItemsDone(batches, b, G)
      \/ b # 0 /\ cs = Settling(t, G)
      \/ b # 0 /\ \E s \in BatchStatus :
           cs = Marked(Settling(t, G), b, s) /\ (s = "completed" => AllDone(t, G))
  <2> SUFFICES ASSUME b # 0
               PROVE  \/ cs = MarkItemsDone(batches, b, G)
                      \/ cs = Settling(t, G)
                      \/ \E s \in BatchStatus :
                           /\ cs = Marked(Settling(t, G), b, s)
                           /\ s = "completed" => AllDone(t, G)
    OBVIOUS
  <2>1. \/ cs = MarkItemsDone(batches, b, G)
        \/ cs = Settling(t, G)
        \/ cs = Marked(Settling(t, G), b, FailedStatus(t))
        \/ cs = Marked(Settling(t, G), b, "completed") /\ AllDone(t, G)
        \/ cs = Marked(Settling(t, G), b, "partial")
    BY DEF HalfSettled
  <2>2. "completed" \in BatchStatus /\ "partial" \in BatchStatus
    BY DEF BatchStatus
  <2> QED
    BY <2>1, <2>2, FailedIsStatus
<1> QED
  BY <1>2, <1>3, <1>4, <1>5, <1>6

-----------------------------------------------------------------------------
(* Each step extends the table, leaves it clean, and keeps the types of the *)
(* other variables.                                                        *)

LocalTypes ==
  /\ batchOf \in [1..MaxJobs -> Batches \union {0}]
  /\ downloaded \subseteq Videos
  /\ archive \subseteq Videos
  /\ work \in [1..MaxJobs -> Work]
  /\ \A i \in 1..MaxJobs : work[i].batch \in Batches \union {0}
  /\ completedOnce \subseteq Batches
  /\ lost \subseteq Videos
  /\ typeOf \in [1..MaxJobs -> Target]
  /\ cleared \subseteq Nat

GoodStep == Extends(batches, batches') /\ Clean(batches') /\ LocalTypes'

LEMMA BatchFacts ==
  ASSUME BatchInv
  PROVE  /\ batches \in Seq(Batch) /\ Clean(batches) /\ LocalTypes
         /\ Extends(batches, batches)
         /\ Batches \subseteq Nat \ {0}
         /\ TypeOK /\ Ids \subseteq 1..MaxJobs /\ LettersOfJobs
         /\ \A i \in 1..MaxJobs :
              /\ work[i] \in Work
              /\ work[i].cur \subseteq Videos
              /\ work[i].got \subseteq Videos
              /\ work[i].batch \in Nat
<1>1. batches \in Seq(Batch) /\ Clean(batches) /\ LocalTypes
      /\ TypeOK /\ Ids \subseteq 1..MaxJobs /\ LettersOfJobs
  BY DEF BatchInv, BatchTypeOK, LocalTypes, QueueBounded
<1>2. Extends(batches, batches) /\ Batches \subseteq Nat \ {0}
  BY <1>1 DEF Extends, Batches
<1>3. \A i \in 1..MaxJobs : /\ work[i] \in Work
                            /\ work[i].cur \subseteq Videos
                            /\ work[i].got \subseteq Videos
                            /\ work[i].batch \in Nat
  BY <1>1 DEF LocalTypes, Work
<1> QED
  BY <1>1, <1>2, <1>3

LEMMA IdleType == Idle \in Work /\ Idle.batch = 0
BY DEF Idle, Work

LEMMA UserGood ==
  ASSUME BatchInv, UNCHANGED batchVars
  PROVE  GoodStep
BY BatchFacts DEF batchVars, userVars, GoodStep, LocalTypes, Clean, Extends, Batches

LEMMA EnqueueGood ==
  ASSUME BatchInv, NEW u, NEW p, NEW k \in Targets, EnqueueAs(u, p, k)
  PROVE  GoodStep
<1>1. typeOf' \in [1..MaxJobs -> Target]
  BY BatchFacts DEF EnqueueAs, LocalTypes, Target
<1> QED
  BY <1>1, BatchFacts DEF EnqueueAs, GoodStep, LocalTypes, Clean, Extends, Batches

LEMMA ClearGood ==
  ASSUME BatchInv, NEW retried, ClearLetters(retried)
  PROVE  GoodStep
<1>1. \A d \in deadLetters : d.job \in Nat
  BY BatchFacts DEF TypeOK, DeadLetter
<1>2. cleared' \subseteq Nat
  BY <1>1, BatchFacts DEF ClearLetters, LocalTypes
<1> QED
  BY <1>2, BatchFacts DEF ClearLetters, GoodStep, LocalTypes, Clean, Extends, Batches

LEMMA RetryGood ==
  ASSUME BatchInv, NEW d \in deadLetters, RetryLetter(d)
  PROVE  GoodStep
<1>1. batchOf[d.job] \in Batches \union {0}
  BY BatchFacts DEF LettersOfJobs, LocalTypes
<1>2. batchOf' \in [1..MaxJobs -> Batches \union {0}]
  BY <1>1, BatchFacts DEF RetryLetter, LocalTypes
<1>3. typeOf' \in [1..MaxJobs -> Target]
  BY BatchFacts DEF RetryLetter, LettersOfJobs, LocalTypes
<1> QED
  BY <1>2, <1>3, BatchFacts
     DEF RetryLetter, GoodStep, LocalTypes, Clean, Extends, Batches

LEMMA ClaimGood ==
  ASSUME BatchInv, NEW r \in Runners, ClaimJobs(r)
  PROVE  GoodStep
<1> DEFINE Discovering(i) == [Idle EXCEPT !.at = "discover", !.batch = batchOf[i]]
           Fetching == [Idle EXCEPT !.at = "fetch", !.seen = archive]
<1>1. \A i \in 1..MaxJobs : /\ Discovering(i) \in Work
                            /\ Discovering(i).batch \in Batches \union {0}
  <2>1. \A i \in 1..MaxJobs : batchOf[i] \in Nat /\ batchOf[i] \in Batches \union {0}
    BY BatchFacts DEF LocalTypes
  <2> QED
    BY <2>1 DEF Idle, Work
<1>2. Fetching \in Work /\ Fetching.batch = 0
  BY BatchFacts DEF Idle, Work, LocalTypes
<1>3. work' = [i \in 1..MaxJobs |->
                 IF i \notin Picked THEN work[i]
                 ELSE IF typeOf[i] \in BatchTypes THEN Discovering(i) ELSE Fetching]
  BY DEF ClaimJobs
<1> HIDE DEF Discovering, Fetching
<1>4. /\ work' \in [1..MaxJobs -> Work]
      /\ \A i \in 1..MaxJobs : work'[i].batch \in Batches \union {0}
  BY <1>1, <1>2, <1>3, BatchFacts DEF LocalTypes
<1> QED
  BY <1>4, BatchFacts
     DEF ClaimJobs, userVars, GoodStep, LocalTypes, Clean, Extends, Batches

LEMMA PrepareGood ==
  ASSUME BatchInv, NEW t \in tasks, NEW E \in SUBSET Videos, Prepare(t, E)
  PROVE  GoodStep
<1>1. PICK b \in BatchFor(t) :
        /\ batches' = Reconciled(Listed(Opened(t, b), b, E), b, downloaded)
        /\ batchOf' = [batchOf EXCEPT ![t.job] = b]
        /\ work' = [work EXCEPT ![t.job].at = "fetch", ![t.job].batch = b,
                                ![t.job].seen = archive]
  BY DEF Prepare
<1> DEFINE cs == Listed(Opened(t, b), b, E)
<1>2. Extends(batches, cs) /\ Clean(cs) /\ DOMAIN cs = Batches \union {b}
  BY PreparedTable
<1>3. cs \in Seq(Batch) /\ b \in DOMAIN cs
  BY <1>2 DEF Extends
<1> HIDE DEF cs
<1>4. /\ Extends(cs, batches')
      /\ Clean(batches')
      /\ Batches' = Batches \union {b}
  BY <1>1, <1>2, <1>3, MarkItemsDoneTable DEF Reconciled, cs, Batches
<1>5. Extends(batches, batches') /\ b \in Nat
  <2>1. Extends(batches, batches')
    BY <1>2, <1>4, ExtendsTransitive
  <2> QED
    BY <1>3, <2>1
<1>6. batchOf' \in [1..MaxJobs -> Batches' \union {0}]
  BY <1>1, <1>4, BatchFacts DEF LocalTypes
<1>7. /\ work' \in [1..MaxJobs -> Work]
      /\ \A i \in 1..MaxJobs : work'[i].batch \in Batches' \union {0}
  <2> DEFINE w == [work[t.job] EXCEPT !.at = "fetch", !.batch = b,
                                      !.seen = archive]
  <2>1. t.job \in 1..MaxJobs
    BY BatchFacts DEF TypeOK
  <2>2. work[t.job] \in Work /\ archive \subseteq Videos
    BY <2>1, BatchFacts DEF LocalTypes
  <2>3. w \in Work /\ w.batch = b
    BY <1>5, <2>2 DEF Work
  <2>4. work' = [work EXCEPT ![t.job] = w]
    BY <1>1
  <2> HIDE DEF w
  <2> QED
    BY <1>4, <2>1, <2>3, <2>4, BatchFacts DEF LocalTypes
<1> QED
  BY <1>4, <1>5, <1>6, <1>7, BatchFacts DEF Prepare, userVars, GoodStep, LocalTypes

LEMMA FileGood ==
  ASSUME BatchInv, NEW t \in tasks,
         \/ \E v \in Videos : FinishFile(t, v)
         \/ \E V \in SUBSET work[t.job].cur : EndFile(t, V)
  PROVE  GoodStep
<1>0. t.job \in 1..MaxJobs
  BY BatchFacts DEF TypeOK
<1>1. ASSUME NEW v \in Videos, FinishFile(t, v)
      PROVE  GoodStep
  <2>1. /\ Extends(batches, batches')
        /\ Clean(batches')
        /\ Batches' = Batches
    BY <1>0, <1>1, BatchFacts, MarkItemsDoneTable DEF FinishFile, Batches, LocalTypes
  <2>2. /\ work' \in [1..MaxJobs -> Work]
        /\ \A i \in 1..MaxJobs : work'[i].batch \in Batches \union {0}
    <3>1. \A w \in Work : [w EXCEPT !.cur = {v}] \in Work
                          /\ [w EXCEPT !.cur = {v}].batch = w.batch
      BY DEF Work
    <3>2. work' = [work EXCEPT ![t.job] = [work[t.job] EXCEPT !.cur = {v}]]
      BY <1>1 DEF FinishFile
    <3> QED
      BY <1>0, <3>1, <3>2, BatchFacts DEF LocalTypes
  <2> QED
    BY <1>1, <2>1, <2>2, BatchFacts DEF FinishFile, userVars, GoodStep, LocalTypes
<1>2. ASSUME NEW V \in SUBSET work[t.job].cur, EndFile(t, V)
      PROVE  GoodStep
  <2>1. archive' \subseteq Videos
    BY <1>0, <1>2, BatchFacts DEF EndFile, LocalTypes
  <2>2. /\ work' \in [1..MaxJobs -> Work]
        /\ \A i \in 1..MaxJobs : work'[i].batch \in Batches \union {0}
    <3> DEFINE w == [work[t.job] EXCEPT !.cur = {}, !.got = @ \union work[t.job].cur]
    <3>1. work[t.job] \in Work /\ work[t.job].batch \in Batches \union {0}
      BY <1>0, BatchFacts DEF LocalTypes
    <3>2. w \in Work /\ w.batch = work[t.job].batch
      BY <3>1 DEF Work
    <3>3. work' = [work EXCEPT ![t.job] = w]
      BY <1>2 DEF EndFile
    <3> HIDE DEF w
    <3> QED
      BY <1>0, <3>1, <3>2, <3>3, BatchFacts DEF LocalTypes
  <2> QED
    BY <1>2, <2>1, <2>2, BatchFacts
       DEF EndFile, userVars, GoodStep, LocalTypes, Clean, Batches
<1> QED
  BY <1>1, <1>2

(* The attempt ends: its progress record is idle again.                     *)
LEMMA LeaveTypes ==
  ASSUME BatchInv, NEW t \in tasks, work' = [work EXCEPT ![t.job] = Idle]
  PROVE  /\ work' \in [1..MaxJobs -> Work]
         /\ \A i \in 1..MaxJobs : work'[i].batch \in Batches \union {0}
BY BatchFacts, IdleType DEF LocalTypes

LEMMA CompleteGood ==
  ASSUME BatchInv, NEW t \in tasks, Complete(t)
  PROVE  GoodStep
<1> DEFINE b == work[t.job].batch
           G == work[t.job].got
<1>1. t.job \in 1..MaxJobs /\ b \in Batches \union {0} /\ G \subseteq Videos
  BY BatchFacts DEF TypeOK, LocalTypes
<1>2. /\ Extends(batches, batches')
      /\ Clean(batches')
      /\ Batches' = Batches
  <2>1. CASE b = 0
    BY <2>1, BatchFacts DEF Complete, Batches
  <2>2. CASE b # 0
    <3>1. "completed" \in BatchStatus /\ AllDone(t, G)
      BY DEF BatchStatus, Complete
    <3>2. batches' = Marked(Settling(t, G), b, "completed")
      BY <2>2 DEF Complete
    <3> QED
      BY <2>2, <3>1, <3>2, MarkedSettling DEF Batches
  <2> QED
    BY <2>1, <2>2
<1>3. completedOnce' \subseteq Batches /\ downloaded' \subseteq Videos
  BY <1>1, BatchFacts DEF Complete, Catalogue, LocalTypes
<1>4. /\ UNCHANGED <<batchOf, archive, lost, typeOf, cleared>>
      /\ work' = [work EXCEPT ![t.job] = Idle]
  BY DEF Complete, Leave, userVars
<1> QED
  BY <1>2, <1>3, <1>4, LeaveTypes, BatchFacts DEF GoodStep, LocalTypes

LEMMA FailAttemptGood ==
  ASSUME BatchInv, NEW t \in tasks, NEW G \in SUBSET work[t.job].got,
         FailAttempt(t, G)
  PROVE  GoodStep
<1> DEFINE b == work[t.job].batch
<1>1. /\ t.job \in 1..MaxJobs
      /\ b \in Batches \union {0}
      /\ work[t.job].got \subseteq Videos
      /\ work[t.job].cur \subseteq Videos
  BY BatchFacts DEF TypeOK, LocalTypes
<1>2. /\ Extends(batches, batches')
      /\ Clean(batches')
      /\ Batches' = Batches
  <2>1. CASE b = 0
    BY <2>1, BatchFacts DEF FailAttempt, Batches
  <2>2. CASE b # 0
    <3>1. batches' = Marked(Settling(t, G), b, FailedStatus(t))
      BY <2>2 DEF FailAttempt
    <3> QED
      BY <2>2, <3>1, FailedIsStatus, MarkedSettling DEF Batches
  <2> QED
    BY <2>1, <2>2
<1>3. downloaded' \subseteq Videos /\ lost' \subseteq Videos
  BY <1>1, BatchFacts DEF FailAttempt, Catalogue, LocalTypes
<1>4. /\ UNCHANGED <<batchOf, archive, completedOnce, typeOf, cleared>>
      /\ work' = [work EXCEPT ![t.job] = Idle]
  BY DEF FailAttempt, Leave, userVars
<1> QED
  BY <1>2, <1>3, <1>4, LeaveTypes, BatchFacts DEF GoodStep, LocalTypes

LEMMA PrepareRefusedGood ==
  ASSUME BatchInv, NEW t \in tasks, NEW E \in SUBSET Videos, PrepareRefused(t, E)
  PROVE  GoodStep
<1> DEFINE old == work[t.job].batch
           Table(b) == Listed(Opened(t, b), b, E)
<1>1. PICK b \in BatchFor(t) :
        /\ batches' = IF old = 0 THEN Table(b)
                      ELSE Marked(Reconciled(Table(b), old, downloaded), old,
                                  FailedStatus(t))
        /\ batchOf' = [batchOf EXCEPT ![t.job] = b]
  BY DEF PrepareRefused
<1> DEFINE cs == Table(b)
           ds == Reconciled(cs, old, downloaded)
<1>2. Extends(batches, cs) /\ Clean(cs) /\ DOMAIN cs = Batches \union {b}
  BY PreparedTable
<1>3. t.job \in 1..MaxJobs /\ old \in Batches \union {0}
  BY BatchFacts DEF TypeOK, LocalTypes
<1>4. batches' = IF old = 0 THEN cs ELSE Marked(ds, old, FailedStatus(t))
  BY <1>1
<1> HIDE DEF cs, old, Table
<1>5. cs \in Seq(Batch)
  BY <1>2 DEF Extends
<1>6. Extends(cs, ds) /\ Clean(ds) /\ DOMAIN ds = Batches \union {b}
  BY <1>2, <1>3, <1>5, MarkItemsDoneTable DEF Reconciled
<1>7. Extends(batches, ds) /\ ds \in Seq(Batch)
  BY <1>2, <1>6, ExtendsTransitive DEF Extends
<1> HIDE DEF ds
<1>8. /\ Extends(batches, batches')
      /\ Clean(batches')
      /\ Batches' = Batches \union {b}
  <2>1. CASE old = 0
    BY <1>2, <1>4, <2>1 DEF Batches
  <2>2. CASE old # 0
    <3>1. /\ Extends(ds, batches')
          /\ Clean(batches')
          /\ DOMAIN batches' = DOMAIN ds
      BY <1>3, <1>4, <1>6, <1>7, <2>2, FailedIsStatus, MarkedTable
    <3> QED
      BY <1>6, <1>7, <3>1, ExtendsTransitive DEF Batches
  <2> QED
    BY <2>1, <2>2
<1>9. batchOf' \in [1..MaxJobs -> Batches' \union {0}]
  BY <1>1, <1>8, BatchFacts DEF LocalTypes
<1>10. work' = [work EXCEPT ![t.job] = Idle]
  BY DEF PrepareRefused
<1> QED
  BY <1>8, <1>9, <1>10, LeaveTypes, BatchFacts
     DEF PrepareRefused, userVars, GoodStep, LocalTypes

(* Stopping midway through the writes that settle a batch.                  *)
LEMMA InterruptGood ==
  ASSUME BatchInv, NEW t \in tasks, NEW G \in SUBSET work[t.job].got,
         Interrupt(t, G)
  PROVE  /\ Extends(batches, batches') /\ Clean(batches') /\ Batches' = Batches
         /\ completedOnce' \subseteq Batches
         /\ downloaded' \subseteq Videos
         /\ UNCHANGED <<batchOf, archive, typeOf, cleared>>
         /\ G \subseteq Videos
<1>1. G \subseteq Videos
  BY BatchFacts DEF TypeOK
<1>2. batches' \in HalfSettled(t, G)
  BY DEF Interrupt
<1>3. Extends(batches, batches') /\ Clean(batches') /\ Batches' = Batches
  BY <1>2, HalfSettledTable DEF Batches
<1> QED
  BY <1>1, <1>3, BatchFacts DEF Interrupt, Catalogue, userVars, LocalTypes

LEMMA StrandGood ==
  ASSUME BatchInv, NEW t \in tasks, NEW G \in SUBSET work[t.job].got,
         StrandJob(t, G)
  PROVE  GoodStep
<1>1. t.job \in 1..MaxJobs
  BY BatchFacts DEF TypeOK
<1>2. lost' \subseteq Videos
  BY <1>1, BatchFacts DEF StrandJob, LocalTypes
<1>3. Interrupt(t, G) /\ work' = [work EXCEPT ![t.job] = Idle]
  BY DEF StrandJob
<1> QED
  BY <1>2, <1>3, InterruptGood, LeaveTypes, BatchFacts DEF GoodStep, LocalTypes

(* The tasks of a process disappear with it.                                *)
LEMMA LeaveAllTypes ==
  ASSUME BatchInv, NEW p, NEW G, LeaveAll(p, G)
  PROVE  /\ work' \in [1..MaxJobs -> Work]
         /\ \A i \in 1..MaxJobs : work'[i].batch \in Batches \union {0}
         /\ lost' \subseteq Videos
<1>1. JobsOf(p) \subseteq 1..MaxJobs
  BY BatchFacts DEF JobsOf, TypeOK
<1>2. \A i \in JobsOf(p) : work[i].cur \union work[i].got \subseteq Videos
  BY <1>1, BatchFacts
<1>3. UNION {work[i].cur \union work[i].got : i \in JobsOf(p)} \subseteq Videos
  BY <1>2, Zenon
<1>4. lost' \subseteq Videos
  BY <1>3, BatchFacts, Zenon DEF LeaveAll, LocalTypes
<1>5. work' = [i \in 1..MaxJobs |-> IF i \in JobsOf(p) THEN Idle ELSE work[i]]
  BY DEF LeaveAll
<1> QED
  BY <1>4, <1>5, IdleType, BatchFacts DEF LocalTypes

LEMMA StopGood ==
  ASSUME BatchInv, NEW p \in Procs,
         \/ StopIdle(p)
         \/ \E t \in tasks : \E G \in SUBSET work[t.job].got :
              StopWhileSettling(p, t, G)
         \/ \E t \in tasks : \E E \in SUBSET Videos : StopWhilePreparing(p, t, E)
  PROVE  GoodStep
<1>1. CASE StopIdle(p)
  <2>1. LeaveAll(p, {})
    BY <1>1 DEF StopIdle
  <2> QED
    BY <1>1, <2>1, LeaveAllTypes, BatchFacts
       DEF StopIdle, userVars, GoodStep, LocalTypes, Clean, Batches
<1>2. ASSUME NEW t \in tasks, NEW G \in SUBSET work[t.job].got,
             StopWhileSettling(p, t, G)
      PROVE  GoodStep
  <2>1. LeaveAll(p, G) /\ Interrupt(t, G)
    BY <1>2 DEF StopWhileSettling
  <2> QED
    BY <2>1, InterruptGood, LeaveAllTypes, BatchFacts DEF GoodStep, LocalTypes
<1>3. ASSUME NEW t \in tasks, NEW E \in SUBSET Videos, StopWhilePreparing(p, t, E)
      PROVE  GoodStep
  <2>1. /\ LeaveAll(p, {})
        /\ UNCHANGED <<downloaded, archive, completedOnce, typeOf, cleared>>
    BY <1>3 DEF StopWhilePreparing, userVars
  <2>2. PICK b \in BatchFor(t) : /\ batches' = Listed(Opened(t, b), b, E)
                                 /\ batchOf' = [batchOf EXCEPT ![t.job] = b]
    BY <1>3 DEF StopWhilePreparing
  <2>3. /\ Extends(batches, batches')
        /\ Clean(batches')
        /\ Batches' = Batches \union {b}
    BY <2>2, PreparedTable DEF Batches
  <2>4. batchOf' \in [1..MaxJobs -> Batches' \union {0}]
    BY <2>2, <2>3, BatchFacts DEF LocalTypes
  <2> QED
    BY <2>1, <2>3, <2>4, LeaveAllTypes, BatchFacts DEF GoodStep, LocalTypes
<1> QED
  BY <1>1, <1>2, <1>3

LEMMA RestartGood ==
  ASSUME BatchInv, NEW p \in Procs, Restart(p)
  PROVE  GoodStep
<1> DEFINE Requeued(b) == IF batches[b].status = "running"
                          THEN [batches[b] EXCEPT !.status = "queued"]
                          ELSE batches[b]
<1>1. batches' = [b \in Batches |-> Requeued(b)]
  BY DEF Restart
<1>2. \A b \in Batches :
        /\ Requeued(b) \in Batch
        /\ Requeued(b).items = batches[b].items
        /\ Requeued(b).status = "completed" => batches[b].status = "completed"
  <2>1. \A b \in Batches : batches[b] \in Batch
    BY BatchFacts DEF Batches
  <2> QED
    BY <2>1 DEF Batch, BatchStatus
<1> HIDE DEF Requeued
<1>3. batches' \in Seq(Batch) /\ Batches' = Batches
  BY <1>1, <1>2, BatchFacts, UpdateRows DEF Batches
<1>4. Extends(batches, batches') /\ Clean(batches')
  BY <1>1, <1>2, <1>3, BatchFacts DEF Extends, Clean, Batches
<1> QED
  BY <1>3, <1>4, BatchFacts DEF Restart, userVars, GoodStep, LocalTypes

LEMMA EveryStepGood ==
  ASSUME BatchInv, [BatchNext]_allVars
  PROVE  GoodStep
<1>1. CASE UserStepB \/ ClockAndNetworkStep \/ UNCHANGED allVars
  BY <1>1, UserGood DEF UserStepB, ClockAndNetworkStep, allVars
<1>2. CASE \E t \in tasks : AttemptStep(t)
  BY <1>2, PrepareGood, FileGood, CompleteGood, FailAttemptGood,
     PrepareRefusedGood, StrandGood DEF AttemptStep
<1>3. CASE \E p \in Procs : ProcessStep(p)
  BY <1>3, RestartGood, StopGood DEF ProcessStep
<1> QED
  BY <1>1, <1>2, <1>3, EnqueueGood, ClearGood, RetryGood, ClaimGood DEF BatchNext

LEMMA BatchInductive ==
  ASSUME BatchInv, [BatchNext]_allVars
  PROVE  BatchInv'
<1>1. TypeOK' /\ QueueBounded'
  BY BatchIsQueueStep, StepTypes, QueueBoundedStep DEF BatchInv, BatchTypeOK
<1>2. Extends(batches, batches') /\ Clean(batches') /\ LocalTypes'
  BY EveryStepGood DEF GoodStep
<1>3. batches' \in Seq(Batch)
  BY <1>2 DEF Extends
<1>4. BatchTypeOK'
  BY <1>1, <1>2, <1>3 DEF BatchTypeOK, LocalTypes
<1> QED
  BY <1>1, <1>2, <1>4 DEF BatchInv, Clean

(* The invariant holds of the process, with faults and crashes at any write. *)
THEOREM BatchInvariance == BatchSpec => []BatchInv
<1>1. BatchInit => BatchInv
  <2> SUFFICES ASSUME BatchInit PROVE BatchInv
    OBVIOUS
  <2>1. TypeOK /\ QueueBounded
    BY ConstantsAssumption
       DEF BatchInit, Init, TypeOK, QueueBounded, LettersOfJobs, Ids
  <2>2. Batches = {} /\ batches \in Seq(Batch) /\ Clean(batches)
    BY DEF BatchInit, Batches, Clean
  <2> QED
    BY <2>1, <2>2, IdleType DEF BatchInit, BatchInv, BatchTypeOK, Target
<1>2. BatchInv /\ [BatchNext]_allVars => BatchInv'
  BY BatchInductive
<1> QED
  BY <1>1, <1>2, PTL DEF BatchSpec

(* The tables, the progress of every task and the history keep their types. *)
THEOREM BatchTypeCorrect == BatchSpec => []BatchTypeOK
<1>1. BatchInv => BatchTypeOK
  BY DEF BatchInv
<1> QED
  BY <1>1, BatchInvariance, PTL

(* A completed batch has nothing left to download, however many attempts,   *)
(* restarts, crashes and refused writes worked on it, in one process        *)
(* (OneProcess): the count of the pending items and the status are two      *)
(* writes, which only one event loop keeps together.                        *)
THEOREM CompletedHolds == BatchSpec => []CompletedHasNoPending
<1>1. BatchInv => CompletedHasNoPending
  BY DEF BatchInv, Clean, CompletedHasNoPending, ItemsPending, Batches
<1> QED
  BY <1>1, BatchInvariance, PTL

(* A resumed batch never starts over: no step takes back an item that is    *)
(* done, nor removes its batch.                                            *)
THEOREM DoneItemsStayHolds == BatchSpec => DoneItemsStay
<1> DEFINE Stay == \A b \in Batches, v \in Videos :
                     batches[b].items[v] = "done" => batches'[b].items[v] = "done"
<1>1. BatchInv /\ [BatchNext]_allVars => [Stay]_allVars
  <2> SUFFICES ASSUME BatchInv, [BatchNext]_allVars PROVE Stay
    OBVIOUS
  <2>1. Extends(batches, batches')
    BY EveryStepGood DEF GoodStep
  <2> QED
    BY <2>1 DEF Extends, Batches
<1> QED
  BY <1>1, BatchInvariance, PTL DEF BatchSpec, DoneItemsStay

=============================================================================
