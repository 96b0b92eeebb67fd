------------------------- MODULE BatchSharingProofs -------------------------
(***************************************************************************)
(* More theorems about BatchDownload: several jobs for one URL share its   *)
(* unfinished batch, an unfinished batch always has a job that can go on   *)
(* with it, a batch that says it is running is worked on, and a done item  *)
(* was fetched. BatchDownloadProofs says what a step does to the items;    *)
(* here follows what it does to the batches' URLs and statuses, to the     *)
(* links from jobs to batches, and to what the attempts hold.              *)
(***************************************************************************)
EXTENDS BatchDownloadProofs

-----------------------------------------------------------------------------
(* The writes, row by row.                                                 *)

(* What a batch is of: its URL, downloaded as its type. A job's feed is what *)
(* start_or_resume_download_batch looks for.                                *)
Feed(row) == <<row.url, row.type>>
JobFeed(i) == <<jobs[i].url, typeOf[i]>>

SameRows(bs, cs) ==
  /\ DOMAIN cs = DOMAIN bs
  /\ \A c \in DOMAIN bs : Feed(cs[c]) = Feed(bs[c]) /\ cs[c].status = bs[c].status

(* Every item that is done in cs is one of D or was done in bs.             *)
DoneWithin(bs, cs, D) ==
  \A c \in DOMAIN cs, v \in Videos :
    cs[c].items[v] = "done" => v \in D \/ (c \in DOMAIN bs /\ bs[c].items[v] = "done")

LEMMA WithItemsRows ==
  ASSUME NEW bs \in Seq(Batch), NEW b \in DOMAIN bs, NEW V,
         NEW s \in {"pending", "done"}
  PROVE  SameRows(bs, WithItems(bs, b, V, s))
<1>1. \A c \in DOMAIN bs : bs[c] \in Batch
  OBVIOUS
<1> QED
  BY <1>1 DEF SameRows, WithItems, Batch, Feed

LEMMA MarkItemsDoneRows ==
  ASSUME NEW bs \in Seq(Batch), NEW b \in DOMAIN bs \union {0}, NEW V
  PROVE  /\ MarkItemsDone(bs, b, V) \in Seq(Batch)
         /\ SameRows(bs, MarkItemsDone(bs, b, V))
         /\ DoneWithin(bs, MarkItemsDone(bs, b, V), V)
<1>1. CASE b = 0
  BY <1>1 DEF MarkItemsDone, SameRows, DoneWithin
<1>2. CASE b # 0
  <2> DEFINE W == {v \in V : bs[b].items[v] # "none"}
             cs == WithItems(bs, b, W, "done")
  <2>1. MarkItemsDone(bs, b, V) = cs /\ b \in DOMAIN bs
    BY <1>2 DEF MarkItemsDone
  <2>2. /\ cs \in Seq(Batch)
        /\ DOMAIN cs = DOMAIN bs
        /\ \A c \in DOMAIN bs, v \in Videos :
             cs[c].items[v] = IF c = b /\ v \in W THEN "done" ELSE bs[c].items[v]
    BY <2>1, WithItemsTable
  <2>3. SameRows(bs, cs)
    BY <2>1, WithItemsRows
  <2>4. W \subseteq V
    OBVIOUS
  <2> HIDE DEF cs, W
  <2> QED
    BY <2>1, <2>2, <2>3, <2>4 DEF DoneWithin
<1> QED
  BY <1>1, <1>2

LEMMA ListedRows ==
  ASSUME NEW bs \in Seq(Batch), NEW b \in DOMAIN bs, NEW E
  PROVE  /\ Listed(bs, b, E) \in Seq(Batch)
         /\ SameRows(bs, Listed(bs, b, E))
         /\ DoneWithin(bs, Listed(bs, b, E), {})
<1> DEFINE W == {v \in E : bs[b].items[v] # "done"}
           cs == WithItems(bs, b, W, "pending")
<1>1. Listed(bs, b, E) = cs
  BY DEF Listed
<1>2. /\ cs \in Seq(Batch)
      /\ DOMAIN cs = DOMAIN bs
      /\ \A c \in DOMAIN bs, v \in Videos :
           cs[c].items[v] = IF c = b /\ v \in W THEN "pending" ELSE bs[c].items[v]
  BY WithItemsTable
<1>3. SameRows(bs, cs)
  BY WithItemsRows
<1> HIDE DEF cs, W
<1> QED
  BY <1>1, <1>2, <1>3 DEF DoneWithin

LEMMA MarkedRows ==
  ASSUME NEW bs \in Seq(Batch), NEW b \in DOMAIN bs, NEW s
  PROVE  /\ DOMAIN Marked(bs, b, s) = DOMAIN bs
         /\ \A c \in DOMAIN bs :
              /\ Feed(Marked(bs, b, s)[c]) = Feed(bs[c])
              /\ Marked(bs, b, s)[c].items = bs[c].items
              /\ Marked(bs, b, s)[c].status = IF c = b THEN s ELSE bs[c].status
<1>1. \A c \in DOMAIN bs : bs[c] \in Batch
  OBVIOUS
<1> QED
  BY <1>1 DEF Marked, Batch, Feed

(* A batch is opened: the newest unfinished one of the feed, or a new one   *)
(* when all of them are completed.                                         *)
OpenedAs(t, b, cs) ==
  /\ DOMAIN cs = Batches \union {b}
  /\ \A c \in Batches : /\ Feed(cs[c]) = Feed(batches[c])
                        /\ c # b => cs[c].status = batches[c].status
  /\ Feed(cs[b]) = JobFeed(t.job)
  /\ cs[b].status = "running"
  /\ DoneWithin(batches, cs, {})

LEMMA OpenedRows ==
  ASSUME BatchInv, NEW t \in tasks, NEW b \in BatchFor(t)
  PROVE  OpenedAs(t, b, Opened(t, b))
<1> DEFINE u == jobs[t.job].url
           k == typeOf[t.job]
           row == [url |-> u, type |-> k, status |-> "running",
                   items |-> [v \in Videos |-> "none"]]
<1>1. batches \in Seq(Batch) /\ u \in Urls /\ k \in Target
  BY RowTypes DEF BatchInv, BatchTypeOK, QueueBounded, TypeOK
<1>2. CASE ToResume(u, k) = {}
  <2>1. b = Len(batches) + 1
    BY <1>2 DEF BatchFor
  <2>2. row \in Batch
    BY <1>1 DEF Batch, BatchStatus
  <2>3. b \notin Batches
    BY <1>1, <2>1 DEF Batches
  <2>4. Opened(t, b) = Append(batches, row)
    BY <2>3 DEF Opened
  <2>5. /\ row.status = "running" /\ Feed(row) = JobFeed(t.job)
        /\ \A v \in Videos : row.items[v] = "none"
    BY DEF Feed, JobFeed
  <2> HIDE DEF row
  <2>6. /\ DOMAIN Append(batches, row) = Batches \union {b}
        /\ \A c \in Batches : Append(batches, row)[c] = batches[c]
        /\ Append(batches, row)[b] = row
    BY <1>1, <2>1, <2>2, AddRow DEF Batches
  <2> QED
    BY <2>3, <2>4, <2>5, <2>6 DEF OpenedAs, DoneWithin, Batches
<1>3. CASE ToResume(u, k) # {}
  <2>1. b \in Batches /\ Feed(batches[b]) = JobFeed(t.job)
    BY <1>3 DEF BatchFor, ToResume, Feed, JobFeed
  <2>2. Opened(t, b) = Marked(batches, b, "running")
    BY <2>1 DEF Opened
  <2>3. LET cs == Marked(batches, b, "running")
        IN /\ DOMAIN cs = Batches
           /\ \A c \in Batches :
                /\ Feed(cs[c]) = Feed(batches[c])
                /\ cs[c].items = batches[c].items
                /\ cs[c].status = IF c = b THEN "running" ELSE batches[c].status
    BY <1>1, <2>1, MarkedRows DEF Batches
  <2> QED
    BY <2>1, <2>2, <2>3 DEF OpenedAs, DoneWithin, Batches
<1> QED
  BY <1>2, <1>3

LEMMA PreparedRows ==
  ASSUME BatchInv, NEW t \in tasks, NEW b \in BatchFor(t), NEW E
  PROVE  /\ Listed(Opened(t, b), b, E) \in Seq(Batch)
         /\ OpenedAs(t, b, Listed(Opened(t, b), b, E))
<1> DEFINE bs == Opened(t, b)
           cs == Listed(bs, b, E)
<1>1. OpenedAs(t, b, bs) /\ bs \in Seq(Batch)
  BY OpenedRows, OpenedTable DEF Extends
<1>2. b \in DOMAIN bs
  BY <1>1 DEF OpenedAs
<1> HIDE DEF bs
<1>3. cs \in Seq(Batch) /\ SameRows(bs, cs) /\ DoneWithin(bs, cs, {})
  BY <1>1, <1>2, ListedRows
<1> HIDE DEF cs
<1>4. OpenedAs(t, b, cs)
  BY <1>1, <1>3 DEF OpenedAs, SameRows, DoneWithin
<1> QED
  BY <1>3, <1>4 DEF bs, cs

LEMMA SettlingRows ==
  ASSUME BatchInv, NEW t \in tasks, NEW G
  PROVE  /\ Settling(t, G) \in Seq(Batch)
         /\ SameRows(batches, Settling(t, G))
         /\ DoneWithin(batches, Settling(t, G), downloaded \union G)
<1> DEFINE b == work[t.job].batch
           half == MarkItemsDone(batches, b, G)
           cs == MarkItemsDone(half, b, downloaded \union G)
<1>1. batches \in Seq(Batch) /\ b \in DOMAIN batches \union {0}
  BY BatchFacts DEF LocalTypes, Batches, TypeOK
<1>2. Settling(t, G) = cs
  BY DEF Settling, Reconciled
<1> HIDE DEF b
<1>3. half \in Seq(Batch) /\ SameRows(batches, half) /\ DoneWithin(batches, half, G)
  BY <1>1, MarkItemsDoneRows
<1> HIDE DEF half
<1>4. b \in DOMAIN half \union {0}
  BY <1>1, <1>3 DEF SameRows
<1>5. /\ cs \in Seq(Batch)
      /\ SameRows(half, cs)
      /\ DoneWithin(half, cs, downloaded \union G)
  BY <1>3, <1>4, MarkItemsDoneRows
<1> HIDE DEF cs
<1>6. SameRows(batches, cs) /\ DoneWithin(batches, cs, downloaded \union G)
  BY <1>3, <1>5 DEF SameRows, DoneWithin
<1> QED
  BY <1>2, <1>5, <1>6

-----------------------------------------------------------------------------
(* One unfinished batch per feed. A batch that is completed stays known as  *)
(* such, and a new one is opened only when all batches of its feed are, so  *)
(* all batches of a feed but the newest have been completed.               *)

CompletedKnown ==
  \A b \in Batches : batches[b].status = "completed" => b \in completedOnce

OlderCompleted ==
  \A a, b \in Batches :
    (a < b /\ Feed(batches[a]) = Feed(batches[b])) => a \in completedOnce

Sharing == CompletedKnown /\ OlderCompleted

SharingStep ==
  /\ completedOnce \subseteq completedOnce'
  /\ \A c \in Batches : c \in Batches' /\ Feed(batches'[c]) = Feed(batches[c])
  /\ \A c \in Batches' : batches'[c].status = "completed" => c \in completedOnce'
  /\ \A c \in Batches' \ Batches :
       /\ c = Len(batches) + 1
       /\ \A a \in Batches :
            Feed(batches[a]) = Feed(batches'[c]) => batches[a].status = "completed"

LEMMA SharingStepKeeps ==
  ASSUME BatchInv, Sharing, SharingStep
  PROVE  Sharing'
<1>1. Batches = 1..Len(batches) /\ Len(batches) \in Nat
  BY BatchFacts DEF Batches
<1>2. ASSUME NEW a \in Batches', NEW b \in Batches',
             a < b, Feed(batches'[a]) = Feed(batches'[b])
      PROVE  a \in completedOnce'
  <2>1. CASE a \in Batches /\ b \in Batches
    BY <1>2, <2>1 DEF Sharing, OlderCompleted, SharingStep
  <2>2. CASE a \in Batches /\ b \notin Batches
    BY <1>2, <2>2 DEF Sharing, CompletedKnown, SharingStep
  <2>3. CASE a \notin Batches
    <3>1. a = Len(batches) + 1 /\ (b \in Batches \/ b = Len(batches) + 1)
      BY <2>3 DEF SharingStep
    <3> QED
      BY <1>1, <1>2, <3>1
  <2> QED
    BY <2>1, <2>2, <2>3
<1> QED
  BY <1>2 DEF Sharing, CompletedKnown, OlderCompleted, SharingStep

(* Steps that open no batch.                                               *)
LEMMA SameBatchesShare ==
  ASSUME Sharing, Batches' = Batches, completedOnce \subseteq completedOnce',
         \A c \in Batches :
           /\ Feed(batches'[c]) = Feed(batches[c])
           /\ batches'[c].status = "completed" =>
                batches[c].status = "completed" \/ c \in completedOnce'
  PROVE  SharingStep
BY DEF SharingStep, Sharing, CompletedKnown

(* Steps that open one.                                                    *)
LEMMA OpeningShares ==
  ASSUME BatchInv, Sharing, NEW t \in tasks, NEW b \in BatchFor(t),
         Batches' = Batches \union {b}, UNCHANGED completedOnce,
         \A c \in Batches :
           /\ Feed(batches'[c]) = Feed(batches[c])
           /\ c # b => (batches'[c].status = "completed" =>
                          batches[c].status = "completed"),
         Feed(batches'[b]) = JobFeed(t.job),
         batches'[b].status # "completed"
  PROVE  SharingStep
<1>1. ASSUME b \notin Batches
      PROVE  /\ b = Len(batches) + 1
             /\ \A a \in Batches : Feed(batches[a]) = JobFeed(t.job) =>
                                       batches[a].status = "completed"
  <2>1. ToResume(jobs[t.job].url, typeOf[t.job]) = {}
    BY <1>1 DEF BatchFor, ToResume
  <2>2. \A a \in Batches : batches[a].status \in BatchStatus
    <3>1. \A a \in Batches : batches[a] \in Batch
      BY BatchFacts DEF Batches
    <3> QED
      BY <3>1 DEF Batch
  <2> QED
    BY <2>1, <2>2 DEF BatchFor, ToResume, Resumable, Feed, JobFeed
<1>2. \A c \in Batches' : batches'[c].status = "completed" => c \in completedOnce'
  BY DEF Sharing, CompletedKnown
<1> QED
  BY <1>1, <1>2 DEF SharingStep

(* The tables that _prepare_batch_download and the handler after it leave.  *)
LEMMA PreparingRows ==
  ASSUME BatchInv, NEW t \in tasks, NEW E \in SUBSET Videos,
         \/ Prepare(t, E)
         \/ PrepareRefused(t, E)
         \/ \E p \in Procs : StopWhilePreparing(p, t, E)
  PROVE  \E b \in BatchFor(t) :
           /\ batchOf' = [batchOf EXCEPT ![t.job] = b]
           /\ Batches' = Batches \union {b}
           /\ \A c \in Batches :
                /\ Feed(batches'[c]) = Feed(batches[c])
                /\ c # b => batches'[c].status \in {batches[c].status, FailedStatus(t)}
           /\ Feed(batches'[b]) = JobFeed(t.job)
           /\ batches'[b].status \in {"running", FailedStatus(t)}
           /\ DoneWithin(batches, batches', downloaded)
<1> DEFINE old == work[t.job].batch
           T(b) == Listed(Opened(t, b), b, E)
<1>1. PICK b \in BatchFor(t) :
        /\ batchOf' = [batchOf EXCEPT ![t.job] = b]
        /\ \/ batches' = T(b)
           \/ batches' = Reconciled(T(b), b, downloaded)
           \/ /\ old # 0
              /\ batches' = Marked(Reconciled(T(b), old, downloaded), old,
                                   FailedStatus(t))
  BY DEF Prepare, PrepareRefused, StopWhilePreparing
<1> DEFINE cs == T(b)
<1>2. cs \in Seq(Batch) /\ OpenedAs(t, b, cs)
  BY PreparedRows
<1>3. old \in Batches \union {0}
  BY BatchFacts DEF TypeOK, LocalTypes
<1>4. \/ batches' = cs
      \/ batches' = Reconciled(cs, b, downloaded)
      \/ /\ old # 0
         /\ batches' = Marked(Reconciled(cs, old, downloaded), old, FailedStatus(t))
  BY <1>1
<1> HIDE DEF cs, T, old
<1>5. b \in DOMAIN cs /\ b # 0
  <2>1. b \in DOMAIN cs
    BY <1>2 DEF OpenedAs
  <2>2. DOMAIN cs = 1..Len(cs)
    BY <1>2
  <2> QED
    BY <2>1, <2>2
<1>6. /\ DOMAIN batches' = DOMAIN cs
      /\ \A c \in DOMAIN cs :
           /\ Feed(batches'[c]) = Feed(cs[c])
           /\ batches'[c].status \in {cs[c].status, FailedStatus(t)}
      /\ DoneWithin(cs, batches', downloaded)
  <2>1. CASE batches' = cs
    BY <2>1 DEF DoneWithin
  <2>2. ASSUME NEW c \in {b, old}, c # 0
        PROVE  LET ds == Reconciled(cs, c, downloaded)
               IN /\ ds \in Seq(Batch) /\ SameRows(cs, ds) /\ c \in DOMAIN ds
                  /\ DoneWithin(cs, ds, downloaded)
    <3>1. c \in DOMAIN cs
      BY <1>2, <1>3, <2>2 DEF OpenedAs
    <3> QED
      BY <1>2, <3>1, MarkItemsDoneRows DEF Reconciled, SameRows
  <2>3. CASE batches' = Reconciled(cs, b, downloaded)
    BY <1>5, <2>2, <2>3 DEF SameRows
  <2>4. CASE /\ old # 0
             /\ batches' = Marked(Reconciled(cs, old, downloaded), old, FailedStatus(t))
    <3> DEFINE ds == Reconciled(cs, old, downloaded)
    <3>1. /\ ds \in Seq(Batch) /\ SameRows(cs, ds) /\ old \in DOMAIN ds
          /\ DoneWithin(cs, ds, downloaded)
          /\ batches' = Marked(ds, old, FailedStatus(t))
      BY <2>2, <2>4
    <3> HIDE DEF ds
    <3>2. /\ DOMAIN batches' = DOMAIN ds
          /\ \A c \in DOMAIN ds :
               /\ Feed(batches'[c]) = Feed(ds[c])
               /\ batches'[c].items = ds[c].items
               /\ batches'[c].status = IF c = old THEN FailedStatus(t)
                                       ELSE ds[c].status
      BY <3>1, MarkedRows
    <3> QED
      BY <3>1, <3>2 DEF SameRows, DoneWithin
  <2> QED
    BY <1>4, <2>1, <2>3, <2>4
<1>7. DoneWithin(batches, batches', downloaded)
  BY <1>2, <1>6 DEF OpenedAs, DoneWithin
<1>8. /\ DOMAIN cs = Batches \union {b}
      /\ Feed(cs[b]) = JobFeed(t.job) /\ cs[b].status = "running"
      /\ \A c \in Batches : /\ Feed(cs[c]) = Feed(batches[c])
                            /\ c # b => cs[c].status = batches[c].status
  BY <1>2 DEF OpenedAs, Batches
<1>9. Batches' = Batches \union {b}
  BY <1>6, <1>8 DEF Batches
<1>10. ASSUME NEW c \in Batches
       PROVE  /\ Feed(batches'[c]) = Feed(batches[c])
              /\ c # b => batches'[c].status \in {batches[c].status, FailedStatus(t)}
  BY <1>6, <1>8
<1>11. /\ Feed(batches'[b]) = JobFeed(t.job)
       /\ batches'[b].status \in {"running", FailedStatus(t)}
  BY <1>6, <1>8
<1> QED
  BY <1>1, <1>7, <1>9, <1>10, <1>11

LEMMA PreparingShares ==
  ASSUME BatchInv, Sharing, NEW t \in tasks, NEW E \in SUBSET Videos,
         \/ Prepare(t, E)
         \/ PrepareRefused(t, E)
         \/ \E p \in Procs : StopWhilePreparing(p, t, E)
  PROVE  SharingStep
<1>1. UNCHANGED completedOnce
  BY DEF Prepare, PrepareRefused, StopWhilePreparing
<1>2. FailedStatus(t) # "completed"
  BY FailedIsStatus
<1>3. PICK b \in BatchFor(t) :
        /\ Batches' = Batches \union {b}
        /\ \A c \in Batches :
             /\ Feed(batches'[c]) = Feed(batches[c])
             /\ c # b => batches'[c].status \in {batches[c].status, FailedStatus(t)}
        /\ Feed(batches'[b]) = JobFeed(t.job)
        /\ batches'[b].status \in {"running", FailedStatus(t)}
  BY PreparingRows
<1> QED
  BY <1>1, <1>2, <1>3, OpeningShares

(* The table when an attempt ends, completely or midway.                    *)
LEMMA HalfSettledRows ==
  ASSUME BatchInv, NEW t \in tasks, NEW G, NEW cs \in HalfSettled(t, G)
  PROVE  /\ DOMAIN cs = Batches
         /\ \A c \in Batches :
              /\ Feed(cs[c]) = Feed(batches[c])
              /\ c # work[t.job].batch => cs[c].status = batches[c].status
         /\ DoneWithin(batches, cs, downloaded \union G)
<1> DEFINE b == work[t.job].batch
           ds == Settling(t, G)
<1>1. b \in DOMAIN batches \union {0} /\ batches \in Seq(Batch)
  BY BatchFacts DEF TypeOK, LocalTypes, Batches
<1>2. CASE cs = batches
  BY <1>2 DEF DoneWithin, Batches
<1>3. CASE cs = MarkItemsDone(batches, b, G)
  <2> HIDE DEF b
  <2>1. SameRows(batches, cs) /\ DoneWithin(batches, cs, G)
    BY <1>1, <1>3, MarkItemsDoneRows
  <2> QED
    BY <2>1 DEF SameRows, DoneWithin, Batches
<1>4. ds \in Seq(Batch) /\ SameRows(batches, ds)
      /\ DoneWithin(batches, ds, downloaded \union G)
  BY SettlingRows
<1>5. CASE cs = ds
  BY <1>4, <1>5 DEF SameRows, Batches
<1> HIDE DEF ds
<1>6. ASSUME NEW s, b # 0, cs = Marked(ds, b, s)
      PROVE  /\ DOMAIN cs = Batches
             /\ \A c \in Batches :
                  /\ Feed(cs[c]) = Feed(batches[c])
                  /\ c # b => cs[c].status = batches[c].status
             /\ DoneWithin(batches, cs, downloaded \union G)
  <2>1. b \in DOMAIN ds
    BY <1>1, <1>4, <1>6 DEF SameRows
  <2> HIDE DEF b
  <2>2. /\ DOMAIN cs = DOMAIN ds
        /\ \A c \in DOMAIN ds : /\ Feed(cs[c]) = Feed(ds[c])
                                /\ cs[c].items = ds[c].items
                                /\ cs[c].status = IF c = b THEN s ELSE ds[c].status
    BY <1>4, <1>6, <2>1, MarkedRows
  <2> QED
    BY <1>4, <2>2 DEF SameRows, DoneWithin, Batches
<1>7. \/ cs = batches
      \/ cs = MarkItemsDone(batches, b, G)
      \/ cs = ds
      \/ b # 0 /\ \E s : cs = Marked(ds, b, s)
  BY DEF HalfSettled, ds
<1> QED
  BY <1>2, <1>3, <1>5, <1>6, <1>7

LEMMA EndedRows ==
  ASSUME BatchInv, NEW t \in tasks, NEW G, NEW s \in BatchStatus,
         batches' = IF work[t.job].batch = 0 THEN batches
                    ELSE Marked(Settling(t, G), work[t.job].batch, s)
  PROVE  /\ Batches' = Batches
         /\ \A c \in Batches :
              /\ Feed(batches'[c]) = Feed(batches[c])
              /\ c # work[t.job].batch => batches'[c].status = batches[c].status
              /\ c = work[t.job].batch => batches'[c].status = s
         /\ DoneWithin(batches, batches', downloaded \union G)
<1> DEFINE b == work[t.job].batch
           ds == Settling(t, G)
<1>1. b \in Batches \union {0} /\ batches \in Seq(Batch)
  BY BatchFacts DEF TypeOK, LocalTypes
<1>2. CASE b = 0
  <2>1. batches' = batches /\ b \notin Batches
    BY <1>2, BatchFacts
  <2> QED
    BY <2>1 DEF Batches, DoneWithin
<1>3. CASE b # 0
  <2>1. /\ ds \in Seq(Batch) /\ SameRows(batches, ds)
        /\ DoneWithin(batches, ds, downloaded \union G)
    BY SettlingRows
  <2>2. b \in DOMAIN ds
    BY <1>1, <1>3, <2>1 DEF SameRows, Batches
  <2>3. batches' = Marked(ds, b, s)
    BY <1>3
  <2> HIDE DEF ds, b
  <2>4. /\ DOMAIN batches' = DOMAIN ds
        /\ \A c \in DOMAIN ds :
             /\ Feed(batches'[c]) = Feed(ds[c])
             /\ batches'[c].items = ds[c].items
             /\ batches'[c].status = IF c = b THEN s ELSE ds[c].status
    BY <2>1, <2>2, <2>3, MarkedRows
  <2>5. /\ Batches' = Batches
        /\ \A c \in Batches :
             /\ Feed(batches'[c]) = Feed(batches[c])
             /\ c # b => batches'[c].status = batches[c].status
             /\ c = b => batches'[c].status = s
        /\ DoneWithin(batches, batches', downloaded \union G)
    BY <2>1, <2>4 DEF SameRows, Batches, DoneWithin
  <2> QED
    BY <2>5 DEF b
<1> QED
  BY <1>2, <1>3

LEMMA EndingShares ==
  ASSUME BatchInv, Sharing, NEW t \in tasks,
         \/ Complete(t)
         \/ \E G \in SUBSET work[t.job].got : FailAttempt(t, G)
         \/ \E G \in SUBSET work[t.job].got : Interrupt(t, G)
  PROVE  SharingStep
<1> DEFINE b == work[t.job].batch
<1>1. CASE Complete(t)
  <2> DEFINE G == work[t.job].got
  <2>1. /\ batches' = IF b = 0 THEN batches ELSE Marked(Settling(t, G), b, "completed")
        /\ completedOnce' = completedOnce \union ({b} \ {0})
    BY <1>1 DEF Complete
  <2>2. /\ Batches' = Batches
        /\ \A c \in Batches : /\ Feed(batches'[c]) = Feed(batches[c])
                              /\ c # b => batches'[c].status = batches[c].status
    BY <2>1, EndedRows DEF BatchStatus
  <2>3. \A c \in Batches : c = b => c \in completedOnce'
    BY <2>1, BatchFacts
  <2> HIDE DEF b
  <2> QED
    BY <2>1, <2>2, <2>3, SameBatchesShare
<1>2. ASSUME NEW G \in SUBSET work[t.job].got, FailAttempt(t, G)
      PROVE  SharingStep
  <2>1. PICK s : s = FailedStatus(t)
    OBVIOUS
  <2>0. /\ batches' = IF b = 0 THEN batches
                      ELSE Marked(Settling(t, G), b, FailedStatus(t))
        /\ completedOnce' = completedOnce
    BY <1>2 DEF FailAttempt
  <2>2. /\ batches' = IF b = 0 THEN batches ELSE Marked(Settling(t, G), b, s)
        /\ completedOnce' = completedOnce
    BY <2>0, <2>1
  <2>4. s \in BatchStatus /\ s # "completed"
    BY <2>1, FailedIsStatus
  <2>3. /\ Batches' = Batches
        /\ \A c \in Batches : /\ Feed(batches'[c]) = Feed(batches[c])
                              /\ c # b => batches'[c].status = batches[c].status
                              /\ c = b => batches'[c].status = s
    <3>1. batches' = IF work[t.job].batch = 0 THEN batches
                     ELSE Marked(Settling(t, G), work[t.job].batch, s)
      BY <2>2
    <3>2. /\ Batches' = Batches
          /\ \A c \in Batches :
               /\ Feed(batches'[c]) = Feed(batches[c])
               /\ c # work[t.job].batch => batches'[c].status = batches[c].status
               /\ c = work[t.job].batch => batches'[c].status = s
          /\ DoneWithin(batches, batches', downloaded \union G)
      BY <2>4, <3>1, EndedRows
    <3> QED
      BY <3>2
  <2> HIDE DEF b
  <2> QED
    BY <2>2, <2>3, <2>4, SameBatchesShare
<1>3. ASSUME NEW G \in SUBSET work[t.job].got, Interrupt(t, G)
      PROVE  SharingStep
  <2>1. /\ batches' \in HalfSettled(t, G)
        /\ completedOnce' = completedOnce \union
                              {c \in Batches : batches'[c].status = "completed"}
    BY <1>3 DEF Interrupt
  <2>2. Batches' = Batches /\ \A c \in Batches : Feed(batches'[c]) = Feed(batches[c])
    BY <2>1, HalfSettledRows DEF Batches
  <2> QED
    BY <2>1, <2>2, SameBatchesShare
<1> QED
  BY <1>1, <1>2, <1>3

LEMMA EveryStepShares ==
  ASSUME BatchInv, Sharing, [BatchNext]_allVars
  PROVE  SharingStep
<1>1. CASE UNCHANGED <<batches, completedOnce>>
  BY <1>1, SameBatchesShare DEF Batches
<1>2. ASSUME NEW t \in tasks, AttemptStep(t)
      PROVE  SharingStep
  <2>1. ASSUME NEW v \in Videos, FinishFile(t, v)
        PROVE  SharingStep
    <3> DEFINE b == work[t.job].batch
    <3>1. b \in DOMAIN batches \union {0} /\ batches \in Seq(Batch)
      BY BatchFacts DEF TypeOK, LocalTypes, Batches
    <3>2. batches' = MarkItemsDone(batches, b, {v}) /\ UNCHANGED completedOnce
      BY <2>1 DEF FinishFile
    <3> HIDE DEF b
    <3>3. SameRows(batches, batches')
      BY <3>1, <3>2, MarkItemsDoneRows
    <3> QED
      BY <3>2, <3>3, SameBatchesShare DEF SameRows, Batches
  <2>2. ASSUME NEW V \in SUBSET work[t.job].cur, EndFile(t, V)
        PROVE  SharingStep
    BY <1>1, <2>2 DEF EndFile
  <2> QED
    BY <1>2, <2>1, <2>2, PreparingShares, EndingShares DEF AttemptStep, StrandJob
<1>3. ASSUME NEW p \in Procs, Restart(p)
      PROVE  SharingStep
  <2>1. \A b \in Batches : batches[b] \in Batch
    BY BatchFacts DEF Batches
  <2>2. /\ Batches' = Batches /\ UNCHANGED completedOnce
        /\ \A b \in Batches :
             /\ Feed(batches'[b]) = Feed(batches[b])
             /\ batches'[b].status = "completed" => batches[b].status = "completed"
    BY <1>3, <2>1 DEF Restart, Batches, Batch, Feed
  <2> QED
    BY <2>2, SameBatchesShare
<1>4. ASSUME NEW p \in Procs, ProcessStep(p)
      PROVE  SharingStep
  <2>1. CASE StopIdle(p)
    BY <1>1, <2>1 DEF StopIdle
  <2>2. CASE \E t \in tasks : \E G \in SUBSET work[t.job].got :
               StopWhileSettling(p, t, G)
    BY <2>2, EndingShares DEF StopWhileSettling
  <2> QED
    BY <1>3, <1>4, <2>1, <2>2, PreparingShares DEF ProcessStep
<1>5. CASE UserStepB \/ ClockAndNetworkStep \/ UNCHANGED allVars
  BY <1>1, <1>5 DEF UserStepB, ClockAndNetworkStep, allVars, batchVars
<1>8. CASE \/ \E u \in Urls, p \in Priorities, k \in Targets : EnqueueAs(u, p, k)
           \/ \E b \in BOOLEAN : ClearLetters(b)
  BY <1>1, <1>8 DEF EnqueueAs, ClearLetters
<1>6. CASE \E d \in deadLetters : RetryLetter(d)
  BY <1>1, <1>6 DEF RetryLetter
<1>7. CASE \E r \in Runners : ClaimJobs(r)
  BY <1>1, <1>7 DEF ClaimJobs
<1> QED
  BY <1>2, <1>4, <1>5, <1>6, <1>7, <1>8 DEF BatchNext

LEMMA SharingInvariance == BatchSpec => []Sharing
<1>1. BatchInit => Sharing
  BY DEF BatchInit, Sharing, CompletedKnown, OlderCompleted, Batches
<1>2. BatchInv /\ Sharing /\ [BatchNext]_allVars => Sharing'
  BY EveryStepShares, SharingStepKeeps
<1> QED
  BY <1>1, <1>2, BatchInvariance, PTL DEF BatchSpec

(* The jobs that download a URL as one type share its unfinished batch,     *)
(* whichever of the process's tasks opens, completes and reopens batches.   *)
(* It is one process's event loop (OneProcess) that makes one step of the   *)
(* look for a batch and its opening.                                       *)
THEOREM OneUnfinishedHolds == BatchSpec => []OneUnfinishedBatch
<1>1. BatchInv /\ Sharing => OneUnfinishedBatch
  <2> SUFFICES ASSUME BatchInv, Sharing, NEW a \in Unfinished, NEW b \in Unfinished,
                      Feed(batches[a]) = Feed(batches[b])
               PROVE  a = b
    BY DEF OneUnfinishedBatch, Feed
  <2>1. a \in Batches /\ b \in Batches /\ a \in Nat /\ b \in Nat
        /\ a \notin completedOnce /\ b \notin completedOnce
    BY BatchFacts DEF Unfinished
  <2> QED
    BY <2>1 DEF Sharing, OlderCompleted
<1> QED
  BY <1>1, BatchInvariance, SharingInvariance, PTL

-----------------------------------------------------------------------------
(* What a step of the queue leaves of a row, and of what it downloads as.   *)

TargetsKept == \A i \in Ids : typeOf'[i] = typeOf[i]

LEMMA TargetsStay ==
  ASSUME BatchInv, [BatchNext]_allVars
  PROVE  TargetsKept
<1>1. jobs \in Seq(Job) /\ typeOf \in [1..MaxJobs -> Target]
  BY BatchFacts DEF LocalTypes, TypeOK
<1>2. ASSUME NEW k, NEW row \in Job, jobs' = Append(jobs, row),
             typeOf' = [typeOf EXCEPT ![Len(jobs')] = k]
      PROVE  TargetsKept
  <2>1. Len(jobs') \notin Ids
    BY <1>1, <1>2, AddRow DEF Ids
  <2> QED
    BY <1>1, <1>2, <2>1 DEF TargetsKept
<1>3. ASSUME NEW u \in Urls, NEW q \in Priorities, NEW k \in Targets, EnqueueAs(u, q, k)
      PROVE  TargetsKept
  <2>1. NewJob(u, q) \in Job
    BY NewJobType
  <2> QED
    BY <1>2, <1>3, <2>1 DEF EnqueueAs, Enqueue
<1>4. ASSUME NEW d \in deadLetters, RetryLetter(d)
      PROVE  TargetsKept
  <2>1. d.url \in Urls /\ d.priority \in Priorities
    BY BatchFacts DEF TypeOK, DeadLetter
  <2>2. NewJob(d.url, d.priority) \in Job
    BY <2>1, NewJobType
  <2>3. CASE jobs' = jobs
    BY <1>4, <2>3 DEF RetryLetter, TargetsKept
  <2>4. CASE jobs' # jobs
    BY <1>2, <1>4, <2>2, <2>4 DEF RetryLetter, RetryDeadLetter
  <2> QED
    BY <2>3, <2>4
<1>5. CASE UNCHANGED typeOf
  BY <1>5 DEF TargetsKept
<1>6. ASSUME NEW t \in tasks, AttemptStep(t)
      PROVE  UNCHANGED typeOf
  BY <1>6 DEF AttemptStep, Prepare, FinishFile, EndFile, Complete, FailAttempt,
              PrepareRefused, StrandJob, Interrupt, Leave, userVars
<1>7. ASSUME NEW q \in Procs, ProcessStep(q)
      PROVE  UNCHANGED typeOf
  BY <1>7 DEF ProcessStep, Restart, StopIdle, StopWhileSettling, Interrupt,
              StopWhilePreparing, userVars
<1> QED
  BY <1>3, <1>4, <1>5, <1>6, <1>7
     DEF BatchNext, UserStepB, ClearLetters, ClockAndNetworkStep, ClaimJobs,
         allVars, batchVars, userVars

Kept(i) ==
  /\ i \in Ids'
  /\ jobs'[i].url = jobs[i].url
  /\ jobs[i].status # "done" => jobs'[i].status # "done"

LEMMA AddedKeeps ==
  ASSUME TypeOK, NEW u \in Urls, NEW p \in Priorities,
         jobs' = Append(jobs, NewJob(u, p))
  PROVE  \A i \in Ids : Kept(i)
<1>1. NewJob(u, p) \in Job
  BY NewJobType
<1> QED
  BY <1>1, AddRow DEF Kept, Ids, TypeOK

(* Every step of the queue but the one that finishes a job.                 *)
LEMMA QueueKeeps ==
  ASSUME TypeOK, \/ UserStep \/ EnvStep \/ UNCHANGED jobs
                 \/ \E r \in Runners : Claim(r)
                 \/ \E t \in tasks : FailJob(t) \/ BookkeepingFails(t)
  PROVE  \A i \in Ids : Kept(i)
<1>0. /\ jobs \in Seq(Job)
      /\ \A i \in Ids : jobs[i] \in Job
  BY RowTypes DEF TypeOK
<1>1. ASSUME NEW u \in Urls, NEW p \in Priorities, Enqueue(u, p)
      PROVE  \A i \in Ids : Kept(i)
  BY <1>1, AddedKeeps DEF Enqueue
<1>2. ASSUME NEW d \in deadLetters, RetryDeadLetter(d)
      PROVE  \A i \in Ids : Kept(i)
  <2>1. d.url \in Urls /\ d.priority \in Priorities
    BY DEF TypeOK, DeadLetter
  <2>2. UNCHANGED jobs \/ jobs' = Append(jobs, NewJob(d.url, d.priority))
    BY <1>2 DEF RetryDeadLetter
  <2> QED
    BY <2>1, <2>2, AddedKeeps DEF Kept, Ids
<1>3. ASSUME NEW i \in Ids,
             \/ \E p \in Priorities : SetJobPriority(i, p)
             \/ PauseJob(i)
             \/ ResumeJob(i)
             \/ BackoffElapses(i)
      PROVE  \A k \in Ids : Kept(k)
  <2>1. ASSUME NEW p \in Priorities, SetJobPriority(i, p)
        PROVE  \A k \in Ids : Kept(k)
    BY <1>0, <2>1 DEF Kept, Ids, Job, SetJobPriority
  <2>2. CASE PauseJob(i)
    BY <1>0, <2>2 DEF Kept, Ids, Job, PauseJob
  <2>3. CASE ResumeJob(i)
    BY <1>0, <2>3 DEF Kept, Ids, Job, ResumeJob
  <2>4. CASE BackoffElapses(i)
    BY <1>0, <2>4 DEF Kept, Ids, Job, BackoffElapses
  <2> QED
    BY <1>3, <2>1, <2>2, <2>3, <2>4
<1>4. ASSUME NEW r \in Runners, Claim(r)
      PROVE  \A i \in Ids : Kept(i)
  BY <1>4, ClaimRows DEF Kept
<1>5. ASSUME NEW t \in tasks, FailJob(t)
      PROVE  \A i \in Ids : Kept(i)
  <2>1. PICK s \in {"pending", "dead"}, b \in BOOLEAN :
          jobs' = [jobs EXCEPT ![t.job].status = s, ![t.job].due = b]
    BY <1>5 DEF FailJob, FailAndRequeue, FailAndDeadLetter
  <2> QED
    BY <1>0, <2>1 DEF Kept, Ids, Job
<1>6. ASSUME NEW p \in Procs, Start(p)
      PROVE  \A i \in Ids : Kept(i)
  <2>1. jobs' = [i \in Ids |-> IF jobs[i].status = "processing"
                               THEN [jobs[i] EXCEPT !.status = "pending"]
                               ELSE jobs[i]]
    BY <1>6 DEF Start
  <2> QED
    BY <1>0, <2>1 DEF Kept, Ids, Job
<1>7. CASE UNCHANGED jobs
  BY <1>7 DEF Kept, Ids
<1> QED
  BY <1>1, <1>2, <1>3, <1>4, <1>5, <1>6, <1>7
     DEF UserStep, EnvStep, ClearDeadLetters, BookkeepingFails, Stop, GoOnline,
         GoOffline

LEMMA SucceedKeeps ==
  ASSUME TypeOK, NEW t \in tasks, Succeed(t)
  PROVE  /\ Ids' = Ids
         /\ \A i \in Ids : jobs'[i].url = jobs[i].url
         /\ \A i \in Ids \ {t.job} : Kept(i)
<1>1. \A i \in Ids : jobs[i] \in Job
  BY RowTypes
<1> QED
  BY <1>1 DEF Kept, Ids, Job, Succeed

-----------------------------------------------------------------------------
(* The invariant that ties the attempts, the jobs and the batches together  *)
(* while one process has the database open.                                *)

Fetched(i) == work[i].cur \union work[i].got

(* A progress record belongs to a task, which goes on with its job's batch; *)
(* only a batch's job waits for a discovery, and it has fetched nothing.    *)
WorkOfTasks ==
  \A i \in 1..MaxJobs :
    /\ ~Owned(i) => work[i] = Idle
    /\ Owned(i) => work[i].batch = batchOf[i]
    /\ Owned(i) /\ work[i].at = "discover" => typeOf[i] \in BatchTypes
    /\ work[i].at # "fetch" => Fetched(i) = {}

(* A job's batch is a batch of its feed.                                   *)
JobsKnowBatch ==
  \A i \in 1..MaxJobs :
    batchOf[i] # 0 => /\ i \in Ids
                      /\ typeOf[i] \in BatchTypes
                      /\ Feed(batches[batchOf[i]]) = JobFeed(i)

(* A batch that was never completed has a job that is not done.            *)
Followed(b) == \E i \in Ids : jobs[i].status # "done" /\ batchOf[i] = b
UnfinishedFollowed == \A b \in Batches \ completedOnce : Followed(b)

(* Unless a write was refused, a running batch is being downloaded.        *)
FetchedBy(i, b) == Owned(i) /\ work[i].at = "fetch" /\ work[i].batch = b
RunningFetched ==
  (up # {} /\ ~DbFaults) =>
    \A b \in Batches : batches[b].status = "running" =>
      \E i \in 1..MaxJobs : FetchedBy(i, b)

Accounted == downloaded \union lost \union InProgress

Attempts ==
  /\ WorkOfTasks
  /\ JobsKnowBatch
  /\ UnfinishedFollowed
  /\ RunningFetched
  /\ DoneItemsAccountedFor

AllInv == Inv /\ BatchInv /\ Sharing /\ Attempts

(* What keeps each part, whatever the step.                                *)
LEMMA LinksKeep ==
  ASSUME BatchInv, JobsKnowBatch, SharingStep, TargetsKept, LocalTypes',
         \A i \in Ids : i \in Ids' /\ jobs'[i].url = jobs[i].url,
         \A i \in 1..MaxJobs :
           \/ batchOf'[i] = batchOf[i]
           \/ /\ i \in Ids'
              /\ typeOf'[i] \in BatchTypes
              /\ Feed(batches'[batchOf'[i]]) = JobFeed(i)'
  PROVE  JobsKnowBatch'
<1> SUFFICES ASSUME NEW i \in 1..MaxJobs, batchOf'[i] # 0
             PROVE  /\ i \in Ids'
                    /\ typeOf'[i] \in BatchTypes
                    /\ Feed(batches'[batchOf'[i]]) = JobFeed(i)'
  BY DEF JobsKnowBatch
<1>1. CASE batchOf'[i] = batchOf[i]
  <2>1. /\ i \in Ids /\ typeOf[i] \in BatchTypes
        /\ Feed(batches[batchOf[i]]) = JobFeed(i)
    BY <1>1 DEF JobsKnowBatch
  <2>2. batchOf[i] \in Batches
    BY <1>1, BatchFacts DEF LocalTypes
  <2>3. typeOf'[i] = typeOf[i] /\ JobFeed(i)' = JobFeed(i)
    BY <2>1 DEF TargetsKept, JobFeed
  <2> QED
    BY <1>1, <2>1, <2>2, <2>3 DEF SharingStep
<1> QED
  BY <1>1

LEMMA FollowersKeep ==
  ASSUME UnfinishedFollowed, SharingStep,
         \A i \in Ids : batchOf[i] \in Batches \ completedOnce' =>
                          Kept(i) /\ batchOf'[i] = batchOf[i],
         \A b \in Batches' \ Batches : Followed(b)'
  PROVE  UnfinishedFollowed'
<1> SUFFICES ASSUME NEW b \in Batches', b \notin completedOnce'
             PROVE  Followed(b)'
  BY DEF UnfinishedFollowed
<1>1. CASE b \in Batches
  <2>1. PICK i \in Ids : jobs[i].status # "done" /\ batchOf[i] = b
    BY <1>1 DEF UnfinishedFollowed, SharingStep, Followed
  <2> QED
    BY <1>1, <2>1 DEF Kept, Followed
<1> QED
  BY <1>1

LEMMA RunningKeep ==
  ASSUME RunningFetched,
         (up' # {} /\ ~DbFaults) =>
           \A b \in Batches' : batches'[b].status = "running" =>
             \/ \E i \in 1..MaxJobs : FetchedBy(i, b)'
             \/ /\ up # {} /\ b \in Batches /\ batches[b].status = "running"
                /\ \A i \in 1..MaxJobs : FetchedBy(i, b) => FetchedBy(i, b)'
  PROVE  RunningFetched'
BY DEF RunningFetched

LEMMA AccountsKeep ==
  ASSUME DoneItemsAccountedFor, NEW D, DoneWithin(batches, batches', D),
         D \subseteq Accounted', Accounted \subseteq Accounted'
  PROVE  DoneItemsAccountedFor'
<1> SUFFICES ASSUME NEW b \in Batches', NEW v \in Videos,
                    batches'[b].items[v] = "done"
             PROVE  v \in Accounted'
  BY DEF DoneItemsAccountedFor, Accounted
<1>1. v \in D \/ (b \in Batches /\ batches[b].items[v] = "done")
  BY DEF DoneWithin, Batches
<1>2. b \in Batches /\ batches[b].items[v] = "done" => v \in Accounted
  BY DEF DoneItemsAccountedFor, Accounted
<1> QED
  BY <1>1, <1>2

LEMMA InProgressIs ==
  /\ \A v : v \in InProgress <=> \E i \in 1..MaxJobs : v \in Fetched(i)
  /\ \A v : v \in InProgress' <=> \E i \in 1..MaxJobs : v \in Fetched(i)'
BY Zenon DEF InProgress, Fetched

LEMMA AccountedGrows ==
  ASSUME downloaded \subseteq downloaded', lost \subseteq lost',
         \A i \in 1..MaxJobs : Fetched(i) \subseteq Accounted'
  PROVE  Accounted \subseteq Accounted'
BY InProgressIs DEF Accounted

-----------------------------------------------------------------------------
(* Steps that touch no attempt.                                            *)

LEMMA TaskFacts ==
  ASSUME AllInv
  PROVE  /\ \A i : Owned(i) => i \in Ids /\ i \in 1..MaxJobs
         /\ \A t \in tasks : /\ t.job \in Ids /\ t.job \in 1..MaxJobs
                             /\ Owned(t.job)
                             /\ jobs[t.job].status = "processing"
<1>1. Ids \subseteq 1..MaxJobs /\ \A t \in tasks : t.job \in Ids
  BY BatchFacts DEF AllInv, TypeOK
<1> QED
  BY <1>1 DEF Owned, AllInv, Inv, OwnerHoldsClaim

LEMMA QuietAttempts ==
  ASSUME AllInv, SharingStep, TargetsKept, JobsKnowBatch',
         UNCHANGED <<batches, downloaded, work, completedOnce, lost, up, tasks>>,
         \A i \in Ids : Kept(i) /\ batchOf'[i] = batchOf[i]
  PROVE  Attempts'
<1>1. WorkOfTasks /\ UnfinishedFollowed /\ RunningFetched /\ DoneItemsAccountedFor
  BY DEF AllInv, Attempts
<1>2. \A i : /\ Owned(i)' <=> Owned(i)
             /\ Fetched(i)' = Fetched(i)
  BY DEF Owned, Fetched
<1>3. WorkOfTasks'
  BY <1>1, <1>2, TaskFacts DEF WorkOfTasks, Kept, TargetsKept
<1>4. UnfinishedFollowed'
  BY <1>1, FollowersKeep DEF Batches
<1>5. RunningFetched'
  BY <1>1, <1>2, RunningKeep DEF FetchedBy, Batches
<1>6. DoneItemsAccountedFor'
  BY <1>1 DEF DoneItemsAccountedFor, InProgress, Batches
<1> QED
  BY <1>3, <1>4, <1>5, <1>6 DEF Attempts

LEMMA UserAttempts ==
  ASSUME AllInv, SharingStep, TargetsKept, LocalTypes', UNCHANGED <<up, tasks>>,
         UNCHANGED <<batches, batchOf, downloaded, work, completedOnce, lost>>,
         \A i \in Ids : Kept(i)
  PROVE  Attempts'
<1>1. JobsKnowBatch'
  BY LinksKeep DEF AllInv, Attempts, Kept
<1> QED
  BY <1>1, QuietAttempts

LEMMA RetryAttempts ==
  ASSUME AllInv, SharingStep, TargetsKept, LocalTypes', NEW d \in deadLetters, RetryLetter(d)
  PROVE  Attempts'
<1> DEFINE n == Len(jobs')
<1>1. /\ JobsKnowBatch /\ BatchInv /\ TypeOK
      /\ d.job \in Ids /\ d.url = jobs[d.job].url
      /\ d.url \in Urls /\ d.priority \in Priorities
  BY DEF AllInv, Attempts, Inv, DeadLettersMatchJobs, LettersOfJobs, TypeOK, DeadLetter
<1>2. \A i \in Ids : Kept(i)
  BY <1>1, QueueKeeps DEF RetryLetter, UserStep
<1>3. CASE jobs' = jobs
  <2>1. batchOf' = batchOf
    BY <1>3 DEF RetryLetter
  <2>2. UNCHANGED userVars
    BY <1>3 DEF RetryLetter, userVars
  <2> QED
    BY <1>2, <2>1, <2>2, UserAttempts DEF RetryLetter, RetryDeadLetter, batchVars
<1>4. CASE jobs' # jobs
  <2>1. /\ jobs' = Append(jobs, NewJob(d.url, d.priority))
        /\ batchOf' = [batchOf EXCEPT ![n] = batchOf[d.job]]
        /\ typeOf' = [typeOf EXCEPT ![n] = typeOf[d.job]]
    BY <1>4 DEF RetryLetter, RetryDeadLetter
  <2>2. NewJob(d.url, d.priority) \in Job /\ jobs \in Seq(Job)
    BY <1>1, NewJobType DEF TypeOK
  <2>3. n = Len(jobs) + 1 /\ n \notin Ids /\ n \in Ids'
        /\ jobs'[n] = NewJob(d.url, d.priority)
    BY <2>1, <2>2, AddRow DEF Ids
  <2>4. jobs'[n].url = d.url
    BY <2>3 DEF NewJob
  <2> HIDE DEF n
  <2>5. /\ d.job \in 1..MaxJobs
        /\ batchOf \in [1..MaxJobs -> Batches \union {0}]
        /\ typeOf \in [1..MaxJobs -> Target]
        /\ Batches \subseteq Nat \ {0}
    BY <1>1, BatchFacts DEF LocalTypes
  <2>6. \A i \in 1..MaxJobs : batchOf'[i] = IF i = n THEN batchOf[d.job] ELSE batchOf[i]
    BY <2>1, <2>5
  <2>7. n \in 1..MaxJobs => batchOf[n] = 0
    BY <1>1, <2>3 DEF JobsKnowBatch
  <2>8. \A i \in Ids : i \in 1..MaxJobs /\ batchOf'[i] = batchOf[i]
    BY <1>1, <2>3, <2>6, BatchFacts
  <2>9. batchOf[d.job] # 0 =>
          /\ typeOf[d.job] \in BatchTypes /\ batchOf[d.job] \in Batches
          /\ Feed(batches[batchOf[d.job]]) = JobFeed(d.job)
    BY <1>1, <2>5 DEF JobsKnowBatch
  <2>10. UNCHANGED batches
    BY DEF RetryLetter
  <2>11. JobsKnowBatch'
    <3>1. \A i \in Ids : i \in Ids' /\ jobs'[i].url = jobs[i].url
      BY <1>2 DEF Kept
    <3>2. \A i \in 1..MaxJobs :
            \/ batchOf'[i] = batchOf[i]
            \/ /\ i \in Ids'
               /\ typeOf'[i] \in BatchTypes
               /\ Feed(batches'[batchOf'[i]]) = JobFeed(i)'
      <4> SUFFICES ASSUME NEW i \in 1..MaxJobs, batchOf'[i] # batchOf[i]
                   PROVE  /\ i \in Ids'
                          /\ typeOf'[i] \in BatchTypes
                          /\ Feed(batches'[batchOf'[i]]) = JobFeed(i)'
        OBVIOUS
      <4>1. /\ i = n /\ batchOf[d.job] # 0
            /\ batchOf'[i] = batchOf[d.job]
            /\ typeOf'[i] = typeOf[d.job]
        BY <2>1, <2>5, <2>6, <2>7
      <4>2. JobFeed(i)' = JobFeed(d.job)
        BY <1>1, <2>4, <4>1 DEF JobFeed
      <4> QED
        BY <2>3, <2>9, <2>10, <4>1, <4>2
    <3> QED
      BY <1>1, <3>1, <3>2, LinksKeep
  <2> QED
    BY <1>2, <2>8, <2>11, QuietAttempts DEF RetryLetter, RetryDeadLetter
<1> QED
  BY <1>3, <1>4

(* A claim gives its tasks fresh progress records.                          *)
LEMMA ClaimAttempts ==
  ASSUME AllInv, SharingStep, TargetsKept, LocalTypes', NEW r \in Runners, ClaimJobs(r)
  PROVE  Attempts'
<1> DEFINE Fresh(i) == IF typeOf[i] \in BatchTypes
                       THEN [Idle EXCEPT !.at = "discover", !.batch = batchOf[i]]
                       ELSE [Idle EXCEPT !.at = "fetch", !.seen = archive]
<1>1. /\ Claim(r)
      /\ work' = [i \in 1..MaxJobs |-> IF i \notin Picked THEN work[i] ELSE Fresh(i)]
      /\ UNCHANGED <<batches, batchOf, downloaded, archive, completedOnce, lost>>
  BY DEF ClaimJobs
<1>2. /\ WorkOfTasks /\ JobsKnowBatch /\ UnfinishedFollowed /\ RunningFetched
      /\ DoneItemsAccountedFor /\ TypeOK /\ BatchInv
  BY DEF AllInv, Attempts, Inv
<1>3. \A i \in Ids : Kept(i)
  BY <1>1, <1>2, QueueKeeps
<1>4. /\ \A i : Owned(i)' <=> Owned(i) \/ i \in Picked
      /\ \A i \in Picked : ~Owned(i) /\ i \in Ids
      /\ UNCHANGED up
  <2>1. \A i \in Picked : i \in Ids /\ jobs[i].status = "pending"
    BY <1>1, <1>2, ClaimRows DEF WithStatus
  <2>2. \A i \in Picked : ~Owned(i)
    BY <2>1, TaskFacts DEF Owned
  <2> QED
    BY <1>1, <2>1, <2>2, OwnersAfterClaim DEF Claim
<1>5. \A i \in 1..MaxJobs :
        /\ Fresh(i).cur = {} /\ Fresh(i).got = {}
        /\ typeOf[i] \in BatchTypes =>
             Fresh(i).at = "discover" /\ Fresh(i).batch = batchOf[i]
        /\ typeOf[i] \notin BatchTypes => Fresh(i).at = "fetch" /\ Fresh(i).batch = 0
  BY DEF Idle
<1> HIDE DEF Fresh
<1>6. \A i \in Picked : /\ i \in 1..MaxJobs /\ work'[i] = Fresh(i)
                        /\ Fetched(i) = {} /\ Fetched(i)' = {}
  <2>1. \A i \in Picked : i \in 1..MaxJobs /\ work'[i] = Fresh(i)
    BY <1>1, <1>2, <1>4, BatchFacts
  <2>2. \A i \in Picked : work[i] = Idle
    BY <1>2, <1>4, <2>1 DEF WorkOfTasks
  <2> QED
    BY <1>5, <2>1, <2>2 DEF Fetched, Idle
<1>7. \A i \in 1..MaxJobs \ Picked : work'[i] = work[i] /\ Fetched(i)' = Fetched(i)
  BY <1>1 DEF Fetched
<1>8. WorkOfTasks'
  <2> SUFFICES ASSUME NEW i \in 1..MaxJobs
               PROVE  /\ ~Owned(i)' => work'[i] = Idle
                      /\ Owned(i)' => work'[i].batch = batchOf'[i]
                      /\ Owned(i)' /\ work'[i].at = "discover" => typeOf'[i] \in BatchTypes
                      /\ work'[i].at # "fetch" => Fetched(i)' = {}
    BY DEF WorkOfTasks
  <2>1. CASE i \in Picked
    <3>1. batchOf[i] # 0 => typeOf[i] \in BatchTypes
      BY <1>2 DEF JobsKnowBatch
    <3> QED
      BY <1>1, <1>4, <1>5, <1>6, <2>1, <3>1 DEF TargetsKept
  <2>2. CASE i \notin Picked
    BY <1>1, <1>2, <1>4, <1>7, <2>2, TaskFacts DEF WorkOfTasks, TargetsKept
  <2> QED
    BY <2>1, <2>2
<1>9. JobsKnowBatch'
  BY <1>1, <1>2, <1>3, LinksKeep DEF Kept
<1>10. UnfinishedFollowed'
  BY <1>1, <1>2, <1>3, FollowersKeep DEF Batches
<1>11. RunningFetched'
  <2>1. \A b : \A i \in 1..MaxJobs : FetchedBy(i, b) => FetchedBy(i, b)'
    BY <1>4, <1>7 DEF FetchedBy
  <2> QED
    BY <1>1, <1>2, <1>4, <2>1, RunningKeep DEF Batches
<1>12. DoneItemsAccountedFor'
  <2>1. \A i \in 1..MaxJobs : Fetched(i)' = Fetched(i)
    BY <1>6, <1>7
  <2>2. InProgress' = InProgress
    BY <2>1, InProgressIs
  <2> QED
    BY <1>1, <1>2, <2>2 DEF DoneItemsAccountedFor, Batches
<1> QED
  BY <1>8, <1>9, <1>10, <1>11, <1>12 DEF Attempts

-----------------------------------------------------------------------------
(* Discovery. A job goes on with the newest unfinished batch of its feed:   *)
(* if it had another one, that one has been completed before.              *)
LEMMA NewestIsResumed ==
  ASSUME BatchInv, Sharing, NEW t \in tasks, NEW b \in BatchFor(t),
         NEW c \in Batches, c \notin completedOnce, Feed(batches[c]) = JobFeed(t.job)
  PROVE  c = b
<1> DEFINE old == ToResume(jobs[t.job].url, typeOf[t.job])
<1>1. batches[c] \in Batch /\ batches \in Seq(Batch)
  BY BatchFacts DEF Batches
<1>2. batches[c].status \in Resumable
  BY <1>1 DEF Batch, Resumable, Sharing, CompletedKnown
<1>3. c \in old
  BY <1>2 DEF ToResume, Feed, JobFeed
<1>4. /\ b \in Batches /\ Feed(batches[b]) = JobFeed(t.job)
      /\ c <= b
  BY <1>3 DEF BatchFor, ToResume, Feed, JobFeed
<1>5. c \in Nat /\ b \in Nat
  BY <1>4, BatchFacts
<1>6. ~(c < b)
  BY <1>4 DEF Sharing, OlderCompleted
<1> QED
  BY <1>4, <1>5, <1>6

LEMMA DiscoveryLinks ==
  ASSUME AllInv, SharingStep, TargetsKept, LocalTypes', NEW t \in tasks, NEW b \in BatchFor(t),
         typeOf[t.job] \in BatchTypes,
         batchOf' = [batchOf EXCEPT ![t.job] = b],
         Batches' = Batches \union {b},
         Feed(batches'[b]) = JobFeed(t.job),
         \A i \in Ids : Kept(i)
  PROVE  /\ JobsKnowBatch' /\ UnfinishedFollowed'
         /\ \A i \in 1..MaxJobs : batchOf'[i] = IF i = t.job THEN b ELSE batchOf[i]
<1>1. /\ JobsKnowBatch /\ UnfinishedFollowed /\ BatchInv /\ Sharing
      /\ t.job \in Ids /\ t.job \in 1..MaxJobs /\ jobs[t.job].status = "processing"
  BY TaskFacts DEF AllInv, Attempts
<1>2. /\ batchOf \in [1..MaxJobs -> Batches \union {0}]
      /\ Ids \subseteq 1..MaxJobs
      /\ Batches \subseteq Nat \ {0}
  BY <1>1, BatchFacts DEF LocalTypes
<1>3. \A i \in 1..MaxJobs : batchOf'[i] = IF i = t.job THEN b ELSE batchOf[i]
  BY <1>2
<1>4. JobsKnowBatch'
  <2>1. typeOf'[t.job] \in BatchTypes /\ JobFeed(t.job)' = JobFeed(t.job)
    BY <1>1 DEF Kept, TargetsKept, JobFeed
  <2>2. /\ t.job \in Ids'
        /\ Feed(batches'[batchOf'[t.job]]) = JobFeed(t.job)'
    BY <1>1, <1>3, <2>1 DEF Kept
  <2>3. \A i \in 1..MaxJobs :
          \/ batchOf'[i] = batchOf[i]
          \/ /\ i \in Ids'
             /\ typeOf'[i] \in BatchTypes
             /\ Feed(batches'[batchOf'[i]]) = JobFeed(i)'
    BY <1>3, <2>1, <2>2
  <2> QED
    BY <1>1, <2>3, LinksKeep DEF Kept
<1>5. \A i \in Ids : batchOf[i] \in Batches \ completedOnce' => batchOf'[i] = batchOf[i]
  <2> SUFFICES ASSUME NEW i \in Ids, batchOf[i] \in Batches, batchOf[i] \notin completedOnce'
               PROVE  batchOf'[i] = batchOf[i]
    OBVIOUS
  <2>1. CASE i = t.job
    <3>1. Feed(batches[batchOf[i]]) = JobFeed(t.job)
      BY <1>1, <1>2, <2>1 DEF JobsKnowBatch
    <3>2. batchOf[i] \notin completedOnce
      BY DEF SharingStep
    <3>3. batchOf[i] = b
      BY <1>1, <3>1, <3>2, NewestIsResumed
    <3> QED
      BY <1>1, <1>3, <2>1, <3>3
  <2>2. CASE i # t.job
    BY <1>2, <1>3, <2>2
  <2> QED
    BY <2>1, <2>2
<1>6. Followed(b)'
  <2>1. t.job \in Ids' /\ jobs'[t.job].status # "done" /\ batchOf'[t.job] = b
    BY <1>1, <1>3 DEF Kept
  <2> QED
    BY <2>1 DEF Followed
<1>7. UnfinishedFollowed'
  BY <1>1, <1>5, <1>6, FollowersKeep
<1> QED
  BY <1>3, <1>4, <1>7

LEMMA PrepareAttempts ==
  ASSUME AllInv, SharingStep, TargetsKept, LocalTypes', NEW t \in tasks, NEW E \in SUBSET Videos,
         Prepare(t, E)
  PROVE  Attempts'
<1> DEFINE j == t.job
<1>1. /\ WorkOfTasks /\ RunningFetched /\ DoneItemsAccountedFor /\ BatchInv
      /\ j \in Ids /\ j \in 1..MaxJobs /\ Owned(j) /\ TypeOK
  BY TaskFacts DEF AllInv, Attempts, Inv
<1>2. PICK b \in BatchFor(t) :
        /\ batchOf' = [batchOf EXCEPT ![j] = b]
        /\ work' = [work EXCEPT ![j].at = "fetch", ![j].batch = b, ![j].seen = archive]
  BY DEF Prepare
<1>3. PICK c \in BatchFor(t) :
        /\ batchOf' = [batchOf EXCEPT ![j] = c]
        /\ Batches' = Batches \union {c}
        /\ \A a \in Batches : a # c =>
             batches'[a].status \in {batches[a].status, FailedStatus(t)}
        /\ Feed(batches'[c]) = JobFeed(j)
        /\ DoneWithin(batches, batches', downloaded)
  <2> HIDE DEF j
  <2>1. \E c \in BatchFor(t) :
          /\ batchOf' = [batchOf EXCEPT ![t.job] = c]
          /\ Batches' = Batches \union {c}
          /\ \A a \in Batches :
               /\ Feed(batches'[a]) = Feed(batches[a])
               /\ a # c => batches'[a].status \in {batches[a].status, FailedStatus(t)}
          /\ Feed(batches'[c]) = JobFeed(t.job)
          /\ batches'[c].status \in {"running", FailedStatus(t)}
          /\ DoneWithin(batches, batches', downloaded)
    BY <1>1, PreparingRows
  <2> QED
    BY <2>1 DEF j
<1>4. b = c
  <2>1. batchOf \in [1..MaxJobs -> Batches \union {0}]
    BY <1>1, BatchFacts DEF LocalTypes
  <2> QED
    BY <1>1, <1>2, <1>3, <2>1
<1>5. /\ UNCHANGED <<vars, downloaded, lost>>
      /\ work[j].at = "discover"
  BY DEF Prepare
<1>6. \A i \in Ids : Kept(i)
  BY <1>1, <1>5, QueueKeeps DEF vars
<1>7. typeOf[j] \in BatchTypes
  BY <1>1, <1>5 DEF WorkOfTasks
<1>8. /\ JobsKnowBatch' /\ UnfinishedFollowed'
      /\ \A i \in 1..MaxJobs : batchOf'[i] = IF i = j THEN b ELSE batchOf[i]
  BY <1>3, <1>4, <1>6, <1>7, DiscoveryLinks
<1>9. /\ work'[j].at = "fetch" /\ work'[j].batch = b
      /\ work'[j].cur = work[j].cur /\ work'[j].got = work[j].got
      /\ \A i \in 1..MaxJobs \ {j} : work'[i] = work[i]
  <2>1. work \in [1..MaxJobs -> Work]
    BY <1>1, BatchFacts DEF LocalTypes
  <2>2. work[j] \in Work
    BY <1>1, <2>1
  <2> HIDE DEF j
  <2> QED
    BY <1>1, <1>2, <2>1, <2>2 DEF Work
<1>10. \A i : Owned(i)' <=> Owned(i)
  BY <1>5 DEF vars, Owned
<1>11. \A i \in 1..MaxJobs : Fetched(i)' = Fetched(i)
  BY <1>9 DEF Fetched
<1>12. WorkOfTasks'
  BY <1>1, <1>5, <1>8, <1>9, <1>10, <1>11, TaskFacts DEF WorkOfTasks, TargetsKept
<1>13. RunningFetched'
  <2>1. FetchedBy(j, b)'
    BY <1>1, <1>9, <1>10 DEF FetchedBy
  <2>2. \A a : \A i \in 1..MaxJobs : FetchedBy(i, a) => i # j /\ FetchedBy(i, a)'
    BY <1>5, <1>9, <1>10 DEF FetchedBy
  <2>3. \A a \in Batches : a # b => (batches'[a].status = "running" =>
                                       batches[a].status = "running")
    <3>1. FailedStatus(t) # "running"
      BY DEF FailedStatus
    <3> QED
      BY <1>3, <1>4, <3>1
  <2>4. Batches' = Batches \union {b} /\ up' = up
    BY <1>3, <1>4, <1>5 DEF vars
  <2> QED
    BY <1>1, <2>1, <2>2, <2>3, <2>4, RunningKeep
<1>14. DoneItemsAccountedFor'
  <2>1. InProgress' = InProgress
    BY <1>11, InProgressIs
  <2> QED
    BY <1>1, <1>3, <1>5, <2>1, AccountsKeep DEF Accounted
<1> QED
  BY <1>8, <1>12, <1>13, <1>14 DEF Attempts

-----------------------------------------------------------------------------
(* The download thread.                                                    *)
FileStep(j, D) ==
  /\ DoneWithin(batches, batches', D) /\ D \subseteq Fetched(j)'
  /\ SameRows(batches, batches')
  /\ work'[j].at = work[j].at /\ work'[j].batch = work[j].batch
  /\ Fetched(j) \subseteq Fetched(j)'
  /\ work[j].at = "fetch"
  /\ \A i \in 1..MaxJobs \ {j} : work'[i] = work[i]

LEMMA FileAttempts ==
  ASSUME AllInv, SharingStep, TargetsKept, LocalTypes', NEW t \in tasks,
         \/ \E v \in Videos : FinishFile(t, v)
         \/ \E V \in SUBSET work[t.job].cur : EndFile(t, V)
  PROVE  Attempts'
<1> DEFINE j == t.job
<1>1. /\ WorkOfTasks /\ JobsKnowBatch /\ UnfinishedFollowed /\ RunningFetched
      /\ DoneItemsAccountedFor /\ BatchInv /\ j \in Ids /\ j \in 1..MaxJobs
      /\ TypeOK
  BY TaskFacts DEF AllInv, Attempts, Inv
<1>2. UNCHANGED <<vars, batchOf, downloaded, completedOnce, lost>>
  BY DEF FinishFile, EndFile
<1>3. work \in [1..MaxJobs -> Work] /\ work[j] \in Work
  BY <1>1, BatchFacts DEF LocalTypes
<1>4. \E D : FileStep(j, D)
  <2>1. ASSUME NEW v \in Videos, FinishFile(t, v)
        PROVE  \E D : FileStep(j, D)
    <3> DEFINE b == work[j].batch
    <3>1. b \in DOMAIN batches \union {0} /\ batches \in Seq(Batch)
      BY <1>1, BatchFacts DEF LocalTypes, Batches
    <3>2. /\ batches' = MarkItemsDone(batches, b, {v})
          /\ work' = [work EXCEPT ![j].cur = {v}]
          /\ work[j].at = "fetch" /\ work[j].cur = {}
      BY <2>1 DEF FinishFile
    <3>3. /\ work'[j].at = work[j].at /\ work'[j].batch = work[j].batch
          /\ work'[j].cur = {v} /\ work'[j].got = work[j].got
          /\ \A i \in 1..MaxJobs \ {j} : work'[i] = work[i]
      <4> HIDE DEF b, j
      <4> QED
        BY <1>1, <1>3, <3>2 DEF Work
    <3> HIDE DEF b, j
    <3>4. DoneWithin(batches, batches', {v}) /\ SameRows(batches, batches')
      BY <3>1, <3>2, MarkItemsDoneRows
    <3>5. {v} \subseteq Fetched(j)' /\ Fetched(j) \subseteq Fetched(j)'
      BY <3>2, <3>3 DEF Fetched
    <3> QED
      BY <3>2, <3>3, <3>4, <3>5 DEF FileStep
  <2>2. ASSUME NEW V \in SUBSET work[j].cur, EndFile(t, V)
        PROVE  \E D : FileStep(j, D)
    <3>1. /\ UNCHANGED batches
          /\ work' = [work EXCEPT ![j].cur = {}, ![j].got = @ \union work[j].cur]
          /\ work[j].cur # {}
      BY <2>2 DEF EndFile
    <3>2. /\ work'[j].at = work[j].at /\ work'[j].batch = work[j].batch
          /\ work'[j].cur = {} /\ work'[j].got = work[j].got \union work[j].cur
          /\ \A i \in 1..MaxJobs \ {j} : work'[i] = work[i]
      <4> HIDE DEF j
      <4> QED
        BY <1>1, <1>3, <3>1 DEF Work
    <3> HIDE DEF j
    <3>3. DoneWithin(batches, batches', {}) /\ SameRows(batches, batches')
      BY <3>1 DEF DoneWithin, SameRows
    <3>4. Fetched(j)' = Fetched(j) /\ {} \subseteq Fetched(j)'
      BY <3>2 DEF Fetched
    <3>5. work[j].at = "fetch"
      BY <1>1, <3>1 DEF WorkOfTasks, Fetched
    <3> QED
      BY <3>2, <3>3, <3>4, <3>5 DEF FileStep
  <2> QED
    BY <2>1, <2>2
<1>5. PICK D :
        /\ DoneWithin(batches, batches', D) /\ D \subseteq Fetched(j)'
        /\ SameRows(batches, batches')
        /\ work'[j].at = work[j].at /\ work'[j].batch = work[j].batch
        /\ Fetched(j) \subseteq Fetched(j)'
        /\ work[j].at = "fetch"
        /\ \A i \in 1..MaxJobs \ {j} : work'[i] = work[i]
  BY <1>4 DEF FileStep
<1>6. \A i \in Ids : Kept(i)
  BY <1>1, <1>2, QueueKeeps DEF vars
<1>7. /\ \A i : Owned(i)' <=> Owned(i)
      /\ UNCHANGED <<jobs, up>>
  BY <1>2 DEF vars, Owned
<1>8. \A i \in 1..MaxJobs : i # j => Fetched(i)' = Fetched(i)
  BY <1>5 DEF Fetched
<1>9. WorkOfTasks'
  BY <1>1, <1>2, <1>5, <1>7, <1>8, TaskFacts DEF WorkOfTasks, TargetsKept
<1>10. JobsKnowBatch'
  BY <1>1, <1>2, <1>6, LinksKeep DEF Kept
<1>11. UnfinishedFollowed'
  BY <1>1, <1>2, <1>5, <1>6, FollowersKeep DEF SameRows, Batches
<1>12. RunningFetched'
  <2>1. \A b : \A i \in 1..MaxJobs : FetchedBy(i, b) => FetchedBy(i, b)'
    BY <1>5, <1>7 DEF FetchedBy
  <2>2. Batches' = Batches /\ \A b \in Batches : batches'[b].status = batches[b].status
    BY <1>5 DEF SameRows, Batches
  <2> QED
    BY <1>1, <1>7, <2>1, <2>2, RunningKeep
<1>13. DoneItemsAccountedFor'
  <2>1. \A i \in 1..MaxJobs : Fetched(i) \subseteq Fetched(i)'
    BY <1>5, <1>8
  <2>2. D \subseteq Accounted' /\ \A i \in 1..MaxJobs : Fetched(i)' \subseteq Accounted'
    BY <1>1, <1>5, InProgressIs DEF Accounted
  <2>3. Accounted \subseteq Accounted'
    BY <1>2, <2>1, <2>2, AccountedGrows
  <2> QED
    BY <1>1, <1>5, <2>2, <2>3, AccountsKeep
<1> QED
  BY <1>9, <1>10, <1>11, <1>12, <1>13 DEF Attempts

-----------------------------------------------------------------------------
(* The end of an attempt.                                                  *)

LEMMA EndedWork ==
  ASSUME AllInv, TargetsKept, NEW t \in tasks, Settle(t) \/ BookkeepingFails(t),
         work' = [work EXCEPT ![t.job] = Idle],
         \A i \in Ids : i # t.job =>
           batchOf'[i] = batchOf[i] /\ jobs'[i].url = jobs[i].url
  PROVE  /\ WorkOfTasks'
         /\ \A i \in 1..MaxJobs : Fetched(i)' = IF i = t.job THEN {} ELSE Fetched(i)
         /\ \A b : \A i \in 1..MaxJobs : FetchedBy(i, b) /\ i # t.job => FetchedBy(i, b)'
<1>1. /\ WorkOfTasks /\ BatchInv /\ Inv /\ work \in [1..MaxJobs -> Work]
      /\ t.job \in 1..MaxJobs /\ \A i : Owned(i) => i \in Ids
  BY TaskFacts, BatchFacts DEF AllInv, Attempts, LocalTypes
<1>2. \A i \in 1..MaxJobs : work'[i] = IF i = t.job THEN Idle ELSE work[i]
  BY <1>1
<1>3. \A i : Owned(i)' <=> Owned(i) /\ i # t.job
  BY <1>1, OwnersAfterAttempt
<1>4. Idle.cur = {} /\ Idle.got = {}
  BY DEF Idle
<1>5. \A i \in 1..MaxJobs : Fetched(i)' = IF i = t.job THEN {} ELSE Fetched(i)
  BY <1>2, <1>4 DEF Fetched
<1>6. WorkOfTasks'
  BY <1>1, <1>2, <1>3, <1>5 DEF WorkOfTasks, TargetsKept
<1> QED
  BY <1>2, <1>3, <1>5, <1>6 DEF FetchedBy

LEMMA EndedAccounts ==
  ASSUME DoneItemsAccountedFor, NEW j \in 1..MaxJobs,
         downloaded \subseteq downloaded', lost \subseteq lost',
         DoneWithin(batches, batches', downloaded'),
         Fetched(j) \subseteq downloaded' \union lost',
         \A i \in 1..MaxJobs : Fetched(i)' = IF i = j THEN {} ELSE Fetched(i)
  PROVE  DoneItemsAccountedFor'
<1>1. downloaded' \subseteq Accounted' /\ lost' \subseteq Accounted'
      /\ \A i \in 1..MaxJobs : Fetched(i)' \subseteq Accounted'
  BY InProgressIs DEF Accounted
<1>2. \A i \in 1..MaxJobs : Fetched(i) \subseteq Accounted'
  BY <1>1
<1>3. Accounted \subseteq Accounted'
  BY <1>2, AccountedGrows
<1> QED
  BY <1>1, <1>3, AccountsKeep

LEMMA CompleteAttempts ==
  ASSUME AllInv, SharingStep, TargetsKept, LocalTypes', NEW t \in tasks, Complete(t)
  PROVE  Attempts'
<1> DEFINE j == t.job
           b == work[t.job].batch
           G == work[t.job].got
<1>1. /\ WorkOfTasks /\ JobsKnowBatch /\ UnfinishedFollowed /\ RunningFetched
      /\ DoneItemsAccountedFor /\ BatchInv /\ TypeOK
      /\ j \in Ids /\ j \in 1..MaxJobs /\ Owned(j)
  BY TaskFacts DEF AllInv, Attempts, Inv
<1>2. /\ Succeed(t) /\ work' = [work EXCEPT ![j] = Idle]
      /\ work[j].cur = {}
      /\ batches' = IF b = 0 THEN batches ELSE Marked(Settling(t, G), b, "completed")
      /\ completedOnce' = completedOnce \union ({b} \ {0})
      /\ downloaded' = downloaded \union G
      /\ UNCHANGED <<batchOf, lost>>
  BY DEF Complete, Catalogue, Leave
<1>3. UNCHANGED up
  BY <1>2 DEF Succeed
<1>4. /\ \A i \in Ids : i \in Ids' /\ jobs'[i].url = jobs[i].url
      /\ \A i \in Ids \ {j} : Kept(i)
  BY <1>1, <1>2, SucceedKeeps
<1>5. /\ Batches' = Batches
      /\ \A c \in Batches : /\ c # b => batches'[c].status = batches[c].status
                            /\ c = b => batches'[c].status = "completed"
      /\ DoneWithin(batches, batches', downloaded \union G)
  <2>1. "completed" \in BatchStatus
    BY DEF BatchStatus
  <2> QED
    BY <1>1, <1>2, <2>1, EndedRows
<1>6. Settle(t)
  BY <1>2 DEF Settle
<1>7. /\ WorkOfTasks'
      /\ \A i \in 1..MaxJobs : Fetched(i)' = IF i = j THEN {} ELSE Fetched(i)
      /\ \A c : \A i \in 1..MaxJobs : FetchedBy(i, c) /\ i # j => FetchedBy(i, c)'
  BY <1>2, <1>4, <1>6, EndedWork
<1>8. JobsKnowBatch'
  BY <1>1, <1>2, <1>4, LinksKeep
<1>9. b = batchOf[j]
  BY <1>1 DEF WorkOfTasks
<1>10. UnfinishedFollowed'
  <2>1. b \in Batches => b \in completedOnce'
    BY <1>1, <1>2, BatchFacts
  <2>2. \A i \in Ids : batchOf[i] \in Batches \ completedOnce' => i # j
    BY <1>9, <2>1
  <2> QED
    BY <1>1, <1>2, <1>4, <1>5, <2>2, FollowersKeep
<1>11. RunningFetched'
  <2>1. \A i \in 1..MaxJobs, c \in Batches : c # b /\ FetchedBy(i, c) => FetchedBy(i, c)'
    BY <1>7 DEF FetchedBy
  <2> HIDE DEF b
  <2> QED
    BY <1>1, <1>3, <1>5, <2>1, RunningKeep
<1>12. DoneItemsAccountedFor'
  <2>1. Fetched(j) = G
    BY <1>2 DEF Fetched
  <2> QED
    BY <1>1, <1>2, <1>5, <1>7, <2>1, EndedAccounts
<1> QED
  BY <1>7, <1>8, <1>10, <1>11, <1>12 DEF Attempts

LEMMA FailedAttempts ==
  ASSUME AllInv, SharingStep, TargetsKept, LocalTypes', NEW t \in tasks,
         NEW G \in SUBSET work[t.job].got, FailAttempt(t, G)
  PROVE  Attempts'
<1> DEFINE j == t.job
           b == work[t.job].batch
<1>1. /\ WorkOfTasks /\ JobsKnowBatch /\ UnfinishedFollowed /\ RunningFetched
      /\ DoneItemsAccountedFor /\ BatchInv /\ TypeOK
      /\ j \in Ids /\ j \in 1..MaxJobs /\ Owned(j)
  BY TaskFacts DEF AllInv, Attempts, Inv
<1>2. /\ FailJob(t) /\ work' = [work EXCEPT ![j] = Idle]
      /\ batches' = IF b = 0 THEN batches
                    ELSE Marked(Settling(t, G), b, FailedStatus(t))
      /\ downloaded' = downloaded \union G
      /\ lost' = lost \union (work[j].got \ G) \union work[j].cur
      /\ UNCHANGED <<batchOf, completedOnce>>
  BY DEF FailAttempt, Catalogue, Leave
<1>3. UNCHANGED up
  BY <1>2 DEF FailJob, FailAndRequeue, FailAndDeadLetter
<1>4. \A i \in Ids : Kept(i)
  BY <1>1, <1>2, QueueKeeps
<1>5. PICK s \in BatchStatus : s = FailedStatus(t)
  BY FailedIsStatus
<1>6. batches' = IF b = 0 THEN batches ELSE Marked(Settling(t, G), b, s)
  BY <1>2, <1>5
<1>7. /\ Batches' = Batches
      /\ \A c \in Batches : /\ c # b => batches'[c].status = batches[c].status
                            /\ c = b => batches'[c].status = s
      /\ DoneWithin(batches, batches', downloaded \union G)
  BY <1>1, <1>6, EndedRows
<1>8. Settle(t) /\ s # "running"
  BY <1>2, <1>5 DEF Settle, FailJob, FailedStatus
<1>9. /\ WorkOfTasks'
      /\ \A i \in 1..MaxJobs : Fetched(i)' = IF i = j THEN {} ELSE Fetched(i)
      /\ \A c : \A i \in 1..MaxJobs : FetchedBy(i, c) /\ i # j => FetchedBy(i, c)'
  BY <1>2, <1>4, <1>8, EndedWork DEF Kept
<1>10. JobsKnowBatch'
  BY <1>1, <1>2, <1>4, LinksKeep DEF Kept
<1>11. UnfinishedFollowed'
  BY <1>1, <1>2, <1>4, <1>7, FollowersKeep
<1>12. RunningFetched'
  <2>1. \A i \in 1..MaxJobs, c \in Batches : c # b /\ FetchedBy(i, c) => FetchedBy(i, c)'
    BY <1>9 DEF FetchedBy
  <2> HIDE DEF b
  <2> QED
    BY <1>1, <1>3, <1>7, <1>8, <2>1, RunningKeep
<1>13. DoneItemsAccountedFor'
  <2>1. Fetched(j) \subseteq downloaded' \union lost'
    BY <1>2 DEF Fetched
  <2> QED
    BY <1>1, <1>2, <1>7, <1>9, <2>1, EndedAccounts
<1> QED
  BY <1>9, <1>10, <1>11, <1>12, <1>13 DEF Attempts

LEMMA StrandedAttempts ==
  ASSUME AllInv, SharingStep, TargetsKept, LocalTypes', NEW t \in tasks,
         NEW G \in SUBSET work[t.job].got, StrandJob(t, G)
  PROVE  Attempts'
<1> DEFINE j == t.job
<1>1. /\ JobsKnowBatch /\ UnfinishedFollowed /\ DoneItemsAccountedFor
      /\ BatchInv /\ TypeOK /\ j \in 1..MaxJobs
  BY TaskFacts DEF AllInv, Attempts, Inv
<1>2. /\ BookkeepingFails(t) /\ work' = [work EXCEPT ![j] = Idle]
      /\ batches' \in HalfSettled(t, G)
      /\ downloaded' = downloaded \union G
      /\ lost' = lost \union (work[j].got \ G) \union work[j].cur
      /\ UNCHANGED batchOf
  BY DEF StrandJob, Interrupt, Catalogue
<1>3. \A i \in Ids : Kept(i)
  BY <1>1, <1>2, QueueKeeps
<1>4. Batches' = Batches /\ DoneWithin(batches, batches', downloaded \union G)
  BY <1>1, <1>2, HalfSettledRows DEF Batches
<1>5. /\ WorkOfTasks'
      /\ \A i \in 1..MaxJobs : Fetched(i)' = IF i = j THEN {} ELSE Fetched(i)
  BY <1>2, <1>3, EndedWork DEF Kept
<1>6. JobsKnowBatch'
  BY <1>1, <1>2, <1>3, LinksKeep DEF Kept
<1>7. UnfinishedFollowed'
  BY <1>1, <1>2, <1>3, <1>4, FollowersKeep
<1>8. RunningFetched'
  BY <1>2 DEF RunningFetched, BookkeepingFails
<1>9. DoneItemsAccountedFor'
  <2>1. Fetched(j) \subseteq downloaded' \union lost'
    BY <1>2 DEF Fetched
  <2> QED
    BY <1>1, <1>2, <1>4, <1>5, <2>1, EndedAccounts
<1> QED
  BY <1>5, <1>6, <1>7, <1>8, <1>9 DEF Attempts

LEMMA RefusedAttempts ==
  ASSUME AllInv, SharingStep, TargetsKept, LocalTypes', NEW t \in tasks, NEW E \in SUBSET Videos,
         PrepareRefused(t, E)
  PROVE  Attempts'
<1> DEFINE j == t.job
<1>1. /\ WorkOfTasks /\ DoneItemsAccountedFor /\ BatchInv /\ TypeOK
      /\ j \in Ids /\ j \in 1..MaxJobs /\ Owned(j) /\ Ids \subseteq 1..MaxJobs
  BY TaskFacts, BatchFacts DEF AllInv, Attempts, Inv
<1>2. /\ DbFaults /\ FailJob(t) /\ work' = [work EXCEPT ![j] = Idle]
      /\ work[j].at = "discover"
      /\ UNCHANGED <<downloaded, lost>>
  BY DEF PrepareRefused
<1>3. PICK c \in BatchFor(t) :
        /\ batchOf' = [batchOf EXCEPT ![t.job] = c]
        /\ Batches' = Batches \union {c}
        /\ Feed(batches'[c]) = JobFeed(t.job)
        /\ DoneWithin(batches, batches', downloaded)
  <2>1. \E c \in BatchFor(t) :
          /\ batchOf' = [batchOf EXCEPT ![t.job] = c]
          /\ Batches' = Batches \union {c}
          /\ \A a \in Batches :
               /\ Feed(batches'[a]) = Feed(batches[a])
               /\ a # c => batches'[a].status \in {batches[a].status, FailedStatus(t)}
          /\ Feed(batches'[c]) = JobFeed(t.job)
          /\ batches'[c].status \in {"running", FailedStatus(t)}
          /\ DoneWithin(batches, batches', downloaded)
    BY <1>1, PreparingRows
  <2> QED
    BY <2>1
<1>4. \A i \in Ids : Kept(i)
  BY <1>1, <1>2, QueueKeeps
<1>5. typeOf[j] \in BatchTypes /\ Fetched(j) = {}
  BY <1>1, <1>2 DEF WorkOfTasks
<1>6. /\ JobsKnowBatch' /\ UnfinishedFollowed'
      /\ \A i \in 1..MaxJobs : batchOf'[i] = IF i = j THEN c ELSE batchOf[i]
  BY <1>3, <1>4, <1>5, DiscoveryLinks
<1>7. Settle(t)
  BY <1>2 DEF Settle, FailJob
<1>8. /\ WorkOfTasks'
      /\ \A i \in 1..MaxJobs : Fetched(i)' = IF i = j THEN {} ELSE Fetched(i)
  <2>1. \A i \in Ids : i # j => batchOf'[i] = batchOf[i] /\ jobs'[i].url = jobs[i].url
    BY <1>1, <1>4, <1>6 DEF Kept
  <2> QED
    BY <1>2, <1>7, <2>1, EndedWork
<1>9. RunningFetched'
  BY <1>2 DEF RunningFetched
<1>10. DoneItemsAccountedFor'
  BY <1>1, <1>2, <1>3, <1>5, <1>8, EndedAccounts
<1> QED
  BY <1>6, <1>8, <1>9, <1>10 DEF Attempts

-----------------------------------------------------------------------------
(* Processes.                                                              *)

(* A stop leaves no attempt, and what the attempts had fetched is catalogued *)
(* or counts as lost.                                                      *)
LEMMA StoppedWork ==
  ASSUME SoloProcess, AllInv, NEW p \in Procs, NEW G, Stop(p), LeaveAll(p, G),
         downloaded' = downloaded \union G
  PROVE  /\ WorkOfTasks' /\ RunningFetched'
         /\ downloaded \union lost \subseteq Accounted'
         /\ downloaded' \subseteq Accounted'
         /\ Accounted \subseteq Accounted'
<1>1. /\ WorkOfTasks /\ Inv
      /\ \A i : Owned(i) => i \in 1..MaxJobs
  BY TaskFacts DEF AllInv, Attempts
<1>2. up' = {} /\ \A i : ~Owned(i)'
  BY <1>1, OwnersAfterStop
<1>3. \A i : i \in JobsOf(p) <=> Owned(i)
  <2>1. \A t \in tasks : t.runner[1] = p
    BY <1>1 DEF Inv, TasksOfUp, TypeOK, SoloProcess
  <2> QED
    BY <2>1 DEF JobsOf, Owned
<1>4. \A i \in 1..MaxJobs : work'[i] = Idle
  BY <1>1, <1>3 DEF LeaveAll, WorkOfTasks
<1>5. Idle.at = "idle" /\ Idle.cur = {} /\ Idle.got = {}
  BY DEF Idle
<1>6. \A i \in 1..MaxJobs : Fetched(i)' = {}
  BY <1>4, <1>5 DEF Fetched
<1>7. WorkOfTasks'
  BY <1>2, <1>4, <1>6 DEF WorkOfTasks
<1>8. RunningFetched'
  BY <1>2 DEF RunningFetched
<1>9. \A i \in 1..MaxJobs : Fetched(i) \subseteq downloaded' \union lost'
  <2> SUFFICES ASSUME NEW i \in 1..MaxJobs, NEW v \in Fetched(i), v \notin G
               PROVE  v \in lost'
    OBVIOUS
  <2>1. i \in JobsOf(p)
    BY <1>1, <1>3, <1>5 DEF WorkOfTasks, Fetched
  <2>2. v \in UNION {work[k].cur \union work[k].got : k \in JobsOf(p)}
    BY <2>1, Zenon DEF Fetched
  <2>3. ASSUME NEW x \in UNION {work[k].cur \union work[k].got : k \in JobsOf(p)},
               x \notin G
        PROVE  x \in lost'
    BY <2>3, Zenon DEF LeaveAll
  <2> QED
    BY <2>2, <2>3, Zenon
<1>10. downloaded \subseteq downloaded' /\ lost \subseteq lost'
       /\ downloaded' \subseteq Accounted' /\ lost' \subseteq Accounted'
  BY DEF LeaveAll, Accounted
<1>11. Accounted \subseteq Accounted'
  BY <1>9, <1>10, InProgressIs DEF Accounted
<1> QED
  BY <1>7, <1>8, <1>10, <1>11

LEMMA StoppedAttempts ==
  ASSUME SoloProcess, AllInv, SharingStep, TargetsKept, LocalTypes', NEW p \in Procs,
         \/ StopIdle(p)
         \/ \E t \in tasks : \E G \in SUBSET work[t.job].got :
              StopWhileSettling(p, t, G)
         \/ \E t \in tasks : \E E \in SUBSET Videos : StopWhilePreparing(p, t, E)
  PROVE  Attempts'
<1>1. /\ JobsKnowBatch /\ UnfinishedFollowed /\ DoneItemsAccountedFor
      /\ BatchInv /\ TypeOK /\ WorkOfTasks
  BY DEF AllInv, Attempts, Inv
<1>2. Stop(p)
  BY DEF StopIdle, StopWhileSettling, StopWhilePreparing
<1>3. \A i \in Ids : Kept(i)
  <2>1. UNCHANGED jobs
    BY <1>2 DEF Stop
  <2> QED
    BY <1>1, <2>1, QueueKeeps
<1>4. CASE StopIdle(p)
  <2>1. /\ LeaveAll(p, {}) /\ downloaded' = downloaded \union {}
        /\ UNCHANGED <<batches, batchOf>>
    BY <1>4 DEF StopIdle
  <2>2. /\ WorkOfTasks' /\ RunningFetched'
        /\ downloaded' \subseteq Accounted' /\ Accounted \subseteq Accounted'
    BY <1>2, <2>1, StoppedWork
  <2>3. JobsKnowBatch'
    BY <1>1, <1>3, <2>1, LinksKeep DEF Kept
  <2>4. UnfinishedFollowed'
    BY <1>1, <1>3, <2>1, FollowersKeep DEF Batches
  <2>5. DoneWithin(batches, batches', {})
    BY <2>1 DEF DoneWithin
  <2>6. DoneItemsAccountedFor'
    BY <1>1, <2>2, <2>5, AccountsKeep
  <2> QED
    BY <2>2, <2>3, <2>4, <2>6 DEF Attempts
<1>5. ASSUME NEW t \in tasks, NEW G \in SUBSET work[t.job].got,
             StopWhileSettling(p, t, G)
      PROVE  Attempts'
  <2>1. /\ LeaveAll(p, G) /\ downloaded' = downloaded \union G
        /\ batches' \in HalfSettled(t, G)
        /\ UNCHANGED batchOf
    BY <1>5 DEF StopWhileSettling, Interrupt, Catalogue
  <2>2. /\ WorkOfTasks' /\ RunningFetched'
        /\ downloaded' \subseteq Accounted' /\ Accounted \subseteq Accounted'
    BY <1>2, <2>1, StoppedWork
  <2>3. Batches' = Batches /\ DoneWithin(batches, batches', downloaded')
    BY <1>1, <2>1, HalfSettledRows DEF Batches
  <2>4. JobsKnowBatch'
    BY <1>1, <1>3, <2>1, LinksKeep DEF Kept
  <2>5. UnfinishedFollowed'
    BY <1>1, <1>3, <2>1, <2>3, FollowersKeep
  <2>6. DoneItemsAccountedFor'
    BY <1>1, <2>2, <2>3, AccountsKeep
  <2> QED
    BY <2>2, <2>4, <2>5, <2>6 DEF Attempts
<1>6. ASSUME NEW t \in tasks, NEW E \in SUBSET Videos, StopWhilePreparing(p, t, E)
      PROVE  Attempts'
  <2>1. /\ LeaveAll(p, {}) /\ downloaded' = downloaded \union {}
        /\ work[t.job].at = "discover"
    BY <1>6 DEF StopWhilePreparing
  <2>2. /\ WorkOfTasks' /\ RunningFetched'
        /\ downloaded' \subseteq Accounted' /\ Accounted \subseteq Accounted'
    BY <1>2, <2>1, StoppedWork
  <2>3. PICK c \in BatchFor(t) :
          /\ batchOf' = [batchOf EXCEPT ![t.job] = c]
          /\ Batches' = Batches \union {c}
          /\ Feed(batches'[c]) = JobFeed(t.job)
          /\ DoneWithin(batches, batches', downloaded)
    <3>1. \E c \in BatchFor(t) :
            /\ batchOf' = [batchOf EXCEPT ![t.job] = c]
            /\ Batches' = Batches \union {c}
            /\ \A a \in Batches :
                 /\ Feed(batches'[a]) = Feed(batches[a])
                 /\ a # c => batches'[a].status \in {batches[a].status, FailedStatus(t)}
            /\ Feed(batches'[c]) = JobFeed(t.job)
            /\ batches'[c].status \in {"running", FailedStatus(t)}
            /\ DoneWithin(batches, batches', downloaded)
      BY <1>1, <1>6, PreparingRows
    <3> QED
      BY <3>1
  <2>4. typeOf[t.job] \in BatchTypes
    BY <1>1, <2>1, TaskFacts DEF WorkOfTasks
  <2>5. JobsKnowBatch' /\ UnfinishedFollowed'
    BY <1>3, <2>3, <2>4, DiscoveryLinks
  <2>6. DoneItemsAccountedFor'
    BY <1>1, <2>1, <2>2, <2>3, AccountsKeep
  <2> QED
    BY <2>2, <2>5, <2>6 DEF Attempts
<1> QED
  BY <1>4, <1>5, <1>6

(* The recovery finds no attempt, and leaves no batch running.              *)
LEMMA RestartedAttempts ==
  ASSUME SoloProcess, AllInv, SharingStep, TargetsKept, LocalTypes', NEW p \in Procs, Restart(p)
  PROVE  Attempts'
<1>1. /\ WorkOfTasks /\ JobsKnowBatch /\ UnfinishedFollowed /\ DoneItemsAccountedFor
      /\ BatchInv /\ TypeOK /\ Inv
  BY DEF AllInv, Attempts, Inv
<1>2. /\ Start(p)
      /\ batches' = [b \in Batches |-> IF batches[b].status = "running"
                                       THEN [batches[b] EXCEPT !.status = "queued"]
                                       ELSE batches[b]]
      /\ UNCHANGED <<batchOf, downloaded, work, lost>>
  BY DEF Restart
<1>3. \A i \in Ids : Kept(i)
  BY <1>1, <1>2, QueueKeeps DEF EnvStep
<1>4. \A i : ~Owned(i) /\ ~Owned(i)'
  BY <1>1, <1>2, OwnersAtStart
<1>5. /\ Batches' = Batches
      /\ \A b \in Batches : /\ batches'[b].status # "running"
                            /\ batches'[b].items = batches[b].items
  <2>1. \A b \in Batches : batches[b] \in Batch
    BY <1>1, BatchFacts DEF Batches
  <2> QED
    BY <1>2, <2>1 DEF Batches, Batch
<1>6. \A i \in 1..MaxJobs : Fetched(i)' = Fetched(i)
  BY <1>2 DEF Fetched
<1>7. WorkOfTasks'
  BY <1>1, <1>2, <1>4, <1>6 DEF WorkOfTasks
<1>8. JobsKnowBatch'
  BY <1>1, <1>2, <1>3, LinksKeep DEF Kept
<1>9. UnfinishedFollowed'
  BY <1>1, <1>2, <1>3, <1>5, FollowersKeep
<1>10. RunningFetched'
  BY <1>5 DEF RunningFetched
<1>11. DoneItemsAccountedFor'
  BY <1>1, <1>2, <1>5 DEF DoneItemsAccountedFor, InProgress
<1> QED
  BY <1>7, <1>8, <1>9, <1>10, <1>11 DEF Attempts

-----------------------------------------------------------------------------
(* The invariant, and what it says.                                        *)

LEMMA AttemptsInductive ==
  ASSUME SoloProcess, AllInv, [BatchNext]_allVars
  PROVE  Attempts'
<1>1. SharingStep /\ TargetsKept /\ LocalTypes'
  BY EveryStepShares, TargetsStay, EveryStepGood DEF AllInv, GoodStep
<1>2. TypeOK
  BY DEF AllInv, Inv
<1>3. CASE UserStepB
  <2>1. /\ UserStep /\ UNCHANGED <<up, tasks>>
        /\ UNCHANGED <<batches, batchOf, downloaded, work, completedOnce, lost>>
    BY <1>3 DEF UserStepB, UserStep, SetJobPriority, PauseJob, ResumeJob, batchVars
  <2> QED
    BY <1>1, <1>2, <2>1, QueueKeeps, UserAttempts
<1>8. ASSUME \/ \E u \in Urls, q \in Priorities, k \in Targets : EnqueueAs(u, q, k)
             \/ \E b \in BOOLEAN : ClearLetters(b)
      PROVE  Attempts'
  <2>1. /\ UserStep /\ UNCHANGED <<up, tasks>>
        /\ UNCHANGED <<batches, batchOf, downloaded, work, completedOnce, lost>>
    BY <1>8 DEF EnqueueAs, ClearLetters, UserStep, Enqueue, ClearDeadLetters
  <2> QED
    BY <1>1, <1>2, <2>1, QueueKeeps, UserAttempts
<1>4. CASE ClockAndNetworkStep
  <2>1. /\ EnvStep /\ UNCHANGED <<up, tasks>>
        /\ UNCHANGED <<batches, batchOf, downloaded, work, completedOnce, lost>>
    BY <1>4 DEF ClockAndNetworkStep, EnvStep, BackoffElapses, GoOnline, GoOffline,
                batchVars
  <2> QED
    BY <1>1, <1>2, <2>1, QueueKeeps, UserAttempts
<1>5. CASE UNCHANGED allVars
  <2>1. /\ UNCHANGED <<jobs, up, tasks>>
        /\ UNCHANGED <<batches, batchOf, downloaded, work, completedOnce, lost>>
    BY <1>5 DEF allVars, vars, batchVars
  <2> QED
    BY <1>1, <1>2, <2>1, QueueKeeps, UserAttempts
<1>6. CASE \E t \in tasks : AttemptStep(t)
  BY <1>1, <1>6, PrepareAttempts, FileAttempts, CompleteAttempts, FailedAttempts,
     RefusedAttempts, StrandedAttempts DEF AttemptStep
<1>7. CASE \E p \in Procs : ProcessStep(p)
  BY <1>1, <1>7, StoppedAttempts, RestartedAttempts DEF ProcessStep
<1> QED
  BY <1>1, <1>3, <1>4, <1>5, <1>6, <1>7, <1>8, RetryAttempts, ClaimAttempts
     DEF BatchNext

(* The attempts, the jobs and the batches agree after every step of any     *)
(* actor, crashes and refused writes included.                             *)
THEOREM AttemptsInvariance == BatchSpec => []Attempts
<1>4. SoloProcess
  BY OneProcess DEF SoloProcess
<1>1. BatchInit => Attempts
  <2> SUFFICES ASSUME BatchInit PROVE Attempts
    OBVIOUS
  <2>1. Idle.at = "idle" /\ Idle.cur = {} /\ Idle.got = {}
    BY DEF Idle
  <2>2. Batches = {} /\ \A i : ~Owned(i)
    BY DEF BatchInit, Init, Batches, Owned
  <2>3. WorkOfTasks /\ JobsKnowBatch
    BY <2>1, <2>2 DEF BatchInit, WorkOfTasks, JobsKnowBatch, Fetched
  <2> QED
    BY <2>2, <2>3 DEF Attempts, UnfinishedFollowed, RunningFetched,
                      DoneItemsAccountedFor
<1>2. Inv /\ BatchInv /\ Sharing /\ Attempts /\ [BatchNext]_allVars => Attempts'
  BY <1>4, AttemptsInductive DEF AllInv
<1>3. BatchSpec => []Inv
  <2>1. Spec => []Inv
    BY <1>4, Invariance
  <2> QED
    BY <2>1, QueueRefined, PTL
<1> QED
  BY <1>1, <1>2, <1>3, BatchInvariance, SharingInvariance, PTL DEF BatchSpec

(* A dead job's letter stays until the user clears it: the job dies as its  *)
(* letter is written, and a retry marks the letter and keeps it.            *)
DeadHaveLetters ==
  \A i \in Ids : jobs[i].status = "dead" => HasLetter(i) \/ i \in cleared

(* Steps that neither kill a job nor take a letter away.                    *)
LEMMA LettersStay ==
  ASSUME DeadHaveLetters, cleared \subseteq cleared',
         \A d \in deadLetters : \E e \in deadLetters' : e.job = d.job,
         \A i \in Ids' : jobs'[i].status = "dead" =>
                           i \in Ids /\ jobs[i].status = "dead"
  PROVE  DeadHaveLetters'
BY DEF DeadHaveLetters, HasLetter

LEMMA AddedLives ==
  ASSUME TypeOK, NEW u \in Urls, NEW q \in Priorities,
         jobs' = Append(jobs, NewJob(u, q))
  PROVE  \A i \in Ids' : jobs'[i].status = "dead" =>
                           i \in Ids /\ jobs[i].status = "dead"
<1>1. NewJob(u, q) \in Job /\ NewJob(u, q).status = "pending"
  BY NewJobType DEF NewJob
<1> QED
  BY <1>1, AddRow DEF Ids, TypeOK

LEMMA DeadStep ==
  ASSUME BatchInv, DeadHaveLetters, [BatchNext]_allVars
  PROVE  DeadHaveLetters'
<1>1. /\ TypeOK /\ jobs \in Seq(Job)
      /\ \A i \in Ids : jobs[i] \in Job
  BY BatchFacts, RowTypes DEF TypeOK
<1> DEFINE NoneDies == \A i \in Ids' : jobs'[i].status = "dead" =>
                                       i \in Ids /\ jobs[i].status = "dead"
<1>2. CASE UNCHANGED <<deadLetters, cleared>> /\ NoneDies
  BY <1>2, LettersStay
<1>3. ASSUME UNCHANGED jobs
      PROVE  NoneDies
  BY <1>3 DEF Ids
<1>4. ASSUME UserStepB \/ ClockAndNetworkStep
      PROVE  UNCHANGED <<deadLetters, cleared>> /\ NoneDies
  <2>1. \/ UNCHANGED jobs
        \/ \E i \in Ids : \/ \E q \in Priorities : SetJobPriority(i, q)
                          \/ PauseJob(i) \/ ResumeJob(i) \/ BackoffElapses(i)
    BY <1>4 DEF UserStepB, ClockAndNetworkStep, GoOnline, GoOffline
  <2>2. ASSUME NEW i \in Ids,
               \/ \E q \in Priorities : SetJobPriority(i, q)
               \/ PauseJob(i) \/ ResumeJob(i) \/ BackoffElapses(i)
        PROVE  NoneDies
    <3>1. CASE \E q \in Priorities : SetJobPriority(i, q)
      BY <1>1, <3>1 DEF Job, Ids, SetJobPriority
    <3>2. CASE PauseJob(i)
      BY <1>1, <3>2 DEF Job, Ids, PauseJob
    <3>3. CASE ResumeJob(i)
      BY <1>1, <3>3 DEF Job, Ids, ResumeJob
    <3>4. CASE BackoffElapses(i)
      BY <1>1, <3>4 DEF Job, Ids, BackoffElapses
    <3> QED
      BY <2>2, <3>1, <3>2, <3>3, <3>4
  <2>3. NoneDies
    BY <1>3, <2>1, <2>2
  <2> QED
    BY <1>4, <2>3 DEF UserStepB, ClockAndNetworkStep, SetJobPriority, PauseJob,
       ResumeJob, BackoffElapses, GoOnline, GoOffline, batchVars, userVars
<1>5. ASSUME NEW u \in Urls, NEW q \in Priorities, NEW k \in Targets, EnqueueAs(u, q, k)
      PROVE  UNCHANGED <<deadLetters, cleared>> /\ NoneDies
  BY <1>1, <1>5, AddedLives DEF EnqueueAs, Enqueue
<1>6. ASSUME NEW b \in BOOLEAN, ClearLetters(b)
      PROVE  DeadHaveLetters'
  <2>1. /\ UNCHANGED jobs
        /\ cleared' = cleared \union {d.job : d \in deadLetters \ deadLetters'}
    BY <1>6 DEF ClearLetters, ClearDeadLetters
  <2> QED
    BY <2>1 DEF DeadHaveLetters, HasLetter, Ids
<1>7. ASSUME NEW d \in deadLetters, RetryLetter(d)
      PROVE  DeadHaveLetters'
  <2>1. d.url \in Urls /\ d.priority \in Priorities
    BY <1>1 DEF TypeOK, DeadLetter
  <2>2. UNCHANGED jobs \/ jobs' = Append(jobs, NewJob(d.url, d.priority))
    BY <1>7 DEF RetryLetter, RetryDeadLetter
  <2>3. NoneDies
    BY <1>1, <2>1, <2>2, AddedLives DEF Ids
  <2>4. \A c \in deadLetters : \E e \in deadLetters' : e.job = c.job
    <3>1. [d EXCEPT !.retried = TRUE].job = d.job
      BY <1>1 DEF TypeOK, DeadLetter
    <3>2. deadLetters' = (deadLetters \ {d}) \union {[d EXCEPT !.retried = TRUE]}
      BY <1>7 DEF RetryLetter, RetryDeadLetter
    <3> QED
      BY <3>1, <3>2
  <2> QED
    BY <1>7, <2>3, <2>4, LettersStay DEF RetryLetter
<1>8. ASSUME NEW r \in Runners, ClaimJobs(r)
      PROVE  UNCHANGED <<deadLetters, cleared>> /\ NoneDies
  <2>1. /\ Claim(r)
        /\ jobs' = [i \in Ids |->
                      IF i \in Picked
                      THEN [jobs[i] EXCEPT !.status = "processing",
                                           !.attempts = @ + 1, !.due = TRUE]
                      ELSE jobs[i]]
        /\ UNCHANGED <<deadLetters, cleared>>
    BY <1>8 DEF ClaimJobs, Claim, userVars
  <2> QED
    BY <1>1, <2>1 DEF Ids, Job
<1>9. ASSUME NEW t \in tasks, AttemptStep(t)
      PROVE  DeadHaveLetters'
  <2>1. UNCHANGED cleared
    BY <1>9 DEF AttemptStep, Prepare, FinishFile, EndFile, Complete, FailAttempt,
                PrepareRefused, StrandJob, Interrupt, Leave, userVars
  <2>2. \/ UNCHANGED <<jobs, deadLetters>>
        \/ Succeed(t) \/ FailAndRequeue(t) \/ FailAndDeadLetter(t)
    BY <1>9 DEF AttemptStep, Prepare, FinishFile, EndFile, Complete, FailAttempt,
                PrepareRefused, StrandJob, BookkeepingFails, FailJob, vars
  <2>3. CASE UNCHANGED <<jobs, deadLetters>>
    BY <1>2, <1>3, <2>1, <2>3
  <2>4. CASE Succeed(t) \/ FailAndRequeue(t)
    <3>1. UNCHANGED deadLetters /\ NoneDies
      BY <1>1, <2>4 DEF Succeed, FailAndRequeue, Ids, Job
    <3> QED
      BY <1>2, <2>1, <3>1
  <2>5. CASE FailAndDeadLetter(t)
    <3>1. /\ \A i \in Ids' : jobs'[i].status = "dead" =>
                i \in Ids /\ (i = t.job \/ jobs[i].status = "dead")
          /\ deadLetters \subseteq deadLetters'
          /\ HasLetter(t.job)'
      <4>1. \A i \in Ids' : jobs'[i].status = "dead" =>
              i \in Ids /\ (i = t.job \/ jobs[i].status = "dead")
        BY <1>1, <2>5 DEF FailAndDeadLetter, Ids, Job
      <4>2. \E e \in deadLetters' : e.job = t.job
        <5> DEFINE e == [id |-> nextLetter, job |-> t.job, url |-> jobs[t.job].url,
                         priority |-> jobs[t.job].priority,
                         attempts |-> jobs[t.job].attempts, retried |-> FALSE]
        <5>1. e \in deadLetters'
          BY <2>5 DEF FailAndDeadLetter
        <5>2. e.job = t.job
          OBVIOUS
        <5> HIDE DEF e
        <5> QED
          BY <5>1, <5>2
      <4>3. deadLetters \subseteq deadLetters'
        BY <2>5 DEF FailAndDeadLetter
      <4> QED
        BY <4>1, <4>2, <4>3 DEF HasLetter
    <3> QED
      BY <2>1, <3>1 DEF DeadHaveLetters, HasLetter
  <2> QED
    BY <2>2, <2>3, <2>4, <2>5
<1>10. ASSUME NEW q \in Procs, ProcessStep(q)
       PROVE  UNCHANGED <<deadLetters, cleared>> /\ NoneDies
  <2>1. UNCHANGED cleared /\ (Start(q) \/ Stop(q))
    BY <1>10 DEF ProcessStep, Restart, StopIdle, StopWhileSettling, Interrupt,
                 StopWhilePreparing, userVars
  <2>2. CASE Start(q)
    BY <1>1, <2>1, <2>2 DEF Start, Ids, Job
  <2>3. CASE Stop(q)
    BY <1>3, <2>1, <2>3 DEF Stop
  <2> QED
    BY <2>1, <2>2, <2>3
<1>11. CASE UNCHANGED allVars
  BY <1>2, <1>3, <1>11 DEF allVars, vars, batchVars, userVars
<1> QED
  BY <1>2, <1>4, <1>5, <1>6, <1>7, <1>8, <1>9, <1>10, <1>11 DEF BatchNext

(* A batch that was never completed can be gone on with: one of its jobs is *)
(* live or paused, or dead with a letter that can be retried, unless it is  *)
(* dead and the user has cleared its letter.                               *)
THEOREM UnfinishedHasJobHolds == BatchSpec => []UnfinishedHasJob
<1>1. BatchInv /\ Attempts /\ DeadHaveLetters => UnfinishedHasJob
  <2> SUFFICES ASSUME BatchInv, Attempts, DeadHaveLetters, NEW b \in Unfinished
               PROVE  \E i \in Ids :
                        /\ batchOf[i] = b
                        /\ \/ i \in Live \union WithStatus({"paused"})
                           \/ HasLetter(i)
                           \/ i \in cleared
    BY DEF UnfinishedHasJob
  <2>1. PICK i \in Ids : jobs[i].status # "done" /\ batchOf[i] = b
    BY DEF Attempts, UnfinishedFollowed, Followed, Unfinished
  <2>2. jobs[i].status \in Status
    BY BatchFacts, RowTypes
  <2>3. i \in Live \union WithStatus({"paused"}) \/ jobs[i].status = "dead"
    BY <2>1, <2>2 DEF Live, WithStatus, Status
  <2> QED
    BY <2>1, <2>3 DEF DeadHaveLetters
<1>2. BatchInit => DeadHaveLetters
  BY DEF BatchInit, Init, DeadHaveLetters, Ids
<1>3. BatchInv /\ DeadHaveLetters /\ [BatchNext]_allVars => DeadHaveLetters'
  BY DeadStep
<1> QED
  BY <1>1, <1>2, <1>3, BatchInvariance, AttemptsInvariance, PTL DEF BatchSpec

(* Several jobs for one URL and type share its unfinished batch instead of  *)
(* forking it, and a batch that says it is running is being downloaded.     *)
THEOREM UnfinishedIsSharedHolds == BatchSpec => []UnfinishedIsShared
<1>1. Attempts => RunningBatchHasTask
  <2> SUFFICES ASSUME Attempts, up # {}, ~DbFaults, NEW b \in Batches,
                      batches[b].status = "running"
               PROVE  \E t \in tasks : work[t.job].batch = b
    BY DEF RunningBatchHasTask
  <2> QED
    BY DEF Attempts, RunningFetched, FetchedBy, Owned
<1>2. OneUnfinishedBatch /\ RunningBatchHasTask => UnfinishedIsShared
  BY DEF UnfinishedIsShared
<1> QED
  BY <1>1, <1>2, OneUnfinishedHolds, AttemptsInvariance, PTL

(* A done item is a video that is in the catalogue, that an attempt is      *)
(* about to enter there, or that an attempt fetched and could not enter.    *)
THEOREM DoneItemsAccountedForHolds == BatchSpec => []DoneItemsAccountedFor
<1>1. Attempts => DoneItemsAccountedFor
  BY DEF Attempts
<1> QED
  BY <1>1, AttemptsInvariance, PTL

=============================================================================
