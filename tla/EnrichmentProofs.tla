--------------------------- MODULE EnrichmentProofs ---------------------------
(***************************************************************************)
(* Theorems about Enrichment: what the tasks work on, what the gate of a   *)
(* sync lets through, and which tasks undo the work on a video.            *)
(***************************************************************************)
EXTENDS Enrichment, FiniteSetTheorems, TLAPS

-----------------------------------------------------------------------------
(* The invariant.                                                          *)

Kinds == {"none", "generated", "remote"}

(* The rows a task works on are rows of listed videos.                      *)
RowsFit(run, videos) ==
  /\ run.at = "artwork" =>
       /\ run.rows \in Seq([video : Videos, art : Kinds]) /\ run.rows # <<>>
       /\ \A i \in DOMAIN run.rows : run.rows[i].video \in videos
       /\ run.then \in {"idle", "rss", "backfill", "missing"}
  /\ run.at = "prepare" =>
       /\ run.rows \in Seq(Videos)
       /\ \A i \in DOMAIN run.rows : run.rows[i] \in videos

(* What is in rows that were read, and not found, is still so, unless        *)
(* another task had the video, too.                                         *)
RowsFresh(rows, a, r) ==
  \A i, j \in DOMAIN rows :
    /\ <<"artwork", rows[i].video>> \notin r => rows[i].art = a[rows[i].video]
    /\ rows[i].video = rows[j].video => i = j

ArtFresh(run, a, r) == run.at = "artwork" /\ ~run.found => RowsFresh(run.rows, a, r)

EmbFresh(run, e, r) ==
  run.at = "prepare" =>
    \A i \in DOMAIN run.rows : <<"prepare", run.rows[i]>> \notin r => e[run.rows[i]] = "none"

(* The outcome of the gate.                                                 *)
Gated(run) ==
  run.at \in {"open", "closed"} =>
    /\ ~config.forced
    /\ \E minute \in Minutes : run.rows = <<minute>> /\ (run.at = "open" <=> InSyncWindow(minute))

(* No two tasks have a video but those of which that is known.              *)
RunsInv ==
  /\ runs = [t \in Tasks |-> runs[t]]
  /\ \A t \in Tasks : /\ RowsFit(runs[t], listed)
                      /\ ArtFresh(runs[t], art, raced) /\ EmbFresh(runs[t], emb, raced)
                      /\ \A u \in Tasks \ {t} : Holds(runs[t]) \cap Holds(runs[u]) \subseteq raced
  /\ Gated(runs["sync"])

(* Only the start works while the server is starting, and only then.         *)
ServerFits ==
  /\ server \in {"down", "starting", "up"}
  /\ server # "up" => \A t \in Tasks \ {"start"} : runs[t] = Idle
  /\ runs["start"].at # "idle" => server # "up"
  /\ runs["start"].then = "idle"

Typed ==
  /\ TypeOK
  /\ art = [v \in Videos |-> art[v]] /\ emb = [v \in Videos |-> emb[v]]
  /\ config \in Configs
  /\ ServerFits

Inv == Typed /\ RunsInv

-----------------------------------------------------------------------------
(* Lists of rows.                                                          *)

LEMMA IdleIs == Idle.at = "idle" /\ Idle.rows = <<>> /\ Idle.then = "idle" /\ Holds(Idle) = {}
BY DEF Idle, At, Holds

LEMMA AtIs ==
  ASSUME NEW stage, NEW rows
  PROVE  At(stage, rows).at = stage /\ At(stage, rows).rows = rows /\ At(stage, rows).then = "idle"
BY DEF At

LEMMA NewestAre ==
  ASSUME Typed, NEW S \in SUBSET listed, NEW limit \in Nat, NEW rows \in Newest(S, limit)
  PROVE  /\ rows \in Seq(Videos) /\ \A i \in DOMAIN rows : rows[i] \in S
         /\ \A i, j \in DOMAIN rows : rows[i] = rows[j] => i = j
<1>1. S \subseteq Videos /\ IsFiniteSet(Videos)
  BY EnrichmentAssumption DEF Typed, TypeOK
<1>2. Cardinality(S) \in Nat
  BY <1>1, FS_Subset, FS_CardinalityType
<1> DEFINE n == IF limit < Cardinality(S) THEN limit ELSE Cardinality(S)
<1>3. n \in Nat
  BY <1>2
<1>4. rows \in [1..n -> S] /\ \A i, j \in DOMAIN rows : i < j => <<rows[j], rows[i]>> \in later
  BY DEF Newest
<1> HIDE DEF n
<1>5. rows \in Seq(Videos)
  BY <1>1, <1>3, <1>4
<1>6. \A u \in listed : <<u, u>> \notin later
  BY DEF Typed, TypeOK
<1>7. ASSUME NEW i \in DOMAIN rows, NEW j \in DOMAIN rows, rows[i] = rows[j]
      PROVE  i = j
  <2>1. i \in Nat /\ j \in Nat /\ rows[i] \in listed
    BY <1>3, <1>4
  <2>2. ~ (i < j) /\ ~ (j < i)
    BY <1>4, <1>6, <1>7, <2>1
  <2> QED
    BY <2>1, <2>2
<1> QED
  BY <1>4, <1>5, <1>7

(* The order of the rows when some become the latest.                       *)
LEMMA TouchOrders ==
  ASSUME Typed, NEW rows \in Seq(Videos), \A i, j \in DOMAIN rows : rows[i] = rows[j] => i = j,
         Touch(rows)
  PROVE  /\ listed' = listed \cup ToSet(rows)
         /\ listed' \subseteq Videos /\ later' \subseteq listed' \X listed'
         /\ \A u, v \in listed' : <<u, v>> \in later' <=> u # v /\ <<v, u>> \notin later'
<1> DEFINE now == ToSet(rows)
           others == listed \ now
<1>1. /\ listed' = listed \cup now
      /\ later' = (later \cap (others \X others)) \cup (others \X now) \cup InOrder(rows)
  BY DEF Touch
<1>2. now \subseteq Videos /\ \A v : v \in now <=> \E i \in DOMAIN rows : v = rows[i]
  BY DEF ToSet
<1>3. InOrder(rows) \subseteq now \X now
  BY DEF InOrder
<1>4. \A i, j \in DOMAIN rows : <<rows[i], rows[j]>> \in InOrder(rows) <=> i < j
  <2>1. ASSUME NEW i \in DOMAIN rows, NEW j \in DOMAIN rows, i < j
        PROVE  <<rows[i], rows[j]>> \in InOrder(rows)
    BY <1>2, <2>1 DEF InOrder
  <2>2. ASSUME NEW i \in DOMAIN rows, NEW j \in DOMAIN rows, <<rows[i], rows[j]>> \in InOrder(rows)
        PROVE  i < j
    <3>1. PICK k \in DOMAIN rows, l \in DOMAIN rows :
            k < l /\ <<rows[i], rows[j]>> = <<rows[k], rows[l]>>
      BY <2>2 DEF InOrder
    <3> QED
      BY <3>1
  <2> QED
    BY <2>1, <2>2
<1>5. \A i, j \in DOMAIN rows : i < j <=> i # j /\ ~ (j < i)
  OBVIOUS
<1>6. ASSUME NEW u \in now, NEW v \in now
      PROVE  <<u, v>> \in InOrder(rows) <=> u # v /\ <<v, u>> \notin InOrder(rows)
  <2>1. PICK i \in DOMAIN rows : u = rows[i]
    BY <1>2
  <2>2. PICK j \in DOMAIN rows : v = rows[j]
    BY <1>2
  <2> QED
    BY <1>4, <1>5, <2>1, <2>2
<1> HIDE DEF now
<1>7. listed \subseteq Videos /\ later \subseteq listed \X listed
      /\ \A u, v \in listed : <<u, v>> \in later <=> u # v /\ <<v, u>> \notin later
  BY DEF Typed, TypeOK
<1>8. \A u, v \in listed' : <<u, v>> \in later' <=>
        \/ u \in others /\ v \in others /\ <<u, v>> \in later
        \/ u \in others /\ v \in now
        \/ u \in now /\ v \in now /\ <<u, v>> \in InOrder(rows)
  BY <1>1, <1>3
<1>9. \A u \in listed' : u \in others <=> u \notin now
  BY <1>1
<1>10. ASSUME NEW u \in listed', NEW v \in listed'
       PROVE  <<u, v>> \in later' <=> u # v /\ <<v, u>> \notin later'
  <2>1. CASE u \in now /\ v \in now
    BY <1>6, <1>8, <1>9, <2>1
  <2>2. CASE u \in others /\ v \in others
    BY <1>7, <1>8, <1>9, <2>2
  <2>3. CASE (u \in now /\ v \in others) \/ (u \in others /\ v \in now)
    BY <1>8, <1>9, <2>3
  <2> QED
    BY <1>9, <2>1, <2>2, <2>3
<1>11. listed' \subseteq Videos /\ later' \subseteq listed' \X listed'
  BY <1>1, <1>2, <1>3, <1>7
<1> QED
  BY <1>1, <1>10, <1>11 DEF now

LEMMA TouchOne ==
  ASSUME Typed, NEW v \in Videos, Touch(<<v>>)
  PROVE  /\ listed' = listed \cup {v}
         /\ listed' \subseteq Videos /\ later' \subseteq listed' \X listed'
         /\ \A x, y \in listed' : <<x, y>> \in later' <=> x # y /\ <<y, x>> \notin later'
<1>1. <<v>> \in Seq(Videos) /\ \A i, j \in DOMAIN <<v>> : <<v>>[i] = <<v>>[j] => i = j
  OBVIOUS
<1>2. ToSet(<<v>>) = {v}
  BY DEF ToSet
<1> QED
  BY <1>1, <1>2, TouchOrders

-----------------------------------------------------------------------------
(* A step of a task.                                                        *)

(* What tasks hold is work on videos.                                       *)
LEMMA HoldsAre ==
  ASSUME NEW run, RowsFit(run, Videos)
  PROVE  Holds(run) \subseteq {"artwork", "prepare"} \X Videos
BY DEF RowsFit, Holds

LEMMA FitsMore ==
  ASSUME NEW run, NEW S, NEW T, S \subseteq T, RowsFit(run, S)
  PROVE  RowsFit(run, T)
BY DEF RowsFit

LEMMA GotoIs ==
  ASSUME Inv, NEW t \in Tasks, NEW next, Goto(t, next)
  PROVE  /\ runs' = [u \in Tasks |-> runs'[u]] /\ runs'[t] = next
         /\ \A u \in Tasks \ {t} : runs'[u] = runs[u]
         /\ raced' = Contested(runs')
         /\ \A u \in Tasks : Holds(runs'[u]) \cap raced \subseteq raced'
         /\ \A u \in Tasks : \A w \in Tasks \ {u} : Holds(runs'[u]) \cap Holds(runs'[w]) \subseteq raced'
<1>1. runs' = [runs EXCEPT ![t] = next] /\ raced' = Contested(runs')
  BY DEF Goto
<1>2. runs = [u \in Tasks |-> runs[u]]
  BY DEF Inv, RunsInv
<1>3. runs' = [u \in Tasks |-> runs'[u]] /\ runs'[t] = next /\ \A u \in Tasks \ {t} : runs'[u] = runs[u]
  BY <1>1, <1>2
<1>4. ASSUME NEW u \in Tasks, NEW h \in Holds(runs'[u]),
             h \in raced \/ \E w \in Tasks \ {u} : h \in Holds(runs'[w])
      PROVE  h \in raced'
  <2>1. h \in UNION {Holds(runs'[x]) : x \in Tasks}
    BY <1>4
  <2>2. h \in raced \/ \E x \in Tasks : \E y \in Tasks \ {x} : h \in Holds(runs'[x]) \cap Holds(runs'[y])
    BY <1>4
  <2> QED
    BY <1>1, <2>1, <2>2 DEF Contested
<1>5. \A u \in Tasks : Holds(runs'[u]) \cap raced \subseteq raced'
  BY <1>4
<1>6. \A u \in Tasks : \A w \in Tasks \ {u} : Holds(runs'[u]) \cap Holds(runs'[w]) \subseteq raced'
  BY <1>4
<1> QED
  BY <1>1, <1>3, <1>5, <1>6

LEMMA RunStep ==
  ASSUME Inv, NEW t \in Tasks, NEW next, Goto(t, next),
         listed \subseteq listed', listed' \subseteq Videos, config' = config,
         RowsFit(next, listed'), ArtFresh(next, art', raced'), EmbFresh(next, emb', raced'),
         \A v \in Videos : art'[v] = art[v] \/ <<"artwork", v>> \in Holds(runs[t]),
         \A v \in Videos : emb'[v] = emb[v] \/ <<"prepare", v>> \in Holds(runs[t]),
         t = "sync" => Gated(next)
  PROVE  RunsInv' /\ raced' \subseteq {"artwork", "prepare"} \X Videos
<1>1. RunsInv
  BY DEF Inv
<1>2. /\ runs' = [u \in Tasks |-> runs'[u]] /\ runs'[t] = next
      /\ \A u \in Tasks \ {t} : runs'[u] = runs[u]
      /\ raced' = Contested(runs')
      /\ \A u \in Tasks : Holds(runs'[u]) \cap raced \subseteq raced'
      /\ \A u \in Tasks : \A w \in Tasks \ {u} : Holds(runs'[u]) \cap Holds(runs'[w]) \subseteq raced'
  BY GotoIs
<1>3. \A u \in Tasks : RowsFit(runs'[u], listed')
  <2>1. ASSUME NEW u \in Tasks \ {t} PROVE RowsFit(runs'[u], listed')
    BY <1>1, <1>2, <2>1, FitsMore DEF RunsInv
  <2> QED
    BY <1>2, <2>1
<1>4. ASSUME NEW u \in Tasks \ {t}, NEW h \in Holds(runs[u]), h \notin raced'
      PROVE  h \notin raced /\ h \notin Holds(runs[t])
  <2>1. h \notin raced
    BY <1>2, <1>4
  <2> QED
    BY <1>1, <1>4, <2>1 DEF RunsInv
<1>5. ASSUME NEW u \in Tasks \ {t} PROVE ArtFresh(runs'[u], art', raced')
  <2> SUFFICES ASSUME runs[u].at = "artwork", ~runs[u].found
               PROVE  RowsFresh(runs[u].rows, art', raced')
    BY <1>2, <1>5 DEF ArtFresh
  <2>1. RowsFresh(runs[u].rows, art, raced) /\ RowsFit(runs[u], listed)
    BY <1>1, <1>5 DEF RunsInv, ArtFresh
  <2>2. ASSUME NEW i \in DOMAIN runs[u].rows, <<"artwork", runs[u].rows[i].video>> \notin raced'
        PROVE  runs[u].rows[i].art = art'[runs[u].rows[i].video]
    <3> DEFINE v == runs[u].rows[i].video
    <3>1. <<"artwork", v>> \in Holds(runs[u])
      BY <2>2 DEF Holds
    <3>2. <<"artwork", v>> \notin raced /\ <<"artwork", v>> \notin Holds(runs[t])
      BY <1>4, <1>5, <2>2, <3>1
    <3>3. v \in Videos
      BY <2>1 DEF RowsFit
    <3> QED
      BY <2>1, <2>2, <3>2, <3>3 DEF RowsFresh
  <2> QED
    BY <2>1, <2>2 DEF RowsFresh
<1>6. ASSUME NEW u \in Tasks \ {t} PROVE EmbFresh(runs'[u], emb', raced')
  <2> SUFFICES ASSUME runs[u].at = "prepare", NEW i \in DOMAIN runs[u].rows,
                      <<"prepare", runs[u].rows[i]>> \notin raced'
               PROVE  emb'[runs[u].rows[i]] = "none"
    BY <1>2, <1>6 DEF EmbFresh
  <2> DEFINE v == runs[u].rows[i]
  <2>1. <<"prepare", v>> \in Holds(runs[u])
    BY DEF Holds
  <2>2. <<"prepare", v>> \notin raced /\ <<"prepare", v>> \notin Holds(runs[t])
    BY <1>4, <1>6, <2>1
  <2>3. v \in Videos /\ emb[v] = "none"
    BY <1>1, <1>6, <2>2 DEF RunsInv, RowsFit, EmbFresh
  <2> QED
    BY <2>2, <2>3
<1>7. Gated(runs["sync"])'
  <2>1. ASSUME NEW run, Gated(run)
        PROVE  Gated(run)'
    BY <2>1 DEF Gated, InSyncWindow
  <2>2. Gated(runs'["sync"])
    BY <1>1, <1>2 DEF RunsInv, Tasks
  <2> QED
    BY <2>2 DEF Gated, InSyncWindow
<1>8. \A u \in Tasks : ArtFresh(runs'[u], art', raced') /\ EmbFresh(runs'[u], emb', raced')
  BY <1>2, <1>5, <1>6
<1>9. RunsInv'
  BY <1>2, <1>3, <1>7, <1>8 DEF RunsInv, Holds
<1>10. raced' \subseteq {"artwork", "prepare"} \X Videos
  <2>1. raced' \subseteq UNION {Holds(runs'[u]) : u \in Tasks}
    BY <1>2 DEF Contested
  <2>2. \A u \in Tasks : Holds(runs'[u]) \subseteq {"artwork", "prepare"} \X Videos
    BY <1>3, FitsMore, HoldsAre
  <2> QED
    BY <2>1, <2>2
<1> QED
  BY <1>9, <1>10

(* A task that goes where there are no rows to work on.                     *)
LEMMA RestStep ==
  ASSUME Inv, NEW t \in Tasks, NEW next, Goto(t, next),
         next.at \notin {"artwork", "prepare", "open", "closed"},
         listed \subseteq listed', listed' \subseteq Videos, config' = config,
         \A v \in Videos : art'[v] = art[v] \/ <<"artwork", v>> \in Holds(runs[t]),
         \A v \in Videos : emb'[v] = emb[v] \/ <<"prepare", v>> \in Holds(runs[t])
  PROVE  RunsInv' /\ raced' \subseteq {"artwork", "prepare"} \X Videos
<1>1. RowsFit(next, listed') /\ ArtFresh(next, art', raced') /\ EmbFresh(next, emb', raced') /\ Gated(next)
  BY DEF RowsFit, ArtFresh, EmbFresh, Gated
<1> QED
  BY <1>1, RunStep

LEMMA ServerStep ==
  ASSUME Inv, NEW t \in Tasks, NEW next, Goto(t, next),
         \/ t # "start" /\ server = "up" /\ server' = server
         \/ t = "start" /\ server' = "up" /\ next.at = "idle" /\ next.then = "idle"
         \/ t = "start" /\ server' \in {"down", "starting"} /\ server # "up" /\ next.then = "idle"
  PROVE  ServerFits'
<1>1. /\ runs'[t] = next
      /\ \A u \in Tasks \ {t} : runs'[u] = runs[u]
  BY GotoIs
<1>2. "start" \in Tasks
  BY DEF Tasks
<1>3. ServerFits
  BY DEF Inv, Typed
<1>4. CASE t # "start" /\ server = "up" /\ server' = server
  BY <1>1, <1>2, <1>3, <1>4 DEF ServerFits
<1>5. CASE t = "start" /\ server' = "up" /\ next.at = "idle" /\ next.then = "idle"
  BY <1>1, <1>5 DEF ServerFits
<1>6. CASE t = "start" /\ server' \in {"down", "starting"} /\ server # "up" /\ next.then = "idle"
  BY <1>1, <1>3, <1>6 DEF ServerFits
<1> QED
  BY <1>4, <1>5, <1>6

LEMMA WorkingIsUp ==
  ASSUME Inv, NEW t \in Tasks, t # "start", runs[t].at # "idle"
  PROVE  server = "up"
BY IdleIs DEF Inv, Typed, ServerFits

LEMMA Kept ==
  ASSUME Inv
  PROVE  /\ online \in BOOLEAN /\ lock \in BOOLEAN /\ unusual \in 0 .. MaxUnusual
         /\ listed \subseteq Videos /\ raced \subseteq {"artwork", "prepare"} \X Videos
BY DEF Inv, Typed, TypeOK

-----------------------------------------------------------------------------
(* Artwork.                                                                 *)

(* Where EnsureAll leaves a task.                                           *)
LEMMA EnsureAllStep ==
  ASSUME Inv, NEW t \in Tasks, NEW rows, NEW remote, NEW found, NEW then,
         EnsureAll(t, rows, remote, found, then), then \in {"idle", "rss", "backfill", "missing"},
         t # "start" => server = "up", t = "start" => server # "up" /\ then = "idle",
         listed \subseteq listed', listed' \subseteq Videos, config' = config,
         rows \in Seq([video : Videos, art : Kinds]),
         \A i \in DOMAIN rows : rows[i].video \in listed',
         ~found => RowsFresh(rows, art', raced'),
         \A v \in Videos : art'[v] = art[v] \/ <<"artwork", v>> \in Holds(runs[t]), emb' = emb
  PROVE  RunsInv' /\ ServerFits' /\ raced' \subseteq {"artwork", "prepare"} \X Videos
<1>1. CASE rows = <<>>
  <2> DEFINE next == At(then, <<>>)
  <2>1. Goto(t, next) /\ server' = IF t # "start" THEN server ELSE "up"
    BY <1>1 DEF EnsureAll
  <2>2. next.at = then /\ next.then = "idle"
    BY AtIs
  <2> HIDE DEF next
  <2>3. RunsInv' /\ raced' \subseteq {"artwork", "prepare"} \X Videos
    BY <2>1, <2>2, RestStep
  <2>4. ServerFits'
    <3>1. CASE t # "start"
      BY <2>1, <3>1, ServerStep
    <3>2. CASE t = "start"
      BY <2>1, <2>2, <3>2, ServerStep
    <3> QED
      BY <3>1, <3>2
  <2> QED
    BY <2>3, <2>4
<1>2. CASE rows # <<>>
  <2> DEFINE next == AtArtwork(rows, remote, found, then)
  <2>1. Goto(t, next) /\ server' = IF t # "start" THEN server ELSE "starting"
    BY <1>2 DEF EnsureAll
  <2>2. next.at = "artwork" /\ next.rows = rows /\ next.found = found /\ next.then = then
    BY DEF AtArtwork
  <2> HIDE DEF next
  <2>3. /\ RowsFit(next, listed') /\ EmbFresh(next, emb', raced') /\ Gated(next)
        /\ ArtFresh(next, art', raced')
    BY <1>2, <2>2 DEF RowsFit, EmbFresh, Gated, ArtFresh
  <2>4. RunsInv' /\ raced' \subseteq {"artwork", "prepare"} \X Videos
    BY <2>1, <2>3, RunStep
  <2>5. ServerFits'
    <3>1. CASE t # "start"
      BY <2>1, <3>1, ServerStep
    <3>2. CASE t = "start"
      BY <2>1, <2>2, <3>2, ServerStep
    <3> QED
      BY <3>1, <3>2
  <2> QED
    BY <2>4, <2>5
<1> QED
  BY <1>1, <1>2

LEMMA BackfillStep ==
  ASSUME Inv, NEW t \in Tasks, NEW limit \in Nat, NEW remote, NEW then,
         Backfill(t, limit, remote, then), then \in {"idle", "missing"},
         t # "start" => server = "up", t = "start" => server # "up" /\ then = "idle",
         config' = config, listed' = listed, art' = art, emb' = emb
  PROVE  RunsInv' /\ ServerFits' /\ raced' \subseteq {"artwork", "prepare"} \X Videos
<1>1. PICK found \in Newest(Candidates, limit) :
        EnsureAll(t, [i \in DOMAIN found |-> Row(found[i])], remote, FALSE, then)
  BY DEF Backfill
<1>2. /\ found \in Seq(Videos) /\ \A i \in DOMAIN found : found[i] \in listed
      /\ \A i, j \in DOMAIN found : found[i] = found[j] => i = j
  <2>1. Candidates \in SUBSET listed
    BY DEF Candidates
  <2> QED
    BY <1>1, <2>1, NewestAre DEF Inv
<1> DEFINE rows == [i \in DOMAIN found |-> Row(found[i])]
<1>3. DOMAIN rows = DOMAIN found
      /\ \A i \in DOMAIN rows : rows[i].video = found[i] /\ rows[i].art = art[found[i]]
  BY DEF Row
<1>4. rows \in Seq([video : Videos, art : Kinds])
  <2>1. ASSUME NEW i \in DOMAIN found PROVE Row(found[i]) \in [video : Videos, art : Kinds]
    <3>1. found[i] \in Videos
      BY <1>2, <2>1
    <3>2. art[found[i]] \in Kinds
      BY <3>1 DEF Inv, Typed, TypeOK, Kinds
    <3> QED
      BY <3>1, <3>2 DEF Row
  <2>2. DOMAIN found = 1..Len(found) /\ Len(found) \in Nat
    BY <1>2
  <2>3. rows \in [1..Len(found) -> [video : Videos, art : Kinds]]
    BY <2>1, <2>2
  <2> DEFINE R == [video : Videos, art : Kinds]
  <2>4. rows \in [1..Len(found) -> R] /\ Len(found) \in Nat
    BY <2>2, <2>3
  <2> HIDE DEF rows, R
  <2>5. rows \in Seq(R)
    BY <2>4
  <2> QED
    BY <2>5 DEF R
<1>5. EnsureAll(t, rows, remote, FALSE, then)
  BY <1>1
<1> HIDE DEF rows
<1>6. RowsFresh(rows, art', raced') /\ \A i \in DOMAIN rows : rows[i].video \in listed'
  BY <1>2, <1>3 DEF RowsFresh
<1> QED
  BY <1>4, <1>5, <1>6, Kept, EnsureAllStep

(* The types, for a step that leaves artwork and embeddings alone.          *)
LEMMA TypedIf ==
  ASSUME Inv, ServerFits', config' = config, listed' = listed, later' = later,
         art' = art, emb' = emb, online' \in BOOLEAN, lock' \in BOOLEAN,
         raced' \subseteq {"artwork", "prepare"} \X Videos, unusual' \in 0 .. MaxUnusual
  PROVE  Typed'
BY DEF Inv, Typed, TypeOK, ServerFits

(* The types, for a step that lists videos.                                 *)
LEMMA TypedIfListed ==
  ASSUME Inv, ServerFits', config' = config, listed \subseteq listed', listed' \subseteq Videos,
         later' \subseteq listed' \X listed',
         \A x, y \in listed' : <<x, y>> \in later' <=> x # y /\ <<y, x>> \notin later',
         art' = art, emb' = emb, online' \in BOOLEAN, lock' \in BOOLEAN,
         raced' \subseteq {"artwork", "prepare"} \X Videos, unusual' \in 0 .. MaxUnusual
  PROVE  Typed'
<1>1. TypeOK'
  BY DEF Inv, Typed, TypeOK, ServerFits
<1> QED
  BY <1>1 DEF Inv, Typed

LEMMA MoreUnusual ==
  ASSUME Inv, unusual < MaxUnusual
  PROVE  unusual + 1 \in 0 .. MaxUnusual
<1>1. unusual \in 0 .. MaxUnusual /\ MaxUnusual \in Nat
  BY EnrichmentAssumption DEF Inv, Typed, TypeOK
<1> QED
  BY <1>1

LEMMA EnsureForVideoKeeps ==
  ASSUME Inv, NEW t \in Tasks, EnsureForVideo(t)
  PROVE  Inv'
<1> DEFINE rows == runs[t].rows
           row == Head(rows)
           v == row.video
           left == Tail(rows)
<1>1. /\ runs[t].at = "artwork"
      /\ EnsureAll(t, left, runs[t].remote, runs[t].found, runs[t].then)
      /\ UNCHANGED <<config, online, lock, emb, unusual>>
  BY DEF EnsureForVideo
<1>2. RowsFit(runs[t], listed)
  BY DEF Inv, RunsInv
<1>3. /\ rows \in Seq([video : Videos, art : Kinds]) /\ rows # <<>>
      /\ \A i \in DOMAIN rows : rows[i].video \in listed
  BY <1>1, <1>2 DEF RowsFit
<1>4. /\ row = rows[1] /\ 1 \in DOMAIN rows /\ row \in [video : Videos, art : Kinds]
      /\ left \in Seq([video : Videos, art : Kinds])
      /\ \A i \in DOMAIN left : i + 1 \in DOMAIN rows /\ left[i] = rows[i + 1] /\ i + 1 # 1 /\ i \in Nat
  <2> DEFINE R == [video : Videos, art : Kinds]
  <2>1. rows \in Seq(R) /\ rows # <<>>
    BY <1>3
  <2> HIDE DEF rows, R
  <2>2. /\ Head(rows) = rows[1] /\ 1 \in DOMAIN rows /\ rows[1] \in R
        /\ Tail(rows) \in Seq(R) /\ Len(rows) \in Nat \ {0}
        /\ DOMAIN rows = 1..Len(rows) /\ Len(Tail(rows)) = Len(rows) - 1
    BY <2>1
  <2>3. ASSUME NEW i \in DOMAIN Tail(rows)
        PROVE  i + 1 \in DOMAIN rows /\ Tail(rows)[i] = rows[i + 1] /\ i + 1 # 1 /\ i \in Nat
    BY <2>1, <2>2
  <2> QED
    BY <2>2, <2>3 DEF R
<1>5. v \in Videos /\ v \in listed /\ row.art \in Kinds
  BY <1>3, <1>4
<1>6. \/ /\ art' = [art EXCEPT ![v] = "remote"] /\ Touch(<<v>>)
      \/ /\ art' = [art EXCEPT ![v] = "generated"] /\ Touch(<<v>>)
      \/ UNCHANGED <<art, listed, later>>
  BY DEF EnsureForVideo
<1> HIDE DEF left, v, row
<1>7. Typed
  BY DEF Inv
<1>8. /\ listed' = listed /\ later' \subseteq listed \X listed
      /\ \A x, y \in listed : <<x, y>> \in later' <=> x # y /\ <<y, x>> \notin later'
  <2>1. CASE Touch(<<v>>)
    <3>1. /\ listed' = listed \cup {v} /\ later' \subseteq listed' \X listed'
          /\ \A x, y \in listed' : <<x, y>> \in later' <=> x # y /\ <<y, x>> \notin later'
      BY <1>5, <1>7, <2>1, TouchOne
    <3>2. listed' = listed
      BY <1>5, <3>1
    <3> QED
      BY <3>1, <3>2
  <2>2. CASE UNCHANGED <<art, listed, later>>
    BY <1>7, <2>2 DEF Typed, TypeOK
  <2> QED
    BY <1>6, <2>1, <2>2
<1>9. /\ art = [x \in Videos |-> art[x]]
      /\ art' = [x \in Videos |-> art'[x]] /\ \A x \in Videos : x # v => art'[x] = art[x]
      /\ \A x \in Videos : art'[x] \in {"none", "generated", "remote"}
  <2>1. art = [x \in Videos |-> art[x]] /\ \A x \in Videos : art[x] \in {"none", "generated", "remote"}
    BY <1>7 DEF Typed, TypeOK
  <2> QED
    BY <1>5, <1>6, <2>1
<1>10. \A x \in Videos : art'[x] = art[x] \/ <<"artwork", x>> \in Holds(runs[t])
  <2>1. <<"artwork", v>> \in Holds(runs[t])
    <3>1. v = rows[1].video
      BY <1>4 DEF v
    <3> QED
      BY <1>1, <1>4, <3>1 DEF Holds
  <2> QED
    BY <1>9, <2>1
<1>11. ASSUME ~runs[t].found
       PROVE  RowsFresh(left, art', raced')
  <2>1. RowsFresh(rows, art, raced)
    BY <1>1, <1>11 DEF Inv, RunsInv, ArtFresh
  <2>2. ASSUME NEW i \in DOMAIN left
        PROVE  left[i].video # v /\ left[i].video \in Videos /\ left[i] = rows[i + 1] /\ i + 1 \in DOMAIN rows
    <3>1. i + 1 \in DOMAIN rows /\ left[i] = rows[i + 1] /\ i + 1 # 1 /\ 1 \in DOMAIN rows
      BY <1>4
    <3>2. rows[i + 1].video # rows[1].video
      BY <2>1, <3>1 DEF RowsFresh
    <3>3. rows[i + 1].video \in listed
      BY <1>3, <3>1
    <3>4. listed \subseteq Videos
      BY <1>7 DEF Typed, TypeOK
    <3>5. v = rows[1].video
      BY <1>4 DEF v
    <3> QED
      BY <3>1, <3>2, <3>3, <3>4, <3>5
  <2>3. ASSUME NEW i \in DOMAIN left, <<"artwork", left[i].video>> \notin raced'
        PROVE  left[i].art = art'[left[i].video]
    <3> DEFINE u == left[i].video
    <3>1. left # <<>>
      BY <2>3
    <3>2. Goto(t, AtArtwork(left, runs[t].remote, runs[t].found, runs[t].then))
      BY <1>1, <3>1 DEF EnsureAll
    <3>3. <<"artwork", u>> \in Holds(runs'[t])
      <4> DEFINE next == AtArtwork(left, runs[t].remote, runs[t].found, runs[t].then)
      <4>1. next.at = "artwork" /\ next.rows = left
        BY DEF AtArtwork
      <4>2. Goto(t, next)
        BY <3>2
      <4> HIDE DEF next
      <4>3. runs'[t] = next
        BY <4>2, GotoIs
      <4> QED
        BY <2>3, <4>1, <4>3 DEF Holds
    <3>4. <<"artwork", u>> \notin raced
      <4> DEFINE next == AtArtwork(left, runs[t].remote, runs[t].found, runs[t].then)
      <4>1. Goto(t, next)
        BY <3>2
      <4> HIDE DEF next
      <4>2. Holds(runs'[t]) \cap raced \subseteq raced'
        BY <4>1, GotoIs
      <4> QED
        BY <2>3, <3>3, <4>2
    <3>5. u # v /\ u \in Videos /\ left[i] = rows[i + 1] /\ i + 1 \in DOMAIN rows
      BY <2>2
    <3>6. left[i].art = art[u]
      BY <2>1, <3>4, <3>5 DEF RowsFresh
    <3> QED
      BY <1>9, <3>5, <3>6
  <2>4. ASSUME NEW i \in DOMAIN left, NEW j \in DOMAIN left, left[i].video = left[j].video
        PROVE  i = j
    <3>1. /\ i \in Nat /\ i + 1 \in DOMAIN rows /\ left[i] = rows[i + 1]
          /\ j \in Nat /\ j + 1 \in DOMAIN rows /\ left[j] = rows[j + 1]
      BY <1>4
    <3>2. \A k, l \in DOMAIN rows : rows[k].video = rows[l].video => k = l
      BY <2>1 DEF RowsFresh
    <3>3. i + 1 = j + 1
      <4> HIDE DEF rows
      <4> QED
        BY <2>4, <3>1, <3>2
    <3> QED
      BY <3>1, <3>3
  <2> QED
    BY <2>3, <2>4 DEF RowsFresh
<1>12. /\ t # "start" => server = "up"
       /\ t = "start" => server # "up" /\ runs[t].then = "idle"
       /\ runs[t].then \in {"idle", "rss", "backfill", "missing"}
  BY <1>1, <1>2, <1>7, WorkingIsUp DEF Typed, ServerFits, RowsFit
<1>13. \A i \in DOMAIN left : left[i].video \in listed'
  BY <1>3, <1>4, <1>8
<1>14. listed \subseteq listed' /\ listed' \subseteq Videos /\ config' = config /\ emb' = emb
  BY <1>1, <1>7, <1>8 DEF Typed, TypeOK
<1>15. RunsInv' /\ ServerFits' /\ raced' \subseteq {"artwork", "prepare"} \X Videos
  <2> DEFINE found == runs[t].found
             then == runs[t].then
             remote == runs[t].remote
  <2>1. /\ EnsureAll(t, left, remote, found, then)
        /\ ~found => RowsFresh(left, art', raced')
        /\ then \in {"idle", "rss", "backfill", "missing"}
        /\ t = "start" => server # "up" /\ then = "idle"
    BY <1>1, <1>11, <1>12
  <2> HIDE DEF found, then, remote
  <2> QED
    BY <1>4, <1>10, <1>12, <1>13, <1>14, <2>1, EnsureAllStep
<1>16. Typed'
  <2>1. \A x \in Videos : x \in listed \/ (art'[x] = "none" /\ emb[x] = "none")
    BY <1>5, <1>7, <1>9 DEF Typed, TypeOK
  <2>2. TypeOK'
    BY <1>1, <1>7, <1>8, <1>9, <1>15, <2>1 DEF Typed, TypeOK, ServerFits
  <2> QED
    BY <1>1, <1>7, <1>9, <1>15, <2>2 DEF Typed
<1> QED
  BY <1>15, <1>16 DEF Inv

LEMMA GetArtworkKeeps ==
  ASSUME Inv, NEW p \in Pages, NEW v \in Videos, GetArtwork(p, v)
  PROVE  Inv'
<1> DEFINE rows == <<Row(v)>>
<1>1. /\ server = "up" /\ v \in listed /\ unusual < MaxUnusual
      /\ EnsureAll(p, rows, online, FALSE, "idle") /\ unusual' = unusual + 1
      /\ UNCHANGED <<config, online, lock, listed, later, art, emb>>
  BY DEF GetArtwork
<1>2. /\ rows \in Seq([video : Videos, art : Kinds])
      /\ \A i \in DOMAIN rows : rows[i].video = v /\ rows[i].art = art[v] /\ i = 1
  <2>1. Row(v) \in [video : Videos, art : Kinds] /\ Row(v).video = v /\ Row(v).art = art[v]
    BY DEF Row, Inv, Typed, TypeOK, Kinds
  <2> QED
    BY <2>1
<1> HIDE DEF rows
<1>3. RowsFresh(rows, art', raced')
  BY <1>1, <1>2 DEF RowsFresh
<1>4. p \in Tasks /\ p # "start"
  BY EnrichmentAssumption DEF Tasks
<1>5. RunsInv' /\ ServerFits' /\ raced' \subseteq {"artwork", "prepare"} \X Videos
  BY <1>1, <1>2, <1>3, <1>4, Kept, EnsureAllStep
<1>6. unusual' \in 0 .. MaxUnusual
  BY <1>1, MoreUnusual
<1>7. Typed'
  BY <1>1, <1>5, <1>6, Kept, TypedIf
<1> QED
  BY <1>5, <1>7 DEF Inv

(* A task that lists what a provider found.                                 *)
LEMMA FindStep ==
  ASSUME Inv, NEW t \in Tasks, NEW items \in Seq(Videos),
         \A i, j \in DOMAIN items : items[i] = items[j] => i = j,
         NEW then \in {"idle", "rss", "backfill"}, Find(t, items, then), t # "start", server = "up",
         UNCHANGED <<config, online, lock, art, emb>>, unusual' \in 0 .. MaxUnusual
  PROVE  Inv'
<1> DEFINE n == IF DiscoverLimit < Len(items) THEN DiscoverLimit ELSE Len(items)
           rows == [i \in 1 .. n |-> [video |-> items[i], art |-> "none"]]
<1>1. Touch(items) /\ EnsureAll(t, rows, FALSE, TRUE, then)
  BY DEF Find
<1>2. n \in Nat /\ 1 .. n \subseteq DOMAIN items
  BY EnrichmentAssumption
<1> HIDE DEF n
<1>3. /\ listed' = listed \cup ToSet(items)
      /\ listed' \subseteq Videos /\ later' \subseteq listed' \X listed'
      /\ \A x, y \in listed' : <<x, y>> \in later' <=> x # y /\ <<y, x>> \notin later'
  BY <1>1, TouchOrders DEF Inv
<1>4. /\ rows \in Seq([video : Videos, art : Kinds])
      /\ \A i \in DOMAIN rows : rows[i].video \in listed'
  <2>1. \A i \in 1 .. n : items[i] \in Videos /\ items[i] \in ToSet(items)
    BY <1>2 DEF ToSet
  <2>2. \A i \in 1 .. n : [video |-> items[i], art |-> "none"] \in [video : Videos, art : Kinds]
    BY <2>1 DEF Kinds
  <2> DEFINE R == [video : Videos, art : Kinds]
  <2>3. rows \in [1 .. n -> R] /\ \A i \in DOMAIN rows : rows[i].video \in listed'
    BY <1>3, <2>1, <2>2
  <2> HIDE DEF rows, R
  <2>4. rows \in Seq(R)
    BY <1>2, <2>3
  <2> QED
    BY <2>3, <2>4 DEF R
<1> HIDE DEF rows
<1>5. RunsInv' /\ ServerFits' /\ raced' \subseteq {"artwork", "prepare"} \X Videos
  BY <1>1, <1>3, <1>4, EnsureAllStep
<1>6. listed \subseteq listed'
  BY <1>3
<1>7. Typed'
  BY <1>3, <1>5, <1>6, Kept, TypedIfListed
<1> QED
  BY <1>5, <1>7 DEF Inv

LEMMA DiscoverKeeps ==
  ASSUME Inv, NEW p \in Pages, NEW v \in Videos, Discover(p, v)
  PROVE  Inv'
<1>1. /\ server = "up" /\ unusual < MaxUnusual /\ Find(p, <<v>>, "idle") /\ unusual' = unusual + 1
      /\ UNCHANGED <<config, online, lock, art, emb>>
  BY DEF Discover
<1>2. <<v>> \in Seq(Videos) /\ \A i, j \in DOMAIN <<v>> : <<v>>[i] = <<v>>[j] => i = j
  OBVIOUS
<1>3. p \in Tasks /\ p # "start" /\ unusual' \in 0 .. MaxUnusual
  BY <1>1, MoreUnusual, EnrichmentAssumption DEF Tasks
<1> QED
  BY <1>1, <1>2, <1>3, FindStep

-----------------------------------------------------------------------------
(* Embeddings.                                                              *)

LEMMA TakeMissingKeeps ==
  ASSUME Inv, NEW t \in {"sync", "loop"}, TakeMissing(t)
  PROVE  Inv'
<1>1. t \in Tasks /\ t # "start"
  BY DEF Tasks
<1>2. PICK rows \in Newest(Missing, BatchSize) : Goto(t, At("prepare", rows))
  BY DEF TakeMissing
<1>3. /\ server = "up"
      /\ UNCHANGED <<config, online, server, lock, listed, later, art, emb, unusual>>
  BY DEF TakeMissing
<1>4. /\ rows \in Seq(Videos) /\ \A i \in DOMAIN rows : rows[i] \in listed /\ emb[rows[i]] = "none"
  <2>1. Missing \in SUBSET listed /\ BatchSize \in Nat /\ Typed
    BY EnrichmentAssumption DEF Missing, Inv
  <2>2. rows \in Seq(Videos) /\ \A i \in DOMAIN rows : rows[i] \in Missing
    BY <1>2, <2>1, NewestAre
  <2> QED
    BY <2>2 DEF Missing
<1> DEFINE next == At("prepare", rows)
<1>5. next.at = "prepare" /\ next.rows = rows /\ Goto(t, next)
  BY <1>2 DEF At
<1> HIDE DEF next
<1>6. /\ RowsFit(next, listed') /\ ArtFresh(next, art', raced') /\ EmbFresh(next, emb', raced')
      /\ Gated(next)
  BY <1>3, <1>4, <1>5 DEF RowsFit, ArtFresh, EmbFresh, Gated
<1>7. RunsInv' /\ raced' \subseteq {"artwork", "prepare"} \X Videos
  BY <1>1, <1>3, <1>5, <1>6, Kept, RunStep
<1>8. ServerFits'
  BY <1>1, <1>3, <1>5, ServerStep
<1>9. Typed'
  BY <1>3, <1>7, <1>8, Kept, TypedIf
<1> QED
  BY <1>7, <1>9 DEF Inv

(* The videos that get an embedding were among the rows of the task.         *)
LEMMA StoreIs ==
  ASSUME Inv, NEW t \in Tasks, NEW results, Store(t, results)
  PROVE  /\ runs[t].at = "prepare"
         /\ \A v \in Videos : \/ emb'[v] = emb[v]
                              \/ /\ v \in listed /\ emb'[v] \in {"metadata", "transcript"}
                                 /\ \E i \in DOMAIN runs[t].rows : runs[t].rows[i] = v
<1>1. /\ results \in Results(t)
      /\ emb' = [v \in Videos |-> IF v \in Prepared(runs[t].rows, results)
                                  THEN results[v] ELSE emb[v]]
  BY DEF Store
<1>2. runs[t].at = "prepare" /\ results \in [ToSet(runs[t].rows) -> {"metadata", "transcript", "exception"}]
  BY <1>1 DEF Results
<1>3. \A i \in DOMAIN runs[t].rows : runs[t].rows[i] \in listed
  BY <1>2 DEF Inv, RunsInv, RowsFit
<1>4. ASSUME NEW v \in Videos, v \in Prepared(runs[t].rows, results)
      PROVE  /\ v \in listed /\ emb'[v] \in {"metadata", "transcript"}
             /\ \E i \in DOMAIN runs[t].rows : runs[t].rows[i] = v
  <2>1. v \in ToSet(runs[t].rows) /\ results[v] # "exception" /\ emb'[v] = results[v]
    BY <1>1, <1>4 DEF Prepared
  <2>2. results[v] \in {"metadata", "transcript"}
    BY <1>2, <2>1
  <2>3. PICK i \in DOMAIN runs[t].rows : runs[t].rows[i] = v
    BY <2>1 DEF ToSet
  <2> QED
    BY <1>3, <2>1, <2>2, <2>3
<1>5. ASSUME NEW v \in Videos, v \notin Prepared(runs[t].rows, results)
      PROVE  emb'[v] = emb[v]
  BY <1>1, <1>5
<1> QED
  BY <1>2, <1>4, <1>5

LEMMA StoreKeeps ==
  ASSUME Inv, NEW t \in Tasks, NEW results, Store(t, results)
  PROVE  Inv'
<1>1. /\ Goto(t, Idle) /\ lock' = (lock /\ t # "sync")
      /\ UNCHANGED <<config, reachable, online, server, listed, later, art, unusual>>
  BY DEF Store
<1>2. /\ runs[t].at = "prepare"
      /\ \A v \in Videos : \/ emb'[v] = emb[v]
                           \/ /\ v \in listed /\ emb'[v] \in {"metadata", "transcript"}
                              /\ <<"prepare", v>> \in Holds(runs[t])
  BY StoreIs DEF Holds
<1>3. RunsInv' /\ raced' \subseteq {"artwork", "prepare"} \X Videos
  BY <1>1, <1>2, IdleIs, Kept, RestStep
<1>4. ServerFits'
  <2>1. ServerFits
    BY DEF Inv, Typed
  <2>2. /\ runs'[t] = Idle /\ \A u \in Tasks \ {t} : runs'[u] = runs[u]
    BY <1>1, GotoIs
  <2>3. "start" \in Tasks
    BY DEF Tasks
  <2> QED
    BY <1>1, <2>1, <2>2, <2>3, IdleIs DEF ServerFits
<1>5. Typed'
  <2>1. lock' \in BOOLEAN
    BY <1>1
  <2>2. TypeOK'
    BY <1>1, <1>2, <1>3, <1>4, <2>1 DEF Inv, Typed, TypeOK, ServerFits
  <2>3. emb' = [v \in Videos |-> emb'[v]]
    BY DEF Store
  <2> QED
    BY <1>1, <1>4, <2>2, <2>3 DEF Inv, Typed
<1> QED
  BY <1>3, <1>5 DEF Inv

-----------------------------------------------------------------------------
(* The sync.                                                                *)

(* A step of the sync to a stage without rows.                              *)
LEMMA SyncRests ==
  ASSUME Inv, NEW next, Goto("sync", next), next.at \notin {"artwork", "prepare"}, Gated(next),
         server = "up", server' = server, config' = config, listed' = listed, later' = later,
         art' = art, emb' = emb, online' \in BOOLEAN, lock' \in BOOLEAN,
         unusual' \in 0 .. MaxUnusual
  PROVE  Inv'
<1>1. "sync" \in Tasks /\ "sync" # "start"
  BY DEF Tasks
<1>2. RowsFit(next, listed') /\ ArtFresh(next, art', raced') /\ EmbFresh(next, emb', raced')
  BY DEF RowsFit, ArtFresh, EmbFresh
<1>3. RunsInv' /\ raced' \subseteq {"artwork", "prepare"} \X Videos
  BY <1>1, <1>2, Kept, RunStep
<1>4. ServerFits'
  BY <1>1, ServerStep
<1>5. Typed'
  BY <1>3, <1>4, TypedIf
<1> QED
  BY <1>3, <1>5 DEF Inv

LEMMA SyncWorking ==
  ASSUME Inv, runs["sync"].at # "idle"
  PROVE  server = "up"
<1>1. "sync" \in Tasks /\ "sync" # "start"
  BY DEF Tasks
<1> QED
  BY <1>1, WorkingIsUp

LEMMA RequestSyncKeeps ==
  ASSUME Inv, RequestSync
  PROVE  Inv'
<1> DEFINE next == At("check", <<>>)
<1>1. next.at = "check"
  BY DEF At
<1>2. Goto("sync", next)
  BY DEF RequestSync
<1> HIDE DEF next
<1>3. Gated(next)
  BY <1>1 DEF Gated
<1> QED
  BY <1>1, <1>2, <1>3, Kept, SyncRests DEF RequestSync

LEMMA CheckSyncKeeps ==
  ASSUME Inv, NEW minute \in Minutes, CheckSync(minute)
  PROVE  Inv'
<1> DEFINE stage == IF ~Refreshed THEN "offline"
                    ELSE IF InSyncWindow(minute) THEN "open" ELSE "closed"
           next == At(stage, <<minute>>)
<1>1. next.at = stage /\ next.rows = <<minute>>
  BY DEF At
<1>2. /\ Goto("sync", next) /\ online' = Refreshed /\ runs["sync"].at = "check"
      /\ UNCHANGED <<config, server, lock, listed, later, art, emb, unusual>>
  BY DEF CheckSync
<1>3. \/ stage = "offline"
      \/ Refreshed /\ stage = "open" /\ InSyncWindow(minute)
      \/ Refreshed /\ stage = "closed" /\ ~InSyncWindow(minute)
  OBVIOUS
<1> HIDE DEF next, stage
<1>4. Gated(next)
  BY <1>1, <1>3 DEF Gated, Refreshed
<1>5. server = "up"
  BY <1>2, SyncWorking
<1>6. online' \in BOOLEAN
  BY <1>2 DEF Refreshed
<1> QED
  BY <1>1, <1>2, <1>3, <1>4, <1>5, <1>6, Kept, SyncRests

LEMMA SkipSyncKeeps ==
  ASSUME Inv, SkipSync
  PROVE  Inv'
<1>1. server = "up"
  BY SyncWorking DEF SkipSync
<1>2. Gated(Idle)
  BY IdleIs DEF Gated
<1> QED
  BY <1>1, <1>2, IdleIs, Kept, SyncRests DEF SkipSync, Release

LEMMA FailKeeps ==
  ASSUME Inv, NEW t \in Tasks, Fail(t)
  PROVE  Inv'
<1>1. /\ runs[t].at # "idle" /\ unusual < MaxUnusual /\ Goto(t, Idle)
      /\ lock' = (lock /\ t # "sync") /\ server' = IF t = "start" THEN "down" ELSE server
      /\ unusual' = unusual + 1
      /\ UNCHANGED <<config, online, listed, later, art, emb>>
  BY DEF Fail
<1>2. RunsInv' /\ raced' \subseteq {"artwork", "prepare"} \X Videos
  BY <1>1, IdleIs, Kept, RestStep
<1>3. ServerFits'
  <2>1. CASE t = "start"
    <3>1. server # "up" /\ server' \in {"down", "starting"}
      BY <1>1, <2>1 DEF Inv, Typed, ServerFits
    <3> QED
      BY <1>1, <2>1, <3>1, IdleIs, ServerStep
  <2>2. CASE t # "start"
    BY <1>1, <2>2, WorkingIsUp, ServerStep
  <2> QED
    BY <2>1, <2>2
<1>4. unusual' \in 0 .. MaxUnusual /\ lock' \in BOOLEAN
  BY <1>1, MoreUnusual
<1>5. Typed'
  BY <1>1, <1>2, <1>3, <1>4, Kept, TypedIf
<1> QED
  BY <1>2, <1>5 DEF Inv

LEMMA BackfillSyncKeeps ==
  ASSUME Inv, BackfillSync
  PROVE  Inv'
<1>1. /\ runs["sync"].at = "backfill" /\ Backfill("sync", BackfillLimit, online, "missing")
      /\ UNCHANGED <<config, online, lock, listed, later, art, emb, unusual>>
  BY DEF BackfillSync
<1>2. server = "up"
  BY <1>1, SyncWorking
<1>3. "sync" \in Tasks /\ BackfillLimit \in Nat
  BY EnrichmentAssumption DEF Tasks
<1>4. RunsInv' /\ ServerFits' /\ raced' \subseteq {"artwork", "prepare"} \X Videos
  BY <1>1, <1>2, <1>3, BackfillStep
<1>5. Typed'
  BY <1>1, <1>4, Kept, TypedIf
<1> QED
  BY <1>4, <1>5 DEF Inv

(* The lists of some videos name none twice.                                *)
LEMMA ListsAre ==
  ASSUME NEW S \in SUBSET Videos, NEW list \in Lists(S)
  PROVE  list \in Seq(Videos) /\ \A i, j \in DOMAIN list : list[i] = list[j] => i = j
<1>1. PICK T \in SUBSET S : list \in SetToSeqs(T)
  BY DEF Lists, SetToAllKPermutations
<1>2. IsFiniteSet(T) /\ T \subseteq Videos
  BY FS_Subset, EnrichmentAssumption
<1> DEFINE n == Cardinality(T)
<1>3. n \in Nat
  BY <1>2, FS_CardinalityType
<1>4. list \in [1..n -> T] /\ \A i, j \in 1..n : i # j => list[i] # list[j]
  BY <1>1 DEF SetToSeqs
<1> HIDE DEF n
<1>5. list \in Seq(Videos)
  BY <1>2, <1>3, <1>4
<1> QED
  BY <1>4, <1>5

LEMMA ListFeedsKeeps ==
  ASSUME Inv, NEW feed \in Lists(Videos \ (Rss \cup Local)), ListFeeds(feed)
  PROVE  Inv'
<1> DEFINE next == At("rss", <<>>)
<1>1. next.at = "rss"
  BY DEF At
<1>2. /\ Goto("sync", next) /\ Touch(feed) /\ runs["sync"].at = "open"
      /\ UNCHANGED <<config, online, server, lock, art, emb, unusual>>
  BY DEF ListFeeds
<1> HIDE DEF next
<1>3. feed \in Seq(Videos) /\ \A i, j \in DOMAIN feed : feed[i] = feed[j] => i = j
  <2>1. Videos \ (Rss \cup Local) \in SUBSET Videos
    OBVIOUS
  <2> QED
    BY <2>1, ListsAre
<1>4. /\ listed' = listed \cup ToSet(feed) /\ listed' \subseteq Videos /\ later' \subseteq listed' \X listed'
      /\ \A x, y \in listed' : <<x, y>> \in later' <=> x # y /\ <<y, x>> \notin later'
  BY <1>2, <1>3, TouchOrders DEF Inv
<1>5. "sync" \in Tasks /\ "sync" # "start" /\ listed \subseteq listed'
  BY <1>4 DEF Tasks
<1>6. server = "up"
  BY <1>2, SyncWorking
<1>7. RunsInv' /\ raced' \subseteq {"artwork", "prepare"} \X Videos
  BY <1>1, <1>2, <1>4, <1>5, RestStep
<1>8. ServerFits'
  BY <1>2, <1>5, <1>6, ServerStep
<1>9. Typed'
  BY <1>2, <1>4, <1>5, <1>7, <1>8, Kept, TypedIfListed
<1> QED
  BY <1>7, <1>9 DEF Inv

LEMMA DiscoverRssKeeps ==
  ASSUME Inv, NEW items \in Lists(Rss), DiscoverRss(items)
  PROVE  Inv'
<1>1. items \in Seq(Videos) /\ \A i, j \in DOMAIN items : items[i] = items[j] => i = j
  <2>1. Rss \in SUBSET Videos
    BY EnrichmentAssumption
  <2> QED
    BY <2>1, ListsAre
<1>2. /\ runs["sync"].at = "rss" /\ Find("sync", items, "rss")
      /\ UNCHANGED <<config, online, lock, art, emb, unusual>>
  BY DEF DiscoverRss
<1>3. "sync" \in Tasks /\ "sync" # "start" /\ server = "up"
  BY <1>2, SyncWorking DEF Tasks
<1> QED
  BY <1>1, <1>2, <1>3, Kept, FindStep

LEMMA AllRssReadKeeps ==
  ASSUME Inv, AllRssRead
  PROVE  Inv'
<1> DEFINE next == At("local", <<>>)
<1>1. next.at = "local"
  BY DEF At
<1>2. /\ Goto("sync", next) /\ runs["sync"].at = "rss"
      /\ UNCHANGED <<config, online, server, lock, listed, later, art, emb, unusual>>
  BY DEF AllRssRead
<1> HIDE DEF next
<1>3. server = "up" /\ Gated(next)
  BY <1>1, <1>2, SyncWorking DEF Gated
<1> QED
  BY <1>1, <1>2, <1>3, Kept, SyncRests

LEMMA DiscoverLocalKeeps ==
  ASSUME Inv, NEW items \in Lists(Local), DiscoverLocal(items)
  PROVE  Inv'
<1>1. items \in Seq(Videos) /\ \A i, j \in DOMAIN items : items[i] = items[j] => i = j
  <2>1. Local \in SUBSET Videos
    BY EnrichmentAssumption
  <2> QED
    BY <2>1, ListsAre
<1>2. /\ runs["sync"].at = "local" /\ Find("sync", items, "backfill")
      /\ UNCHANGED <<config, online, lock, art, emb, unusual>>
  BY DEF DiscoverLocal
<1>3. "sync" \in Tasks /\ "sync" # "start" /\ server = "up"
  BY <1>2, SyncWorking DEF Tasks
<1> QED
  BY <1>1, <1>2, <1>3, Kept, FindStep

-----------------------------------------------------------------------------
(* The process, and every step.                                             *)

LEMMA LaunchKeeps ==
  ASSUME Inv, Launch
  PROVE  Inv'
<1>1. /\ server = "down" /\ online' = Refreshed /\ Backfill("start", StartLimit, FALSE, "idle")
      /\ UNCHANGED <<config, lock, listed, later, art, emb, unusual>>
  BY DEF Launch
<1>2. "start" \in Tasks /\ StartLimit \in Nat
  BY EnrichmentAssumption DEF Tasks
<1>3. RunsInv' /\ ServerFits' /\ raced' \subseteq {"artwork", "prepare"} \X Videos
  BY <1>1, <1>2, BackfillStep
<1>4. online' \in BOOLEAN
  BY <1>1 DEF Refreshed
<1>5. Typed'
  BY <1>1, <1>3, <1>4, Kept, TypedIf
<1> QED
  BY <1>3, <1>5 DEF Inv

LEMMA CrashKeeps ==
  ASSUME Inv, Crash
  PROVE  Inv'
<1>1. /\ unusual < MaxUnusual /\ unusual' = unusual + 1
      /\ server' = "down" /\ lock' = FALSE /\ runs' = [t \in Tasks |-> Idle] /\ raced' = {}
      /\ UNCHANGED <<config, online, listed, later, art, emb>>
  BY DEF Crash
<1>2. \A t \in Tasks : runs'[t] = Idle
  BY <1>1
<1>3. \A t \in Tasks : /\ RowsFit(Idle, listed') /\ ArtFresh(Idle, art', raced') /\ EmbFresh(Idle, emb', raced')
                       /\ runs'[t].at = "idle" /\ Holds(Idle) = {}
  BY <1>2, IdleIs DEF RowsFit, ArtFresh, EmbFresh
<1>4. Gated(runs["sync"])'
  BY <1>3 DEF Gated, Tasks
<1>5. RunsInv'
  BY <1>1, <1>2, <1>3, <1>4 DEF RunsInv, Holds
<1>6. ServerFits'
  BY <1>1, <1>2, <1>3, IdleIs DEF ServerFits, Tasks
<1>7. unusual' \in 0 .. MaxUnusual
  BY <1>1, MoreUnusual
<1>8. Typed'
  BY <1>1, <1>6, <1>7, Kept, TypedIf
<1> QED
  BY <1>5, <1>8 DEF Inv

(* A step that touches no task.                                             *)
LEMMA NetworkStep ==
  ASSUME Inv, UNCHANGED <<config, server, listed, later, art, emb, runs, raced>>,
         online' \in BOOLEAN, lock' \in BOOLEAN, unusual' \in 0 .. MaxUnusual
  PROVE  Inv'
<1>1. RunsInv'
  BY DEF Inv, RunsInv, Gated, InSyncWindow
<1>2. ServerFits'
  BY DEF Inv, Typed, ServerFits
<1>3. Typed'
  BY <1>2, Kept, TypedIf
<1> QED
  BY <1>1, <1>3 DEF Inv

LEMMA InitInv == Init => Inv
<1> SUFFICES ASSUME Init PROVE Inv
  OBVIOUS
<1>1. /\ config \in Configs /\ online = ~config.forced /\ server = "down" /\ lock = FALSE
      /\ listed = {} /\ later = {} /\ raced = {} /\ unusual = 0
      /\ art = [v \in Videos |-> "none"] /\ emb = [v \in Videos |-> "none"]
      /\ runs = [t \in Tasks |-> Idle]
  BY DEF Init
<1>2. \A t \in Tasks : runs[t] = Idle
  BY <1>1
<1>3. \A t \in Tasks : /\ RowsFit(Idle, listed) /\ ArtFresh(Idle, art, raced) /\ EmbFresh(Idle, emb, raced)
                       /\ runs[t].at = "idle" /\ Holds(Idle) = {}
  BY <1>2, IdleIs DEF RowsFit, ArtFresh, EmbFresh
<1>4. "start" \in Tasks /\ Gated(runs["sync"])
  BY <1>3 DEF Gated, Tasks
<1>5. RunsInv
  BY <1>1, <1>2, <1>3, <1>4 DEF RunsInv
<1>6. online \in BOOLEAN /\ 0 \in 0 .. MaxUnusual
  BY <1>1, EnrichmentAssumption
<1>7. TypeOK
  BY <1>1, <1>2, <1>6 DEF TypeOK
<1>8. ServerFits
  BY <1>1, <1>2, <1>4, IdleIs DEF ServerFits
<1>9. Typed
  BY <1>1, <1>7, <1>8 DEF Typed
<1> QED
  BY <1>5, <1>9 DEF Inv

LEMMA TaskStepKeeps ==
  ASSUME Inv, NEW t \in Tasks, TaskStep(t)
  PROVE  Inv'
BY EnsureForVideoKeeps, StoreKeeps DEF TaskStep

LEMMA StepInv == Inv /\ [Next]_vars => Inv'
<1> SUFFICES ASSUME Inv, [Next]_vars PROVE Inv'
  OBVIOUS
<1>1. ASSUME NEW t \in Tasks, TaskStep(t) PROVE Inv'
  BY <1>1, TaskStepKeeps
<1>2. CASE SyncStep
  <2>1. "sync" \in Tasks /\ "sync" \in {"sync", "loop"}
    BY DEF Tasks
  <2> QED
    BY <1>2, <2>1, CheckSyncKeeps, SkipSyncKeeps, BackfillSyncKeeps, TakeMissingKeeps, TaskStepKeeps,
       ListFeedsKeeps, DiscoverRssKeeps, AllRssReadKeeps, DiscoverLocalKeeps DEF SyncStep
<1>3. CASE RequestSync \/ \E t \in Tasks : Fail(t)
  BY <1>3, FailKeeps, RequestSyncKeeps
<1>4. CASE TakeMissing("loop")
  BY <1>4, TakeMissingKeeps
<1>5. ASSUME NEW p \in Pages, NEW v \in Videos, GetArtwork(p, v) \/ Discover(p, v) PROVE Inv'
  BY <1>5, GetArtworkKeeps, DiscoverKeeps
<1>6. CASE RefreshNetwork
  <2>1. online' \in BOOLEAN
    BY <1>6 DEF RefreshNetwork, Refreshed
  <2> QED
    BY <1>6, <2>1, Kept, NetworkStep DEF RefreshNetwork
<1>7. CASE Outage
  <2>1. unusual' \in 0 .. MaxUnusual
    BY <1>7, MoreUnusual DEF Outage
  <2> QED
    BY <1>7, <2>1, Kept, NetworkStep DEF Outage
<1>8. CASE Launch \/ Crash
  BY <1>8, LaunchKeeps, CrashKeeps
<1>9. CASE UNCHANGED vars
  BY <1>9, Kept, NetworkStep DEF vars
<1> QED
  BY <1>1, <1>2, <1>3, <1>4, <1>5, <1>6, <1>7, <1>8, <1>9 DEF Next

(* Whatever the tasks of the server, its pages, the network and crashes do,  *)
(* each task works on rows of listed videos, the start is over before the    *)
(* others begin, and a video that two of them have is known to be raced for: *)
(* of all others, what a task has read is still so when it writes.           *)
THEOREM Invariance == Spec => []Inv
<1>1. Init => Inv
  BY InitInv
<1>2. Inv /\ [Next]_vars => Inv'
  BY StepInv
<1> QED
  BY <1>1, <1>2, PTL DEF Spec

(* The lists of videos, their order by updated_at, artwork and embeddings    *)
(* keep their types; only listed videos have either, and only a started      *)
(* server has tasks beside the start.                                        *)
THEOREM TypeCorrect == Spec => []TypeOK
<1>1. Inv => TypeOK
  BY DEF Inv, Typed
<1> QED
  BY <1>1, Invariance, PTL

-----------------------------------------------------------------------------
(* The gate.                                                                *)

LEMMA Mod ==
  ASSUME NEW x \in Nat, x < 2 * Day
  PROVE  x % Day = IF x < Day THEN x ELSE x - Day
<1>1. Day \in Nat \ {0}
  BY EnrichmentAssumption
<1>2. CASE x < Day
  BY <1>1, <1>2
<1>3. CASE ~ (x < Day)
  <2>1. x = Day + (x - Day) /\ x - Day \in 0 .. Day - 1
    BY <1>1, <1>3
  <2> QED
    BY <1>1, <1>3, <2>1
<1> QED
  BY <1>2, <1>3

(* Comparing the ends is as good as counting the minutes.                   *)
LEMMA InWindowIsCovered ==
  ASSUME NEW w \in [from : Minutes, to : Minutes], NEW minute \in Minutes
  PROVE  InWindow(w, minute) <=> minute \in Covered(w)
<1> DEFINE f == w.from
           g == w.to
<1>1. Day \in Nat \ {0} /\ f \in 0 .. Day - 1 /\ g \in 0 .. Day - 1 /\ minute \in 0 .. Day - 1
  BY EnrichmentAssumption DEF Minutes
<1>2. Covered(w) = {(f + k) % Day : k \in 0 .. (Day + g - f) % Day}
  BY DEF Covered
<1>3. InWindow(w, minute) <=> IF f <= g THEN f <= minute /\ minute <= g ELSE f <= minute \/ minute <= g
  BY DEF InWindow
<1> HIDE DEF f, g
<1> DEFINE n == (Day + g - f) % Day
<1> HIDE DEF n
<1>4. n = IF f <= g THEN g - f ELSE Day + g - f
  <2> DEFINE x == Day + g - f
  <2>1. x \in Nat /\ x < 2 * Day
    BY <1>1
  <2> HIDE DEF x
  <2>2. x % Day = IF x < Day THEN x ELSE x - Day
    BY <2>1, Mod
  <2>3. n = IF x < Day THEN x ELSE x - Day
    BY <2>2 DEF n, x
  <2> QED
    BY <1>1, <2>3 DEF x
<1>5. n \in 0 .. Day - 1
  BY <1>1, <1>4
<1>6. \A k \in 0 .. n : (f + k) % Day = IF f + k < Day THEN f + k ELSE f + k - Day
  <2>1. ASSUME NEW k \in 0 .. n
        PROVE  (f + k) % Day = IF f + k < Day THEN f + k ELSE f + k - Day
    <3> DEFINE x == f + k
    <3>1. x \in Nat /\ x < 2 * Day
      BY <1>1, <1>5
    <3> HIDE DEF x
    <3>2. x % Day = IF x < Day THEN x ELSE x - Day
      BY <3>1, Mod
    <3> QED
      BY <1>1, <1>5, <3>2 DEF x
  <2> QED
    BY <2>1
<1>7. minute \in Covered(w) <=> \E k \in 0 .. n : minute = (f + k) % Day
  BY <1>2 DEF n
<1>8. ASSUME InWindow(w, minute)
      PROVE  \E k \in 0 .. n : minute = (f + k) % Day
  <2>1. CASE f <= minute
    <3>1. minute - f \in 0 .. n /\ f + (minute - f) = minute /\ minute < Day
      BY <1>1, <1>3, <1>4, <1>8, <2>1
    <3> DEFINE k == minute - f
    <3>2. k \in 0 .. n /\ f + k = minute /\ minute < Day
      BY <3>1
    <3> HIDE DEF k
    <3>3. (f + k) % Day = IF f + k < Day THEN f + k ELSE f + k - Day
      BY <1>6, <3>2
    <3> QED
      BY <3>2, <3>3
  <2>2. CASE ~ (f <= minute)
    <3> DEFINE k == Day + minute - f
    <3>1. k \in 0 .. n /\ f + k = Day + minute /\ ~ (f + k < Day) /\ f + k - Day = minute
      BY <1>1, <1>3, <1>4, <1>8, <2>2
    <3> HIDE DEF k
    <3>2. (f + k) % Day = IF f + k < Day THEN f + k ELSE f + k - Day
      BY <1>6, <3>1
    <3> QED
      BY <3>1, <3>2
  <2> QED
    BY <2>1, <2>2
<1>9. ASSUME NEW k \in 0 .. n, minute = (f + k) % Day
      PROVE  InWindow(w, minute)
  <2>1. minute = IF f + k < Day THEN f + k ELSE f + k - Day
    BY <1>6, <1>9
  <2>2. k \in Nat /\ k <= n /\ n \in Nat
    BY <1>5
  <2> QED
    BY <1>1, <1>3, <1>4, <2>1, <2>2
<1> QED
  BY <1>7, <1>8, <1>9

(* A sync gets beyond the check only with the network and, at the minute it  *)
(* looked at the clock, inside one of the windows that parse, which are the  *)
(* minutes from start to end, around midnight if the end comes first; with   *)
(* no windows it always does (is_online, in_sync_window).                    *)
THEOREM GateFollowsWindowsHolds == Spec => []GateFollowsWindows
<1>1. Inv => GateFollowsWindows
  <2> SUFFICES ASSUME Inv, runs["sync"].at \in {"open", "closed"}
               PROVE  /\ ~config.forced
                      /\ (runs["sync"].at = "open" <=>
                            \/ config.windows = <<>>
                            \/ \E w \in {config.windows[i] : i \in DOMAIN config.windows} \ {Garbled} :
                                 Head(runs["sync"].rows) \in Covered(w))
    BY DEF GateFollowsWindows
  <2>1. ~config.forced
    BY DEF Inv, RunsInv, Gated
  <2>2. PICK minute \in Minutes :
          runs["sync"].rows = <<minute>> /\ (runs["sync"].at = "open" <=> InSyncWindow(minute))
    BY DEF Inv, RunsInv, Gated
  <2>3. Head(runs["sync"].rows) = minute
    BY <2>2
  <2>4. \A i \in DOMAIN config.windows :
          config.windows[i] # Garbled => config.windows[i] \in [from : Minutes, to : Minutes]
    <3> DEFINE W == [from : Minutes, to : Minutes]
    <3>1. config.windows \in Seq({Garbled} \cup W)
      BY EnrichmentAssumption DEF Inv, Typed, Minutes
    <3> HIDE DEF W
    <3>2. \A i \in DOMAIN config.windows : config.windows[i] \in {Garbled} \cup W
      BY <3>1
    <3>3. \A i \in DOMAIN config.windows : config.windows[i] # Garbled => config.windows[i] \in W
      BY <3>2
    <3> QED
      BY <3>3 DEF W
  <2>5. \A i \in DOMAIN config.windows :
          config.windows[i] # Garbled =>
            (InWindow(config.windows[i], minute) <=> minute \in Covered(config.windows[i]))
    BY <2>4, InWindowIsCovered
  <2>6. InSyncWindow(minute) <=>
          \/ config.windows = <<>>
          \/ \E i \in DOMAIN config.windows :
               config.windows[i] # Garbled /\ minute \in Covered(config.windows[i])
    BY <2>5 DEF InSyncWindow
  <2> QED
    BY <2>1, <2>2, <2>3, <2>6
<1> QED
  BY <1>1, Invariance, PTL

-----------------------------------------------------------------------------
(* What undoes work.                                                        *)

(* A task replaces a fetched thumbnail only of a video that was raced for or *)
(* found.                                                                   *)
LEMMA ArtworkStep ==
  ASSUME Inv, NEW t \in Tasks, EnsureForVideo(t), NEW v \in Videos,
         art[v] = "remote", art'[v] # "remote"
  PROVE  <<"artwork", v>> \in Holds(runs[t]) /\ (runs[t].found \/ <<"artwork", v>> \in raced)
<1> DEFINE rows == runs[t].rows
           u == Head(rows).video
<1>1. runs[t].at = "artwork" /\ RowsFit(runs[t], listed) /\ ArtFresh(runs[t], art, raced)
  BY DEF EnsureForVideo, Inv, RunsInv
<1>2. rows \in Seq([video : Videos, art : Kinds]) /\ rows # <<>>
  BY <1>1 DEF RowsFit
<1>3. 1 \in DOMAIN rows /\ Head(rows) = rows[1]
  <2> DEFINE R == [video : Videos, art : Kinds]
  <2>1. rows \in Seq(R) /\ rows # <<>>
    BY <1>2
  <2> HIDE DEF rows, R
  <2> QED
    BY <2>1
<1>4. <<"artwork", u>> \in Holds(runs[t])
  BY <1>1, <1>3 DEF Holds
<1>5. runs[t].found \/ <<"artwork", u>> \in raced \/ Head(rows).art = art[u]
  BY <1>1, <1>3 DEF ArtFresh, RowsFresh
<1>6. art = [x \in Videos |-> art[x]]
  BY DEF Inv, Typed
<1>7. \/ art' = [art EXCEPT ![u] = "remote"]
      \/ Head(rows).art = "none" /\ art' = [art EXCEPT ![u] = "generated"]
      \/ art' = art
  BY DEF EnsureForVideo, Existing
<1> HIDE DEF u
<1>8. u = v /\ Head(rows).art = "none"
  BY <1>6, <1>7
<1> QED
  BY <1>4, <1>5, <1>8

LEMMA EmbeddingStep ==
  ASSUME Inv, NEW t \in Tasks, NEW results, Store(t, results), NEW v \in Videos,
         emb[v] = "transcript", emb'[v] # "transcript"
  PROVE  <<"prepare", v>> \in raced
<1>1. EmbFresh(runs[t], emb, raced)
  BY DEF Inv, RunsInv
<1>2. runs[t].at = "prepare" /\ \E i \in DOMAIN runs[t].rows : runs[t].rows[i] = v
  BY StoreIs
<1> QED
  BY <1>1, <1>2 DEF EmbFresh

(* Who changes artwork and embeddings.                                      *)
LEMMA Writers ==
  ASSUME Next
  PROVE  /\ art' = art \/ \E t \in Tasks : EnsureForVideo(t)
         /\ emb' = emb \/ \E t \in Tasks : \E results : Store(t, results)
<1>1. ASSUME NEW t \in Tasks, EnsureForVideo(t)
      PROVE  emb' = emb
  BY <1>1 DEF EnsureForVideo
<1>2. ASSUME NEW t \in Tasks, NEW results, Store(t, results)
      PROVE  art' = art
  BY <1>2 DEF Store
<1>3. ASSUME NEW t \in Tasks, TaskStep(t)
      PROVE  /\ art' = art \/ \E u \in Tasks : EnsureForVideo(u)
             /\ emb' = emb \/ \E u \in Tasks : \E results : Store(u, results)
  <2>1. EnsureForVideo(t) \/ \E results : Store(t, results)
    BY <1>3 DEF TaskStep
  <2> QED
    BY <1>1, <1>2, <2>1
<1>4. ASSUME SyncStep, ~TaskStep("sync")
      PROVE  art' = art /\ emb' = emb
  BY <1>4 DEF SyncStep, CheckSync, SkipSync, BackfillSync, TakeMissing, ListFeeds, DiscoverRss,
     AllRssRead, DiscoverLocal
<1>5. ASSUME RequestSync \/ TakeMissing("loop") \/ \E t \in Tasks : Fail(t)
      PROVE  art' = art /\ emb' = emb
  BY <1>5 DEF Fail, RequestSync, TakeMissing
<1>6. ASSUME \E p \in Pages, v \in Videos : GetArtwork(p, v) \/ Discover(p, v)
      PROVE  art' = art /\ emb' = emb
  BY <1>6 DEF GetArtwork, Discover
<1>7. ASSUME RefreshNetwork \/ Outage \/ Launch \/ Crash
      PROVE  art' = art /\ emb' = emb
  BY <1>7 DEF RefreshNetwork, Outage, Launch, Crash
<1>8. "sync" \in Tasks
  BY DEF Tasks
<1> QED
  BY <1>3, <1>4, <1>5, <1>6, <1>7, <1>8 DEF Next

(* A thumbnail that was fetched is replaced by a generated picture only by a *)
(* task that read the row before and had the video together with another    *)
(* one, or by a task that has it from a provider, the sync's own discovery   *)
(* of RSS feeds among them; a transcript is replaced by a text made of the   *)
(* metadata only where two tasks had the same video (ensure_for_video,       *)
(* BunkerService.discover, refresh_embeddings).                              *)
THEOREM OnlyRacesUndoHolds == Spec => OnlyRacesUndo
<1>1. Inv /\ [Next]_vars =>
        [\A v \in Videos : art[v] = "remote" /\ art'[v] # "remote" =>
           \/ <<"artwork", v>> \in raced
           \/ \E t \in Tasks : runs[t].found /\ <<"artwork", v>> \in Holds(runs[t])]_vars
  <2> SUFFICES ASSUME Inv, Next, NEW v \in Videos, art[v] = "remote", art'[v] # "remote"
               PROVE  \/ <<"artwork", v>> \in raced
                      \/ \E t \in Tasks : runs[t].found /\ <<"artwork", v>> \in Holds(runs[t])
    OBVIOUS
  <2>1. PICK t \in Tasks : EnsureForVideo(t)
    BY Writers
  <2> QED
    BY <2>1, ArtworkStep
<1>2. Inv /\ [Next]_vars =>
        [\A v \in Videos : emb[v] = "transcript" /\ emb'[v] # "transcript" =>
           <<"prepare", v>> \in raced]_vars
  <2> SUFFICES ASSUME Inv, Next, NEW v \in Videos, emb[v] = "transcript", emb'[v] # "transcript"
               PROVE  <<"prepare", v>> \in raced
    OBVIOUS
  <2>1. PICK t \in Tasks : \E results : Store(t, results)
    BY Writers
  <2> QED
    BY <2>1, EmbeddingStep
<1>3. Spec => ArtworkOnlyImproves
  BY <1>1, Invariance, PTL DEF Spec, ArtworkOnlyImproves
<1>4. Spec => TranscriptIsKept
  BY <1>2, Invariance, PTL DEF Spec, TranscriptIsKept
<1> QED
  BY <1>3, <1>4 DEF OnlyRacesUndo

=============================================================================
