------------------------------ MODULE Enrichment ------------------------------
(***************************************************************************)
(* What the server adds to the videos it lists: artwork and embeddings, by *)
(* a sync request behind the network check, the sync windows and the sync  *)
(* lock, by the intelligence loop, and on behalf of pages. All of them     *)
(* read rows, work in a thread and write later, so they may overtake each  *)
(* other. The other steps of a sync are in OfflineCache, ImportOrganizer   *)
(* and JobQueue.                                                           *)
(***************************************************************************)
EXTENDS Naturals, Sequences, FiniteSets, SequencesExt

CONSTANTS
  Videos,
  Thumbed,        \* the videos listed with a thumbnail
  Rss, Local,     \* those that RSS feeds and the watch folders list
  Broken,         \* the videos whose subtitles can never be read
  Day,            \* minutes of a day
  Garbled,        \* a sync window that does not parse
  Configs,        \* the settings: forced offline, sync windows
  StartLimit, BackfillLimit,   \* rows per artwork pass: 48 and 120
  DiscoverLimit,  \* found videos that are given artwork: 24
  BatchSize,      \* intelligence_batch_size
  Pages,          \* requests of pages that may be served at once
  MaxUnusual      \* bound: requests of pages, outages, exceptions, crashes

ASSUME EnrichmentAssumption ==
  /\ IsFiniteSet(Videos) /\ Thumbed \subseteq Videos /\ Broken \subseteq Videos
  /\ Rss \subseteq Videos /\ Local \subseteq Videos /\ Local \cap (Rss \cup Thumbed \cup Broken) = {}
  /\ Pages \cap {"start", "sync", "loop"} = {}
  /\ Day \in Nat \ {0}
  /\ \A c \in Configs :
       /\ c.forced \in BOOLEAN
       /\ c.windows \in Seq({Garbled} \cup [from : 0 .. Day - 1, to : 0 .. Day - 1])
  /\ {StartLimit, BackfillLimit, DiscoverLimit, BatchSize, MaxUnusual} \subseteq Nat

VARIABLES
  config,
  reachable,      \* the connectivity check would succeed now
  online,         \* _online: it did when it was last made
  server,         \* down, starting or up
  lock,           \* sync_lock
  listed,         \* the videos
  later,          \* their order by updated_at: the second is the later one
  art,            \* the artwork_path of each: none, generated or remote
  emb,            \* its row of video_intelligence: none, metadata or transcript
  runs,           \* what each task of the server is at
  raced,          \* history: what a task works on that another one had, too,
                  \* since it read the row
  unusual

vars == <<config, reachable, online, server, lock, listed, later, art, emb, runs, raced, unusual>>

Minutes == 0 .. Day - 1
Tasks == {"start", "sync", "loop"} \cup Pages

(* A task: its stage and the rows it has read.                              *)
At(stage, rows) ==
  [at |-> stage, rows |-> rows, remote |-> FALSE, found |-> FALSE, then |-> "idle"]
Idle == At("idle", <<>>)

(* A task at work on artwork: whether it may use the network, whether its   *)
(* rows are what a provider found, and where it goes when they are done.    *)
AtArtwork(rows, remote, found, then) ==
  [at |-> "artwork", rows |-> rows, remote |-> remote, found |-> found, then |-> then]

Init ==
  /\ config \in Configs
  /\ reachable \in BOOLEAN /\ online = ~config.forced
  /\ server = "down" /\ lock = FALSE
  /\ listed = {} /\ later = {}
  /\ art = [v \in Videos |-> "none"] /\ emb = [v \in Videos |-> "none"]
  /\ runs = [t \in Tasks |-> Idle]
  /\ raced = {} /\ unusual = 0

(* What a task is going to write.                                           *)
Holds(run) ==
  IF run.at = "artwork" THEN {<<"artwork", run.rows[i].video>> : i \in DOMAIN run.rows}
  ELSE IF run.at = "prepare" THEN {<<"prepare", run.rows[i]>> : i \in DOMAIN run.rows}
  ELSE {}

(* What two tasks hold, and what two tasks held and one of them still does. *)
Contested(rs) ==
  {w \in UNION {Holds(rs[t]) : t \in Tasks} :
     w \in raced \/ \E t \in Tasks : \E u \in Tasks \ {t} : w \in Holds(rs[t]) \cap Holds(rs[u])}

Goto(t, next) ==
  /\ runs' = [runs EXCEPT ![t] = next]
  /\ raced' = Contested([runs EXCEPT ![t] = next])

(* The latest of the rows S, the latest one first.                          *)
Newest(S, limit) ==
  {rows \in [1 .. (IF limit < Cardinality(S) THEN limit ELSE Cardinality(S)) -> S] :
     /\ \A i, j \in DOMAIN rows : i < j => <<rows[j], rows[i]>> \in later
     /\ \A v \in S \ ToSet(rows), i \in DOMAIN rows : <<v, rows[i]>> \in later}

InOrder(seq) ==
  {p \in ToSet(seq) \X ToSet(seq) : \E i, j \in DOMAIN seq : i < j /\ p = <<seq[i], seq[j]>>}

(* Mutant of Touch: a row keeps its old place beside the new one.           *)
RowAdded(rows) ==
  /\ listed' = listed \cup ToSet(rows)
  /\ later' = later \cup (listed \X ToSet(rows)) \cup InOrder(rows)

(* updated_at of the rows becomes now, of one after the other; those that   *)
(* are not there are entered.                                               *)
Touch(rows) ==
  LET others == listed \ ToSet(rows)
  IN /\ listed' = listed \cup ToSet(rows)
     /\ later' = (later \cap (others \X others)) \cup (others \X ToSet(rows)) \cup InOrder(rows)

-----------------------------------------------------------------------------
(* Network and windows                                                      *)

(* NetworkStateManager.refresh                                              *)
Refreshed == reachable /\ ~config.forced

(* Mutant of InWindow: a window that crosses midnight never opens.          *)
NotOvernight(w, minute) == w.from <= minute /\ minute <= w.to

(* in_sync_window, for one window                                           *)
InWindow(w, minute) ==
  IF w.from <= w.to THEN w.from <= minute /\ minute <= w.to
                    ELSE w.from <= minute \/ minute <= w.to

InSyncWindow(minute) ==
  \/ config.windows = <<>>
  \/ \E i \in DOMAIN config.windows :
       config.windows[i] # Garbled /\ InWindow(config.windows[i], minute)

(* GET /health and the home page check the network, too.                    *)
RefreshNetwork ==
  /\ server = "up"
  /\ online' = Refreshed
  /\ UNCHANGED <<config, reachable, server, lock, listed, later, art, emb, runs, raced, unusual>>

Outage ==
  /\ unusual < MaxUnusual
  /\ reachable' = ~reachable
  /\ unusual' = unusual + 1
  /\ UNCHANGED <<config, online, server, lock, listed, later, art, emb, runs, raced>>

-----------------------------------------------------------------------------
(* Artwork                                                                  *)

(* The artwork a row had when it was read.                                  *)
Existing(row) == row.art

Row(v) == [video |-> v, art |-> art[v]]

(* list_artwork_candidates                                                  *)
Candidates == {v \in listed : art[v] = "none"}

(* The artwork of rows, one after the other.                                *)
EnsureAll(t, rows, remote, found, then) ==
  /\ Goto(t, IF rows = <<>> THEN At(then, <<>>) ELSE AtArtwork(rows, remote, found, then))
  /\ server' = IF t # "start" THEN server ELSE IF rows = <<>> THEN "up" ELSE "starting"

(* backfill_missing reads its rows.                                         *)
Backfill(t, limit, remote, then) ==
  \E rows \in Newest(Candidates, limit) :
    EnsureAll(t, [i \in DOMAIN rows |-> Row(rows[i])], remote, FALSE, then)

(* ensure_for_video: a download if it is allowed, there is a thumbnail and  *)
(* the artwork is none or generated; a generated one if there was none and  *)
(* the download fails.                                                      *)
EnsureForVideo(t) ==
  /\ runs[t].at = "artwork"
  /\ LET row == Head(runs[t].rows)
         v == row.video
     IN \/ /\ runs[t].remote /\ reachable /\ v \in Thumbed
           /\ Existing(row) # "remote"
           /\ art' = [art EXCEPT ![v] = "remote"]
           /\ Touch(<<v>>)
        \/ /\ Existing(row) = "none"
           /\ art' = [art EXCEPT ![v] = "generated"]
           /\ Touch(<<v>>)
        \/ /\ Existing(row) # "none"
           /\ UNCHANGED <<art, listed, later>>
  /\ EnsureAll(t, Tail(runs[t].rows), runs[t].remote, runs[t].found, runs[t].then)
  /\ UNCHANGED <<config, reachable, online, lock, emb, unusual>>

(* GET /artwork                                                             *)
GetArtwork(p, v) ==
  /\ server = "up" /\ runs[p] = Idle /\ unusual < MaxUnusual
  /\ v \in listed
  /\ EnsureAll(p, <<Row(v)>>, online, FALSE, "idle")
  /\ unusual' = unusual + 1
  /\ UNCHANGED <<config, reachable, online, lock, listed, later, art, emb>>

(* discover and acquire: what a provider found is listed, and the first of  *)
(* it given artwork as if it had none, without the network.                 *)
Find(t, items, then) ==
  /\ Touch(items)
  /\ EnsureAll(t, [i \in 1 .. (IF DiscoverLimit < Len(items) THEN DiscoverLimit ELSE Len(items)) |->
                     [video |-> items[i], art |-> "none"]], FALSE, TRUE, then)

(* GET /discover and POST /acquire; only the watch folders need no network.  *)
Discover(p, v) ==
  /\ server = "up" /\ runs[p] = Idle /\ unusual < MaxUnusual
  /\ reachable \/ v \in Local
  /\ Find(p, <<v>>, "idle")
  /\ unusual' = unusual + 1
  /\ UNCHANGED <<config, reachable, online, lock, art, emb>>

-----------------------------------------------------------------------------
(* Embeddings                                                               *)

(* Mutant of Missing: every video is looked at again.                       *)
AllListed == listed

Missing == {v \in listed : emb[v] = "none"}

(* refresh_embeddings reads the rows without an embedding. With none it     *)
(* returns.                                                                 *)
TakeMissing(t) ==
  /\ server = "up"
  /\ runs[t].at = IF t = "sync" THEN "missing" ELSE "idle"
  /\ t = "sync" \/ Missing # {}
  /\ \E rows \in Newest(Missing, BatchSize) : Goto(t, At("prepare", rows))
  /\ UNCHANGED <<config, reachable, online, server, lock, listed, later, art, emb, unusual>>

(* Mutant of Prepared: an exception ends the batch.                         *)
PreparedOrNone(rows, results) ==
  IF \E v \in ToSet(rows) : results[v] = "exception" THEN {} ELSE ToSet(rows)

(* _prepare_embeddings_sync skips the videos that raise an exception.       *)
Prepared(rows, results) == {v \in ToSet(rows) : results[v] # "exception"}

(* What the texts of the rows may turn out to be. There are no subtitles of *)
(* the files of watch folders, and none to be read without the network.     *)
Results(t) ==
  IF runs[t].at # "prepare" THEN {}
  ELSE {r \in [ToSet(runs[t].rows) -> {"metadata", "transcript", "exception"}] :
          \A v \in DOMAIN r : IF ~reachable \/ v \in Local THEN r[v] = "metadata"
                             ELSE v \in Broken => r[v] = "exception"}

(* upsert_video_intelligence for each of them; by now they need not be      *)
(* missing any more.                                                        *)
Store(t, results) ==
  /\ results \in Results(t)
  /\ emb' = [v \in Videos |-> IF v \in Prepared(runs[t].rows, results)
                              THEN results[v] ELSE emb[v]]
  /\ Goto(t, Idle)
  /\ lock' = (lock /\ t # "sync")
  /\ UNCHANGED <<config, reachable, online, server, listed, later, art, unusual>>

-----------------------------------------------------------------------------
(* The sync                                                                 *)

(* POST /bunku/data/sync, unless one is under way                           *)
RequestSync ==
  /\ server = "up" /\ ~lock
  /\ lock' = TRUE
  /\ Goto("sync", At("check", <<>>))
  /\ UNCHANGED <<config, reachable, online, server, listed, later, art, emb, unusual>>

(* sync_once checks the network and then the windows.                       *)
CheckSync(minute) ==
  /\ runs["sync"].at = "check"
  /\ online' = Refreshed
  /\ Goto("sync", At(IF ~Refreshed THEN "offline"
                  ELSE IF InSyncWindow(minute) THEN "open" ELSE "closed", <<minute>>))
  /\ UNCHANGED <<config, reachable, server, lock, listed, later, art, emb, unusual>>

(* async with sync_lock                                                     *)
Release == lock' = FALSE

SkipSync ==
  /\ runs["sync"].at \in {"offline", "closed"}
  /\ Goto("sync", Idle)
  /\ Release
  /\ UNCHANGED <<config, reachable, online, server, listed, later, art, emb, unusual>>

(* The trending list, channels and playlists list some videos, in their     *)
(* order; without the network the extraction returns nothing.               *)
ListFeeds(feed) ==
  /\ runs["sync"].at = "open"
  /\ reachable \/ feed = <<>>
  /\ Touch(feed)
  /\ Goto("sync", At("rss", <<>>))
  /\ UNCHANGED <<config, reachable, online, server, lock, art, emb, unusual>>

(* The next of the RSS feeds, read by its provider.                         *)
DiscoverRss(items) ==
  /\ runs["sync"].at = "rss"
  /\ reachable \/ items = <<>>
  /\ Find("sync", items, "rss")
  /\ UNCHANGED <<config, reachable, online, lock, art, emb, unusual>>

AllRssRead ==
  /\ runs["sync"].at = "rss"
  /\ Goto("sync", At("local", <<>>))
  /\ UNCHANGED <<config, reachable, online, server, lock, listed, later, art, emb, unusual>>

(* The files in the watch folders, if there are any.                        *)
DiscoverLocal(items) ==
  /\ runs["sync"].at = "local"
  /\ Find("sync", items, "backfill")
  /\ UNCHANGED <<config, reachable, online, lock, art, emb, unusual>>

BackfillSync ==
  /\ runs["sync"].at = "backfill"
  /\ Backfill("sync", BackfillLimit, online, "missing")
  /\ UNCHANGED <<config, reachable, online, lock, listed, later, art, emb, unusual>>

(* An exception that nothing catches, such as a picture that cannot be      *)
(* written, ends a sync, a request, a round of the loop or the start.       *)
Fail(t) ==
  /\ runs[t].at \in {"open", "rss", "local", "artwork", "backfill", "missing", "prepare"}
  /\ unusual < MaxUnusual
  /\ Goto(t, Idle)
  /\ lock' = (lock /\ t # "sync")
  /\ server' = IF t = "start" THEN "down" ELSE server
  /\ unusual' = unusual + 1
  /\ UNCHANGED <<config, reachable, online, listed, later, art, emb>>

-----------------------------------------------------------------------------
(* The process                                                              *)

(* initialize: the network, then artwork without it.                        *)
Launch ==
  /\ server = "down"
  /\ online' = Refreshed
  /\ Backfill("start", StartLimit, FALSE, "idle")
  /\ UNCHANGED <<config, reachable, lock, listed, later, art, emb, unusual>>

Crash ==
  /\ server # "down" /\ unusual < MaxUnusual
  /\ server' = "down" /\ lock' = FALSE
  /\ runs' = [t \in Tasks |-> Idle] /\ raced' = {}
  /\ unusual' = unusual + 1
  /\ UNCHANGED <<config, reachable, online, listed, later, art, emb>>

Lists(S) == SetToAllKPermutations(S)

TaskStep(t) ==
  EnsureForVideo(t) \/ \E results \in Results(t) : Store(t, results)

SyncStep ==
  \/ \E minute \in Minutes : CheckSync(minute)
  \/ SkipSync \/ BackfillSync \/ TakeMissing("sync") \/ TaskStep("sync")
  \/ \E feed \in Lists(Videos \ (Rss \cup Local)) : ListFeeds(feed)
  \/ \E items \in Lists(Rss) : DiscoverRss(items)
  \/ AllRssRead
  \/ \E items \in Lists(Local) : DiscoverLocal(items)

Next ==
  \/ \E t \in Tasks : TaskStep(t) \/ Fail(t)
  \/ SyncStep \/ RequestSync
  \/ TakeMissing("loop")
  \/ \E p \in Pages, v \in Videos : GetArtwork(p, v) \/ Discover(p, v)
  \/ RefreshNetwork \/ Outage
  \/ Launch \/ Crash

(* The process is started again, its tasks go on, the loop comes round, and *)
(* whatever can be read is read in the end.                                 *)
Fairness ==
  /\ WF_vars(Launch) /\ WF_vars(TaskStep("start"))
  /\ WF_vars(SyncStep)
  /\ WF_vars(TakeMissing("loop")) /\ WF_vars(TaskStep("loop"))
  /\ \A v \in Videos \ Broken :
       SF_vars(\E results \in Results("loop") :
                 /\ v \in DOMAIN results /\ results[v] # "exception"
                 /\ Store("loop", results))

Spec == Init /\ [][Next]_vars /\ Fairness

-----------------------------------------------------------------------------
(* Properties                                                               *)

(* The variables keep their types, and every row that is worked on is that  *)
(* of a listed video.                                                       *)
TypeOK ==
  /\ server \in {"down", "starting", "up"} /\ online \in BOOLEAN /\ lock \in BOOLEAN
  /\ listed \subseteq Videos /\ later \subseteq listed \X listed
  /\ \A u, v \in listed : <<u, v>> \in later <=> u # v /\ <<v, u>> \notin later
  /\ \A v \in Videos :
       /\ art[v] \in {"none", "generated", "remote"}
       /\ emb[v] \in {"none", "metadata", "transcript"}
       /\ v \in listed \/ (art[v] = "none" /\ emb[v] = "none")
  /\ server # "up" => \A t \in Tasks \ {"start"} : runs[t] = Idle
  /\ raced \subseteq {"artwork", "prepare"} \X Videos /\ unusual \in 0 .. MaxUnusual

(* The minutes in a window, counted from its start to its end, around       *)
(* midnight if need be.                                                     *)
Covered(w) == {(w.from + k) % Day : k \in 0 .. (Day + w.to - w.from) % Day}

(* In forced offline mode no sync reaches the windows, whoever asks, and    *)
(* one passes them exactly at the minutes they cover: both ends belong to a *)
(* window, one that crosses midnight is one window, and settings that do    *)
(* not parse open none (is_online, in_sync_window).                         *)
GateFollowsWindows ==
  LET run == runs["sync"]
      windows == {config.windows[i] : i \in DOMAIN config.windows} \ {Garbled}
  IN run.at \in {"open", "closed"} =>
    /\ ~config.forced
    /\ (run.at = "open" <=> \/ config.windows = <<>>
                          \/ \E w \in windows : Head(run.rows) \in Covered(w))

(* A thumbnail that was fetched is replaced by a generated picture only by  *)
(* a task that read the row before, while another one worked on it, too, or *)
(* by one that a provider told of the video: it takes what was found for    *)
(* new, so a sync undoes by itself what was fetched for the videos of an    *)
(* RSS feed (ensure_for_video, BunkerService.discover).                     *)
ArtworkOnlyImproves ==
  [][\A v \in Videos : art[v] = "remote" /\ art'[v] # "remote" =>
       \/ <<"artwork", v>> \in raced
       \/ \E t \in Tasks : runs[t].found /\ <<"artwork", v>> \in Holds(runs[t])]_vars

(* A transcript is replaced by a text made of the metadata only when        *)
(* another task refreshed the same video meanwhile (refresh_embeddings).    *)
TranscriptIsKept ==
  [][\A v \in Videos : emb[v] = "transcript" /\ emb'[v] # "transcript" =>
       <<"prepare", v>> \in raced]_vars

(* The work on a video is undone only by another task that had it at the    *)
(* same time, or by the discovery of a provider.                            *)
OnlyRacesUndo == ArtworkOnlyImproves /\ TranscriptIsKept

(* Every listed video whose text can be read gets an embedding, although    *)
(* others raise exceptions in every batch, as long as these are fewer than  *)
(* a batch (refresh_embeddings).                                            *)
ReadableGetEmbedded ==
  \A v \in Videos \ Broken : v \in listed ~> emb[v] # "none"
=============================================================================
