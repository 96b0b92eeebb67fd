----------------------------- MODULE OfflineCache -----------------------------
(***************************************************************************)
(* The offline library of BunkerMedia: the planner queues recommended      *)
(* videos until enough unwatched hours are at hand (planner.py), the       *)
(* storage policy deletes files until they fit the limit                   *)
(* (storage_policy.py), feeds and local folders bring videos in            *)
(* (workers.py, scraper.py, providers/local.py), the profiles' feedback    *)
(* decides what is wanted, and a crash may come between any two writes.    *)
(* They meet in the table videos, in the files and in yt-dlp's archive.    *)
(*                                                                         *)
(* A video is its own URL. A job is live or not (JobQueue has the rest).   *)
(* The planner and the policy await nothing: each of their runs is atomic. *)
(***************************************************************************)
EXTENDS Integers, Sequences, FiniteSets, SequencesExt, FiniteSetsExt

CONSTANTS
  Videos,
  Local,           \* those that are files of the local watch folders
  Profiles,
  DefaultProfile,  \* the profile the planner plans for
  Size,            \* bytes of a video's file
  Duration,        \* videos.duration_seconds, 0 for NULL
  Fallback,        \* config.offline_default_video_minutes, in seconds
  Rate,            \* bytes a second: config.offline_estimated_mbps
  Target,          \* config.offline_target_hours, in seconds; 0 disables
  PlanBatch,       \* config.offline_planner_batch_size
  MaxCandidates,   \* config.offline_planner_max_candidates
  Limit,           \* config.storage_max_gb, in bytes; 0 disables
  Reserve,         \* config.storage_reserve_gb, in bytes
  EvictBatch,      \* config.storage_eviction_batch_size
  CandidateLimit,  \* rows the storage policy looks at: 20 batches, 200 or more
  ProtectLiked,    \* config.storage_protect_liked
  ByScore,         \* config.storage_eviction_policy = low_score
  Score,           \* the sum low_score orders by
  Merging,         \* may yt-dlp merge a video from two files?
  Undeletable,     \* files that unlink may refuse to delete
  MaxFeedback,     \* bound: feedback the users give
  MaxCrashes,      \* bound: process deaths
  MaxFlaky         \* bound: downloads that finish and do not reach the archive

ASSUME CacheAssumption ==
  /\ IsFiniteSet(Videos)
  /\ Local \subseteq Videos
  /\ DefaultProfile \in Profiles
  /\ Size \in [Videos -> Nat \ {0}]
  /\ Duration \in [Videos -> Nat]
  /\ Score \in [Videos -> Int]
  /\ {Fallback, Rate, PlanBatch, MaxCandidates, EvictBatch} \subseteq Nat \ {0}
  /\ {Target, Limit, Reserve, CandidateLimit} \subseteq Nat
  /\ {ProtectLiked, ByScore, Merging} \subseteq BOOLEAN
  /\ Undeletable \subseteq Videos
  /\ {MaxFeedback, MaxCrashes, MaxFlaky} \subseteq Nat

VARIABLES
  times,       \* the updated_at of rows and opinions, least recent first
  downloaded, watched, liked, disliked, rejected,  \* columns of videos
  path,        \* videos.local_path: none, the file, or a part of it
  size,        \* videos.file_size_bytes
  opinion,     \* profile_video_state: watched and liked of a profile
  queued,      \* the videos with a live job
  arriving,    \* what the download thread has and the catalogue has not
  files,       \* the files on disk
  archive,     \* archive.txt
  feedbacks, crashes, flaky,   \* history, for the bounds
  planned,     \* history: the queued videos that the planner queued
  torn         \* history: videos whose file or row an interruption left alone

catalogue == <<downloaded, watched, liked, disliked, rejected, path, size>>
disk == <<files, archive, arriving>>
counts == <<feedbacks, crashes, flaky>>
vars == <<times, catalogue, opinion, queued, disk, counts, planned, torn>>

Paths == {"none", "file", "part"}

Init ==
  /\ times = << >>
  /\ downloaded = {} /\ watched = {} /\ liked = {} /\ disliked = {}
  /\ rejected = {}
  /\ path = [v \in Videos |-> "none"]
  /\ size = [v \in Videos |-> 0]
  /\ opinion = [p \in Profiles |-> [watched |-> {}, liked |-> {}]]
  /\ queued = {}
  /\ arriving = [v \in Videos |-> "none"]
  /\ files = Local
  /\ archive = {}
  /\ feedbacks = 0 /\ crashes = 0 /\ flaky = 0
  /\ planned = {}
  /\ torn = {}

Row(v) == <<"row", v>>
Opinion(v) == <<"opinion", v>>

(* The stamps of S, in the order of stamps.                                 *)
Kept(stamps, S) ==
  LET kept[i \in 0..Len(stamps)] ==
        IF i = 0 THEN << >>
        ELSE IF stamps[i] \in S THEN Append(kept[i - 1], stamps[i]) ELSE kept[i - 1]
  IN kept[Len(stamps)]

(* Mutant of Written: a write adds a row.                                   *)
WrittenAgain(stamps, written) == stamps \o written

(* A write sets updated_at: of the row of v in videos, or of the opinion of  *)
(* the default profile in profile_video_state.                              *)
Written(stamps, written) == Kept(stamps, ToSet(stamps) \ ToSet(written)) \o written

Rows(vs) == [i \in DOMAIN vs |-> Row(vs[i])]
Touched(stamps, v) == Written(stamps, <<Row(v)>>)

Known == {v \in Videos : Row(v) \in ToSet(times)}
Opined == {v \in Videos : Opinion(v) \in ToSet(times)}

Total(f, V) == MapThenSumSet(LAMBDA v : f[v], V)

-----------------------------------------------------------------------------
(* Feeds, folders and users.                                               *)

(* A feed lists v: upsert_video keeps what a download set, and the playlist, *)
(* channel and RSS syncs queue v unless it is there; trending does not.     *)
Discover(v, queue) ==
  /\ v \notin Local
  /\ times' = Touched(times, v)
  /\ queued' = IF queue /\ v \notin downloaded THEN queued \union {v} ELSE queued
  /\ UNCHANGED <<catalogue, opinion, disk, counts, planned, torn>>

(* The thread of the artwork backfill writes the row of v.                  *)
FetchArtwork(v) ==
  /\ v \in Known
  /\ times' = Touched(times, v)
  /\ UNCHANGED <<catalogue, opinion, queued, disk, counts, planned, torn>>

(* A user queues v (Service.add_url), known or not.                         *)
AddUrl(v) ==
  /\ v \notin Local
  /\ queued' = queued \union {v}
  /\ UNCHANGED <<times, catalogue, opinion, disk, counts, planned, torn>>

(* LocalProvider.discover finds the file of v.                              *)
ScanLocal(v) ==
  /\ v \in Local \intersect files
  /\ times' = Touched(times, v)
  /\ downloaded' = downloaded \union {v}
  /\ path' = [path EXCEPT ![v] = "file"]
  /\ size' = [size EXCEPT ![v] = Size[v]]
  /\ torn' = torn \ {v}
  /\ UNCHANGED <<watched, liked, disliked, rejected, opinion, queued, disk, counts,
                 planned>>

(* COALESCE(new, old) for a flag kept as a set of videos.                   *)
Coalesce(S, v, flag) ==
  CASE flag = "yes" -> S \union {v} [] flag = "no" -> S \ {v} [] OTHER -> S

(* mark_watched: the profile's own state, and the shared row, which is      *)
(* watched from then on and takes the likes of whoever came last.           *)
Feedback(p, v, like, dislike, completed) ==
  /\ feedbacks < MaxFeedback
  /\ v \in Known
  /\ opinion' = [opinion EXCEPT ![p] =
       [watched |-> IF completed THEN @.watched \union {v} ELSE @.watched,
        liked |-> Coalesce(@.liked, v, like)]]
  /\ watched' = watched \union {v}
  /\ liked' = Coalesce(liked, v, like)
  /\ disliked' = Coalesce(disliked, v, dislike)
  /\ times' = IF p = DefaultProfile THEN Written(times, <<Opinion(v), Row(v)>>)
              ELSE Touched(times, v)
  /\ feedbacks' = feedbacks + 1
  /\ UNCHANGED <<downloaded, rejected, path, size, queued, disk, crashes, flaky,
                 planned, torn>>

(* set_profile_video_rejection of the default profile.                      *)
Reject(v, flag) ==
  /\ feedbacks < MaxFeedback
  /\ v \in Known
  /\ rejected' = Coalesce(rejected, v, flag)
  /\ times' = Written(times, <<Opinion(v), Row(v)>>)
  /\ feedbacks' = feedbacks + 1
  /\ UNCHANGED <<downloaded, watched, liked, disliked, path, size, opinion, queued, disk,
                 crashes, flaky, planned, torn>>

-----------------------------------------------------------------------------
(* Downloads.                                                              *)

(* yt-dlp, in its thread, fetches a queued video that its archive has not.  *)
(* The hook's file name is a part if the video is merged from parts: yt-dlp *)
(* deletes the parts. A file that postprocessing rejects is not archived.   *)
Fetch(v, name, archived) ==
  /\ v \in queued \ (Local \union archive)
  /\ arriving[v] = "none"
  /\ name = "part" => Merging /\ archived
  /\ ~archived => flaky < MaxFlaky
  /\ arriving' = [arriving EXCEPT ![v] = name]
  /\ files' = files \union {v}
  /\ archive' = IF archived THEN archive \union {v} ELSE archive
  /\ flaky' = IF archived THEN flaky ELSE flaky + 1
  /\ UNCHANGED <<times, catalogue, opinion, queued, feedbacks, crashes, planned, torn>>

(* download_url enters the video: upsert_video and mark_downloaded. The size *)
(* is yt-dlp's or the file's; of a deleted part it may be unknown.          *)
FinishJob(v, bytes) ==
  /\ v \in queued
  /\ arriving[v] # "none"
  /\ bytes = 0 => arriving[v] = "part"
  /\ times' = Touched(times, v)
  /\ downloaded' = downloaded \union {v}
  /\ path' = [path EXCEPT ![v] = arriving[v]]
  /\ size' = [size EXCEPT ![v] = bytes]
  /\ arriving' = [arriving EXCEPT ![v] = "none"]
  /\ queued' = queued \ {v}
  /\ planned' = planned \ {v}
  /\ torn' = IF v \in files THEN torn \ {v} ELSE torn
  /\ UNCHANGED <<watched, liked, disliked, rejected, opinion, files, archive, counts>>

(* The job ends without a file: yt-dlp skips what its archive has and what  *)
(* is no URL (a local path) and still succeeds; or it is paused or dead.    *)
LeaveJob(v) ==
  /\ v \in queued
  /\ arriving[v] = "none"
  /\ queued' = queued \ {v}
  /\ planned' = planned \ {v}
  /\ UNCHANGED <<times, catalogue, opinion, disk, counts, torn>>

-----------------------------------------------------------------------------
(* The planner: OfflinePlanner.plan_once, with D the downloaded videos.     *)

(* COALESCE(ps.watched, videos.watched) of the default profile.             *)
Unwatched(D) ==
  {v \in D : v \notin (IF v \in Opined THEN opinion[DefaultProfile].watched ELSE watched)}

Deficit(D) == Target - Total(Duration, Unwatched(D))

PlannedDuration(v) == IF Duration[v] > 0 THEN Duration[v] ELSE Fallback

(* plan.have and plan.size: the downloaded videos and the recorded sizes.   *)
Eligible(plan, v) == v \in Known \ (plan.have \union rejected \union queued)

Estimate(plan, v) ==
  IF plan.size[v] > 0 THEN plan.size[v] ELSE PlannedDuration(v) * Rate

Fits(plan, v) ==
  Limit > 0 => plan.bytes + Estimate(plan, v)
                 <= (IF Limit > Reserve THEN Limit - Reserve ELSE 0)

PlanAlso(plan, v) ==
  [plan EXCEPT !.queue = @ \union {v}, !.deficit = @ - PlannedDuration(v),
               !.bytes = @ + Estimate(plan, v)]

(* Mutant of PlanVideo: the loop looks at the deficit after it queued.      *)
PlanOneMore(plan, v) ==
  IF /\ plan.deficit >= 0
     /\ Cardinality(plan.queue) < PlanBatch
     /\ Eligible(plan, v)
     /\ Fits(plan, v)
  THEN PlanAlso(plan, v) ELSE plan

(* One turn of the loop over the recommendations.                          *)
PlanVideo(plan, v) ==
  IF /\ plan.deficit > 0
     /\ Cardinality(plan.queue) < PlanBatch
     /\ Eligible(plan, v)
     /\ Fits(plan, v)
  THEN PlanAlso(plan, v) ELSE plan

(* What the planner queues when the videos of D, of sizes sz, are there.    *)
Plan(recs, D, sz) ==
  IF Deficit(D) <= 0 THEN {}
  ELSE FoldLeft(PlanVideo,
                [queue |-> {}, deficit |-> Deficit(D), bytes |-> Total(sz, D),
                 have |-> D, size |-> sz],
                recs).queue

(* The recommender ranks the catalogue in any order.                       *)
Recommendations == {SubSeq(s, 1, Min({Len(s), MaxCandidates})) : s \in SetToSeqs(Known)}
Plans(D, sz) == {Plan(recs, D, sz) : recs \in Recommendations}

-----------------------------------------------------------------------------
(* The storage policy: StoragePolicyManager.enforce_once.                  *)

Lacks(v, S) == IF v \in S THEN 0 ELSE 1

(* Mutant of EvictionKey: the score goes before what users said.            *)
ScoreFirstKey(v) == <<Score[v], Lacks(v, rejected), Lacks(v, disliked), 1 - Lacks(v, liked)>>

EvictionKey(v) ==
  IF ByScore
  THEN <<Lacks(v, rejected), Lacks(v, disliked), 1 - Lacks(v, liked), Score[v]>>
  ELSE <<Lacks(v, rejected), Lacks(v, disliked), Lacks(v, watched), 1 - Lacks(v, liked)>>

KeyBefore(a, b) == \E i \in 1..4 : a[i] < b[i] /\ \A j \in 1..(i - 1) : a[j] = b[j]

(* The place of the row of v in ORDER BY updated_at.                        *)
Place(stamps, v) == CHOOSE i \in DOMAIN stamps : stamps[i] = Row(v)

(* list_storage_candidates takes the least recent rows of those at stamps,  *)
(* the policy sorts them by key and updated_at.                             *)
Candidates(stamps) ==
  {v \in downloaded :
     Cardinality({u \in downloaded \ {v} : Place(stamps, u) < Place(stamps, v)})
       < CandidateLimit}

Sooner(stamps, u, v) ==
  \/ KeyBefore(EvictionKey(u), EvictionKey(v))
  \/ EvictionKey(u) = EvictionKey(v) /\ Place(stamps, u) < Place(stamps, v)

Sorted(stamps, V) ==
  {order \in SetToSeqs(V) :
     \A i, j \in DOMAIN order : i < j => Sooner(stamps, order[i], order[j])}

Exists(v) == path[v] = "file" /\ v \in files

(* _resolve_size_bytes                                                      *)
Freed(v) == IF size[v] > 0 THEN size[v] ELSE IF Exists(v) THEN Size[v] ELSE 0

(* A protected video is passed over, and so is one that unlink refuses.     *)
Spared(v, refused) ==
  \/ ProtectLiked /\ v \in liked
  \/ v \in refused /\ Exists(v)

(* Mutant of Evictable: the policy looks at the first batch only.           *)
EvictableFirst(stamps, refused) ==
  Sorted(stamps,
    {v \in Candidates(stamps) :
       /\ ~Spared(v, refused)
       /\ Cardinality({u \in Candidates(stamps) : Sooner(stamps, u, v)}) < EvictBatch})

Evictable(stamps, refused) ==
  Sorted(stamps, {v \in Candidates(stamps) : ~Spared(v, refused)})

(* The loop evicts up to a batch and as long as the rest is over the limit.  *)
UntilEnough(order) ==
  LET Rest(k) == Total(size, downloaded)
                   - Total([v \in Videos |-> Freed(v)], {order[i] : i \in 1..k})
  IN SubSeq(order, 1, Min({k \in 0..Len(order) :
                             k = EvictBatch \/ k = Len(order) \/ Rest(k) <= Limit}))

(* What a run evicts, in order, for every choice of files unlink refuses.    *)
Evictions(stamps) ==
  IF Limit = 0 THEN {<< >>}
  ELSE {UntilEnough(order) :
          order \in UNION {Evictable(stamps, refused) :
                             refused \in SUBSET (Undeletable \intersect downloaded)}}

(* Mutant of Evict: the rows are cleared and the files stay.                *)
EvictRows(stamps, gone, halfway, lost) ==
  LET V == ToSet(gone)
  IN /\ times' = Written(stamps, Rows(gone))
     /\ downloaded' = downloaded \ V
     /\ path' = [v \in Videos |-> IF v \in V THEN "none" ELSE path[v]]
     /\ size' = [v \in Videos |-> IF v \in V THEN 0 ELSE size[v]]
     /\ files' = files
     /\ torn' = torn \union lost

(* unlink and clear_downloaded_state of the videos gone; of those halfway    *)
(* only the unlink, and lost is what an interruption leaves in disagreement. *)
(* The row of a merged video names a part that is no more: its file stays.   *)
Evict(stamps, gone, halfway, lost) ==
  LET V == ToSet(gone)
  IN /\ times' = Written(stamps, Rows(gone))
     /\ downloaded' = downloaded \ V
     /\ path' = [v \in Videos |-> IF v \in V THEN "none" ELSE path[v]]
     /\ size' = [v \in Videos |-> IF v \in V THEN 0 ELSE size[v]]
     /\ files' = files \ {v \in V \union halfway : path[v] = "file"}
     /\ torn' = (torn \ V) \union lost \union
                   {v \in V : path[v] = "part" \/ arriving[v] # "none"}

Queue(V) == queued' = queued \union V /\ planned' = planned \union V

-----------------------------------------------------------------------------
(* Who runs them.                                                          *)

(* refresh_scores reads the rows by the default profile's opinion of them    *)
(* or, without one, by their own updated_at, latest first, and writes them   *)
(* in that order: what was oldest becomes newest.                           *)
ReadBy == {Opinion(v) : v \in Opined} \union {Row(v) : v \in Known \ Opined}
Refreshed(read) == Written(times, Rows(Reverse([i \in DOMAIN read |-> read[i][2]])))

RefreshScores ==
  /\ \E read \in {Kept(times, ReadBy)} : times' = Refreshed(read)
  /\ UNCHANGED <<catalogue, opinion, queued, disk, counts, planned, torn>>

(* POST /offline/plan and bunker plan-offline.                              *)
PlanOffline ==
  /\ \E more \in Plans(downloaded, size) : Queue(more)
  /\ UNCHANGED <<times, catalogue, opinion, disk, counts, torn>>

(* POST /storage/enforce and bunker storage-enforce.                        *)
EnforceStorage ==
  /\ \E gone \in Evictions(times) : Evict(times, gone, {}, {})
  /\ UNCHANGED <<watched, liked, disliked, rejected, opinion, queued, archive,
                 arriving, counts, planned>>

(* The middle of sync_once: enforce, then plan for what is left.            *)
SyncMaintenance ==
  /\ \E gone \in Evictions(times) : Evict(times, gone, {}, {})
  /\ \E more \in Plans(downloaded', size') : Queue(more)
  /\ UNCHANGED <<watched, liked, disliked, rejected, opinion, archive, arriving, counts>>

(* _run_recommendation_refresh: scores, plan, enforce.                      *)
RecommendationCycle ==
  /\ \E read \in {Kept(times, ReadBy)} : \E stamps \in {Refreshed(read)} :
       \E gone \in Evictions(stamps) : Evict(stamps, gone, {}, {})
  /\ \E more \in Plans(downloaded, size) : Queue(more)
  /\ UNCHANGED <<watched, liked, disliked, rejected, opinion, archive, arriving, counts>>

(* The process dies and comes back: what the download thread had is not     *)
(* entered; its job is recovered.                                          *)
Arrivals == {v \in Videos : arriving[v] # "none"}
Die ==
  /\ crashes < MaxCrashes
  /\ crashes' = crashes + 1
  /\ arriving' = [v \in Videos |-> "none"]
  /\ UNCHANGED <<watched, liked, disliked, rejected, opinion, queued, archive,
                 feedbacks, flaky, planned>>

Crash ==
  /\ Die
  /\ torn' = torn \union Arrivals
  /\ UNCHANGED <<times, downloaded, path, size, files>>

(* It dies between the unlink and the row of a video.                       *)
CrashWhileEvicting ==
  /\ Die
  /\ \E gone \in Evictions(times) : \E k \in DOMAIN gone :
       Evict(times, SubSeq(gone, 1, k - 1), {gone[k]}, Arrivals \union {gone[k]})

Next ==
  \/ \E v \in Videos, queue \in BOOLEAN : Discover(v, queue)
  \/ \E v \in Videos : FetchArtwork(v)
  \/ \E v \in Videos : AddUrl(v)
  \/ \E v \in Local : ScanLocal(v)
  \/ \E p \in Profiles, v \in Videos, c \in BOOLEAN,
        vote \in {<<"keep", "keep">>, <<"yes", "no">>, <<"no", "yes">>} :
       Feedback(p, v, vote[1], vote[2], c)
  \/ \E v \in Videos, flag \in {"yes", "no"} : Reject(v, flag)
  \/ \E v \in Videos, name \in {"file", "part"}, b \in BOOLEAN : Fetch(v, name, b)
  \/ \E v \in Videos : \E bytes \in {0, Size[v]} : FinishJob(v, bytes)
  \/ \E v \in Videos : LeaveJob(v)
  \/ RefreshScores
  \/ PlanOffline
  \/ EnforceStorage
  \/ SyncMaintenance
  \/ RecommendationCycle
  \/ Crash
  \/ CrashWhileEvicting

Spec == Init /\ [][Next]_vars

(* The loop runs a recommendation cycle at every interval.                  *)
FairSpec == Spec /\ WF_vars(RecommendationCycle)

-----------------------------------------------------------------------------
(* Properties.                                                             *)

(* The types of the table, of the profiles, of the disk and of the history. *)
TypeOK ==
  /\ ToSet(times) \subseteq {Row(v) : v \in Videos} \union {Opinion(v) : v \in Known}
  /\ Len(times) = Cardinality(ToSet(times))
  /\ UNION {downloaded, watched, liked, disliked, rejected} \subseteq Known
  /\ path \in [Videos -> Paths]
  /\ size \in [Videos -> Nat]
  /\ opinion \in [Profiles -> [watched : SUBSET Known, liked : SUBSET Known]]
  /\ planned \subseteq queued
  /\ arriving \in [Videos -> Paths]
  /\ UNION {files, archive, torn, queued} \subseteq Videos
  /\ {feedbacks, crashes, flaky} \subseteq Nat

(* The catalogue and the disk agree: what is downloaded has its file, and a  *)
(* file has its row, its download or its watch folder. Exempt are the videos *)
(* whose download or eviction was cut short, and the evicted merged ones.    *)
CatalogueMatchesDisk ==
  /\ downloaded \subseteq files \union torn
  /\ files \subseteq downloaded \union Arrivals \union Local \union torn

(* A run of the planner queues at most a batch, only what it misses (all of *)
(* it but one leaves a deficit) and only what fits next to what is there.   *)
PlannerIsFrugal ==
  [][LET new == planned' \ planned
     IN new # {} =>
          /\ Cardinality(new) <= PlanBatch
          /\ \E last \in new :
               Target - Total(Duration, Unwatched(downloaded')) >
                 Total([v \in Videos |-> PlannedDuration(v)], new \ {last})
          /\ Limit > 0 =>
               Total(size', downloaded') + Total([v \in Videos |-> PlannedDuration(v) * Rate], new)
                 <= Limit - Reserve]_vars

(* A run of the policy evicts at most a batch and nothing that is liked and  *)
(* protected.                                                               *)
EvictsABatch ==
  [][LET gone == downloaded \ downloaded'
     IN /\ Cardinality(gone) <= EvictBatch
        /\ ProtectLiked => gone \intersect liked = {}]_vars

(* watched_oldest keeps a video that is neither rejected, disliked nor       *)
(* watched as long as it could evict one that is, if the query saw it.       *)
WantedVideosLast ==
  [][LET gone == downloaded \ downloaded'
         unwanted == rejected \union disliked \union (IF ByScore THEN {} ELSE watched)
     IN (Cardinality(downloaded) <= CandidateLimit /\ gone \ unwanted # {}) =>
          downloaded' \intersect unwanted
            \subseteq Undeletable \union (IF ProtectLiked THEN liked ELSE {})]_vars

(* What a run of the policy may take from the library (enforce).            *)
EvictionSparesTheWanted == EvictsABatch /\ WantedVideosLast

(* It evicts no more than brings the library under the limit.               *)
EvictsLittle ==
  [][LET gone == downloaded \ downloaded'
     IN gone # {} => \E last \in gone : Total(size, downloaded \ (gone \ {last})) > Limit]_vars

(* A run of planner or policy does no more than hours and limit call for.   *)
RunsAreFrugal == PlannerIsFrugal /\ EvictsLittle

(* The library settles within its limit, whatever planner, feeds and users   *)
(* do, unless all of the rest is protected or cannot be deleted. It holds if *)
(* the policy's query returns every row (CandidateLimit), and only then.     *)
NothingToEvict ==
  downloaded \subseteq Undeletable \union (IF ProtectLiked THEN liked ELSE {})
StorageSettles ==
  <>[](Limit = 0 \/ Total(size, downloaded) <= Limit \/ NothingToEvict)

=============================================================================
