------------------------------- MODULE Profiles -------------------------------
(***************************************************************************)
(* Who sees what in BunkerMedia: the profiles with their rules, the active *)
(* profile that all devices share, what each profile thinks of a video and *)
(* what of it reaches the shared row, and the pages of the devices, which  *)
(* show the answer of some earlier moment.                                 *)
(*                                                                         *)
(* A handler of the server runs without interruption but commits more than *)
(* once: a crash may come between its commits. A request is made from the  *)
(* page a device shows and takes effect in one step; the delay before it   *)
(* is that of the page. The answers to reloads may arrive in any order.    *)
(***************************************************************************)
EXTENDS Naturals, Sequences, FiniteSets, SequencesExt

CONSTANTS
  Default, Kids, Vault,   \* the profiles every database has
  New,                    \* the identifiers of profiles that users create
  Videos, Channels,
  Unknown,                \* the channel of a listing that names none
  HomeChannel,            \* the channel of each video
  Unsafe,                 \* videos whose texts have a word kids are kept from
  Clients,
  MaxActs,                \* bound: requests and listings
  MaxLoads                \* bound: reloads under way, per client

ASSUME ProfilesAssumption ==
  /\ Unknown \notin Channels /\ HomeChannel \in [Videos -> Channels]
  /\ Default \notin Clients /\ {Default, Kids, Vault} \cap New = {}
  /\ MaxActs \in Nat /\ MaxLoads \in Nat

VARIABLES
  profiles,    \* the rules of each profile, or NoProfile
  active,      \* the preference system/active_profile
  taste,       \* the preference each profile has for a channel
  channel, privacy, shared,   \* columns of videos
  rows, own,   \* profile_video_state: the rows there are, and what they say
  todo,        \* what the handler that runs has yet to commit
  page,        \* what each client shows
  loads,       \* reloads of a client that are not answered
  answers,     \* and the answers that have not arrived
  actor,       \* history: whose request took effect last
  disturbed,   \* history: a crash, a listing, a form older than the rules
  hidden,      \* history: profiles and videos of a channel they have hidden
  acts

catalogue == <<channel, privacy>>
opinions == <<taste, shared, rows, own>>
clientVars == <<page, loads, answers>>
vars == <<profiles, active, catalogue, opinions, todo, clientVars, actor, disturbed, hidden, acts>>

Ids == {Default, Kids, Vault} \cup New
Names == Channels \cup {Unknown}
Levels == {"standard", "private", "explicit"}

-----------------------------------------------------------------------------
(* Rules                                                                    *)

NoProfile == [there |-> FALSE, kids |-> FALSE, vault |-> FALSE, pin |-> FALSE,
              allow |-> {}, block |-> {}]

Profile(kids, vault, pin) ==
  [NoProfile EXCEPT !.there = TRUE, !.kids = kids, !.vault = vault, !.pin = pin]

(* Mutant of Blocked: an allowed channel is not hidden.                     *)
BlockedUnlessAllowed(rules, v) == channel[v] \in rules.block \ rules.allow

Blocked(rules, v) == channel[v] \in rules.block

(* _video_allowed_for_profile, and what the recommender leaves out          *)
Allowed(rules, v) ==
  /\ privacy[v] # "standard" => rules.vault
  /\ rules.kids => privacy[v] # "explicit" /\ v \notin Unsafe
  /\ ~Blocked(rules, v)
  /\ rules.allow # {} /\ (rules.kids \/ rules.vault) => channel[v] \in rules.allow

Visible(p, v) == Allowed(profiles[p], v)

-----------------------------------------------------------------------------
(* Opinions                                                                 *)

NoOpinion == [watched |-> FALSE, liked |-> FALSE, disliked |-> FALSE,
              completed |-> FALSE, started |-> FALSE, rejected |-> FALSE]

(* list_videos, get_video and get_recommendation_candidates: without a row  *)
(* of its own the default profile sees the shared one.                      *)
View(p, v) ==
  IF p # Default THEN own[p][v]
  ELSE LET base == IF <<p, v>> \in rows THEN own[p][v]
                   ELSE [NoOpinion EXCEPT !.watched = shared[v].watched,
                           !.liked = shared[v].liked, !.disliked = shared[v].disliked]
       IN [base EXCEPT !.rejected = @ \/ shared[v].rejected]

Init ==
  /\ profiles = [p \in Ids |-> CASE p \in New -> NoProfile
                                 [] OTHER -> Profile(p = Kids, p = Vault, FALSE)]
  /\ active = Default
  /\ taste = [p \in Ids |-> [n \in Names |-> 0]]
  /\ channel = HomeChannel
  /\ privacy = [v \in Videos |-> "standard"]
  /\ shared = [v \in Videos |-> NoOpinion]
  /\ rows = {}
  /\ own = [p \in Ids |-> [v \in Videos |-> NoOpinion]]
  /\ todo = <<>>
  /\ page = [c \in Clients |-> [profile |-> Default, allow |-> {}, block |-> {},
                                cards |-> HomeChannel, late |-> FALSE]]
  /\ loads = [c \in Clients |-> 0]
  /\ answers = [c \in Clients |-> <<>>]
  /\ actor = Default
  /\ disturbed = {}
  /\ hidden = {}
  /\ acts = 0

-----------------------------------------------------------------------------
(* The clients                                                              *)

(* GET /bunku/data/home: who is active, the rules of that profile, and the  *)
(* videos it may see.                                                       *)
Home == [profile |-> active, allow |-> profiles[active].allow,
         block |-> profiles[active].block,
         cards |-> [v \in {w \in Videos : Visible(active, w)} |-> channel[v]],
         late |-> FALSE]

(* Mutant of Reload: the page is left as it was after a request.            *)
NoReload(c) == UNCHANGED loads

(* Every request of the page is followed by loadHome.                       *)
Reload(c) == loads' = [loads EXCEPT ![c] = @ + 1]

(* The event loop runs one handler at a time.                               *)
Idle == todo = <<>> /\ acts < MaxActs

Request(c) ==
  /\ Idle
  /\ loads[c] + Len(answers[c]) < MaxLoads
  /\ Reload(c)
  /\ acts' = acts + 1
  /\ actor' = c
  /\ UNCHANGED answers

Answer(c) ==
  /\ todo = <<>> /\ loads[c] > 0
  /\ loads' = [loads EXCEPT ![c] = @ - 1]
  /\ answers' = [answers EXCEPT ![c] = Append(@, Home)]
  /\ UNCHANGED <<profiles, active, catalogue, opinions, todo, page, actor, disturbed, hidden, acts>>

(* loadHome renders the answers as they arrive.                             *)
Render(c) ==
  \E i \in DOMAIN answers[c] :
    /\ page' = [page EXCEPT ![c] = answers[c][i]]
    /\ answers' = [answers EXCEPT ![c] =
         RemoveAt([j \in DOMAIN @ |-> IF j < i THEN [@[j] EXCEPT !.late = TRUE] ELSE @[j]], i)]
    /\ UNCHANGED <<profiles, active, catalogue, opinions, todo, loads, actor, disturbed, hidden, acts>>

-----------------------------------------------------------------------------
(* Requests about a video                                                   *)

(* The commits that are left of the handler, each a function of the state.  *)
(* By which request, and what the rules were before it.                     *)
SetList(p, by, list, names) ==
  [kind |-> list, by |-> by, p |-> p, names |-> names, was |-> profiles[p]]
SetTaste(p, n, weight) ==
  [kind |-> "taste", by |-> "opinion", p |-> p, n |-> n, weight |-> weight]

(* Mutant of Lists: the blocked channels first.                             *)
BlockFirst(p, by, allow, block) == <<SetList(p, by, "block", block), SetList(p, by, "allow", allow)>>

(* create_profile and update_profile: the allowed channels first.           *)
Lists(p, by, allow, block) == <<SetList(p, by, "allow", allow), SetList(p, by, "block", block)>>

Keeping(said, what, old) == said = what \/ (said \notin {"liked", "disliked"} /\ old)

(* Database.mark_watched: the row of the profile, and what every profile's  *)
(* opinion does to the shared row.                                          *)
OwnRow(old, said) ==
  [watched   |-> old.watched \/ said \in {"completed", "started"},
   liked     |-> Keeping(said, "liked", old.liked),
   disliked  |-> Keeping(said, "disliked", old.disliked),
   completed |-> old.completed \/ said = "completed",
   started   |-> old.started \/ said \in {"completed", "started"},
   rejected  |-> old.rejected]

SharedRow(old, said) ==
  [watched   |-> TRUE,
   liked     |-> Keeping(said, "liked", old.liked),
   disliked  |-> Keeping(said, "disliked", old.disliked),
   completed |-> old.completed, started |-> old.started, rejected |-> old.rejected]

(* Mutant of Taste: the weight goes to the default profile.                 *)
TasteOfDefault(p, v, said) ==
  IF said \in {"liked", "disliked"}
  THEN <<SetTaste(Default, channel[v], IF said = "liked" THEN 1 ELSE 2)>> ELSE <<>>

(* BunkerService.mark_watched: a like or dislike (2) weighs on the channel. *)
Taste(p, v, said) ==
  IF said \in {"liked", "disliked"}
  THEN <<SetTaste(p, channel[v], IF said = "liked" THEN 1 ELSE 2)>> ELSE <<>>

MarkWatched(c, v, said) ==
  /\ Request(c)
  /\ v \in DOMAIN page[c].cards /\ Visible(active, v)
  /\ rows' = rows \cup {<<active, v>>}
  /\ own' = [own EXCEPT ![active][v] = OwnRow(@, said)]
  /\ shared' = [shared EXCEPT ![v] = SharedRow(@, said)]
  /\ todo' = Taste(active, v, said)
  /\ UNCHANGED <<profiles, active, catalogue, taste, page, disturbed, hidden>>

(* Mutant of Leaks: the rejection of any profile reaches the shared row.    *)
AllLeak(p) == TRUE

(* set_profile_video_rejection: only the default profile's is shared.       *)
Leaks(p) == p = Default

RejectVideo(c, v) ==
  /\ Request(c)
  /\ v \in DOMAIN page[c].cards /\ Visible(active, v)
  /\ rows' = rows \cup {<<active, v>>}
  /\ own' = [own EXCEPT ![active][v].rejected = TRUE]
  /\ shared' = [shared EXCEPT ![v].rejected = @ \/ Leaks(active)]
  /\ UNCHANGED <<profiles, active, catalogue, taste, todo, page, disturbed, hidden>>

(* set_video_privacy: for profiles with access to the vault.                *)
SetVideoPrivacy(c, v, level) ==
  /\ Request(c)
  /\ v \in DOMAIN page[c].cards /\ profiles[active].vault
  /\ privacy' = [privacy EXCEPT ![v] = level]
  /\ UNCHANGED <<profiles, active, channel, opinions, todo, page, disturbed, hidden>>

-----------------------------------------------------------------------------
(* Requests about a profile                                                 *)

(* Mutant of Known: any identifier will do.                                 *)
AnyIdentifier(p) == TRUE

(* get_profile                                                              *)
Known(p) == profiles[p].there

(* select_profile: a wrong PIN is refused, and the page reloads all the     *)
(* same.                                                                    *)
SelectProfile(c, p, right) ==
  /\ Request(c)
  /\ Known(p)
  /\ active' = IF profiles[p].pin /\ ~right THEN active ELSE p
  /\ UNCHANGED <<profiles, catalogue, opinions, todo, page, disturbed, hidden>>

CreateProfile(c, p, kids, vault, pin, allow, block) ==
  /\ Request(c)
  /\ ~profiles[p].there
  /\ profiles' = [profiles EXCEPT ![p] = Profile(kids, vault, pin)]
  /\ todo' = Lists(p, "create", allow, block)
  /\ UNCHANGED <<active, catalogue, opinions, page, disturbed, hidden>>

(* The settings form: the lists the page showed, with at most one channel   *)
(* of each added or struck out, and the PIN. A wrong current PIN changes    *)
(* nothing.                                                                 *)
Edits(list) ==
  {list} \cup {list \cup {n} : n \in Channels} \cup {list \ {n} : n \in Channels}

StruckOut(p, names) == {<<p, v>> : v \in {w \in Videos : channel[w] \in names}}

SaveProfileSettings(c, allow, block, pin) ==
  LET p == page[c].profile
  IN /\ Request(c)
     /\ profiles' = [profiles EXCEPT ![p].pin = pin]
     /\ todo' = Lists(p, "form", allow, block)
     /\ hidden' = hidden \ StruckOut(p, page[c].block \ block)
     /\ disturbed' = IF profiles[p].block = page[c].block THEN disturbed
                     ELSE disturbed \cup {"stale form"}
     /\ page' = [page EXCEPT ![c].allow = allow, ![c].block = block]
     /\ UNCHANGED <<active, catalogue, opinions>>

(* PATCH /profiles from outside the page may change the kind of a profile.  *)
UpdateProfile(p, kids, vault, allow) ==
  /\ Idle
  /\ profiles[p].there /\ <<kids, vault>> # <<profiles[p].kids, profiles[p].vault>>
  /\ profiles' = [profiles EXCEPT ![p].kids = kids, ![p].vault = vault]
  /\ todo' = <<SetList(p, "patch", "allow", allow)>>
  /\ acts' = acts + 1
  /\ actor' = Default
  /\ UNCHANGED <<active, catalogue, opinions, clientVars, disturbed, hidden>>

(* block_channel: hide first, then take the channel off the allowed ones,   *)
(* for the profile the page shows, active or not.                           *)
HiddenChannels(p, n) == profiles[p].block \cup {n}

BlockChannel(c, n) ==
  LET p == page[c].profile
  IN /\ Request(c)
     /\ \E v \in DOMAIN page[c].cards : page[c].cards[v] = n
     /\ n \notin page[c].block
     /\ profiles' = [profiles EXCEPT ![p].block = HiddenChannels(p, n)]
     /\ todo' = <<SetList(p, "hide", "allow", profiles[p].allow \ {n})>>
     /\ hidden' = hidden \cup StruckOut(p, {n})
     /\ UNCHANGED <<active, catalogue, opinions, page, disturbed>>

(* The next commit of the handler: replace_preferences or set_preference.   *)
Commit ==
  /\ todo # <<>>
  /\ LET next == Head(todo)
     IN \/ /\ next.kind = "taste"
           /\ taste' = [taste EXCEPT ![next.p][next.n] = next.weight]
           /\ UNCHANGED profiles
        \/ /\ next.kind = "allow"
           /\ profiles' = [profiles EXCEPT ![next.p].allow = next.names]
           /\ UNCHANGED taste
        \/ /\ next.kind = "block"
           /\ profiles' = [profiles EXCEPT ![next.p].block = next.names]
           /\ UNCHANGED taste
  /\ todo' = Tail(todo)
  /\ UNCHANGED <<active, catalogue, shared, rows, own, clientVars, actor, disturbed,
                 hidden, acts>>

-----------------------------------------------------------------------------
(* The rest of the world                                                    *)

(* upsert_video: a flat listing need not name the channel, and then writes  *)
(* that it is unknown. Nothing anyone thinks of the video changes.          *)
Relist(v, n) ==
  /\ Idle
  /\ n \in {HomeChannel[v], Unknown} \ {channel[v]}
  /\ channel' = [channel EXCEPT ![v] = n]
  /\ disturbed' = disturbed \cup {"listing"}
  /\ acts' = acts + 1
  /\ actor' = Default
  /\ UNCHANGED <<profiles, active, privacy, opinions, todo, clientVars, hidden>>

(* The server dies between two commits, and the requests under way fail.    *)
Crash ==
  /\ "crash" \notin disturbed
  /\ todo # <<>> \/ \E c \in Clients : loads[c] > 0
  /\ todo' = <<>>
  /\ loads' = [c \in Clients |-> 0]
  /\ disturbed' = disturbed \cup {"crash"}
  /\ UNCHANGED <<profiles, active, catalogue, opinions, page, answers, actor, hidden, acts>>

VideoRequest(c) ==
  \E v \in Videos :
    \/ \E said \in {"liked", "disliked", "completed", "started"} : MarkWatched(c, v, said)
    \/ RejectVideo(c, v)
    \/ \E level \in Levels : SetVideoPrivacy(c, v, level)

(* The page creates profiles without lists, here with a PIN for the vault;  *)
(* its settings form changes the lists or the PIN.                          *)
ProfileRequest(c) ==
  \/ \E p \in Ids, right \in BOOLEAN : SelectProfile(c, p, right)
  \/ \E p \in New, kids, vault \in BOOLEAN : CreateProfile(c, p, kids, vault, vault, {}, {})
  \/ LET form == page[c]
         pin == profiles[form.profile].pin
     IN \/ \E allow \in Edits(form.allow), block \in Edits(form.block) :
             SaveProfileSettings(c, allow, block, pin)
        \/ SaveProfileSettings(c, form.allow, form.block, ~pin)
  \/ \E n \in Names : BlockChannel(c, n)

Next ==
  \/ \E c \in Clients : VideoRequest(c) \/ ProfileRequest(c) \/ Answer(c) \/ Render(c)
  \/ \E kids, vault \in BOOLEAN, allow \in Edits({}) : UpdateProfile(active, kids, vault, allow)
  \/ Commit
  \/ \E v \in Videos, n \in Names : Relist(v, n)
  \/ Crash

Spec == Init /\ [][Next]_vars

-----------------------------------------------------------------------------
(* Properties                                                               *)

(* The tables keep their shape, a handler writes only about profiles that   *)
(* are there, and one of them is active (get_active_profile never has to    *)
(* fall back).                                                              *)
TypeOK ==
  /\ active \in Ids /\ profiles[active].there
  /\ \A p \in Ids : /\ profiles[p].allow \cup profiles[p].block \subseteq Names
                   /\ ~profiles[p].there => profiles[p] = NoProfile
                   /\ \A n \in Names : taste[p][n] \in 0..2
                   /\ \A v \in Videos : <<p, v>> \in rows \/ own[p][v] = NoOpinion
  /\ \A v \in Videos : channel[v] \in Names /\ privacy[v] \in Levels
  /\ \A i \in DOMAIN todo : profiles[todo[i].p].there
  /\ \A c \in Clients : loads[c] + Len(answers[c]) \in 0..MaxLoads

(* What a profile thinks of a video is its own business: no request of      *)
(* another changes what it sees, except that the default profile sees the   *)
(* shared row of a video it has no opinion of, which a rejection never      *)
(* reaches (Database.mark_watched, set_profile_video_rejection).            *)
OthersKeepTheirView ==
  [][\A p \in Ids, v \in Videos :
       LET before == View(p, v)  after == View(p, v)'
       IN after # before =>
            \/ p = active
            \/ p = Default /\ <<p, v>> \notin rows /\ after.rejected = before.rejected]_vars

(* The shared row, which planner and storage policy go by, says nothing     *)
(* that no profile stands for any longer, misses no watched video, and      *)
(* knows only the default profile's rejections.                             *)
SharedRowHasAWitness ==
  \A v \in Videos :
    /\ shared[v].liked => \E p \in Ids : own[p][v].liked
    /\ shared[v].disliked => \E p \in Ids : own[p][v].disliked
    /\ shared[v].watched <=> \E p \in Ids : own[p][v].watched \/ own[p][v].liked \/ own[p][v].disliked
    /\ shared[v].rejected = own[Default][v].rejected

(* The preference for a channel follows from the last like or dislike the   *)
(* profile gave it, unless the process died between the two commits or a    *)
(* listing moved the video to another channel (BunkerService.mark_watched). *)
TasteHasReason ==
  todo = <<>> /\ disturbed \cap {"crash", "listing"} = {} =>
    \A p \in Ids, n \in Names :
      LET mine == {own[p][v] : v \in {w \in Videos : channel[w] = n}}
      IN /\ taste[p][n] = 1 => \E o \in mine : o.liked
         /\ taste[p][n] = 2 => \E o \in mine : o.disliked

(* What is derived from the opinions of the profiles, the shared row and    *)
(* the preferences for channels, never says more than they do.              *)
OpinionsHaveReason == SharedRowHasAWitness /\ TasteHasReason

(* The handler of such a request is between two commits.                   *)
Running(by) == todo # <<>> /\ Head(todo).by = by

(* A channel that was hidden stays hidden from the profile it was hidden    *)
(* from, through crashes, selections and saved settings, until someone      *)
(* strikes it out. Two things bring it back unasked: settings saved from a  *)
(* page older than the hiding, and a listing that does not name the         *)
(* channel (block_channel, update_profile, upsert_video).                   *)
HiddenStaysHidden ==
  disturbed \cap {"stale form", "listing"} = {} =>
    \A h \in hidden : ~Visible(h[1], h[2])

(* Settings are stored in three commits. Between them, and for good if the  *)
(* process dies there, a profile sees no more than the old or the new       *)
(* settings show, except videos of a channel the form newly hides           *)
(* (update_profile).                                                        *)
PartialRulesShowNoMore ==
  Running("form") =>
    LET p == Head(todo).p
        now == profiles[p]
        Final(list, old) == IF \E i \in DOMAIN todo : todo[i].kind = list
                            THEN todo[CHOOSE i \in DOMAIN todo : todo[i].kind = list].names
                            ELSE old
        new == [now EXCEPT !.allow = Final("allow", @), !.block = Final("block", @)]
        old == Head(todo).was
    IN \A v \in Videos :
         Allowed(now, v) => \/ Allowed(old, v) \/ Allowed(new, v)
                            \/ channel[v] \in new.block \ old.block

(* A page at rest shows the active profile, its rules and its videos, if    *)
(* its own client made the last request, no older answer overtook a newer   *)
(* one and no request failed: nothing else tells a page of a change         *)
(* (loadHome after every request, in any order of arrival).                 *)
QuietPageIsCurrent ==
  \A c \in Clients :
    loads[c] = 0 /\ answers[c] = <<>> /\ actor = c /\ ~page[c].late
      /\ "crash" \notin disturbed => page[c] = Home
=============================================================================
