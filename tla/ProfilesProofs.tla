--------------------------- MODULE ProfilesProofs ---------------------------
(***************************************************************************)
(* Theorems about Profiles, for any profiles, videos, channels, devices:   *)
(* opinions of profiles stay apart, and what is derived from them, the     *)
(* shared row and the preferences for channels, has its reason; a hidden   *)
(* channel stays hidden, half a form shows no more, and a page at rest is  *)
(* current.                                                                *)
(***************************************************************************)
EXTENDS Profiles, TLAPS

(* What is known of an opinion.                                             *)
Opinion == [watched : BOOLEAN, liked : BOOLEAN, disliked : BOOLEAN,
            completed : BOOLEAN, started : BOOLEAN, rejected : BOOLEAN]

Said == {"liked", "disliked", "completed", "started"}
Weights == {1, 2}

Types ==
  /\ active \in Ids
  /\ own \in [Ids -> [Videos -> Opinion]]
  /\ shared \in [Videos -> Opinion]
  /\ taste \in [Ids -> [Names -> 0..2]]
  /\ channel \in [Videos -> Names]

(* The preference of the handler that runs, if it has one to store.         *)
Pending(p, n, w) == todo = <<SetTaste(p, n, w)>>

NonePending == \A p \in Ids, n \in Names, w \in Weights : ~Pending(p, n, w)

(* What a handler has left is nothing, one list or two, or a preference.    *)
IsList(a) == a.kind \in {"allow", "block"}
ListsOnly(left) ==
  \/ left = <<>>
  \/ \E a : left = <<a>> /\ IsList(a)
  \/ \E a, b : left = <<a, b>> /\ IsList(a) /\ IsList(b)
TodoShape ==
  \/ ListsOnly(todo)
  \/ \E p \in Ids, n \in Names, w \in Weights : Pending(p, n, w)

(* A like or dislike of a video of the channel.                             *)
Reason(p, n, w) ==
  \E v \in Videos : /\ channel[v] = n
                    /\ (w = 1 /\ own[p][v].liked) \/ (w = 2 /\ own[p][v].disliked)

Undisturbed == disturbed \cap {"crash", "listing"} = {}

(* TasteHasReason also while a preference is about to be stored: it is the  *)
(* pending one that has a reason then, the stored one may have lost it.     *)
TasteInv ==
  Undisturbed =>
    \A p \in Ids, n \in Names :
      /\ \A w \in Weights : Pending(p, n, w) => Reason(p, n, w)
      /\ (\A w \in Weights : ~Pending(p, n, w)) /\ taste[p][n] \in Weights
           => Reason(p, n, taste[p][n])

Inv == Types /\ TodoShape /\ SharedRowHasAWitness /\ TasteInv

-----------------------------------------------------------------------------
(* What opinions are                                                        *)

LEMMA OwnRowFields ==
  ASSUME NEW old \in Opinion, NEW said \in Said
  PROVE  /\ OwnRow(old, said) \in Opinion
         /\ OwnRow(old, said).liked = Keeping(said, "liked", old.liked)
         /\ OwnRow(old, said).disliked = Keeping(said, "disliked", old.disliked)
         /\ OwnRow(old, said).watched = (old.watched \/ said \in {"completed", "started"})
         /\ OwnRow(old, said).rejected = old.rejected
  BY DEF Opinion, OwnRow, Keeping

LEMMA SharedRowFields ==
  ASSUME NEW old \in Opinion, NEW said \in Said
  PROVE  /\ SharedRow(old, said) \in Opinion
         /\ SharedRow(old, said).liked = Keeping(said, "liked", old.liked)
         /\ SharedRow(old, said).disliked = Keeping(said, "disliked", old.disliked)
         /\ SharedRow(old, said).watched = TRUE
         /\ SharedRow(old, said).rejected = old.rejected
  BY DEF Opinion, SharedRow, Keeping

LEMMA PendingIsOne ==
  ASSUME NEW p, NEW n, NEW w, NEW q, NEW m, NEW x,
         Pending(p, n, w), Pending(q, m, x)
  PROVE  p = q /\ n = m /\ w = x
  BY DEF Pending, SetTaste

-----------------------------------------------------------------------------
(* Requests that state an opinion                                           *)

LEMMA OwnUpdate ==
  ASSUME Types, NEW v \in Videos, NEW o \in Opinion,
         own' = [own EXCEPT ![active][v] = o]
  PROVE  /\ own' \in [Ids -> [Videos -> Opinion]]
         /\ own'[active][v] = o
         /\ \A p \in Ids, u \in Videos : p # active \/ u # v => own'[p][u] = own[p][u]
  BY DEF Types

LEMMA SharedUpdate ==
  ASSUME Types, NEW v \in Videos, NEW o \in Opinion,
         shared' = [shared EXCEPT ![v] = o]
  PROVE  /\ shared' \in [Videos -> Opinion]
         /\ shared'[v] = o
         /\ \A u \in Videos : u # v => shared'[u] = shared[u]
  BY DEF Types

(* What MarkWatched does to the two rows.                                   *)
LEMMA MarkWatchedRows ==
  ASSUME Types, NEW c \in Clients, NEW v \in Videos, NEW said \in Said,
         MarkWatched(c, v, said)
  PROVE  /\ own' \in [Ids -> [Videos -> Opinion]]
         /\ own'[active][v] = OwnRow(own[active][v], said)
         /\ \A p \in Ids, u \in Videos : p # active \/ u # v => own'[p][u] = own[p][u]
         /\ shared' \in [Videos -> Opinion]
         /\ shared'[v] = SharedRow(shared[v], said)
         /\ \A u \in Videos : u # v => shared'[u] = shared[u]
<1>1. own[active][v] \in Opinion /\ shared[v] \in Opinion
  BY DEF Types
<1>2. OwnRow(own[active][v], said) \in Opinion /\ SharedRow(shared[v], said) \in Opinion
  BY <1>1, OwnRowFields, SharedRowFields
<1>3. /\ own' = [own EXCEPT ![active][v] = OwnRow(own[active][v], said)]
      /\ shared' = [shared EXCEPT ![v] = SharedRow(shared[v], said)]
  BY DEF MarkWatched
<1> QED
  BY <1>2, <1>3, OwnUpdate, SharedUpdate

(* What RejectVideo does to them.                                           *)
LEMMA RejectVideoRows ==
  ASSUME Types, NEW c \in Clients, NEW v \in Videos, RejectVideo(c, v)
  PROVE  /\ own' \in [Ids -> [Videos -> Opinion]]
         /\ own'[active][v].rejected = TRUE
         /\ own'[active][v].liked = own[active][v].liked
         /\ own'[active][v].disliked = own[active][v].disliked
         /\ own'[active][v].watched = own[active][v].watched
         /\ \A p \in Ids, u \in Videos : p # active \/ u # v => own'[p][u] = own[p][u]
         /\ shared' \in [Videos -> Opinion]
         /\ shared'[v].rejected = (shared[v].rejected \/ active = Default)
         /\ shared'[v].liked = shared[v].liked
         /\ shared'[v].disliked = shared[v].disliked
         /\ shared'[v].watched = shared[v].watched
         /\ \A u \in Videos : u # v => shared'[u] = shared[u]
<1> DEFINE mine == [own[active][v] EXCEPT !.rejected = TRUE]
          both == [shared[v] EXCEPT !.rejected = shared[v].rejected \/ active = Default]
<1>1. own[active][v] \in Opinion /\ shared[v] \in Opinion
  BY DEF Types
<1>2. /\ mine \in Opinion /\ mine.rejected = TRUE
      /\ mine.liked = own[active][v].liked
      /\ mine.disliked = own[active][v].disliked
      /\ mine.watched = own[active][v].watched
  BY <1>1 DEF Opinion
<1>3. /\ both \in Opinion /\ both.rejected = (shared[v].rejected \/ active = Default)
      /\ both.liked = shared[v].liked
      /\ both.disliked = shared[v].disliked
      /\ both.watched = shared[v].watched
  BY <1>1 DEF Opinion
<1>4. /\ own' = [own EXCEPT ![active][v] = mine]
      /\ shared' = [shared EXCEPT ![v] = both]
  BY DEF RejectVideo, Leaks
<1> HIDE DEF mine, both
<1> QED
  BY <1>2, <1>3, <1>4, OwnUpdate, SharedUpdate

LEMMA ListsAreNotPending ==
  /\ ListsOnly(todo) => NonePending
  /\ ListsOnly(todo') => NonePending'
<1>1. ASSUME NEW left, ListsOnly(left), NEW p, NEW n, NEW w
      PROVE  left # <<SetTaste(p, n, w)>>
  <2>1. SetTaste(p, n, w).kind = "taste"
    BY DEF SetTaste
  <2> QED
    BY <1>1, <2>1 DEF ListsOnly, IsList
<1> QED
  BY <1>1 DEF NonePending, Pending, SetTaste

(* The shared row after a like, a dislike or a started video.               *)
LEMMA MarkWatchedWitness ==
  ASSUME Types, SharedRowHasAWitness,
         NEW c \in Clients, NEW v \in Videos, NEW said \in Said, MarkWatched(c, v, said)
  PROVE  SharedRowHasAWitness'
<1>1. active \in Ids /\ Default \in Ids
  BY DEF Types, Ids
<1>2. own[active][v] \in Opinion /\ shared[v] \in Opinion /\ own[Default][v] \in Opinion
  BY <1>1 DEF Types
<1>3. /\ own'[active][v].liked = Keeping(said, "liked", own[active][v].liked)
      /\ own'[active][v].disliked = Keeping(said, "disliked", own[active][v].disliked)
      /\ own'[active][v].watched = (own[active][v].watched \/ said \in {"completed", "started"})
      /\ own'[active][v].rejected = own[active][v].rejected
  <2>1. own'[active][v] = OwnRow(own[active][v], said)
    BY MarkWatchedRows
  <2> QED
    BY <1>2, <2>1, OwnRowFields
<1>4. /\ shared'[v].liked = Keeping(said, "liked", shared[v].liked)
      /\ shared'[v].disliked = Keeping(said, "disliked", shared[v].disliked)
      /\ shared'[v].watched = TRUE
      /\ shared'[v].rejected = shared[v].rejected
  <2>1. shared'[v] = SharedRow(shared[v], said)
    BY MarkWatchedRows
  <2>2. /\ SharedRow(shared[v], said).liked = Keeping(said, "liked", shared[v].liked)
        /\ SharedRow(shared[v], said).disliked = Keeping(said, "disliked", shared[v].disliked)
        /\ SharedRow(shared[v], said).watched = TRUE
        /\ SharedRow(shared[v], said).rejected = shared[v].rejected
    BY <1>2, SharedRowFields
  <2> QED
    BY <2>1, <2>2
<1>5. \A p \in Ids, u \in Videos : p # active \/ u # v => own'[p][u] = own[p][u]
  BY MarkWatchedRows
<1>6. \A u \in Videos : u # v => shared'[u] = shared[u]
  BY MarkWatchedRows
<1> SUFFICES ASSUME NEW u \in Videos
            PROVE  /\ shared'[u].liked => \E p \in Ids : own'[p][u].liked
                   /\ shared'[u].disliked => \E p \in Ids : own'[p][u].disliked
                   /\ shared'[u].watched <=>
                        \E p \in Ids : own'[p][u].watched \/ own'[p][u].liked \/ own'[p][u].disliked
                   /\ shared'[u].rejected = own'[Default][u].rejected
  BY DEF SharedRowHasAWitness
<1>7. CASE u # v
  BY <1>1, <1>5, <1>6, <1>7 DEF SharedRowHasAWitness
<1>8. CASE u = v
  <2>1. shared'[v].liked => \E p \in Ids : own'[p][v].liked
    <3>1. CASE said = "liked"
      BY <3>1, <1>1, <1>3 DEF Keeping
    <3>2. CASE said # "liked"
      BY <3>2, <1>1, <1>3, <1>4, <1>5 DEF Keeping, SharedRowHasAWitness
    <3> QED BY <3>1, <3>2
  <2>2. shared'[v].disliked => \E p \in Ids : own'[p][v].disliked
    <3>1. CASE said = "disliked"
      BY <3>1, <1>1, <1>3 DEF Keeping
    <3>2. CASE said # "disliked"
      BY <3>2, <1>1, <1>3, <1>4, <1>5 DEF Keeping, SharedRowHasAWitness
    <3> QED BY <3>1, <3>2
  <2>3. own'[active][v].watched \/ own'[active][v].liked \/ own'[active][v].disliked
    BY <1>3 DEF Keeping, Said
  <2>4. shared'[v].rejected = own'[Default][v].rejected
    BY <1>1, <1>3, <1>4, <1>5 DEF SharedRowHasAWitness
  <2> QED
    BY <1>1, <1>4, <1>8, <2>1, <2>2, <2>3, <2>4
<1> QED
  BY <1>7, <1>8

(* The shared row after a rejection.                                        *)
LEMMA RejectVideoWitness ==
  ASSUME Types, SharedRowHasAWitness,
         NEW c \in Clients, NEW v \in Videos, RejectVideo(c, v)
  PROVE  SharedRowHasAWitness'
<1>1. active \in Ids /\ Default \in Ids
  BY DEF Types, Ids
<1>a. /\ own'[active][v].rejected = TRUE
      /\ own'[active][v].liked = own[active][v].liked
      /\ own'[active][v].disliked = own[active][v].disliked
      /\ own'[active][v].watched = own[active][v].watched
      /\ \A p \in Ids, u \in Videos : p # active \/ u # v => own'[p][u] = own[p][u]
  BY RejectVideoRows
<1>b. /\ shared'[v].rejected = (shared[v].rejected \/ active = Default)
      /\ shared'[v].liked = shared[v].liked
      /\ shared'[v].disliked = shared[v].disliked
      /\ shared'[v].watched = shared[v].watched
      /\ \A u \in Videos : u # v => shared'[u] = shared[u]
  BY RejectVideoRows
<1>2. ASSUME NEW p \in Ids, NEW u \in Videos
      PROVE  /\ own'[p][u].liked = own[p][u].liked
             /\ own'[p][u].disliked = own[p][u].disliked
             /\ own'[p][u].watched = own[p][u].watched
  <2>1. CASE p = active /\ u = v
    BY <1>a, <2>1
  <2>2. CASE p # active \/ u # v
    BY <1>a, <2>2
  <2> QED
    BY <2>1, <2>2
<1>3. ASSUME NEW u \in Videos
      PROVE  /\ shared'[u].liked = shared[u].liked
             /\ shared'[u].disliked = shared[u].disliked
             /\ shared'[u].watched = shared[u].watched
  BY <1>b
<1>4. ASSUME NEW u \in Videos PROVE shared'[u].rejected = own'[Default][u].rejected
  <2>1. shared[v] \in Opinion /\ shared[v].rejected \in BOOLEAN
    BY DEF Types, Opinion
  <2>2. CASE u # v
    BY <1>1, <1>a, <1>b, <2>2 DEF SharedRowHasAWitness
  <2>3. CASE u = v /\ active = Default
    BY <1>a, <1>b, <2>3
  <2>4. CASE u = v /\ active # Default
    <3>1. shared'[v].rejected = shared[v].rejected
      BY <1>b, <2>1, <2>4
    <3> QED
      BY <1>1, <1>a, <2>4, <3>1 DEF SharedRowHasAWitness
  <2> QED
    BY <2>2, <2>3, <2>4
<1> QED
  BY <1>1, <1>2, <1>3, <1>4 DEF SharedRowHasAWitness

(* The preference after a like or dislike is pending, with its reason; the  *)
(* reasons of the others stay.                                              *)
LEMMA MarkWatchedTaste ==
  ASSUME Inv, NEW c \in Clients, NEW v \in Videos, NEW said \in Said, MarkWatched(c, v, said)
  PROVE  TodoShape' /\ TasteInv'
<1>0. /\ active \in Ids /\ channel[v] \in Names
      /\ (IF said = "liked" THEN 1 ELSE 2) \in Weights
  BY DEF Inv, Types, Weights
<1> PICK p \in Ids, n \in Names, w \in Weights :
      p = active /\ n = channel[v] /\ w = IF said = "liked" THEN 1 ELSE 2
  BY <1>0
<1>1. /\ todo = <<>> /\ todo' = Taste(p, v, said)
      /\ UNCHANGED <<active, channel, taste, disturbed>>
  BY DEF MarkWatched, Request, Idle, catalogue
<1>2. /\ \A q \in Ids, u \in Videos : q # p \/ u # v => own'[q][u] = own[q][u]
      /\ own'[p][v] = OwnRow(own[p][v], said)
  BY MarkWatchedRows DEF Inv
<1>3. /\ own'[p][v].liked = Keeping(said, "liked", own[p][v].liked)
      /\ own'[p][v].disliked = Keeping(said, "disliked", own[p][v].disliked)
  <2>1. own[p][v] \in Opinion
    BY DEF Inv, Types
  <2> QED
    BY <1>2, <2>1, OwnRowFields
<1>4. NonePending
  BY <1>1, ListsAreNotPending DEF ListsOnly
<1>5. CASE said \in {"liked", "disliked"}
  <2>1. Pending(p, n, w)'
    BY <1>1, <1>5 DEF Taste, Pending
  <2>2. TodoShape'
    BY <1>1, <2>1 DEF TodoShape
  <2>3. Reason(p, n, w)'
    <3>1. channel'[v] = n
      BY <1>1
    <3>2. (w = 1 /\ own'[p][v].liked) \/ (w = 2 /\ own'[p][v].disliked)
      <4>1. CASE said = "liked"
        <5>1. own'[p][v].liked
          BY <1>3, <4>1 DEF Keeping
        <5> QED
          BY <4>1, <5>1
      <4>2. CASE said = "disliked"
        <5>1. own'[p][v].disliked
          BY <1>3, <4>2 DEF Keeping
        <5> QED
          BY <4>2, <5>1
      <4> QED
        BY <1>5, <4>1, <4>2
    <3> QED
      BY <3>1, <3>2 DEF Reason
  <2>4. SUFFICES ASSUME Undisturbed', NEW q \in Ids, NEW m \in Names
        PROVE  /\ \A x \in Weights : Pending(q, m, x)' => Reason(q, m, x)'
               /\ (\A x \in Weights : ~Pending(q, m, x)') /\ taste'[q][m] \in Weights
                    => Reason(q, m, taste[q][m])'
    BY <2>2 DEF TasteInv
  <2>5. ASSUME NEW x \in Weights, Pending(q, m, x)' PROVE Reason(q, m, x)'
    <3>1. q = p /\ m = n /\ x = w
      BY <1>1, <2>1, <2>5, PendingIsOne DEF Pending, SetTaste
    <3> QED
      BY <2>3, <3>1
  <2>6. ASSUME \A x \in Weights : ~Pending(q, m, x)', taste'[q][m] \in Weights
        PROVE  Reason(q, m, taste[q][m])'
    <3>1. q # p \/ m # n
      BY <1>1, <2>1, <2>6
    <3>2. Reason(q, m, taste[q][m])
      BY <1>1, <1>4, <2>4, <2>6 DEF Inv, TasteInv, Undisturbed, NonePending
    <3>3. \A u \in Videos : channel[u] = m => own'[q][u] = own[q][u]
      BY <1>2, <3>1
    <3> QED
      BY <1>1, <3>2, <3>3 DEF Reason
  <2> QED
    BY <2>5, <2>6
<1>6. CASE said \notin {"liked", "disliked"}
  <2>1. todo' = <<>>
    BY <1>1, <1>6 DEF Taste
  <2>2. ListsOnly(todo')
    BY <2>1 DEF ListsOnly
  <2>3. \A q \in Ids, u \in Videos : (own[q][u].liked => own'[q][u].liked)
                                 /\ (own[q][u].disliked => own'[q][u].disliked)
    BY <1>2, <1>3, <1>6 DEF Keeping
  <2>4. TasteInv'
    <3>1. SUFFICES ASSUME Undisturbed', NEW q \in Ids, NEW m \in Names
          PROVE  /\ \A x \in Weights : ~Pending(q, m, x)'
                 /\ taste'[q][m] \in Weights => Reason(q, m, taste[q][m])'
      BY DEF TasteInv
    <3>2. \A x \in Weights : ~Pending(q, m, x)'
      BY <2>1 DEF Pending
    <3>3. ASSUME taste'[q][m] \in Weights PROVE Reason(q, m, taste[q][m])'
      <4>1. Reason(q, m, taste[q][m])
        BY <1>1, <1>4, <3>1, <3>3 DEF Inv, TasteInv, Undisturbed, NonePending
      <4> QED
        BY <1>1, <2>3, <4>1 DEF Reason
    <3> QED
      BY <3>2, <3>3
  <2> QED
    BY <2>2, <2>4 DEF TodoShape
<1> QED
  BY <1>5, <1>6

(* A rejection leaves all preferences and their reasons.                    *)
LEMMA RejectVideoTaste ==
  ASSUME Inv, NEW c \in Clients, NEW v \in Videos, RejectVideo(c, v)
  PROVE  TodoShape' /\ TasteInv'
<1>1. UNCHANGED <<todo, channel, taste, disturbed>> /\ todo = <<>>
  BY DEF RejectVideo, Request, Idle, catalogue
<1>2. /\ \A p \in Ids, u \in Videos : p # active \/ u # v => own'[p][u] = own[p][u]
      /\ own'[active][v].liked = own[active][v].liked
      /\ own'[active][v].disliked = own[active][v].disliked
  BY RejectVideoRows DEF Inv
<1>3. \A p \in Ids, u \in Videos : /\ own'[p][u].liked = own[p][u].liked
                                 /\ own'[p][u].disliked = own[p][u].disliked
  <2> SUFFICES ASSUME NEW p \in Ids, NEW u \in Videos
              PROVE  own'[p][u].liked = own[p][u].liked /\ own'[p][u].disliked = own[p][u].disliked
    OBVIOUS
  <2>1. CASE p = active /\ u = v
    BY <1>2, <2>1
  <2>2. CASE p # active \/ u # v
    BY <1>2, <2>2
  <2> QED
    BY <2>1, <2>2
<1>4. \A p, n, w : Pending(p, n, w)' = Pending(p, n, w)
  BY <1>1 DEF Pending, SetTaste
<1>5. \A p \in Ids, n \in Names, w \in Weights : Reason(p, n, w)' = Reason(p, n, w)
  BY <1>1, <1>3 DEF Reason
<1>6. TodoShape'
  BY <1>1 DEF TodoShape, ListsOnly
<1> QED
  BY <1>1, <1>4, <1>5, <1>6 DEF Inv, TasteInv, Undisturbed

-----------------------------------------------------------------------------
(* All other steps                                                          *)

(* A step that touches no opinion and no preference.                        *)
LEMMA RulesStep ==
  ASSUME Inv, ListsOnly(todo), ListsOnly(todo'), active' \in Ids,
         UNCHANGED <<own, shared, taste, channel>>, disturbed \subseteq disturbed'
  PROVE  Inv'
<1>1. NonePending /\ NonePending'
  BY ListsAreNotPending
<1>2. Types' /\ SharedRowHasAWitness' /\ TodoShape'
  BY DEF Inv, Types, SharedRowHasAWitness, TodoShape
<1>3. TasteInv'
  <2>1. SUFFICES ASSUME Undisturbed', NEW q \in Ids, NEW m \in Names
        PROVE  taste'[q][m] \in Weights => Reason(q, m, taste[q][m])'
    BY <1>1 DEF TasteInv, NonePending
  <2>2. Undisturbed
    BY <2>1 DEF Undisturbed
  <2>3. taste[q][m] \in Weights => Reason(q, m, taste[q][m])
    BY <1>1, <2>1, <2>2 DEF Inv, TasteInv, NonePending
  <2> QED
    BY <2>3 DEF Reason
<1> QED
  BY <1>2, <1>3 DEF Inv

LEMMA FormLists ==
  ASSUME NEW p, NEW by, NEW allow, NEW block
  PROVE  ListsOnly(Lists(p, by, allow, block))
<1>1. IsList(SetList(p, by, "allow", allow)) /\ IsList(SetList(p, by, "block", block))
  BY DEF SetList, IsList
<1> QED
  BY <1>1 DEF Lists, ListsOnly

LEMMA RequestStep ==
  ASSUME Inv, NEW c \in Clients, ProfileRequest(c) \/ \E v \in Videos, level \in Levels : SetVideoPrivacy(c, v, level)
  PROVE  Inv'
<1>1. CASE \E v \in Videos, level \in Levels : SetVideoPrivacy(c, v, level)
  BY <1>1, RulesStep DEF SetVideoPrivacy, Request, Idle, ListsOnly, opinions, Inv, Types
<1>2. CASE \E p \in Ids, right \in BOOLEAN : SelectProfile(c, p, right)
  BY <1>2, RulesStep DEF SelectProfile, Request, Idle, ListsOnly, opinions, catalogue, Inv, Types
<1>3. ASSUME NEW p, NEW kids, NEW vault, NEW pin, CreateProfile(c, p, kids, vault, pin, {}, {})
      PROVE  Inv'
  <2>1. ListsOnly(todo')
    BY <1>3, FormLists DEF CreateProfile
  <2> QED
    BY <1>3, <2>1, RulesStep DEF CreateProfile, Request, Idle, ListsOnly, opinions, catalogue, Inv, Types
<1>4. ASSUME NEW allow, NEW block, NEW pin, SaveProfileSettings(c, allow, block, pin)
      PROVE  Inv'
  <2>1. ListsOnly(todo')
    BY <1>4, FormLists DEF SaveProfileSettings
  <2>2. disturbed \subseteq disturbed'
    BY <1>4 DEF SaveProfileSettings
  <2> QED
    BY <1>4, <2>1, <2>2, RulesStep
    DEF SaveProfileSettings, Request, Idle, ListsOnly, opinions, catalogue, Inv, Types
<1>5. ASSUME NEW n, BlockChannel(c, n) PROVE Inv'
  <2>1. ListsOnly(todo')
    BY <1>5 DEF BlockChannel, SetList, ListsOnly, IsList
  <2> QED
    BY <1>5, <2>1, RulesStep DEF BlockChannel, Request, Idle, ListsOnly, opinions, catalogue, Inv, Types
<1> QED
  BY <1>1, <1>2, <1>3, <1>4, <1>5 DEF ProfileRequest

LEMMA UpdateStep ==
  ASSUME Inv, NEW p, NEW kids, NEW vault, NEW allow, UpdateProfile(p, kids, vault, allow)
  PROVE  Inv'
<1>1. ListsOnly(todo')
  BY DEF UpdateProfile, SetList, ListsOnly, IsList
<1> QED
  BY <1>1, RulesStep DEF UpdateProfile, Idle, ListsOnly, opinions, catalogue, Inv, Types

(* A commit stores the pending preference, or one of the lists.             *)
LEMMA CommitStep ==
  ASSUME Inv, Commit
  PROVE  Inv'
<1>1. UNCHANGED <<active, channel, shared, rows, own, disturbed>> /\ todo' = Tail(todo)
  BY DEF Commit, catalogue
<1>2. CASE ListsOnly(todo)
  <2>1. IsList(Head(todo)) /\ ListsOnly(Tail(todo))
    <3>1. ASSUME NEW a, todo = <<a>>, IsList(a) PROVE IsList(Head(todo)) /\ ListsOnly(Tail(todo))
      <4>1. Head(todo) = a /\ Tail(todo) = <<>>
        BY <3>1
      <4> QED
        BY <3>1, <4>1 DEF ListsOnly
    <3>2. ASSUME NEW a, NEW b, todo = <<a, b>>, IsList(a), IsList(b)
          PROVE  IsList(Head(todo)) /\ ListsOnly(Tail(todo))
      <4>1. Head(todo) = a /\ Tail(todo) = <<b>>
        BY <3>2
      <4> QED
        BY <3>2, <4>1 DEF ListsOnly
    <3>3. todo # <<>>
      BY DEF Commit
    <3> QED
      BY <1>2, <3>1, <3>2, <3>3 DEF ListsOnly
  <2>2. UNCHANGED taste
    BY <2>1 DEF Commit, IsList
  <2> QED
    BY <1>1, <1>2, <2>1, <2>2, RulesStep DEF Inv, Types
<1>3. ASSUME NEW p \in Ids, NEW n \in Names, NEW w \in Weights, Pending(p, n, w)
      PROVE  Inv'
  <2>1. /\ Head(todo) = SetTaste(p, n, w) /\ Tail(todo) = <<>>
        /\ SetTaste(p, n, w).kind = "taste" /\ SetTaste(p, n, w).p = p
        /\ SetTaste(p, n, w).n = n /\ SetTaste(p, n, w).weight = w
    BY <1>3 DEF Pending, SetTaste
  <2>2. taste' = [taste EXCEPT ![p][n] = w]
    BY <2>1 DEF Commit
  <2>3. /\ taste' \in [Ids -> [Names -> 0..2]] /\ taste'[p][n] = w
        /\ \A q \in Ids, m \in Names : q # p \/ m # n => taste'[q][m] = taste[q][m]
    BY <2>2 DEF Inv, Types, Weights
  <2>4. ListsOnly(todo') /\ NonePending'
    BY <1>1, <2>1, ListsAreNotPending DEF ListsOnly
  <2>5. Types' /\ SharedRowHasAWitness' /\ TodoShape'
    BY <1>1, <2>3, <2>4 DEF Inv, Types, SharedRowHasAWitness, TodoShape
  <2>6. TasteInv'
    <3>1. SUFFICES ASSUME Undisturbed', NEW q \in Ids, NEW m \in Names,
                          taste'[q][m] \in Weights
          PROVE  Reason(q, m, taste[q][m])'
      BY <2>4 DEF TasteInv, NonePending
    <3>2. Undisturbed
      BY <1>1, <3>1 DEF Undisturbed
    <3>3. CASE q = p /\ m = n
      <4>1. Reason(p, n, w)
        BY <1>3, <3>2 DEF Inv, TasteInv
      <4> QED
        BY <1>1, <2>3, <3>3, <4>1 DEF Reason
    <3>4. CASE q # p \/ m # n
      <4>1. \A x \in Weights : ~Pending(q, m, x)
        BY <1>3, <3>4, PendingIsOne
      <4>2. Reason(q, m, taste[q][m])
        BY <2>3, <3>1, <3>2, <3>4, <4>1 DEF Inv, TasteInv
      <4> QED
        BY <1>1, <2>3, <3>4, <4>2 DEF Reason
    <3> QED
      BY <3>3, <3>4
  <2> QED
    BY <2>5, <2>6 DEF Inv
<1> QED
  BY <1>2, <1>3 DEF Inv, TodoShape

(* A listing or a crash ends what TasteInv promises.                        *)
LEMMA DisturbanceStep ==
  ASSUME Inv, Crash \/ \E v \in Videos, n \in Names : Relist(v, n)
  PROVE  Inv'
<1>1. CASE Crash
  <2>1. ListsOnly(todo') /\ ~Undisturbed'
    BY <1>1 DEF Crash, ListsOnly, Undisturbed
  <2>2. UNCHANGED <<active, channel, own, shared, taste>>
    BY <1>1 DEF Crash, catalogue, opinions
  <2> QED
    BY <2>1, <2>2 DEF Inv, Types, TodoShape, TasteInv, SharedRowHasAWitness
<1>2. ASSUME NEW v \in Videos, NEW n \in Names, Relist(v, n) PROVE Inv'
  <2>1. ListsOnly(todo') /\ ~Undisturbed'
    BY <1>2 DEF Relist, Idle, ListsOnly, Undisturbed
  <2>2. /\ UNCHANGED <<active, own, shared, taste>>
        /\ channel' = [channel EXCEPT ![v] = n]
    BY <1>2 DEF Relist, opinions
  <2> QED
    BY <2>1, <2>2 DEF Inv, Types, TodoShape, TasteInv, SharedRowHasAWitness
<1> QED
  BY <1>1, <1>2

(* Answers, their rendering and stuttering.                                 *)
LEMMA PageStep ==
  ASSUME Inv, UNCHANGED <<active, channel, own, shared, taste, todo, disturbed>>
  PROVE  Inv'
<1>1. Types' /\ SharedRowHasAWitness'
  BY DEF Inv, Types, SharedRowHasAWitness
<1>2. \A p, n, w : Pending(p, n, w)' = Pending(p, n, w)
  BY DEF Pending, SetTaste
<1>3. TodoShape'
  BY DEF Inv, TodoShape, Pending, SetTaste
<1>4. TasteInv'
  BY <1>2 DEF Inv, TasteInv, Undisturbed, Reason
<1> QED
  BY <1>1, <1>3, <1>4 DEF Inv

LEMMA Inductive ==
  ASSUME Inv, [Next]_vars
  PROVE  Inv'
<1>1. ASSUME NEW c \in Clients, VideoRequest(c) PROVE Inv'
  <2>1. ASSUME NEW v \in Videos, NEW said \in Said, MarkWatched(c, v, said) PROVE Inv'
    <3>1. Types'
      BY <2>1, MarkWatchedRows DEF Inv, Types, MarkWatched, catalogue
    <3> QED
      BY <2>1, <3>1, MarkWatchedWitness, MarkWatchedTaste DEF Inv
  <2>2. ASSUME NEW v \in Videos, RejectVideo(c, v) PROVE Inv'
    <3>1. Types'
      BY <2>2, RejectVideoRows DEF Inv, Types, RejectVideo, catalogue
    <3> QED
      BY <2>2, <3>1, RejectVideoWitness, RejectVideoTaste DEF Inv
  <2> QED
    BY <1>1, <2>1, <2>2, RequestStep DEF VideoRequest, Said
<1>2. ASSUME NEW c \in Clients, ProfileRequest(c) PROVE Inv'
  BY <1>2, RequestStep
<1>3. ASSUME NEW c \in Clients, Answer(c) \/ Render(c) PROVE Inv'
  BY <1>3, PageStep DEF Answer, Render, catalogue, opinions
<1>4. CASE \E kids, vault \in BOOLEAN, allow \in Edits({}) :
             UpdateProfile(active, kids, vault, allow)
  BY <1>4, UpdateStep
<1>5. CASE Commit
  BY <1>5, CommitStep
<1>6. CASE Crash \/ \E v \in Videos, n \in Names : Relist(v, n)
  BY <1>6, DisturbanceStep
<1>7. CASE UNCHANGED vars
  BY <1>7, PageStep DEF vars, catalogue, opinions
<1> QED
  BY <1>1, <1>2, <1>3, <1>4, <1>5, <1>6, <1>7 DEF Next

LEMMA Initially ==
  ASSUME Init
  PROVE  Inv
<1>1. ListsOnly(todo)
  BY DEF Init, ListsOnly
<1>2. NoOpinion \in Opinion
  BY DEF NoOpinion, Opinion
<1>3. Types
  BY <1>2, ProfilesAssumption DEF Init, Types, Ids, Names
<1>4. SharedRowHasAWitness
  BY DEF Init, SharedRowHasAWitness, NoOpinion, Ids
<1>5. TasteInv
  <2>1. NonePending
    BY <1>1, ListsAreNotPending
  <2>2. \A p \in Ids, n \in Names : taste[p][n] \notin Weights
    BY DEF Init, Weights
  <2> QED
    BY <2>1, <2>2 DEF TasteInv, NonePending
<1> QED
  BY <1>1, <1>3, <1>4, <1>5 DEF Inv, TodoShape

-----------------------------------------------------------------------------
(* Theorems                                                                 *)

(* The types, the commits a handler may have left, the witnesses of the     *)
(* shared row and the reasons of preferences, also between two commits      *)
(* (BunkerService.mark_watched).                                            *)
THEOREM Invariance == Spec => []Inv
<1>1. Init => Inv
  BY Initially
<1>2. Inv /\ [Next]_vars => Inv'
  BY Inductive
<1> QED
  BY <1>1, <1>2, PTL DEF Spec

(* The shared row and the preferences say only what some profile, or the    *)
(* profile itself, thinks (mark_watched, set_profile_video_rejection).      *)
THEOREM OpinionsHaveReasonHolds == Spec => []OpinionsHaveReason
<1>1. Inv => OpinionsHaveReason
  <2>1. Inv => SharedRowHasAWitness
    BY DEF Inv
  <2>2. ASSUME Inv, todo = <<>>, Undisturbed, NEW p \in Ids, NEW n \in Names,
               taste[p][n] \in Weights
        PROVE  Reason(p, n, taste[p][n])
    <3>1. NonePending
      BY <2>2, ListsAreNotPending DEF ListsOnly
    <3> QED
      BY <2>2, <3>1 DEF Inv, TasteInv, NonePending
  <2>3. Inv => TasteHasReason
    BY <2>2 DEF TasteHasReason, Undisturbed, Reason, Weights
  <2> QED
    BY <2>1, <2>3 DEF OpinionsHaveReason
<1> QED
  BY <1>1, Invariance, PTL

-----------------------------------------------------------------------------
(* Views                                                                    *)

(* What the default profile sees, from its row, if it has one, and the      *)
(* shared row.                                                              *)
Shown(own_, shared_, has) ==
  LET base == IF has THEN own_
              ELSE [NoOpinion EXCEPT !.watched = shared_.watched,
                      !.liked = shared_.liked, !.disliked = shared_.disliked]
  IN [base EXCEPT !.rejected = @ \/ shared_.rejected]

LEMMA ShownByRow ==
  ASSUME NEW o, NEW s, NEW t, s.rejected = t.rejected
  PROVE  Shown(o, s, TRUE) = Shown(o, t, TRUE)
  BY DEF Shown

LEMMA ShownByShared ==
  ASSUME NEW o, NEW s \in Opinion
  PROVE  Shown(o, s, FALSE).rejected = s.rejected
<1> DEFINE r1 == [NoOpinion EXCEPT !.watched = s.watched]
          r2 == [r1 EXCEPT !.liked = s.liked]
          r3 == [r2 EXCEPT !.disliked = s.disliked]
<1>1. r1 \in Opinion /\ r1.rejected = FALSE
  BY DEF NoOpinion, Opinion
<1> HIDE DEF r1
<1>2. r2 \in Opinion /\ r2.rejected = FALSE
  BY <1>1 DEF Opinion
<1> HIDE DEF r2
<1>3. r3 \in Opinion /\ r3.rejected = FALSE
  BY <1>2 DEF Opinion
<1>4. Shown(o, s, FALSE) = [r3 EXCEPT !.rejected = r3.rejected \/ s.rejected]
  BY DEF Shown, r1, r2
<1> HIDE DEF r3
<1> QED
  BY <1>3, <1>4 DEF Opinion

(* Nothing the default profile sees changes but what its row, or for want   *)
(* of it the shared row, says; a rejection it sees through either.          *)
LEMMA DefaultView ==
  ASSUME NEW v
  PROVE  /\ View(Default, v) = Shown(own[Default][v], shared[v], <<Default, v>> \in rows)
         /\ View(Default, v)' = Shown(own'[Default][v], shared'[v], <<Default, v>> \in rows')
  BY DEF View, Shown

(* What a step must leave alone for a profile to see what it saw.           *)
LEMMA ViewStays ==
  ASSUME Types, Types', NEW p \in Ids, NEW v \in Videos,
         own'[p][v] = own[p][v],
         p = Default => shared'[v].rejected = shared[v].rejected,
         <<p, v>> \in rows' <=> <<p, v>> \in rows,
         View(p, v)' # View(p, v)
  PROVE  /\ p = Default /\ <<p, v>> \notin rows
         /\ View(p, v)'.rejected = View(p, v).rejected
<1>1. p = Default
  BY DEF View
<1>2. /\ View(p, v) = Shown(own[p][v], shared[v], <<p, v>> \in rows)
      /\ View(p, v)' = Shown(own'[p][v], shared'[v], <<p, v>> \in rows')
  BY <1>1, DefaultView
<1>3. shared[v] \in Opinion /\ shared'[v] \in Opinion
  BY DEF Types
<1>4. ASSUME <<p, v>> \in rows PROVE FALSE
  <2>1. (<<p, v>> \in rows) = TRUE /\ (<<p, v>> \in rows') = TRUE
    BY <1>4
  <2>2. /\ View(p, v) = Shown(own[p][v], shared[v], TRUE)
        /\ View(p, v)' = Shown(own[p][v], shared'[v], TRUE)
    BY <1>2, <2>1
  <2>3. Shown(own[p][v], shared'[v], TRUE) = Shown(own[p][v], shared[v], TRUE)
    BY <1>1, ShownByRow
  <2> QED
    BY <2>2, <2>3
<1>5. /\ View(p, v) = Shown(own[p][v], shared[v], FALSE)
      /\ View(p, v)' = Shown(own[p][v], shared'[v], FALSE)
  <2>1. (<<p, v>> \in rows) = FALSE /\ (<<p, v>> \in rows') = FALSE
    BY <1>4
  <2> QED
    BY <1>2, <2>1
<1>6. /\ Shown(own[p][v], shared[v], FALSE).rejected = shared[v].rejected
      /\ Shown(own[p][v], shared'[v], FALSE).rejected = shared'[v].rejected
  BY <1>3, ShownByShared
<1>7. View(p, v)'.rejected = View(p, v).rejected
  BY <1>1, <1>5, <1>6
<1> QED
  BY <1>1, <1>4, <1>7

(* No step of another profile does more than that.                          *)
LeftAlone(p, v) ==
  /\ own'[p][v] = own[p][v]
  /\ p = Default => shared'[v].rejected = shared[v].rejected
  /\ <<p, v>> \in rows' <=> <<p, v>> \in rows

LEMMA ViewStep ==
  ASSUME Inv, [Next]_vars, NEW p \in Ids, NEW v \in Videos, p # active
  PROVE  LeftAlone(p, v)
<1>1. ASSUME NEW c \in Clients, NEW u \in Videos, NEW said \in Said, MarkWatched(c, u, said)
      PROVE  LeftAlone(p, v)
  <2>1. own'[p][v] = own[p][v]
    BY <1>1, MarkWatchedRows DEF Inv
  <2>2. rows' = rows \cup {<<active, u>>}
    BY <1>1 DEF MarkWatched
  <2>3. shared'[u] = SharedRow(shared[u], said) /\ (v # u => shared'[v] = shared[v])
    BY <1>1, MarkWatchedRows DEF Inv
  <2>4. SharedRow(shared[u], said).rejected = shared[u].rejected
    <3>1. shared[u] \in Opinion
      BY DEF Inv, Types
    <3> QED
      BY <3>1, SharedRowFields
  <2>5. shared'[v].rejected = shared[v].rejected
    BY <2>3, <2>4
  <2> QED
    BY <2>1, <2>2, <2>5 DEF LeftAlone
<1>2. ASSUME NEW c \in Clients, NEW u \in Videos, RejectVideo(c, u)
      PROVE  LeftAlone(p, v)
  <2>1. own'[p][v] = own[p][v]
    <3>1. Types
      BY DEF Inv
    <3>2. \A q \in Ids, w \in Videos : q # active \/ w # u => own'[q][w] = own[q][w]
      BY <1>2, <3>1, RejectVideoRows
    <3> QED
      BY <3>2
  <2>2. rows' = rows \cup {<<active, u>>}
    BY <1>2 DEF RejectVideo
  <2>3. /\ shared'[u].rejected = (shared[u].rejected \/ active = Default)
        /\ v # u => shared'[v] = shared[v]
    BY <1>2, RejectVideoRows DEF Inv
  <2>4. shared[u].rejected \in BOOLEAN
    BY DEF Inv, Types, Opinion
  <2>5. p = Default => shared'[v].rejected = shared[v].rejected
    BY <2>3, <2>4
  <2> QED
    BY <2>1, <2>2, <2>5 DEF LeftAlone
<1>3. UNCHANGED <<own, shared, rows>> => LeftAlone(p, v)
  BY DEF LeftAlone
<1>4. ASSUME NEW c \in Clients, VideoRequest(c) PROVE LeftAlone(p, v)
  <2>1. ASSUME NEW u \in Videos, NEW level \in Levels, SetVideoPrivacy(c, u, level)
        PROVE  UNCHANGED <<own, shared, rows>>
    BY <2>1 DEF SetVideoPrivacy, opinions
  <2> QED
    BY <1>1, <1>2, <1>3, <1>4, <2>1 DEF VideoRequest, Said
<1>5. ASSUME NEW c \in Clients, ProfileRequest(c) PROVE UNCHANGED <<own, shared, rows>>
  BY <1>5 DEF ProfileRequest, SelectProfile, CreateProfile, SaveProfileSettings,
              BlockChannel, opinions
<1>6. ASSUME NEW c \in Clients, Answer(c) \/ Render(c) PROVE UNCHANGED <<own, shared, rows>>
  BY <1>6 DEF Answer, Render, opinions
<1>7. CASE \E kids, vault \in BOOLEAN, allow \in Edits({}) :
             UpdateProfile(active, kids, vault, allow)
  BY <1>3, <1>7 DEF UpdateProfile, opinions
<1>8. CASE Commit
  BY <1>3, <1>8 DEF Commit
<1>9. CASE (\E u \in Videos, n \in Names : Relist(u, n)) \/ Crash
  BY <1>3, <1>9 DEF Relist, Crash, opinions
<1>10. CASE UNCHANGED vars
  BY <1>3, <1>10 DEF vars, opinions
<1> QED
  BY <1>3, <1>4, <1>5, <1>6, <1>7, <1>8, <1>9, <1>10 DEF Next

(* What a profile thinks of a video is its own business: no request of      *)
(* another changes what it sees, except that the default profile sees the   *)
(* shared row of a video it has no opinion of (Database.mark_watched,       *)
(* set_profile_video_rejection).                                            *)
THEOREM OthersKeepTheirViewHolds == Spec => OthersKeepTheirView
<1>1. ASSUME Inv, [Next]_vars, NEW p \in Ids, NEW v \in Videos, View(p, v)' # View(p, v)
      PROVE  \/ p = active
             \/ /\ p = Default /\ <<p, v>> \notin rows
                /\ View(p, v)'.rejected = View(p, v).rejected
  <2>1. Types /\ Types'
    BY <1>1, Inductive DEF Inv
  <2>2. p # active => LeftAlone(p, v)
    BY <1>1, ViewStep
  <2> QED
    BY <1>1, <2>1, <2>2, ViewStays DEF LeftAlone
<1>2. Inv /\ [Next]_vars =>
        [\A p \in Ids, v \in Videos :
           LET before == View(p, v)  after == View(p, v)'
           IN after # before =>
                \/ p = active
                \/ p = Default /\ <<p, v>> \notin rows /\ after.rejected = before.rejected]_vars
  BY <1>1
<1> QED
  BY <1>2, Invariance, PTL DEF Spec, OthersKeepTheirView

-----------------------------------------------------------------------------
(* Rules and pages: who is there, what is hidden, and what pages show.      *)

(* What is known of a profile, of a page and of the tables.                 *)
Rules == [there : BOOLEAN, kids : BOOLEAN, vault : BOOLEAN, pin : BOOLEAN,
          allow : SUBSET Names, block : SUBSET Names]
Cards == UNION {[seen -> Names] : seen \in SUBSET Videos}
Pages == [profile : Ids, allow : SUBSET Names, block : SUBSET Names,
          cards : Cards, late : BOOLEAN]

RuleTypes ==
  /\ active \in Ids
  /\ profiles \in [Ids -> Rules]
  /\ privacy \in [Videos -> Levels]
  /\ page \in [Clients -> Pages]
  /\ loads \in [Clients -> Nat]
  /\ answers \in [Clients -> Seq(Pages)]
  /\ hidden \subseteq Ids \X Videos
  /\ \A c \in Clients : loads[c] + Len(answers[c]) <= MaxLoads

(* Whatever names a profile names one that is there, and a list that waits   *)
(* for its commit is one of channels.                                       *)
There(p) == profiles[p].there
OnlyThere ==
  /\ There(active)
  /\ \A p \in Ids : ~There(p) => profiles[p] = NoProfile
  /\ \A c \in Clients : There(page[c].profile)
  /\ \A c \in Clients : \A i \in 1..Len(answers[c]) : There(answers[c][i].profile)
  /\ \A h \in hidden : There(h[1])
  /\ \A i \in 1..Len(todo) : /\ todo[i].p \in Ids /\ There(todo[i].p)
                             /\ IsList(todo[i]) => todo[i].names \subseteq Names

(* A profile without a row has no opinion.                                  *)
SilentWithoutRow == \A p \in Ids, v \in Videos : <<p, v>> \in rows \/ own[p][v] = NoOpinion

(* What is hidden is blocked, and also by the list that waits to replace    *)
(* the blocked channels.                                                    *)
HiddenInv ==
  disturbed \cap {"stale form", "listing"} = {} =>
    \A h \in hidden :
      /\ channel[h[2]] \in profiles[h[1]].block
      /\ \A i \in 1..Len(todo) :
           todo[i].kind = "block" /\ todo[i].p = h[1] => channel[h[2]] \in todo[i].names

(* While a form is being stored, its profile still is of the kind it was,   *)
(* with the old list of blocked channels and, until the first commit, the   *)
(* old list of allowed ones.                                                *)
FormCommit(list, p, names, was) ==
  [kind |-> list, by |-> "form", p |-> p, names |-> names, was |-> was]

FormInv ==
  (\E i \in 1..Len(todo) : todo[i].by = "form") =>
    LET p == Head(todo).p  was == Head(todo).was
    IN /\ was.kids = profiles[p].kids /\ was.vault = profiles[p].vault
       /\ was.block = profiles[p].block
       /\ \/ /\ \E allow, block \in SUBSET Names :
                  todo = <<FormCommit("allow", p, allow, was), FormCommit("block", p, block, was)>>
             /\ was.allow = profiles[p].allow
          \/ \E block \in SUBSET Names : todo = <<FormCommit("block", p, block, was)>>

(* As long as nobody else made a request, a client waits for an answer, or  *)
(* the last of its answers, or with none left its page, is current or has   *)
(* been overtaken.                                                          *)
Fresh(g) == g = Home \/ g.late
LastIsFresh ==
  \A c \in Clients : actor = c /\ "crash" \notin disturbed =>
    \/ loads[c] > 0
    \/ /\ loads[c] = 0 /\ todo = <<>>
       /\ IF answers[c] = <<>> THEN Fresh(page[c]) ELSE Fresh(answers[c][Len(answers[c])])

RulesInv ==
  RuleTypes /\ OnlyThere /\ SilentWithoutRow /\ HiddenInv /\ FormInv /\ LastIsFresh

-----------------------------------------------------------------------------
(* Rules of one profile                                                     *)

LEMMA NoProfileIsRules == NoProfile \in Rules /\ ~NoProfile.there /\ NoProfile.block = {}
  BY DEF NoProfile, Rules

LEMMA PinField ==
  ASSUME NEW r \in Rules, NEW pin \in BOOLEAN
  PROVE  LET s == [r EXCEPT !.pin = pin]
         IN /\ s \in Rules /\ s.there = r.there /\ s.kids = r.kids /\ s.vault = r.vault
            /\ s.allow = r.allow /\ s.block = r.block
  BY DEF Rules

LEMMA KidsField ==
  ASSUME NEW r \in Rules, NEW kids \in BOOLEAN
  PROVE  LET s == [r EXCEPT !.kids = kids]
         IN /\ s \in Rules /\ s.there = r.there
            /\ s.allow = r.allow /\ s.block = r.block
  BY DEF Rules

LEMMA VaultField ==
  ASSUME NEW r \in Rules, NEW vault \in BOOLEAN
  PROVE  LET s == [r EXCEPT !.vault = vault]
         IN /\ s \in Rules /\ s.there = r.there
            /\ s.allow = r.allow /\ s.block = r.block
  BY DEF Rules

LEMMA AllowField ==
  ASSUME NEW r \in Rules, NEW names \in SUBSET Names
  PROVE  LET s == [r EXCEPT !.allow = names]
         IN /\ s \in Rules /\ s.there = r.there /\ s.kids = r.kids /\ s.vault = r.vault
            /\ s.allow = names /\ s.block = r.block
  BY DEF Rules

LEMMA BlockField ==
  ASSUME NEW r \in Rules, NEW names \in SUBSET Names
  PROVE  LET s == [r EXCEPT !.block = names]
         IN /\ s \in Rules /\ s.there = r.there /\ s.kids = r.kids /\ s.vault = r.vault
            /\ s.allow = r.allow /\ s.block = names
  BY DEF Rules

LEMMA NewProfile ==
  ASSUME NEW kids \in BOOLEAN, NEW vault \in BOOLEAN, NEW pin \in BOOLEAN
  PROVE  Profile(kids, vault, pin) \in Rules /\ Profile(kids, vault, pin).there
<1> DEFINE r1 == [NoProfile EXCEPT !.there = TRUE]
          r2 == [r1 EXCEPT !.kids = kids]
          r3 == [r2 EXCEPT !.vault = vault]
<1>1. r1 \in Rules /\ r1.there
  BY NoProfileIsRules DEF Rules
<1> HIDE DEF r1
<1>2. r2 \in Rules /\ r2.there
  BY <1>1, KidsField
<1> HIDE DEF r2
<1>3. r3 \in Rules /\ r3.there
  BY <1>2, VaultField
<1>4. Profile(kids, vault, pin) = [r3 EXCEPT !.pin = pin]
  BY DEF Profile, r1, r2, r3
<1> HIDE DEF r3
<1> QED
  BY <1>3, <1>4, PinField

LEMMA RulesUpdate ==
  ASSUME RuleTypes, NEW p \in Ids, NEW r \in Rules,
         profiles' = [profiles EXCEPT ![p] = r]
  PROVE  /\ profiles' \in [Ids -> Rules] /\ profiles'[p] = r
         /\ \A q \in Ids : q # p => profiles'[q] = profiles[q]
  BY DEF RuleTypes

-----------------------------------------------------------------------------
(* What a step does to the profile it is about, and to no other.            *)

(* No profile goes, and the others stay as they are.                        *)
OnlyAbout(p) ==
  /\ profiles' \in [Ids -> Rules]
  /\ profiles'[p].there
  /\ \A q \in Ids : q # p => profiles'[q] = profiles[q]

LEMMA SettingsRules ==
  ASSUME RuleTypes, OnlyThere, NEW c \in Clients, NEW allow, NEW block, NEW pin \in BOOLEAN,
         SaveProfileSettings(c, allow, block, pin)
  PROVE  LET p == page[c].profile
         IN /\ p \in Ids /\ There(p) /\ OnlyAbout(p)
            /\ profiles'[p].kids = profiles[p].kids /\ profiles'[p].vault = profiles[p].vault
            /\ profiles'[p].allow = profiles[p].allow /\ profiles'[p].block = profiles[p].block
<1> DEFINE p == page[c].profile
          r == [profiles[p] EXCEPT !.pin = pin]
<1>1. p \in Ids /\ profiles[p] \in Rules
  BY DEF RuleTypes, Pages
<1>2. There(p)
  BY DEF OnlyThere
<1>3. profiles' = [profiles EXCEPT ![p] = r]
  BY DEF SaveProfileSettings
<1> HIDE DEF p
<1>4. /\ r \in Rules /\ r.there = profiles[p].there
      /\ r.kids = profiles[p].kids /\ r.vault = profiles[p].vault
      /\ r.allow = profiles[p].allow /\ r.block = profiles[p].block
  BY <1>1, PinField
<1> HIDE DEF r
<1>5. /\ profiles' \in [Ids -> Rules] /\ profiles'[p] = r
      /\ \A q \in Ids : q # p => profiles'[q] = profiles[q]
  BY <1>1, <1>3, <1>4, RulesUpdate
<1>6. OnlyAbout(p)
  BY <1>2, <1>4, <1>5 DEF OnlyAbout, There
<1> QED
  BY <1>1, <1>2, <1>4, <1>5, <1>6 DEF p

LEMMA HidingRules ==
  ASSUME RuleTypes, OnlyThere, NEW c \in Clients, NEW n \in Names, BlockChannel(c, n)
  PROVE  LET p == page[c].profile
         IN /\ p \in Ids /\ There(p) /\ OnlyAbout(p)
            /\ profiles'[p].block = profiles[p].block \cup {n}
            /\ profiles[p].allow \subseteq Names
<1> DEFINE p == page[c].profile
          names == profiles[p].block \cup {n}
          r == [profiles[p] EXCEPT !.block = names]
<1>1. p \in Ids /\ profiles[p] \in Rules
  BY DEF RuleTypes, Pages
<1>2. There(p)
  BY DEF OnlyThere
<1>3. profiles' = [profiles EXCEPT ![p] = r]
  BY DEF BlockChannel, HiddenChannels
<1>4. names \in SUBSET Names /\ profiles[p].allow \subseteq Names
  BY <1>1 DEF Rules
<1> HIDE DEF p, names
<1>5. r \in Rules /\ r.there = profiles[p].there /\ r.block = names
  BY <1>1, <1>4, BlockField
<1> HIDE DEF r
<1>6. /\ profiles' \in [Ids -> Rules] /\ profiles'[p] = r
      /\ \A q \in Ids : q # p => profiles'[q] = profiles[q]
  BY <1>1, <1>3, <1>5, RulesUpdate
<1>7. OnlyAbout(p)
  BY <1>2, <1>5, <1>6 DEF OnlyAbout, There
<1> QED
  BY <1>1, <1>2, <1>4, <1>5, <1>6, <1>7 DEF p, names

LEMMA CreationRules ==
  ASSUME RuleTypes, NEW c \in Clients, NEW p \in Ids, NEW kids \in BOOLEAN, NEW vault \in BOOLEAN,
         NEW pin \in BOOLEAN, CreateProfile(c, p, kids, vault, pin, {}, {})
  PROVE  OnlyAbout(p)
<1>1. Profile(kids, vault, pin) \in Rules /\ Profile(kids, vault, pin).there
  BY NewProfile
<1>2. profiles' = [profiles EXCEPT ![p] = Profile(kids, vault, pin)]
  BY DEF CreateProfile
<1> QED
  BY <1>1, <1>2, RulesUpdate DEF OnlyAbout

LEMMA PatchRules ==
  ASSUME RuleTypes, NEW p \in Ids, NEW kids \in BOOLEAN, NEW vault \in BOOLEAN,
         NEW allow, UpdateProfile(p, kids, vault, allow)
  PROVE  OnlyAbout(p) /\ There(p) /\ profiles'[p].block = profiles[p].block
<1> DEFINE r1 == [profiles[p] EXCEPT !.kids = kids]
          r2 == [r1 EXCEPT !.vault = vault]
<1>1. profiles[p] \in Rules /\ There(p)
  BY DEF RuleTypes, UpdateProfile, There
<1>2. profiles' = [profiles EXCEPT ![p] = r2]
  BY <1>1 DEF UpdateProfile, RuleTypes
<1>3. r1 \in Rules /\ r1.there = profiles[p].there /\ r1.block = profiles[p].block
  BY <1>1, KidsField
<1> HIDE DEF r1
<1>4. r2 \in Rules /\ r2.there = r1.there /\ r2.block = r1.block
  BY <1>3, VaultField
<1> HIDE DEF r2
<1> QED
  BY <1>1, <1>2, <1>3, <1>4, RulesUpdate DEF OnlyAbout, There
-----------------------------------------------------------------------------
(* Requests, answers and pages                                              *)

(* A request is followed by a reload, so its client is not at rest.         *)
LEMMA RequestLoads ==
  ASSUME RuleTypes, NEW c \in Clients, Request(c)
  PROVE  /\ todo = <<>> /\ UNCHANGED answers
         /\ loads' \in [Clients -> Nat]
         /\ \A d \in Clients : loads'[d] + Len(answers'[d]) <= MaxLoads
         /\ LastIsFresh'
<1>1. todo = <<>> /\ UNCHANGED answers /\ actor' = c
  BY DEF Request, Idle
<1>2. loads' = [loads EXCEPT ![c] = loads[c] + 1] /\ loads[c] + Len(answers[c]) < MaxLoads
  BY DEF Request, Reload
<1>3. \A d \in Clients : loads[d] \in Nat /\ Len(answers[d]) \in Nat
  BY DEF RuleTypes
<1>4. loads' \in [Clients -> Nat] /\ loads'[c] = loads[c] + 1
  BY <1>2, <1>3 DEF RuleTypes
<1>5. \A d \in Clients : d # c => loads'[d] = loads[d]
  BY <1>2 DEF RuleTypes
<1>6. ASSUME NEW d \in Clients PROVE loads'[d] + Len(answers'[d]) <= MaxLoads
  <2>1. CASE d = c
    BY <1>1, <1>2, <1>3, <1>4, <2>1, ProfilesAssumption
  <2>2. CASE d # c
    BY <1>1, <1>5, <2>2 DEF RuleTypes
  <2> QED
    BY <2>1, <2>2
<1>7. loads'[c] > 0
  BY <1>3, <1>4
<1>8. LastIsFresh'
  BY <1>1, <1>7 DEF LastIsFresh
<1> QED
  BY <1>1, <1>4, <1>6, <1>8

LEMMA HomeIsPage ==
  ASSUME RuleTypes, Types, OnlyThere
  PROVE  Home \in Pages /\ Home.profile = active /\ ~Home.late
<1> DEFINE seen == {w \in Videos : Visible(active, w)}
          cards == [v \in seen |-> channel[v]]
<1>1. profiles[active] \in Rules /\ active \in Ids
  BY DEF RuleTypes
<1>2. seen \in SUBSET Videos
  OBVIOUS
<1>3. cards \in [seen -> Names]
  BY <1>2 DEF Types
<1> HIDE DEF seen
<1>4. cards \in Cards
  BY <1>2, <1>3 DEF Cards
<1>5. Home = [profile |-> active, allow |-> profiles[active].allow,
              block |-> profiles[active].block, cards |-> cards, late |-> FALSE]
  BY DEF Home, seen
<1> HIDE DEF cards
<1>6. profiles[active].allow \in SUBSET Names /\ profiles[active].block \in SUBSET Names
  BY <1>1 DEF Rules
<1> QED
  BY <1>1, <1>4, <1>5, <1>6 DEF Pages

(* What pages show changes with these alone.                                *)
LEMMA HomeStays ==
  ASSUME UNCHANGED <<active, profiles, channel, privacy>>
  PROVE  Home' = Home
<1>1. \A v : Visible(active, v)' = Visible(active, v)
  BY DEF Visible, Allowed, Blocked
<1> QED
  BY <1>1 DEF Home

LEMMA AnswerPages ==
  ASSUME RuleTypes, Types, OnlyThere, LastIsFresh, NEW c \in Clients, Answer(c)
  PROVE  /\ loads' \in [Clients -> Nat]
         /\ answers' \in [Clients -> Seq(Pages)]
         /\ \A d \in Clients : loads'[d] + Len(answers'[d]) <= MaxLoads
         /\ \A d \in Clients : \A i \in 1..Len(answers'[d]) : There(answers'[d][i].profile)
         /\ LastIsFresh'
<1>1. /\ loads' = [loads EXCEPT ![c] = loads[c] - 1] /\ loads[c] > 0
      /\ answers' = [answers EXCEPT ![c] = Append(answers[c], Home)]
      /\ todo = <<>>
      /\ UNCHANGED <<active, profiles, channel, privacy, todo, page, actor, disturbed>>
  BY DEF Answer, catalogue
<1>2. Home \in Pages /\ Home.profile = active /\ ~Home.late
  BY HomeIsPage
<1>3. \A d \in Clients : loads[d] \in Nat /\ answers[d] \in Seq(Pages)
                         /\ loads[d] + Len(answers[d]) <= MaxLoads
  BY DEF RuleTypes
<1>4. /\ loads' \in [Clients -> Nat] /\ loads'[c] = loads[c] - 1
      /\ \A d \in Clients : d # c => loads'[d] = loads[d]
  BY <1>1, <1>3 DEF RuleTypes
<1>5. /\ Append(answers[c], Home) \in Seq(Pages)
      /\ Len(Append(answers[c], Home)) = Len(answers[c]) + 1
      /\ Append(answers[c], Home)[Len(answers[c]) + 1] = Home
      /\ \A i \in 1..Len(answers[c]) : Append(answers[c], Home)[i] = answers[c][i]
  BY <1>2, <1>3
<1>6. /\ answers' \in [Clients -> Seq(Pages)] /\ answers'[c] = Append(answers[c], Home)
      /\ \A d \in Clients : d # c => answers'[d] = answers[d]
  <2> DEFINE more == Append(answers[c], Home)
  <2>1. more \in Seq(Pages) /\ answers' = [answers EXCEPT ![c] = more]
    BY <1>1, <1>5
  <2> HIDE DEF more
  <2>2. /\ answers' \in [Clients -> Seq(Pages)] /\ answers'[c] = more
        /\ \A d \in Clients : d # c => answers'[d] = answers[d]
    BY <2>1 DEF RuleTypes
  <2> QED
    BY <2>2 DEF more
<1>7. ASSUME NEW d \in Clients PROVE loads'[d] + Len(answers'[d]) <= MaxLoads
  <2>1. CASE d = c
    <3>1. Len(answers'[c]) = Len(answers[c]) + 1
      BY <1>5, <1>6
    <3>2. Len(answers[c]) \in Nat /\ loads[c] \in Nat /\ loads[c] + Len(answers[c]) <= MaxLoads
      BY <1>3
    <3>3. MaxLoads \in Nat
      BY ProfilesAssumption
    <3>4. loads'[c] + Len(answers'[c]) = loads[c] + Len(answers[c])
      BY <1>4, <3>1, <3>2
    <3> QED
      BY <2>1, <3>2, <3>4
  <2>2. CASE d # c
    BY <1>3, <1>4, <1>6, <2>2
  <2> QED
    BY <2>1, <2>2
<1>8. ASSUME NEW d \in Clients, NEW i \in 1..Len(answers'[d])
      PROVE  There(answers'[d][i].profile)
  <2>1. CASE d # c
    BY <1>6, <1>8, <2>1 DEF OnlyThere
  <2>2. CASE d = c /\ i <= Len(answers[c])
    <3>1. i \in 1..Len(answers[c])
      BY <1>3, <1>8, <2>2
    <3>2. answers'[d][i] = answers[c][i]
      BY <1>5, <1>6, <2>2, <3>1
    <3> QED
      BY <3>1, <3>2 DEF OnlyThere
  <2>3. CASE d = c /\ ~(i <= Len(answers[c]))
    <3>1. i = Len(answers[c]) + 1
      BY <1>3, <1>5, <1>6, <1>8, <2>3
    <3>2. answers'[d][i] = Home
      BY <1>5, <1>6, <2>3, <3>1
    <3> QED
      BY <1>2, <3>2 DEF OnlyThere
  <2> QED
    BY <2>1, <2>2, <2>3
<1>9. Home' = Home
  BY <1>1, HomeStays
<1>10. LastIsFresh'
  <2> SUFFICES ASSUME NEW d \in Clients, actor = d, "crash" \notin disturbed
               PROVE  \/ loads'[d] > 0
                      \/ /\ loads'[d] = 0 /\ todo' = <<>>
                         /\ IF answers'[d] = <<>> THEN Fresh(page[d])'
                            ELSE Fresh(answers[d][Len(answers[d])])'
    BY <1>1 DEF LastIsFresh
  <2>1. CASE d # c
    <3>1. loads'[d] = loads[d] /\ answers'[d] = answers[d] /\ page'[d] = page[d]
      BY <1>1, <1>4, <1>6, <2>1
    <3> QED
      BY <1>1, <1>9, <3>1 DEF LastIsFresh, Fresh
  <2>2. CASE d = c
    <3>1. answers'[d] # <<>> /\ Len(answers'[d]) = Len(answers[c]) + 1
      BY <1>3, <1>5, <1>6, <2>2
    <3>2. answers'[d][Len(answers'[d])] = Home
      BY <1>5, <1>6, <2>2, <3>1
    <3>3. Fresh(answers[d][Len(answers[d])])'
      BY <1>9, <3>2 DEF Fresh
    <3>4. loads'[d] > 0 \/ loads'[d] = 0
      BY <1>4, <2>2
    <3> QED
      BY <1>1, <3>1, <3>3, <3>4
  <2> QED
    BY <2>1, <2>2
<1> QED
  BY <1>4, <1>6, <1>7, <1>8, <1>10

(* Which answers are left once one is shown.                                *)
LEMMA Removal ==
  ASSUME NEW S, NEW s \in Seq(S), NEW i \in 1..Len(s)
  PROVE  /\ RemoveAt(s, i) \in Seq(S) /\ Len(RemoveAt(s, i)) = Len(s) - 1
         /\ \A j \in 1..(Len(s) - 1) : RemoveAt(s, i)[j] = IF j < i THEN s[j] ELSE s[j + 1]
<1> DEFINE l == SubSeq(s, 1, i - 1)
          r == SubSeq(s, i + 1, Len(s))
<1>1. l \in Seq(S) /\ Len(l) = i - 1 /\ \A j \in 1..(i - 1) : l[j] = s[j]
  OBVIOUS
<1>2. r \in Seq(S) /\ Len(r) = Len(s) - i /\ \A j \in 1..(Len(s) - i) : r[j] = s[i + j]
  OBVIOUS
<1>3. RemoveAt(s, i) = l \o r
  BY DEF RemoveAt
<1> HIDE DEF l, r
<1>4. l \o r \in Seq(S) /\ Len(l \o r) = Len(s) - 1
  <2>0. l \in Seq(S) /\ r \in Seq(S)
    BY <1>1, <1>2
  <2>1. l \o r \in Seq(S) /\ Len(l \o r) = Len(l) + Len(r)
    BY <2>0
  <2>2. Len(s) \in Nat
    OBVIOUS
  <2>3. (i - 1) + (Len(s) - i) = Len(s) - 1
    BY <2>2
  <2> QED
    BY <1>1, <1>2, <2>1, <2>3
<1>5. ASSUME NEW j \in 1..(Len(s) - 1)
      PROVE  (l \o r)[j] = IF j < i THEN s[j] ELSE s[j + 1]
  <2>1. CASE j < i
    BY <1>1, <1>2, <2>1
  <2>2. CASE ~(j < i)
    <3>1. (l \o r)[j] = r[j - (i - 1)]
      BY <1>1, <1>2, <2>2
    <3>2. j - (i - 1) \in 1..(Len(s) - i) /\ i + (j - (i - 1)) = j + 1
      BY <2>2
    <3> QED
      BY <1>2, <2>2, <3>1, <3>2
  <2> QED
    BY <2>1, <2>2
<1> QED
  BY <1>3, <1>4, <1>5

LEMMA RenderPages ==
  ASSUME RuleTypes, OnlyThere, LastIsFresh, NEW c \in Clients, Render(c)
  PROVE  /\ page' \in [Clients -> Pages]
         /\ answers' \in [Clients -> Seq(Pages)]
         /\ \A d \in Clients : loads'[d] + Len(answers'[d]) <= MaxLoads
         /\ \A d \in Clients : There(page'[d].profile)
         /\ \A d \in Clients : \A i \in 1..Len(answers'[d]) : There(answers'[d][i].profile)
         /\ LastIsFresh'
<1> DEFINE Marked(i) == [j \in DOMAIN answers[c] |->
                           IF j < i THEN [answers[c][j] EXCEPT !.late = TRUE] ELSE answers[c][j]]
<1>1. PICK i \in DOMAIN answers[c] :
        /\ page' = [page EXCEPT ![c] = answers[c][i]]
        /\ answers' = [answers EXCEPT ![c] = RemoveAt(Marked(i), i)]
  BY DEF Render
<1> DEFINE s == answers[c]
          n == Len(s)
<1>2. UNCHANGED <<active, profiles, channel, privacy, todo, loads, actor, disturbed>>
  BY DEF Render, catalogue
<1>3. s \in Seq(Pages) /\ n \in Nat /\ i \in 1..n /\ DOMAIN s = 1..n
  BY DEF RuleTypes
<1>4. \A d \in Clients : loads[d] \in Nat /\ answers[d] \in Seq(Pages)
                         /\ loads[d] + Len(answers[d]) <= MaxLoads
  BY DEF RuleTypes
<1>5. \A j \in 1..n : s[j] \in Pages /\ There(s[j].profile)
  BY <1>3 DEF OnlyThere
<1> DEFINE m == Marked(i)
<1>6. ASSUME NEW j \in 1..n
      PROVE  m[j] \in Pages /\ m[j].profile = s[j].profile
             /\ (j < i => m[j].late) /\ (~(j < i) => m[j] = s[j])
  <2>1. m[j] = IF j < i THEN [s[j] EXCEPT !.late = TRUE] ELSE s[j]
    BY <1>3
  <2>2. s[j] \in Pages
    BY <1>5
  <2> HIDE DEF m, s, n
  <2>3. [s[j] EXCEPT !.late = TRUE] \in Pages
        /\ [s[j] EXCEPT !.late = TRUE].profile = s[j].profile
        /\ [s[j] EXCEPT !.late = TRUE].late
    BY <2>2 DEF Pages
  <2> QED
    BY <2>1, <2>2, <2>3
<1>7. m \in Seq(Pages) /\ Len(m) = n
  <2>1. m = [j \in 1..n |-> m[j]]
    BY <1>3
  <2> HIDE DEF m, s, n
  <2>2. \A j \in 1..n : m[j] \in Pages
    BY <1>6
  <2>3. n \in Nat
    BY <1>3
  <2>4. [j \in 1..n |-> m[j]] \in Seq(Pages) /\ Len([j \in 1..n |-> m[j]]) = n
    BY <2>2, <2>3
  <2> QED
    BY <2>1, <2>4
<1> DEFINE rest == RemoveAt(m, i)
<1>8. /\ rest \in Seq(Pages) /\ Len(rest) = n - 1
      /\ \A j \in 1..(n - 1) : rest[j] = IF j < i THEN m[j] ELSE m[j + 1]
  <2> HIDE DEF m, s, n
  <2>1. i \in 1..Len(m)
    BY <1>3, <1>7
  <2> QED
    BY <1>7, <2>1, Removal
<1>9. /\ page' = [page EXCEPT ![c] = s[i]] /\ s[i] \in Pages /\ There(s[i].profile)
      /\ answers' = [answers EXCEPT ![c] = rest]
  BY <1>1, <1>3, <1>5
<1>10. \A j \in 1..(n - 1) : There(rest[j].profile)
  <2> SUFFICES ASSUME NEW j \in 1..(n - 1) PROVE There(rest[j].profile)
    OBVIOUS
  <2> HIDE DEF m, rest, s, n
  <2>1. CASE j < i
    BY <1>3, <1>5, <1>6, <1>8, <2>1
  <2>2. CASE ~(j < i)
    BY <1>3, <1>5, <1>6, <1>8, <2>2
  <2> QED
    BY <2>1, <2>2
<1>11. n > 1 => (i = n => rest[n - 1].late) /\ (i # n => rest[n - 1] = s[n])
  <2> HIDE DEF m, rest, s, n
  <2> SUFFICES ASSUME n > 1 PROVE (i = n => rest[n - 1].late) /\ (i # n => rest[n - 1] = s[n])
    OBVIOUS
  <2>1. n - 1 \in 1..(n - 1) /\ (n - 1) + 1 = n /\ n - 1 \in 1..n
    BY <1>3
  <2>2. CASE i = n
    BY <1>3, <1>6, <1>8, <2>1, <2>2
  <2>3. CASE i # n
    <3>1. ~(n - 1 < i) /\ ~(n < i) /\ n \in 1..n
      BY <1>3, <2>3
    <3>2. rest[n - 1] = m[n]
      BY <1>8, <2>1, <3>1
    <3> QED
      BY <1>6, <2>3, <3>1, <3>2
  <2> QED
    BY <2>2, <2>3
<1> HIDE DEF m, rest, Marked
<1>12. /\ page' \in [Clients -> Pages] /\ page'[c] = s[i]
       /\ \A d \in Clients : d # c => page'[d] = page[d]
  BY <1>9 DEF RuleTypes
<1>13. /\ answers' \in [Clients -> Seq(Pages)] /\ answers'[c] = rest
       /\ \A d \in Clients : d # c => answers'[d] = answers[d]
  BY <1>8, <1>9 DEF RuleTypes
<1>14. ASSUME NEW d \in Clients
       PROVE  loads'[d] + Len(answers'[d]) <= MaxLoads /\ There(page'[d].profile)
  <2>1. CASE d = c
    BY <1>2, <1>3, <1>4, <1>8, <1>9, <1>12, <1>13, <2>1, ProfilesAssumption
  <2>2. CASE d # c
    BY <1>2, <1>4, <1>12, <1>13, <2>2 DEF OnlyThere
  <2> QED
    BY <2>1, <2>2
<1>15. ASSUME NEW d \in Clients, NEW k \in 1..Len(answers'[d])
       PROVE  There(answers'[d][k].profile)
  <2>1. CASE d = c
    BY <1>8, <1>10, <1>13, <2>1
  <2>2. CASE d # c
    BY <1>13, <2>2 DEF OnlyThere
  <2> QED
    BY <2>1, <2>2
<1>16. Home' = Home
  BY <1>2, HomeStays
<1>17. LastIsFresh'
  <2> SUFFICES ASSUME NEW d \in Clients, actor = d, "crash" \notin disturbed, ~(loads[d] > 0)
               PROVE  /\ loads[d] = 0 /\ todo = <<>>
                      /\ IF answers'[d] = <<>> THEN Fresh(page[d])'
                         ELSE Fresh(answers[d][Len(answers[d])])'
    BY <1>2 DEF LastIsFresh
  <2>1. /\ loads[d] = 0 /\ todo = <<>>
        /\ IF answers[d] = <<>> THEN Fresh(page[d])
           ELSE Fresh(answers[d][Len(answers[d])])
    BY DEF LastIsFresh
  <2>2. CASE d # c
    BY <1>12, <1>13, <1>16, <2>1, <2>2 DEF Fresh
  <2>3. CASE d = c
    <3>1. s # <<>> /\ Fresh(s[n])
      BY <1>3, <2>1, <2>3
    <3>2. CASE n = 1
      <4>1. i = n /\ rest = <<>>
        BY <1>3, <1>8, <3>2
      <4> QED
        BY <1>12, <1>13, <1>16, <2>1, <2>3, <3>1, <4>1 DEF Fresh
    <3>3. CASE n # 1
      <4>1. n > 1 /\ Len(rest) = n - 1 /\ rest # <<>>
        <5> HIDE DEF s, n
        <5>1. n > 1 /\ Len(rest) = n - 1
          BY <1>3, <1>8, <3>3
        <5>2. rest = <<>> => Len(rest) = 0
          OBVIOUS
        <5>3. rest # <<>>
          BY <5>1, <5>2
        <5> QED
          BY <5>1, <5>3
      <4>2. rest[n - 1].late \/ rest[n - 1] = s[n]
        BY <1>11, <4>1
      <4>3. Fresh(rest[n - 1])
        BY <3>1, <4>2 DEF Fresh
      <4> QED
        BY <1>13, <1>16, <2>1, <2>3, <4>1, <4>3 DEF Fresh
    <3> QED
      BY <3>2, <3>3
  <2> QED
    BY <2>2, <2>3
<1> QED
  BY <1>12, <1>13, <1>14, <1>15, <1>17
-----------------------------------------------------------------------------
(* What handlers have left to write                                         *)

LEMMA ListFields ==
  ASSUME NEW p, NEW by, NEW list, NEW names
  PROVE  /\ SetList(p, by, list, names).kind = list /\ SetList(p, by, list, names).by = by
         /\ SetList(p, by, list, names).p = p /\ SetList(p, by, list, names).names = names
         /\ SetList(p, by, list, names).was = profiles[p]
  BY DEF SetList

(* What remains to be written is of this profile, or was there before.      *)
LeftFor(p) ==
  \A i \in 1..Len(todo') :
    /\ todo'[i].p = p \/ \E j \in 1..Len(todo) : todo'[i] = todo[j]
    /\ IsList(todo'[i]) => todo'[i].names \subseteq Names

LEMMA OneLeft ==
  ASSUME NEW a, todo' = <<a>>, NEW p, a.p = p, IsList(a) => a.names \subseteq Names
  PROVE  LeftFor(p) /\ \A i \in 1..Len(todo') : todo'[i] = a
  BY DEF LeftFor

LEMMA TwoLeft ==
  ASSUME NEW a, NEW b, todo' = <<a, b>>, NEW p, a.p = p, b.p = p,
         a.names \subseteq Names, b.names \subseteq Names
  PROVE  LeftFor(p) /\ Head(todo') = a /\ \A i \in 1..Len(todo') : todo'[i] = a \/ todo'[i] = b
<1>1. Len(todo') = 2 /\ todo'[1] = a /\ todo'[2] = b /\ Head(todo') = a
  OBVIOUS
<1>2. \A i \in 1..Len(todo') : todo'[i] = a \/ todo'[i] = b
  <2>1. 1..Len(todo') = {1, 2}
    BY <1>1
  <2> QED
    BY <1>1, <2>1
<1>3. LeftFor(p)
  <2> SUFFICES ASSUME NEW i \in 1..Len(todo')
               PROVE  todo'[i].p = p /\ todo'[i].names \subseteq Names
    BY DEF LeftFor
  <2>1. todo'[i] = a \/ todo'[i] = b
    BY <1>2
  <2> QED
    BY <2>1
<1> QED
  BY <1>1, <1>2, <1>3

LEMMA NothingLeft ==
  ASSUME todo' = <<>>, NEW p
  PROVE  LeftFor(p)
  BY DEF LeftFor

(* Profiles stay, and whatever names one names one that is there.           *)
LEMMA ThereStep ==
  ASSUME RuleTypes, OnlyThere, NEW p \in Ids, OnlyAbout(p), LeftFor(p),
         active' = active \/ active' = p,
         \A d \in Clients : page'[d].profile = page[d].profile,
         UNCHANGED answers,
         \A h \in hidden' : h \in hidden \/ h[1] = p
  PROVE  OnlyThere'
<1>1. ASSUME NEW q \in Ids, There(q) PROVE profiles'[q].there
  BY <1>1 DEF OnlyAbout, There
<1>2. \A q \in Ids : ~profiles'[q].there => profiles'[q] = NoProfile
  BY DEF OnlyAbout, OnlyThere, There
<1>3. profiles'[active'].there
  BY <1>1 DEF RuleTypes, OnlyThere, OnlyAbout
<1>4. \A d \in Clients : page[d].profile \in Ids
  BY DEF RuleTypes, Pages
<1>5. \A d \in Clients : profiles'[page'[d].profile].there
  BY <1>1, <1>4 DEF OnlyThere
<1>6. ASSUME NEW d \in Clients, NEW i \in 1..Len(answers[d])
      PROVE  profiles'[answers[d][i].profile].there
  <2>1. answers[d][i] \in Pages
    BY DEF RuleTypes
  <2>2. answers[d][i].profile \in Ids /\ There(answers[d][i].profile)
    BY <2>1 DEF Pages, OnlyThere
  <2> QED
    BY <1>1, <2>2
<1>7. ASSUME NEW h \in hidden' PROVE profiles'[h[1]].there
  <2>1. CASE h \in hidden
    BY <1>1, <2>1 DEF RuleTypes, OnlyThere
  <2>2. CASE h[1] = p
    BY <2>2 DEF OnlyAbout
  <2> QED
    BY <2>1, <2>2
<1>8. ASSUME NEW i \in 1..Len(todo')
      PROVE  /\ todo'[i].p \in Ids /\ profiles'[todo'[i].p].there
             /\ IsList(todo'[i]) => todo'[i].names \subseteq Names
  <2>1. IsList(todo'[i]) => todo'[i].names \subseteq Names
    BY DEF LeftFor
  <2>2. CASE todo'[i].p = p
    BY <2>1, <2>2 DEF OnlyAbout
  <2>3. CASE \E j \in 1..Len(todo) : todo'[i] = todo[j]
    BY <1>1, <2>1, <2>3 DEF OnlyThere
  <2> QED
    BY <2>2, <2>3 DEF LeftFor
<1> QED
  BY <1>2, <1>3, <1>5, <1>6, <1>7, <1>8 DEF OnlyThere, There

(* A step that neither hides nor shows a channel.                           *)
LEMMA HiddenStays ==
  ASSUME HiddenInv, UNCHANGED <<channel, hidden>>, disturbed \subseteq disturbed',
         \A h \in hidden : profiles'[h[1]].block = profiles[h[1]].block,
         \A i \in 1..Len(todo') : todo'[i].kind = "block" => todo'[i].p \notin {h[1] : h \in hidden}
  PROVE  HiddenInv'
<1>1. disturbed' \cap {"stale form", "listing"} = {} => disturbed \cap {"stale form", "listing"} = {}
  OBVIOUS
<1> QED
  BY <1>1 DEF HiddenInv

(* A step after which no settings are being saved.                          *)
LEMMA NoForm ==
  ASSUME \A i \in 1..Len(todo') : todo'[i].by # "form"
  PROVE  FormInv'
  BY DEF FormInv

-----------------------------------------------------------------------------
(* Requests                                                                 *)

(* A request that leaves the rules of all profiles as they are.             *)
LEMMA PlainRequest ==
  ASSUME RulesInv, NEW c \in Clients, Request(c), NEW p \in Ids, There(p),
         active' = active \/ active' = p,
         UNCHANGED <<profiles, channel, page, hidden, disturbed>>,
         privacy' \in [Videos -> Levels],
         LeftFor(p),
         \A i \in 1..Len(todo') : todo'[i].kind = "taste" /\ todo'[i].by # "form",
         SilentWithoutRow'
  PROVE  RulesInv'
<1> USE DEF RulesInv
<1>1. /\ UNCHANGED answers /\ LastIsFresh'
      /\ loads' \in [Clients -> Nat]
      /\ \A d \in Clients : loads'[d] + Len(answers'[d]) <= MaxLoads
  BY RequestLoads
<1>2. active' \in Ids
  BY DEF RuleTypes
<1>3. RuleTypes'
  BY <1>1, <1>2 DEF RuleTypes
<1>4. OnlyAbout(p)
  BY DEF OnlyAbout, RuleTypes, There
<1>5. OnlyThere'
  BY <1>1, <1>4, ThereStep
<1>6. HiddenInv'
  BY HiddenStays
<1>7. FormInv'
  BY NoForm
<1> QED
  BY <1>1, <1>3, <1>5, <1>6, <1>7

LEMMA SilenceStays ==
  ASSUME SilentWithoutRow, NEW v, rows' = rows \cup {<<active, v>>},
         \A p \in Ids, u \in Videos : p # active \/ u # v => own'[p][u] = own[p][u]
  PROVE  SilentWithoutRow'
  BY DEF SilentWithoutRow

LEMMA VideoRequestRules ==
  ASSUME Inv, RulesInv, NEW c \in Clients, VideoRequest(c)
  PROVE  RulesInv'
<1>1. active \in Ids /\ There(active)
  BY DEF RulesInv, RuleTypes, OnlyThere
<1>2. privacy \in [Videos -> Levels] /\ SilentWithoutRow
  BY DEF RulesInv, RuleTypes
<1>3. ASSUME NEW v \in Videos, NEW said \in Said, MarkWatched(c, v, said) PROVE RulesInv'
  <2>1. /\ Request(c) /\ todo' = Taste(active, v, said) /\ rows' = rows \cup {<<active, v>>}
        /\ UNCHANGED <<active, profiles, channel, privacy, page, hidden, disturbed>>
    BY <1>3 DEF MarkWatched, catalogue
  <2>2. SilentWithoutRow'
    <3>1. \A p \in Ids, u \in Videos : p # active \/ u # v => own'[p][u] = own[p][u]
      BY <1>3, MarkWatchedRows DEF Inv
    <3> QED
      BY <1>2, <2>1, <3>1, SilenceStays
  <2>3. CASE said \in {"liked", "disliked"}
    <3> DEFINE a == SetTaste(active, channel[v], IF said = "liked" THEN 1 ELSE 2)
    <3>1. todo' = <<a>>
      BY <2>1, <2>3 DEF Taste
    <3>2. a.p = active /\ a.kind = "taste" /\ a.by = "opinion" /\ ~IsList(a)
      BY DEF SetTaste, IsList
    <3> HIDE DEF a
    <3>3. LeftFor(active) /\ \A i \in 1..Len(todo') : todo'[i] = a
      BY <3>1, <3>2, OneLeft
    <3>4. \A i \in 1..Len(todo') : todo'[i].kind = "taste" /\ todo'[i].by # "form"
      BY <3>1, <3>2, <3>3
    <3> QED
      BY <1>1, <1>2, <2>1, <2>2, <3>3, <3>4, PlainRequest
  <2>4. CASE said \notin {"liked", "disliked"}
    <3>1. todo' = <<>>
      BY <2>1, <2>4 DEF Taste
    <3>2. LeftFor(active)
      BY <3>1, NothingLeft
    <3>3. \A i \in 1..Len(todo') : todo'[i].kind = "taste" /\ todo'[i].by # "form"
      BY <3>1
    <3> QED
      BY <1>1, <1>2, <2>1, <2>2, <3>1, <3>2, <3>3, PlainRequest
  <2> QED
    BY <2>3, <2>4
<1>4. ASSUME NEW v \in Videos, RejectVideo(c, v) PROVE RulesInv'
  <2>1. /\ Request(c) /\ todo' = <<>> /\ rows' = rows \cup {<<active, v>>}
        /\ UNCHANGED <<active, profiles, channel, privacy, page, hidden, disturbed>>
    BY <1>4 DEF RejectVideo, catalogue, Request, Idle
  <2>2. SilentWithoutRow'
    <3>0. Types
      BY DEF Inv
    <3>1. \A p \in Ids, u \in Videos : p # active \/ u # v => own'[p][u] = own[p][u]
      BY <1>4, <3>0, RejectVideoRows
    <3> QED
      BY <1>2, <2>1, <3>1, SilenceStays
  <2>3. /\ LeftFor(active)
        /\ \A i \in 1..Len(todo') : todo'[i].kind = "taste" /\ todo'[i].by # "form"
    BY <2>1, NothingLeft
  <2> QED
    BY <1>1, <1>2, <2>1, <2>2, <2>3, PlainRequest
<1>5. ASSUME NEW v \in Videos, NEW level \in Levels, SetVideoPrivacy(c, v, level) PROVE RulesInv'
  <2>1. /\ Request(c) /\ todo' = <<>> /\ UNCHANGED <<rows, own>>
        /\ UNCHANGED <<active, profiles, channel, page, hidden, disturbed>>
    BY <1>5 DEF SetVideoPrivacy, opinions, Request, Idle
  <2>2. privacy' \in [Videos -> Levels]
    BY <1>2, <1>5 DEF SetVideoPrivacy
  <2>3. SilentWithoutRow'
    BY <1>2, <2>1 DEF SilentWithoutRow
  <2>4. /\ LeftFor(active)
        /\ \A i \in 1..Len(todo') : todo'[i].kind = "taste" /\ todo'[i].by # "form"
    BY <2>1, NothingLeft
  <2> QED
    BY <1>1, <2>1, <2>2, <2>3, <2>4, PlainRequest
<1> QED
  BY <1>3, <1>4, <1>5 DEF VideoRequest, Said

LEMMA SelectProfileRules ==
  ASSUME RulesInv, NEW c \in Clients, NEW p \in Ids, NEW right, SelectProfile(c, p, right)
  PROVE  RulesInv'
<1>1. /\ Request(c) /\ todo' = <<>> /\ There(p) /\ UNCHANGED <<rows, own>>
      /\ active' = active \/ active' = p
      /\ UNCHANGED <<profiles, channel, privacy, page, hidden, disturbed>>
  BY DEF SelectProfile, Known, There, opinions, catalogue, Request, Idle
<1>2. privacy' \in [Videos -> Levels] /\ SilentWithoutRow'
  BY <1>1 DEF RulesInv, RuleTypes, SilentWithoutRow
<1>3. /\ LeftFor(p)
      /\ \A i \in 1..Len(todo') : todo'[i].kind = "taste" /\ todo'[i].by # "form"
  BY <1>1, NothingLeft
<1> QED
  BY <1>1, <1>2, <1>3, PlainRequest

(* A request about a profile p, from the page of c.                         *)
LEMMA ProfileRequestTypes ==
  ASSUME RulesInv, NEW c \in Clients, Request(c), NEW p \in Ids, OnlyAbout(p), LeftFor(p),
         UNCHANGED <<active, privacy, rows, own>>,
         page' \in [Clients -> Pages],
         \A d \in Clients : page'[d].profile = page[d].profile,
         hidden' \subseteq Ids \X Videos,
         \A h \in hidden' : h \in hidden \/ h[1] = p,
         HiddenInv', FormInv'
  PROVE  RulesInv'
<1>1. /\ UNCHANGED answers /\ LastIsFresh'
      /\ loads' \in [Clients -> Nat]
      /\ \A d \in Clients : loads'[d] + Len(answers'[d]) <= MaxLoads
  BY RequestLoads DEF RulesInv
<1>2. RuleTypes'
  BY <1>1 DEF RulesInv, RuleTypes, OnlyAbout
<1>3. OnlyThere'
  BY <1>1, ThereStep DEF RulesInv
<1>4. SilentWithoutRow'
  BY DEF RulesInv, SilentWithoutRow
<1> QED
  BY <1>1, <1>2, <1>3, <1>4 DEF RulesInv

LEMMA CreateProfileRules ==
  ASSUME RulesInv, NEW c \in Clients, NEW p \in Ids, NEW kids \in BOOLEAN, NEW vault \in BOOLEAN,
         NEW pin \in BOOLEAN, CreateProfile(c, p, kids, vault, pin, {}, {})
  PROVE  RulesInv'
<1> DEFINE a == SetList(p, "create", "allow", {})
          b == SetList(p, "create", "block", {})
<1>1. /\ Request(c) /\ ~There(p)
      /\ UNCHANGED <<active, channel, privacy, rows, own, page, hidden, disturbed>>
      /\ todo' = <<a, b>>
  BY DEF CreateProfile, There, catalogue, opinions, Lists
<1>2. /\ a.p = p /\ b.p = p /\ a.names \subseteq Names /\ b.names \subseteq Names
      /\ a.by = "create" /\ b.by = "create"
  BY ListFields
<1> HIDE DEF a, b
<1>3. LeftFor(p) /\ Head(todo') = a /\ \A i \in 1..Len(todo') : todo'[i] = a \/ todo'[i] = b
  BY <1>1, <1>2, TwoLeft
<1>4. OnlyAbout(p)
  BY CreationRules DEF RulesInv
<1>5. \A h \in hidden : h[1] \in Ids /\ h[1] # p
  BY <1>1 DEF RulesInv, RuleTypes, OnlyThere
<1>6. \A h \in hidden : profiles'[h[1]].block = profiles[h[1]].block
  BY <1>4, <1>5 DEF OnlyAbout
<1>7. \A i \in 1..Len(todo') : todo'[i].kind = "block" => todo'[i].p \notin {h[1] : h \in hidden}
  BY <1>2, <1>3, <1>5
<1>8. HiddenInv'
  BY <1>1, <1>6, <1>7, HiddenStays DEF RulesInv
<1>9. FormInv'
  BY <1>2, <1>3, NoForm
<1>10. /\ page' \in [Clients -> Pages] /\ hidden' \subseteq Ids \X Videos
       /\ \A d \in Clients : page'[d].profile = page[d].profile
       /\ \A h \in hidden' : h \in hidden \/ h[1] = p
  BY <1>1 DEF RulesInv, RuleTypes
<1> QED
  BY <1>1, <1>3, <1>4, <1>8, <1>9, <1>10, ProfileRequestTypes

(* The lists the form was opened with, but for one channel.                 *)
LEMMA EditedNames ==
  ASSUME NEW list \in SUBSET Names, NEW new \in Edits(list)
  PROVE  new \in SUBSET Names
  BY DEF Edits, Names

LEMMA PageUpdate ==
  ASSUME page \in [Clients -> Pages], NEW c \in Clients,
         NEW allow \in SUBSET Names, NEW block \in SUBSET Names,
         page' = [page EXCEPT ![c].allow = allow, ![c].block = block]
  PROVE  /\ page' \in [Clients -> Pages]
         /\ \A d \in Clients : page'[d].profile = page[d].profile
<1> DEFINE g1 == [page[c] EXCEPT !.allow = allow]
          g2 == [g1 EXCEPT !.block = block]
<1>1. page[c] \in Pages
  OBVIOUS
<1>2. g1 \in Pages /\ g1.profile = page[c].profile
  BY <1>1 DEF Pages
<1>3. page' = [page EXCEPT ![c] = g2]
  OBVIOUS
<1> HIDE DEF g1
<1>4. g2 \in Pages /\ g2.profile = g1.profile
  BY <1>2 DEF Pages
<1> HIDE DEF g2
<1> QED
  BY <1>2, <1>3, <1>4

LEMMA PairIsTuple ==
  ASSUME NEW A, NEW B, NEW h, h \in A \X B
  PROVE  h = <<h[1], h[2]>>
  OBVIOUS

LEMMA SettingsStep ==
  ASSUME Inv, RulesInv, NEW c \in Clients, NEW allow \in SUBSET Names, NEW block \in SUBSET Names,
         NEW pin \in BOOLEAN, SaveProfileSettings(c, allow, block, pin)
  PROVE  RulesInv'
<1> DEFINE q == page[c].profile
<1>0. PICK p : p = q
  OBVIOUS
<1>a. PICK was : was = profiles[p]
  OBVIOUS
<1>b. PICK a : a = FormCommit("allow", p, allow, was)
  OBVIOUS
<1>c. PICK b : b = FormCommit("block", p, block, was)
  OBVIOUS
<1>1. /\ Request(c)
      /\ UNCHANGED <<active, channel, privacy, rows, own>>
      /\ hidden' = hidden \ StruckOut(p, page[c].block \ block)
      /\ disturbed' = IF profiles[p].block = page[c].block THEN disturbed
                      ELSE disturbed \cup {"stale form"}
      /\ page' = [page EXCEPT ![c].allow = allow, ![c].block = block]
      /\ todo' = <<SetList(p, "form", "allow", allow), SetList(p, "form", "block", block)>>
  BY <1>0 DEF SaveProfileSettings, catalogue, opinions, Lists
<1>d. hidden' = hidden \ StruckOut(p, page[c].block \ block)
  BY <1>1
<1>2. todo' = <<a, b>>
  <2>1. SetList(p, "form", "allow", allow) = a
    BY <1>a, <1>b DEF SetList, FormCommit
  <2>2. SetList(p, "form", "block", block) = b
    BY <1>a, <1>c DEF SetList, FormCommit
  <2> QED
    BY <1>1, <2>1, <2>2
<1>3. /\ a.p = p /\ b.p = p /\ a.names = allow /\ b.names = block
      /\ a.was = was /\ b.was = was /\ a.kind = "allow" /\ b.kind = "block"
  BY <1>b, <1>c DEF FormCommit
<1>4. LeftFor(p) /\ Head(todo') = a /\ \A i \in 1..Len(todo') : todo'[i] = a \/ todo'[i] = b
  BY <1>2, <1>3, TwoLeft
<1>5. /\ p \in Ids /\ There(p) /\ OnlyAbout(p)
      /\ profiles'[p].kids = was.kids /\ profiles'[p].vault = was.vault
      /\ profiles'[p].allow = was.allow /\ profiles'[p].block = was.block
  BY <1>0, <1>a, SettingsRules DEF RulesInv
<1>6. /\ page' \in [Clients -> Pages]
      /\ \A d \in Clients : page'[d].profile = page[d].profile
  BY <1>1, PageUpdate DEF RulesInv, RuleTypes
<1>7. FormInv'
  <2>1. todo' = <<FormCommit("allow", p, allow, was), FormCommit("block", p, block, was)>>
    BY <1>2, <1>b, <1>c
  <2>2. Head(todo').p = p /\ Head(todo').was = was
    BY <1>3, <1>4
  <2> QED
    BY <1>5, <2>1, <2>2 DEF FormInv
<1>8. HiddenInv'
  <2> SUFFICES ASSUME disturbed' \cap {"stale form", "listing"} = {}, NEW h \in hidden'
               PROVE  /\ channel[h[2]] \in profiles'[h[1]].block
                      /\ \A i \in 1..Len(todo') :
                           todo'[i].kind = "block" /\ todo'[i].p = h[1]
                             => channel[h[2]] \in todo'[i].names
    BY <1>1 DEF HiddenInv
  <2>1. profiles[p].block = page[c].block
    BY <1>1
  <2>2. disturbed \cap {"stale form", "listing"} = {}
    BY <1>1, <2>1
  <2>3. h \in hidden /\ h \in Ids \X Videos
    BY <1>1 DEF RulesInv, RuleTypes
  <2>4. channel[h[2]] \in profiles[h[1]].block
    BY <2>2, <2>3 DEF RulesInv, HiddenInv
  <2>5. channel[h[2]] \in profiles'[h[1]].block
    <3>1. CASE h[1] = p
      BY <1>5, <1>a, <2>4, <3>1
    <3>2. CASE h[1] # p
      BY <1>5, <2>3, <2>4, <3>2 DEF OnlyAbout
    <3> QED
      BY <3>1, <3>2
  <2>6. ASSUME h[1] = p PROVE channel[h[2]] \in block
    <3>0. h \in Ids \X Videos
      BY <2>3
    <3>a. h[2] \in Videos
      BY <3>0
    <3>b. h = <<h[1], h[2]>>
      BY <3>0, PairIsTuple
    <3>1. h = <<p, h[2]>>
      BY <2>6, <3>b
    <3>2. h \notin StruckOut(p, page[c].block \ block)
      BY <1>d
    <3>3. channel[h[2]] \notin page[c].block \ block
      BY <3>a, <3>1, <3>2 DEF StruckOut
    <3>4. channel[h[2]] \in page[c].block
      BY <2>1, <2>4, <2>6
    <3> QED
      BY <3>3, <3>4
  <2>7. ASSUME NEW i \in 1..Len(todo'), todo'[i].kind = "block", todo'[i].p = h[1]
        PROVE  channel[h[2]] \in todo'[i].names
    <3>1. todo'[i] = b
      BY <1>3, <1>4, <2>7
    <3> QED
      BY <1>3, <2>6, <2>7, <3>1
  <2> QED
    BY <2>5, <2>7
<1>9. hidden' \subseteq Ids \X Videos /\ \A h \in hidden' : h \in hidden \/ h[1] = p
  BY <1>1 DEF RulesInv, RuleTypes
<1> QED
  BY <1>1, <1>4, <1>5, <1>6, <1>7, <1>8, <1>9, ProfileRequestTypes

LEMMA BlockChannelRules ==
  ASSUME Inv, RulesInv, NEW c \in Clients, NEW n \in Names, BlockChannel(c, n)
  PROVE  RulesInv'
<1> DEFINE q == page[c].profile
<1>0. PICK p : p = q
  OBVIOUS
<1>a. PICK a : a = SetList(p, "hide", "allow", profiles[p].allow \ {n})
  OBVIOUS
<1>1. /\ Request(c)
      /\ UNCHANGED <<active, channel, privacy, rows, own, page, disturbed>>
      /\ hidden' = hidden \cup StruckOut(p, {n})
      /\ todo' = <<a>>
  BY <1>0, <1>a DEF BlockChannel, catalogue, opinions
<1>2. /\ p \in Ids /\ There(p) /\ OnlyAbout(p)
      /\ profiles'[p].block = profiles[p].block \cup {n}
      /\ profiles[p].allow \subseteq Names
  BY <1>0, HidingRules DEF RulesInv
<1>3. a.p = p /\ a.names = profiles[p].allow \ {n} /\ a.kind = "allow" /\ a.by = "hide"
  BY <1>a, ListFields
<1>4. LeftFor(p) /\ (\A i \in 1..Len(todo') : todo'[i] = a) /\ Head(todo') = a
  BY <1>1, <1>2, <1>3, OneLeft
<1>5. FormInv'
  BY <1>3, <1>4, NoForm
<1>6. \A h \in StruckOut(p, {n}) : h \in Ids \X Videos /\ h[1] = p /\ channel[h[2]] = n
  BY <1>2 DEF StruckOut
<1>7. HiddenInv'
  <2> SUFFICES ASSUME disturbed \cap {"stale form", "listing"} = {}, NEW h \in hidden'
               PROVE  /\ channel[h[2]] \in profiles'[h[1]].block
                      /\ \A i \in 1..Len(todo') : todo'[i].kind # "block"
    BY <1>1 DEF HiddenInv
  <2>1. \A i \in 1..Len(todo') : todo'[i].kind # "block"
    BY <1>3, <1>4
  <2>2. CASE h \in hidden
    <3>1. channel[h[2]] \in profiles[h[1]].block /\ h[1] \in Ids
      BY <2>2 DEF RulesInv, RuleTypes, HiddenInv
    <3>2. CASE h[1] = p
      BY <1>2, <2>1, <3>1, <3>2
    <3>3. CASE h[1] # p
      BY <1>2, <2>1, <3>1, <3>3 DEF OnlyAbout
    <3> QED
      BY <3>2, <3>3
  <2>3. CASE h \in StruckOut(p, {n})
    BY <1>2, <1>6, <2>1, <2>3
  <2> QED
    BY <1>1, <2>2, <2>3
<1>8. hidden' \subseteq Ids \X Videos /\ \A h \in hidden' : h \in hidden \/ h[1] = p
  BY <1>1, <1>6 DEF RulesInv, RuleTypes
<1>9. /\ page' \in [Clients -> Pages]
      /\ \A d \in Clients : page'[d].profile = page[d].profile
  BY <1>1 DEF RulesInv, RuleTypes
<1> QED
  BY <1>1, <1>2, <1>4, <1>5, <1>7, <1>8, <1>9, ProfileRequestTypes

LEMMA ProfileRequestRules ==
  ASSUME Inv, RulesInv, NEW c \in Clients, ProfileRequest(c)
  PROVE  RulesInv'
<1>1. ASSUME NEW p \in Ids, NEW right \in BOOLEAN, SelectProfile(c, p, right) PROVE RulesInv'
  BY <1>1, SelectProfileRules
<1>2. ASSUME NEW p \in New, NEW kids \in BOOLEAN, NEW vault \in BOOLEAN,
             CreateProfile(c, p, kids, vault, vault, {}, {})
      PROVE  RulesInv'
  <2>1. p \in Ids
    BY DEF Ids
  <2> QED
    BY <1>2, <2>1, CreateProfileRules
<1>3. page[c] \in Pages
  BY DEF RulesInv, RuleTypes
<1>4. /\ page[c].allow \in SUBSET Names /\ page[c].block \in SUBSET Names
      /\ page[c].profile \in Ids
  BY <1>3 DEF Pages
<1>5. ASSUME NEW allow \in Edits(page[c].allow), NEW block \in Edits(page[c].block),
             SaveProfileSettings(c, allow, block, profiles[page[c].profile].pin)
      PROVE  RulesInv'
  <2>1. profiles[page[c].profile] \in Rules
    BY <1>4 DEF RulesInv, RuleTypes
  <2>2. profiles[page[c].profile].pin \in BOOLEAN
    BY <2>1 DEF Rules
  <2>3. allow \in SUBSET Names /\ block \in SUBSET Names
    BY <1>4, EditedNames
  <2> QED
    BY <1>5, <2>2, <2>3, SettingsStep
<1>6. ASSUME SaveProfileSettings(c, page[c].allow, page[c].block, ~profiles[page[c].profile].pin)
      PROVE  RulesInv'
  <2>1. (~profiles[page[c].profile].pin) \in BOOLEAN
    OBVIOUS
  <2> QED
    BY <1>4, <1>6, <2>1, SettingsStep
<1>7. ASSUME NEW n \in Names, BlockChannel(c, n) PROVE RulesInv'
  BY <1>7, BlockChannelRules
<1> QED
  BY <1>1, <1>2, <1>5, <1>6, <1>7 DEF ProfileRequest

-----------------------------------------------------------------------------
(* All other steps                                                          *)

(* A request from outside the pages: no page is told.                       *)
LEMMA UpdateProfileRules ==
  ASSUME RulesInv, NEW kids \in BOOLEAN, NEW vault \in BOOLEAN, NEW allow \in Edits({}),
         UpdateProfile(active, kids, vault, allow)
  PROVE  RulesInv'
<1>a. PICK p \in Ids : p = active
  BY DEF RulesInv, RuleTypes
<1>b. PICK a : a = SetList(p, "patch", "allow", allow)
  OBVIOUS
<1>1. /\ UNCHANGED <<active, channel, privacy, rows, own, page, loads, answers, disturbed, hidden>>
      /\ todo' = <<a>> /\ actor' = Default
  BY <1>a, <1>b DEF UpdateProfile, catalogue, opinions, clientVars
<1>2. OnlyAbout(p) /\ There(p) /\ profiles'[p].block = profiles[p].block
  BY <1>a, PatchRules DEF RulesInv
<1>3. a.p = p /\ a.names = allow /\ a.kind = "allow" /\ a.by = "patch"
  BY <1>b, ListFields
<1>4. allow \subseteq Names
  BY EditedNames
<1>5. LeftFor(p) /\ (\A i \in 1..Len(todo') : todo'[i] = a) /\ Head(todo') = a
  BY <1>1, <1>3, <1>4, OneLeft
<1>6. RuleTypes'
  BY <1>1, <1>2 DEF RulesInv, RuleTypes, OnlyAbout
<1>7. OnlyThere'
  BY <1>1, <1>2, <1>5, ThereStep DEF RulesInv
<1>8. HiddenInv'
  <2>1. \A h \in hidden : profiles'[h[1]].block = profiles[h[1]].block
    BY <1>2 DEF RulesInv, RuleTypes, OnlyAbout
  <2>2. \A i \in 1..Len(todo') : todo'[i].kind # "block"
    BY <1>3, <1>5
  <2> QED
    BY <1>1, <2>1, <2>2, HiddenStays DEF RulesInv
<1>9. FormInv'
  BY <1>3, <1>5, NoForm
<1>10. SilentWithoutRow' /\ LastIsFresh'
  BY <1>1, ProfilesAssumption DEF RulesInv, SilentWithoutRow, LastIsFresh
<1> QED
  BY <1>6, <1>7, <1>8, <1>9, <1>10 DEF RulesInv

(* What the commit of a list does to its profile.                           *)
LEMMA CommitOfList ==
  ASSUME RulesInv, ListsOnly(todo), Commit, NEW a, a = Head(todo), NEW p, p = a.p
  PROVE  /\ p \in Ids /\ OnlyAbout(p) /\ IsList(a)
         /\ profiles'[p].kids = profiles[p].kids /\ profiles'[p].vault = profiles[p].vault
         /\ a.kind = "allow" => /\ profiles'[p].allow = a.names
                                /\ profiles'[p].block = profiles[p].block
         /\ a.kind = "block" => /\ profiles'[p].block = a.names
                                /\ profiles'[p].allow = profiles[p].allow
         /\ \/ todo = <<a>> /\ todo' = <<>>
            \/ \E b : todo = <<a, b>> /\ todo' = <<b>> /\ IsList(b)
<1>1. /\ IsList(a) /\ Len(todo) \in Nat /\ Len(todo) >= 1 /\ todo[1] = a
      /\ \/ todo = <<a>> /\ todo' = <<>>
         \/ \E b : todo = <<a, b>> /\ todo' = <<b>> /\ IsList(b)
  <2>0. todo # <<>> /\ todo' = Tail(todo)
    BY DEF Commit
  <2>1. CASE \E x : todo = <<x>> /\ IsList(x)
    BY <2>0, <2>1
  <2>2. CASE \E x, y : todo = <<x, y>> /\ IsList(x) /\ IsList(y)
    <3>1. PICK x, y : todo = <<x, y>> /\ IsList(x) /\ IsList(y)
      BY <2>2
    <3>2. Head(todo) = x /\ Tail(todo) = <<y>> /\ Len(todo) = 2 /\ todo[1] = x
      BY <3>1
    <3> QED
      BY <2>0, <3>1, <3>2
  <2> QED
    BY <2>0, <2>1, <2>2 DEF ListsOnly
<1>2. p \in Ids /\ There(p) /\ a.names \in SUBSET Names
  <2>1. 1 \in 1..Len(todo)
    BY <1>1
  <2> QED
    BY <1>1, <2>1 DEF RulesInv, OnlyThere
<1>3. profiles[p] \in Rules
  BY <1>2 DEF RulesInv, RuleTypes
<1>4. CASE a.kind = "allow"
  <2> DEFINE r == [profiles[p] EXCEPT !.allow = a.names]
  <2>1. profiles' = [profiles EXCEPT ![p] = r]
    BY <1>4 DEF Commit
  <2>2. /\ r \in Rules /\ r.there = profiles[p].there /\ r.kids = profiles[p].kids
        /\ r.vault = profiles[p].vault /\ r.allow = a.names /\ r.block = profiles[p].block
    BY <1>2, <1>3, AllowField
  <2> HIDE DEF r
  <2>3. /\ profiles' \in [Ids -> Rules] /\ profiles'[p] = r
        /\ \A q \in Ids : q # p => profiles'[q] = profiles[q]
    BY <1>2, <2>1, <2>2, RulesUpdate DEF RulesInv
  <2>4. OnlyAbout(p)
    BY <1>2, <2>2, <2>3 DEF OnlyAbout, There
  <2> QED
    BY <1>1, <1>2, <1>4, <2>2, <2>3, <2>4
<1>5. CASE a.kind = "block"
  <2> DEFINE r == [profiles[p] EXCEPT !.block = a.names]
  <2>1. profiles' = [profiles EXCEPT ![p] = r]
    BY <1>5 DEF Commit
  <2>2. /\ r \in Rules /\ r.there = profiles[p].there /\ r.kids = profiles[p].kids
        /\ r.vault = profiles[p].vault /\ r.block = a.names /\ r.allow = profiles[p].allow
    BY <1>2, <1>3, BlockField
  <2> HIDE DEF r
  <2>3. /\ profiles' \in [Ids -> Rules] /\ profiles'[p] = r
        /\ \A q \in Ids : q # p => profiles'[q] = profiles[q]
    BY <1>2, <2>1, <2>2, RulesUpdate DEF RulesInv
  <2>4. OnlyAbout(p)
    BY <1>2, <2>2, <2>3 DEF OnlyAbout, There
  <2> QED
    BY <1>1, <1>2, <1>5, <2>2, <2>3, <2>4
<1> QED
  BY <1>1, <1>4, <1>5 DEF IsList

(* A commit: the preference of an opinion, or a list.                       *)
LEMMA CommitRules ==
  ASSUME Inv, RulesInv, Commit
  PROVE  RulesInv'
<1>1. /\ UNCHANGED <<active, channel, privacy, rows, own, page, loads, answers, actor,
                     disturbed, hidden>>
      /\ todo # <<>>
  BY DEF Commit, catalogue, clientVars
<1>2. SilentWithoutRow'
  BY <1>1 DEF RulesInv, SilentWithoutRow
<1>3. LastIsFresh'
  BY <1>1 DEF RulesInv, LastIsFresh
<1>4. ASSUME NEW p \in Ids, NEW n \in Names, NEW w \in Weights, Pending(p, n, w)
      PROVE  RulesInv'
  <2>1. Head(todo).kind = "taste" /\ Tail(todo) = <<>> /\ Head(todo).p = p /\ Len(todo) = 1
    BY <1>4 DEF Pending, SetTaste
  <2>2. UNCHANGED profiles /\ todo' = <<>>
    BY <2>1 DEF Commit
  <2>3. RuleTypes' /\ OnlyThere'
    BY <1>1, <2>2 DEF RulesInv, RuleTypes, OnlyThere, There
  <2>a. \A i \in 1..Len(todo') : todo'[i].by # "form" /\ todo'[i].kind # "block"
    BY <2>2
  <2>b. \A h \in hidden : profiles'[h[1]].block = profiles[h[1]].block
    BY <2>2
  <2>4. HiddenInv' /\ FormInv'
    BY <1>1, <2>a, <2>b, HiddenStays, NoForm DEF RulesInv
  <2> QED
    BY <1>2, <1>3, <2>3, <2>4 DEF RulesInv
<1>5. CASE ListsOnly(todo)
  <2>a. PICK a : a = Head(todo)
    OBVIOUS
  <2>b. PICK p : p = a.p
    OBVIOUS
  <2>1. /\ p \in Ids /\ OnlyAbout(p) /\ IsList(a)
        /\ profiles'[p].kids = profiles[p].kids /\ profiles'[p].vault = profiles[p].vault
        /\ a.kind = "allow" => /\ profiles'[p].allow = a.names
                               /\ profiles'[p].block = profiles[p].block
        /\ a.kind = "block" => /\ profiles'[p].block = a.names
                               /\ profiles'[p].allow = profiles[p].allow
        /\ \/ todo = <<a>> /\ todo' = <<>>
           \/ \E b : todo = <<a, b>> /\ todo' = <<b>> /\ IsList(b)
    BY <1>5, <2>a, <2>b, CommitOfList
  <2>2. \A i \in 1..Len(todo') : \E j \in 1..Len(todo) : todo'[i] = todo[j]
    <3>1. CASE todo' = <<>>
      BY <3>1
    <3>2. ASSUME NEW b, todo = <<a, b>>, todo' = <<b>>
          PROVE  \A i \in 1..Len(todo') : \E j \in 1..Len(todo) : todo'[i] = todo[j]
      <4>1. todo[2] = b /\ 2 \in 1..Len(todo) /\ \A i \in 1..Len(todo') : todo'[i] = b
        BY <3>2
      <4> QED
        BY <4>1
    <3> QED
      BY <2>1, <3>1, <3>2
  <2>3. 1 \in 1..Len(todo) /\ todo[1] = a
    BY <2>1
  <2>4. LeftFor(p)
    BY <2>2 DEF LeftFor, RulesInv, OnlyThere
  <2>5. RuleTypes'
    BY <1>1, <2>1 DEF RulesInv, RuleTypes, OnlyAbout
  <2>6. OnlyThere'
    BY <1>1, <2>1, <2>4, ThereStep DEF RulesInv
  <2>7. HiddenInv'
    <3> SUFFICES ASSUME disturbed \cap {"stale form", "listing"} = {}, NEW h \in hidden
                 PROVE  /\ channel[h[2]] \in profiles'[h[1]].block
                        /\ \A i \in 1..Len(todo') :
                             todo'[i].kind = "block" /\ todo'[i].p = h[1]
                               => channel[h[2]] \in todo'[i].names
      BY <1>1 DEF HiddenInv
    <3>1. /\ channel[h[2]] \in profiles[h[1]].block /\ h[1] \in Ids
          /\ \A i \in 1..Len(todo) :
               todo[i].kind = "block" /\ todo[i].p = h[1] => channel[h[2]] \in todo[i].names
      BY DEF RulesInv, RuleTypes, HiddenInv
    <3>2. \A i \in 1..Len(todo') :
            todo'[i].kind = "block" /\ todo'[i].p = h[1] => channel[h[2]] \in todo'[i].names
      BY <2>2, <3>1
    <3>3. CASE h[1] # p
      BY <2>1, <3>1, <3>2, <3>3 DEF OnlyAbout
    <3>4. CASE h[1] = p /\ a.kind = "allow"
      BY <2>1, <3>1, <3>2, <3>4
    <3>5. CASE h[1] = p /\ a.kind = "block"
      <4>1. channel[h[2]] \in a.names
        BY <2>b, <2>3, <3>1, <3>5
      <4> QED
        BY <2>1, <3>2, <3>5, <4>1
    <3> QED
      BY <2>1, <3>3, <3>4, <3>5 DEF IsList
  <2>8. FormInv'
    <3> SUFFICES ASSUME \E i \in 1..Len(todo') : todo'[i].by = "form" PROVE FormInv'
      BY NoForm
    <3>1. \E i \in 1..Len(todo) : todo[i].by = "form"
      BY <2>2
    <3>2. PICK was : was = a.was
      OBVIOUS
    <3>3. /\ was.kids = profiles[p].kids /\ was.vault = profiles[p].vault
          /\ was.block = profiles[p].block
          /\ \/ \E allow, block \in SUBSET Names :
                  todo = <<FormCommit("allow", p, allow, was), FormCommit("block", p, block, was)>>
             \/ \E block \in SUBSET Names : todo = <<FormCommit("block", p, block, was)>>
      BY <2>a, <2>b, <3>1, <3>2 DEF RulesInv, FormInv
    <3>4. todo' # <<>>
      OBVIOUS
    <3>5. PICK b : todo = <<a, b>> /\ todo' = <<b>>
      BY <2>1, <3>4
    <3>6. PICK allow \in SUBSET Names, block \in SUBSET Names :
            todo = <<FormCommit("allow", p, allow, was), FormCommit("block", p, block, was)>>
      <4>1. ASSUME NEW block, todo = <<FormCommit("block", p, block, was)>> PROVE FALSE
        <5>1. Len(todo) = 1 /\ Len(todo) = 2
          BY <3>5, <4>1
        <5> QED
          BY <5>1
      <4> QED
        BY <3>3, <4>1
    <3>7. a = FormCommit("allow", p, allow, was) /\ b = FormCommit("block", p, block, was)
      BY <3>5, <3>6
    <3>8. a.kind = "allow" /\ b.p = p /\ b.was = was
      BY <3>7 DEF FormCommit
    <3>9. Head(todo') = b /\ todo' = <<FormCommit("block", p, block, was)>>
      BY <3>5, <3>7
    <3>10. /\ was.kids = profiles'[p].kids /\ was.vault = profiles'[p].vault
           /\ was.block = profiles'[p].block
      BY <2>1, <3>3, <3>8
    <3>11. Head(todo').p = p /\ Head(todo').was = was
      BY <3>8, <3>9
    <3> QED
      BY <3>9, <3>10, <3>11 DEF FormInv
  <2> QED
    BY <1>2, <1>3, <2>5, <2>6, <2>7, <2>8 DEF RulesInv
<1> QED
  BY <1>4, <1>5 DEF Inv, TodoShape

LEMMA RelistRules ==
  ASSUME RulesInv, NEW v \in Videos, NEW n \in Names, Relist(v, n)
  PROVE  RulesInv'
<1>1. /\ UNCHANGED <<active, profiles, privacy, rows, own, todo, page, loads, answers, hidden>>
      /\ todo = <<>> /\ actor' = Default /\ "listing" \in disturbed'
  BY DEF Relist, Idle, opinions, clientVars
<1>2. RuleTypes' /\ OnlyThere' /\ SilentWithoutRow'
  BY <1>1 DEF RulesInv, RuleTypes, OnlyThere, There, SilentWithoutRow
<1>3. HiddenInv' /\ LastIsFresh'
  BY <1>1, ProfilesAssumption DEF HiddenInv, LastIsFresh
<1>4. FormInv'
  BY <1>1, NoForm
<1> QED
  BY <1>2, <1>3, <1>4 DEF RulesInv

LEMMA CrashRules ==
  ASSUME RulesInv, Crash
  PROVE  RulesInv'
<1>1. /\ UNCHANGED <<active, profiles, channel, privacy, rows, own, page, answers, hidden>>
      /\ todo' = <<>> /\ loads' = [c \in Clients |-> 0]
      /\ "crash" \in disturbed' /\ disturbed \subseteq disturbed'
  BY DEF Crash, catalogue, opinions
<1>2. loads' \in [Clients -> Nat] /\ \A d \in Clients : loads'[d] + Len(answers'[d]) <= MaxLoads
  <2>1. \A d \in Clients : loads'[d] = 0 /\ answers'[d] = answers[d]
    BY <1>1
  <2>2. loads' \in [Clients -> Nat]
    BY <1>1
  <2>3. ASSUME NEW d \in Clients PROVE 0 + Len(answers[d]) <= MaxLoads
    <3>1. /\ loads[d] \in Nat /\ loads[d] + Len(answers[d]) <= MaxLoads
          /\ Len(answers[d]) \in Nat
      BY DEF RulesInv, RuleTypes
    <3> QED
      BY <3>1, ProfilesAssumption
  <2> QED
    BY <2>1, <2>2, <2>3
<1>3. RuleTypes'
  BY <1>1, <1>2 DEF RulesInv, RuleTypes
<1>4. OnlyThere' /\ SilentWithoutRow'
  BY <1>1 DEF RulesInv, OnlyThere, There, SilentWithoutRow
<1>5. HiddenInv'
  <2>1. \A i \in 1..Len(todo') : todo'[i].kind # "block"
    BY <1>1
  <2>2. \A h \in hidden : profiles'[h[1]].block = profiles[h[1]].block
    BY <1>1
  <2> QED
    BY <1>1, <2>1, <2>2, HiddenStays DEF RulesInv
<1>6. FormInv' /\ LastIsFresh'
  BY <1>1, NoForm DEF LastIsFresh
<1> QED
  BY <1>3, <1>4, <1>5, <1>6 DEF RulesInv

(* Answers under way and their rendering.                                   *)
LEMMA PageRules ==
  ASSUME Inv, RulesInv, NEW c \in Clients, Answer(c) \/ Render(c)
  PROVE  RulesInv'
<1>1. UNCHANGED <<active, profiles, channel, privacy, rows, own, todo, hidden, disturbed>>
  BY DEF Answer, Render, catalogue, opinions
<1>2. /\ loads' \in [Clients -> Nat] /\ page' \in [Clients -> Pages]
      /\ answers' \in [Clients -> Seq(Pages)]
      /\ \A d \in Clients : loads'[d] + Len(answers'[d]) <= MaxLoads
      /\ \A d \in Clients : There(page'[d].profile)
      /\ \A d \in Clients : \A i \in 1..Len(answers'[d]) : There(answers'[d][i].profile)
      /\ LastIsFresh'
  <2>1. CASE Answer(c)
    <3>1. page' = page
      BY <2>1 DEF Answer
    <3> QED
      BY <2>1, <3>1, AnswerPages DEF Inv, RulesInv, RuleTypes, OnlyThere
  <2>2. CASE Render(c)
    <3>1. loads' = loads
      BY <2>2 DEF Render
    <3> QED
      BY <2>2, <3>1, RenderPages DEF RulesInv, RuleTypes
  <2> QED
    BY <2>1, <2>2
<1>3. RuleTypes'
  BY <1>1, <1>2 DEF RulesInv, RuleTypes
<1>4. OnlyThere'
  BY <1>1, <1>2 DEF RulesInv, OnlyThere, There
<1>5. SilentWithoutRow' /\ HiddenInv' /\ FormInv'
  BY <1>1 DEF RulesInv, SilentWithoutRow, HiddenInv, FormInv, FormCommit
<1> QED
  BY <1>2, <1>3, <1>4, <1>5 DEF RulesInv

LEMMA RulesInductive ==
  ASSUME Inv, RulesInv, [Next]_vars
  PROVE  RulesInv'
<1>1. ASSUME NEW c \in Clients, VideoRequest(c) \/ ProfileRequest(c) \/ Answer(c) \/ Render(c)
      PROVE  RulesInv'
  BY <1>1, VideoRequestRules, ProfileRequestRules, PageRules
<1>2. ASSUME NEW kids \in BOOLEAN, NEW vault \in BOOLEAN, NEW allow \in Edits({}),
             UpdateProfile(active, kids, vault, allow)
      PROVE  RulesInv'
  BY <1>2, UpdateProfileRules
<1>3. CASE Commit
  BY <1>3, CommitRules
<1>4. ASSUME NEW v \in Videos, NEW n \in Names, Relist(v, n) PROVE RulesInv'
  BY <1>4, RelistRules
<1>5. CASE Crash
  BY <1>5, CrashRules
<1>6. CASE UNCHANGED vars
  <2>1. UNCHANGED <<active, profiles, channel, privacy, rows, own, todo, page, loads, answers,
                    actor, hidden, disturbed>>
    BY <1>6 DEF vars, catalogue, opinions, clientVars
  <2>2. Home' = Home
    BY <2>1, HomeStays
  <2>3. RuleTypes' /\ OnlyThere'
    BY <2>1 DEF RulesInv, RuleTypes, OnlyThere, There
  <2>4. SilentWithoutRow' /\ HiddenInv' /\ FormInv'
    BY <2>1 DEF RulesInv, SilentWithoutRow, HiddenInv, FormInv, FormCommit
  <2>5. LastIsFresh'
    BY <2>1, <2>2 DEF RulesInv, LastIsFresh, Fresh
  <2> QED
    BY <2>3, <2>4, <2>5 DEF RulesInv
<1> QED
  BY <1>1, <1>2, <1>3, <1>4, <1>5, <1>6 DEF Next

LEMMA RulesInitially ==
  ASSUME Init
  PROVE  RulesInv
<1>1. Default \in Ids /\ Default \notin Clients
  BY ProfilesAssumption DEF Ids
<1>2. \A p \in Ids : profiles[p] = IF p \in New THEN NoProfile ELSE Profile(p = Kids, p = Vault, FALSE)
  BY DEF Init
<1>3. \A kids, vault \in BOOLEAN : Profile(kids, vault, FALSE) \in Rules
                                   /\ Profile(kids, vault, FALSE).there
  BY NewProfile
<1>4. profiles \in [Ids -> Rules] /\ \A p \in Ids : ~There(p) => profiles[p] = NoProfile
  <2>1. profiles = [p \in Ids |-> profiles[p]]
    BY DEF Init
  <2>2. ASSUME NEW p \in Ids PROVE profiles[p] \in Rules /\ (~There(p) => profiles[p] = NoProfile)
    <3>1. (p = Kids) \in BOOLEAN /\ (p = Vault) \in BOOLEAN
      OBVIOUS
    <3>2. Profile(p = Kids, p = Vault, FALSE) \in Rules /\ Profile(p = Kids, p = Vault, FALSE).there
      BY <1>3, <3>1
    <3> QED
      BY <1>2, <3>2, NoProfileIsRules DEF There
  <2> QED
    BY <2>1, <2>2
<1>5. profiles[Default].there
  <2>1. (Default = Kids) \in BOOLEAN /\ (Default = Vault) \in BOOLEAN /\ Default \notin New
    BY ProfilesAssumption
  <2>2. Profile(Default = Kids, Default = Vault, FALSE).there
    BY <1>3, <2>1
  <2> QED
    BY <1>1, <1>2, <2>1, <2>2
<1>6. /\ active = Default /\ hidden = {} /\ todo = <<>> /\ rows = {} /\ actor = Default
      /\ \A c \in Clients : page[c].profile = Default /\ loads[c] = 0 /\ answers[c] = <<>>
  BY DEF Init
<1>7. page \in [Clients -> Pages]
  <2>1. HomeChannel \in Cards
    <3>1. HomeChannel \in [Videos -> Names] /\ Videos \in SUBSET Videos
      BY ProfilesAssumption DEF Names
    <3> QED
      BY <3>1 DEF Cards
  <2>2. [profile |-> Default, allow |-> {}, block |-> {}, cards |-> HomeChannel, late |-> FALSE] \in Pages
    BY <1>1, <2>1 DEF Pages
  <2> QED
    BY <2>2 DEF Init
<1>8. RuleTypes
  <2>1. loads \in [Clients -> Nat] /\ answers \in [Clients -> Seq(Pages)]
    <3>1. <<>> \in Seq(Pages)
      OBVIOUS
    <3> QED
      BY <3>1 DEF Init
  <2>2. privacy \in [Videos -> Levels]
    BY DEF Init, Levels
  <2>3. \A c \in Clients : loads[c] + Len(answers[c]) <= MaxLoads
    BY <1>6, ProfilesAssumption
  <2> QED
    BY <1>1, <1>4, <1>6, <1>7, <2>1, <2>2, <2>3 DEF RuleTypes
<1>9. OnlyThere
  BY <1>4, <1>5, <1>6 DEF OnlyThere, There
<1>10. SilentWithoutRow
  BY DEF Init, SilentWithoutRow
<1>11. HiddenInv /\ FormInv /\ LastIsFresh
  BY <1>1, <1>6 DEF HiddenInv, FormInv, LastIsFresh
<1> QED
  BY <1>8, <1>9, <1>10, <1>11 DEF RulesInv

-----------------------------------------------------------------------------
(* Theorems about rules and pages                                           *)

(* What is hidden, what the handler of a form has left to write, and which  *)
(* answer is the newest, in every state (block_channel, update_profile,     *)
(* loadHome).                                                               *)
THEOREM RulesInvariance == Spec => []RulesInv
<1>1. Init => RulesInv
  BY RulesInitially
<1>2. Inv /\ RulesInv /\ [Next]_vars => RulesInv'
  BY RulesInductive
<1> QED
  BY <1>1, <1>2, Invariance, PTL DEF Spec

(* The tables keep their shape, handlers write only about profiles that are *)
(* there, and the active profile is one of them (get_active_profile).       *)
THEOREM TypeCorrect == Spec => []TypeOK
<1>1. ASSUME Inv, RulesInv PROVE TypeOK
  <2>1. active \in Ids /\ profiles[active].there
    BY <1>1 DEF RulesInv, RuleTypes, OnlyThere, There
  <2>2. ASSUME NEW p \in Ids
        PROVE  /\ profiles[p].allow \cup profiles[p].block \subseteq Names
               /\ ~profiles[p].there => profiles[p] = NoProfile
               /\ \A n \in Names : taste[p][n] \in 0..2
               /\ \A v \in Videos : <<p, v>> \in rows \/ own[p][v] = NoOpinion
    <3>1. profiles[p] \in Rules
      BY <1>1 DEF RulesInv, RuleTypes
    <3>2. profiles[p].allow \cup profiles[p].block \subseteq Names
      BY <3>1 DEF Rules
    <3> QED
      BY <1>1, <3>2 DEF Inv, Types, RulesInv, OnlyThere, There, SilentWithoutRow
  <2>3. \A v \in Videos : channel[v] \in Names /\ privacy[v] \in Levels
    BY <1>1 DEF Inv, Types, RulesInv, RuleTypes
  <2>4. \A i \in DOMAIN todo : profiles[todo[i].p].there
    <3>1. DOMAIN todo = 1..Len(todo)
      <4>1. CASE ListsOnly(todo)
        BY <4>1 DEF ListsOnly
      <4>2. CASE \E p \in Ids, n \in Names, w \in Weights : Pending(p, n, w)
        BY <4>2 DEF Pending
      <4> QED
        BY <1>1, <4>1, <4>2 DEF Inv, TodoShape
    <3> QED
      BY <1>1, <3>1 DEF RulesInv, OnlyThere, There
  <2>5. ASSUME NEW c \in Clients PROVE loads[c] + Len(answers[c]) \in 0..MaxLoads
    <3>1. loads[c] \in Nat /\ Len(answers[c]) \in Nat /\ loads[c] + Len(answers[c]) <= MaxLoads
      BY <1>1 DEF RulesInv, RuleTypes
    <3> QED
      BY <3>1, ProfilesAssumption
  <2> QED
    BY <2>1, <2>2, <2>3, <2>4, <2>5 DEF TypeOK
<1> QED
  BY <1>1, Invariance, RulesInvariance, PTL

(* A hidden channel stays hidden from its profile through crashes,          *)
(* selections and settings saved from a page that shows it as hidden, until *)
(* it is struck out or a listing renames the channel (block_channel,        *)
(* update_profile, upsert_video).                                           *)
THEOREM HiddenStaysHiddenHolds == Spec => []HiddenStaysHidden
<1>1. RulesInv => HiddenStaysHidden
  BY DEF RulesInv, HiddenInv, HiddenStaysHidden, Visible, Allowed, Blocked
<1> QED
  BY <1>1, RulesInvariance, PTL

(* Between the commits of a settings form, and for good after a crash       *)
(* there, a profile sees no more than the old or the new settings show      *)
(* (update_profile).                                                        *)
THEOREM PartialRulesShowNoMoreHolds == Spec => []PartialRulesShowNoMore
<1>1. ASSUME Inv, RulesInv PROVE PartialRulesShowNoMore
  <2> DEFINE q == Head(todo).p
            now == profiles[q]
            Final(list, names) == IF \E i \in DOMAIN todo : todo[i].kind = list
                                  THEN todo[CHOOSE i \in DOMAIN todo : todo[i].kind = list].names
                                  ELSE names
            new == [now EXCEPT !.allow = Final("allow", @), !.block = Final("block", @)]
            old == Head(todo).was
  <2> SUFFICES ASSUME Running("form"), NEW v \in Videos, Allowed(now, v)
               PROVE  \/ Allowed(old, v) \/ Allowed(new, v)
                      \/ channel[v] \in new.block \ old.block
    BY DEF PartialRulesShowNoMore
  <2>0. \E i \in 1..Len(todo) : todo[i].by = "form"
    <3>1. todo # <<>> /\ Head(todo).by = "form"
      BY DEF Running
    <3>2. 1 \in 1..Len(todo) /\ todo[1] = Head(todo)
      <4>1. CASE ListsOnly(todo)
        BY <3>1, <4>1 DEF ListsOnly
      <4>2. CASE \E p \in Ids, n \in Names, w \in Weights : Pending(p, n, w)
        BY <4>2 DEF Pending
      <4> QED
        BY <1>1, <4>1, <4>2 DEF Inv, TodoShape
    <3> QED
      BY <3>1, <3>2
  <2>1. PICK p : p = q
    OBVIOUS
  <2>2. PICK was : was = old
    OBVIOUS
  <2>3. /\ was.kids = profiles[p].kids /\ was.vault = profiles[p].vault
        /\ was.block = profiles[p].block
        /\ \/ was.allow = profiles[p].allow
           \/ \E block \in SUBSET Names : todo = <<FormCommit("block", p, block, was)>>
    BY <1>1, <2>0, <2>1, <2>2 DEF RulesInv, FormInv
  <2>4. CASE was.allow = profiles[p].allow
    BY <2>1, <2>2, <2>3, <2>4 DEF Allowed, Blocked
  <2>5. ASSUME NEW block \in SUBSET Names, todo = <<FormCommit("block", p, block, was)>>
        PROVE  Allowed(new, v) \/ channel[v] \in new.block \ old.block
    <3>1. /\ DOMAIN todo = {1} /\ todo[1].kind = "block" /\ todo[1].names = block
          /\ todo[1].p = p
      BY <2>5 DEF FormCommit
    <3>2. ~\E i \in DOMAIN todo : todo[i].kind = "allow"
      BY <3>1
    <3>3. (CHOOSE i \in DOMAIN todo : todo[i].kind = "block") = 1
      BY <3>1
    <3>4. Final("allow", now.allow) = now.allow
      BY <3>2
    <3>5. Final("block", now.block) = block
      BY <3>1, <3>3
    <3>6. p \in Ids /\ profiles[p] \in Rules
      <4>1. 1 \in 1..Len(todo)
        BY <2>5
      <4>2. p \in Ids
        BY <1>1, <3>1, <4>1 DEF RulesInv, OnlyThere
      <4> QED
        BY <1>1, <4>2 DEF RulesInv, RuleTypes
    <3>7. new = [[now EXCEPT !.allow = now.allow] EXCEPT !.block = block]
      BY <3>4, <3>5
    <3>8. PICK r : r = [now EXCEPT !.allow = now.allow]
      OBVIOUS
    <3>9. /\ r \in Rules /\ r.kids = now.kids /\ r.vault = now.vault
          /\ r.allow = now.allow /\ r.block = now.block
      <4>1. now \in Rules /\ now.allow \in SUBSET Names
        BY <2>1, <3>6 DEF Rules
      <4> HIDE DEF now
      <4> QED
        BY <3>8, <4>1, AllowField
    <3>10. new = [r EXCEPT !.block = block]
      BY <3>7, <3>8
    <3> HIDE DEF new
    <3>11. /\ new.kids = now.kids /\ new.vault = now.vault
           /\ new.allow = now.allow /\ new.block = block
      BY <3>9, <3>10, BlockField
    <3> HIDE DEF now
    <3>12. channel[v] \notin now.block /\ (channel[v] \notin block => Allowed(new, v))
      BY <3>11 DEF Allowed, Blocked
    <3>13. old.block = now.block
      BY <2>1, <2>2, <2>3 DEF now
    <3> QED
      BY <3>11, <3>12, <3>13
  <2> QED
    BY <2>3, <2>4, <2>5
<1> QED
  BY <1>1, Invariance, RulesInvariance, PTL

(* A page at rest is current if its own client made the last request, no    *)
(* older answer overtook a newer one and no request failed (loadHome after  *)
(* every request).                                                          *)
THEOREM QuietPageIsCurrentHolds == Spec => []QuietPageIsCurrent
<1>1. ASSUME RulesInv PROVE QuietPageIsCurrent
  <2> SUFFICES ASSUME NEW c \in Clients, loads[c] = 0, answers[c] = <<>>, actor = c,
                      ~page[c].late, "crash" \notin disturbed
               PROVE  page[c] = Home
    BY DEF QuietPageIsCurrent
  <2>1. Fresh(page[c])
    BY <1>1 DEF RulesInv, LastIsFresh
  <2> QED
    BY <2>1 DEF Fresh
<1> QED
  BY <1>1, RulesInvariance, PTL

=============================================================================
