------------------------ MODULE ImportOrganizerProofs ------------------------
(***************************************************************************)
(* Theorems about ImportOrganizer: what the user dropped is kept, artwork  *)
(* follows its file and imported files get listed, for any files, names,   *)
(* contents, processes and faults.                                         *)
(***************************************************************************)
EXTENDS ImportOrganizer, FiniteSetTheorems, TLAPS

InHandStages == {"chosen", "same", "free", "copying", "artwork"}

(* A run that is over has placed nothing; only copies copy, and only moves   *)
(* empty the folder.                                                        *)
Modes ==
  /\ mode.rename => mode.move
  /\ \A r \in Procs :
       /\ run[r].at \in {"idle", "exit"} => ~run[r].placed
       /\ At(r, "copying") => ~mode.rename
  /\ \A p \in Media : p \in dropped /\ src[p] = None => mode.move

(* A file in the folder is cut off only while it is written.                 *)
Sources == \A p \in Media : src[p] = Part <=> writing[p] = Folder

(* The user writes into a library file after a rename only, two writers      *)
(* never into one.                                                          *)
Writers ==
  /\ \A p \in Media : writing[p] \in Targets => mode.rename /\ lib[writing[p]] # None
  /\ \A p, q \in Media : writing[p] \in Targets /\ writing[p] = writing[q] => p = q

(* A library name that a run has found free, or copies to.                  *)
Aims(r, t) == run[r].at \in {"free", "copying"} /\ run[r].target = t

(* Unless two runs found one name free at one time, a name belongs to the    *)
(* run that aims at it, and what is not whole in the library is replaced     *)
(* only by its writer.                                                      *)
Claims ==
  clashed = {} =>
    /\ \A r \in Procs : /\ At(r, "free") => lib[run[r].target] = None
                        /\ At(r, "copying") => lib[run[r].target] = Part
    /\ \A q, r \in Procs, t \in Targets : Aims(q, t) /\ Aims(r, t) => q = r
    /\ \A p \in Media : writing[p] \in Targets => lib[writing[p]] = Part

(* The file a run has open is at its path, or was taken away from there by   *)
(* another run. A duplicate is what the library has, and its artwork has a   *)
(* reason to stay.                                                          *)
Opened ==
  \A r \in Procs :
    /\ run[r].at \notin {"same", "copying"} => run[r].read = None
    /\ Open(r, run[r].cur) => src[run[r].cur] # None
    /\ At(r, "same") =>
         /\ mode.move /\ ArtOf[run[r].cur] \subseteq excused
         /\ run[r].read = None =>
              /\ Whole(src[run[r].cur])
              /\ clashed = {} => lib[run[r].target] = src[run[r].cur]

(* What the catalogue misses of the library is in the hands of a run that    *)
(* will scan it, unless the scan has met its limit.                          *)
Missing(t) == (Whole(lib[t]) \/ \E p \in Media : writing[p] = t) /\ t \notin listed

Unlisted ==
  \/ Cardinality(listed) >= LibraryLimit
  \/ \A t \in Targets : Missing(t) => unseen \/ \E r \in Procs : run[r].placed

(* Artwork without a reason to stay is in the hands of every run that has    *)
(* its file, and of one that will place it once the file has gone.          *)
Sidecars ==
  \A p \in Media : \A a \in ArtOf[p] :
    src[a] # None /\ a \notin excused =>
      /\ \A r \in Procs : run[r].cur = p => a \in run[r].art
      /\ src[p] = None /\ p \in dropped =>
           \E r \in Procs : At(r, "artwork") /\ run[r].cur = p

Inv == /\ TypeOK /\ Modes /\ Sources /\ Writers /\ Claims /\ Opened
       /\ NothingLost /\ Unlisted /\ Sidecars

-----------------------------------------------------------------------------
(* Names and runs                                                           *)

(* No library name is one of the places a file can be written to besides.   *)
LEMMA Places ==
  /\ Nowhere \notin Targets /\ Folder \notin Targets /\ Gone \notin Targets
  /\ Nowhere # Folder /\ Nowhere # Gone /\ Folder # Gone
<1>1. \A x, y : <<x, y>> # << >> /\ <<x, y>> # <<"folder">> /\ <<x, y>> # <<"gone">>
  OBVIOUS
<1>2. \A t \in Targets : \E x, y : t = <<x, y>>
  BY DEF Targets, Base, Digest
<1> QED
  BY <1>1, <1>2 DEF Nowhere, Folder, Gone

LEMMA GotoRun ==
  ASSUME TypeOK, NEW r \in Procs, NEW next \in RunState, Goto(r, next)
  PROVE  /\ run' \in [Procs -> RunState]
         /\ run'[r] = next
         /\ \A q \in Procs : q # r => run'[q] = run[q]
  BY DEF TypeOK, Goto

LEMMA StoppedFields ==
  ASSUME NEW r
  PROVE  /\ Stopped(r) \in RunState
         /\ Stopped(r).at \in {"idle", "exit"} /\ Stopped(r).cur = None
         /\ Stopped(r).target = Nowhere
         /\ Stopped(r).art = {} /\ Stopped(r).placed = FALSE /\ Stopped(r).read = None
  BY ImportAssumption DEF Stopped, RunState

LEMMA OnwardFields ==
  ASSUME TypeOK, NEW r \in Procs
  PROVE  /\ Onward(r) \in RunState
         /\ Onward(r).at = "scan" /\ Onward(r).cur = None
         /\ Onward(r).target = Nowhere
         /\ Onward(r).art = {} /\ Onward(r).placed = run[r].placed
         /\ Onward(r).read = None
<1>1. run[r] \in RunState
  BY DEF TypeOK
<1> QED
  BY <1>1 DEF Onward, RunState

-----------------------------------------------------------------------------
(* A run that lets go of its file, or had none                              *)

LEMMA LetsGo ==
  ASSUME Inv, NEW r \in Procs, NEW next \in RunState, Goto(r, next),
         next.at \in {"scan", "discover", "idle", "exit"}, next.cur = None, next.read = None,
         next.at \in {"idle", "exit"} => ~next.placed,
         UNCHANGED <<mode, src, writing, lib, libArt, listed, dropped, given, clashed, mistaken>>,
         excused \subseteq excused', excused' \subseteq Art,
         At(r, "artwork") => run[r].art \subseteq excused',
         unseen => unseen', run[r].placed => next.placed \/ unseen'
  PROVE  Inv'
<1>1. TypeOK /\ Modes /\ Sources /\ Writers /\ Claims /\ Opened /\ NothingLost /\ Unlisted /\ Sidecars
  BY DEF Inv
<1>2. /\ run' \in [Procs -> RunState] /\ run'[r] = next
      /\ \A q \in Procs : q # r => run'[q] = run[q]
  BY <1>1, GotoRun
<1>3. TypeOK'
  BY <1>1, <1>2 DEF TypeOK
<1>4. Modes'
  BY <1>1, <1>2 DEF Modes, At
<1>5. Sources' /\ Writers'
  BY <1>1 DEF Sources, Writers
<1>6. Claims'
  BY <1>1, <1>2 DEF Claims, Aims, At
<1>7. NothingLost'
  BY <1>1 DEF NothingLost, DroppedIsKept, CutOffOnlyByCopying
<1>8. Unlisted'
  BY <1>1, <1>2 DEF Unlisted, Missing
<1>9. Sidecars'
  BY <1>1, <1>2, ImportAssumption DEF Sidecars, At
<1>10. Opened'
  BY <1>1, <1>2 DEF Opened, Open, At
<1> QED
  BY <1>3, <1>4, <1>5, <1>6, <1>7, <1>8, <1>9, <1>10 DEF Inv

LEMMA BeginStep ==
  ASSUME Inv, NEW r \in Procs, Begin(r)
  PROVE  Inv'
<1> DEFINE next == [Stopped(r) EXCEPT !.at = "scan", !.room = Room,
                                      !.list = {f \in Files : src[f] # None}]
<1>1. /\ next \in RunState /\ next.at = "scan" /\ next.cur = None /\ next.placed = FALSE
      /\ next.read = None
  <2> DEFINE old == Stopped(r)
             files == {f \in Files : src[f] # None}
  <2>1. old \in RunState /\ old.cur = None /\ old.placed = FALSE /\ old.read = None
    BY StoppedFields
  <2>2. ScanLimit \in 0..ScanLimit /\ files \subseteq Files
    BY ImportAssumption
  <2> HIDE DEF old, files
  <2>3. LET new == [old EXCEPT !.at = "scan", !.room = ScanLimit, !.list = files]
        IN /\ new \in RunState /\ new.at = "scan" /\ new.cur = None
           /\ new.placed = FALSE /\ new.read = None
    BY <2>1, <2>2 DEF RunState
  <2> QED
    BY <2>3 DEF old, files, Room
<1>2. Goto(r, next)
  BY DEF Begin
<1> HIDE DEF next
<1>3. ~run[r].placed
  BY DEF Begin, At, Inv, Modes
<1>4. /\ UNCHANGED <<mode, src, writing, lib, libArt, listed, history>>
      /\ At(r, "idle")
  BY DEF Begin
<1> QED
  BY <1>1, <1>2, <1>3, <1>4, LetsGo DEF At, Inv, TypeOK, history

LEMMA EndScanStep ==
  ASSUME Inv, NEW r \in Procs, EndScan(r)
  PROVE  Inv'
<1> DEFINE go == [run[r] EXCEPT !.at = "discover"]
           next == IF run[r].placed THEN go ELSE Stopped(r)
<1>1. run[r] \in RunState /\ At(r, "scan") /\ run[r].cur = None /\ run[r].read = None
  BY DEF EndScan, At, Inv, TypeOK, Opened
<1>2. /\ go \in RunState /\ go.at = "discover" /\ go.cur = None /\ go.placed = run[r].placed
      /\ go.read = None
  BY <1>1 DEF RunState
<1>3. Goto(r, next)
  BY DEF EndScan
<1> HIDE DEF go
<1>4. /\ next \in RunState /\ next.at \in {"discover", "idle", "exit"} /\ next.cur = None
      /\ next.read = None
      /\ next.at \in {"idle", "exit"} => ~next.placed
      /\ run[r].placed => next.placed
  BY <1>2, StoppedFields
<1> HIDE DEF next
<1>5. UNCHANGED <<mode, src, writing, lib, libArt, listed, history>>
  BY DEF EndScan
<1> QED
  BY <1>1, <1>3, <1>4, <1>5, LetsGo DEF At, Inv, TypeOK, history

LEMMA SourceGoneStep ==
  ASSUME Inv, NEW r \in Procs, SourceGone(r) \/ CopyFails(r)
  PROVE  Inv'
<1>1. /\ Goto(r, Onward(r)) /\ run[r].at \in {"free", "copying"}
      /\ UNCHANGED <<mode, src, writing, lib, libArt, listed, history>>
  BY DEF SourceGone, CopyFails, At
<1> QED
  BY <1>1, OnwardFields, LetsGo DEF At, Inv, TypeOK, history

LEMMA ArtworkFailsStep ==
  ASSUME Inv, NEW r \in Procs, ArtworkFails(r)
  PROVE  Inv'
<1>1. /\ Goto(r, Onward(r))
      /\ excused' = excused \cup run[r].art
      /\ UNCHANGED <<mode, src, writing, lib, libArt, listed, dropped, given, clashed, mistaken,
                     unseen>>
  BY DEF ArtworkFails
<1>2. run[r].art \subseteq Art /\ excused \subseteq Art
  BY DEF Inv, TypeOK, RunState
<1> QED
  BY <1>1, <1>2, OnwardFields, LetsGo DEF Inv

LEMMA CrashStep ==
  ASSUME Inv, NEW r \in Procs, Crash(r)
  PROVE  Inv'
<1>1. /\ Goto(r, Stopped(r))
      /\ excused' = excused \cup run[r].art
      /\ unseen' = (unseen \/ run[r].placed)
      /\ UNCHANGED <<mode, src, writing, lib, libArt, listed, dropped, given, clashed, mistaken>>
  BY DEF Crash
<1>2. run[r].art \subseteq Art /\ excused \subseteq Art
  BY DEF Inv, TypeOK, RunState
<1> QED
  BY <1>1, <1>2, StoppedFields, LetsGo DEF Inv

-----------------------------------------------------------------------------
(* A run that takes a file                                                  *)

LEMMA VisitStep ==
  ASSUME Inv, NEW r \in Procs, NEW f \in Files, Visit(r, f)
  PROVE  Inv'
<1> DEFINE left == [run[r] EXCEPT !.list = @ \ {f}, !.room = @ - 1]
           taken == [left EXCEPT !.at = "chosen", !.cur = f,
                       !.target = DestinationFor(f), !.art = RelatedArtwork(f)]
<1>1. /\ run[r] \in RunState /\ At(r, "scan") /\ run[r].cur = None /\ run[r].room > 0
      /\ run[r].read = None
  BY DEF Visit, At, Inv, TypeOK, Opened
<1>2. /\ left \in RunState /\ left.at = "scan" /\ left.cur = None /\ left.placed = run[r].placed
      /\ left.read = None
  <2>1. run[r].room - 1 \in 0..ScanLimit /\ run[r].list \ {f} \subseteq Files
    BY <1>1, ImportAssumption DEF RunState
  <2>2. left = [run[r] EXCEPT !.list = run[r].list \ {f}, !.room = run[r].room - 1]
    OBVIOUS
  <2> QED
    BY <1>1, <2>1, <2>2 DEF RunState, At
<1>3. UNCHANGED <<mode, src, writing, lib, libArt, listed, dropped, given, clashed, mistaken,
                  unseen, excused>>
  BY DEF Visit, history
<1>4. CASE f \notin Media
  <2>1. Goto(r, left)
    BY <1>4 DEF Visit
  <2> HIDE DEF left
  <2> QED
    BY <1>1, <1>2, <1>3, <2>1, LetsGo DEF At, Inv, TypeOK
<1>5. CASE f \in Media
  <2>1. Goto(r, taken)
    BY <1>5 DEF Visit
  <2>2. /\ DestinationFor(f) \in {Base(f), Digest(f)} /\ DestinationFor(f) \in Targets
        /\ RelatedArtwork(f) \in SUBSET Art
    BY <1>5, ImportAssumption DEF DestinationFor, Targets, RelatedArtwork
  <2> HIDE DEF left
  <2>3. /\ taken \in RunState /\ taken.at = "chosen" /\ taken.cur = f
        /\ taken.target = DestinationFor(f) /\ taken.art = RelatedArtwork(f)
        /\ taken.placed = run[r].placed /\ taken.read = None
    BY <1>2, <1>5, <2>2 DEF RunState
  <2> HIDE DEF taken
  <2>4. TypeOK /\ Modes /\ Sources /\ Writers /\ Claims /\ Opened /\ NothingLost /\ Unlisted /\ Sidecars
    BY DEF Inv
  <2>5. /\ run' \in [Procs -> RunState] /\ run'[r] = taken
        /\ \A q \in Procs : q # r => run'[q] = run[q]
    BY <2>1, <2>3, <2>4, GotoRun
  <2>6. TypeOK'
    BY <1>3, <1>5, <2>2, <2>3, <2>4, <2>5 DEF TypeOK
  <2>7. Modes'
    BY <1>1, <1>3, <2>3, <2>4, <2>5 DEF Modes, At
  <2>8. Sources' /\ Writers'
    BY <1>3, <2>4 DEF Sources, Writers
  <2>9. Claims'
    BY <1>3, <2>3, <2>4, <2>5 DEF Claims, Aims, At
  <2>10. NothingLost'
    BY <1>3, <2>4 DEF NothingLost, DroppedIsKept, CutOffOnlyByCopying
  <2>11. Unlisted'
    BY <1>3, <2>3, <2>4, <2>5 DEF Unlisted, Missing
  <2>12. Sidecars'
    BY <1>1, <1>3, <2>3, <2>4, <2>5 DEF Sidecars, At, RelatedArtwork
  <2>13. Opened'
    BY <1>3, <2>3, <2>4, <2>5 DEF Opened, Open, At
  <2> QED
    BY <2>6, <2>7, <2>8, <2>9, <2>10, <2>11, <2>12, <2>13 DEF Inv
<1> QED
  BY <1>4, <1>5

(* What a run in hand is known to be about.                                 *)
LEMMA InHandTypes ==
  ASSUME TypeOK, NEW r \in Procs, run[r].at \in InHandStages
  PROVE  /\ run[r] \in RunState /\ run[r].cur \in Media /\ run[r].cur \in Files
         /\ run[r].target \in Targets
  BY DEF TypeOK, InHandStages, Targets, Files

LEMMA ExamineStep ==
  ASSUME Inv, NEW r \in Procs, Examine(r)
  PROVE  Inv'
<1> DEFINE p == run[r].cur
           t == run[r].target
           dup == Taken(t) /\ SameFile(p, t)
           free == [run[r] EXCEPT !.at = "free"]
           same == [run[r] EXCEPT !.at = "same"]
           next == IF ~Taken(t) THEN free ELSE IF dup /\ mode.move THEN same ELSE Onward(r)
<1>0. TypeOK /\ Modes /\ Sources /\ Writers /\ Claims /\ Opened /\ NothingLost /\ Unlisted /\ Sidecars
  BY DEF Inv
<1>1. /\ run[r] \in RunState /\ p \in Media /\ p \in Files /\ t \in Targets
      /\ At(r, "chosen") /\ t \in {Base(p), Digest(p)} /\ run[r].read = None
  BY <1>0, InHandTypes DEF Examine, At, InHandStages, TypeOK, Opened
<1>2. /\ free \in RunState /\ free.at = "free" /\ free.cur = p /\ free.target = t
      /\ free.art = run[r].art /\ free.placed = run[r].placed /\ free.read = None
      /\ same \in RunState /\ same.at = "same" /\ same.cur = p /\ same.target = t
      /\ same.art = run[r].art /\ same.placed = run[r].placed /\ same.read = None
  BY <1>1 DEF RunState
<1>3. /\ Goto(r, next)
      /\ excused' = IF dup THEN excused \cup ArtOf[p] ELSE excused
      /\ clashed' = clashed \cup {u \in {t} : \E q \in Procs \ {r} :
                                    At(q, "free") /\ run[q].target = u}
      /\ UNCHANGED <<mode, src, writing, lib, libArt, listed, dropped, given, mistaken, unseen>>
  BY DEF Examine
<1> HIDE DEF free, same
<1>4. /\ next \in RunState /\ next.placed = run[r].placed /\ next.read = None
      /\ \/ Taken(t) /\ next.at = "scan" /\ next.cur = None /\ next.art = {}
         \/ /\ next.cur = p /\ next.target = t /\ next.art = run[r].art
            /\ \/ ~Taken(t) /\ next.at = "free"
               \/ dup /\ mode.move /\ next.at = "same"
  BY <1>0, <1>2, OnwardFields
<1> HIDE DEF next
<1>5. /\ run' \in [Procs -> RunState] /\ run'[r] = next
      /\ \A q \in Procs : q # r => run'[q] = run[q]
  BY <1>0, <1>3, <1>4, GotoRun
<1>6. ArtOf[p] \subseteq Art /\ clashed \subseteq clashed' /\ excused \subseteq excused'
  BY <1>1, <1>3, ImportAssumption
<1>7. dup => Whole(src[p]) /\ lib[t] = src[p] /\ ArtOf[p] \subseteq excused'
  BY <1>3 DEF SameFile
<1> HIDE DEF dup
<1>8. TypeOK'
  BY <1>0, <1>1, <1>3, <1>4, <1>5, <1>6 DEF TypeOK
<1>9. Modes'
  BY <1>0, <1>1, <1>3, <1>4, <1>5 DEF Modes, At
<1>10. Sources' /\ Writers'
  BY <1>0, <1>3 DEF Sources, Writers
<1>11. Claims'
  BY <1>0, <1>1, <1>3, <1>4, <1>5 DEF Claims, Aims, At, Taken, None, Part
<1>12. NothingLost'
  BY <1>0, <1>3, <1>6 DEF NothingLost, DroppedIsKept, CutOffOnlyByCopying
<1>13. Unlisted'
  BY <1>0, <1>3, <1>4, <1>5 DEF Unlisted, Missing
<1>14. Sidecars'
  BY <1>0, <1>1, <1>3, <1>4, <1>5, <1>6, ImportAssumption DEF Sidecars, At, Files
<1>15. Opened'
  BY <1>0, <1>1, <1>3, <1>4, <1>5, <1>6, <1>7 DEF Opened, Open, At, Whole
<1> QED
  BY <1>8, <1>9, <1>10, <1>11, <1>12, <1>13, <1>14, <1>15 DEF Inv

-----------------------------------------------------------------------------
(* A run that takes a file away                                             *)

(* The other runs go on, but one that has the file open reads it no longer   *)
(* at its path.                                                             *)
LEMMA TakeAwayRun ==
  ASSUME TypeOK, NEW r \in Procs, NEW p \in Media, NEW next \in RunState, TakeAway(r, p, next)
  PROVE  /\ run' \in [Procs -> RunState]
         /\ run'[r] = next
         /\ \A q \in Procs : q # r =>
              /\ run'[q].at = run[q].at /\ run'[q].cur = run[q].cur
              /\ run'[q].target = run[q].target /\ run'[q].art = run[q].art
              /\ run'[q].placed = run[q].placed
              /\ run'[q].read = IF Open(q, p) THEN src[p] ELSE run[q].read
         /\ src' \in [Files -> Contents \cup {None, Part, Picture}] /\ src'[p] = None
         /\ \A f \in Files : f # p => src'[f] = src[f]
<1>1. \A q \in Procs : run[q] \in RunState
  BY DEF TypeOK
<1>2. p \in Files /\ src[p] \in Contents \cup {None, Part}
  BY DEF TypeOK, Files
<1>3. \A q \in Procs : LET other == [run[q] EXCEPT !.read = src[p]]
                       IN /\ other \in RunState
                          /\ other.at = run[q].at /\ other.cur = run[q].cur
                          /\ other.target = run[q].target /\ other.art = run[q].art
                          /\ other.placed = run[q].placed /\ other.read = src[p]
  BY <1>1, <1>2 DEF RunState
<1>4. run' = [q \in Procs |-> IF q = r THEN next
                              ELSE IF Open(q, p) THEN [run[q] EXCEPT !.read = src[p]]
                              ELSE run[q]]
  BY DEF TakeAway
<1>5. run' \in [Procs -> RunState]
  BY <1>1, <1>3, <1>4
<1>6. ASSUME NEW q \in Procs, q # r
      PROVE  /\ run'[q].at = run[q].at /\ run'[q].cur = run[q].cur
             /\ run'[q].target = run[q].target /\ run'[q].art = run[q].art
             /\ run'[q].placed = run[q].placed
             /\ run'[q].read = IF Open(q, p) THEN src[p] ELSE run[q].read
  BY <1>3, <1>4, <1>6
<1>7. /\ src' \in [Files -> Contents \cup {None, Part, Picture}] /\ src'[p] = None
      /\ \A f \in Files : f # p => src'[f] = src[f]
  BY <1>2 DEF TakeAway, TypeOK
<1> QED
  BY <1>4, <1>5, <1>6, <1>7

(* The file a run takes away is open to no other run any more.               *)
LEMMA TakenIsOpenNoMore ==
  ASSUME TypeOK, Opened, NEW r \in Procs, NEW p \in Media, NEW next \in RunState,
         TakeAway(r, p, next), next.at \notin {"same", "copying"}, next.read = None,
         UNCHANGED mode, excused \subseteq excused',
         clashed' = clashed,
         clashed = {} => \A q \in Procs : At(q, "same") /\ run[q].read = None
                           => lib'[run[q].target] = lib[run[q].target]
  PROVE  Opened'
<1>1. ASSUME NEW q \in Procs, q # r, run[q].at \in {"same", "copying"}, run'[q].read = None
      PROVE  run[q].cur # p /\ run[q].cur \in Media /\ run[q].read = None
  <2>1. run[q].cur \in Media
    BY <1>1 DEF TypeOK
  <2>2. Open(q, p) => src[p] # None
    BY DEF Opened, Open
  <2> QED
    BY <1>1, <2>1, <2>2, TakeAwayRun DEF Open
<1>2. ASSUME NEW q \in Procs, q # r
      PROVE  /\ run'[q].at \notin {"same", "copying"} => run'[q].read = None
             /\ Open(q, run[q].cur)' => src'[run'[q].cur] # None
             /\ At(q, "same")' =>
                  /\ mode'.move /\ ArtOf[run'[q].cur] \subseteq excused'
                  /\ run'[q].read = None =>
                       /\ Whole(src'[run'[q].cur])
                       /\ clashed' = {} => lib'[run'[q].target] = src'[run'[q].cur]
  BY <1>1, <1>2, TakeAwayRun DEF Opened, Open, At, Files
<1>3. run'[r] = next
  BY TakeAwayRun
<1>4. SUFFICES ASSUME NEW q \in Procs
               PROVE  /\ run'[q].at \notin {"same", "copying"} => run'[q].read = None
                      /\ Open(q, run[q].cur)' => src'[run'[q].cur] # None
                      /\ At(q, "same")' =>
                           /\ mode'.move /\ ArtOf[run'[q].cur] \subseteq excused'
                           /\ run'[q].read = None =>
                                /\ Whole(src'[run'[q].cur])
                                /\ clashed' = {} => lib'[run'[q].target] = src'[run'[q].cur]
  BY DEF Opened
<1>5. CASE q = r
  BY <1>3, <1>5 DEF Open, At
<1>6. CASE q # r
  BY <1>2, <1>6 DEF Open, At
<1> QED
  BY <1>5, <1>6

(* What Unlink makes of the file that is being written.                      *)
LEMMA UnlinkWriting ==
  ASSUME TypeOK, NEW r \in Procs, NEW p \in Media, NEW next, Unlink(r, p, next)
  PROVE  /\ writing' \in [Media -> {Nowhere, Folder, Gone} \cup Targets]
         /\ \A q \in Media : q # p => writing'[q] = writing[q]
         /\ writing'[p] = IF writing[p] = Folder THEN Gone ELSE writing[p]
         /\ mistaken' = IF run[r].read = None THEN mistaken
                        ELSE mistaken \cup ({src[p]} \ {None})
         /\ mistaken' \subseteq Contents \cup {Part}
  BY DEF Unlink, TypeOK, Files

LEMMA DropDuplicateStep ==
  ASSUME Inv, NEW r \in Procs, DropDuplicate(r)
  PROVE  Inv'
<1> DEFINE p == run[r].cur
           t == run[r].target
           next == Onward(r)
<1>0. TypeOK /\ Modes /\ Sources /\ Writers /\ Claims /\ Opened /\ NothingLost /\ Unlisted /\ Sidecars
  BY DEF Inv
<1>1. /\ run[r] \in RunState /\ p \in Media /\ p \in Files /\ t \in Targets /\ At(r, "same")
      /\ mode.move /\ ArtOf[p] \subseteq excused
      /\ run[r].read = None => /\ Whole(src[p])
                               /\ clashed = {} => lib[t] = src[p]
  BY <1>0, InHandTypes DEF DropDuplicate, At, InHandStages, Opened
<1>2. /\ next \in RunState /\ next.at = "scan" /\ next.cur = None
      /\ next.art = {} /\ next.placed = run[r].placed /\ next.read = None
  BY <1>0, OnwardFields
<1>3. /\ Unlink(r, p, next)
      /\ UNCHANGED <<mode, lib, libArt, listed, dropped, given, clashed, unseen, excused>>
  BY DEF DropDuplicate
<1> HIDE DEF next
<1>4. TakeAway(r, p, next)
  BY <1>3 DEF Unlink
<1>5. /\ run' \in [Procs -> RunState] /\ run'[r] = next
      /\ \A q \in Procs : q # r =>
           /\ run'[q].at = run[q].at /\ run'[q].cur = run[q].cur
           /\ run'[q].target = run[q].target /\ run'[q].art = run[q].art
           /\ run'[q].placed = run[q].placed
      /\ src' \in [Files -> Contents \cup {None, Part, Picture}] /\ src'[p] = None
      /\ \A f \in Files : f # p => src'[f] = src[f]
  BY <1>0, <1>1, <1>2, <1>4, TakeAwayRun
<1>6. /\ writing' \in [Media -> {Nowhere, Folder, Gone} \cup Targets]
      /\ \A q \in Media : q # p => writing'[q] = writing[q]
      /\ writing'[p] = IF writing[p] = Folder THEN Gone ELSE writing[p]
      /\ mistaken' = IF run[r].read = None THEN mistaken ELSE mistaken \cup ({src[p]} \ {None})
      /\ mistaken' \subseteq Contents \cup {Part}
  BY <1>0, <1>1, <1>3, UnlinkWriting
<1>7. Opened'
  BY <1>0, <1>1, <1>2, <1>3, <1>4, TakenIsOpenNoMore
<1>8. TypeOK'
  BY <1>0, <1>1, <1>2, <1>3, <1>5, <1>6 DEF TypeOK, Files, None, Picture
<1>9. Modes'
  BY <1>0, <1>1, <1>2, <1>3, <1>5 DEF Modes, At, Files
<1>10. Sources'
  BY <1>0, <1>1, <1>5, <1>6, Places DEF Sources, Files, None, Part
<1>11. \A q \in Media : writing'[q] \in Targets => writing'[q] = writing[q]
  BY <1>6, Places
<1>12. Writers'
  BY <1>0, <1>3, <1>11 DEF Writers
<1>13. Claims'
  BY <1>0, <1>2, <1>3, <1>5, <1>11 DEF Claims, Aims, At
<1>14. DroppedIsKept'
  <2>1. ASSUME NEW c \in given, clashed = {}, c \notin mistaken'
        PROVE  (\E q \in Media : src'[q] = c) \/ \E u \in Targets : lib'[u] = c
    <3>1. c \notin mistaken /\ c # None
      BY <1>0, <1>6, <2>1, ImportAssumption DEF TypeOK
    <3>2. CASE src[p] = c
      BY <1>1, <1>3, <1>6, <2>1, <3>1, <3>2
    <3>3. CASE src[p] # c
      BY <1>0, <1>3, <1>5, <2>1, <3>1, <3>3 DEF NothingLost, DroppedIsKept, Files
    <3> QED
      BY <3>2, <3>3
  <2> QED
    BY <1>3, <2>1 DEF DroppedIsKept
<1>15. CutOffOnlyByCopying'
  <2>1. writing[p] = Folder => Part \in mistaken'
    BY <1>0, <1>1, <1>6 DEF Sources, Whole, None, Part
  <2>2. mistaken \subseteq mistaken'
    BY <1>6
  <2> QED
    BY <1>0, <1>1, <1>3, <1>6, <2>1, <2>2 DEF NothingLost, CutOffOnlyByCopying
<1>16. Unlisted'
  BY <1>0, <1>2, <1>3, <1>5, <1>11 DEF Unlisted, Missing
<1>17. Sidecars'
  BY <1>0, <1>1, <1>2, <1>3, <1>5, ImportAssumption DEF Sidecars, At, Files
<1> QED
  BY <1>7, <1>8, <1>9, <1>10, <1>12, <1>13, <1>14, <1>15, <1>16, <1>17 DEF Inv, NothingLost

LEMMA RenameStep ==
  ASSUME Inv, NEW r \in Procs, Rename(r)
  PROVE  Inv'
<1> DEFINE p == run[r].cur
           t == run[r].target
           next == Placed(r)
<1>0. TypeOK /\ Modes /\ Sources /\ Writers /\ Claims /\ Opened /\ NothingLost /\ Unlisted /\ Sidecars
  BY DEF Inv
<1>1. /\ run[r] \in RunState /\ p \in Media /\ p \in Files /\ t \in Targets
      /\ At(r, "free") /\ t \in {Base(p), Digest(p)} /\ mode.rename /\ src[p] # None
      /\ src[p] \in Contents \cup {None, Part} /\ mode.move
  BY <1>0, InHandTypes DEF Rename, At, InHandStages, TypeOK, Modes
<1>2. /\ next \in RunState /\ next.at = "artwork" /\ next.cur = p /\ next.target = t
      /\ next.art = run[r].art /\ next.placed = TRUE /\ next.read = None
  BY <1>1 DEF RunState, Placed
<1>3. /\ TakeAway(r, p, next)
      /\ lib' = [lib EXCEPT ![t] = src[p]]
      /\ writing' = [q \in Media |->
                       IF writing[q] = t THEN Gone
                       ELSE IF q = p /\ writing[p] = Folder THEN t ELSE writing[q]]
      /\ UNCHANGED <<mode, libArt, listed, dropped, given, clashed, mistaken, unseen, excused>>
  BY DEF Rename, history
<1> HIDE DEF next
<1>4. /\ run' \in [Procs -> RunState] /\ run'[r] = next
      /\ \A q \in Procs : q # r =>
           /\ run'[q].at = run[q].at /\ run'[q].cur = run[q].cur
           /\ run'[q].target = run[q].target /\ run'[q].art = run[q].art
           /\ run'[q].placed = run[q].placed
      /\ src' \in [Files -> Contents \cup {None, Part, Picture}] /\ src'[p] = None
      /\ \A f \in Files : f # p => src'[f] = src[f]
  BY <1>0, <1>1, <1>2, <1>3, TakeAwayRun
<1>5. /\ lib' \in [Targets -> Contents \cup {None, Part}] /\ lib'[t] = src[p]
      /\ \A u \in Targets : u # t => lib'[u] = lib[u]
  BY <1>0, <1>1, <1>3 DEF TypeOK
<1>6. /\ writing' \in [Media -> {Nowhere, Folder, Gone} \cup Targets]
      /\ \A q \in Media :
           \/ writing[q] = t /\ writing'[q] = Gone
           \/ q = p /\ writing[p] = Folder /\ writing'[p] = t
           \/ /\ writing[q] # t /\ (q = p => writing[p] # Folder)
              /\ writing'[q] = writing[q]
  BY <1>0, <1>1, <1>3 DEF TypeOK
<1>7. TypeOK'
  BY <1>0, <1>1, <1>2, <1>3, <1>4, <1>5, <1>6 DEF TypeOK, Files, None, Picture
<1>8. Modes'
  BY <1>0, <1>1, <1>2, <1>3, <1>4 DEF Modes, At, Files
<1>9. Sources'
  BY <1>0, <1>1, <1>4, <1>6, Places DEF Sources, Files, None, Part
<1>10. Writers'
  BY <1>0, <1>1, <1>3, <1>5, <1>6, Places DEF Writers
<1>11. Claims'
  BY <1>0, <1>1, <1>2, <1>3, <1>4, <1>5, <1>6, Places DEF Claims, Aims, At, Sources, None, Part
<1>12. DroppedIsKept'
  <2>1. ASSUME NEW c \in given, clashed = {}, c \notin mistaken
        PROVE  (\E q \in Media : src'[q] = c) \/ \E u \in Targets : lib'[u] = c
    <3>1. lib[t] = None /\ c # None
      BY <1>0, <1>1, <2>1, ImportAssumption DEF Claims, TypeOK
    <3>2. CASE src[p] = c
      BY <1>1, <1>5, <3>2
    <3>3. CASE src[p] # c
      BY <1>0, <1>4, <1>5, <2>1, <3>1, <3>3 DEF NothingLost, DroppedIsKept, Files
    <3> QED
      BY <3>2, <3>3
  <2> QED
    BY <1>3, <2>1 DEF DroppedIsKept
<1>13. CutOffOnlyByCopying'
  BY <1>0, <1>1, <1>3, <1>6, Places DEF NothingLost, CutOffOnlyByCopying, Claims, Writers, None, Part
<1>14. Unlisted'
  BY <1>2, <1>4 DEF Unlisted, Missing
<1>15. Sidecars'
  BY <1>0, <1>1, <1>2, <1>3, <1>4, ImportAssumption DEF Sidecars, At, Files
<1>16. Opened'
  <2>1. ASSUME clashed = {}, NEW q \in Procs, At(q, "same"), run[q].read = None
        PROVE  lib'[run[q].target] = lib[run[q].target]
    <3>1. run[q].target \in Targets /\ Whole(lib[run[q].target])
      BY <1>0, <2>1, InHandTypes DEF Opened, At, InHandStages
    <3>2. lib[t] = None
      BY <1>0, <1>1, <2>1 DEF Claims
    <3> QED
      BY <1>5, <3>1, <3>2 DEF Whole
  <2>2. clashed = {} => \A q \in Procs : At(q, "same") /\ run[q].read = None
                          => lib'[run[q].target] = lib[run[q].target]
    BY <2>1
  <2> QED
    BY <1>0, <1>1, <1>2, <1>3, <2>2, TakenIsOpenNoMore
<1> QED
  BY <1>7, <1>8, <1>9, <1>10, <1>11, <1>12, <1>13, <1>14, <1>15, <1>16 DEF Inv, NothingLost

LEMMA StartCopyStep ==
  ASSUME Inv, NEW r \in Procs, StartCopy(r)
  PROVE  Inv'
<1> DEFINE p == run[r].cur
           t == run[r].target
           next == [run[r] EXCEPT !.at = "copying"]
<1>0. TypeOK /\ Modes /\ Sources /\ Writers /\ Claims /\ Opened /\ NothingLost /\ Unlisted /\ Sidecars
  BY DEF Inv
<1>1. /\ run[r] \in RunState /\ p \in Media /\ p \in Files /\ t \in Targets
      /\ At(r, "free") /\ t \in {Base(p), Digest(p)} /\ ~mode.rename /\ src[p] # None
      /\ run[r].read = None
  BY <1>0, InHandTypes DEF StartCopy, At, InHandStages, TypeOK, Opened
<1>2. /\ next \in RunState /\ next.at = "copying" /\ next.cur = p /\ next.target = t
      /\ next.art = run[r].art /\ next.placed = run[r].placed /\ next.read = None
  BY <1>1 DEF RunState
<1>3. /\ Goto(r, next)
      /\ lib' = [lib EXCEPT ![t] = Part]
      /\ UNCHANGED <<mode, src, writing, libArt, listed, dropped, given, clashed, mistaken,
                     unseen, excused>>
  BY DEF StartCopy, history
<1> HIDE DEF next
<1>4. /\ run' \in [Procs -> RunState] /\ run'[r] = next
      /\ \A q \in Procs : q # r => run'[q] = run[q]
  BY <1>0, <1>2, <1>3, GotoRun
<1>5. /\ lib' \in [Targets -> Contents \cup {None, Part}] /\ lib'[t] = Part
      /\ \A u \in Targets : u # t => lib'[u] = lib[u]
  BY <1>0, <1>1, <1>3 DEF TypeOK
<1>6. TypeOK'
  BY <1>0, <1>1, <1>2, <1>3, <1>4, <1>5 DEF TypeOK
<1>7. Modes'
  BY <1>0, <1>1, <1>2, <1>3, <1>4 DEF Modes, At
<1>8. Sources'
  BY <1>0, <1>3 DEF Sources
<1>9. Writers'
  BY <1>0, <1>1, <1>3 DEF Writers
<1>10. Claims'
  BY <1>0, <1>1, <1>2, <1>3, <1>4, <1>5 DEF Claims, Aims, At, Writers
<1>11. clashed = {} => lib[t] = None
  BY <1>0, <1>1 DEF Claims
<1>12. DroppedIsKept'
  <2>1. ASSUME NEW c \in given, clashed = {}, c \notin mistaken
        PROVE  (\E q \in Media : src[q] = c) \/ \E u \in Targets : lib'[u] = c
    <3>1. c # None
      BY <1>0, ImportAssumption DEF TypeOK
    <3> QED
      BY <1>0, <1>5, <1>11, <2>1, <3>1 DEF NothingLost, DroppedIsKept
  <2> QED
    BY <1>3, <2>1 DEF DroppedIsKept
<1>13. CutOffOnlyByCopying'
  BY <1>0, <1>3 DEF NothingLost, CutOffOnlyByCopying
<1>14. Unlisted'
  BY <1>0, <1>2, <1>3, <1>4, <1>5 DEF Unlisted, Missing, Whole
<1>15. Sidecars'
  BY <1>0, <1>1, <1>2, <1>3, <1>4 DEF Sidecars, At
<1>16. Opened'
  <2>1. ASSUME NEW q \in Procs, q # r, At(q, "same"), run[q].read = None, clashed = {}
        PROVE  lib'[run[q].target] = src[run[q].cur]
    <3>1. run[q].target \in Targets /\ Whole(lib[run[q].target])
      BY <1>0, <2>1, InHandTypes DEF Opened, At, InHandStages
    <3> QED
      BY <1>0, <1>5, <1>11, <2>1, <3>1 DEF Opened, Whole
  <2> QED
    BY <1>0, <1>1, <1>2, <1>3, <1>4, <2>1 DEF Opened, Open, At
<1> QED
  BY <1>6, <1>7, <1>8, <1>9, <1>10, <1>12, <1>13, <1>14, <1>15, <1>16 DEF Inv, NothingLost

(* The copy that ends: the catalogue of cases of its files.                  *)
LEMMA FinishCopyFiles ==
  ASSUME Inv, NEW r \in Procs, FinishCopy(r)
  PROVE  LET p == run[r].cur
             t == run[r].target
         IN /\ src' \in [Files -> Contents \cup {None, Part, Picture}]
            /\ \A f \in Files : f # p => src'[f] = src[f]
            /\ src'[p] = IF KeepsSource THEN src[p] ELSE None
            /\ writing' \in [Media -> {Nowhere, Folder, Gone} \cup Targets]
            /\ \A q \in Media : q # p => writing'[q] = writing[q]
            /\ writing'[p] = IF ~KeepsSource /\ writing[p] = Folder THEN Gone ELSE writing[p]
            /\ mistaken \subseteq mistaken' /\ mistaken' \subseteq Contents \cup {Part}
            /\ ~KeepsSource /\ run[r].read # None /\ src[p] # None => src[p] \in mistaken'
            /\ lib' \in [Targets -> Contents \cup {None, Part}]
            /\ \A u \in Targets : u # t => lib'[u] = lib[u]
            /\ \/ t \in clashed
               \/ lib'[t] = IF run[r].read = None THEN src[p] ELSE run[r].read
<1> DEFINE p == run[r].cur
           t == run[r].target
           end == IF run[r].read = None THEN src[p] ELSE run[r].read
           fails == ~KeepsSource /\ src[p] = None
           next == IF fails THEN Onward(r) ELSE Placed(r)
<1>0. TypeOK
  BY DEF Inv
<1>1. /\ run[r] \in RunState /\ p \in Media /\ p \in Files /\ t \in Targets
      /\ src[p] \in Contents \cup {None, Part} /\ end \in Contents \cup {None, Part}
      /\ Part \in Contents \cup {None, Part}
  <2>1. At(r, "copying")
    BY DEF FinishCopy
  <2> QED
    BY <1>0, <2>1, InHandTypes DEF At, InHandStages, TypeOK, RunState
<1>2. PICK c \in {end} \cup (IF t \in clashed THEN {Part} ELSE {}) :
        lib' = [lib EXCEPT ![t] = c]
  BY DEF FinishCopy
<1>3. /\ lib' \in [Targets -> Contents \cup {None, Part}]
      /\ \A u \in Targets : u # t => lib'[u] = lib[u]
      /\ t \in clashed \/ lib'[t] = end
  BY <1>0, <1>1, <1>2 DEF TypeOK
<1>4. IF KeepsSource THEN UNCHANGED <<src, writing, mistaken>> ELSE Unlink(r, p, next)
  BY DEF FinishCopy
<1> HIDE DEF next, end
<1>5. CASE KeepsSource
  BY <1>0, <1>1, <1>3, <1>4, <1>5 DEF TypeOK, end
<1>6. CASE ~KeepsSource
  <2>1. /\ writing' \in [Media -> {Nowhere, Folder, Gone} \cup Targets]
        /\ \A q \in Media : q # p => writing'[q] = writing[q]
        /\ writing'[p] = IF writing[p] = Folder THEN Gone ELSE writing[p]
        /\ mistaken' = IF run[r].read = None THEN mistaken
                       ELSE mistaken \cup ({src[p]} \ {None})
        /\ mistaken' \subseteq Contents \cup {Part}
    BY <1>0, <1>1, <1>4, <1>6, UnlinkWriting
  <2>2. src' = [src EXCEPT ![p] = None]
    BY <1>4, <1>6 DEF Unlink, TakeAway
  <2> QED
    BY <1>0, <1>1, <1>3, <1>6, <2>1, <2>2 DEF TypeOK, end
<1> QED
  BY <1>5, <1>6

LEMMA FinishCopyStep ==
  ASSUME Inv, NEW r \in Procs, FinishCopy(r)
  PROVE  Inv'
<1> DEFINE p == run[r].cur
           t == run[r].target
           fails == ~KeepsSource /\ src[p] = None
           next == IF fails THEN Onward(r) ELSE Placed(r)
<1>0. TypeOK /\ Modes /\ Sources /\ Writers /\ Claims /\ Opened /\ NothingLost /\ Unlisted /\ Sidecars
  BY DEF Inv
<1>1. /\ run[r] \in RunState /\ p \in Media /\ p \in Files /\ t \in Targets
      /\ At(r, "copying") /\ t \in {Base(p), Digest(p)} /\ ~mode.rename
      /\ run[r].read = None => src[p] # None
  <2>1. At(r, "copying")
    BY DEF FinishCopy
  <2> QED
    BY <1>0, <2>1, InHandTypes DEF At, InHandStages, TypeOK, Modes, Opened, Open
<1>2. /\ next \in RunState /\ next.read = None
      /\ \/ /\ fails /\ next.at = "scan" /\ next.cur = None /\ next.art = {}
            /\ next.placed = run[r].placed
         \/ /\ ~fails /\ next.at = "artwork" /\ next.cur = p /\ next.target = t
            /\ next.art = run[r].art /\ next.placed = TRUE
  <2>1. LET go == Placed(r)
        IN /\ go \in RunState /\ go.at = "artwork" /\ go.cur = p /\ go.target = t
           /\ go.art = run[r].art /\ go.placed = TRUE /\ go.read = None
    BY <1>1 DEF RunState, Placed
  <2> QED
    BY <1>0, <2>1, OnwardFields
<1>3. /\ IF KeepsSource THEN Goto(r, next) /\ UNCHANGED <<src, writing, mistaken>>
         ELSE Unlink(r, p, next)
      /\ unseen' = (unseen \/ fails)
      /\ UNCHANGED <<mode, libArt, listed, dropped, given, clashed, excused>>
  BY DEF FinishCopy
<1> HIDE DEF next
<1>4. /\ run' \in [Procs -> RunState] /\ run'[r] = next
      /\ \A q \in Procs : q # r =>
           /\ run'[q].at = run[q].at /\ run'[q].cur = run[q].cur
           /\ run'[q].target = run[q].target /\ run'[q].art = run[q].art
           /\ run'[q].placed = run[q].placed
  BY <1>0, <1>1, <1>2, <1>3, GotoRun, TakeAwayRun DEF Unlink
<1>5. /\ src' \in [Files -> Contents \cup {None, Part, Picture}]
      /\ \A f \in Files : f # p => src'[f] = src[f]
      /\ src'[p] = IF KeepsSource THEN src[p] ELSE None
      /\ mistaken \subseteq mistaken' /\ mistaken' \subseteq Contents \cup {Part}
      /\ ~KeepsSource /\ run[r].read # None /\ src[p] # None => src[p] \in mistaken'
  BY FinishCopyFiles
<1>6. /\ writing' \in [Media -> {Nowhere, Folder, Gone} \cup Targets]
      /\ \A q \in Media : q # p => writing'[q] = writing[q]
      /\ writing'[p] = IF ~KeepsSource /\ writing[p] = Folder THEN Gone ELSE writing[p]
  BY FinishCopyFiles
<1>7. /\ lib' \in [Targets -> Contents \cup {None, Part}]
      /\ \A u \in Targets : u # t => lib'[u] = lib[u]
      /\ \/ t \in clashed
         \/ lib'[t] = IF run[r].read = None THEN src[p] ELSE run[r].read
  BY FinishCopyFiles
<1>8. clashed = {} => lib[t] = Part
  BY <1>0, <1>1 DEF Claims
<1>9. Opened'
  <2>1. ASSUME clashed = {}, NEW q \in Procs, At(q, "same"), run[q].read = None
        PROVE  lib'[run[q].target] = lib[run[q].target]
    <3>1. run[q].target \in Targets /\ Whole(lib[run[q].target])
      BY <1>0, <2>1, InHandTypes DEF Opened, At, InHandStages
    <3> QED
      BY <1>7, <1>8, <2>1, <3>1 DEF Whole
  <2>2. CASE KeepsSource
    <3>1. /\ \A q \in Procs : ~At(q, "same")
          /\ \A q \in Procs : q # r => run'[q] = run[q]
      BY <1>0, <1>2, <1>3, <2>2, GotoRun DEF Opened, KeepsSource
    <3> QED
      BY <1>0, <1>2, <1>3, <1>4, <2>2, <3>1 DEF Opened, Open, At
  <2>3. CASE ~KeepsSource
    <3>1. TakeAway(r, p, next) /\ next.at \notin {"same", "copying"}
      BY <1>2, <1>3, <2>3 DEF Unlink
    <3>2. clashed = {} => \A q \in Procs : At(q, "same") /\ run[q].read = None
                            => lib'[run[q].target] = lib[run[q].target]
      BY <2>1
    <3>3. next \in RunState /\ next.read = None /\ p \in Media
      BY <1>1, <1>2
    <3>4. UNCHANGED mode /\ excused \subseteq excused' /\ clashed' = clashed
      BY <1>3
    <3> QED
      BY <1>0, <3>1, <3>2, <3>3, <3>4, TakenIsOpenNoMore
  <2> QED
    BY <2>2, <2>3
<1>10. TypeOK'
  BY <1>0, <1>1, <1>2, <1>3, <1>4, <1>5, <1>6, <1>7 DEF TypeOK, Files, None, Picture
<1>11. Modes'
  BY <1>0, <1>1, <1>2, <1>3, <1>4, <1>5 DEF Modes, At, Files, KeepsSource
<1>12. Sources'
  BY <1>0, <1>1, <1>5, <1>6, Places DEF Sources, Files, None, Part
<1>13. \A q \in Media : writing'[q] \notin Targets
  BY <1>0, <1>1, <1>6, Places DEF Writers
<1>14. Writers'
  BY <1>13 DEF Writers
<1>15. Claims'
  <2>1. ASSUME NEW q \in Procs, run'[q].at \in {"free", "copying"}, clashed = {}
        PROVE  /\ q # r /\ run[q].at = run'[q].at /\ run'[q].target = run[q].target
               /\ run[q].target \in Targets /\ run[q].target # t
    <3>1. q # r /\ run[q].at = run'[q].at /\ run'[q].target = run[q].target
      BY <1>2, <1>4, <2>1
    <3> QED
      BY <1>0, <1>1, <2>1, <3>1, InHandTypes DEF Claims, Aims, At, InHandStages
  <2> QED
    BY <1>0, <1>3, <1>7, <1>13, <2>1 DEF Claims, Aims, At
<1>16. DroppedIsKept'
  <2>1. ASSUME NEW c \in given, clashed = {}, c \notin mistaken'
        PROVE  (\E q \in Media : src'[q] = c) \/ \E u \in Targets : lib'[u] = c
    <3>1. c \notin mistaken /\ c # None /\ c # Part
      BY <1>0, <1>5, <2>1, ImportAssumption DEF TypeOK
    <3>2. CASE src[p] = c
      BY <1>1, <1>5, <1>7, <2>1, <3>1, <3>2
    <3>3. CASE src[p] # c
      BY <1>0, <1>5, <1>7, <1>8, <2>1, <3>1, <3>3 DEF NothingLost, DroppedIsKept, Files
    <3> QED
      BY <3>2, <3>3
  <2> QED
    BY <1>3, <2>1 DEF DroppedIsKept
<1>17. CutOffOnlyByCopying'
  BY <1>0, <1>1, <1>3, <1>5, <1>6 DEF NothingLost, CutOffOnlyByCopying, Modes, KeepsSource
<1>18. Unlisted'
  BY <1>0, <1>2, <1>3, <1>4, <1>7, <1>13 DEF Unlisted, Missing
<1>19. Sidecars'
  BY <1>0, <1>1, <1>2, <1>3, <1>4, <1>5, ImportAssumption DEF Sidecars, At, Files
<1> QED
  BY <1>9, <1>10, <1>11, <1>12, <1>14, <1>15, <1>16, <1>17, <1>18, <1>19 DEF Inv, NothingLost

LEMMA PlaceArtworkStep ==
  ASSUME Inv, NEW r \in Procs, PlaceArtwork(r)
  PROVE  Inv'
<1> DEFINE t == run[r].target
           some == {a \in run[r].art : src[a] # None}
           taken == IF t \in libArt THEN {} ELSE some
           next == Onward(r)
<1>0. TypeOK /\ Modes /\ Sources /\ Writers /\ Claims /\ Opened /\ NothingLost /\ Unlisted /\ Sidecars
  BY DEF Inv
<1>1. /\ run[r] \in RunState /\ t \in Targets /\ At(r, "artwork") /\ run[r].art \subseteq Art
  BY <1>0, InHandTypes DEF PlaceArtwork, At, InHandStages, RunState
<1>2. /\ next \in RunState /\ next.at = "scan" /\ next.cur = None
      /\ next.art = {} /\ next.placed = run[r].placed /\ next.read = None
  BY <1>0, OnwardFields
<1>3. /\ Goto(r, next)
      /\ libArt' = IF taken = {} THEN libArt ELSE libArt \cup {t}
      /\ src' = [f \in Files |-> IF f \in taken /\ mode.move THEN None ELSE src[f]]
      /\ excused' = excused \cup (some \ taken)
      /\ UNCHANGED <<mode, writing, lib, listed, dropped, given, clashed, mistaken, unseen>>
  BY DEF PlaceArtwork
<1> HIDE DEF next
<1>4. /\ run' \in [Procs -> RunState] /\ run'[r] = next
      /\ \A q \in Procs : q # r => run'[q] = run[q]
  BY <1>0, <1>2, <1>3, GotoRun
<1>5. /\ taken \subseteq Art /\ some \subseteq Art
      /\ \A a \in run[r].art : src[a] # None => a \in taken \/ a \in excused'
  BY <1>1, <1>3
<1>6. /\ src' \in [Files -> Contents \cup {None, Part, Picture}]
      /\ \A p \in Media : p \in Files /\ src'[p] = src[p]
      /\ \A f \in Files : src'[f] = IF f \in taken /\ mode.move THEN None ELSE src[f]
  BY <1>0, <1>3, <1>5, ImportAssumption DEF TypeOK, Files
<1> HIDE DEF some, taken
<1>7. TypeOK'
  BY <1>0, <1>1, <1>2, <1>3, <1>4, <1>5, <1>6 DEF TypeOK
<1>8. Modes'
  BY <1>0, <1>1, <1>2, <1>3, <1>4, <1>6 DEF Modes, At
<1>9. Sources' /\ Writers'
  BY <1>0, <1>3, <1>6 DEF Sources, Writers
<1>10. Claims'
  BY <1>0, <1>2, <1>3, <1>4 DEF Claims, Aims, At
<1>11. NothingLost'
  BY <1>0, <1>3, <1>6 DEF NothingLost, DroppedIsKept, CutOffOnlyByCopying
<1>12. Unlisted'
  BY <1>0, <1>2, <1>3, <1>4 DEF Unlisted, Missing
<1>14. Opened'
  <2>1. excused \subseteq excused' /\ UNCHANGED <<mode, lib, clashed>>
    BY <1>3
  <2>2. \A q \in Procs : run[q].at \in {"same", "copying"} =>
          /\ q # r /\ run[q].cur \in Media /\ src'[run[q].cur] = src[run[q].cur]
    BY <1>0, <1>1, <1>6 DEF TypeOK, At
  <2> QED
    BY <1>0, <1>1, <1>2, <1>4, <2>1, <2>2 DEF Opened, Open, At
<1>13. Sidecars'
  <2>1. ASSUME NEW p \in Media, NEW a \in ArtOf[p], src'[a] # None, a \notin excused'
        PROVE  /\ \A q \in Procs : run'[q].cur = p => a \in run'[q].art
               /\ src'[p] = None /\ p \in dropped' =>
                    \E q \in Procs : At(q, "artwork")' /\ run'[q].cur = p
    <3>1. a \in Files /\ src[a] # None /\ a \notin excused
      BY <1>3, <1>6, <2>1, ImportAssumption DEF Files
    <3>2. \A q \in Procs : run'[q].cur = p => a \in run'[q].art
      BY <1>0, <1>2, <1>4, <3>1, ImportAssumption DEF Sidecars
    <3>3. ASSUME src'[p] = None, p \in dropped'
          PROVE  \E q \in Procs : At(q, "artwork")' /\ run'[q].cur = p
      <4>1. mode.move /\ src[p] = None /\ p \in dropped
        BY <1>0, <1>3, <1>6, <3>3 DEF Modes
      <4>2. PICK q \in Procs : At(q, "artwork") /\ run[q].cur = p
        BY <1>0, <3>1, <4>1 DEF Sidecars
      <4>3. q # r
        BY <1>0, <1>5, <1>6, <2>1, <3>1, <4>1, <4>2 DEF Sidecars
      <4> QED
        BY <1>4, <4>2, <4>3 DEF At
    <3> QED
      BY <3>2, <3>3
  <2> QED
    BY <2>1 DEF Sidecars
<1> QED
  BY <1>7, <1>8, <1>9, <1>10, <1>11, <1>12, <1>13, <1>14 DEF Inv

-----------------------------------------------------------------------------
(* The scan and the user                                                    *)

LEMMA TargetsFinite == IsFiniteSet(Targets)
<1> DEFINE base == [p \in Media |-> Base(p)]
           digest == [p \in Media |-> Digest(p)]
<1>1. IsFiniteSet({Base(p) : p \in Media})
  <2>1. base \in Surjection(Media, {Base(p) : p \in Media})
    BY DEF Surjection
  <2> QED
    BY <2>1, FS_Surjection, ImportAssumption
<1>2. IsFiniteSet({Digest(p) : p \in Media})
  <2>1. digest \in Surjection(Media, {Digest(p) : p \in Media})
    BY DEF Surjection
  <2> QED
    BY <2>1, FS_Surjection, ImportAssumption
<1> QED
  BY <1>1, <1>2, FS_Union DEF Targets

LEMMA DiscoverStep ==
  ASSUME Inv, NEW r \in Procs, Discover(r)
  PROVE  Inv'
<1> DEFINE next == Stopped(r)
<1>0. TypeOK /\ Modes /\ Sources /\ Writers /\ Claims /\ Opened /\ NothingLost /\ Unlisted /\ Sidecars
  BY DEF Inv
<1>1. /\ next \in RunState /\ next.at \in {"idle", "exit"} /\ next.cur = None
      /\ next.art = {} /\ next.placed = FALSE /\ next.read = None
  BY StoppedFields
<1>2. /\ Goto(r, next) /\ At(r, "discover")
      /\ UNCHANGED <<mode, src, writing, lib, libArt, dropped, given, clashed, mistaken, excused>>
  BY DEF Discover
<1>3. PICK S \in Scans : listed' = listed \cup S
  BY DEF Discover
<1> HIDE DEF next
<1>4. /\ run' \in [Procs -> RunState] /\ run'[r] = next
      /\ \A q \in Procs : q # r => run'[q] = run[q]
  BY <1>0, <1>1, <1>2, GotoRun
<1>5. /\ S \subseteq InLibrary /\ InLibrary \subseteq Targets
      /\ S = InLibrary \/ Cardinality(S) = LibraryLimit
  BY <1>3 DEF Scans, InLibrary
<1>6. TypeOK'
  BY <1>0, <1>1, <1>2, <1>3, <1>4, <1>5 DEF TypeOK
<1>7. Modes'
  BY <1>0, <1>1, <1>2, <1>4 DEF Modes, At
<1>8. Sources' /\ Writers' /\ NothingLost'
  BY <1>0, <1>2 DEF Sources, Writers, NothingLost, DroppedIsKept, CutOffOnlyByCopying
<1>9. Claims'
  BY <1>0, <1>1, <1>2, <1>4 DEF Claims, Aims, At
<1>10. Unlisted'
  <2>1. CASE S = InLibrary
    BY <1>0, <1>2, <1>3, <2>1 DEF Unlisted, Missing, InLibrary, Whole, Writers
  <2>2. CASE Cardinality(S) = LibraryLimit
    <3>1. IsFiniteSet(listed') /\ S \subseteq listed'
      BY <1>3, <1>6, TargetsFinite, FS_Subset DEF TypeOK
    <3>2. Cardinality(S) <= Cardinality(listed')
      BY <3>1, FS_Subset
    <3> QED
      BY <2>2, <3>1, <3>2, FS_CardinalityType, ImportAssumption DEF Unlisted
  <2> QED
    BY <1>5, <2>1, <2>2
<1>11. Sidecars'
  BY <1>0, <1>1, <1>2, <1>4, ImportAssumption DEF Sidecars, At
<1>12. Opened'
  BY <1>0, <1>1, <1>2, <1>4 DEF Opened, Open, At
<1> QED
  BY <1>6, <1>7, <1>8, <1>9, <1>10, <1>11, <1>12 DEF Inv

LEMMA FinishWritingStep ==
  ASSUME Inv, NEW p \in Media, NEW c \in Contents, FinishWriting(p, c)
  PROVE  Inv'
<1>0. TypeOK /\ Modes /\ Sources /\ Writers /\ Claims /\ Opened /\ NothingLost /\ Unlisted /\ Sidecars
  BY DEF Inv
<1>1. /\ p \in Files /\ Whole(c) /\ c # Picture /\ writing[p] \in {Folder} \cup Targets
  BY <1>0, ImportAssumption DEF Files, FinishWriting, TypeOK, Whole
<1>2. /\ src' = IF writing[p] = Folder THEN [src EXCEPT ![p] = c] ELSE src
      /\ lib' = [t \in Targets |-> IF t = writing[p] THEN c ELSE lib[t]]
      /\ writing' = [writing EXCEPT ![p] = Nowhere]
      /\ given' = given \cup {c}
      /\ UNCHANGED <<mode, libArt, listed, run, dropped, clashed, mistaken, unseen, excused>>
  BY DEF FinishWriting
<1>3. /\ src' \in [Files -> Contents \cup {None, Part, Picture}]
      /\ \A f \in Files : f # p => src'[f] = src[f]
      /\ src'[p] = IF writing[p] = Folder THEN c ELSE src[p]
  BY <1>0, <1>1, <1>2 DEF TypeOK
<1>4. /\ lib' \in [Targets -> Contents \cup {None, Part}]
      /\ \A t \in Targets : lib'[t] = IF t = writing[p] THEN c ELSE lib[t]
  BY <1>0, <1>1, <1>2 DEF TypeOK
<1>5. /\ writing' \in [Media -> {Nowhere, Folder, Gone} \cup Targets]
      /\ writing'[p] = Nowhere /\ \A q \in Media : q # p => writing'[q] = writing[q]
  BY <1>0, <1>2 DEF TypeOK
<1>6. TypeOK'
  BY <1>0, <1>1, <1>2, <1>3, <1>4, <1>5 DEF TypeOK, Files
<1>7. Modes'
  BY <1>0, <1>1, <1>2, <1>3 DEF Modes, At, Files, Sources, Whole, None, Part
<1>8. Sources'
  BY <1>0, <1>1, <1>3, <1>5, Places DEF Sources, Files, Whole
<1>9. Writers'
  BY <1>0, <1>1, <1>2, <1>4, <1>5, Places DEF Writers, Whole
<1>10. writing[p] \in Targets => mode.rename /\ (clashed = {} => lib[writing[p]] = Part)
  BY <1>0 DEF Claims, Writers
<1>11. Claims'
  <2>1. ASSUME clashed = {}, writing[p] \in Targets
        PROVE  /\ \A r \in Procs : ~Aims(r, writing[p])
               /\ \A q \in Media : q # p => writing[q] # writing[p]
    BY <1>0, <1>10, <2>1 DEF Claims, Aims, At, Modes, Writers, None, Part
  <2> QED
    BY <1>0, <1>1, <1>2, <1>4, <1>5, <2>1, Places, InHandTypes
    DEF Claims, Aims, At, InHandStages
<1>12. DroppedIsKept'
  <2>1. ASSUME NEW d \in given', clashed = {}, d \notin mistaken
        PROVE  (\E q \in Media : src'[q] = d) \/ \E u \in Targets : lib'[u] = d
    <3>1. CASE d = c
      BY <1>1, <1>3, <1>4, <3>1
    <3>2. CASE d # c
      <4>1. d \in given /\ d # Part
        BY <1>0, <1>2, <2>1, <3>2, ImportAssumption DEF TypeOK
      <4>2. writing[p] = Folder => src[p] = Part
        BY <1>0 DEF Sources
      <4> QED
        BY <1>0, <1>3, <1>4, <1>10, <2>1, <4>1, <4>2 DEF NothingLost, DroppedIsKept, Files
    <3> QED
      BY <3>1, <3>2
  <2> QED
    BY <1>2, <2>1 DEF DroppedIsKept
<1>13. CutOffOnlyByCopying'
  BY <1>0, <1>2, <1>5, Places DEF NothingLost, CutOffOnlyByCopying
<1>14. Unlisted'
  BY <1>0, <1>1, <1>2, <1>4, <1>5, Places DEF Unlisted, Missing
<1>15. Sidecars'
  BY <1>0, <1>1, <1>2, <1>3, ImportAssumption DEF Sidecars, At, Files, Whole, Sources, None, Part
<1>16. Opened'
  <2>1. ASSUME NEW r \in Procs, Open(r, run[r].cur)
        PROVE  src'[run[r].cur] # None
    BY <1>0, <1>1, <1>3, <2>1 DEF Opened, Open, Whole, Files, TypeOK
  <2>2. ASSUME NEW r \in Procs, At(r, "same"), run[r].read = None
        PROVE  /\ Whole(src'[run[r].cur])
               /\ clashed = {} => lib'[run[r].target] = src'[run[r].cur]
    <3>1. /\ run[r].cur \in Media /\ run[r].target \in Targets /\ Whole(src[run[r].cur])
          /\ clashed = {} => lib[run[r].target] = src[run[r].cur]
      BY <1>0, <2>2, InHandTypes DEF Opened, At, InHandStages
    <3>2. run[r].cur = p => writing[p] # Folder
      BY <1>0, <3>1 DEF Sources, Whole
    <3>3. src'[run[r].cur] = src[run[r].cur]
      BY <1>3, <3>1, <3>2 DEF Files
    <3>4. clashed = {} => run[r].target # writing[p]
      BY <1>10, <3>1 DEF Whole
    <3> QED
      BY <1>4, <3>1, <3>3, <3>4
  <2> QED
    BY <1>0, <1>2, <2>1, <2>2 DEF Opened, Open, At
<1> QED
  BY <1>6, <1>7, <1>8, <1>9, <1>11, <1>12, <1>13, <1>14, <1>15, <1>16 DEF Inv, NothingLost

LEMMA DropStep ==
  ASSUME Inv, NEW f \in Files, NEW c \in Contents \cup {Part, Picture}, Drop(f, c)
  PROVE  Inv'
<1>0. TypeOK /\ Modes /\ Sources /\ Writers /\ Claims /\ Opened /\ NothingLost /\ Unlisted /\ Sidecars
  BY DEF Inv
<1>1. /\ src[f] = None /\ c \in IF f \in Media THEN Contents \cup {Part} ELSE {Picture}
      /\ f \in Media => writing[f] \in {Nowhere, Gone}
      /\ src' = [src EXCEPT ![f] = c]
      /\ writing' = [p \in Media |-> IF p # f THEN writing[p]
                                     ELSE IF c = Part THEN Folder ELSE Nowhere]
      /\ dropped' = dropped \cup {f} /\ given' = given \cup ({c} \cap Contents)
      /\ excused' = IF f \in Media THEN excused
                    ELSE IF Late(f) THEN excused \cup {f} ELSE excused \ {f}
      /\ UNCHANGED <<mode, lib, libArt, listed, run, clashed, mistaken, unseen>>
  BY DEF Drop
<1>2. /\ src' \in [Files -> Contents \cup {None, Part, Picture}] /\ src'[f] = c
      /\ \A g \in Files : g # f => src'[g] = src[g]
  BY <1>0, <1>1 DEF TypeOK
<1>3. /\ writing' \in [Media -> {Nowhere, Folder, Gone} \cup Targets]
      /\ \A p \in Media : p # f => writing'[p] = writing[p]
      /\ f \in Media => writing'[f] = IF c = Part THEN Folder ELSE Nowhere
  BY <1>0, <1>1 DEF TypeOK
<1>4. excused' \subseteq Art
  BY <1>0, <1>1 DEF TypeOK, Files
<1>5. c # None /\ (f \in Media => c # Picture) /\ (f \notin Media => f \in Art)
  BY <1>1, ImportAssumption DEF None, Part, Picture, Files
<1>6. TypeOK'
  BY <1>0, <1>1, <1>2, <1>3, <1>4, <1>5 DEF TypeOK, Files
<1>7. Modes'
  BY <1>0, <1>1, <1>2, <1>5 DEF Modes, At, Files
<1>8. Sources'
  BY <1>0, <1>1, <1>2, <1>3, <1>5, Places DEF Sources, Files
<1>9. Writers'
  BY <1>0, <1>1, <1>3, Places DEF Writers
<1>10. Claims'
  BY <1>0, <1>1, <1>3, Places DEF Claims, Aims, At
<1>11. DroppedIsKept'
  <2>1. ASSUME NEW d \in given', clashed = {}, d \notin mistaken
        PROVE  (\E q \in Media : src'[q] = d) \/ \E u \in Targets : lib[u] = d
    <3>1. CASE d \in given
      <4>1. d # None
        BY <1>0, <3>1, ImportAssumption DEF TypeOK
      <4> QED
        BY <1>0, <1>1, <1>2, <2>1, <3>1, <4>1 DEF NothingLost, DroppedIsKept, Files
    <3>2. CASE d \notin given
      <4>1. d = c /\ c \in Contents /\ f \in Media
        BY <1>1, <2>1, <3>2, ImportAssumption
      <4> QED
        BY <1>2, <4>1
    <3> QED
      BY <3>1, <3>2
  <2> QED
    BY <1>1, <2>1 DEF DroppedIsKept
<1>12. CutOffOnlyByCopying'
  BY <1>0, <1>1, <1>3, Places DEF NothingLost, CutOffOnlyByCopying
<1>13. Unlisted'
  BY <1>0, <1>1, <1>3, Places DEF Unlisted, Missing
<1>14. Sidecars'
  <2>1. ASSUME NEW p \in Media, NEW a \in ArtOf[p], src'[a] # None, a \notin excused'
        PROVE  /\ \A q \in Procs : run[q].cur = p => a \in run[q].art
               /\ src'[p] = None /\ p \in dropped' =>
                    \E q \in Procs : At(q, "artwork") /\ run[q].cur = p
    <3>1. a \in Files /\ a \notin Media /\ p \in Files
      BY ImportAssumption DEF Files
    <3>2. CASE a = f
      BY <1>1, <1>2, <2>1, <3>1, <3>2 DEF Late, InHand
    <3>3. CASE a # f
      BY <1>0, <1>1, <1>2, <1>5, <2>1, <3>1, <3>3 DEF Sidecars, None, Part
    <3> QED
      BY <3>2, <3>3
  <2> QED
    BY <1>1, <2>1 DEF Sidecars, At
<1>15. Opened'
  <2>1. ASSUME NEW r \in Procs, Open(r, run[r].cur)
        PROVE  run[r].cur \in Media /\ run[r].cur # f /\ src'[run[r].cur] = src[run[r].cur]
    BY <1>0, <1>1, <1>2, <2>1 DEF Opened, Open, TypeOK, Files
  <2>2. ASSUME NEW r \in Procs, At(r, "same")
        PROVE  ArtOf[run[r].cur] \subseteq excused'
    <3>1. run[r].cur \in Media /\ ArtOf[run[r].cur] \subseteq excused
      BY <1>0, <2>2 DEF Opened, TypeOK, At
    <3>2. f \in ArtOf[run[r].cur] => Late(f)
      BY <3>1 DEF Late, InHand
    <3> QED
      BY <1>1, <3>1, <3>2
  <2> QED
    BY <1>0, <1>1, <2>1, <2>2 DEF Opened, Open, At
<1> QED
  BY <1>6, <1>7, <1>8, <1>9, <1>10, <1>11, <1>12, <1>13, <1>14, <1>15 DEF Inv, NothingLost

-----------------------------------------------------------------------------
(* Theorems                                                                 *)

LEMMA Initially == Init => Inv
<1> SUFFICES ASSUME Init PROVE Inv
  OBVIOUS
<1>1. mode \in [move : BOOLEAN, rename : BOOLEAN] /\ (mode.rename => mode.move)
  BY DEF Init
<1>2. /\ src = AtStart /\ src \in [Files -> Contents \cup {None, Part, Picture}]
      /\ \A p \in Media : src[p] \in Contents \cup {None}
      /\ dropped = {f \in Files : src[f] # None}
      /\ given = {c \in Contents : \E p \in Media : src[p] = c}
  BY ImportAssumption DEF Init, Files
<1>3. \A r \in Procs :
        /\ run[r] \in RunState /\ run[r].at = "idle" /\ run[r].cur = None
        /\ run[r].placed = FALSE /\ run[r].read = None
  <2>1. ASSUME NEW r \in Procs
        PROVE  LET first == [Stopped(r) EXCEPT !.at = "idle"]
               IN /\ first \in RunState /\ first.at = "idle" /\ first.cur = None
                  /\ first.placed = FALSE /\ first.read = None
    <3> DEFINE old == Stopped(r)
    <3>1. old \in RunState /\ old.cur = None /\ old.placed = FALSE /\ old.read = None
      BY StoppedFields
    <3> HIDE DEF old
    <3>2. LET first == [old EXCEPT !.at = "idle"]
          IN /\ first \in RunState /\ first.at = "idle" /\ first.cur = None
             /\ first.placed = FALSE /\ first.read = None
      BY <3>1 DEF RunState
    <3> QED
      BY <3>2 DEF old
  <2> QED
    BY <2>1 DEF Init
<1>4. run \in [Procs -> RunState]
  BY <1>3 DEF Init
<1>5. /\ \A p \in Media : p \in Files /\ writing[p] = Nowhere
      /\ \A t \in Targets : lib[t] = None
      /\ clashed = {} /\ mistaken = {}
  BY DEF Init, Files
<1>6. TypeOK
  BY <1>1, <1>2, <1>3, <1>4, <1>5, ImportAssumption DEF TypeOK, Init, None, Picture
<1>7. Modes
  BY <1>1, <1>2, <1>3 DEF Modes, At
<1>8. Sources /\ Writers
  BY <1>2, <1>5, Places, ImportAssumption DEF Sources, Writers, None, Part
<1>9. Claims
  BY <1>3, <1>5, Places DEF Claims, Aims, At
<1>10. NothingLost
  BY <1>2, <1>5, Places DEF NothingLost, DroppedIsKept, CutOffOnlyByCopying
<1>11. Unlisted
  BY <1>5, Places DEF Unlisted, Missing, Whole
<1>12. Sidecars
  BY <1>2, <1>3, <1>5, ImportAssumption DEF Sidecars
<1>13. Opened
  BY <1>3 DEF Opened, Open, At
<1> QED
  BY <1>6, <1>7, <1>8, <1>9, <1>10, <1>11, <1>12, <1>13 DEF Inv

LEMMA Inductive == Inv /\ [Next]_vars => Inv'
<1> SUFFICES ASSUME Inv, [Next]_vars PROVE Inv'
  OBVIOUS
<1>1. ASSUME NEW f \in Files, NEW c \in Contents \cup {Part, Picture}, Drop(f, c) PROVE Inv'
  BY <1>1, DropStep
<1>2. ASSUME NEW p \in Media, NEW c \in Contents, FinishWriting(p, c) PROVE Inv'
  BY <1>2, FinishWritingStep
<1>3. ASSUME NEW r \in Procs, RunStep(r) PROVE Inv'
  BY <1>3, BeginStep, VisitStep, ExamineStep, DropDuplicateStep, SourceGoneStep, RenameStep, StartCopyStep,
     FinishCopyStep, PlaceArtworkStep, EndScanStep, DiscoverStep DEF RunStep
<1>4. ASSUME NEW r \in Procs, Fault(r) PROVE Inv'
  BY <1>4, SourceGoneStep, ArtworkFailsStep, CrashStep DEF Fault
<1>5. CASE UNCHANGED vars
  <2>1. /\ TypeOK' /\ Modes' /\ Sources' /\ Writers' /\ Claims'
    BY <1>5 DEF vars, history, Inv, TypeOK, Modes, Sources, Writers, Claims, Aims, At
  <2>2. NothingLost' /\ Unlisted' /\ Sidecars' /\ Opened'
    BY <1>5 DEF vars, history, Inv, NothingLost, DroppedIsKept, CutOffOnlyByCopying, Unlisted,
                Missing, Sidecars, Opened, Open, At
  <2> QED
    BY <2>1, <2>2 DEF Inv
<1> QED
  BY <1>1, <1>2, <1>3, <1>4, <1>5 DEF Next

(* The invariant: who may write where, in the folder and in the library,    *)
(* and who answers for what is not listed or not placed yet.                *)
THEOREM Invariance == Spec => []Inv
<1> QED
  BY Initially, Inductive, PTL DEF Spec

(* Folder, library, catalogue and runs keep their types (organize_once).    *)
THEOREM TypeCorrect == Spec => []TypeOK
<1>1. Inv => TypeOK
  BY DEF Inv
<1> QED
  BY <1>1, Invariance, PTL

(* What the user dropped is whole in the folder or in the library and is    *)
(* cut off only by a copying move, unless two runs found one name free at   *)
(* one time, or one deleted what came in the place of the file it had read, *)
(* which the other had taken (_place_file).                                 *)
THEOREM NothingLostHolds == Spec => []NothingLost
<1>1. Inv => NothingLost
  BY DEF Inv
<1> QED
  BY <1>1, Invariance, PTL

(* When no run is under way, artwork stays in the folder without its file   *)
(* only for one of the reasons recorded (_place_related_artwork).           *)
THEOREM ArtworkFollowsHolds == Spec => []ArtworkFollows
<1>1. Inv => ArtworkFollows
  BY DEF Inv, Sidecars, ArtworkFollows, Quiet, At
<1> QED
  BY <1>1, Invariance, PTL

(* When no run is under way the catalogue has every whole file of the       *)
(* library, or as many as the scan's limit admits, unless a run ended       *)
(* before its scan (organize_imports).                                      *)
THEOREM ImportedIsListedHolds == Spec => []ImportedIsListed
<1>1. Inv => ImportedIsListed
  BY DEF Inv, Unlisted, Missing, Modes, ImportedIsListed, Quiet
<1> QED
  BY <1>1, Invariance, PTL
=============================================================================
