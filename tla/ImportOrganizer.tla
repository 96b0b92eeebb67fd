--------------------------- MODULE ImportOrganizer ---------------------------
(***************************************************************************)
(* The import organizer of BunkerMedia: media files that appear in a watch *)
(* folder are moved or copied into the organized library, artwork with the *)
(* same stem follows, and a scan of the library enters what was placed in  *)
(* the catalogue.                                                          *)
(*                                                                         *)
(* A run is one call of organize_once with the scan after it. It is plain  *)
(* synchronous code, so the runs of one process never overlap, but the     *)
(* server's periodic run and `bunker imports-organize` are two processes   *)
(* on the same directories: every look at the disk is a step of its own,   *)
(* and a process may die between any two.                                  *)
(***************************************************************************)
EXTENDS Naturals, FiniteSets

CONSTANTS
  Media,        \* paths of media files in the watch folder
  Art,          \* paths of artwork files in the watch folder
  ArtOf,        \* the artwork with the stem of a media path: [Media -> SUBSET Art]
  Names,        \* type, collection, sanitized stem and suffix of a file
  NameOf,       \* the name a media path gets in the library: [Media -> Names]
  Contents,     \* what media files can hold
  Server,       \* the process that organizes imports again and again
  Clis,         \* the processes of `bunker imports-organize`: one run each
  AtStart,      \* bound: what the folder holds when the server starts
  ScanLimit,    \* import_scan_limit
  LibraryLimit, \* the files of the library that the scan after a run lists at
                \* most: what the folders before it leave of its limit, 2000
  MaxEvents     \* bound: files dropped after the start, command line runs,
                \* crashes and I/O errors, counted together

Files == Media \cup Art

None == "none"
Part == "part"         \* a file that is cut off, or not complete yet
Picture == "picture"   \* what artwork holds: nobody looks
Whole(c) == c \notin {None, Part}

ASSUME ImportAssumption ==
  /\ Media \cap Art = {} /\ None \notin Media /\ IsFiniteSet(Media)
  /\ Contents \cap {None, Part, Picture} = {}
  /\ ArtOf \in [Media -> SUBSET Art]
  /\ NameOf \in [Media -> Names]
  /\ AtStart \in [Files -> Contents \cup {None, Picture}]
  /\ \A f \in Files : AtStart[f] \in {None} \cup (IF f \in Media THEN Contents ELSE {Picture})
  /\ ScanLimit \in Nat \ {0} /\ LibraryLimit \in Nat /\ MaxEvents \in Nat

VARIABLES
  mode,      \* import_move_mode; rename: a move within one filesystem
  src,       \* the watch folder
  writing,   \* where the bytes of a file that is still being written go
  lib,       \* the media files of the organized library
  libArt,    \* the media files of the library that have artwork beside them
  listed,    \* the library files the catalogue has
  run,       \* the run of each process
  dropped,   \* history: the paths that ever had a file
  given,     \* history: what the user's complete media files held
  events,    \* the events that MaxEvents bounds, so far
  clashed,   \* history: library names two runs found free at one time
  mistaken,  \* history: what runs deleted in place of the file they had read
  unseen,    \* history: a run placed a file and died before the scan, or took
             \* the loss of its source for a failure
  excused    \* history: artwork with a reason to stay behind

history == <<dropped, given, clashed, mistaken, unseen, excused>>
vars == <<mode, src, writing, lib, libArt, listed, run, events, history>>

Procs == {Server} \cup Clis

(* Where the bytes of a file that is being written go: nowhere (it is        *)
(* whole), its place in the folder, a library file, or an unlinked inode.   *)
Nowhere == << >>
Folder == <<"folder">>
Gone == <<"gone">>

Base(p) == <<NameOf[p], "base">>
Digest(p) == <<NameOf[p], p>>     \* "stem [digest of the source path]"
Targets == {Base(p) : p \in Media} \cup {Digest(p) : p \in Media}

(* at: what the run does next. list: the files of the folder it has yet to  *)
(* look at. room: scan_limit - scanned. cur, target, art: the file in hand. *)
(* read: what it held when another run took it away from under this one.    *)
(* placed: organized > 0.                                                   *)
Stopped(r) == [at |-> IF r = Server THEN "idle" ELSE "exit", list |-> {}, room |-> 0,
               cur |-> None, target |-> Nowhere, art |-> {}, read |-> None,
               placed |-> FALSE]

Init ==
  /\ mode \in {m \in [move : BOOLEAN, rename : BOOLEAN] : m.rename => m.move}
  /\ src = AtStart
  /\ writing = [p \in Media |-> Nowhere]
  /\ lib = [t \in Targets |-> None]
  /\ libArt = {}
  /\ listed = {}
  /\ run = [r \in Procs |-> [Stopped(r) EXCEPT !.at = "idle"]]
  /\ dropped = {f \in Files : AtStart[f] # None}
  /\ given = {c \in Contents : \E p \in Media : AtStart[p] = c}
  /\ events = 0
  /\ clashed = {}
  /\ mistaken = {}
  /\ unseen = FALSE
  /\ excused = {}

-----------------------------------------------------------------------------
(* The user drops files (some were there before the server started), after  *)
(* a while perhaps another file at the same path, but never over one that   *)
(* is still there. A large file takes its time. One that is renamed while   *)
(* it is written keeps growing under its new name; one that was unlinked    *)
(* takes the rest of its bytes with it.                                     *)

Counted(b) == /\ events' = events + (IF b THEN 1 ELSE 0)
              /\ events' <= MaxEvents


InHand(p) == {r \in Procs : run[r].cur = p}

Late(a) == \E p \in Media : a \in ArtOf[p] /\ (src[p] = None \/ InHand(p) # {})

Drop(f, c) ==
  /\ src[f] = None
  /\ f \in Media => writing[f] \in {Nowhere, Gone}
  /\ c \in IF f \in Media THEN Contents \cup {Part} ELSE {Picture}
  /\ src' = [src EXCEPT ![f] = c]
  /\ writing' = [p \in Media |-> IF p # f THEN writing[p]
                                 ELSE IF c = Part THEN Folder ELSE Nowhere]
  /\ dropped' = dropped \cup {f}
  /\ given' = given \cup ({c} \cap Contents)
  /\ Counted(TRUE)
  /\ excused' = IF f \in Media THEN excused
                ELSE IF Late(f) THEN excused \cup {f} ELSE excused \ {f}
  /\ UNCHANGED <<mode, lib, libArt, listed, run, clashed, mistaken, unseen>>

FinishWriting(p, c) ==
  /\ writing[p] \notin {Nowhere, Gone}
  /\ src' = IF writing[p] = Folder THEN [src EXCEPT ![p] = c] ELSE src
  /\ lib' = [t \in Targets |-> IF t = writing[p] THEN c ELSE lib[t]]
  /\ writing' = [writing EXCEPT ![p] = Nowhere]
  /\ given' = given \cup {c}
  /\ UNCHANGED <<mode, libArt, listed, run, events, dropped, clashed, mistaken, unseen,
                 excused>>

-----------------------------------------------------------------------------
(* organize_once                                                            *)

At(r, where) == run[r].at = where
Goto(r, next) == run' = [run EXCEPT ![r] = next]

(* The next file; the one in hand is done with.                             *)
Onward(r) == [run[r] EXCEPT !.at = "scan", !.cur = None, !.target = Nowhere,
                            !.art = {}, !.read = None]

(* A run takes the file away from its path. Another one that has it open    *)
(* still reads what it held.                                                *)
Open(q, p) == run[q].at \in {"same", "copying"} /\ run[q].cur = p /\ run[q].read = None

TakeAway(r, p, next) ==
  /\ src' = [src EXCEPT ![p] = None]
  /\ run' = [q \in Procs |-> IF q = r THEN next
                             ELSE IF Open(q, p) THEN [run[q] EXCEPT !.read = src[p]]
                             ELSE run[q]]

(* Path.unlink, os.unlink: whatever the path has by now, which is another   *)
(* file when the one the run has read was taken away.                       *)
Unlink(r, p, next) ==
  /\ TakeAway(r, p, next)
  /\ writing' = [writing EXCEPT ![p] = IF @ = Folder THEN Gone ELSE @]
  /\ mistaken' = IF run[r].read = None THEN mistaken ELSE mistaken \cup ({src[p]} \ {None})

(* The file in hand is in the library.                                      *)
Placed(r) == [run[r] EXCEPT !.at = "artwork", !.placed = TRUE, !.read = None]

(* Mutant of Room: the limit is passed by one.                              *)
RoomForOneMore == ScanLimit + 1

Room == ScanLimit

Begin(r) ==
  /\ At(r, "idle")
  /\ Goto(r, [Stopped(r) EXCEPT !.at = "scan", !.room = Room,
                                !.list = {f \in Files : src[f] # None}])
  /\ Counted(r # Server)
  /\ UNCHANGED <<mode, src, writing, lib, libArt, listed, history>>

(* Mutant of DestinationFor: the name is taken whether it is free or not.   *)
AlwaysBase(p) == Base(p)

(* _destination_for                                                         *)
DestinationFor(p) == IF lib[Base(p)] = None THEN Base(p) ELSE Digest(p)

(* Mutant of RelatedArtwork: none is found.                                 *)
NoArtwork(p) == {}

(* _related_artwork                                                         *)
RelatedArtwork(p) == {a \in ArtOf[p] : src[a] # None}

(* Every file that is still there counts against the limit, media or not.   *)
Waiting(r) == {f \in run[r].list : src[f] # None}

Visit(r, f) ==
  /\ At(r, "scan") /\ f \in Waiting(r) /\ run[r].room > 0
  /\ LET left == [run[r] EXCEPT !.list = @ \ {f}, !.room = @ - 1]
     IN Goto(r, IF f \notin Media THEN left
                ELSE [left EXCEPT !.at = "chosen", !.cur = f,
                        !.target = DestinationFor(f), !.art = RelatedArtwork(f)])
  /\ UNCHANGED <<mode, src, writing, lib, libArt, listed, events, history>>

(* Mutant of SameFile: the contents are not compared.                       *)
AnyFile(p, t) == Whole(src[p])

(* _same_file: a source that has gone is not the same.                      *)
SameFile(p, t) == Whole(src[p]) /\ src[p] = lib[t]

(* target.exists()                                                          *)
Taken(t) == lib[t] # None

(* _place_file up to the decision: a target that exists makes the file a    *)
(* duplicate, or leaves it where it is. From here to the placing another    *)
(* run may take the name for free as well: os.rename and open(.., "wb")     *)
(* then replace its file silently.                                          *)
Examine(r) ==
  LET p == run[r].cur
      t == run[r].target
      dup == Taken(t) /\ SameFile(p, t)
  IN /\ At(r, "chosen")
     /\ Goto(r, IF ~Taken(t) THEN [run[r] EXCEPT !.at = "free"]
                ELSE IF dup /\ mode.move THEN [run[r] EXCEPT !.at = "same"]
                ELSE Onward(r))
     /\ excused' = IF dup THEN excused \cup ArtOf[p] ELSE excused
     /\ clashed' = clashed \cup {u \in {t} : \E q \in Procs \ {r} :
                                   At(q, "free") /\ run[q].target = u}
     /\ UNCHANGED <<mode, src, writing, lib, libArt, listed, events, dropped, given,
                    mistaken, unseen>>

(* A duplicate is deleted in move mode.                                     *)
DropDuplicate(r) ==
  /\ At(r, "same")
  /\ Unlink(r, run[r].cur, Onward(r))
  /\ UNCHANGED <<mode, lib, libArt, listed, events, dropped, given, clashed, unseen, excused>>

(* shutil.move and shutil.copy2 fail when the source has gone.              *)
SourceGone(r) ==
  /\ At(r, "free") /\ src[run[r].cur] = None
  /\ Goto(r, Onward(r))
  /\ UNCHANGED <<mode, src, writing, lib, libArt, listed, events, history>>

(* Move on one filesystem: os.rename.                                       *)
Rename(r) ==
  LET p == run[r].cur
      t == run[r].target
  IN /\ At(r, "free") /\ mode.rename /\ src[p] # None
     /\ lib' = [lib EXCEPT ![t] = src[p]]
     /\ TakeAway(r, p, Placed(r))
     /\ writing' = [q \in Media |->
                      IF writing[q] = t THEN Gone
                      ELSE IF q = p /\ writing[p] = Folder THEN t ELSE writing[q]]
     /\ UNCHANGED <<mode, libArt, listed, events, history>>

(* Copy, or move between filesystems: the target is there, cut off, while   *)
(* the bytes are copied.                                                    *)
StartCopy(r) ==
  /\ At(r, "free") /\ ~mode.rename /\ src[run[r].cur] # None
  /\ lib' = [lib EXCEPT ![run[r].target] = Part]
  /\ Goto(r, [run[r] EXCEPT !.at = "copying"])
  /\ UNCHANGED <<mode, src, writing, libArt, listed, events, history>>

KeepsSource == ~mode.move

(* The copy holds what the source held when its end was reached; two copies *)
(* into one file may leave a mixture. A move then unlinks the source, which *)
(* fails, and with it the import of the file, when nothing is there.        *)
FinishCopy(r) ==
  LET p == run[r].cur
      t == run[r].target
      end == IF run[r].read = None THEN src[p] ELSE run[r].read
      fails == ~KeepsSource /\ src[p] = None
      next == IF fails THEN Onward(r) ELSE Placed(r)
  IN /\ At(r, "copying")
     /\ \E c \in {end} \cup (IF t \in clashed THEN {Part} ELSE {}) :
          lib' = [lib EXCEPT ![t] = c]
     /\ IF KeepsSource THEN Goto(r, next) /\ UNCHANGED <<src, writing, mistaken>>
        ELSE Unlink(r, p, next)
     /\ unseen' = (unseen \/ fails)
     /\ UNCHANGED <<mode, libArt, listed, events, dropped, given, clashed, excused>>

(* _place_related_artwork: artwork that is there still goes where there is  *)
(* none.                                                                    *)
PlaceArtwork(r) ==
  LET t == run[r].target
      some == {a \in run[r].art : src[a] # None}
      taken == IF t \in libArt THEN {} ELSE some
  IN /\ At(r, "artwork")
     /\ libArt' = IF taken = {} THEN libArt ELSE libArt \cup {t}
     /\ src' = [f \in Files |-> IF f \in taken /\ mode.move THEN None ELSE src[f]]
     /\ excused' = excused \cup (some \ taken)
     /\ Goto(r, Onward(r))
     /\ UNCHANGED <<mode, writing, lib, listed, events, dropped, given, clashed, mistaken,
                    unseen>>

(* The scan of the library follows a run that placed something.             *)
EndScan(r) ==
  /\ At(r, "scan") /\ (Waiting(r) = {} \/ run[r].room = 0)
  /\ Goto(r, IF run[r].placed THEN [run[r] EXCEPT !.at = "discover"] ELSE Stopped(r))
  /\ UNCHANGED <<mode, src, writing, lib, libArt, listed, events, history>>

(* Mutant of InLibrary: the scan sees what is listed already.               *)
NothingNew == listed

InLibrary == {t \in Targets : lib[t] # None}

(* What one scan lists: all of the library, or as much as its limit allows, *)
(* whichever files the directories have first.                              *)
Scans ==
  IF Cardinality(InLibrary) <= LibraryLimit THEN {InLibrary}
  ELSE {S \in SUBSET InLibrary : Cardinality(S) = LibraryLimit}

Discover(r) ==
  /\ At(r, "discover")
  /\ \E S \in Scans : listed' = listed \cup S
  /\ unseen' = FALSE
  /\ Goto(r, Stopped(r))
  /\ UNCHANGED <<mode, src, writing, lib, libArt, events, dropped, given, clashed, mistaken,
                 excused>>

-----------------------------------------------------------------------------
(* Faults                                                                   *)

(* The disk is full: the part that was copied stays.                        *)
CopyFails(r) ==
  /\ At(r, "copying")
  /\ Goto(r, Onward(r))
  /\ Counted(TRUE)
  /\ UNCHANGED <<mode, src, writing, lib, libArt, listed, history>>

(* An error with the artwork is logged and the file counts as organized.    *)
ArtworkFails(r) ==
  /\ At(r, "artwork") /\ run[r].art # {}
  /\ Goto(r, Onward(r))
  /\ Counted(TRUE)
  /\ excused' = excused \cup run[r].art
  /\ UNCHANGED <<mode, src, writing, lib, libArt, listed, dropped, given, clashed, mistaken,
                 unseen>>

Crash(r) ==
  /\ run[r].at \notin {"idle", "exit"}
  /\ Goto(r, Stopped(r))
  /\ Counted(TRUE)
  /\ unseen' = (unseen \/ run[r].placed)
  /\ excused' = excused \cup run[r].art
  /\ UNCHANGED <<mode, src, writing, lib, libArt, listed, dropped, given, clashed, mistaken>>

-----------------------------------------------------------------------------
(* Specification                                                            *)

RunStep(r) ==
  \/ Begin(r) \/ (\E f \in Files : Visit(r, f)) \/ Examine(r)
  \/ DropDuplicate(r) \/ SourceGone(r) \/ Rename(r) \/ StartCopy(r) \/ FinishCopy(r)
  \/ PlaceArtwork(r) \/ EndScan(r) \/ Discover(r)

Fault(r) == CopyFails(r) \/ ArtworkFails(r) \/ Crash(r)

Next ==
  \/ \E f \in Files, c \in Contents \cup {Part, Picture} : Drop(f, c)
  \/ \E p \in Media, c \in Contents : FinishWriting(p, c)
  \/ \E r \in Procs : RunStep(r) \/ Fault(r)

Spec == Init /\ [][Next]_vars

(* The server runs the organizer again and again, a command that the user   *)
(* has given goes on, and so does the user's copy. The order of a directory *)
(* may be any, but no file of a list is passed over.                        *)
FairSpec ==
  /\ Spec
  /\ WF_vars(RunStep(Server))
  /\ \A r \in Clis : WF_vars(~At(r, "idle") /\ RunStep(r))
  /\ \A p \in Media : WF_vars(\E c \in Contents : FinishWriting(p, c))

-----------------------------------------------------------------------------
(* Properties                                                               *)

Quiet == \A r \in Procs : run[r].at \in {"idle", "exit"}

RunState ==
  [at : {"idle", "scan", "chosen", "same", "free", "copying", "artwork", "discover", "exit"},
   list : SUBSET Files, room : 0..ScanLimit, cur : Media \cup {None},
   target : Targets \cup {Nowhere}, art : SUBSET Art,
   read : Contents \cup {None, Part}, placed : BOOLEAN]

(* Folder, library and runs have their types, and the file in hand goes     *)
(* with the stage of the run (organize_once).                               *)
TypeOK ==
  /\ mode \in [move : BOOLEAN, rename : BOOLEAN]
  /\ src \in [Files -> Contents \cup {None, Part, Picture}]
  /\ \A p \in Media : src[p] # Picture
  /\ writing \in [Media -> {Nowhere, Folder, Gone} \cup Targets]
  /\ lib \in [Targets -> Contents \cup {None, Part}]
  /\ libArt \subseteq Targets /\ listed \subseteq Targets /\ clashed \subseteq Targets
  /\ given \subseteq Contents /\ mistaken \subseteq Contents \cup {Part}
  /\ excused \subseteq Art
  /\ run \in [Procs -> RunState]
  /\ \A r \in Procs :
       IF run[r].at \in {"chosen", "same", "free", "copying", "artwork"}
       THEN /\ run[r].cur \in Media
            /\ run[r].target \in {Base(run[r].cur), Digest(run[r].cur)}
       ELSE run[r].cur = None

(* Whatever fails, what the user has dropped whole is in the folder or in   *)
(* the library, unless two runs found one library name free at one time     *)
(* (_place_file looks at the target, then replaces it), or a run deleted a  *)
(* file that the user dropped in the place of the one it had read, which    *)
(* another run had taken away (the unlinks of _place_file and shutil.move). *)
DroppedIsKept ==
  \A c \in given :
    \/ \E p \in Media : src[p] = c
    \/ \E t \in Targets : lib[t] = c
    \/ c \in mistaken
    \/ clashed # {}

(* Taking a file that is still being written does no harm when it is        *)
(* renamed; only a move between filesystems cuts it off (shutil.move copies *)
(* and unlinks), or two runs at one name or one path.                       *)
CutOffOnlyByCopying ==
  \A p \in Media : writing[p] = Gone =>
    mode.move /\ (~mode.rename \/ clashed # {} \/ Part \in mistaken)

(* Organizing loses nothing of the user's, dropped or still being written.  *)
NothingLost == DroppedIsKept /\ CutOffOnlyByCopying

(* SRS: sidecar artwork is preserved. Artwork of an organized file is left  *)
(* in the folder only when it came after the file was taken, a fault hit    *)
(* the run, or the library had its artwork or the file already.             *)
ArtworkFollows ==
  \A p \in Media : \A a \in ArtOf[p] :
    Quiet /\ src[a] # None /\ src[p] = None /\ p \in dropped => a \in excused

(* Operations guide: imported files appear without waiting for a sync. When *)
(* no run is under way the catalogue has every file of the library, or as   *)
(* many as the scan's limit admits, unless a process died between placing a *)
(* file and the scan, or another process deleted the source of a copy (the  *)
(* file then counts as an error).                                           *)
ImportedIsListed ==
  Quiet /\ ~unseen =>
    \/ \A t \in Targets : Whole(lib[t]) => t \in listed
    \/ Cardinality(listed) >= LibraryLimit

(* Both names of a path are taken: _place_file skips it in every later run.  *)
Skipped(p) == Taken(Base(p)) /\ Taken(Digest(p))

(* What is complete in the folder gets into the library, when the scan      *)
(* limit admits every file of the folder, unless both names of its path are *)
(* taken: it is the third different file dropped at that path, or its       *)
(* copies were cut off twice. The two races of NothingLost are exceptions   *)
(* here as well.                                                            *)
EventuallyImported ==
  \A c \in Contents :
    (\E p \in Media : src[p] = c) ~>
      \/ \E t \in Targets : lib[t] = c
      \/ \E p \in Media : src[p] = c /\ Skipped(p)
      \/ c \in mistaken
      \/ clashed # {}
=============================================================================
