------------------------------- MODULE Backup -------------------------------
(***************************************************************************)
(* Backup and restore of BunkerMedia beside the processes that use the     *)
(* database: a backup copies the database file, then its log, with no lock *)
(* and no snapshot; a restore puts back the files the backup has and       *)
(* leaves the others. Neither opens the database, and the server may write *)
(* to it, start or stop in between.                                        *)
(***************************************************************************)
EXTENDS Migrations

VARIABLES
  bk,        \* the backup: how many of its files are copied, and the copies
  rs,        \* the restore: how many of its files are replaced
  seen,      \* history: what the database was since the backup began
  torn,      \* history: the log was started afresh, or deleted, between the
             \* copies, with pages the copied file had not
  mixed      \* history: a restore of a torn backup, beside a process, or under
             \* a log that the backup does not replace

backupVars == <<bk, rs, seen, torn, mixed>>
allVars == <<vars, backupVars>>

(* Mutant of Order: the log is copied first.                                *)
LogFirst == <<"wal", "main">>

(* The order in which backup_state and restore_state take the files.        *)
Order == <<"main", "wal">>
Files == Len(Order)

BackupInit ==
  /\ Init
  /\ bk = [done |-> 0, main |-> NoFile, wal |-> NoWal]
  /\ rs = 0
  /\ seen = {}
  /\ torn = FALSE
  /\ mixed = FALSE

Copying == bk.done \in 1..(Files - 1)
Restoring == rs = Files   \* one file is replaced, the other is not
Content == Overlay(bk.main, bk.wal)

(* What a step of a process means to a backup or restore under way.         *)
Dropped == wal # NoWal /\ (wal' = NoWal \/ (reset /\ wal' # wal))
Watched ==
  /\ seen' = IF Copying THEN seen \cup {DB'} ELSE seen
  /\ torn' = (torn \/ (Copying /\ Dropped /\ Overlay(bk.main, wal) # bk.main))
  /\ mixed' = (mixed \/ (Restoring /\ proc' # proc))

ProcessStep ==
  /\ Next
  /\ Watched
  /\ UNCHANGED <<bk, rs>>

(* backup_state: _safe_add for one file after the other.                    *)
CopyFile ==
  LET f == Order[bk.done + 1]
  IN /\ bk.done < Files
     /\ bk' = [bk EXCEPT !.done = @ + 1,
                         !.main = IF f = "main" THEN main ELSE @,
                         !.wal = IF f = "wal" THEN wal ELSE @]
     /\ seen' = seen \cup {DB}
     /\ Counted(bk.done = 0)
     /\ UNCHANGED <<main, wal, reset, txn, pending, proc, rs, torn, mixed>>

Exists(file, log) == file # NoFile \/ log # NoWal

(* restore_state up to its first file: an existing database is replaced     *)
(* with --force only.                                                       *)
BeginRestore(force) ==
  /\ bk.done = Files /\ rs = 0
  /\ Exists(main, wal) => force
  /\ rs' = 1
  /\ UNCHANGED <<vars, bk, seen, torn, mixed>>

(* Mutant of Replaced: the log of the backup is left out.                   *)
FileOnly == {"main"} \cap (IF Exists(bk.main, bk.wal) THEN {"main"} ELSE {})

(* _replace_if_exists: the files the backup has.                            *)
Replaced == (IF Exists(bk.main, bk.wal) THEN {"main"} ELSE {})
            \cup (IF bk.wal # NoWal THEN {"wal"} ELSE {})

RestoreFile ==
  LET f == Order[rs]
  IN /\ rs \in 1..Files
     /\ main' = IF f = "main" /\ f \in Replaced THEN bk.main ELSE main
     /\ wal' = IF f = "wal" /\ f \in Replaced THEN bk.wal ELSE wal
     /\ reset' = (reset /\ f # "wal")
     /\ rs' = rs + 1
     /\ mixed' = \/ mixed
                 \/ torn
                 \/ \E p \in Procs : proc[p].at # "down"
                 \/ (f = "wal" /\ bk.wal = NoWal /\ wal # NoWal)
     /\ UNCHANGED <<txn, pending, proc, events, bk, seen, torn>>

BackupNext ==
  \/ ProcessStep
  \/ CopyFile
  \/ \E force \in BOOLEAN : BeginRestore(force)
  \/ RestoreFile

BackupSpec == BackupInit /\ [][BackupNext]_allVars /\ Fairness

-----------------------------------------------------------------------------
(* Properties                                                               *)

(* A backup holds the database as it was at some moment while it was made,  *)
(* although nothing is locked, unless the log was checkpointed and started  *)
(* afresh, or deleted, between the two copies (backup_state).               *)
BackupIsSnapshot == bk.done = Files /\ ~torn => Content \in seen

(* A restore brings back that state, unless the backup is torn, a process   *)
(* ran, or a log of the replaced database stayed beside the restored file:  *)
(* the backup of a stopped server has no log, the database of one that      *)
(* crashed has (restore_state).                                             *)
RestoreBringsBack ==
  [][rs = Files /\ rs' = Files + 1 /\ ~mixed' /\ Exists(bk.main, bk.wal)
       => DB' \in seen]_allVars

(* Upgrades and restores go together: a process that has started works on   *)
(* the current schema also after a backup of any older version came back.   *)
UpIsCurrentAfterRestore == mixed \/ UpIsCurrent

(* Starts, crashes and competing starts end with a server that runs on the  *)
(* current schema, if it is not told to stop for ever: an interrupted       *)
(* upgrade can be repeated, and the loser of two upgrades starts again.     *)
EventuallyCurrent == <>[](mixed \/ (At(Server, "up") /\ Current(DB)))
=============================================================================
