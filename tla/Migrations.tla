----------------------------- MODULE Migrations -----------------------------
(***************************************************************************)
(* The start of a BunkerMedia process on its SQLite database: create the   *)
(* tables, apply the migrations that are not recorded, make sure of the    *)
(* default profiles, commit. The server and any command of the CLI do so,  *)
(* at the same time if they like.                                          *)
(*                                                                         *)
(* Python's sqlite3 runs DDL outside a transaction until the first INSERT  *)
(* or UPDATE opens one, which lasts until Database.initialize commits: what *)
(* comes before is committed statement by statement, what follows at once. *)
(* The database is what the main file holds, overlaid with the pages the   *)
(* write-ahead log has; a page stands for a table or for the schema.       *)
(***************************************************************************)
EXTENDS Naturals, Sequences, FiniteSets

CONSTANTS
  Server,       \* the process that is started again whenever it is down
  Clis,         \* the processes of CLI commands, started once
  OldVersions,  \* bound: the versions of the database a first start may find
  MaxRows,      \* bound: rows written by running processes
  MaxEvents     \* bound: crashes, stops, command line runs and what else
                \* modules that extend this one count, together

VARIABLES
  main,      \* the pages of the database file
  wal,       \* the pages of the write-ahead log, a function of some pages
  reset,     \* the log is checkpointed: the next commit starts it afresh
  txn,       \* the process that holds the write lock, or "none"
  pending,   \* the database as its transaction has it
  proc,      \* the state of each process
  events     \* the events that MaxEvents bounds, so far

dbVars == <<main, wal, reset>>
vars == <<main, wal, reset, txn, pending, proc, events>>

Procs == {Server} \cup Clis

-----------------------------------------------------------------------------
(* migrations.py: what each migration adds to the schema. "alter" is the    *)
(* ALTER TABLE of migration 2 that checks first and tolerates nothing.      *)

Do(v, op, what) == [v |-> v, op |-> op, what |-> what]

VideoIntelligence == <<Do(1, "add", "video_intelligence"), Do(1, "record", "")>>

RetryAndDeadLetters == <<
  Do(2, "check", "jobs.next_run_at"), Do(2, "alter", "jobs.next_run_at"),
  Do(2, "add", "dead_letter_jobs"), Do(2, "record", "")>>

NextRunIndex == <<Do(3, "record", "")>>

DurationAndFileSize == <<
  Do(4, "add", "videos.duration_seconds"), Do(4, "add", "videos.file_size_bytes"),
  Do(4, "record", "")>>

ProfilesAndState == <<
  Do(5, "add", "watch_history.profile_id"), Do(5, "update", ""),
  Do(5, "add", "profiles"), Do(5, "add", "profile_video_state"),
  Do(5, "profiles", ""), Do(5, "backfill", ""), Do(5, "record", "")>>

PrivacyVault == <<
  Do(6, "add", "videos.privacy_level"), Do(6, "update", ""),
  Do(6, "add", "profiles.can_access_private"), Do(6, "add", "profiles.pin_hash"),
  Do(6, "update", ""), Do(6, "record", "")>>

BatchResume == <<
  Do(7, "add", "jobs.batch_id"), Do(7, "add", "dead.batch_id"),
  Do(7, "add", "download_batches"), Do(7, "add", "download_batch_items"),
  Do(7, "record", "")>>

VideoArtwork == <<
  Do(8, "add", "videos.thumbnail_url"), Do(8, "add", "videos.artwork_path"),
  Do(8, "record", "")>>

Script == VideoIntelligence \o RetryAndDeadLetters \o NextRunIndex
          \o DurationAndFileSize \o ProfilesAndState \o PrivacyVault
          \o BatchResume \o VideoArtwork

CURRENT_SCHEMA_VERSION == 8
Versions == 1..CURRENT_SCHEMA_VERSION

ASSUME MigrationsAssumption ==
  /\ OldVersions \subseteq 0..CURRENT_SCHEMA_VERSION
  /\ {MaxRows, MaxEvents} \subseteq Nat
  /\ "none" \notin Procs

Adds(v) == {Script[i].what : i \in {j \in DOMAIN Script :
              Script[j].v = v /\ Script[j].op \in {"add", "alter"}}}

(* initialize: the tables of the first release, and the columns its CREATE  *)
(* TABLE statements have since been given, which only a new file gets.      *)
BaseTables == {"videos", "watch_history", "preferences", "download_jobs"}
BaseColumns == {"watch_history.profile_id", "videos.duration_seconds",
                "videos.file_size_bytes", "videos.privacy_level", "jobs.batch_id",
                "videos.thumbnail_url", "videos.artwork_path"}

-----------------------------------------------------------------------------
(* The database                                                             *)

Pages == {"schema", "applied", "profiles", "history", "rows"}

(* history: the opinions of the first releases are in profile_video_state.  *)
NoFile == [schema |-> {}, applied |-> {}, profiles |-> {}, history |-> FALSE, rows |-> 0]
NoWal == [f \in {} |-> 0]

(* A database that version v of the code left behind.                       *)
OfVersion(v) ==
  [schema |-> BaseTables \cup UNION {Adds(w) : w \in 1..v}, applied |-> 1..v,
   profiles |-> IF v >= 5 THEN {"default", "kids"} ELSE {},
   history |-> v >= 5, rows |-> 0]

Overlay(file, log) == [f \in Pages |-> IF f \in DOMAIN log THEN log[f] ELSE file[f]]

DB == Overlay(main, wal)

Current(db) ==
  /\ db.applied = Versions
  /\ \A v \in Versions : Adds(v) \subseteq db.schema
  /\ {"default", "kids", "vault"} \subseteq db.profiles
  /\ db.history

(* A commit writes the pages it changed to the log.                         *)
Logged(old, new, log, afresh) ==
  LET changed == {f \in Pages : new[f] # old[f]}
      kept == IF afresh THEN {} ELSE DOMAIN log
  IN [f \in changed \cup kept |-> new[f]]

Commit(new) ==
  /\ wal' = IF new = DB THEN wal ELSE Logged(DB, new, wal, reset)
  /\ reset' = (reset /\ new = DB)
  /\ UNCHANGED main

(* The log is copied into the file: after enough pages, by any connection.  *)
Checkpoint ==
  /\ wal # NoWal /\ ~reset
  /\ \E p \in Procs : proc[p].at # "down"
  /\ main' = DB
  /\ reset' = TRUE
  /\ UNCHANGED <<wal, txn, pending, proc, events>>

-----------------------------------------------------------------------------
(* A process                                                                *)

(* at: what it does next; pc: the statement it has reached. known: the      *)
(* versions it found recorded. missing: what the check of a column saw.     *)
Down == [at |-> "down", pc |-> 0, known |-> {}, missing |-> FALSE]

Init ==
  /\ main \in {NoFile} \cup {OfVersion(v) : v \in OldVersions}
  /\ wal = NoWal
  /\ reset = FALSE
  /\ txn = "none"
  /\ pending = NoFile
  /\ proc = [p \in Procs |-> Down]
  /\ events = 0

At(p, where) == proc[p].at = where

Counted(b) == /\ events' = events + (IF b THEN 1 ELSE 0)
              /\ events' <= MaxEvents

(* Mutant of Rollback: the lock outlives its process.                       *)
KeepLock(p) == UNCHANGED <<txn, pending>>

Rollback(p) ==
  /\ txn' = IF txn = p THEN "none" ELSE txn
  /\ pending' = IF txn = p THEN NoFile ELSE pending

(* The last connection to close checkpoints the log and deletes it, and a   *)
(* transaction that is not committed is gone.                               *)
Close(p) ==
  /\ IF \A q \in Procs \ {p} : At(q, "down")
     THEN main' = DB /\ wal' = NoWal /\ reset' = FALSE
     ELSE UNCHANGED dbVars
  /\ proc' = [proc EXCEPT ![p] = Down]
  /\ Rollback(p)

View(p) == IF txn = p THEN pending ELSE DB

(* DDL joins the transaction if there is one and commits by itself if not.  *)
Define(p, new) ==
  /\ txn \in {p, "none"}
  /\ IF txn = p THEN pending' = new /\ UNCHANGED dbVars
     ELSE Commit(new) /\ UNCHANGED pending
  /\ UNCHANGED txn

(* INSERT and UPDATE open a transaction.                                    *)
Modify(p, new) ==
  /\ txn \in {p, "none"}
  /\ txn' = p
  /\ pending' = new
  /\ UNCHANGED dbVars

(* The connection and the CREATE TABLE statements of initialize.            *)
Launch(p) ==
  /\ At(p, "down")
  /\ Counted(p # Server)
  /\ Define(p, [DB EXCEPT !.schema = @ \cup BaseTables \cup
                  (IF "videos" \in @ THEN {} ELSE BaseColumns)])
  /\ proc' = [proc EXCEPT ![p].at = "opened"]

(* Mutant of AppliedVersions: any record means that the schema is current.  *)
AllOrNothing(db) == IF db.applied = {} THEN {} ELSE Versions

(* _get_applied_versions                                                    *)
AppliedVersions(db) == db.applied

(* The next statement of a migration that is not recorded.                  *)
After(i, known) ==
  LET rest == {j \in DOMAIN Script : j > i /\ Script[j].v \notin known}
  IN IF rest = {} THEN Len(Script) + 1
     ELSE CHOOSE j \in rest : \A k \in rest : j <= k

ReadApplied(p) ==
  LET known == AppliedVersions(DB)
  IN /\ At(p, "opened")
     /\ proc' = [proc EXCEPT ![p] = [Down EXCEPT !.at = "migrating", !.known = known,
                                                 !.pc = After(0, known)]]
     /\ UNCHANGED <<main, wal, reset, txn, pending, events>>

Migrating(p) == At(p, "migrating") /\ proc[p].pc <= Len(Script)
Migrated(p) == At(p, "migrating") /\ proc[p].pc > Len(Script)

(* What a statement does to the database it sees. INSERT OR IGNORE keeps    *)
(* the profiles that exist.                                                 *)
Effect(s, db) ==
  CASE s.op \in {"add", "alter"} -> [db EXCEPT !.schema = @ \cup {s.what}]
    [] s.op = "profiles" -> [db EXCEPT !.profiles = @ \cup {"default", "kids"}]
    [] s.op = "backfill" -> [db EXCEPT !.history = TRUE]
    [] s.op = "record" -> [db EXCEPT !.applied = @ \cup {s.v}]
    [] OTHER -> db

(* Mutant of Raises: a column or table that is there already raises.        *)
RaisesIfThere(p, s) ==
  \/ s.op \in {"add", "alter"} /\ s.what \in View(p).schema
  \/ s.op = "record" /\ s.v \in View(p).applied

(* A column that is there already, and a version that is recorded already   *)
(* (its primary key), raise; _add_column_if_missing and IF NOT EXISTS do    *)
(* not.                                                                     *)
Raises(p, s) ==
  \/ s.op = "alter" /\ proc[p].missing /\ s.what \in View(p).schema
  \/ s.op = "record" /\ s.v \in View(p).applied

(* apply_migrations                                                         *)
Statement(p) ==
  LET s == Script[proc[p].pc]
  IN /\ Migrating(p) /\ ~Raises(p, s)
     /\ IF s.op = "check" \/ (s.op = "alter" /\ ~proc[p].missing)
        THEN UNCHANGED <<main, wal, reset, txn, pending>>
        ELSE IF s.op \in {"add", "alter"} THEN Define(p, Effect(s, View(p)))
                                          ELSE Modify(p, Effect(s, View(p)))
     /\ proc' = [proc EXCEPT ![p].pc = After(@, proc[p].known),
                             ![p].missing = s.op = "check" /\ s.what \notin View(p).schema]
     /\ UNCHANGED events

(* An exception ends the start: a statement that raises, or a lock that is  *)
(* not released within the timeout of the connection.                       *)
Fail(p) ==
  /\ \/ Migrating(p) /\ Raises(p, Script[proc[p].pc])
     \/ Migrating(p) /\ Script[proc[p].pc].op # "check" /\ txn \notin {p, "none"}
     \/ Migrated(p) /\ txn \notin {p, "none"}
  /\ Close(p)
  /\ UNCHANGED events

(* _ensure_profile_defaults, the recovery of jobs (see JobQueue), commit.   *)
Ready(p) ==
  LET new == [View(p) EXCEPT !.profiles = @ \cup {"default", "kids", "vault"}]
  IN /\ Migrated(p)
     /\ txn \in {p, "none"}
     /\ Commit(new)
     /\ txn' = "none" /\ pending' = NoFile
     /\ proc' = [proc EXCEPT ![p] = [Down EXCEPT !.at = "up"]]
     /\ UNCHANGED events

(* A running process writes a row.                                          *)
Use(p) ==
  /\ At(p, "up") /\ txn = "none" /\ DB.rows < MaxRows
  /\ Commit([DB EXCEPT !.rows = @ + 1])
  /\ UNCHANGED <<txn, pending, proc, events>>

(* The shutdown of a process; a CLI command comes to its end.               *)
Stop(p) ==
  /\ At(p, "up")
  /\ Counted(p = Server)
  /\ Close(p)

(* A crash leaves the log as it is.                                         *)
Crash(p) ==
  /\ ~At(p, "down")
  /\ Counted(TRUE)
  /\ proc' = [proc EXCEPT ![p] = Down]
  /\ Rollback(p)
  /\ UNCHANGED dbVars

ProcStep(p) ==
  \/ Launch(p) \/ ReadApplied(p) \/ Statement(p) \/ Fail(p) \/ Ready(p)

Next ==
  \/ Checkpoint
  \/ \E p \in Procs : ProcStep(p) \/ Use(p) \/ Stop(p) \/ Crash(p)

Spec == Init /\ [][Next]_vars

(* The supervisor starts the server again; every process goes on.           *)
Fairness == WF_vars(Launch(Server))
            /\ (\A p \in Procs : WF_vars(ReadApplied(p) \/ Statement(p) \/ Fail(p) \/ Ready(p)))
            /\ (\A p \in Clis : WF_vars(Stop(p)))

-----------------------------------------------------------------------------
(* Properties                                                               *)

(* The files, the transaction and the processes have their types, and only  *)
(* a process that is migrating holds the lock (Database.initialize).        *)
TypeOK ==
  /\ {DOMAIN main, DOMAIN pending} = {Pages} /\ DOMAIN wal \subseteq Pages
  /\ reset \in BOOLEAN
  /\ txn # "none" => txn \in Procs /\ At(txn, "migrating")
  /\ \A p \in Procs : /\ proc[p].at \in {"down", "opened", "migrating", "up"}
                      /\ proc[p].pc \in 0..Len(Script) + 1
                      /\ proc[p].known \subseteq Versions

(* A process that has started finds every table, column and default profile *)
(* the code uses, and the opinions of the first releases in the default     *)
(* profile (initialize, apply_migrations).                                  *)
UpIsCurrent == \A p \in Procs : At(p, "up") => Current(DB)
=============================================================================
