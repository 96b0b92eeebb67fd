----------------------------- MODULE BackupProofs -----------------------------
(***************************************************************************)
(* Proofs about Migrations and Backup: what a copy of the database's files, *)
(* made while processes commit, checkpoint and close, holds; and that every *)
(* start, from any version of the schema and beside any other, ends on the  *)
(* current one.                                                             *)
(***************************************************************************)
EXTENDS Backup, WellFoundedInduction, TLAPS

-----------------------------------------------------------------------------
(* The invariant of files and copies.                                      *)

(* A database file and a log: functions of pages.                           *)
Whole(f) == f = [x \in Pages |-> f[x]] /\ f.applied \subseteq Versions
IsLog(g) ==
  /\ DOMAIN g \subseteq Pages /\ g = [x \in DOMAIN g |-> g[x]]
  /\ "applied" \in DOMAIN g => g["applied"] \subseteq Versions

ProcState ==
  {s \in [at : {"down", "opened", "migrating", "up"}, pc : 0..Len(Script) + 1,
          known : SUBSET Versions, missing : BOOLEAN] : s.at = "migrating" => s.pc # 0}

AllDown == \A p \in Procs : At(p, "down")

FileTypes ==
  /\ Whole(main) /\ IsLog(wal) /\ Whole(pending)
  /\ reset \in BOOLEAN
  /\ proc \in [Procs -> ProcState]
  /\ txn # "none" => txn \in Procs /\ At(txn, "migrating")

CopyTypes ==
  /\ bk = [done |-> bk.done, main |-> bk.main, wal |-> bk.wal]
  /\ bk.done \in 0..Files /\ Whole(bk.main) /\ IsLog(bk.wal)
  /\ rs \in 0..(Files + 1)
  /\ torn \in BOOLEAN /\ mixed \in BOOLEAN
  /\ rs # 0 => bk.done = Files
  /\ rs = 0 => ~mixed

(* While no restore interferes, a log that may be started afresh has nothing *)
(* the file has not.                                                        *)
Settled == ~mixed /\ (rs # Files \/ ~Exists(bk.main, bk.wal))
LogIsInFile == Settled /\ reset => main = DB

(* The copied file under the log as it is now is the database as it is now.  *)
CopyInv ==
  /\ bk.done = 1 /\ ~torn => Overlay(bk.main, wal) = DB /\ DB \in seen
  /\ BackupIsSnapshot

(* Halfway through a restore that nothing disturbed, all is still.          *)
HalfRestored ==
  rs = Files /\ ~mixed =>
    AllDown /\ ~torn /\ (Exists(bk.main, bk.wal) => main = bk.main)

FilesInv == FileTypes /\ CopyTypes /\ LogIsInFile /\ CopyInv /\ HalfRestored

-----------------------------------------------------------------------------
(* The invariant of upgrades.                                              *)

(* What is recorded has been done.                                          *)
Sound(db) ==
  \A v \in db.applied : Adds(v) \subseteq db.schema /\ (v = 5 => db.history)

Grows(old, new) ==
  /\ old.schema \subseteq new.schema
  /\ old.applied \subseteq new.applied
  /\ old.profiles \subseteq new.profiles
  /\ old.history => new.history

(* What a statement leaves.                                                 *)
Done(s, db) ==
  /\ s.op \in {"add", "alter"} => s.what \in db.schema
  /\ s.op = "backfill" => db.history
  /\ s.op = "record" => s.v \in db.applied

(* A process has done what comes before its statement, is at one that is not *)
(* recorded, and leaves out the column only if it is there.                  *)
Progress(st, db) ==
  /\ st.known \subseteq db.applied
  /\ \A j \in DOMAIN Script :
       j < st.pc /\ Script[j].v \notin st.known => Done(Script[j], db)
  /\ st.pc <= Len(Script) =>
       /\ Script[st.pc].v \notin st.known
       /\ Script[st.pc].op = "alter" /\ ~st.missing => Script[st.pc].what \in db.schema

Upgraded ==
  /\ Sound(DB)
  /\ txn # "none" => Sound(pending) /\ Grows(DB, pending)
  /\ \A p \in Procs : /\ At(p, "migrating") => Progress(proc[p], View(p))
                      /\ At(p, "up") => Current(DB)

UpgradeInv == (\A db \in seen : Sound(db)) /\ (Settled => Upgraded)

-----------------------------------------------------------------------------
(* Files and logs.                                                         *)

LEMMA OverlayWhole ==
  ASSUME NEW f, Whole(f), NEW g, IsLog(g)
  PROVE  /\ Whole(Overlay(f, g))
         /\ \A x \in Pages : Overlay(f, g)[x] = IF x \in DOMAIN g THEN g[x] ELSE f[x]
<1> DEFINE h == Overlay(f, g)
<1>1. h = [x \in Pages |-> IF x \in DOMAIN g THEN g[x] ELSE f[x]]
  BY DEF Overlay
<1> HIDE DEF h
<1>2. h = [x \in Pages |-> h[x]] /\ \A x \in Pages : h[x] = IF x \in DOMAIN g THEN g[x] ELSE f[x]
  BY <1>1
<1>3. "applied" \in Pages
  BY DEF Pages
<1>4. h.applied \subseteq Versions
  BY <1>2, <1>3 DEF Whole, IsLog
<1> QED
  BY <1>2, <1>4 DEF h, Whole

(* Two files are equal if their pages are.                                  *)
LEMMA SamePages ==
  ASSUME NEW a, NEW b, Whole(a), Whole(b), \A x \in Pages : a[x] = b[x]
  PROVE  a = b
BY DEF Whole

LEMMA NoFileIsWhole == Whole(NoFile)
BY DEF Whole, NoFile, Pages

LEMMA NoLog == IsLog(NoWal) /\ \A f : Whole(f) => Overlay(f, NoWal) = f
BY DEF Whole, NoWal, IsLog, Overlay

(* What a commit does: the pages it changed go to the log, and the database  *)
(* is as it wrote it, if a log that is started afresh is in the file.        *)
LEMMA CommitWrites ==
  ASSUME Whole(main), IsLog(wal), reset \in BOOLEAN, NEW new, Whole(new), Commit(new)
  PROVE  /\ main' = main /\ IsLog(wal') /\ reset' \in BOOLEAN /\ (reset' => reset /\ wal' = wal)
         /\ (reset => main = DB) => DB' = new
         /\ \A x \in Pages : x \in DOMAIN wal' => wal'[x] = IF new = DB THEN wal[x] ELSE new[x]
         /\ \A x \in Pages : new # DB => (x \in DOMAIN wal' <=>
                               new[x] # DB[x] \/ (~reset /\ x \in DOMAIN wal))
<1>1. Whole(DB) /\ \A x \in Pages : DB[x] = IF x \in DOMAIN wal THEN wal[x] ELSE main[x]
  BY OverlayWhole DEF DB
<1>2. CASE new = DB
  <2>1. main' = main /\ wal' = wal /\ reset' = reset
    BY <1>2 DEF Commit
  <2>2. DB' = DB
    BY <2>1 DEF DB
  <2> QED
    BY <1>2, <2>1, <2>2
<1>3. CASE new # DB
  <2>1. main' = main /\ wal' = Logged(DB, new, wal, reset) /\ reset' = FALSE
    BY <1>3 DEF Commit
  <2> DEFINE D == {f \in Pages : new[f] # DB[f]} \cup (IF reset THEN {} ELSE DOMAIN wal)
  <2>2. wal' = [f \in D |-> new[f]]
    BY <2>1 DEF Logged
  <2>3. D \subseteq Pages /\ \A x \in Pages : x \in D <=> new[x] # DB[x] \/ (~reset /\ x \in DOMAIN wal)
    BY DEF IsLog
  <2> HIDE DEF D
  <2>4. DOMAIN wal' = D /\ \A x \in D : wal'[x] = new[x]
    BY <2>2
  <2>5. IsLog(wal')
    <3>1. wal' = [x \in DOMAIN wal' |-> wal'[x]]
      BY <2>2
    <3>2. new["applied"] \subseteq Versions
      BY DEF Whole
    <3> QED
      BY <2>3, <2>4, <3>1, <3>2 DEF IsLog
  <2>6. ASSUME reset => main = DB PROVE DB' = new
    <3>1. Whole(Overlay(main, wal'))
      BY <2>5, OverlayWhole
    <3>2. \A x \in Pages : Overlay(main, wal')[x] = new[x]
      <4>1. SUFFICES ASSUME NEW x \in Pages PROVE Overlay(main, wal')[x] = new[x]
        OBVIOUS
      <4>2. Overlay(main, wal')[x] = IF x \in D THEN new[x] ELSE main[x]
        BY <2>4, <2>5, OverlayWhole
      <4>3. ASSUME x \notin D PROVE main[x] = new[x]
        BY <1>1, <2>3, <2>6, <4>3
      <4> QED
        BY <4>2, <4>3
    <3>3. Overlay(main, wal') = new
      BY <3>1, <3>2, SamePages
    <3> QED
      BY <2>1, <3>3 DEF DB
  <2> QED
    BY <1>3, <2>1, <2>3, <2>4, <2>5, <2>6
<1> QED
  BY <1>2, <1>3

-----------------------------------------------------------------------------
(* The script of the migrations.                                           *)

IsASeq(s) == \E P : s \in Seq(P)

(* A part of the script with the migrations of V: the record of a version    *)
(* is its last statement, an ALTER TABLE follows its check, and the fifth    *)
(* migration backfills.                                                     *)
Ordered(s, V) ==
  /\ IsASeq(s)
  /\ \A i \in 1..Len(s) : s[i].v \in V
  /\ \A i, j \in 1..Len(s) : s[i].op = "record" /\ s[j].v = s[i].v => j <= i
  /\ \A v \in V : \E i \in 1..Len(s) : s[i].op = "record" /\ s[i].v = v
  /\ \A i \in 1..Len(s) : s[i].op = "alter" =>
       /\ i - 1 \in 1..Len(s)
       /\ s[i - 1].op = "check" /\ s[i - 1].v = s[i].v /\ s[i - 1].what = s[i].what
  /\ 5 \in V => \E i \in 1..Len(s) : s[i].op = "backfill" /\ s[i].v = 5

(* Tuples are sequences.                                                    *)
LEMMA Tuples ==
  ASSUME NEW a, NEW b, NEW c, NEW d, NEW e, NEW f, NEW g
  PROVE  /\ IsASeq(<<a>>) /\ IsASeq(<<a, b>>) /\ IsASeq(<<a, b, c>>)
         /\ IsASeq(<<a, b, c, d>>) /\ IsASeq(<<a, b, c, d, e>>)
         /\ IsASeq(<<a, b, c, d, e, f>>) /\ IsASeq(<<a, b, c, d, e, f, g>>)
<1> DEFINE P == {a, b, c, d, e, f, g}
<1>1. /\ <<a>> \in Seq(P) /\ <<a, b>> \in Seq(P) /\ <<a, b, c>> \in Seq(P)
      /\ <<a, b, c, d>> \in Seq(P) /\ <<a, b, c, d, e>> \in Seq(P)
      /\ <<a, b, c, d, e, f>> \in Seq(P) /\ <<a, b, c, d, e, f, g>> \in Seq(P)
  OBVIOUS
<1> HIDE DEF P
<1> QED
  BY <1>1 DEF IsASeq

LEMMA VideoIntelligenceOrdered == Ordered(VideoIntelligence, {1})
<1> DEFINE s == VideoIntelligence
<1>1. IsASeq(s) /\ Len(s) = 2
  <2>1. IsASeq(s)
    BY Tuples DEF VideoIntelligence
  <2>2. Len(s) = 2
    BY DEF VideoIntelligence
  <2> QED
    BY <2>1, <2>2
<1>2. /\ s[1].v = 1 /\ s[1].op = "add"
      /\ s[2].v = 1 /\ s[2].op = "record"
  BY DEF VideoIntelligence, Do
<1> HIDE DEF s
<1>4. \A i \in 1..2 : i \in {1, 2}
  OBVIOUS
<1>5. \A i \in 1..2 : s[i].v = 1 /\ (s[i].op = "record" <=> i = 2)
  BY <1>2, <1>4
<1>6. \A i \in 1..2 : s[i].op # "alter"
  BY <1>2, <1>4
<1>7. Ordered(s, {1})
  BY <1>1, <1>2, <1>5, <1>6 DEF Ordered
<1> QED
  BY <1>7 DEF s

LEMMA RetryAndDeadLettersOrdered == Ordered(RetryAndDeadLetters, {2})
<1> DEFINE s == RetryAndDeadLetters
<1>1. IsASeq(s) /\ Len(s) = 4
  <2>1. IsASeq(s)
    BY Tuples DEF RetryAndDeadLetters
  <2>2. Len(s) = 4
    BY DEF RetryAndDeadLetters
  <2> QED
    BY <2>1, <2>2
<1>2. /\ s[1].v = 2 /\ s[1].op = "check"
      /\ s[2].v = 2 /\ s[2].op = "alter"
      /\ s[3].v = 2 /\ s[3].op = "add"
      /\ s[4].v = 2 /\ s[4].op = "record"
  BY DEF RetryAndDeadLetters, Do
<1>3. s[2].what = s[1].what
  BY DEF RetryAndDeadLetters, Do
<1> HIDE DEF s
<1>4. \A i \in 1..4 : i \in {1, 2, 3, 4}
  OBVIOUS
<1>5. \A i \in 1..4 : s[i].v = 2 /\ (s[i].op = "record" <=> i = 4)
  BY <1>2, <1>4
<1>6. \A i \in 1..4 : s[i].op = "alter" => i = 2
  BY <1>2, <1>4
<1>7. Ordered(s, {2})
  BY <1>1, <1>2, <1>3, <1>5, <1>6 DEF Ordered
<1> QED
  BY <1>7 DEF s

LEMMA NextRunIndexOrdered == Ordered(NextRunIndex, {3})
<1> DEFINE s == NextRunIndex
<1>1. IsASeq(s) /\ Len(s) = 1
  <2>1. IsASeq(s)
    BY Tuples DEF NextRunIndex
  <2>2. Len(s) = 1
    BY DEF NextRunIndex
  <2> QED
    BY <2>1, <2>2
<1>2. /\ s[1].v = 3 /\ s[1].op = "record"
  BY DEF NextRunIndex, Do
<1> HIDE DEF s
<1>4. \A i \in 1..1 : i \in {1}
  OBVIOUS
<1>5. \A i \in 1..1 : s[i].v = 3 /\ (s[i].op = "record" <=> i = 1)
  BY <1>2, <1>4
<1>6. \A i \in 1..1 : s[i].op # "alter"
  BY <1>2, <1>4
<1>7. Ordered(s, {3})
  BY <1>1, <1>2, <1>5, <1>6 DEF Ordered
<1> QED
  BY <1>7 DEF s

LEMMA DurationAndFileSizeOrdered == Ordered(DurationAndFileSize, {4})
<1> DEFINE s == DurationAndFileSize
<1>1. IsASeq(s) /\ Len(s) = 3
  <2>1. IsASeq(s)
    BY Tuples DEF DurationAndFileSize
  <2>2. Len(s) = 3
    BY DEF DurationAndFileSize
  <2> QED
    BY <2>1, <2>2
<1>2. /\ s[1].v = 4 /\ s[1].op = "add"
      /\ s[2].v = 4 /\ s[2].op = "add"
      /\ s[3].v = 4 /\ s[3].op = "record"
  BY DEF DurationAndFileSize, Do
<1> HIDE DEF s
<1>4. \A i \in 1..3 : i \in {1, 2, 3}
  OBVIOUS
<1>5. \A i \in 1..3 : s[i].v = 4 /\ (s[i].op = "record" <=> i = 3)
  BY <1>2, <1>4
<1>6. \A i \in 1..3 : s[i].op # "alter"
  BY <1>2, <1>4
<1>7. Ordered(s, {4})
  BY <1>1, <1>2, <1>5, <1>6 DEF Ordered
<1> QED
  BY <1>7 DEF s

LEMMA ProfilesAndStateOrdered == Ordered(ProfilesAndState, {5})
<1> DEFINE s == ProfilesAndState
<1>1. IsASeq(s) /\ Len(s) = 7
  <2>1. IsASeq(s)
    BY Tuples DEF ProfilesAndState
  <2>2. Len(s) = 7
    BY DEF ProfilesAndState
  <2> QED
    BY <2>1, <2>2
<1>2. /\ s[1].v = 5 /\ s[1].op = "add"
      /\ s[2].v = 5 /\ s[2].op = "update"
      /\ s[3].v = 5 /\ s[3].op = "add"
      /\ s[4].v = 5 /\ s[4].op = "add"
      /\ s[5].v = 5 /\ s[5].op = "profiles"
      /\ s[6].v = 5 /\ s[6].op = "backfill"
      /\ s[7].v = 5 /\ s[7].op = "record"
  BY DEF ProfilesAndState, Do
<1> HIDE DEF s
<1>4. \A i \in 1..7 : i \in {1, 2, 3, 4, 5, 6, 7}
  OBVIOUS
<1>5. \A i \in 1..7 : s[i].v = 5 /\ (s[i].op = "record" <=> i = 7)
  BY <1>2, <1>4
<1>6. \A i \in 1..7 : s[i].op # "alter"
  BY <1>2, <1>4
<1>7. Ordered(s, {5})
  BY <1>1, <1>2, <1>5, <1>6 DEF Ordered
<1> QED
  BY <1>7 DEF s

LEMMA PrivacyVaultOrdered == Ordered(PrivacyVault, {6})
<1> DEFINE s == PrivacyVault
<1>1. IsASeq(s) /\ Len(s) = 6
  <2>1. IsASeq(s)
    BY Tuples DEF PrivacyVault
  <2>2. Len(s) = 6
    BY DEF PrivacyVault
  <2> QED
    BY <2>1, <2>2
<1>2. /\ s[1].v = 6 /\ s[1].op = "add"
      /\ s[2].v = 6 /\ s[2].op = "update"
      /\ s[3].v = 6 /\ s[3].op = "add"
      /\ s[4].v = 6 /\ s[4].op = "add"
      /\ s[5].v = 6 /\ s[5].op = "update"
      /\ s[6].v = 6 /\ s[6].op = "record"
  BY DEF PrivacyVault, Do
<1> HIDE DEF s
<1>4. \A i \in 1..6 : i \in {1, 2, 3, 4, 5, 6}
  OBVIOUS
<1>5. \A i \in 1..6 : s[i].v = 6 /\ (s[i].op = "record" <=> i = 6)
  BY <1>2, <1>4
<1>6. \A i \in 1..6 : s[i].op # "alter"
  BY <1>2, <1>4
<1>7. Ordered(s, {6})
  BY <1>1, <1>2, <1>5, <1>6 DEF Ordered
<1> QED
  BY <1>7 DEF s

LEMMA BatchResumeOrdered == Ordered(BatchResume, {7})
<1> DEFINE s == BatchResume
<1>1. IsASeq(s) /\ Len(s) = 5
  <2>1. IsASeq(s)
    BY Tuples DEF BatchResume
  <2>2. Len(s) = 5
    BY DEF BatchResume
  <2> QED
    BY <2>1, <2>2
<1>2. /\ s[1].v = 7 /\ s[1].op = "add"
      /\ s[2].v = 7 /\ s[2].op = "add"
      /\ s[3].v = 7 /\ s[3].op = "add"
      /\ s[4].v = 7 /\ s[4].op = "add"
      /\ s[5].v = 7 /\ s[5].op = "record"
  BY DEF BatchResume, Do
<1> HIDE DEF s
<1>4. \A i \in 1..5 : i \in {1, 2, 3, 4, 5}
  OBVIOUS
<1>5. \A i \in 1..5 : s[i].v = 7 /\ (s[i].op = "record" <=> i = 5)
  BY <1>2, <1>4
<1>6. \A i \in 1..5 : s[i].op # "alter"
  BY <1>2, <1>4
<1>7. Ordered(s, {7})
  BY <1>1, <1>2, <1>5, <1>6 DEF Ordered
<1> QED
  BY <1>7 DEF s

LEMMA VideoArtworkOrdered == Ordered(VideoArtwork, {8})
<1> DEFINE s == VideoArtwork
<1>1. IsASeq(s) /\ Len(s) = 3
  <2>1. IsASeq(s)
    BY Tuples DEF VideoArtwork
  <2>2. Len(s) = 3
    BY DEF VideoArtwork
  <2> QED
    BY <2>1, <2>2
<1>2. /\ s[1].v = 8 /\ s[1].op = "add"
      /\ s[2].v = 8 /\ s[2].op = "add"
      /\ s[3].v = 8 /\ s[3].op = "record"
  BY DEF VideoArtwork, Do
<1> HIDE DEF s
<1>4. \A i \in 1..3 : i \in {1, 2, 3}
  OBVIOUS
<1>5. \A i \in 1..3 : s[i].v = 8 /\ (s[i].op = "record" <=> i = 3)
  BY <1>2, <1>4
<1>6. \A i \in 1..3 : s[i].op # "alter"
  BY <1>2, <1>4
<1>7. Ordered(s, {8})
  BY <1>1, <1>2, <1>5, <1>6 DEF Ordered
<1> QED
  BY <1>7 DEF s

(* Parts with different migrations, one after the other.                     *)
LEMMA Concatenated ==
  ASSUME NEW V, NEW W, V \intersect W = {}, NEW s, Ordered(s, V), NEW t, Ordered(t, W)
  PROVE  Ordered(s \o t, V \cup W)
<1> DEFINE u == s \o t
           m == Len(s)
           n == Len(t)
<1>1. PICK P : s \in Seq(P)
  BY DEF Ordered, IsASeq
<1>2. PICK Q : t \in Seq(Q)
  BY DEF Ordered, IsASeq
<1>3. s \in Seq(P \cup Q) /\ t \in Seq(P \cup Q)
  BY <1>1, <1>2
<1>4. /\ u \in Seq(P \cup Q) /\ Len(u) = m + n /\ m \in Nat /\ n \in Nat
      /\ \A i \in 1..(m + n) : u[i] = IF i <= m THEN s[i] ELSE t[i - m]
  BY <1>3
<1> HIDE DEF u, m, n
<1>5. IsASeq(u)
  BY <1>4 DEF IsASeq
<1>6. /\ \A i \in 1..m : i \in 1..(m + n) /\ u[i] = s[i]
      /\ \A i \in 1..n : m + i \in 1..(m + n) /\ u[m + i] = t[i]
      /\ \A i \in 1..(m + n) : i \in 1..m \/ (i > m /\ i - m \in 1..n /\ u[i] = t[i - m])
  BY <1>4
<1>7. /\ \A i \in 1..m : s[i].v \in V
      /\ \A i \in 1..n : t[i].v \in W
  BY DEF Ordered, m, n
<1>8. \A i \in 1..(m + n) : u[i].v \in V \cup W
  BY <1>6, <1>7
<1>9. ASSUME NEW i \in 1..(m + n), NEW j \in 1..(m + n),
             u[i].op = "record", u[j].v = u[i].v
      PROVE  j <= i
  <2>1. CASE i \in 1..m
    <3>1. j \in 1..m
      BY <1>6, <1>7, <1>9, <2>1
    <3>2. s[i].op = "record" /\ s[j].v = s[i].v
      BY <1>6, <1>9, <2>1, <3>1
    <3> QED
      BY <2>1, <3>1, <3>2 DEF Ordered, m
  <2>2. CASE i > m /\ i - m \in 1..n /\ u[i] = t[i - m]
    <3>1. CASE j \in 1..m
      BY <1>4, <2>2, <3>1
    <3>2. CASE j > m /\ j - m \in 1..n /\ u[j] = t[j - m]
      <4>1. t[i - m].op = "record" /\ t[j - m].v = t[i - m].v
        BY <1>9, <2>2, <3>2
      <4>2. j - m <= i - m
        BY <2>2, <3>2, <4>1 DEF Ordered, n
      <4> QED
        BY <1>4, <2>2, <3>2, <4>2
    <3> QED
      BY <1>6, <3>1, <3>2
  <2> QED
    BY <1>6, <2>1, <2>2
<1>10. ASSUME NEW v \in V \cup W
       PROVE  \E i \in 1..(m + n) : u[i].op = "record" /\ u[i].v = v
  <2>1. CASE v \in V
    <3>1. PICK i \in 1..m : s[i].op = "record" /\ s[i].v = v
      BY <2>1 DEF Ordered, m
    <3> QED
      BY <1>6, <3>1
  <2>2. CASE v \in W
    <3>1. PICK i \in 1..n : t[i].op = "record" /\ t[i].v = v
      BY <2>2 DEF Ordered, n
    <3> QED
      BY <1>6, <3>1
  <2> QED
    BY <2>1, <2>2
<1>11. ASSUME NEW i \in 1..(m + n), u[i].op = "alter"
       PROVE  /\ i - 1 \in 1..(m + n)
              /\ u[i - 1].op = "check" /\ u[i - 1].v = u[i].v /\ u[i - 1].what = u[i].what
  <2>1. CASE i \in 1..m
    <3>1. s[i].op = "alter" /\ u[i] = s[i]
      BY <1>6, <1>11, <2>1
    <3>2. /\ i - 1 \in 1..m
          /\ s[i - 1].op = "check" /\ s[i - 1].v = s[i].v /\ s[i - 1].what = s[i].what
      BY <2>1, <3>1 DEF Ordered, m
    <3>3. i - 1 \in 1..(m + n) /\ u[i - 1] = s[i - 1]
      BY <1>6, <3>2
    <3> QED
      BY <3>1, <3>2, <3>3
  <2>2. CASE i > m /\ i - m \in 1..n /\ u[i] = t[i - m]
    <3>1. t[i - m].op = "alter"
      BY <1>11, <2>2
    <3>2. /\ (i - m) - 1 \in 1..n
          /\ t[(i - m) - 1].op = "check" /\ t[(i - m) - 1].v = t[i - m].v
          /\ t[(i - m) - 1].what = t[i - m].what
      BY <2>2, <3>1 DEF Ordered, n
    <3>3. m + ((i - m) - 1) = i - 1 /\ m + ((i - m) - 1) \in 1..(m + n)
      BY <1>4, <2>2, <3>2
    <3>4. u[i - 1] = t[(i - m) - 1]
      BY <1>6, <3>2, <3>3
    <3> QED
      BY <2>2, <3>2, <3>3, <3>4
  <2> QED
    BY <1>6, <2>1, <2>2
<1>12. ASSUME 5 \in V \cup W
       PROVE  \E i \in 1..(m + n) : u[i].op = "backfill" /\ u[i].v = 5
  <2>1. CASE 5 \in V
    <3>1. PICK i \in 1..m : s[i].op = "backfill" /\ s[i].v = 5
      BY <2>1 DEF Ordered, m
    <3> QED
      BY <1>6, <3>1
  <2>2. CASE 5 \in W
    <3>1. PICK i \in 1..n : t[i].op = "backfill" /\ t[i].v = 5
      BY <2>2 DEF Ordered, n
    <3> QED
      BY <1>6, <3>1
  <2> QED
    BY <1>12, <2>1, <2>2
<1>13. Ordered(u, V \cup W)
  BY <1>4, <1>5, <1>8, <1>9, <1>10, <1>11, <1>12 DEF Ordered
<1> QED
  BY <1>13 DEF u

(* All of the script.                                                       *)
LEMMA ScriptOrdered == Ordered(Script, Versions)
<1>1. Ordered(VideoIntelligence \o RetryAndDeadLetters, {1, 2})
  <2>1. Ordered(VideoIntelligence \o RetryAndDeadLetters, {1} \cup {2})
    BY VideoIntelligenceOrdered, RetryAndDeadLettersOrdered, Concatenated
  <2>2. {1} \cup {2} = {1, 2}
    OBVIOUS
  <2> QED
    BY <2>1, <2>2
<1> DEFINE s2 == VideoIntelligence \o RetryAndDeadLetters
           s3 == s2 \o NextRunIndex
           s4 == s3 \o DurationAndFileSize
           s5 == s4 \o ProfilesAndState
           s6 == s5 \o PrivacyVault
           s7 == s6 \o BatchResume
           s8 == s7 \o VideoArtwork
<1>2. Script = s8
  BY DEF Script
<1>3. ASSUME NEW v \in 2..7, NEW s, Ordered(s, 1..v), NEW t, Ordered(t, {v + 1})
      PROVE  Ordered(s \o t, 1..(v + 1))
  <2>1. (1..v) \intersect {v + 1} = {} /\ (1..v) \cup {v + 1} = 1..(v + 1)
    OBVIOUS
  <2>2. Ordered(s \o t, (1..v) \cup {v + 1})
    BY <1>3, <2>1, Concatenated
  <2> QED
    BY <2>1, <2>2
<1>4. Ordered(s2, 1..2)
  <2>1. {1, 2} = 1..2
    OBVIOUS
  <2> QED
    BY <1>1, <2>1
<1> HIDE DEF s2
<1>5. Ordered(s3, 1..3)
  BY <1>3, <1>4, NextRunIndexOrdered
<1> HIDE DEF s3
<1>6. Ordered(s4, 1..4)
  BY <1>3, <1>5, DurationAndFileSizeOrdered
<1> HIDE DEF s4
<1>7. Ordered(s5, 1..5)
  BY <1>3, <1>6, ProfilesAndStateOrdered
<1> HIDE DEF s5
<1>8. Ordered(s6, 1..6)
  BY <1>3, <1>7, PrivacyVaultOrdered
<1> HIDE DEF s6
<1>9. Ordered(s7, 1..7)
  BY <1>3, <1>8, BatchResumeOrdered
<1> HIDE DEF s7
<1>10. Ordered(s8, 1..8)
  BY <1>3, <1>9, VideoArtworkOrdered
<1> QED
  BY <1>2, <1>10 DEF Versions, CURRENT_SCHEMA_VERSION

(* What the proofs use of the script.                                       *)
LEMMA ScriptFacts ==
  /\ Len(Script) \in Nat /\ DOMAIN Script = 1..Len(Script)
  /\ \A i \in DOMAIN Script : Script[i].v \in Versions
  /\ \A i, j \in DOMAIN Script : Script[i].op = "record" /\ Script[j].v = Script[i].v => j <= i
  /\ \A v \in Versions : \E i \in DOMAIN Script : Script[i].op = "record" /\ Script[i].v = v
  /\ \A i \in DOMAIN Script : Script[i].op = "alter" =>
       /\ i - 1 \in DOMAIN Script
       /\ Script[i - 1].op = "check" /\ Script[i - 1].v = Script[i].v
       /\ Script[i - 1].what = Script[i].what
  /\ \E i \in DOMAIN Script : Script[i].op = "backfill" /\ Script[i].v = 5
<1>1. PICK P : Script \in Seq(P)
  BY ScriptOrdered DEF Ordered, IsASeq
<1>2. Len(Script) \in Nat /\ DOMAIN Script = 1..Len(Script)
  BY <1>1
<1>3. 5 \in Versions
  BY DEF Versions, CURRENT_SCHEMA_VERSION
<1> QED
  BY <1>2, <1>3, ScriptOrdered DEF Ordered

(* The next statement of a migration that is not recorded.                  *)
LEMMA AfterIs ==
  ASSUME NEW i \in 0..Len(Script), NEW known
  PROVE  /\ After(i, known) \in (i + 1)..(Len(Script) + 1)
         /\ After(i, known) <= Len(Script) => Script[After(i, known)].v \notin known
         /\ \A j \in DOMAIN Script :
              j > i /\ j < After(i, known) => Script[j].v \in known
<1> DEFINE rest == {j \in DOMAIN Script : j > i /\ Script[j].v \notin known}
<1>1. Len(Script) \in Nat /\ DOMAIN Script = 1..Len(Script)
  BY ScriptFacts
<1>2. CASE rest = {}
  <2>1. After(i, known) = Len(Script) + 1
    BY <1>2 DEF After
  <2> QED
    BY <1>1, <1>2, <2>1
<1>3. CASE rest # {}
  <2>1. rest \subseteq Nat
    BY <1>1
  <2>2. After(i, known) = CHOOSE j \in rest : \A k \in rest : j <= k
    BY <1>3 DEF After
  <2>3. \A j \in DOMAIN Script : j \in rest <=> j > i /\ Script[j].v \notin known
    OBVIOUS
  <2>4. rest \subseteq DOMAIN Script
    OBVIOUS
  <2> HIDE DEF rest
  <2>5. PICK x \in rest : \A y \in rest : ~ (<<y, x>> \in OpToRel(<, Nat))
    BY <1>3, <2>1, NatLessThanWellFounded, WFMin, Zenon
  <2>6. \A y \in rest : y \in Nat /\ x \in Nat
    BY <2>1
  <2>7. \A y \in rest : ~ (y < x)
    BY <2>5, <2>6, Zenon DEF OpToRel
  <2>8. \A y \in rest : x <= y
    BY <2>6, <2>7
  <2>9. After(i, known) \in rest /\ \A k \in rest : After(i, known) <= k
    BY <2>2, <2>8
  <2>10. After(i, known) \in DOMAIN Script /\ After(i, known) \in rest
    BY <2>4, <2>9
  <2>11. ASSUME NEW j \in DOMAIN Script, j < After(i, known)
         PROVE  j \notin rest
    <3>1. j \in Nat /\ After(i, known) \in Nat
      BY <1>1, <2>10
    <3>2. ~ (After(i, known) <= j)
      BY <2>11, <3>1
    <3> QED
      BY <2>9, <3>2
  <2> QED
    BY <1>1, <2>3, <2>10, <2>11
<1> QED
  BY <1>2, <1>3

-----------------------------------------------------------------------------
(* Processes and the files.                                                 *)

LEMMA DBWhole ==
  ASSUME FileTypes
  PROVE  Whole(DB)
BY OverlayWhole DEF FileTypes, DB

LEMMA ViewWhole ==
  ASSUME FileTypes, NEW p
  PROVE  Whole(View(p))
BY DBWhole DEF FileTypes, View

(* What a statement does to a whole file.                                   *)
LEMMA EffectWhole ==
  ASSUME NEW db, Whole(db), NEW s, s.v \in Versions
  PROVE  Whole(Effect(s, db))
<1>1. db = [x \in Pages |-> db[x]] /\ db.applied \subseteq Versions
  BY DEF Whole
<1>2. Whole([db EXCEPT !.schema = @ \cup {s.what}])
  BY <1>1 DEF Whole, Pages
<1>3. Whole([db EXCEPT !.profiles = @ \cup {"default", "kids"}])
  BY <1>1 DEF Whole, Pages
<1>4. Whole([db EXCEPT !.history = TRUE])
  BY <1>1 DEF Whole, Pages
<1>5. Whole([db EXCEPT !.applied = @ \cup {s.v}])
  BY <1>1 DEF Whole, Pages
<1> QED
  BY <1>2, <1>3, <1>4, <1>5 DEF Effect

LEMMA LaunchedWhole ==
  ASSUME NEW db, Whole(db), NEW S
  PROVE  Whole([db EXCEPT !.schema = @ \cup S])
BY DEF Whole, Pages

LEMMA ReadyWhole ==
  ASSUME NEW db, Whole(db), NEW S
  PROVE  Whole([db EXCEPT !.profiles = @ \cup S])
BY DEF Whole, Pages

LEMMA UsedWhole ==
  ASSUME NEW db, Whole(db)
  PROVE  Whole([db EXCEPT !.rows = @ + 1])
BY DEF Whole, Pages

(* What a step of a process may do to the files: nothing, a commit, a        *)
(* checkpoint, and the checkpoint and end of the log when all is closed.     *)
FileStep ==
  \/ UNCHANGED <<main, wal, reset>>
  \/ \E new : Whole(new) /\ Commit(new)
  \/ main' = DB /\ wal' = wal /\ reset' = TRUE
  \/ main' = DB /\ wal' = NoWal /\ reset' = FALSE

(* The lock and the processes keep their types.                             *)
LockTypes ==
  /\ Whole(pending)
  /\ proc \in [Procs -> ProcState]
  /\ txn # "none" => txn \in Procs /\ At(txn, "migrating")

LEMMA ProcTypes ==
  ASSUME proc \in [Procs -> ProcState], NEW p \in Procs
  PROVE  /\ proc[p].at \in {"down", "opened", "migrating", "up"}
         /\ proc[p].pc \in 0..Len(Script) + 1
         /\ proc[p].known \subseteq Versions
         /\ proc[p].missing \in BOOLEAN
         /\ proc[p].at = "migrating" => proc[p].pc # 0
BY DEF ProcState

LEMMA StateGoesTo ==
  ASSUME NEW s \in ProcState, NEW a \in {"down", "opened", "up"}
  PROVE  [s EXCEPT !.at = a] \in ProcState
BY DEF ProcState

LEMMA DownTypes == Down \in ProcState /\ Down.at = "down"
BY ScriptFacts DEF Down, ProcState

LEMMA CloseStep ==
  ASSUME FileTypes, NEW p \in Procs, Close(p)
  PROVE  LockTypes' /\ FileStep
<1>1. proc' = [proc EXCEPT ![p] = Down]
      /\ (txn' = IF txn = p THEN "none" ELSE txn)
      /\ (pending' = IF txn = p THEN NoFile ELSE pending)
  BY DEF Close, Rollback
<1>2. Whole(pending') /\ proc' \in [Procs -> ProcState]
  BY <1>1, NoFileIsWhole, DownTypes DEF FileTypes
<1>3. txn' # "none" => txn' \in Procs /\ proc'[txn'].at = "migrating"
  BY <1>1 DEF FileTypes, At
<1>4. FileStep
  BY DEF Close, FileStep, dbVars
<1> QED
  BY <1>2, <1>3, <1>4 DEF LockTypes, At

LEMMA DefineStep ==
  ASSUME FileTypes, NEW p, NEW new, Whole(new), Define(p, new)
  PROVE  Whole(pending') /\ txn' = txn /\ FileStep
BY DEF Define, FileTypes, FileStep, dbVars

LEMMA LaunchStep ==
  ASSUME FileTypes, NEW p \in Procs, Launch(p)
  PROVE  LockTypes' /\ FileStep
<1> DEFINE S == BaseTables \cup (IF "videos" \in DB.schema THEN {} ELSE BaseColumns)
           new == [DB EXCEPT !.schema = @ \cup S]
<1>1. /\ Define(p, [DB EXCEPT !.schema = @ \cup BaseTables \cup
                     (IF "videos" \in @ THEN {} ELSE BaseColumns)])
      /\ proc' = [proc EXCEPT ![p].at = "opened"] /\ At(p, "down")
  BY DEF Launch
<1>2. Whole(DB)
  BY DBWhole
<1>3. [DB EXCEPT !.schema = @ \cup BaseTables \cup
        (IF "videos" \in @ THEN {} ELSE BaseColumns)] = new
  BY <1>2 DEF Whole, Pages
<1>4. Whole(new)
  BY <1>2, LaunchedWhole
<1> HIDE DEF new
<1>5. Define(p, new)
  BY <1>1, <1>3
<1>6. Whole(pending') /\ txn' = txn /\ FileStep
  BY <1>4, <1>5, DefineStep
<1>7. proc' \in [Procs -> ProcState]
  <2>1. [proc[p] EXCEPT !.at = "opened"] \in ProcState
    BY StateGoesTo DEF FileTypes
  <2> QED
    BY <1>1, <2>1 DEF FileTypes
<1>8. txn' # "none" => txn' \in Procs /\ proc'[txn'].at = "migrating"
  BY <1>1, <1>6 DEF FileTypes, At
<1> QED
  BY <1>6, <1>7, <1>8 DEF LockTypes, At

LEMMA ReadAppliedStep ==
  ASSUME FileTypes, NEW p \in Procs, ReadApplied(p)
  PROVE  LockTypes' /\ FileStep
<1> DEFINE known == AppliedVersions(DB)
           next == [Down EXCEPT !.at = "migrating", !.known = known, !.pc = After(0, known)]
<1>1. /\ proc' = [proc EXCEPT ![p] = next] /\ At(p, "opened")
      /\ UNCHANGED <<main, wal, reset, txn, pending>>
  BY DEF ReadApplied
<1>2. known \subseteq Versions
  BY DBWhole DEF Whole, AppliedVersions
<1>3. After(0, known) # 0 /\ After(0, known) \in 0..Len(Script) + 1
  <2>1. Len(Script) \in Nat
    BY ScriptFacts
  <2>2. 0 \in 0..Len(Script)
    BY <2>1
  <2>3. After(0, known) \in (0 + 1)..(Len(Script) + 1)
    BY <2>2, AfterIs
  <2> QED
    BY <2>1, <2>3
<1> HIDE DEF known
<1>4. next \in ProcState
  <2>1. Down \in ProcState
    BY DownTypes
  <2>2. next.pc = After(0, known) /\ next \in
          [at : {"down", "opened", "migrating", "up"}, pc : 0..Len(Script) + 1,
           known : SUBSET Versions, missing : BOOLEAN]
    BY <1>2, <1>3, <2>1 DEF ProcState
  <2> QED
    BY <1>3, <2>2 DEF ProcState
<1> HIDE DEF next
<1>5. proc' \in [Procs -> ProcState]
  BY <1>1, <1>4 DEF FileTypes
<1>6. txn' # "none" => txn' \in Procs /\ proc'[txn'].at = "migrating"
  BY <1>1 DEF FileTypes, At
<1> QED
  BY <1>1, <1>5, <1>6 DEF LockTypes, FileStep, FileTypes, At

(* The statement that is run, and where it leads.                           *)
LEMMA AtStatement ==
  ASSUME FileTypes, NEW p \in Procs, Migrating(p)
  PROVE  /\ proc[p].pc \in Nat /\ proc[p].pc <= Len(Script)
         /\ proc[p].pc \in DOMAIN Script /\ Script[proc[p].pc].v \in Versions
         /\ After(proc[p].pc, proc[p].known) \in (proc[p].pc + 1)..(Len(Script) + 1)
<1>1. /\ proc[p].pc \in 0..Len(Script) + 1 /\ proc[p].pc <= Len(Script)
      /\ proc[p].pc # 0
  BY ProcTypes DEF FileTypes, Migrating, At
<1>2. Len(Script) \in Nat /\ DOMAIN Script = 1..Len(Script)
      /\ \A i \in DOMAIN Script : Script[i].v \in Versions
  BY ScriptFacts
<1>3. /\ proc[p].pc \in 0..Len(Script) /\ proc[p].pc \in 1..Len(Script)
      /\ proc[p].pc \in Nat
  BY <1>1, <1>2
<1>4. After(proc[p].pc, proc[p].known) \in (proc[p].pc + 1)..(Len(Script) + 1)
  BY <1>3, AfterIs
<1>5. proc[p].pc \in DOMAIN Script /\ Script[proc[p].pc].v \in Versions
  BY <1>2, <1>3
<1> QED
  BY <1>1, <1>3, <1>4, <1>5

LEMMA StatementStep ==
  ASSUME FileTypes, NEW p \in Procs, Statement(p)
  PROVE  LockTypes' /\ FileStep
<1> DEFINE s == Script[proc[p].pc]
           next == [proc[p] EXCEPT !.pc = After(@, proc[p].known),
                                   !.missing = s.op = "check" /\ s.what \notin View(p).schema]
<1>1. /\ Migrating(p)
      /\ proc' = [proc EXCEPT ![p].pc = After(@, proc[p].known),
                             ![p].missing = s.op = "check" /\ s.what \notin View(p).schema]
  BY DEF Statement
<1>2. s.v \in Versions
  BY <1>1, AtStatement
<1>3. Whole(Effect(s, View(p)))
  BY <1>2, ViewWhole, EffectWhole
<1>4. \/ UNCHANGED <<main, wal, reset, txn, pending>>
      \/ Define(p, Effect(s, View(p)))
      \/ Modify(p, Effect(s, View(p)))
  BY DEF Statement
<1>5. next \in ProcState /\ next.at = "migrating"
  <2>1. proc[p] \in ProcState
    BY DEF FileTypes
  <2>2. /\ After(proc[p].pc, proc[p].known) \in 0..Len(Script) + 1
        /\ After(proc[p].pc, proc[p].known) # 0
    <3>1. /\ proc[p].pc \in Nat /\ Len(Script) \in Nat
          /\ After(proc[p].pc, proc[p].known) \in (proc[p].pc + 1)..(Len(Script) + 1)
      BY <1>1, AtStatement, ScriptFacts
    <3> QED
      BY <3>1
  <2>3. proc[p].at = "migrating"
    BY <1>1 DEF Migrating, At
  <2> QED
    BY <2>1, <2>2, <2>3 DEF ProcState
<1>6. proc' = [proc EXCEPT ![p] = next]
  <2>1. proc[p] \in ProcState
    BY DEF FileTypes
  <2> QED
    BY <1>1, <2>1 DEF ProcState, FileTypes
<1> HIDE DEF s, next
<1>7. proc' \in [Procs -> ProcState] /\ \A q \in Procs : At(q, "migrating") => proc'[q].at = "migrating"
  BY <1>5, <1>6 DEF FileTypes, At
<1>8. proc[p].at = "migrating"
  BY <1>1 DEF Migrating, At
<1>9. CASE UNCHANGED <<main, wal, reset, txn, pending>>
  BY <1>7, <1>9 DEF LockTypes, FileTypes, FileStep, At
<1>10. CASE Define(p, Effect(s, View(p)))
  <2>1. Whole(pending') /\ txn' = txn /\ FileStep
    BY <1>3, <1>10, DefineStep
  <2> QED
    BY <1>7, <2>1 DEF LockTypes, FileTypes, At
<1>11. CASE Modify(p, Effect(s, View(p)))
  <2>1. pending' = Effect(s, View(p)) /\ txn' = p /\ UNCHANGED <<main, wal, reset>>
    BY <1>11 DEF Modify, dbVars
  <2>2. proc'[p].at = "migrating"
    BY <1>7, <1>8 DEF At
  <2> QED
    BY <1>3, <1>7, <2>1, <2>2 DEF LockTypes, FileStep, At
<1> QED
  BY <1>4, <1>9, <1>10, <1>11

LEMMA ReadyStep ==
  ASSUME FileTypes, NEW p \in Procs, Ready(p)
  PROVE  LockTypes' /\ FileStep
<1> DEFINE new == [View(p) EXCEPT !.profiles = @ \cup {"default", "kids", "vault"}]
<1>1. /\ Commit(new) /\ txn' = "none" /\ pending' = NoFile
      /\ proc' = [proc EXCEPT ![p] = [Down EXCEPT !.at = "up"]]
  BY DEF Ready
<1>2. Whole(new)
  BY ViewWhole, ReadyWhole
<1> HIDE DEF new
<1>3. [Down EXCEPT !.at = "up"] \in ProcState
  BY DownTypes, StateGoesTo
<1>4. proc' \in [Procs -> ProcState]
  BY <1>1, <1>3 DEF FileTypes
<1> QED
  BY <1>1, <1>2, <1>4, NoFileIsWhole DEF LockTypes, FileStep

LEMMA UseStep ==
  ASSUME FileTypes, NEW p \in Procs, Use(p)
  PROVE  LockTypes' /\ FileStep
<1> DEFINE new == [DB EXCEPT !.rows = @ + 1]
<1>1. Commit(new) /\ UNCHANGED <<txn, pending, proc>>
  BY DEF Use
<1>2. Whole(new)
  BY DBWhole, UsedWhole
<1> HIDE DEF new
<1> QED
  BY <1>1, <1>2 DEF LockTypes, FileTypes, FileStep, At

LEMMA CrashStep ==
  ASSUME FileTypes, NEW p \in Procs, Crash(p)
  PROVE  LockTypes' /\ FileStep
<1>1. /\ proc' = [proc EXCEPT ![p] = Down] /\ UNCHANGED <<main, wal, reset>>
      /\ (txn' = IF txn = p THEN "none" ELSE txn)
      /\ (pending' = IF txn = p THEN NoFile ELSE pending)
  BY DEF Crash, Rollback, dbVars
<1>2. Whole(pending') /\ proc' \in [Procs -> ProcState]
  BY <1>1, NoFileIsWhole, DownTypes DEF FileTypes
<1>3. txn' # "none" => txn' \in Procs /\ proc'[txn'].at = "migrating"
  BY <1>1 DEF FileTypes, At
<1> QED
  BY <1>1, <1>2, <1>3 DEF LockTypes, FileStep, At

-----------------------------------------------------------------------------
(* Copies under the steps of processes.                                     *)

LEMMA ProcessSteps ==
  ASSUME FileTypes, Next
  PROVE  LockTypes' /\ FileStep
<1>1. CASE Checkpoint
  <2>1. main' = DB /\ reset' = TRUE /\ UNCHANGED <<wal, txn, pending, proc>>
    BY <1>1 DEF Checkpoint
  <2> QED
    BY <2>1 DEF LockTypes, FileTypes, FileStep, At
<1>2. ASSUME NEW p \in Procs, ProcStep(p) \/ Use(p) \/ Stop(p) \/ Crash(p)
      PROVE  LockTypes' /\ FileStep
  <2>1. CASE Launch(p)
    BY <2>1, LaunchStep
  <2>2. CASE ReadApplied(p)
    BY <2>2, ReadAppliedStep
  <2>3. CASE Statement(p)
    BY <2>3, StatementStep
  <2>4. CASE Fail(p)
    <3>1. Close(p)
      BY <2>4 DEF Fail
    <3> QED
      BY <3>1, CloseStep
  <2>5. CASE Ready(p)
    BY <2>5, ReadyStep
  <2>6. CASE Use(p)
    BY <2>6, UseStep
  <2>7. CASE Stop(p)
    <3>1. Close(p)
      BY <2>7 DEF Stop
    <3> QED
      BY <3>1, CloseStep
  <2>8. CASE Crash(p)
    BY <2>8, CrashStep
  <2> QED
    BY <1>2, <2>1, <2>2, <2>3, <2>4, <2>5, <2>6, <2>7, <2>8 DEF ProcStep
<1> QED
  BY <1>1, <1>2 DEF Next

LEMMA FilesStayWhole ==
  ASSUME FileTypes, FileStep
  PROVE  Whole(main') /\ IsLog(wal') /\ reset' \in BOOLEAN
<1>1. CASE UNCHANGED <<main, wal, reset>>
  BY <1>1 DEF FileTypes
<1>2. ASSUME NEW new, Whole(new), Commit(new)
      PROVE  Whole(main') /\ IsLog(wal') /\ reset' \in BOOLEAN
  <2>1. main' = main /\ IsLog(wal') /\ reset' \in BOOLEAN
    BY <1>2, CommitWrites DEF FileTypes
  <2> QED
    BY <2>1 DEF FileTypes
<1>3. CASE main' = DB /\ wal' = wal /\ reset' = TRUE
  BY <1>3, DBWhole DEF FileTypes
<1>4. CASE main' = DB /\ wal' = NoWal /\ reset' = FALSE
  BY <1>4, DBWhole, NoLog
<1> QED
  BY <1>1, <1>2, <1>3, <1>4 DEF FileStep

LEMMA TypesKept ==
  ASSUME FileTypes, Next
  PROVE  FileTypes'
<1>1. LockTypes' /\ Whole(main') /\ IsLog(wal') /\ reset' \in BOOLEAN
  BY ProcessSteps, FilesStayWhole
<1> QED
  BY <1>1 DEF FileTypes, LockTypes

(* A checkpoint does not change the database, nor does laying the log over   *)
(* it once more.                                                            *)
LEMMA OverlayTwice ==
  ASSUME FileTypes
  PROVE  Overlay(DB, wal) = DB
<1>1. IsLog(wal) /\ Whole(main) /\ Whole(DB)
  BY DBWhole DEF FileTypes
<1>2. \A x \in Pages : DB[x] = IF x \in DOMAIN wal THEN wal[x] ELSE main[x]
  BY <1>1, OverlayWhole DEF DB
<1>3. /\ Whole(Overlay(DB, wal))
      /\ \A x \in Pages : Overlay(DB, wal)[x] = IF x \in DOMAIN wal THEN wal[x] ELSE DB[x]
  BY <1>1, OverlayWhole
<1>4. \A x \in Pages : Overlay(DB, wal)[x] = DB[x]
  BY <1>2, <1>3
<1> QED
  BY <1>1, <1>3, <1>4, SamePages

(* A log that may be started afresh stays in the file.                      *)
LEMMA ResetKept ==
  ASSUME FileTypes, FileStep, reset => main = DB
  PROVE  reset' => main' = DB'
<1>1. CASE UNCHANGED <<main, wal, reset>>
  BY <1>1 DEF DB
<1>2. ASSUME NEW new, Whole(new), Commit(new)
      PROVE  reset' => main' = DB'
  <2>1. main' = main /\ (reset' => reset /\ wal' = wal)
    BY <1>2, CommitWrites DEF FileTypes
  <2>2. reset' => DB' = DB
    BY <2>1 DEF DB
  <2> QED
    BY <2>1, <2>2
<1>3. CASE main' = DB /\ wal' = wal /\ reset' = TRUE
  <2>1. DB' = Overlay(DB, wal)
    BY <1>3 DEF DB
  <2> QED
    BY <1>3, <2>1, OverlayTwice
<1>4. CASE main' = DB /\ wal' = NoWal /\ reset' = FALSE
  BY <1>4
<1> QED
  BY <1>1, <1>2, <1>3, <1>4 DEF FileStep

(* A copied file that is the database under the log stays so under the log   *)
(* of the next step, unless the log is dropped with pages the copy has not.  *)
LEMMA CopyUnderLog ==
  ASSUME FileTypes, FileStep, reset => main = DB,
         NEW b, Whole(b), Overlay(b, wal) = DB, ~ (Dropped /\ Overlay(b, wal) # b)
  PROVE  Overlay(b, wal') = DB'
<1>1. IsLog(wal) /\ IsLog(wal') /\ Whole(DB) /\ reset \in BOOLEAN
  BY FilesStayWhole, DBWhole DEF FileTypes
<1>2. \A x \in Pages : DB[x] = IF x \in DOMAIN wal THEN wal[x] ELSE b[x]
  BY <1>1, OverlayWhole
<1>3. CASE UNCHANGED <<main, wal, reset>>
  BY <1>3 DEF DB
<1>4. ASSUME NEW new, Whole(new), Commit(new)
      PROVE  Overlay(b, wal') = DB'
  <2>1. DB' = new
    BY <1>4, CommitWrites DEF FileTypes
  <2>2. CASE new = DB
    <3>1. wal' = wal
      BY <1>4, <2>2 DEF Commit
    <3> QED
      BY <2>1, <2>2, <3>1
  <2>3. CASE new # DB
    <3>1. \A x \in Pages : /\ x \in DOMAIN wal' => wal'[x] = new[x]
                           /\ x \in DOMAIN wal' <=> (new[x] # DB[x] \/ (~reset /\ x \in DOMAIN wal))
      BY <1>4, <2>3, CommitWrites DEF FileTypes
    <3>2. /\ Whole(Overlay(b, wal'))
          /\ \A x \in Pages : Overlay(b, wal')[x] = IF x \in DOMAIN wal' THEN wal'[x] ELSE b[x]
      BY <1>1, OverlayWhole
    <3>3. ASSUME NEW x \in Pages, x \notin DOMAIN wal'
          PROVE  b[x] = new[x]
      <4>1. new[x] = DB[x] /\ (reset \/ x \notin DOMAIN wal)
        BY <3>1, <3>3
      <4>2. CASE x \in DOMAIN wal
        <5>1. reset /\ wal' # wal
          BY <3>3, <4>1, <4>2
        <5>2. wal # NoWal
          BY <4>2 DEF NoWal
        <5>3. Overlay(b, wal) = b
          BY <5>1, <5>2 DEF Dropped
        <5> QED
          BY <4>1, <5>3
      <4>3. CASE x \notin DOMAIN wal
        BY <1>2, <4>1, <4>3
      <4> QED
        BY <4>2, <4>3
    <3>4. \A x \in Pages : Overlay(b, wal')[x] = new[x]
      BY <3>1, <3>2, <3>3
    <3>5. Overlay(b, wal') = new
      BY <1>4, <3>2, <3>4, SamePages
    <3> QED
      BY <2>1, <3>5
  <2> QED
    BY <2>2, <2>3
<1>5. CASE main' = DB /\ wal' = wal /\ reset' = TRUE
  <2>1. DB' = Overlay(DB, wal)
    BY <1>5 DEF DB
  <2> QED
    BY <1>5, <2>1, OverlayTwice
<1>6. CASE main' = DB /\ wal' = NoWal /\ reset' = FALSE
  <2>1. DB' = Overlay(DB, NoWal)
    BY <1>6 DEF DB
  <2>2. DB' = DB
    BY <1>1, <2>1, NoLog
  <2>3. Overlay(b, NoWal) = b
    BY NoLog
  <2>4. CASE wal = NoWal
    BY <1>6, <2>2, <2>4
  <2>5. CASE wal # NoWal
    <3>1. Overlay(b, wal) = b
      BY <1>6, <2>5 DEF Dropped
    <3> QED
      BY <1>6, <2>2, <2>3, <3>1
  <2> QED
    BY <2>4, <2>5
<1> QED
  BY <1>3, <1>4, <1>5, <1>6 DEF FileStep

-----------------------------------------------------------------------------
(* A backup, a restore and the processes beside them.                       *)

LEMMA TheFiles == Files = 2 /\ Order[1] = "main" /\ Order[2] = "wal"
BY DEF Files, Order

LEMMA ProcessStepKeeps ==
  ASSUME FilesInv, ProcessStep
  PROVE  FilesInv'
<1>1. FileTypes /\ CopyTypes /\ LogIsInFile /\ CopyInv /\ HalfRestored /\ Next /\ UNCHANGED <<bk, rs>>
  BY DEF FilesInv, ProcessStep
<1>2. FileTypes' /\ FileStep
  BY <1>1, TypesKept, ProcessSteps
<1>3. /\ seen' = IF Copying THEN seen \cup {DB'} ELSE seen
      /\ torn' = (torn \/ (Copying /\ Dropped /\ Overlay(bk.main, wal) # bk.main))
      /\ mixed' = (mixed \/ (Restoring /\ proc' # proc))
  BY DEF ProcessStep, Watched
<1>4. CopyTypes'
  <2>1. torn' \in BOOLEAN /\ mixed' \in BOOLEAN
    BY <1>1, <1>3 DEF CopyTypes
  <2>2. rs = 0 => ~mixed'
    BY <1>1, <1>3, TheFiles DEF CopyTypes, Restoring
  <2> QED
    BY <1>1, <2>1, <2>2 DEF CopyTypes
<1>5. LogIsInFile'
  <2>1. SUFFICES ASSUME Settled', reset' PROVE main' = DB'
    BY DEF LogIsInFile
  <2>2. Settled
    BY <1>1, <1>3, <2>1 DEF Settled
  <2> QED
    BY <1>1, <1>2, <2>1, <2>2, ResetKept DEF LogIsInFile
<1>6. ASSUME bk.done = 1, ~torn'
      PROVE  Overlay(bk.main, wal') = DB' /\ DB' \in seen'
  <2>1. Copying /\ ~torn /\ ~ (Dropped /\ Overlay(bk.main, wal) # bk.main)
    <3>1. Copying
      BY <1>6, TheFiles DEF Copying
    <3> HIDE DEF Dropped
    <3> QED
      BY <1>3, <1>6, <3>1, Zenon
  <2>2. rs = 0 /\ Settled
    BY <1>1, <1>6, TheFiles DEF CopyTypes, Settled
  <2>3. reset => main = DB
    BY <1>1, <2>2 DEF LogIsInFile
  <2>4. Whole(bk.main) /\ Overlay(bk.main, wal) = DB
    BY <1>1, <1>6, <2>1 DEF CopyTypes, CopyInv
  <2>5. Overlay(bk.main, wal') = DB'
    BY <1>1, <1>2, <2>1, <2>3, <2>4, CopyUnderLog
  <2> QED
    BY <1>3, <2>1, <2>5
<1>7. BackupIsSnapshot'
  <2>1. Content' = Content
    BY <1>1 DEF Content
  <2>2. seen \subseteq seen' /\ (torn => torn')
    BY <1>3
  <2> QED
    BY <1>1, <2>1, <2>2 DEF CopyInv, BackupIsSnapshot
<1>8. CopyInv'
  BY <1>1, <1>6, <1>7 DEF CopyInv
<1>9. HalfRestored'
  <2>1. SUFFICES ASSUME rs = Files, ~mixed' PROVE FALSE
    BY <1>1 DEF HalfRestored
  <2>2. AllDown /\ proc' = proc
    BY <1>1, <1>3, <2>1 DEF HalfRestored, Restoring
  <2>3. PICK p \in Procs : ProcStep(p) \/ Use(p) \/ Stop(p) \/ Crash(p)
    BY <1>1, <2>2 DEF Next, Checkpoint, AllDown, At
  <2>4. proc[p].at = "down"
    BY <2>2 DEF AllDown, At
  <2>5. Launch(p)
    BY <2>3, <2>4 DEF ProcStep, ReadApplied, Statement, Fail, Migrating, Migrated, Ready, Use,
                      Stop, Crash, At
  <2>6. proc' = [proc EXCEPT ![p].at = "opened"]
    BY <2>5 DEF Launch
  <2>7. proc[p] \in ProcState /\ proc \in [Procs -> ProcState]
    BY <1>1 DEF FileTypes
  <2>8. proc'[p].at = "opened"
    BY <2>6, <2>7 DEF ProcState
  <2> QED
    BY <2>2, <2>4, <2>8
<1> QED
  BY <1>2, <1>4, <1>5, <1>8, <1>9 DEF FilesInv

LEMMA CopyFileKeeps ==
  ASSUME FilesInv, CopyFile
  PROVE  FilesInv'
<1>1. FileTypes /\ CopyTypes /\ LogIsInFile /\ CopyInv
  BY DEF FilesInv
<1>2. /\ bk.done < Files /\ seen' = seen \cup {DB}
      /\ UNCHANGED <<main, wal, reset, txn, pending, proc, rs, torn, mixed>>
  BY DEF CopyFile
<1>3. bk.done \in {0, 1} /\ rs = 0
  <2>1. bk.done \in 0..2 /\ bk.done < 2
    BY <1>1, <1>2, TheFiles DEF CopyTypes
  <2>2. rs = 0
    BY <1>1, <2>1, TheFiles DEF CopyTypes
  <2> QED
    BY <2>1, <2>2
<1>4. DB' = DB
  BY <1>2 DEF DB
<1>5. /\ bk' = [done |-> bk'.done, main |-> bk'.main, wal |-> bk'.wal]
      /\ bk'.done = bk.done + 1
      /\ bk'.main = IF Order[bk.done + 1] = "main" THEN main ELSE bk.main
      /\ bk'.wal = IF Order[bk.done + 1] = "wal" THEN wal ELSE bk.wal
  <2>1. bk = [done |-> bk.done, main |-> bk.main, wal |-> bk.wal]
    BY <1>1 DEF CopyTypes
  <2> DEFINE f == Order[bk.done + 1]
  <2>2. bk' = [bk EXCEPT !.done = @ + 1, !.main = IF f = "main" THEN main ELSE @,
                         !.wal = IF f = "wal" THEN wal ELSE @]
    BY DEF CopyFile
  <2> HIDE DEF f
  <2>3. /\ bk' = [done |-> bk'.done, main |-> bk'.main, wal |-> bk'.wal]
        /\ bk'.done = bk.done + 1
        /\ bk'.main = IF f = "main" THEN main ELSE bk.main
        /\ bk'.wal = IF f = "wal" THEN wal ELSE bk.wal
    BY <2>1, <2>2
  <2> QED
    BY <2>3 DEF f
<1>6. ASSUME bk.done = 0
      PROVE  CopyTypes' /\ CopyInv'
  <2>1. bk'.done = 1 /\ bk'.main = main /\ bk'.wal = bk.wal
    BY <1>5, <1>6, TheFiles
  <2>2. CopyTypes'
    BY <1>1, <1>2, <1>3, <1>5, <2>1, TheFiles DEF CopyTypes, FileTypes
  <2>3. CopyInv'
    <3>1. Overlay(main', wal') = DB'
      BY DEF DB
    <3> QED
      BY <1>2, <1>4, <2>1, <3>1, TheFiles DEF CopyInv, BackupIsSnapshot
  <2> QED
    BY <2>2, <2>3
<1>7. ASSUME bk.done = 1
      PROVE  CopyTypes' /\ CopyInv'
  <2>1. bk'.done = 2 /\ bk'.main = bk.main /\ bk'.wal = wal
    BY <1>5, <1>7, TheFiles
  <2>2. CopyTypes'
    BY <1>1, <1>2, <1>3, <1>5, <2>1, TheFiles DEF CopyTypes, FileTypes
  <2>3. BackupIsSnapshot'
    BY <1>1, <1>2, <1>7, <2>1 DEF CopyInv, BackupIsSnapshot, Content
  <2>4. CopyInv'
    BY <2>1, <2>3 DEF CopyInv
  <2> QED
    BY <2>2, <2>4
<1>8. CopyTypes' /\ CopyInv'
  BY <1>3, <1>6, <1>7
<1>9. FileTypes'
  BY <1>1, <1>2 DEF FileTypes, At
<1>10. LogIsInFile' /\ HalfRestored'
  BY <1>1, <1>2, <1>3, <1>4, TheFiles DEF LogIsInFile, Settled, HalfRestored
<1> QED
  BY <1>8, <1>9, <1>10 DEF FilesInv

LEMMA BeginRestoreKeeps ==
  ASSUME FilesInv, NEW force, BeginRestore(force)
  PROVE  FilesInv'
<1>1. FileTypes /\ CopyTypes /\ LogIsInFile /\ CopyInv
  BY DEF FilesInv
<1>2. /\ bk.done = Files /\ rs = 0 /\ rs' = 1
      /\ UNCHANGED <<main, wal, reset, txn, pending, proc, bk, seen, torn, mixed>>
  BY DEF BeginRestore, vars
<1>3. DB' = DB /\ Content' = Content
  BY <1>2 DEF DB, Content
<1>4. FileTypes'
  BY <1>1, <1>2 DEF FileTypes, At
<1>5. CopyTypes'
  BY <1>1, <1>2, TheFiles DEF CopyTypes
<1>6. LogIsInFile' /\ HalfRestored'
  BY <1>1, <1>2, <1>3, TheFiles DEF LogIsInFile, Settled, HalfRestored, CopyTypes
<1>7. CopyInv'
  BY <1>1, <1>2, <1>3 DEF CopyInv, BackupIsSnapshot
<1> QED
  BY <1>4, <1>5, <1>6, <1>7 DEF FilesInv

(* What the restore of each file does.                                      *)
LEMMA RestoreFileIs ==
  ASSUME FileTypes, CopyTypes, RestoreFile
  PROVE  /\ rs' = rs + 1 /\ UNCHANGED <<txn, pending, proc, bk, seen, torn>>
         /\ \/ /\ rs = 1 /\ wal' = wal /\ reset' = reset
               /\ main' = IF Exists(bk.main, bk.wal) THEN bk.main ELSE main
               /\ mixed' = (mixed \/ torn \/ ~AllDown)
            \/ /\ rs = 2 /\ main' = main /\ reset' = FALSE
               /\ wal' = IF bk.wal # NoWal THEN bk.wal ELSE wal
               /\ mixed' = (mixed \/ torn \/ ~AllDown \/ (bk.wal = NoWal /\ wal # NoWal))
<1>1. /\ rs' = rs + 1 /\ UNCHANGED <<txn, pending, proc, bk, seen, torn>>
      /\ rs \in {1, 2}
  BY TheFiles DEF RestoreFile
<1>2. /\ "main" \in Replaced <=> Exists(bk.main, bk.wal)
      /\ "wal" \in Replaced <=> bk.wal # NoWal
  BY DEF Replaced
<1>3. /\ main' = IF Order[rs] = "main" /\ Order[rs] \in Replaced THEN bk.main ELSE main
      /\ wal' = IF Order[rs] = "wal" /\ Order[rs] \in Replaced THEN bk.wal ELSE wal
      /\ reset' = (reset /\ Order[rs] # "wal")
      /\ mixed' = (mixed \/ torn \/ ~AllDown
                   \/ (Order[rs] = "wal" /\ bk.wal = NoWal /\ wal # NoWal))
  BY DEF RestoreFile, AllDown, At
<1>4. CASE rs = 1
  <2>1. Order[rs] = "main" /\ "wal" # "main" /\ reset \in BOOLEAN
    BY <1>4, TheFiles DEF FileTypes
  <2>2. wal' = wal /\ main' = IF Exists(bk.main, bk.wal) THEN bk.main ELSE main
    BY <1>2, <1>3, <2>1
  <2>3. reset' = reset
    BY <1>3, <2>1
  <2>4. mixed' = (mixed \/ torn \/ ~AllDown)
    BY <1>3, <2>1
  <2> QED
    BY <1>1, <1>4, <2>2, <2>3, <2>4
<1>5. CASE rs = 2
  <2>1. Order[rs] = "wal" /\ "wal" # "main"
    BY <1>5, TheFiles
  <2>2. main' = main /\ reset' = FALSE /\ wal' = IF bk.wal # NoWal THEN bk.wal ELSE wal
    BY <1>2, <1>3, <2>1
  <2>3. mixed' = (mixed \/ torn \/ ~AllDown \/ (bk.wal = NoWal /\ wal # NoWal))
    BY <1>3, <2>1
  <2> QED
    BY <1>1, <1>5, <2>2, <2>3
<1> QED
  BY <1>1, <1>4, <1>5

LEMMA RestoreFileKeeps ==
  ASSUME FilesInv, RestoreFile
  PROVE  FilesInv'
<1>1. FileTypes /\ CopyTypes /\ LogIsInFile /\ CopyInv
  BY DEF FilesInv
<1>2. rs' = rs + 1 /\ UNCHANGED <<txn, pending, proc, bk, seen, torn>> /\ rs \in {1, 2}
  BY <1>1, RestoreFileIs
<1>3. bk.done = 2 /\ Content' = Content
  BY <1>1, <1>2, TheFiles DEF CopyTypes, Content
<1>4. CopyInv'
  BY <1>1, <1>2, <1>3 DEF CopyInv, BackupIsSnapshot
<1>5. mixed' \in BOOLEAN /\ Whole(main') /\ IsLog(wal') /\ reset' \in BOOLEAN
  <2>1. Whole(bk.main) /\ IsLog(bk.wal) /\ Whole(main) /\ IsLog(wal) /\ reset \in BOOLEAN
        /\ mixed \in BOOLEAN /\ torn \in BOOLEAN
    BY <1>1 DEF CopyTypes, FileTypes
  <2> QED
    BY <1>1, <2>1, RestoreFileIs
<1>6. FileTypes'
  BY <1>1, <1>2, <1>5 DEF FileTypes, At
<1>7. CopyTypes'
  BY <1>1, <1>2, <1>3, <1>5, TheFiles DEF CopyTypes
<1>8. LogIsInFile' /\ HalfRestored'
  <2>1. CASE rs = 1
    <3>1. /\ wal' = wal /\ reset' = reset /\ rs' = 2
          /\ main' = IF Exists(bk.main, bk.wal) THEN bk.main ELSE main
          /\ mixed' = (mixed \/ torn \/ ~AllDown)
      BY <1>1, <1>2, <2>1, RestoreFileIs
    <3>2. HalfRestored'
      BY <1>2, <3>1 DEF HalfRestored, AllDown, At
    <3>3. SUFFICES ASSUME Settled', reset' PROVE main' = DB'
      BY <3>2 DEF LogIsInFile
    <3>4. main' = main
      BY <1>2, <3>1, <3>3, TheFiles DEF Settled
    <3>5. Settled
      BY <2>1, <3>1, <3>3, TheFiles DEF Settled
    <3> QED
      BY <1>1, <3>1, <3>3, <3>4, <3>5 DEF LogIsInFile, DB
  <2>2. CASE rs = 2
    <3>1. reset' = FALSE /\ rs' = 3
      BY <1>1, <1>2, <2>2, RestoreFileIs
    <3> QED
      BY <3>1, TheFiles DEF LogIsInFile, HalfRestored
  <2> QED
    BY <1>2, <2>1, <2>2
<1> QED
  BY <1>4, <1>6, <1>7, <1>8 DEF FilesInv

LEMMA FilesInitially ==
  ASSUME BackupInit
  PROVE  FilesInv
<1>1. /\ main \in {NoFile} \cup {OfVersion(v) : v \in OldVersions} /\ wal = NoWal /\ reset = FALSE
      /\ txn = "none" /\ pending = NoFile /\ proc = [p \in Procs |-> Down]
      /\ bk = [done |-> 0, main |-> NoFile, wal |-> NoWal]
      /\ rs = 0 /\ torn = FALSE /\ mixed = FALSE
  BY DEF BackupInit, Init
<1>2. Whole(main)
  <2>1. ASSUME NEW v \in OldVersions PROVE Whole(OfVersion(v))
    <3>1. v \in 0..8
      BY MigrationsAssumption DEF CURRENT_SCHEMA_VERSION
    <3>2. 1..v \subseteq Versions
      BY <3>1 DEF Versions, CURRENT_SCHEMA_VERSION
    <3> QED
      BY <3>2 DEF OfVersion, Whole, Pages
  <2> QED
    BY <1>1, <2>1, NoFileIsWhole
<1>3. FileTypes
  BY <1>1, <1>2, NoFileIsWhole, NoLog, DownTypes DEF FileTypes
<1>4. bk.done = 0 /\ bk.main = NoFile /\ bk.wal = NoWal
  BY <1>1
<1>5. CopyTypes
  <2>1. bk = [done |-> bk.done, main |-> bk.main, wal |-> bk.wal]
    BY <1>1
  <2>2. Whole(bk.main) /\ IsLog(bk.wal)
    BY <1>4, NoFileIsWhole, NoLog
  <2>3. bk.done \in 0..Files /\ rs \in 0..(Files + 1)
    BY <1>1, <1>4, TheFiles
  <2>4. rs = 0 /\ torn \in BOOLEAN /\ mixed \in BOOLEAN /\ ~mixed
    BY <1>1
  <2> QED
    BY <2>1, <2>2, <2>3, <2>4 DEF CopyTypes
<1>6. LogIsInFile /\ CopyInv /\ HalfRestored
  BY <1>1, <1>4, TheFiles DEF LogIsInFile, CopyInv, BackupIsSnapshot, HalfRestored
<1> QED
  BY <1>3, <1>5, <1>6 DEF FilesInv

LEMMA FilesStay ==
  ASSUME FilesInv, [BackupNext]_allVars
  PROVE  FilesInv'
<1>1. CASE UNCHANGED allVars
  <2>1. UNCHANGED <<main, wal, reset, txn, pending, proc, bk, rs, seen, torn, mixed>>
    BY <1>1 DEF allVars, vars, backupVars
  <2> QED
    BY <2>1 DEF FilesInv, FileTypes, CopyTypes, LogIsInFile, Settled, CopyInv, BackupIsSnapshot,
                Content, HalfRestored, AllDown, At, DB
<1>2. CASE BackupNext
  BY <1>2, ProcessStepKeeps, CopyFileKeeps, BeginRestoreKeeps, RestoreFileKeeps DEF BackupNext
<1> QED
  BY <1>1, <1>2

(* The files and copies stay sound in every run (backup_state,              *)
(* restore_state, and SQLite's files beside them).                          *)
THEOREM FilesInvariance == BackupSpec => []FilesInv
<1>1. BackupInit => FilesInv
  BY FilesInitially
<1>2. FilesInv /\ [BackupNext]_allVars => FilesInv'
  BY FilesStay
<1> QED
  BY <1>1, <1>2, PTL DEF BackupSpec

(* The files, the transaction and the processes keep their types, and only   *)
(* a process that is migrating holds the lock (Database.initialize).        *)
THEOREM TypeCorrect == BackupSpec => []TypeOK
<1>1. FilesInv => TypeOK
  <2> SUFFICES ASSUME FilesInv PROVE TypeOK
    OBVIOUS
  <2>1. FileTypes
    BY DEF FilesInv
  <2>2. DOMAIN main = Pages /\ DOMAIN pending = Pages /\ DOMAIN wal \subseteq Pages
    BY <2>1 DEF FileTypes, Whole, IsLog
  <2>3. \A p \in Procs : /\ proc[p].at \in {"down", "opened", "migrating", "up"}
                         /\ proc[p].pc \in 0..Len(Script) + 1
                         /\ proc[p].known \subseteq Versions
    BY <2>1, ProcTypes DEF FileTypes
  <2> QED
    BY <2>1, <2>2, <2>3 DEF TypeOK, FileTypes
<1> QED
  BY <1>1, FilesInvariance, PTL

(* A backup is the database of some moment while it was made, with nothing   *)
(* locked, unless the log was started afresh, or deleted, between the two    *)
(* copies with pages the copied file had not (backup_state).                *)
THEOREM BackupIsSnapshotHolds == BackupSpec => []BackupIsSnapshot
<1>1. FilesInv => BackupIsSnapshot
  BY DEF FilesInv, CopyInv
<1> QED
  BY <1>1, FilesInvariance, PTL

(* An undisturbed restore of such a backup brings that database back         *)
(* (restore_state).                                                         *)
THEOREM RestoreBringsBackHolds == BackupSpec => RestoreBringsBack
<1>1. FilesInv /\ [BackupNext]_allVars =>
        [rs = Files /\ rs' = Files + 1 /\ ~mixed' /\ Exists(bk.main, bk.wal)
           => DB' \in seen]_allVars
  <2> SUFFICES ASSUME FilesInv, BackupNext, rs = Files, rs' = Files + 1, ~mixed',
                      Exists(bk.main, bk.wal)
               PROVE  DB' \in seen
    OBVIOUS
  <2>1. rs = 2 /\ rs' = 3
    BY TheFiles
  <2>2. RestoreFile
    BY <2>1 DEF BackupNext, ProcessStep, CopyFile, BeginRestore
  <2>3. FileTypes /\ CopyTypes /\ HalfRestored /\ BackupIsSnapshot
    BY DEF FilesInv, CopyInv
  <2>4. /\ main' = main
        /\ wal' = IF bk.wal # NoWal THEN bk.wal ELSE wal
        /\ ~mixed /\ ~torn /\ ~ (bk.wal = NoWal /\ wal # NoWal)
    <3>1. /\ main' = main
          /\ wal' = IF bk.wal # NoWal THEN bk.wal ELSE wal
          /\ mixed' = (mixed \/ torn \/ ~AllDown \/ (bk.wal = NoWal /\ wal # NoWal))
      BY <2>1, <2>2, <2>3, RestoreFileIs
    <3> QED
      BY <3>1, Zenon
  <2>5. main' = bk.main /\ wal' = bk.wal
    BY <2>3, <2>4 DEF HalfRestored
  <2>6. DB' = Content
    BY <2>5 DEF DB, Content
  <2>7. bk.done = Files
    BY <2>1, <2>3 DEF CopyTypes
  <2> QED
    BY <2>3, <2>4, <2>6, <2>7 DEF BackupIsSnapshot
<1> QED
  BY <1>1, FilesInvariance, PTL DEF BackupSpec, RestoreBringsBack

-----------------------------------------------------------------------------
(* Databases that only grow, and the statements of an upgrade.              *)

LEMMA GrowsOn ==
  ASSUME NEW a, NEW b, NEW c, Grows(a, b), Grows(b, c)
  PROVE  Grows(a, c)
BY DEF Grows

LEMMA GrowsNot ==
  ASSUME NEW a
  PROVE  Grows(a, a)
BY DEF Grows

LEMMA CurrentStays ==
  ASSUME NEW a, NEW b, Current(a), Grows(a, b), Whole(b)
  PROVE  Current(b)
BY DEF Current, Grows, Whole

LEMMA ProgressStays ==
  ASSUME NEW st, NEW a, NEW b, Progress(st, a), Grows(a, b)
  PROVE  Progress(st, b)
<1>1. ASSUME NEW s, Done(s, a) PROVE Done(s, b)
  BY <1>1 DEF Done, Grows
<1> QED
  BY <1>1 DEF Progress, Grows

(* The first statement of a start.                                          *)
LEMMA ProgressBegins ==
  ASSUME NEW st, NEW db, st.known \subseteq db.applied, st.pc = After(0, st.known)
  PROVE  Progress(st, db)
<1> DEFINE k == st.known
           i == After(0, k)
<1>1. Len(Script) \in Nat /\ DOMAIN Script = 1..Len(Script)
  BY ScriptFacts
<1>2. 0 \in 0..Len(Script)
  BY <1>1
<1>3. /\ i \in (0 + 1)..(Len(Script) + 1)
      /\ i <= Len(Script) => Script[i].v \notin k
      /\ \A j \in DOMAIN Script : j > 0 /\ j < i => Script[j].v \in k
  BY <1>2, AfterIs
<1> HIDE DEF i
<1>4. \A j \in DOMAIN Script : j < i => Script[j].v \in k
  BY <1>1, <1>3
<1>5. ASSUME i <= Len(Script), Script[i].op = "alter"
      PROVE  FALSE
  <2>1. i \in DOMAIN Script
    BY <1>1, <1>3, <1>5
  <2>2. i - 1 \in DOMAIN Script /\ Script[i - 1].v = Script[i].v
    BY <1>5, <2>1, ScriptFacts
  <2>3. i - 1 < i
    BY <1>1, <1>3
  <2> QED
    BY <1>3, <1>4, <1>5, <2>2, <2>3
<1>6. st.pc = i
  BY DEF i
<1> QED
  BY <1>3, <1>4, <1>5, <1>6 DEF Progress

(* From one statement to the next.                                          *)
LEMMA ProgressGoesOn ==
  ASSUME NEW st, st.pc \in DOMAIN Script, NEW a, Progress(st, a),
         NEW b, Grows(a, b), Done(Script[st.pc], b),
         NEW next, next.known = st.known, next.pc = After(st.pc, st.known),
         Script[st.pc].op = "check" /\ ~next.missing => Script[st.pc].what \in a.schema
  PROVE  Progress(next, b)
<1> DEFINE k == st.known
           i == After(st.pc, k)
<1>1. Len(Script) \in Nat /\ DOMAIN Script = 1..Len(Script)
  BY ScriptFacts
<1>2. st.pc \in 0..Len(Script) /\ st.pc \in Nat /\ st.pc <= Len(Script)
  BY <1>1
<1>3. /\ i \in (st.pc + 1)..(Len(Script) + 1)
      /\ i <= Len(Script) => Script[i].v \notin k
      /\ \A j \in DOMAIN Script : j > st.pc /\ j < i => Script[j].v \in k
  BY <1>2, AfterIs
<1>4. next.pc = i /\ next.known = k
  OBVIOUS
<1> HIDE DEF i
<1>5. Progress(st, b)
  BY ProgressStays
<1>6. ASSUME NEW j \in DOMAIN Script, j < i, Script[j].v \notin k
      PROVE  Done(Script[j], b)
  <2>1. CASE j < st.pc
    BY <1>5, <1>6, <2>1 DEF Progress
  <2>2. CASE j = st.pc
    BY <2>2
  <2>3. CASE j > st.pc
    BY <1>3, <1>6, <2>3
  <2>4. j < st.pc \/ j = st.pc \/ j > st.pc
    BY <1>1, <1>2
  <2> QED
    BY <2>1, <2>2, <2>3, <2>4
<1>7. ASSUME i <= Len(Script), Script[i].op = "alter", ~next.missing
      PROVE  Script[i].what \in b.schema
  <2>1. i \in DOMAIN Script
    BY <1>1, <1>2, <1>3, <1>7
  <2>2. /\ i - 1 \in DOMAIN Script /\ Script[i - 1].op = "check"
        /\ Script[i - 1].v = Script[i].v /\ Script[i - 1].what = Script[i].what
    BY <1>7, <2>1, ScriptFacts
  <2>3. i - 1 = st.pc \/ (i - 1 > st.pc /\ i - 1 < i)
    BY <1>2, <1>3
  <2>4. i - 1 = st.pc
    BY <1>3, <1>7, <2>2, <2>3
  <2>5. Script[i].what \in a.schema
    BY <1>7, <2>2, <2>4
  <2> QED
    BY <2>5 DEF Grows
<1>8. k \subseteq b.applied
  BY <1>5 DEF Progress
<1> QED
  BY <1>3, <1>4, <1>6, <1>7, <1>8 DEF Progress

(* At its end all is recorded.                                              *)
LEMMA ProgressEnds ==
  ASSUME NEW st, NEW db, Whole(db), Progress(st, db), st.pc \in Nat, st.pc > Len(Script)
  PROVE  db.applied = Versions
<1>1. ASSUME NEW v \in Versions, v \notin st.known
      PROVE  v \in db.applied
  <2>1. PICK i \in DOMAIN Script : Script[i].op = "record" /\ Script[i].v = v
    BY ScriptFacts
  <2>2. i < st.pc
    BY ScriptFacts
  <2>3. Done(Script[i], db)
    BY <1>1, <2>1, <2>2 DEF Progress
  <2> QED
    BY <2>1, <2>3 DEF Done
<1>2. st.known \subseteq db.applied
  BY DEF Progress
<1> QED
  BY <1>1, <1>2 DEF Whole

(* What the effect of a statement is, and that it is right to record a       *)
(* version when its record is reached.                                      *)
LEMMA EffectGrows ==
  ASSUME NEW db, Whole(db), NEW s
  PROVE  Grows(db, Effect(s, db)) /\ Done(s, Effect(s, db))
<1>1. db = [x \in Pages |-> db[x]]
  BY DEF Whole
<1> DEFINE e == Effect(s, db)
<1>2. CASE s.op \in {"add", "alter"}
  <2>1. e = [db EXCEPT !.schema = @ \cup {s.what}]
    BY <1>2 DEF Effect
  <2>2. /\ e.schema = db.schema \cup {s.what} /\ e.applied = db.applied
        /\ e.profiles = db.profiles /\ e.history = db.history
    BY <1>1, <2>1 DEF Pages
  <2> QED
    BY <1>2, <2>2 DEF Grows, Done
<1>3. CASE s.op = "profiles"
  <2>1. e = [db EXCEPT !.profiles = @ \cup {"default", "kids"}]
    BY <1>3 DEF Effect
  <2>2. /\ e.schema = db.schema /\ e.applied = db.applied
        /\ e.profiles = db.profiles \cup {"default", "kids"} /\ e.history = db.history
    BY <1>1, <2>1 DEF Pages
  <2> QED
    BY <1>3, <2>2 DEF Grows, Done
<1>4. CASE s.op = "backfill"
  <2>1. e = [db EXCEPT !.history = TRUE]
    BY <1>4 DEF Effect
  <2>2. /\ e.schema = db.schema /\ e.applied = db.applied
        /\ e.profiles = db.profiles /\ e.history = TRUE
    BY <1>1, <2>1 DEF Pages
  <2> QED
    BY <1>4, <2>2 DEF Grows, Done
<1>5. CASE s.op = "record"
  <2>1. e = [db EXCEPT !.applied = @ \cup {s.v}]
    BY <1>5 DEF Effect
  <2>2. /\ e.schema = db.schema /\ e.applied = db.applied \cup {s.v}
        /\ e.profiles = db.profiles /\ e.history = db.history
    BY <1>1, <2>1 DEF Pages
  <2> QED
    BY <1>5, <2>2 DEF Grows, Done
<1>6. CASE s.op \notin {"add", "alter", "profiles", "backfill", "record"}
  <2>1. e = db
    BY <1>6 DEF Effect
  <2> QED
    BY <1>6, <2>1 DEF Grows, Done
<1> QED
  BY <1>2, <1>3, <1>4, <1>5, <1>6

LEMMA EffectSound ==
  ASSUME NEW st, st.pc \in DOMAIN Script, NEW db, Whole(db), Progress(st, db), Sound(db)
  PROVE  Sound(Effect(Script[st.pc], db))
<1> DEFINE s == Script[st.pc]
           e == Effect(s, db)
<1>1. Grows(db, e)
  BY EffectGrows
<1>2. CASE s.op # "record"
  <2>1. e.applied = db.applied
    BY <1>2 DEF Effect, Whole, Pages
  <2> HIDE DEF e
  <2>2. Sound(e)
    BY <1>1, <2>1 DEF Sound, Grows
  <2> QED
    BY <2>2 DEF e
<1>3. CASE s.op = "record"
  <2>1. e.applied = db.applied \cup {s.v} /\ e.schema = db.schema /\ e.history = db.history
    BY <1>3 DEF Effect, Whole, Pages
  <2> HIDE DEF e
  <2>2. st.pc <= Len(Script) /\ s.v \notin st.known
    BY ScriptFacts DEF Progress
  <2>3. ASSUME NEW j \in DOMAIN Script, Script[j].v = s.v, Script[j].op # "record"
        PROVE  Done(Script[j], db)
    <3>1. j <= st.pc /\ j # st.pc
      BY <1>3, <2>3, ScriptFacts
    <3>2. j < st.pc
      BY <3>1, ScriptFacts
    <3> QED
      BY <2>2, <2>3, <3>2 DEF Progress
  <2>4. Adds(s.v) \subseteq db.schema
    <3>1. ASSUME NEW j \in DOMAIN Script, Script[j].v = s.v, Script[j].op \in {"add", "alter"}
          PROVE  Script[j].what \in db.schema
      BY <2>3, <3>1 DEF Done
    <3> QED
      BY <3>1 DEF Adds
  <2>5. s.v = 5 => db.history
    <3>1. PICK i \in DOMAIN Script : Script[i].op = "backfill" /\ Script[i].v = 5
      BY ScriptFacts
    <3> QED
      BY <2>3, <3>1 DEF Done
  <2>6. Sound(e)
    BY <2>1, <2>4, <2>5 DEF Sound
  <2> QED
    BY <2>6 DEF e
<1> QED
  BY <1>2, <1>3

-----------------------------------------------------------------------------
(* Upgrades beside other processes.                                         *)

(* A step that leaves the database alone, or takes back what a process has   *)
(* not committed.                                                           *)
LEMMA QuietStep ==
  ASSUME FileTypes, Upgraded, DB' = DB, NEW p \in Procs,
         \/ txn' = txn /\ pending' = pending
         \/ txn = p /\ txn' = "none",
         \A q \in Procs \ {p} : proc'[q] = proc[q],
         proc'[p].at = "migrating" => Progress(proc'[p], View(p)'),
         proc'[p].at = "up" => Current(DB)
  PROVE  Upgraded'
<1>1. \A q \in Procs : q # "none"
  BY MigrationsAssumption
<1>2. ASSUME NEW q \in Procs \ {p}
      PROVE  View(q)' = View(q)
  BY <1>1, <1>2 DEF View
<1>3. Sound(DB')
  BY DEF Upgraded
<1>4. txn' # "none" => Sound(pending') /\ Grows(DB', pending')
  BY DEF Upgraded
<1>5. ASSUME NEW q \in Procs
      PROVE  /\ proc'[q].at = "migrating" => Progress(proc'[q], View(q)')
             /\ proc'[q].at = "up" => Current(DB')
  <2>1. CASE q = p
    BY <2>1
  <2>2. CASE q # p
    <3>1. proc'[q] = proc[q] /\ View(q)' = View(q)
      BY <1>2, <2>2
    <3> QED
      BY <3>1 DEF Upgraded, At
  <2> QED
    BY <2>1, <2>2
<1> QED
  BY <1>3, <1>4, <1>5 DEF Upgraded, At

(* A step that writes, to the database or to the transaction of its process. *)
LEMMA WritingStep ==
  ASSUME FileTypes, FileTypes', Upgraded, NEW p \in Procs, txn \in {p, "none"},
         NEW new, Sound(new), Grows(View(p), new),
         \/ txn' = p /\ pending' = new /\ DB' = DB
         \/ txn' = "none" /\ DB' = new,
         \A q \in Procs \ {p} : proc'[q] = proc[q],
         proc'[p].at = "migrating" => Progress(proc'[p], new),
         proc'[p].at = "up" => Current(DB')
  PROVE  Upgraded'
<1>1. \A q \in Procs : q # "none"
  BY MigrationsAssumption
<1>2. Grows(DB, new)
  <2>1. CASE txn = p
    <3>1. Grows(DB, pending) /\ View(p) = pending
      BY <1>1, <2>1 DEF Upgraded, View
    <3> QED
      BY <3>1, GrowsOn
  <2>2. CASE txn # p
    BY <2>2 DEF View
  <2> QED
    BY <2>1, <2>2
<1>3. Grows(DB, DB') /\ Sound(DB')
  BY <1>2, GrowsNot DEF Upgraded
<1>4. txn' # "none" => Sound(pending') /\ Grows(DB', pending')
  BY <1>2
<1>5. Whole(DB')
  <2>1. Whole(main') /\ IsLog(wal')
    BY DEF FileTypes
  <2> QED
    BY <2>1, OverlayWhole DEF DB
<1>6. View(p)' = new
  BY <1>1 DEF View
<1>7. ASSUME NEW q \in Procs
      PROVE  /\ proc'[q].at = "migrating" => Progress(proc'[q], View(q)')
             /\ proc'[q].at = "up" => Current(DB')
  <2>1. CASE q = p
    BY <1>6, <2>1
  <2>2. CASE q # p
    <3>1. View(q) = DB /\ View(q)' = DB'
      BY <1>1, <2>2 DEF View
    <3>2. proc'[q] = proc[q]
      BY <2>2
    <3>3. proc'[q].at = "migrating" => Progress(proc'[q], DB')
      BY <1>3, <3>1, <3>2, ProgressStays DEF Upgraded, At
    <3>4. proc'[q].at = "up" => Current(DB')
      BY <1>3, <1>5, <3>2, CurrentStays DEF Upgraded, At
    <3> QED
      BY <3>1, <3>3, <3>4
  <2> QED
    BY <2>1, <2>2
<1> QED
  BY <1>3, <1>4, <1>7 DEF Upgraded, At

LEMMA ViewSound ==
  ASSUME Upgraded, NEW p \in Procs
  PROVE  Sound(View(p))
<1>1. p # "none"
  BY MigrationsAssumption
<1> QED
  BY <1>1 DEF Upgraded, View

LEMMA CheckpointUpgraded ==
  ASSUME FileTypes, Upgraded, Checkpoint
  PROVE  Upgraded'
<1>1. main' = DB /\ UNCHANGED <<wal, txn, pending, proc>>
  BY DEF Checkpoint
<1>2. DB' = Overlay(DB, wal)
  BY <1>1 DEF DB
<1>3. DB' = DB
  BY <1>2, OverlayTwice
<1> QED
  BY <1>1, <1>3 DEF Upgraded, At, View

LEMMA CloseUpgraded ==
  ASSUME FileTypes, Upgraded, NEW p \in Procs, Close(p)
  PROVE  Upgraded'
<1>1. /\ proc' = [proc EXCEPT ![p] = Down]
      /\ txn' = IF txn = p THEN "none" ELSE txn
      /\ pending' = IF txn = p THEN NoFile ELSE pending
  BY DEF Close, Rollback
<1>2. \A q \in Procs \ {p} : proc'[q] = proc[q]
  BY <1>1 DEF FileTypes
<1>3. proc'[p].at = "down"
  BY <1>1, DownTypes DEF FileTypes
<1>4. DB' = DB
  <2>1. CASE UNCHANGED <<main, wal, reset>>
    BY <2>1 DEF DB
  <2>2. CASE main' = DB /\ wal' = NoWal
    <3>1. DB' = Overlay(DB, NoWal)
      BY <2>2 DEF DB
    <3> QED
      BY <3>1, DBWhole, NoLog
  <2> QED
    BY <2>1, <2>2 DEF Close, dbVars
<1> QED
  BY <1>1, <1>2, <1>3, <1>4, QuietStep

LEMMA CrashUpgraded ==
  ASSUME FileTypes, Upgraded, NEW p \in Procs, Crash(p)
  PROVE  Upgraded'
<1>1. /\ proc' = [proc EXCEPT ![p] = Down] /\ UNCHANGED <<main, wal>>
      /\ txn' = IF txn = p THEN "none" ELSE txn
      /\ pending' = IF txn = p THEN NoFile ELSE pending
  BY DEF Crash, Rollback, dbVars
<1>2. \A q \in Procs \ {p} : proc'[q] = proc[q]
  BY <1>1 DEF FileTypes
<1>3. proc'[p].at = "down"
  BY <1>1, DownTypes DEF FileTypes
<1>4. DB' = DB
  BY <1>1 DEF DB
<1> QED
  BY <1>1, <1>2, <1>3, <1>4, QuietStep

LEMMA DefineWrites ==
  ASSUME FileTypes, reset => main = DB, NEW p \in Procs, NEW new, Whole(new), Define(p, new)
  PROVE  /\ txn \in {p, "none"}
         /\ \/ txn' = p /\ pending' = new /\ DB' = DB
            \/ txn' = "none" /\ DB' = new
<1>1. txn \in {p, "none"} /\ txn' = txn
  BY DEF Define
<1>2. CASE txn = p
  <2>1. pending' = new /\ UNCHANGED <<main, wal>>
    BY <1>2 DEF Define, dbVars
  <2>2. DB' = DB
    BY <2>1 DEF DB
  <2> QED
    BY <1>1, <1>2, <2>1, <2>2
<1>3. CASE txn # p
  <2>1. Commit(new) /\ txn' = "none"
    BY <1>1, <1>3 DEF Define
  <2>2. DB' = new
    BY <2>1, CommitWrites DEF FileTypes
  <2> QED
    BY <1>1, <2>1, <2>2
<1> QED
  BY <1>2, <1>3

LEMMA LaunchUpgraded ==
  ASSUME FileTypes, FileTypes', Upgraded, reset => main = DB, NEW p \in Procs, Launch(p)
  PROVE  Upgraded'
<1> DEFINE S == BaseTables \cup (IF "videos" \in DB.schema THEN {} ELSE BaseColumns)
           new == [DB EXCEPT !.schema = @ \cup S]
<1>1. /\ Define(p, [DB EXCEPT !.schema = @ \cup BaseTables \cup
                     (IF "videos" \in @ THEN {} ELSE BaseColumns)])
      /\ proc' = [proc EXCEPT ![p].at = "opened"] /\ At(p, "down")
  BY DEF Launch
<1>2. Whole(DB)
  BY DBWhole
<1>3. [DB EXCEPT !.schema = @ \cup BaseTables \cup
        (IF "videos" \in @ THEN {} ELSE BaseColumns)] = new
  BY <1>2 DEF Whole, Pages
<1>4. Whole(new)
  BY <1>2, LaunchedWhole
<1>5. /\ DB.schema \subseteq new.schema /\ new.applied = DB.applied
      /\ new.profiles = DB.profiles /\ new.history = DB.history
  BY <1>2 DEF Whole, Pages
<1> HIDE DEF new
<1>6. Define(p, new)
  BY <1>1, <1>3
<1>7. txn # p
  <2>1. p # "none" /\ proc[p].at = "down"
    BY <1>1, MigrationsAssumption DEF At
  <2> QED
    BY <2>1 DEF FileTypes, At
<1>8. txn = "none" /\ View(p) = DB
  BY <1>6, <1>7 DEF Define, View
<1>9. Sound(new) /\ Grows(View(p), new)
  BY <1>5, <1>8 DEF Upgraded, Sound, Grows
<1>10. \A q \in Procs \ {p} : proc'[q] = proc[q]
  BY <1>1 DEF FileTypes
<1>11. proc'[p].at = "opened"
  BY <1>1 DEF FileTypes, ProcState
<1>12. \/ txn' = p /\ pending' = new /\ DB' = DB
       \/ txn' = "none" /\ DB' = new
  BY <1>4, <1>6, DefineWrites
<1> QED
  BY <1>8, <1>9, <1>10, <1>11, <1>12, WritingStep

LEMMA ReadAppliedUpgraded ==
  ASSUME FileTypes, Upgraded, NEW p \in Procs, ReadApplied(p)
  PROVE  Upgraded'
<1> DEFINE next == [Down EXCEPT !.at = "migrating", !.known = DB.applied,
                                !.pc = After(0, DB.applied)]
<1>1. /\ proc' = [proc EXCEPT ![p] = next] /\ At(p, "opened")
      /\ UNCHANGED <<main, wal, txn, pending>>
  BY DEF ReadApplied, AppliedVersions
<1>2. next.known = DB.applied /\ next.pc = After(0, DB.applied)
  <2>1. Down \in ProcState
    BY DownTypes
  <2> QED
    BY <2>1 DEF ProcState
<1> HIDE DEF next
<1>3. proc'[p] = next /\ \A q \in Procs \ {p} : proc'[q] = proc[q]
  BY <1>1 DEF FileTypes
<1>4. DB' = DB
  BY <1>1 DEF DB
<1>5. txn # p
  <2>1. p # "none" /\ proc[p].at = "opened"
    BY <1>1, MigrationsAssumption DEF At
  <2> QED
    BY <2>1 DEF FileTypes, At
<1>6. View(p)' = DB
  BY <1>1, <1>4, <1>5 DEF View
<1>7. Progress(proc'[p], View(p)')
  BY <1>2, <1>3, <1>6, ProgressBegins
<1>8. proc'[p].at # "up"
  <2>1. Down \in ProcState
    BY DownTypes
  <2>2. next.at = "migrating"
    BY <2>1 DEF ProcState, next
  <2> QED
    BY <1>3, <2>2
<1> QED
  BY <1>1, <1>3, <1>4, <1>7, <1>8, QuietStep

LEMMA StatementUpgraded ==
  ASSUME FileTypes, FileTypes', Upgraded, reset => main = DB, NEW p \in Procs, Statement(p)
  PROVE  Upgraded'
<1> DEFINE s == Script[proc[p].pc]
           V == View(p)
           e == Effect(s, V)
           next == [proc[p] EXCEPT !.pc = After(@, proc[p].known),
                                   !.missing = s.op = "check" /\ s.what \notin V.schema]
<1>1. /\ Migrating(p)
      /\ proc' = [proc EXCEPT ![p].pc = After(@, proc[p].known),
                             ![p].missing = s.op = "check" /\ s.what \notin V.schema]
  BY DEF Statement
<1>2. proc[p].pc \in DOMAIN Script /\ s.v \in Versions /\ proc[p].pc <= Len(Script)
  BY <1>1, AtStatement
<1>3. proc[p] \in ProcState /\ proc[p].at = "migrating"
  BY <1>1 DEF FileTypes, Migrating, At
<1>4. Whole(V) /\ Whole(e) /\ Sound(V) /\ Progress(proc[p], V)
  <2>1. Whole(V)
    BY ViewWhole
  <2>2. Progress(proc[p], V)
    BY <1>3 DEF Upgraded, At
  <2> QED
    BY <1>2, <2>1, <2>2, EffectWhole, ViewSound
<1>5. Grows(V, e) /\ Done(s, e) /\ Sound(e)
  BY <1>2, <1>4, EffectGrows, EffectSound
<1>6. proc' = [proc EXCEPT ![p] = next]
  BY <1>1, <1>3 DEF ProcState, FileTypes
<1>7. /\ next.at = "migrating" /\ next.known = proc[p].known
      /\ next.pc = After(proc[p].pc, proc[p].known)
      /\ next.missing = (s.op = "check" /\ s.what \notin V.schema)
  BY <1>3 DEF ProcState
<1> HIDE DEF next, e, V, s
<1>8. proc'[p] = next /\ \A q \in Procs \ {p} : proc'[q] = proc[q]
  BY <1>6 DEF FileTypes
<1>9. s.op = "check" /\ ~next.missing => s.what \in V.schema
  BY <1>7
<1>10. ASSUME NEW b, Grows(V, b), Done(s, b)
       PROVE  Progress(next, b)
  BY <1>2, <1>4, <1>7, <1>9, <1>10, ProgressGoesOn DEF s
<1>11. \/ UNCHANGED <<main, wal, txn, pending>> /\ (s.op = "check" \/ (s.op = "alter" /\ ~proc[p].missing))
       \/ Define(p, e)
       \/ Modify(p, e)
  BY DEF Statement, s, V, e
<1>12. CASE UNCHANGED <<main, wal, txn, pending>> /\ (s.op = "check" \/ (s.op = "alter" /\ ~proc[p].missing))
  <2>1. Done(s, V)
    BY <1>2, <1>4, <1>12 DEF Done, Progress, s
  <2>2. Progress(next, V)
    BY <1>10, <2>1, GrowsNot
  <2>3. DB' = DB /\ View(p)' = V
    BY <1>12 DEF DB, View, V
  <2> QED
    BY <1>7, <1>8, <1>12, <2>2, <2>3, QuietStep
<1>13. ASSUME txn \in {p, "none"},
              \/ txn' = p /\ pending' = e /\ DB' = DB
              \/ txn' = "none" /\ DB' = e
       PROVE  Upgraded'
  <2>1. Progress(next, e)
    BY <1>5, <1>10
  <2>2. Grows(View(p), e)
    BY <1>5 DEF V
  <2> QED
    BY <1>5, <1>7, <1>8, <1>13, <2>1, <2>2, WritingStep
<1>14. CASE Define(p, e)
  BY <1>4, <1>13, <1>14, DefineWrites
<1>15. CASE Modify(p, e)
  BY <1>13, <1>15 DEF Modify, dbVars, DB
<1> QED
  BY <1>11, <1>12, <1>14, <1>15

LEMMA ReadyUpgraded ==
  ASSUME FileTypes, FileTypes', Upgraded, reset => main = DB, NEW p \in Procs, Ready(p)
  PROVE  Upgraded'
<1> DEFINE V == View(p)
           new == [V EXCEPT !.profiles = @ \cup {"default", "kids", "vault"}]
<1>1. /\ Migrated(p) /\ txn \in {p, "none"} /\ Commit(new) /\ txn' = "none"
      /\ proc' = [proc EXCEPT ![p] = [Down EXCEPT !.at = "up"]]
  BY DEF Ready
<1>2. Whole(V) /\ Sound(V)
  BY ViewWhole, ViewSound
<1>3. Whole(new)
  BY <1>2, ReadyWhole
<1>4. /\ new.schema = V.schema /\ new.applied = V.applied
      /\ new.profiles = V.profiles \cup {"default", "kids", "vault"} /\ new.history = V.history
  BY <1>2 DEF Whole, Pages
<1> HIDE DEF new, V
<1>5. V.applied = Versions
  <2>1. Progress(proc[p], V) /\ proc[p].pc > Len(Script)
    BY <1>1 DEF Migrated, Upgraded, At, V
  <2>2. proc[p].pc \in Nat
    BY ProcTypes, ScriptFacts DEF FileTypes
  <2> QED
    BY <1>2, <2>1, <2>2, ProgressEnds
<1>6. Sound(new) /\ Grows(V, new)
  BY <1>2, <1>4 DEF Sound, Grows
<1>7. Current(new)
  <2>1. 5 \in Versions
    BY DEF Versions, CURRENT_SCHEMA_VERSION
  <2> QED
    BY <1>4, <1>5, <1>6, <2>1 DEF Current, Sound
<1>8. DB' = new
  BY <1>1, <1>3, CommitWrites DEF FileTypes
<1>9. proc'[p].at = "up" /\ \A q \in Procs \ {p} : proc'[q] = proc[q]
  <2>1. Down \in ProcState
    BY DownTypes
  <2>2. [Down EXCEPT !.at = "up"].at = "up"
    BY <2>1 DEF ProcState
  <2> QED
    BY <1>1, <2>2 DEF FileTypes
<1>10. Grows(View(p), new)
  BY <1>6 DEF V
<1> QED
  BY <1>1, <1>6, <1>7, <1>8, <1>9, <1>10, WritingStep

LEMMA UseUpgraded ==
  ASSUME FileTypes, FileTypes', Upgraded, reset => main = DB, NEW p \in Procs, Use(p)
  PROVE  Upgraded'
<1> DEFINE new == [DB EXCEPT !.rows = @ + 1]
<1>1. At(p, "up") /\ txn = "none" /\ Commit(new) /\ UNCHANGED <<txn, pending, proc>>
  BY DEF Use
<1>2. Whole(DB) /\ Whole(new)
  BY DBWhole, UsedWhole
<1>3. /\ new.schema = DB.schema /\ new.applied = DB.applied
      /\ new.profiles = DB.profiles /\ new.history = DB.history
  BY <1>2 DEF Whole, Pages
<1> HIDE DEF new
<1>4. DB' = new
  BY <1>1, <1>2, CommitWrites DEF FileTypes
<1>5. View(p) = DB
  <2>1. p # "none"
    BY MigrationsAssumption
  <2> QED
    BY <1>1, <2>1 DEF View
<1>6. Sound(new) /\ Grows(View(p), new)
  BY <1>3, <1>5 DEF Upgraded, Sound, Grows
<1>7. Current(DB')
  BY <1>1, <1>2, <1>4, <1>5, <1>6, CurrentStays DEF Upgraded
<1>8. proc'[p].at # "migrating"
  BY <1>1 DEF At
<1> QED
  BY <1>1, <1>4, <1>6, <1>7, <1>8, WritingStep

LEMMA NextUpgraded ==
  ASSUME FileTypes, Upgraded, reset => main = DB, Next
  PROVE  Upgraded'
<1>1. FileTypes'
  BY TypesKept
<1>2. ASSUME NEW p \in Procs, ProcStep(p) \/ Use(p) \/ Stop(p) \/ Crash(p)
      PROVE  Upgraded'
  <2>1. CASE Launch(p)
    BY <1>1, <2>1, LaunchUpgraded
  <2>2. CASE ReadApplied(p)
    BY <2>2, ReadAppliedUpgraded
  <2>3. CASE Statement(p)
    BY <1>1, <2>3, StatementUpgraded
  <2>4. CASE Fail(p)
    BY <2>4, CloseUpgraded DEF Fail
  <2>5. CASE Ready(p)
    BY <1>1, <2>5, ReadyUpgraded
  <2>6. CASE Use(p)
    BY <1>1, <2>6, UseUpgraded
  <2>7. CASE Stop(p)
    BY <2>7, CloseUpgraded DEF Stop
  <2>8. CASE Crash(p)
    BY <2>8, CrashUpgraded
  <2> QED
    BY <1>2, <2>1, <2>2, <2>3, <2>4, <2>5, <2>6, <2>7, <2>8 DEF ProcStep
<1> QED
  BY <1>2, CheckpointUpgraded DEF Next

LEMMA UpgradeInitially ==
  ASSUME BackupInit
  PROVE  UpgradeInv
<1>1. /\ main \in {NoFile} \cup {OfVersion(v) : v \in OldVersions} /\ wal = NoWal
      /\ txn = "none" /\ proc = [p \in Procs |-> Down] /\ seen = {}
  BY DEF BackupInit, Init
<1>2. DB = main
  <2>1. Whole(main)
    BY FilesInitially DEF FilesInv, FileTypes
  <2>2. DB = Overlay(main, NoWal)
    BY <1>1 DEF DB
  <2> QED
    BY <2>1, <2>2, NoLog
<1>3. Sound(main)
  <2>1. Sound(NoFile)
    BY DEF NoFile, Sound
  <2>2. ASSUME NEW v \in OldVersions PROVE Sound(OfVersion(v))
    <3>1. v \in 0..8
      BY MigrationsAssumption DEF CURRENT_SCHEMA_VERSION
    <3>2. /\ OfVersion(v).applied = 1..v /\ OfVersion(v).history = (v >= 5)
          /\ OfVersion(v).schema = BaseTables \cup UNION {Adds(w) : w \in 1..v}
      BY DEF OfVersion
    <3>3. ASSUME NEW w \in 1..v
          PROVE  Adds(w) \subseteq OfVersion(v).schema /\ (w = 5 => OfVersion(v).history)
      <4>1. Adds(w) \subseteq OfVersion(v).schema
        BY <3>2
      <4>2. w = 5 => v >= 5
        BY <3>1
      <4> QED
        BY <3>2, <4>1, <4>2
    <3> QED
      BY <3>2, <3>3 DEF Sound
  <2> QED
    BY <1>1, <2>1, <2>2
<1>4. \A p \in Procs : proc[p].at = "down"
  BY <1>1, DownTypes
<1>5. Upgraded
  BY <1>1, <1>2, <1>3, <1>4 DEF Upgraded, At
<1> QED
  BY <1>1, <1>5 DEF UpgradeInv

LEMMA UpgradesStay ==
  ASSUME FilesInv, UpgradeInv, [BackupNext]_allVars
  PROVE  UpgradeInv'
<1>1. FileTypes /\ CopyTypes /\ LogIsInFile /\ HalfRestored /\ BackupIsSnapshot
  BY DEF FilesInv, CopyInv
<1>2. ASSUME UNCHANGED <<main, wal, txn, pending, proc>>
      PROVE  Upgraded' = Upgraded
  BY <1>2 DEF Upgraded, DB, At, View
<1>3. CASE UNCHANGED allVars
  <2>1. UNCHANGED <<main, wal, txn, pending, proc, bk, rs, seen, mixed>>
    BY <1>3 DEF allVars, vars, backupVars
  <2> QED
    BY <1>2, <2>1 DEF UpgradeInv, Settled
<1>4. CASE ProcessStep
  <2>1. Next /\ UNCHANGED <<bk, rs>>
        /\ (mixed => mixed') /\ seen' = IF Copying THEN seen \cup {DB'} ELSE seen
    BY <1>4 DEF ProcessStep, Watched
  <2>2. Settled => Upgraded'
    BY <1>1, <2>1, NextUpgraded DEF UpgradeInv, LogIsInFile
  <2>3. Settled' => Settled
    BY <2>1 DEF Settled
  <2>4. ASSUME Copying PROVE Sound(DB')
    <3>1. bk.done \in 1..1
      BY <2>4, TheFiles DEF Copying
    <3>2. bk.done # Files
      BY <3>1, TheFiles
    <3>3. Settled
      BY <1>1, <3>2, TheFiles DEF CopyTypes, Settled
    <3> QED
      BY <2>2, <3>3 DEF Upgraded
  <2> QED
    BY <2>1, <2>2, <2>3, <2>4 DEF UpgradeInv
<1>5. CASE CopyFile
  <2>1. /\ bk.done < Files /\ seen' = seen \cup {DB}
        /\ UNCHANGED <<main, wal, txn, pending, proc, rs, mixed>>
    BY <1>5 DEF CopyFile
  <2>2. bk.done # Files
    BY <1>1, <2>1, TheFiles DEF CopyTypes
  <2>3. rs = 0 /\ Settled
    BY <1>1, <2>2, TheFiles DEF CopyTypes, Settled
  <2>4. Upgraded /\ Upgraded'
    BY <1>2, <2>1, <2>3 DEF UpgradeInv
  <2>5. Sound(DB)
    BY <2>4 DEF Upgraded
  <2> QED
    BY <2>1, <2>4, <2>5 DEF UpgradeInv
<1>6. ASSUME NEW force \in BOOLEAN, BeginRestore(force)
      PROVE  UpgradeInv'
  <2>1. rs = 0 /\ UNCHANGED <<main, wal, txn, pending, proc, bk, seen, mixed>>
    BY <1>6 DEF BeginRestore, vars
  <2>2. Settled
    BY <1>1, <2>1, TheFiles DEF CopyTypes, Settled
  <2> QED
    BY <1>2, <2>1, <2>2 DEF UpgradeInv
<1>7. CASE RestoreFile
  <2>1. rs' = rs + 1 /\ UNCHANGED <<txn, pending, proc, bk, seen, torn>> /\ rs \in {1, 2}
    BY <1>1, <1>7, RestoreFileIs
  <2>2. SUFFICES ASSUME Settled' PROVE Upgraded'
    BY <2>1 DEF UpgradeInv
  <2>3. ASSUME rs = 1
        PROVE  Upgraded'
    <3>1. wal' = wal /\ main' = IF Exists(bk.main, bk.wal) THEN bk.main ELSE main
      BY <1>1, <1>7, <2>3, RestoreFileIs
    <3>2. ~mixed /\ ~Exists(bk.main, bk.wal)
      <4>1. mixed' = (mixed \/ torn \/ ~AllDown)
        BY <1>1, <1>7, <2>3, RestoreFileIs
      <4>2. ~mixed' /\ ~Exists(bk.main, bk.wal)
        BY <2>1, <2>2, <2>3, TheFiles DEF Settled
      <4> QED
        BY <4>1, <4>2
    <3>3. Settled /\ main' = main
      BY <3>1, <3>2 DEF Settled
    <3> QED
      BY <1>2, <2>1, <3>1, <3>3 DEF UpgradeInv
  <2>4. ASSUME rs = 2
        PROVE  Upgraded'
    <3>1. /\ main' = main /\ wal' = IF bk.wal # NoWal THEN bk.wal ELSE wal
          /\ mixed' = (mixed \/ torn \/ ~AllDown \/ (bk.wal = NoWal /\ wal # NoWal))
      BY <1>1, <1>7, <2>4, RestoreFileIs
    <3>2. ~mixed'
      BY <2>2 DEF Settled
    <3>3. ~mixed /\ ~torn /\ AllDown /\ wal' = bk.wal
      BY <3>1, <3>2, Zenon
    <3>4. CASE Exists(bk.main, bk.wal)
      <4>1. main' = bk.main
        BY <1>1, <2>4, <3>1, <3>3, <3>4, TheFiles DEF HalfRestored
      <4>2. DB' = Content
        BY <3>3, <4>1 DEF DB, Content
      <4>3. bk.done = Files
        BY <1>1, <2>4 DEF CopyTypes
      <4>4. Sound(DB')
        BY <1>1, <3>3, <4>2, <4>3 DEF BackupIsSnapshot, UpgradeInv
      <4>5. txn = "none" /\ \A p \in Procs : proc[p].at = "down"
        BY <1>1, <3>3 DEF FileTypes, AllDown, At
      <4> QED
        BY <2>1, <4>4, <4>5 DEF Upgraded, At
    <3>5. CASE ~Exists(bk.main, bk.wal)
      <4>1. bk.wal = NoWal /\ wal' = wal
        BY <3>1, <3>5 DEF Exists
      <4>2. Settled
        BY <3>3, <3>5 DEF Settled
      <4> QED
        BY <1>2, <2>1, <3>1, <4>1, <4>2 DEF UpgradeInv
    <3> QED
      BY <3>4, <3>5
  <2> QED
    BY <2>1, <2>3, <2>4
<1> QED
  BY <1>3, <1>4, <1>5, <1>6, <1>7 DEF BackupNext

(* What is recorded as applied has been applied, in every run, also after a  *)
(* restore: statements that stop half way are repeated by the next start     *)
(* (apply_migrations, backup_state, restore_state).                         *)
THEOREM UpgradeInvariance == BackupSpec => []UpgradeInv
<1>1. BackupInit => UpgradeInv
  BY UpgradeInitially
<1>2. FilesInv /\ UpgradeInv /\ [BackupNext]_allVars => UpgradeInv'
  BY UpgradesStay
<1> QED
  BY <1>1, <1>2, FilesInvariance, PTL DEF BackupSpec

(* A process that has started, whatever version it found, whatever started   *)
(* or crashed beside it, works on the current schema, also after a restore   *)
(* (Database.initialize, restore_state).                                     *)
THEOREM UpIsCurrentAfterRestoreHolds == BackupSpec => []UpIsCurrentAfterRestore
<1>1. FilesInv /\ UpgradeInv => UpIsCurrentAfterRestore
  <2> SUFFICES ASSUME FilesInv, UpgradeInv, ~mixed PROVE UpIsCurrent
    BY DEF UpIsCurrentAfterRestore
  <2>1. CASE Settled
    BY <2>1 DEF UpgradeInv, Upgraded, UpIsCurrent
  <2>2. CASE ~Settled
    <3>1. AllDown
      BY <2>2 DEF Settled, FilesInv, HalfRestored
    <3> QED
      BY <3>1 DEF AllDown, At, UpIsCurrent
  <2> QED
    BY <2>1, <2>2
<1> QED
  BY <1>1, FilesInvariance, UpgradeInvariance, PTL

=============================================================================
