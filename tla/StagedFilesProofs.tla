------------------------- MODULE StagedFilesProofs -------------------------
(***************************************************************************)
(* UndeletedHasFiles of StagedFiles, for any number of tasks, messages,    *)
(* files, commits and outages.                                             *)
(*                                                                         *)
(* A power loss may keep any prefix of the commits, so the rows of every   *)
(* commit in the log have to be safe, not only those of the last one; and  *)
(* a file is unlinked by whoever owns it, so no name may have two owners:  *)
(* a task that stages it, a row, or the journal of deleted files.          *)
(***************************************************************************)
EXTENDS StagedFiles, TLAPS

RowTables == UNION {[D -> SUBSET FileNames] : D \in SUBSET StagedMessages}
Databases == [rows : RowTables, cleanup : SUBSET FileNames, gone : SUBSET StagedMessages]
Stages == [at : {"idle", "stage", "write", "sync", "commit"}, of : SUBSET StagedMessages,
           paths : SUBSET FileNames]

StagedTypes ==
    /\ staging \in [Stagers -> Stages]
    /\ wal \in Seq(Databases) /\ wal # << >>
    /\ cleaning \subseteq FileNames /\ drawn \subseteq FileNames

\* The databases a power loss can leave.
Logged == {wal[n] : n \in DOMAIN wal}

\* A row or the journal of deleted files names the file.
Named(f) ==
    \/ f \in cleaning
    \/ \E d \in Logged : f \in d.cleanup \/ \E m \in DOMAIN d.rows : f \in d.rows[m]

Safe(f) == Whole(f) /\ f \in safeData /\ f \in safeNames

\* Names are drawn once: two tasks never share one, two messages never share
\* one, and what is to be unlinked is no row of a message nobody deleted.
OneOwner ==
    /\ \A f \in FileNames : Named(f) => f \in drawn
    /\ safeData \subseteq drawn
    /\ \A s, t \in Stagers : s # t => staging[s].paths \cap staging[t].paths = {}
    /\ \A d, e \in Logged : \A m \in DOMAIN d.rows, n \in DOMAIN e.rows :
        \A f \in d.rows[m] : f \in e.rows[n] => m = n
    /\ \A d, e \in Logged : \A m \in DOMAIN d.rows \ removed : \A f \in d.rows[m] :
        f \notin cleaning /\ f \notin e.cleanup

RowsSafe == \A d \in Logged : \A m \in DOMAIN d.rows \ removed : \A f \in d.rows[m] : Safe(f)

\* How far a task has come with its files.
StageSound(s) ==
    LET paths == staging[s].paths
        Finished(f) == Whole(f) /\ f \in safeData
    IN  /\ staging[s].at # "idle" => \E m \in StagedMessages : staging[s].of = {m}
        /\ \A f \in paths : f \in drawn /\ f \in DOMAIN onDisk /\ ~Named(f)
        /\ staging[s].at \in {"idle", "stage", "commit"} => \A f \in paths : Finished(f)
        /\ staging[s].at \in {"write", "sync"} =>
            \E f \in paths : f \notin safeData /\ \A g \in paths \ {f} : Finished(g)
        /\ staging[s].at = "sync" => \A f \in paths : Whole(f)
        /\ staging[s].at = "commit" => paths \subseteq safeNames

StagedInv == StagedTypes /\ OneOwner /\ RowsSafe /\ \A s \in Stagers : StageSound(s)

-----------------------------------------------------------------------------

\* A table of rows is a function from messages to sets of names.
LEMMA RowTable ==
    ASSUME NEW D \in SUBSET StagedMessages, NEW r \in [D -> SUBSET FileNames]
    PROVE  r \in RowTables
  BY DEF RowTables

LEMMA RowTableHolds ==
    ASSUME NEW r \in RowTables
    PROVE  /\ DOMAIN r \subseteq StagedMessages
           /\ \A m \in DOMAIN r : r[m] \subseteq FileNames
  BY DEF RowTables

\* The database every connection sees is the last one logged.
LEMMA DatabaseLogged ==
    ASSUME StagedTypes
    PROVE  /\ Database \in Logged /\ Logged \subseteq Databases /\ Database \in Databases
           /\ DOMAIN Database.rows \subseteq StagedMessages
           /\ \A m \in DOMAIN Database.rows : Database.rows[m] \subseteq FileNames
  <1>1. Len(wal) \in DOMAIN wal
    BY DEF StagedTypes
  <1>2. Logged \subseteq Databases
    BY DEF StagedTypes, Logged
  <1>3. Database \in Logged
    BY <1>1 DEF Logged, Database
  <1> QED
    BY <1>2, <1>3, RowTableHolds DEF Databases

\* A commit adds one database to those logged.
LEMMA CommitLogged ==
    ASSUME StagedTypes, NEW db \in Databases, Committed(db)
    PROVE  Logged' = Logged \cup {db} /\ wal' \in Seq(Databases) /\ wal' # << >>
  <1>1. wal' = Append(wal, db) /\ wal \in Seq(Databases)
    BY DEF Committed, StagedTypes
  <1>2. wal' \in Seq(Databases) /\ Len(wal') = Len(wal) + 1
    BY <1>1
  <1>3. DOMAIN wal' = DOMAIN wal \cup {Len(wal) + 1} /\ wal'[Len(wal) + 1] = db
        /\ \A n \in DOMAIN wal : wal'[n] = wal[n]
    BY <1>1
  <1>4. Logged' = Logged \cup {db}
    BY <1>3 DEF Logged
  <1> QED
    BY <1>2, <1>4

\* A task that stages nothing owes nothing.
LEMMA IdleSound ==
    ASSUME NEW t, staging'[t] = NoStage
    PROVE  StageSound(t)'
  <1>1. staging'[t].at = "idle" /\ staging'[t].paths = {}
    BY DEF NoStage
  <1> QED
    BY <1>1 DEF StageSound

\* What is logged depends on the log alone.
LEMMA SameLog ==
    ASSUME wal' = wal
    PROVE  Logged' = Logged /\ (cleaning' = cleaning => \A f : Named(f)' <=> Named(f))
  BY DEF Logged, Named

\* Nothing is staged, stored or logged.
LEMMA InitStaged == StagedInit => StagedInv
  <1> SUFFICES ASSUME StagedInit PROVE StagedInv
    OBVIOUS
  <1> DEFINE empty == [rows |-> [m \in {} |-> {}], cleanup |-> {}, gone |-> {}]
  <1>1. wal = <<empty>>
    BY DEF StagedInit
  <1>2. [m \in {} |-> {}] \in [{} -> SUBSET FileNames]
    OBVIOUS
  <1>3. empty \in Databases
    BY <1>2, RowTable DEF Databases
  <1> HIDE DEF empty
  <1>4. wal \in Seq(Databases) /\ wal # << >> /\ Logged = {empty}
    <2>1. wal \in Seq(Databases) /\ wal # << >> /\ DOMAIN wal = {1} /\ wal[1] = empty
      BY <1>1, <1>3
    <2> QED
      BY <2>1 DEF Logged
  <1>5. StagedTypes
    BY <1>4 DEF StagedInit, StagedTypes, Stages, NoStage
  <1>6. \A d \in Logged : DOMAIN d.rows = {} /\ d.cleanup = {}
    BY <1>4 DEF empty
  <1>7. OneOwner /\ RowsSafe
    BY <1>6 DEF StagedInit, OneOwner, RowsSafe, Named, NoStage
  <1>8. ASSUME NEW s \in Stagers PROVE StageSound(s)
    BY DEF StagedInit, StageSound, NoStage
  <1> QED
    BY <1>5, <1>7, <1>8 DEF StagedInv

\* Staging a file leaves rows and journal alone.
LEMMA StageStep ==
    ASSUME StagedInv, NEW s \in Stagers,
           (\E m \in StagedMessages : NewStage(s, m)) \/ NewFile(s) \/ WriteFile(s) \/ SyncFile(s)
           \/ SyncDirectory(s)
    PROVE  StagedInv'
  <1> USE DEF StagedInv
  <1>1. wal' = wal /\ cleaning' = cleaning /\ removed' = removed
    BY DEF NewStage, NewFile, WriteFile, SyncFile, SyncDirectory
  <1>2. Logged' = Logged /\ \A f : Named(f)' <=> Named(f)
    BY <1>1, SameLog
  <1>3. ASSUME NEW m \in StagedMessages, NewStage(s, m) PROVE StagedInv'
    <2>1. StagedTypes'
      BY <1>3 DEF NewStage, StagedTypes, Stages
    <2>2. OneOwner'
      BY <1>2, <1>3 DEF NewStage, StagedTypes, OneOwner
    <2>3. RowsSafe'
      BY <1>2, <1>3 DEF NewStage, RowsSafe, Safe, Whole
    <2>4. ASSUME NEW t \in Stagers PROVE StageSound(t)'
      BY <1>2, <1>3 DEF NewStage, StagedTypes, StageSound, Whole
    <2> QED
      BY <2>1, <2>2, <2>3, <2>4
  <1>4. CASE NewFile(s)
    <2>1. PICK f \in FileNames \ drawn :
            /\ drawn' = drawn \cup {f}
            /\ onDisk' = [g \in DOMAIN onDisk \cup {f} |-> IF g = f THEN "torn" ELSE onDisk[g]]
            /\ staging' = [staging EXCEPT ![s].at = "write", ![s].paths = @ \cup {f}]
      BY <1>4 DEF NewFile
    <2>2. staging[s].at = "stage" /\ safeData' = safeData /\ safeNames' = safeNames
      BY <1>4 DEF NewFile
    <2>3. StagedTypes'
      BY <1>1, <2>1 DEF StagedTypes, Stages
    <2>4. ~Named(f) /\ f \notin safeData
      BY DEF OneOwner
    <2>5. \A t \in Stagers : f \notin staging[t].paths
      BY DEF StageSound
    <2>6. \A t \in Stagers : staging'[t].paths = IF t = s THEN staging[s].paths \cup {f} ELSE staging[t].paths
      BY <2>1 DEF StagedTypes, Stages
    <2>7. OneOwner'
      <3>1. \A t, u \in Stagers : t # u => staging'[t].paths \cap staging'[u].paths = {}
        BY <2>5, <2>6 DEF OneOwner
      <3>2. (\A g \in FileNames : Named(g)' => g \in drawn') /\ safeData' \subseteq drawn'
        BY <1>2, <2>1, <2>2 DEF OneOwner
      <3> QED
        BY <1>1, <1>2, <3>1, <3>2 DEF OneOwner
    <2>8. \A g : g # f /\ Whole(g) => Whole(g)'
      BY <2>1 DEF Whole
    <2>9. RowsSafe'
      BY <1>1, <1>2, <2>2, <2>4, <2>8 DEF RowsSafe, Safe
    <2>10. ASSUME NEW t \in Stagers PROVE StageSound(t)'
      <3>1. CASE t = s
        <4>1. staging'[t].at = "write" /\ staging'[t].of = staging[s].of
              /\ staging'[t].paths = staging[s].paths \cup {f}
          BY <2>1, <3>1 DEF StagedTypes, Stages
        <4> QED
          BY <1>2, <2>1, <2>2, <2>4, <2>5, <2>8, <3>1, <4>1 DEF StageSound
      <3>2. CASE t # s
        <4>1. staging'[t] = staging[t]
          BY <2>1, <3>2 DEF StagedTypes
        <4>2. StageSound(t)
          OBVIOUS
        <4>3. drawn \subseteq drawn' /\ DOMAIN onDisk \subseteq DOMAIN onDisk'
          BY <2>1
        <4>4. \A g \in staging[t].paths : Whole(g) => Whole(g)'
          BY <2>5, <2>8
        <4> HIDE DEF StagedInv
        <4> QED
          BY <1>2, <2>2, <4>1, <4>2, <4>3, <4>4 DEF StageSound
      <3> QED
        BY <3>1, <3>2
    <2> QED
      BY <2>3, <2>7, <2>9, <2>10
  <1> PICK u : u = Unfinished(s)
    OBVIOUS
  <1>5. ASSUME WriteFile(s) \/ SyncFile(s)
        PROVE  /\ u \in staging[s].paths /\ u \notin safeData
               /\ \A g \in staging[s].paths \ {u} : Whole(g) /\ g \in safeData
    BY <1>5 DEF WriteFile, SyncFile, StageSound, Unfinished
  <1>6. CASE WriteFile(s)
    <2>1. StagedTypes'
      BY <1>6 DEF WriteFile, StagedTypes, Stages
    <2>2. \A t \in Stagers : staging'[t].paths = staging[t].paths /\ staging'[t].of = staging[t].of
                             /\ staging'[t].at = IF t = s THEN "sync" ELSE staging[t].at
      BY <1>6 DEF WriteFile, StagedTypes, Stages
    <2>3. OneOwner'
      BY <1>1, <1>2, <1>6, <2>2 DEF WriteFile, OneOwner
    <2>4. DOMAIN onDisk' = DOMAIN onDisk /\ \A g : Whole(g) => Whole(g)'
      BY <1>6 DEF WriteFile, Whole
    <2>5. u \in DOMAIN onDisk => Whole(u)'
      BY <1>6 DEF WriteFile, Whole
    <2>6. RowsSafe'
      BY <1>1, <1>2, <1>6, <2>4 DEF WriteFile, RowsSafe, Safe
    <2>7. ASSUME NEW t \in Stagers PROVE StageSound(t)'
      BY <1>2, <1>5, <1>6, <2>2, <2>4, <2>5 DEF WriteFile, StageSound
    <2> QED
      BY <2>1, <2>3, <2>6, <2>7
  <1>7. CASE SyncFile(s)
    <2>1. StagedTypes'
      BY <1>7 DEF SyncFile, StagedTypes, Stages
    <2>2. \A t \in Stagers : staging'[t].paths = staging[t].paths /\ staging'[t].of = staging[t].of
                             /\ staging'[t].at = IF t = s THEN "stage" ELSE staging[t].at
      BY <1>7 DEF SyncFile, StagedTypes, Stages
    <2>3. u \in drawn /\ \A t \in Stagers : t # s => u \notin staging[t].paths
      BY <1>5, <1>7 DEF StageSound, OneOwner
    <2>4. OneOwner'
      BY <1>1, <1>2, <1>7, <2>2, <2>3 DEF SyncFile, OneOwner
    <2>5. onDisk' = onDisk /\ safeData' = safeData \cup {u} /\ \A g : Whole(g)' <=> Whole(g)
      BY <1>7 DEF SyncFile, Whole
    <2>6. RowsSafe'
      BY <1>1, <1>2, <1>7, <2>5 DEF SyncFile, RowsSafe, Safe
    <2>7. ASSUME NEW t \in Stagers PROVE StageSound(t)'
      <3>1. CASE t = s
        BY <1>2, <1>5, <1>7, <2>2, <2>5, <3>1 DEF SyncFile, StageSound
      <3>2. CASE t # s
        BY <1>2, <1>7, <2>2, <2>3, <2>5, <3>2 DEF SyncFile, StageSound
      <3> QED
        BY <3>1, <3>2
    <2> QED
      BY <2>1, <2>4, <2>6, <2>7
  <1>8. CASE SyncDirectory(s)
    <2>1. StagedTypes'
      BY <1>8 DEF SyncDirectory, StagedTypes, Stages
    <2>2. \A t \in Stagers : staging'[t].paths = staging[t].paths /\ staging'[t].of = staging[t].of
                             /\ staging'[t].at = IF t = s THEN "commit" ELSE staging[t].at
      BY <1>8 DEF SyncDirectory, StagedTypes, Stages
    <2>3. OneOwner'
      BY <1>1, <1>2, <1>8, <2>2 DEF SyncDirectory, OneOwner
    <2>4. \A g : Whole(g)' <=> Whole(g)
      BY <1>8 DEF SyncDirectory, Whole
    <2>5. RowsSafe'
      BY <1>1, <1>2, <1>8, <2>4 DEF SyncDirectory, RowsSafe, Safe, Whole
    <2>6. ASSUME NEW t \in Stagers PROVE StageSound(t)'
      BY <1>2, <1>8, <2>2, <2>4 DEF SyncDirectory, StageSound
    <2> QED
      BY <2>1, <2>3, <2>5, <2>6
  <1> QED
    BY <1>3, <1>4, <1>6, <1>7, <1>8

\* A file that no row and no other task has is unlinked.
LEMMA UnlinkKeeps ==
    ASSUME StagedInv, NEW F, onDisk' = Unlinked(F), Logged' = Logged, removed' = removed,
           safeData' = safeData, safeNames' = safeNames,
           \A d \in Logged : \A m \in DOMAIN d.rows \ removed : \A f \in d.rows[m] : f \notin F
    PROVE  RowsSafe' /\ \A f : f \notin F => (Whole(f)' <=> Whole(f)) /\ (f \in DOMAIN onDisk' <=> f \in DOMAIN onDisk)
  <1>1. \A f : f \notin F => (Whole(f)' <=> Whole(f)) /\ (f \in DOMAIN onDisk' <=> f \in DOMAIN onDisk)
    BY DEF Unlinked, Whole
  <1>2. RowsSafe'
    BY <1>1 DEF StagedInv, RowsSafe, Safe
  <1> QED
    BY <1>1, <1>2

\* A staging dropped takes its own files only.
LEMMA DropStep ==
    ASSUME StagedInv, NEW s \in Stagers, DropStaged(s),
           UNCHANGED <<safeData, safeNames, wal, cleaning, drawn, removed>>
    PROVE  StagedInv'
  <1> USE DEF StagedInv
  <1> PICK F : F = staging[s].paths
    OBVIOUS
  <1>1. Logged' = Logged /\ \A f : Named(f)' <=> Named(f)
    BY SameLog
  <1>2. F \subseteq FileNames
    BY DEF StagedTypes, Stages
  <1>3. \A d \in Logged : \A m \in DOMAIN d.rows \ removed : \A f \in d.rows[m] : f \notin F
    BY DEF StageSound, Named
  <1>4. RowsSafe' /\ \A f : f \notin F => (Whole(f)' <=> Whole(f)) /\ (f \in DOMAIN onDisk' <=> f \in DOMAIN onDisk)
    BY <1>1, <1>3, UnlinkKeeps DEF DropStaged
  <1>5. StagedTypes'
    BY DEF DropStaged, StagedTypes, Stages, NoStage
  <1>6. \A t \in Stagers : staging'[t] = IF t = s THEN NoStage ELSE staging[t]
    BY DEF DropStaged, StagedTypes
  <1>7. OneOwner'
    BY <1>1, <1>6 DEF OneOwner, NoStage
  <1>8. ASSUME NEW t \in Stagers PROVE StageSound(t)'
    <2>1. CASE t = s
      BY <1>6, <2>1, IdleSound
    <2>2. CASE t # s
      <3>1. \A f \in staging[t].paths : f \notin F
        BY <2>2 DEF OneOwner
      <3> QED
        BY <1>1, <1>4, <1>6, <2>2, <3>1 DEF StageSound
    <2> QED
      BY <2>1, <2>2
  <1> QED
    BY <1>4, <1>5, <1>7, <1>8

\* A message is accepted with the files of its staging.
LEMMA AcceptStep ==
    ASSUME StagedInv, NEW s \in Stagers, staging[s].at = "commit", NEW m \in StagedMessages,
           Committed(Accepted(m, staging[s].paths)), staging' = [staging EXCEPT ![s] = NoStage],
           UNCHANGED <<onDisk, safeData, safeNames, cleaning, drawn, removed>>
    PROVE  StagedInv'
  <1> USE DEF StagedInv
  <1> PICK F : F = staging[s].paths
    OBVIOUS
  <1> PICK db : db = Accepted(m, F)
    OBVIOUS
  <1>1. F \subseteq FileNames
    BY DEF StagedTypes, Stages
  <1>2. /\ Database \in Logged /\ Database \in Databases
        /\ DOMAIN Database.rows \subseteq StagedMessages
        /\ \A n \in DOMAIN Database.rows : Database.rows[n] \subseteq FileNames
    BY DatabaseLogged
  <1>3. /\ db.rows = [n \in DOMAIN Database.rows \cup {m} |-> IF n = m THEN F ELSE Database.rows[n]]
        /\ db.cleanup = Database.cleanup /\ db.gone = Database.gone
        /\ db = [rows |-> db.rows, cleanup |-> db.cleanup, gone |-> db.gone]
    BY <1>2 DEF Accepted, Databases
  <1>4. db.rows \in RowTables
    <2>1. db.rows \in [DOMAIN Database.rows \cup {m} -> SUBSET FileNames]
      BY <1>1, <1>2, <1>3
    <2> QED
      BY <1>2, <2>1, RowTable
  <1>5. db \in Databases
    BY <1>2, <1>3, <1>4 DEF Databases
  <1>6. Logged' = Logged \cup {db} /\ wal' \in Seq(Databases) /\ wal' # << >>
    BY <1>5, CommitLogged
  <1>7. DOMAIN db.rows = DOMAIN Database.rows \cup {m}
        /\ \A n \in DOMAIN db.rows : db.rows[n] = IF n = m THEN F ELSE Database.rows[n]
    BY <1>3
  <1>8. \A f \in F : Safe(f) /\ f \in drawn /\ ~Named(f)
    BY DEF StageSound, Safe
  <1>9. \A f : Named(f)' <=> Named(f) \/ f \in F
    BY <1>2, <1>3, <1>6, <1>7 DEF Named
  <1>10. StagedTypes'
    BY <1>6 DEF StagedTypes, Stages, NoStage
  <1>11. \A t \in Stagers : staging'[t] = IF t = s THEN NoStage ELSE staging[t]
    BY DEF StagedTypes
  <1>12. RowsSafe'
    BY <1>2, <1>6, <1>7, <1>8 DEF RowsSafe, Safe, Whole
  <1>13. OneOwner'
    <2>1. \A f \in FileNames : Named(f)' => f \in drawn'
      BY <1>8, <1>9 DEF OneOwner
    <2>2. \A t, u \in Stagers : t # u => staging'[t].paths \cap staging'[u].paths = {}
      BY <1>11 DEF OneOwner, NoStage
    <2>3. \A d, e \in Logged' : \A k \in DOMAIN d.rows, n \in DOMAIN e.rows :
            \A f \in d.rows[k] : f \in e.rows[n] => k = n
      <3> SUFFICES ASSUME NEW d \in Logged', NEW e \in Logged', NEW k \in DOMAIN d.rows,
                          NEW n \in DOMAIN e.rows, NEW f \in d.rows[k], f \in e.rows[n]
                   PROVE  k = n
        OBVIOUS
      <3>1. CASE f \in F
        <4>1. ~Named(f)
          BY <1>8, <3>1
        <4>2. \A x \in Logged : \A j \in DOMAIN x.rows : f \notin x.rows[j]
          BY <4>1 DEF Named
        <4> QED
          BY <1>2, <1>6, <1>7, <4>2
      <3>2. CASE f \notin F
        BY <1>2, <1>6, <1>7, <3>2 DEF OneOwner
      <3> QED
        BY <3>1, <3>2
    <2>4. \A d, e \in Logged' : \A k \in DOMAIN d.rows \ removed' : \A f \in d.rows[k] :
            f \notin cleaning' /\ f \notin e.cleanup
      <3> SUFFICES ASSUME NEW d \in Logged', NEW e \in Logged', NEW k \in DOMAIN d.rows \ removed,
                          NEW f \in d.rows[k]
                   PROVE  f \notin cleaning /\ f \notin e.cleanup
        OBVIOUS
      <3>1. PICK x \in Logged : x.cleanup = e.cleanup
        BY <1>2, <1>3, <1>6
      <3>2. CASE f \in F
        BY <1>8, <3>1, <3>2 DEF Named
      <3>3. CASE f \notin F
        BY <1>2, <1>6, <1>7, <3>1, <3>3 DEF OneOwner
      <3> QED
        BY <3>2, <3>3
    <2> QED
      BY <2>1, <2>2, <2>3, <2>4 DEF OneOwner
  <1>14. ASSUME NEW t \in Stagers PROVE StageSound(t)'
    <2>1. CASE t = s
      BY <1>11, <2>1, IdleSound
    <2>2. CASE t # s
      <3>1. \A f \in staging[t].paths : f \notin F
        BY <2>2 DEF OneOwner
      <3> QED
        BY <1>9, <1>11, <2>2, <3>1 DEF StageSound, Whole
    <2> QED
      BY <2>1, <2>2
  <1> QED
    BY <1>10, <1>12, <1>13, <1>14

\* A commit that takes rows away, journals only files of messages deleted by it
\* or before, and adds nothing else.
LEMMA ShrinkStep ==
    ASSUME StagedInv, NEW db \in Databases, Committed(db),
           \A n \in DOMAIN db.rows : n \in DOMAIN Database.rows /\ db.rows[n] = Database.rows[n],
           \A f \in db.cleanup : \/ f \in Database.cleanup
                                 \/ \E n \in DOMAIN Database.rows \cap removed' : f \in Database.rows[n],
           removed \subseteq removed', cleaning' \subseteq cleaning,
           UNCHANGED <<staging, onDisk, safeData, safeNames, drawn>>
    PROVE  StagedInv'
  <1> USE DEF StagedInv
  <1>1. Logged' = Logged \cup {db} /\ wal' \in Seq(Databases) /\ wal' # << >>
    BY CommitLogged
  <1>2. Database \in Logged
    BY DatabaseLogged
  <1>3. \A f : Named(f)' => Named(f)
    BY <1>1, <1>2 DEF Named
  <1>4. StagedTypes'
    BY <1>1 DEF StagedTypes
  <1>5. RowsSafe'
    BY <1>1, <1>2 DEF RowsSafe, Safe, Whole
  <1>6. OneOwner'
    <2>1. \A f \in FileNames : Named(f)' => f \in drawn'
      BY <1>3 DEF OneOwner
    <2>2. \A d, e \in Logged' : \A k \in DOMAIN d.rows, n \in DOMAIN e.rows :
            \A f \in d.rows[k] : f \in e.rows[n] => k = n
      BY <1>1, <1>2 DEF OneOwner
    <2>3. \A d, e \in Logged' : \A k \in DOMAIN d.rows \ removed' : \A f \in d.rows[k] :
            f \notin cleaning' /\ f \notin e.cleanup
      <3> SUFFICES ASSUME NEW d \in Logged', NEW e \in Logged', NEW k \in DOMAIN d.rows \ removed',
                          NEW f \in d.rows[k]
                   PROVE  f \notin cleaning /\ f \notin e.cleanup
        OBVIOUS
      <3>1. PICK x \in Logged : k \in DOMAIN x.rows /\ f \in x.rows[k]
        BY <1>1, <1>2
      <3>2. f \notin cleaning /\ \A y \in Logged : f \notin y.cleanup
        BY <3>1 DEF OneOwner
      <3>3. \A n \in DOMAIN Database.rows : f \in Database.rows[n] => n = k
        BY <1>2, <3>1 DEF OneOwner
      <3> QED
        BY <1>1, <1>2, <3>2, <3>3
    <2> QED
      BY <2>1, <2>2, <2>3 DEF OneOwner
  <1>7. ASSUME NEW t \in Stagers PROVE StageSound(t)'
    BY <1>3 DEF StageSound, Whole
  <1> QED
    BY <1>4, <1>5, <1>6, <1>7

\* Deleting a message: its rows go, and its files are journalled or forgotten.
LEMMA DeleteStep ==
    ASSUME StagedInv, NEW m \in StagedMessages, DeleteDm(m) \/ PurgeMessage(m)
    PROVE  StagedInv'
  <1> USE DEF StagedInv
  <1>1. /\ Database \in Databases /\ DOMAIN Database.rows \subseteq StagedMessages
        /\ \A n \in DOMAIN Database.rows : Database.rows[n] \subseteq FileNames
    BY DatabaseLogged
  <1>2. Without(m) \in RowTables
    <2>1. Without(m) \in [DOMAIN Database.rows \ {m} -> SUBSET FileNames]
      BY <1>1 DEF Without
    <2> QED
      BY <1>1, <2>1, RowTable
  <1>3. \A n \in DOMAIN Without(m) : n \in DOMAIN Database.rows /\ Without(m)[n] = Database.rows[n]
    BY DEF Without
  <1>4. CASE DeleteDm(m)
    <2> PICK db : db = [rows |-> Without(m), cleanup |-> Database.cleanup \cup Database.rows[m],
                        gone |-> Database.gone \cup {m}]
      OBVIOUS
    <2>1. m \in DOMAIN Database.rows /\ Committed(db)
      BY <1>4 DEF DeleteDm
    <2>2. db \in Databases
      BY <1>1, <1>2, <2>1 DEF Databases
    <2>3. removed' = removed \cup {m} /\ cleaning' = cleaning
          /\ UNCHANGED <<staging, onDisk, safeData, safeNames, drawn>>
      BY <1>4 DEF DeleteDm
    <2>4. \A f \in db.cleanup : \/ f \in Database.cleanup
                                \/ \E n \in DOMAIN Database.rows \cap removed' : f \in Database.rows[n]
      BY <2>1, <2>3
    <2> QED
      BY <1>3, <2>1, <2>2, <2>3, <2>4, ShrinkStep
  <1>5. CASE PurgeMessage(m)
    <2> PICK db : db = [Database EXCEPT !.rows = Without(m)]
      OBVIOUS
    <2>1. Committed(db) /\ removed' = removed \cup {m} /\ cleaning' = cleaning
          /\ UNCHANGED <<staging, onDisk, safeData, safeNames, drawn>>
      BY <1>5 DEF PurgeMessage
    <2>2. db \in Databases /\ db.rows = Without(m) /\ db.cleanup = Database.cleanup
      BY <1>1, <1>2 DEF Databases
    <2> QED
      BY <1>3, <2>1, <2>2, ShrinkStep
  <1> QED
    BY <1>4, <1>5

\* Cleaning up unlinks files of deleted messages only.
LEMMA CleanStep ==
    ASSUME StagedInv, BeginCleanup \/ \E f \in FileNames : CleanFile(f) \/ CleanFails(f)
    PROVE  StagedInv'
  <1> USE DEF StagedInv
  <1>1. Database \in Logged /\ Database \in Databases
    BY DatabaseLogged
  <1>2. ASSUME UNCHANGED <<staging, onDisk, safeData, safeNames, wal, drawn, removed>>,
               cleaning' \subseteq cleaning \cup Database.cleanup
        PROVE  StagedInv'
    <2>1. Logged' = Logged
      BY <1>2 DEF Logged
    <2>2. \A f : Named(f)' => Named(f)
      BY <1>1, <1>2, <2>1 DEF Named
    <2>3. cleaning' \subseteq FileNames
      BY <1>1, <1>2 DEF StagedTypes, Databases
    <2>4. StagedTypes'
      BY <1>2, <2>3 DEF StagedTypes
    <2>5. OneOwner'
      BY <1>1, <1>2, <2>1, <2>2 DEF OneOwner
    <2>6. RowsSafe'
      BY <1>2, <2>1 DEF RowsSafe, Safe, Whole
    <2>7. ASSUME NEW t \in Stagers PROVE StageSound(t)'
      BY <1>2, <2>2 DEF StageSound, Whole
    <2> QED
      BY <2>4, <2>5, <2>6, <2>7
  <1>3. CASE BeginCleanup
    BY <1>2, <1>3 DEF BeginCleanup
  <1>4. ASSUME NEW f \in FileNames, CleanFails(f) PROVE StagedInv'
    BY <1>2, <1>4 DEF CleanFails
  <1>5. ASSUME NEW f \in FileNames, CleanFile(f), f \in DOMAIN onDisk PROVE StagedInv'
    <2>1. /\ f \in cleaning /\ onDisk' = Unlinked({f})
          /\ UNCHANGED <<wal, cleaning, staging, safeData, safeNames, drawn, removed>>
      BY <1>5 DEF CleanFile
    <2>2. Logged' = Logged /\ \A g : Named(g)' <=> Named(g)
      BY <2>1, SameLog
    <2>3. \A d \in Logged : \A m \in DOMAIN d.rows \ removed : \A g \in d.rows[m] : g \notin {f}
      BY <2>1 DEF OneOwner
    <2>4. RowsSafe' /\ \A g : g \notin {f} => (Whole(g)' <=> Whole(g)) /\ (g \in DOMAIN onDisk' <=> g \in DOMAIN onDisk)
      <3>1. safeData' = safeData /\ safeNames' = safeNames /\ wal' = wal /\ removed' = removed
        BY <2>1
      <3> QED
        BY <2>1, <2>2, <2>3, <3>1, UnlinkKeeps
    <2>5. StagedTypes' /\ OneOwner'
      BY <2>1, <2>2 DEF StagedTypes, OneOwner
    <2>6. Named(f)
      BY <2>1 DEF Named
    <2>7. ASSUME NEW t \in Stagers PROVE StageSound(t)'
      <3>1. StageSound(t) /\ \A g \in staging[t].paths : g \notin {f}
        BY <2>6 DEF StageSound
      <3>2. \A g \in staging[t].paths : (Whole(g)' <=> Whole(g)) /\ (g \in DOMAIN onDisk' <=> g \in DOMAIN onDisk)
        BY <2>4, <3>1
      <3>3. staging' = staging /\ safeData' = safeData /\ safeNames' = safeNames /\ drawn' = drawn
        BY <2>1
      <3> HIDE DEF StagedInv
      <3> QED
        BY <2>2, <3>1, <3>2, <3>3 DEF StageSound
    <2> QED
      BY <2>4, <2>5, <2>7
  <1>6. ASSUME NEW f \in FileNames, CleanFile(f), f \notin DOMAIN onDisk PROVE StagedInv'
    <2> PICK db : db = [Database EXCEPT !.cleanup = @ \ {f}]
      OBVIOUS
    <2>1. Committed(db) /\ cleaning' \subseteq cleaning
          /\ UNCHANGED <<staging, onDisk, safeData, safeNames, drawn, removed>>
      BY <1>6 DEF CleanFile
    <2>2. db \in Databases /\ db.rows = Database.rows /\ db.cleanup \subseteq Database.cleanup
      BY <1>1 DEF Databases
    <2> QED
      BY <2>1, <2>2, ShrinkStep
  <1> QED
    BY <1>3, <1>4, <1>5, <1>6

\* After an outage nothing is staged or being cleaned, and what is left is one
\* of the databases logged, with the names and contents that are on the medium.
LEMMA OutageStep ==
    ASSUME StagedInv, Killed \/ PowerFails
    PROVE  StagedInv'
  <1> USE DEF StagedInv
  <1>1. staging' = [s \in Stagers |-> NoStage] /\ cleaning' = {}
        /\ safeData' = safeData /\ drawn' = drawn /\ removed' = removed
    BY DEF Killed, PowerFails, Restarted
  <1>2. wal' \in Seq(Databases) /\ wal' # << >> /\ Logged' \subseteq Logged
    <2>1. CASE Killed
      BY <2>1 DEF Killed, Logged, StagedTypes
    <2>2. CASE PowerFails
      <3>1. PICK n \in 1 .. Len(wal) : wal' = <<wal[n]>>
        BY <2>2 DEF PowerFails
      <3>2. wal[n] \in Databases /\ n \in DOMAIN wal
        BY DEF StagedTypes
      <3> PICK d : d = wal[n]
        OBVIOUS
      <3>3. wal' \in Seq(Databases) /\ wal' # << >> /\ DOMAIN wal' = {1} /\ wal'[1] = d
        BY <3>1, <3>2
      <3> QED
        BY <3>2, <3>3 DEF Logged
    <2> QED
      BY <2>1, <2>2
  <1>3. \A f : Safe(f) => Safe(f)'
    <2>1. CASE Killed
      BY <2>1 DEF Killed, Safe, Whole
    <2>2. CASE PowerFails
      <3>1. PICK names, intact :
              /\ DOMAIN onDisk \cap safeNames \subseteq names
              /\ onDisk' = [f \in names |-> IF f \in safeData \/ (f \in intact /\ onDisk[f] = "whole")
                                            THEN "whole" ELSE "torn"]
              /\ safeNames' = names
        BY <2>2 DEF PowerFails
      <3> QED
        BY <1>1, <3>1 DEF Safe, Whole
    <2> QED
      BY <2>1, <2>2
  <1>4. \A f : Named(f)' => Named(f)
    BY <1>1, <1>2 DEF Named
  <1>5. StagedTypes'
    BY <1>1, <1>2 DEF StagedTypes, Stages, NoStage
  <1>6. OneOwner'
    BY <1>1, <1>2, <1>4 DEF OneOwner, NoStage
  <1>7. RowsSafe'
    BY <1>1, <1>2, <1>3 DEF RowsSafe
  <1>8. ASSUME NEW t \in Stagers PROVE StageSound(t)'
    BY <1>1, IdleSound
  <1> QED
    BY <1>5, <1>6, <1>7, <1>8

-----------------------------------------------------------------------------

\* A message in the database that nobody deleted has every one of its files,
\* whole, after any kill and any power loss (StagedAttachments, publish_dm,
\* publish_incoming, cleanup_deleted_files), however tasks interleave.
THEOREM UndeletedAlwaysHasFiles == StagedSpec => []UndeletedHasFiles
  <1>1. StagedInv /\ [StagedNext]_stagedVars => StagedInv'
    <2> SUFFICES ASSUME StagedInv, [StagedNext]_stagedVars PROVE StagedInv'
      OBVIOUS
    <2>1. CASE UNCHANGED stagedVars
      <3>1. Logged' = Logged /\ \A f : Named(f)' <=> Named(f)
        BY <2>1, SameLog DEF stagedVars
      <3>2. StagedTypes'
        BY <2>1 DEF stagedVars, StagedInv, StagedTypes
      <3>5. OneOwner'
        <4>1. OneOwner
          BY DEF StagedInv
        <4> QED
          BY <2>1, <3>1, <4>1 DEF stagedVars, OneOwner
      <3>3. RowsSafe'
        BY <2>1, <3>1 DEF stagedVars, StagedInv, RowsSafe, Safe, Whole
      <3>4. ASSUME NEW t \in Stagers PROVE StageSound(t)'
        <4>1. StageSound(t)
          BY DEF StagedInv
        <4> QED
          BY <2>1, <3>1, <4>1 DEF stagedVars, Whole, StageSound
      <3> QED
        BY <3>2, <3>3, <3>4, <3>5 DEF StagedInv
    <2>2. ASSUME NEW s \in Stagers, StageFails(s) PROVE StagedInv'
      BY <2>2, DropStep DEF StageFails
    <2>3. ASSUME NEW s \in Stagers, staging[s].at = "commit"
          PROVE  \E m \in StagedMessages : staging[s].of = {m}
      BY <2>3 DEF StagedInv, StageSound
    <2>4. ASSUME NEW s \in Stagers, PublishDm(s) \/ PublishGroup(s) PROVE StagedInv'
      BY <2>3, <2>4, AcceptStep DEF PublishDm, PublishGroup
    <2>5. ASSUME NEW s \in Stagers, PublishIncoming(s) PROVE StagedInv'
      <3>1. PICK m \in StagedMessages : staging[s].of = {m}
        BY <2>3, <2>5 DEF PublishIncoming
      <3>2. UNCHANGED <<safeData, safeNames, cleaning, drawn, removed>> /\ staging[s].at = "commit"
        BY <2>5 DEF PublishIncoming
      <3>3. CASE m \in DOMAIN Database.rows \cup Database.gone
        BY <2>5, <3>1, <3>2, <3>3, DropStep DEF PublishIncoming
      <3>4. CASE m \notin DOMAIN Database.rows \cup Database.gone
        BY <2>5, <3>1, <3>2, <3>4, AcceptStep DEF PublishIncoming
      <3> QED
        BY <3>3, <3>4
    <2> QED
      BY <2>1, <2>2, <2>4, <2>5, StageStep, DeleteStep, CleanStep, OutageStep DEF StagedNext
  <1>2. StagedInv => UndeletedHasFiles
    BY DatabaseLogged DEF StagedInv, RowsSafe, Safe, UndeletedHasFiles
  <1> QED
    BY InitStaged, <1>1, <1>2, PTL DEF StagedSpec
=============================================================================
