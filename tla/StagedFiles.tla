---------------------------- MODULE StagedFiles ----------------------------
(***************************************************************************)
(* Attachment files and the rows that name them.  A message's files are    *)
(* staged first (StagedAttachments of libcore/src/files.rs: create, write, *)
(* sync each file, then sync the directory) and one transaction then       *)
(* accepts the message with all of them.  A deletion journals the paths in *)
(* its transaction and unlinks them afterwards.  Sends, arriving letters   *)
(* (the same letter twice included) and deletions interleave; the process  *)
(* may be killed and the power may fail at any point.                      *)
(*                                                                         *)
(* The database runs with journal_mode = WAL and synchronous = NORMAL: a   *)
(* kill loses nothing, a power loss may take back the commits since the    *)
(* log was last synced, the latest first.                                  *)
(***************************************************************************)
EXTENDS Integers, Sequences, FiniteSets

CONSTANTS Stagers,     \* tasks that stage a message
          FileNames,   \* random names, never drawn twice
          Outgoing, Incoming, GroupSent, \* the messages there can be
          FilesEach,   \* files of one message at most (MAX_MESSAGE_FILES)
          MaxCommits,  \* bound: commits between two outages
          MaxOutages   \* bound: kills and power losses

VARIABLES staging,     \* Stagers -> StagedAttachments
          onDisk,      \* files as the file system shows them
          safeData,    \* files whose content is on the medium
          safeNames,   \* names the directory holds on the medium
          wal,         \* the commits, from the last outage on
          cleaning,    \* paths cleanup_deleted_files still has to try
          drawn,       \* ghost: names drawn
          removed,     \* ghost: messages whose deletion was committed once
          outages

stagedVars == <<staging, onDisk, safeData, safeNames, wal, cleaning, drawn, removed, outages>>

StagedMessages == Outgoing \cup Incoming \cup GroupSent

\* Nothing is being staged.
NoStage == [at |-> "idle", of |-> {}, paths |-> {}]

\* The database as every connection sees it: rows of attachments by message,
\* and the journal of files to unlink.
Database == wal[Len(wal)]

StagedInit ==
  /\ staging = [s \in Stagers |-> NoStage]
  /\ onDisk = [f \in {} |-> "torn"]
  /\ safeData = {} /\ safeNames = {}
  /\ wal = << [rows |-> [m \in {} |-> {}], cleanup |-> {}, gone |-> {}] >>
  /\ cleaning = {}
  /\ drawn = {} /\ removed = {} /\ outages = 0

\* The files of a directory without some of them.
Unlinked(paths) == [f \in DOMAIN onDisk \ paths |-> onDisk[f]]

Committed(db) ==
  /\ Len(wal) < MaxCommits
  /\ wal' = Append(wal, db)

\* A send or an arriving letter starts to stage a message.
NewStage(s, m) ==
  /\ staging[s].at = "idle"
  /\ m \in Incoming \/ (m \notin removed /\ m \notin DOMAIN Database.rows /\ \A t \in Stagers : staging[t].of # {m})
  /\ staging' = [staging EXCEPT ![s] = [at |-> "stage", of |-> {m}, paths |-> {}]]
  /\ UNCHANGED <<onDisk, safeData, safeNames, wal, cleaning, drawn, removed, outages>>

\* new_file: the name is taken with create_new.
NewFile(s) ==
  /\ staging[s].at = "stage" /\ Cardinality(staging[s].paths) < FilesEach
  /\ \E f \in FileNames \ drawn :
       /\ drawn' = drawn \cup {f}
       /\ onDisk' = [g \in DOMAIN onDisk \cup {f} |-> IF g = f THEN "torn" ELSE onDisk[g]]
       /\ staging' = [staging EXCEPT ![s].at = "write", ![s].paths = @ \cup {f}]
  /\ UNCHANGED <<safeData, safeNames, wal, cleaning, removed, outages>>

\* The file still to be finished.
Unfinished(s) == CHOOSE f \in staging[s].paths : f \notin safeData

\* All parts are written, into the page cache.
WriteFile(s) ==
  /\ staging[s].at = "write"
  /\ onDisk' = [onDisk EXCEPT ![Unfinished(s)] = "whole"]
  /\ staging' = [staging EXCEPT ![s].at = "sync"]
  /\ UNCHANGED <<safeData, safeNames, wal, cleaning, drawn, removed, outages>>

\* sync_all of the file.
SyncFile(s) ==
  /\ staging[s].at = "sync"
  /\ safeData' = safeData \cup {Unfinished(s)}
  /\ staging' = [staging EXCEPT ![s].at = "stage"]
  /\ UNCHANGED <<onDisk, safeNames, wal, cleaning, drawn, removed, outages>>

\* A bug: the directory is not synced before the commit.
SyncDirectoryMutant(s) ==
  /\ staging[s].at = "stage"
  /\ staging' = [staging EXCEPT ![s].at = "commit"]
  /\ UNCHANGED <<onDisk, safeData, safeNames, wal, cleaning, drawn, removed, outages>>

\* Everything is staged: the directory is synced, all its names with it.
SyncDirectory(s) ==
  /\ staging[s].at = "stage"
  /\ safeNames' = DOMAIN onDisk
  /\ staging' = [staging EXCEPT ![s].at = "commit"]
  /\ UNCHANGED <<onDisk, safeData, wal, cleaning, drawn, removed, outages>>

\* Drop of an unpublished staging removes what it made.
DropStaged(s) ==
  /\ onDisk' = Unlinked(staging[s].paths)
  /\ staging' = [staging EXCEPT ![s] = NoStage]

\* Any step of the staging, or its transaction, fails.
StageFails(s) ==
  /\ staging[s].at # "idle"
  /\ DropStaged(s)
  /\ UNCHANGED <<safeData, safeNames, wal, cleaning, drawn, removed, outages>>

Accepted(m, paths) == [Database EXCEPT !.rows = [n \in DOMAIN @ \cup {m} |-> IF n = m THEN paths ELSE @[n]]]

\* publish_dm: the message and its rows are one transaction.
PublishDm(s) ==
  /\ staging[s].at = "commit" /\ staging[s].of \subseteq Outgoing
  /\ \A m \in staging[s].of : Committed(Accepted(m, staging[s].paths))
  /\ staging' = [staging EXCEPT ![s] = NoStage]
  /\ UNCHANGED <<onDisk, safeData, safeNames, cleaning, drawn, removed, outages>>

\* publish: the same for a group message and its queue.
PublishGroup(s) ==
  /\ staging[s].at = "commit" /\ staging[s].of \subseteq GroupSent
  /\ \A m \in staging[s].of : Committed(Accepted(m, staging[s].paths))
  /\ staging' = [staging EXCEPT ![s] = NoStage]
  /\ UNCHANGED <<onDisk, safeData, safeNames, cleaning, drawn, removed, outages>>

\* publish_incoming: a letter already stored, or deleted, keeps what is there,
\* and this attempt's files go.
PublishIncoming(s) ==
  /\ staging[s].at = "commit" /\ staging[s].of \subseteq Incoming
  /\ \A m \in staging[s].of :
       IF m \in DOMAIN Database.rows \cup Database.gone
       THEN DropStaged(s) /\ UNCHANGED wal
       ELSE /\ Committed(Accepted(m, staging[s].paths))
            /\ staging' = [staging EXCEPT ![s] = NoStage]
            /\ UNCHANGED onDisk
  /\ UNCHANGED <<safeData, safeNames, cleaning, drawn, removed, outages>>

Without(m) == [n \in DOMAIN Database.rows \ {m} |-> Database.rows[n]]

\* delete_dm_tx: rows out, paths journalled, the tombstone stays.
DeleteDm(m) ==
  /\ m \in DOMAIN Database.rows \ GroupSent
  /\ Committed([rows |-> Without(m), cleanup |-> Database.cleanup \cup Database.rows[m], gone |-> Database.gone \cup {m}])
  /\ removed' = removed \cup {m}
  /\ UNCHANGED <<staging, onDisk, safeData, safeNames, cleaning, drawn, outages>>

\* A group message goes with its rows and without a journal entry.
PurgeMessage(m) ==
  /\ m \in DOMAIN Database.rows \cap GroupSent
  /\ Committed([Database EXCEPT !.rows = Without(m)])
  /\ removed' = removed \cup {m}
  /\ UNCHANGED <<staging, onDisk, safeData, safeNames, cleaning, drawn, outages>>

\* cleanup_deleted_files reads the journal, one caller at a time.
BeginCleanup ==
  /\ cleaning = {} /\ Database.cleanup # {}
  /\ cleaning' = Database.cleanup
  /\ UNCHANGED <<staging, onDisk, safeData, safeNames, wal, drawn, removed, outages>>

\* The file is unlinked, or was not there; its journal row goes next.
CleanFile(f) ==
  /\ f \in cleaning
  /\ IF f \in DOMAIN onDisk
     THEN onDisk' = Unlinked({f}) /\ UNCHANGED <<wal, cleaning>>
     ELSE /\ Committed([Database EXCEPT !.cleanup = @ \ {f}])
          /\ cleaning' = cleaning \ {f} /\ UNCHANGED onDisk
  /\ UNCHANGED <<staging, safeData, safeNames, drawn, removed, outages>>

\* The unlink fails: its row stays for the next time.
CleanFails(f) ==
  /\ f \in cleaning \cap DOMAIN onDisk
  /\ cleaning' = cleaning \ {f}
  /\ UNCHANGED <<staging, onDisk, safeData, safeNames, wal, drawn, removed, outages>>

Restarted ==
  /\ outages < MaxOutages /\ outages' = outages + 1
  /\ staging' = [s \in Stagers |-> NoStage]
  /\ cleaning' = {}

\* The process is killed: files and commits stay as they are.
Killed ==
  /\ Restarted
  /\ UNCHANGED <<onDisk, safeData, safeNames, wal, drawn, removed>>

\* The power fails.  Of names made or removed since the last sync any may be
\* there; content not synced may be torn; the log keeps some prefix.  (What
\* the system writes back on its own only narrows this choice.)
PowerFails ==
  /\ Restarted
  /\ \E names \in SUBSET (DOMAIN onDisk \cup safeNames), intact \in SUBSET (DOMAIN onDisk \ safeData), n \in 1 .. Len(wal) :
       /\ DOMAIN onDisk \cap safeNames \subseteq names
       /\ onDisk' = [f \in names |-> IF f \in safeData \/ (f \in intact /\ onDisk[f] = "whole") THEN "whole" ELSE "torn"]
       /\ safeNames' = names
       /\ wal' = << wal[n] >>
  /\ UNCHANGED <<safeData, drawn, removed>>

StagedNext ==
  \/ \E s \in Stagers :
       \/ \E m \in StagedMessages : NewStage(s, m)
       \/ NewFile(s) \/ WriteFile(s) \/ SyncFile(s) \/ SyncDirectory(s) \/ StageFails(s)
       \/ PublishDm(s) \/ PublishGroup(s) \/ PublishIncoming(s)
  \/ \E m \in StagedMessages : DeleteDm(m) \/ PurgeMessage(m)
  \/ BeginCleanup
  \/ \E f \in FileNames : CleanFile(f) \/ CleanFails(f)
  \/ Killed \/ PowerFails

StagedSpec == StagedInit /\ [][StagedNext]_stagedVars

Whole(f) == f \in DOMAIN onDisk /\ onDisk[f] = "whole"

\* A message that is in the database and that nobody deleted has every one of
\* its files, whole, after any kill and any power loss: the files and their
\* names reach the medium before the transaction that names them.
UndeletedHasFiles ==
  \A m \in DOMAIN Database.rows \ removed : \A f \in Database.rows[m] : Whole(f)

\* cleanup_deleted_files says that keys and metadata "have already gone" when
\* it unlinks: no row names a file that is not there.
RowsHaveFiles ==
  \A m \in DOMAIN Database.rows : \A f \in Database.rows[m] : Whole(f)
=============================================================================
