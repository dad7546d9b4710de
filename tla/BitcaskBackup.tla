------------------------------ MODULE BitcaskBackup -----------------------------
(***************************************************************************)
(* Backup and restore (internal/api/backup.go, handleBackup and            *)
(* handleRestore of server.go) beside a running engine.  A backup copies   *)
(* the files one by one and takes none of the engine's locks; a restore    *)
(* closes the engine, replaces its files and opens a new one.              *)
(***************************************************************************)
EXTENDS Bitcask

CONSTANTS
  RestoreFaults,  \* what can fail: a subset of the six below
  MaxBackups,     \* bound: backups taken
  MaxRestores     \* bound: restores begun

ASSUME RestoreAssumption ==
  /\ RestoreFaults \subseteq {"open", "close", "remove", "extract", "reload", "crash"}
  /\ MaxBackups \in Nat /\ MaxRestores \in Nat

VARIABLES
  backup,   \* the backup being taken, or the archive it became
  restore,  \* the restore under way
  failure,   \* "none", or what went wrong in a restore (history)
  backups, restores  \* bounds

bvars == <<vars, backup, restore, failure, backups, restores>>
archive == <<backup, backups>>

NoBackup == [at |-> "none", todo |-> {}, zip |-> EmptyDisk, from |-> 0, alone |-> TRUE]
NoRestore == [at |-> "none", zip |-> EmptyDisk, todo |-> {}, before |-> <<>>]

BackupInit ==
  /\ Init
  /\ backup = NoBackup /\ restore = NoRestore /\ failure = "none"
  /\ backups = 0 /\ restores = 0

--------------------------------------------------------------------------------
(* CreateBackupZip                                                          *)

\* The directory is listed.  from: the records written so far (history).
BackupBegin ==
  /\ backup.at \in {"none", "done"} /\ status # "down"
  /\ backups < MaxBackups /\ backups' = backups + 1
  /\ backup' = [at |-> "copying", todo |-> DOMAIN disk, zip |-> EmptyDisk, from |-> lsn,
                alone |-> restore.at = "none"]
  /\ UNCHANGED <<vars, restore, failure, restores>>

\* Mutant of Copies: the copy stops before the last record.
CopiesShort(i) ==
  {Cut(disk[i], n) : n \in {g.off : g \in {h \in disk[i].frags : h.rec.lsn <= backup.from}}}
    \cup {Cut(disk[i], disk[i].size)}

\* What a copy of file i can hold: the file as it is now, or a part of a record whose
\* write began after the backup did.
Copies(i) ==
  {Cut(disk[i], disk[i].size)} \cup
    UNION {{Cut(disk[i], n) : n \in g.off .. g.off + g.len} :
             g \in {h \in disk[i].frags : h.rec.lsn > backup.from}}

BackupCopy(i) ==
  /\ backup.at = "copying" /\ i \in backup.todo /\ i \in DOMAIN disk
  /\ \E f \in Copies(i) :
       backup' = [backup EXCEPT !.todo = @ \ {i}, !.zip = WithFile(@, i, f)]
  /\ UNCHANGED <<vars, restore, failure, backups, restores>>

\* A file is gone or cannot be opened.  The deferred archive.Close completes the
\* archive with the files copied so far; the error is only logged.
BackupFails ==
  /\ backup.at = "copying" /\ backup.todo # {}
  /\ "open" \in RestoreFaults \/ \E i \in backup.todo : i \notin DOMAIN disk
  /\ backup' = [backup EXCEPT !.at = "done", !.todo = {}]
  /\ UNCHANGED <<vars, restore, failure, backups, restores>>

BackupEnd ==
  /\ backup.at = "copying" /\ backup.todo = {}
  /\ backup' = [backup EXCEPT !.at = "done"]
  /\ UNCHANGED <<vars, restore, failure, backups, restores>>

--------------------------------------------------------------------------------
(* handleRestore and RestoreBackupZip                                       *)

\* The engine is closed (a no-op when an earlier restore has left it closed); the
\* archive is the last one taken.
RestoreBegin ==
  /\ restore.at = "none" /\ backup.at = "done" /\ status \in {"open", "closed"}
  /\ restores < MaxRestores /\ restores' = restores + 1
  /\ IF status = "open" THEN activeOpen /\ Close ELSE UNCHANGED vars
  /\ restore' = [at |-> "checking", zip |-> backup.zip, todo |-> {}, before |-> Recovered(disk)]
  /\ UNCHANGED <<archive, failure>>

\* Close has marked the engine closed and returns an error, as it always does when a failed
\* rotation has lost the active descriptor: the request is answered with the error, and no
\* engine is opened in its place.
RestoreCloseFails ==
  /\ restore.at = "none" /\ backup.at = "done" /\ status = "open"
  /\ restores < MaxRestores /\ restores' = restores + 1
  /\ IF activeOpen THEN "close" \in RestoreFaults /\ disk' \in {disk, SyncedActive}
     ELSE UNCHANGED disk
  /\ status' = "closed" /\ activeOpen' = FALSE /\ readFiles' = {} /\ deleting' = {}
  /\ UNCHANGED <<keyDir, activeFileID, writeOffset, lsn, committed, faults>>
  /\ UNCHANGED <<archive, restore, failure>>

\* Mutant of RestoreRejected: the names are checked while the files are replaced.
RestoreRejectedLate ==
  /\ restore.at = "removing"
  /\ restore' = [restore EXCEPT !.at = "giveUp"]
  /\ UNCHANGED <<vars, archive, failure, restores>>

\* The archive cannot be read or names another file: the old files are opened again.
RestoreRejected ==
  /\ restore.at = "checking"
  /\ restore' = [restore EXCEPT !.at = "giveUp"]
  /\ UNCHANGED <<vars, archive, failure, restores>>

RestoreAccepted ==
  /\ restore.at = "checking"
  /\ restore' = [restore EXCEPT !.at = "removing", !.todo = DOMAIN disk]
  /\ UNCHANGED <<vars, archive, failure, restores>>

\* An old file is removed; an error of os.Remove is dropped.
RestoreRemove(i) ==
  /\ restore.at = "removing" /\ i \in restore.todo
  /\ \/ disk' = [j \in DOMAIN disk \ {i} |-> disk[j]] /\ UNCHANGED failure
     \/ "remove" \in RestoreFaults /\ failure' = "leftover" /\ UNCHANGED disk
  /\ restore' = [restore EXCEPT !.todo = @ \ {i}]
  /\ UNCHANGED <<status, engine, deleting, lsn, committed, faults, archive, restores>>

\* Mutant of RestoreRemoved: the extraction starts beside the files that are left.
RestoreRemovedEarly ==
  /\ restore.at = "removing"
  /\ restore' = [restore EXCEPT !.at = "extracting", !.todo = DOMAIN restore.zip]
  /\ UNCHANGED <<vars, archive, failure, restores>>

RestoreRemoved ==
  /\ restore.at = "removing" /\ restore.todo = {}
  /\ restore' = [restore EXCEPT !.at = "extracting", !.todo = DOMAIN restore.zip]
  /\ UNCHANGED <<vars, archive, failure, restores>>

\* A file that was written and not synced.
Extracted(f) == [f EXCEPT !.synced = 0]

RestoreExtract(i) ==
  /\ restore.at = "extracting" /\ i \in restore.todo
  /\ disk' = WithFile(disk, i, Extracted(restore.zip[i]))
  /\ restore' = [restore EXCEPT !.todo = @ \ {i}]
  /\ UNCHANGED <<status, engine, deleting, lsn, committed, faults, archive, failure, restores>>

\* The extraction of a file fails after n bytes; NewEngine opens what is there.
RestoreExtractFails(i, n) ==
  /\ restore.at = "extracting" /\ i \in restore.todo
  /\ "extract" \in RestoreFaults /\ n \in 0 .. restore.zip[i].size
  /\ disk' = WithFile(disk, i, Extracted(Cut(restore.zip[i], n)))
  /\ restore' = [restore EXCEPT !.at = "giveUp"]
  /\ failure' = "extract"
  /\ UNCHANGED <<status, engine, deleting, lsn, committed, faults, archive, restores>>

\* The new engine is open: the restore is answered, with success or with an error.
\* From here on clients know the store as it is now.
RestoreReopen ==
  /\ \/ restore.at = "giveUp"
     \/ restore.at = "extracting" /\ restore.todo = {}
  /\ \E id \in IF DOMAIN disk = {} THEN {0}
               ELSE {i \in DOMAIN disk : \A j \in DOMAIN disk : j <= i} :
       /\ disk' = WithFile(disk, id, FileAt(disk, id))
       /\ activeFileID' = id
       /\ writeOffset' = FileAt(disk, id).size
       /\ readFiles' = DOMAIN disk \ {id}
  /\ ~ \E i \in DOMAIN disk : MustRefuse(disk[i])
  /\ keyDir' = LoadDir(disk)
  /\ activeOpen' = TRUE /\ status' = "open"
  /\ committed' = Recovered(disk)
  /\ restore' = NoRestore
  /\ UNCHANGED <<deleting, lsn, faults, archive, failure, restores>>

\* NewEngine fails: the request answers with an error, the closed engine stays.
RestoreReloadFails ==
  /\ \/ restore.at = "giveUp"
     \/ restore.at = "extracting" /\ restore.todo = {}
  /\ \/ "reload" \in RestoreFaults
     \/ \E i \in DOMAIN disk : MustRefuse(disk[i]) \/ MayRefuse(disk[i])
  /\ failure' = "reload"
  /\ restore' = NoRestore
  /\ UNCHANGED <<vars, archive, restores>>

\* The process dies in the middle of a restore; the archive is the client's.
RestoreCrash ==
  /\ "crash" \in RestoreFaults /\ restore.at # "none"
  /\ Crashed
  /\ failure' = "crash"
  /\ restore' = NoRestore
  /\ backup' = IF backup.at = "copying" THEN NoBackup ELSE backup
  /\ UNCHANGED <<disk, lsn, committed, faults, backups, restores>>

\* The engine's other operations.  A closed engine refuses them, and nobody but
\* handleRestore opens one while it is restoring.
EngineActs ==
  /\ restore.at = "none" /\ Next
  /\ backup' = IF status' = "down" /\ backup.at = "copying" THEN NoBackup ELSE backup
  /\ UNCHANGED <<restore, failure, backups, restores>>

BackupNext ==
  \/ EngineActs
  \/ BackupBegin \/ BackupFails \/ BackupEnd \/ (\E i \in backup.todo : BackupCopy(i))
  \/ RestoreBegin \/ RestoreCloseFails \/ RestoreRejected \/ RestoreAccepted \/ RestoreRemoved \/ RestoreReopen
  \/ RestoreReloadFails \/ RestoreCrash
  \/ \E i \in restore.todo :
       \/ RestoreRemove(i) \/ RestoreExtract(i)
       \/ \E n \in 0 .. (IF i \in DOMAIN restore.zip THEN restore.zip[i].size ELSE 0) :
            RestoreExtractFails(i, n)

BackupSpec == BackupInit /\ [][BackupNext]_bvars

--------------------------------------------------------------------------------
(* Properties                                                               *)

\* The archive of a backup taken beside writers, rotations and deletes is the log as
\* it was at one moment after the backup began, whatever order its files were copied
\* in (CreateBackupZip without a lock; a restore or a compaction beside it aside).
BackupIsPointInTime ==
  [][BackupEnd /\ backup.alone /\ restore.at = "none" =>
       \E l \in backup.from .. lsn :
         Logged(backup.zip) = {r \in Logged(disk) : r.lsn <= l}]_bvars

\* A restore that meets no failure leaves exactly the archive, however many files
\* there were before, and the index of the new engine is that of the archive.
RestoreGivesArchive ==
  [][RestoreReopen /\ restore.at = "extracting" /\ failure = "none" =>
       /\ Recovered(disk') = Recovered(restore.zip)
       /\ keyDir' = LoadDir(restore.zip)]_bvars

\* A refused archive costs nothing (the validation before the first removal).
RejectedRestoreKeepsData ==
  [][RestoreReopen /\ restore.at = "giveUp" /\ failure = "none" =>
       Recovered(disk') = restore.before]_bvars

--------------------------------------------------------------------------------
(* What the code says and does not keep.                                    *)

\* An archive that was delivered holds every record written before the backup began
\* ("archives all data files"): one whose copying failed does not.
ArchiveIsComplete ==
  [][backup.at = "copying" /\ backup'.at = "done" /\ backup.alone /\ CleanLog(disk) =>
       {r \in Logged(disk) : r.lsn <= backup.from} \subseteq Logged(backup.zip)]_bvars

\* A restore that answers with an error leaves the old data ("Validate files inside
\* zip first to prevent corruption"): an extraction that fails has removed it.
FailedRestoreKeepsData ==
  [][RestoreReopen /\ restore.at = "giveUp" => Recovered(disk') = restore.before]_bvars

\* After a restore that answered with success the store is the archive ("database
\* state restored successfully"): an old file that could not be removed stays.
RestoredIsArchive ==
  [][RestoreReopen /\ restore.at = "extracting" => Recovered(disk') = Recovered(restore.zip)]_bvars
================================================================================
