----------------------------- MODULE BitcaskCompact ----------------------------
(***************************************************************************)
(* Compaction (internal/engine/compact.go).  Compact holds Engine.mu from  *)
(* beginning to end, so no other operation runs between its steps; a crash *)
(* can.  Each system call that changes the directory is a step.            *)
(***************************************************************************)
EXTENDS Bitcask, FiniteSetsExt

CONSTANTS
  NoFile,         \* there is no temporary file
  CompactFaults   \* which of Compact's system calls can fail

ASSUME CompactFaultsAssumption ==
  CompactFaults \subseteq {"create", "write", "readDir", "remove", "rename", "reopen"}
ASSUME NoFileAssumption == NoFile \notin File

VARIABLES
  phase,   \* of Compact: "idle", "copying", "removing" or "renaming"
  todo,    \* the keys of activeData that are not copied yet
  toRemove,\* the data files ReadDir listed that are not removed yet
  temp,    \* the file aroradb.data.compact
  newDir,  \* newKeyDir
  damage   \* what a Compact did to the data (history variable):
           \* "none", "lost" its own copy or left it unrenamed, "leftover" files beside the copy, or
           \* "crashed" once it had begun to remove files; "torn" once a record was
           \* written behind a torn one; "skipped" live keys it could not read

compaction == <<phase, todo, toRemove, temp, newDir, damage>>
cvars == <<vars, compaction>>

EmptyDir == [k \in Keys |-> NoMeta]

CompactInit ==
  /\ Init
  /\ phase = "idle" /\ todo = {} /\ toRemove = {} /\ temp = NoFile /\ newDir = EmptyDir
  /\ damage = "none"

--------------------------------------------------------------------------------
\* reloadDB: on the engine at hand, with the descriptors closed.  Its own error is
\* dropped; the files before the one it stops at stay indexed and open.  bad: the files at
\* which it can stop.
ReloadWithout(bad) ==
  LET seen == {i \in DOMAIN disk : \A j \in bad : i <= j}
      last == {i \in DOMAIN disk : \A j \in DOMAIN disk : j <= i}
  IN /\ keyDir' = LoadDir([i \in seen |-> disk[i]])
     /\ readFiles' = seen \ (IF bad = {} THEN last ELSE bad)
     /\ activeOpen' = (bad = {})
     /\ \E id \in IF DOMAIN disk = {} THEN {0} ELSE last :
          IF bad # {} THEN UNCHANGED <<disk, activeFileID, writeOffset>>
          ELSE /\ disk' = WithFile(disk, id, FileAt(disk, id))
               /\ activeFileID' = id
               /\ writeOffset' = FileAt(disk, id).size

Reload ==
  \E mayBe \in SUBSET {i \in DOMAIN disk : MayRefuse(disk[i])} :
    ReloadWithout(mayBe \cup {i \in DOMAIN disk : MustRefuse(disk[i])})

\* The temporary file is opened with O_TRUNC.  Mutant: it is not, and continues
\* what a Compact that crashed has left.
LeftoverTemp == IF temp = NoFile THEN EmptyFile ELSE temp

FreshTemp == EmptyFile

\* Steps 1 to 3: the readable keys are gathered, the descriptors closed and the
\* temporary file is created or emptied.  Nothing is synced.
CompactBegin ==
  /\ status = "open" /\ phase = "idle"
  /\ phase' = "copying"
  /\ todo' = Scan
  /\ temp' = FreshTemp
  /\ newDir' = EmptyDir
  /\ activeOpen' = FALSE
  /\ readFiles' = {}
  /\ damage' = IF \A k \in Keys : Get(k) # ReadError THEN damage ELSE "skipped"
  /\ UNCHANGED <<disk, status, keyDir, activeFileID, writeOffset, deleting, lsn,
                 committed, faults, toRemove>>

CompactCreateFails ==
  /\ "create" \in CompactFaults
  /\ status = "open" /\ phase = "idle"
  /\ Reload
  /\ UNCHANGED <<status, deleting, lsn, committed, faults, compaction>>

\* The record of k that the gathering step has read.
SourceRecord(k) ==
  (CHOOSE g \in ReadsWhole(disk[keyDir[k].file], keyDir[k].off, keyDir[k].size) : TRUE).rec

\* Mutant of CopiedMeta: the offset in the old file.
CopiedMetaOldOffset(k) == [file |-> 0, off |-> keyDir[k].off, size |-> keyDir[k].size]

CopiedMeta(k) == [file |-> 0, off |-> temp.size, size |-> keyDir[k].size]

\* One record is copied; the map is iterated in any order.
CompactWrite(k) ==
  /\ phase = "copying" /\ k \in todo
  /\ todo' = todo \ {k}
  /\ temp' = AppendTo(temp, SourceRecord(k), keyDir[k].size)
  /\ newDir' = [newDir EXCEPT ![k] = CopiedMeta(k)]
  /\ UNCHANGED <<vars, phase, toRemove, damage>>

CompactWriteFails ==
  /\ "write" \in CompactFaults
  /\ phase = "copying" /\ todo # {}
  /\ temp' = NoFile
  /\ phase' = "idle"
  /\ todo' = {}
  /\ newDir' = EmptyDir
  /\ Reload
  /\ UNCHANGED <<status, deleting, lsn, committed, faults, toRemove, damage>>

\* Mutant of CompactListFiles: the old files go while records are still copied.
CompactListFilesEarly ==
  /\ phase = "copying"
  /\ toRemove' = DOMAIN disk /\ phase' = "removing"
  /\ UNCHANGED <<vars, todo, temp, newDir, damage>>

\* Step 4 lists the directory; a failure to do so removes nothing.
CompactListFiles ==
  /\ phase = "copying" /\ todo = {}
  /\ \/ toRemove' = DOMAIN disk /\ phase' = "removing"
     \/ "readDir" \in CompactFaults /\ phase' = "renaming" /\ UNCHANGED toRemove
  /\ UNCHANGED <<vars, todo, temp, newDir, damage>>

\* ReadDir sorts by name: 10 comes before 2.  Ids below 100.
NameRank(i) == IF i < 10 THEN 11 * i ELSE 11 * (i \div 10) + (i % 10) + 1

\* One listed file is removed; a failure to remove it is not noticed.
CompactRemove(i) ==
  /\ phase = "removing" /\ i \in toRemove
  /\ \A j \in toRemove : NameRank(i) <= NameRank(j)
  /\ toRemove' = toRemove \ {i}
  /\ \/ disk' = [j \in DOMAIN disk \ {i} |-> disk[j]]
     \/ "remove" \in CompactFaults /\ UNCHANGED disk
  /\ UNCHANGED <<status, engine, deleting, lsn, committed, faults,
                 phase, todo, temp, newDir, damage>>

\* The name of the temporary file also starts with "aroradb.data.": it is listed
\* last and removed like the others.
CompactRemoveTemp ==
  /\ phase = "removing" /\ toRemove = {}
  /\ phase' = "renaming"
  /\ \/ temp' = NoFile /\ damage' = "lost"
     \/ "remove" \in CompactFaults /\ UNCHANGED <<temp, damage>>
  /\ UNCHANGED <<vars, todo, toRemove, newDir>>

\* Steps 5 and 6.  Files that could not be removed stay beside the new one.
CompactRename ==
  /\ phase = "renaming" /\ temp # NoFile
  /\ disk' = WithFile(disk, 0, temp)
  /\ temp' = NoFile
  /\ readFiles' = {}
  /\ keyDir' = newDir
  /\ \/ activeOpen' = TRUE /\ activeFileID' = 0 /\ writeOffset' = temp.size
     \/ /\ "reopen" \in CompactFaults
        /\ UNCHANGED <<activeOpen, activeFileID, writeOffset>>
  /\ damage' = IF DOMAIN disk \subseteq {0} THEN damage ELSE "leftover"
  /\ phase' = "idle"
  /\ newDir' = EmptyDir
  /\ UNCHANGED <<status, deleting, lsn, committed, faults, todo, toRemove>>

\* Rename finds no file, or fails with the file in place: Compact returns with every
\* descriptor closed.
CompactRenameFails ==
  /\ phase = "renaming"
  /\ temp = NoFile \/ "rename" \in CompactFaults
  /\ phase' = "idle"
  /\ newDir' = EmptyDir
  /\ damage' = "lost"
  /\ UNCHANGED <<vars, todo, toRemove, temp>>

\* The process dies inside Compact.  The next start ignores the temporary file.
\* Power loss inside Compact is not modelled (no file of it is ever synced).
CompactCrash ==
  /\ phase # "idle"
  /\ Crashed
  /\ phase' = "idle" /\ todo' = {} /\ toRemove' = {} /\ newDir' = EmptyDir
  /\ damage' = IF phase = "copying" THEN damage ELSE "crashed"
  /\ UNCHANGED <<disk, lsn, committed, faults, temp>>

\* Every other method waits for the lock.
EngineStep ==
  /\ phase = "idle"
  /\ Next
  /\ damage' = IF CleanLog(disk') THEN damage ELSE "torn"
  /\ UNCHANGED <<phase, todo, toRemove, temp, newDir>>

CompactNext ==
  \/ EngineStep
  \/ CompactBegin \/ CompactCreateFails
  \/ \E k \in Keys : CompactWrite(k)
  \/ CompactWriteFails \/ CompactListFiles
  \/ \E i \in DOMAIN disk : CompactRemove(i)
  \/ CompactRemoveTemp \/ CompactRename \/ CompactRenameFails \/ CompactCrash

CompactSpec == CompactInit /\ [][CompactNext]_cvars

--------------------------------------------------------------------------------
(* Statistics: Stats and CompactionRatio *)

\* The bytes of the records the key directory points at.
ActiveSize ==
  LET live == {k \in Keys : keyDir[k] # NoMeta}
  IN MapThenSumSet(LAMBDA k : keyDir[k].size, live)

\* The sizes of the files with an open descriptor.
TotalSize ==
  LET held == {i \in DOMAIN disk : HasHandle(i)}
  IN MapThenSumSet(LAMBDA i : disk[i].size, held)

--------------------------------------------------------------------------------
(* Properties *)

\* Until Compact removes its own output, one place holds everything clients were
\* told is stored: the old files, or the temporary file once it is complete.  No
\* file is removed before that (order of steps 3, 4 and 5 in Compact).
SomeCopyComplete ==
  phase \in {"copying", "removing"} /\ damage = "none" =>
    \/ Recovered(disk) = committed
    \/ phase = "removing" /\ Recovered(WithFile(EmptyDisk, 0, temp)) = committed

\* Whether Compact succeeds, or fails in step 2 or 3 and reloads, the engine goes on
\* serving what clients were told is stored (reloadDB, newKeyDir).
CompactTransparent ==
  status = "open" /\ phase = "idle" /\ damage = "none" /\ activeOpen =>
    \A k \in Keys : Get(k) = committed[k]

\* A successful Compact leaves one file that holds one record per key: what the
\* key directory points at is all there is (offsets of newKeyDir).
CompactLeavesNoGarbage ==
  [][phase = "renaming" /\ phase' = "idle" /\ activeOpen' /\ damage' = "none" =>
       DOMAIN disk' = {0} /\ ActiveSize' = TotalSize']_cvars

--------------------------------------------------------------------------------
(* What the comments and the documentation say and the code does not keep.  *)

\* "Compact merges files by removing stale keys and deleted values" (compact.go):
\* what is neither stale nor deleted stays readable.  Step 4 removes the copy.
CompactKeepsData ==
  status = "open" /\ phase = "idle" => \A k \in Keys : Get(k) = committed[k]

\* A process that dies inside Compact loses nothing ("zero data loss during
\* crashes", core.md): the copy may be there, but a restart does not look at it.
CompactCrashKeepsData ==
  status = "down" /\ temp # NoFile => Recovered(disk) = committed

\* Only stale and deleted records are dropped (compact.go): a key whose descriptor
\* is closed since a failed rotation is dropped with them.
CopyIsWhole == phase = "removing" /\ temp # NoFile => Recovered(WithFile(EmptyDisk, 0, temp)) = committed

\* "Remove all old data files in the database directory" (compact.go): when the
\* directory cannot be listed they stay, and a restart prefers their values.
NoOldFilesLeft == damage = "leftover" => Recovered(disk) = committed
================================================================================
