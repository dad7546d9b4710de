-------------------------------- MODULE Bitcask --------------------------------
(***************************************************************************)
(* The storage engine of internal/engine/bitcask.go: one process, one data *)
(* directory.  Every method holds Engine.mu for its whole body except      *)
(* Delete, which releases it between the lookup and the write.             *)
(***************************************************************************)
EXTENDS BitcaskFile

CONSTANTS
  Faults,     \* which failures can happen, a subset of FaultKinds
  MaxFaults,  \* bound: how many of them
  MaxLsn,     \* bound: how many records are written
  Garbled,    \* bytes that are no value a client stored
  ReadError   \* Get returns an error

FaultKinds == {"tear", "shortWrite", "rotateReopen", "rotateCreate", "powerLoss"}

ASSUME FaultsAssumption == Faults \subseteq FaultKinds
ASSUME BoundsAssumption == MaxFaults \in Nat /\ MaxLsn \in Nat
ASSUME NoMetaAssumption == NoMeta \notin Meta

VARIABLES
  disk,          \* the data files, by id
  status,        \* of the process: "down", "open", "closed" or "refused"
  keyDir,        \* Engine.keyDir
  activeFileID,  \* Engine.activeFileID
  writeOffset,   \* Engine.writeOffset
  activeOpen,    \* is Engine.activeFile an open descriptor?
  readFiles,     \* the ids with an open read-only descriptor
  deleting,      \* keys of which a Delete has passed the lookup, not yet the write
  lsn,           \* number of the last record given to Write (history variable)
  committed,     \* what clients were told is stored (history variable)
  faults         \* failures so far (bound)

engine == <<keyDir, activeFileID, writeOffset, activeOpen, readFiles>>
vars == <<disk, status, engine, deleting, lsn, committed, faults>>

TypeOK ==
  /\ DOMAIN disk \subseteq Nat
  /\ \A i \in DOMAIN disk : disk[i] \in File
  /\ status \in {"down", "open", "closed", "refused"}
  /\ keyDir \in [Keys -> Meta \cup {NoMeta}]
  /\ activeFileID \in Nat
  /\ writeOffset \in Nat
  /\ activeOpen \in BOOLEAN
  /\ readFiles \subseteq Nat
  /\ deleting \subseteq Keys
  /\ lsn \in Nat
  /\ committed \in [Keys -> Values \cup {NoValue}]
  /\ faults \in Nat

Init ==
  /\ disk = EmptyDisk
  /\ status = "down"
  /\ keyDir = [k \in Keys |-> NoMeta]
  /\ activeFileID = 0 /\ writeOffset = 0 /\ activeOpen = FALSE /\ readFiles = {}
  /\ deleting = {} /\ lsn = 0 /\ faults = 0
  /\ committed = [k \in Keys |-> NoValue]

--------------------------------------------------------------------------------
(* Opening and closing.  NewEngine may run on a directory that an earlier  *)
(* engine of the same process has closed (handleRestore does so).          *)

Open ==
  /\ status \in {"down", "closed", "refused"}
  /\ ~ \E i \in DOMAIN disk : MustRefuse(disk[i])
  /\ \E id \in IF DOMAIN disk = {} THEN {0}
               ELSE {i \in DOMAIN disk : \A j \in DOMAIN disk : j <= i} :
       /\ disk' = WithFile(disk, id, FileAt(disk, id))
       /\ activeFileID' = id
       /\ writeOffset' = FileAt(disk, id).size
       /\ readFiles' = DOMAIN disk \ {id}
  /\ keyDir' = LoadDir(disk)
  /\ activeOpen' = TRUE
  /\ status' = "open"
  /\ UNCHANGED <<deleting, lsn, committed, faults>>

OpenRefused ==
  /\ status \in {"down", "closed", "refused"}
  /\ \E i \in DOMAIN disk : MustRefuse(disk[i]) \/ MayRefuse(disk[i])
  /\ status' = "refused"
  /\ UNCHANGED <<disk, engine, deleting, lsn, committed, faults>>

\* Deletes that were waiting for the lock find the engine closed.
Close ==
  /\ status = "open"
  /\ status' = "closed"
  /\ disk' = IF activeOpen
             THEN WithFile(disk, activeFileID, Sync(FileAt(disk, activeFileID)))
             ELSE disk
  /\ activeOpen' = FALSE
  /\ readFiles' = {}
  /\ deleting' = {}
  /\ UNCHANGED <<keyDir, activeFileID, writeOffset, lsn, committed, faults>>

--------------------------------------------------------------------------------
(* writeEntry and rotateActiveFile *)

NewRecord(k, v) == [key |-> k, val |-> v, lsn |-> lsn + 1]

NeedsRotation(r) == writeOffset + Size(r) > MaxFileSize

\* Mutant of BaseOffset: rotation does not reset writeOffset.
BaseOffsetKept(r) == writeOffset

\* The active file once writeEntry has rotated, if it has to.
Target(r) == IF NeedsRotation(r) THEN activeFileID + 1 ELSE activeFileID
BaseOffset(r) == IF NeedsRotation(r) THEN 0 ELSE writeOffset

SyncedActive == WithFile(disk, activeFileID, Sync(FileAt(disk, activeFileID)))

\* Mutant of Prepared: the new file is created before the old one is synced.
PreparedUnsynced(r) ==
  IF NeedsRotation(r) THEN WithFile(disk, activeFileID + 1, FileAt(disk, activeFileID + 1)) ELSE disk

\* The disk once writeEntry has rotated, if it has to.
Prepared(r) ==
  IF NeedsRotation(r)
  THEN WithFile(SyncedActive, activeFileID + 1, FileAt(disk, activeFileID + 1))
  ELSE disk

\* ... and once n bytes of r have reached its active file.
Landed(r, n) == WithFile(Prepared(r), Target(r), AppendTo(FileAt(Prepared(r), Target(r)), r, n))

KeptOpen(r) == IF NeedsRotation(r) THEN readFiles \cup {activeFileID} ELSE readFiles

\* Mutants of NewMeta: the offset is one header too early; a tombstone leaves the
\* entry in place.
NewMetaShifted(r) ==
  IF r.val = NoValue THEN NoMeta
  ELSE [file |-> Target(r), off |-> BaseOffset(r) - HeaderSize, size |-> Size(r)]
NewMetaNoDelete(r) == IF r.val = NoValue THEN keyDir[r.key]
                      ELSE [file |-> Target(r), off |-> BaseOffset(r), size |-> Size(r)]

\* What the key directory holds after the write: a tombstone removes the key.
NewMeta(r) ==
  IF r.val = NoValue THEN NoMeta
  ELSE [file |-> Target(r), off |-> BaseOffset(r), size |-> Size(r)]

CanWrite == status = "open" /\ activeOpen /\ lsn < MaxLsn

WriteEntry(k, v) ==
  LET r == NewRecord(k, v) IN
  /\ CanWrite
  /\ disk' = Landed(r, Size(r))
  /\ activeFileID' = Target(r)
  /\ writeOffset' = BaseOffset(r) + Size(r)
  /\ readFiles' = KeptOpen(r)
  /\ keyDir' = [keyDir EXCEPT ![k] = NewMeta(r)]
  /\ committed' = [committed EXCEPT ![k] = v]
  /\ lsn' = lsn + 1
  /\ UNCHANGED <<status, activeOpen, faults>>

Put(k, v) == WriteEntry(k, v) /\ UNCHANGED deleting

\* Delete's lookup; a key that is absent now needs no tombstone.  Any number of Deletes
\* of a key may pass it before the first of them writes.
DeleteCheck(k) ==
  /\ status = "open"
  /\ keyDir[k] # NoMeta
  /\ deleting' = deleting \cup {k}
  /\ UNCHANGED <<disk, status, engine, lsn, committed, faults>>

\* What is left of deleting when a call that writes v has ended: it was a Delete of k if v
\* is no value, and others may be waiting.
LeftBy(k, v) == IF v = NoValue THEN {deleting, deleting \ {k}} ELSE {deleting}

DeleteWrite(k) ==
  /\ k \in deleting
  /\ WriteEntry(k, NoValue)
  /\ deleting' \in LeftBy(k, NoValue)

--------------------------------------------------------------------------------
(* Failures.  "tear" and "shortWrite" decide whether a record that fails   *)
(* can leave some of its bytes behind.                                     *)

Fault(kind) == kind \in Faults /\ faults < MaxFaults /\ faults' = faults + 1

\* What a failing caller is writing: a Put, or the tombstone of a Delete.
Writing(k, v) == v \in Values \/ (v = NoValue /\ k \in deleting)

\* Write returns an error after n bytes (disk full, say).  The record may not
\* reach its end, and writeOffset is not advanced over what did.
WriteFails(k, v, n) ==
  LET r == NewRecord(k, v) IN
  /\ CanWrite /\ Writing(k, v)
  /\ IF n = 0 THEN UNCHANGED faults ELSE n \in TearLens(r) /\ Fault("shortWrite")
  /\ disk' = Landed(r, n)
  /\ activeFileID' = Target(r)
  /\ writeOffset' = BaseOffset(r)
  /\ readFiles' = KeptOpen(r)
  /\ lsn' = IF n = 0 THEN lsn ELSE lsn + 1
  /\ deleting' \in LeftBy(k, v)
  /\ UNCHANGED <<status, keyDir, activeOpen, committed>>

\* rotateActiveFile has closed the active file and cannot open it for reading:
\* the engine goes on with a closed descriptor.
RotateReopenFails(k, v) ==
  /\ CanWrite /\ Writing(k, v) /\ NeedsRotation(NewRecord(k, v))
  /\ Fault("rotateReopen")
  /\ disk' = SyncedActive
  /\ activeOpen' = FALSE
  /\ deleting' \in LeftBy(k, v)
  /\ UNCHANGED <<status, keyDir, activeFileID, writeOffset, readFiles, lsn, committed>>

\* rotateActiveFile has advanced activeFileID and cannot create the file.
RotateCreateFails(k, v) ==
  /\ CanWrite /\ Writing(k, v) /\ NeedsRotation(NewRecord(k, v))
  /\ Fault("rotateCreate")
  /\ disk' = SyncedActive
  /\ activeFileID' = activeFileID + 1
  /\ readFiles' = readFiles \cup {activeFileID}
  /\ activeOpen' = FALSE
  /\ deleting' \in LeftBy(k, v)
  /\ UNCHANGED <<status, keyDir, writeOffset, lsn, committed>>

Crashed ==
  /\ status' = "down"
  /\ activeOpen' = FALSE
  /\ readFiles' = {}
  /\ deleting' = {}
  /\ keyDir' = [k \in Keys |-> NoMeta]
  /\ activeFileID' = 0
  /\ writeOffset' = 0

\* The process dies between two operations; the page cache survives it.
ProcessCrash ==
  /\ status = "open"
  /\ Crashed
  /\ UNCHANGED <<disk, lsn, committed, faults>>

\* The process dies inside writeEntry, n bytes into the record.
CrashInWrite(k, v, n) ==
  LET r == NewRecord(k, v) IN
  /\ CanWrite /\ Writing(k, v)
  /\ IF n = 0 THEN UNCHANGED faults ELSE n \in TearLens(r) /\ Fault("tear")
  /\ disk' = Landed(r, n)
  /\ lsn' = IF n = 0 THEN lsn ELSE lsn + 1
  /\ Crashed
  /\ UNCHANGED committed

\* The lengths at which power loss can leave a file: any, if records can be
\* torn, and the end of a record otherwise.
CutPoints(f) ==
  IF "tear" \in Faults THEN f.synced .. f.size
  ELSE {f.synced, f.size} \cup {n \in f.synced .. f.size : \E g \in f.frags : g.off = n}

\* The machine loses power: what was not synced may be gone.  Clients learn
\* what is stored from the reopened database.
PowerLoss ==
  /\ Fault("powerLoss")
  /\ \E cut \in [DOMAIN disk -> UNION {CutPoints(disk[i]) : i \in DOMAIN disk}] :
       /\ \A i \in DOMAIN disk : cut[i] \in CutPoints(disk[i])
       /\ disk' = [i \in DOMAIN disk |-> Cut(disk[i], cut[i])]
  /\ committed' = Recovered(disk')
  /\ Crashed
  /\ UNCHANGED lsn

--------------------------------------------------------------------------------
(* Reading *)

HasHandle(id) == IF id = activeFileID THEN activeOpen ELSE id \in readFiles

\* The value part of the record g, cut out with the length of the key asked for:
\* the key stored in the record is never looked at.
ValuePart(k, g) ==
  IF g.rec.val # NoValue /\ KeySize[g.rec.key] = KeySize[k] THEN g.rec.val ELSE Garbled

Get(k) ==
  LET m == keyDir[k] IN
  IF m = NoMeta THEN NoValue
  ELSE IF ~ HasHandle(m.file) THEN ReadError
  ELSE IF ReadsWhole(FileAt(disk, m.file), m.off, m.size) = {} THEN ReadError
  ELSE ValuePart(k, CHOOSE g \in ReadsWhole(FileAt(disk, m.file), m.off, m.size) : TRUE)

\* Scan skips what it cannot read.
Scan == {k \in Keys : keyDir[k] # NoMeta /\ Get(k) # ReadError}

--------------------------------------------------------------------------------
Next ==
  \/ Open \/ OpenRefused \/ Close \/ ProcessCrash \/ PowerLoss
  \/ \E k \in Keys, v \in Values : Put(k, v)
  \/ \E k \in Keys : DeleteCheck(k) \/ DeleteWrite(k)
  \/ \E k \in Keys, v \in Values \cup {NoValue} :
       \/ RotateReopenFails(k, v) \/ RotateCreateFails(k, v)
       \/ \E n \in {0} \cup TearLens(NewRecord(k, v)) :
            WriteFails(k, v, n) \/ CrashInWrite(k, v, n)

Spec == Init /\ [][Next]_vars

--------------------------------------------------------------------------------
(* Properties *)

\* An open engine whose log is clean answers every Get with the value clients
\* were told is stored, through rotations, failed writes and restarts (Get,
\* writeEntry); it fails only for a file whose descriptor was lost when a rotation
\* failed.
ServesCommitted ==
  status = "open" /\ CleanLog(disk) =>
    \A k \in Keys :
      \/ Get(k) = committed[k]
      \/ /\ Get(k) = ReadError
         /\ ~ activeOpen /\ keyDir[k].file = activeFileID

\* At any moment, also between the two steps of an operation, stopping the
\* process and opening the directory again gives back exactly what clients were
\* told is stored, as long as no record was written after a torn one
\* (loadFilesAndBuildIndex after writeEntry).
Recoverable ==
  CleanLog(disk) => /\ \A i \in DOMAIN disk : ~ MustRefuse(disk[i]) /\ ~ MayRefuse(disk[i])
                    /\ Recovered(disk) = committed

\* The key directory that writeEntry maintains in memory is the one that
\* loadFilesAndBuildIndex would build from the files.
IndexMatchesLog == status = "open" /\ CleanLog(disk) => keyDir = LoadDir(disk)

\* The scan loop of loadFilesAndBuildIndex finds the records before the first
\* torn one and no others, and fails exactly when MustRefuse says so, on every
\* file the engine can leave behind.
ScanLoopAgrees ==
  \A i \in DOMAIN disk :
    LET f == disk[i] IN
    /\ ScanLoop(f).found = Scanned(f)
    /\ MustRefuse(f) <=> ScanLoop(f).ends = "integrity"
    /\ MayRefuse(f) => ScanLoop(f).ends = "garbage"

\* A torn record hides nothing that was recorded before it: only power loss makes
\* an entry invisible to the next start (the break at a partial write in
\* loadFilesAndBuildIndex).
NothingForgotten == [][~ PowerLoss => Logged(disk) \subseteq Logged(disk')]_vars

\* The engine implements the abstract map, read off the files as a restart would
\* (all operations; only where no record can be torn).
Map == INSTANCE KVStore WITH store <- Recovered(disk)
ImplementsMap == Map!Spec

\* The synced records.
Durable ==
  {s.rec : s \in {t \in Sites(disk) : t.off + Size(t.rec) <= disk[t.file].synced}}

\* The data files implement the abstract log: a write appends, rotation and Close
\* flush, power loss takes a suffix of what was not flushed.
Log == INSTANCE DurableLog WITH
         Records <- [key : Keys, val : Values \cup {NoValue}, lsn : 1 .. MaxLsn],
         log <- Logged(disk), durable <- Durable
ImplementsLog == Log!Spec

--------------------------------------------------------------------------------
(* What the comments and the documentation say and the code does not keep.  *)

\* Whatever a process was doing when it died, a restart finds everything clients
\* were told is stored ("To survive Kubernetes Pod crashes without losing data",
\* theory.md): not once a record is appended behind a torn one.
SurvivesPodCrash ==
  Recovered(disk) = committed /\ \A i \in DOMAIN disk : ~ MustRefuse(disk[i])

\* Every entry of the key directory is on disk ("fsyncing all operations to disk
\* before updating the memory indexes", core.md): writeEntry never syncs.
SyncedBeforeIndexed ==
  status = "open" => \A k \in Keys : keyDir[k] # NoMeta =>
    keyDir[k].off + keyDir[k].size <= FileAt(disk, keyDir[k].file).synced

\* The record Get reads is a record of the key asked for ("Get retrieves a value by
\* key."): after two short writes it can be the record of another key.
OwnRecord ==
  status = "open" => \A k \in Keys : keyDir[k] # NoMeta =>
    \A g \in ReadsWhole(FileAt(disk, keyDir[k].file), keyDir[k].off, keyDir[k].size) :
      g.rec.key = k
================================================================================
