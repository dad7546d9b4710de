------------------------------ MODULE ServerRestore -----------------------------
(***************************************************************************)
(* Which engine the server uses while handleRestore (server.go) replaces   *)
(* it under running requests.  s.db and s.cm are assigned without a lock;  *)
(* the user routes keep the engine InitUserDatabase (auth.go) was given.   *)
(* What the files hold is BitcaskBackup's matter: here the directory has a *)
(* generation, and an engine works on the files it opened.                 *)
(***************************************************************************)
EXTENDS Integers, Sequences

CONSTANTS
  Restores,  \* restore requests, each made at most once
  Requests,  \* other requests, each a Put through s.db
  Overlap,   \* may two restores run at once? (nothing in the code forbids it)
  Failures   \* the calls that can fail, of "close", "extract" and "reload"

ASSUME RestoreFlags == Overlap \in BOOLEAN /\ Failures \subseteq {"close", "extract", "reload"}

VARIABLES
  engines,    \* the engines opened so far: are they open, and on which files
  directory,  \* generation of the data files
  db,         \* Server.db, as a number of an engine
  cm,         \* the engine of Server.cm
  userStore,  \* userStore of auth.go
  restore,    \* per restore: where it is, the engine it opened or read, the call that failed
  request,    \* per request: where it is and the engine it works on
  stale       \* requests acknowledged by an engine whose files were gone (history)

vars == <<engines, directory, db, cm, userStore, restore, request, stale>>

\* InitUserDatabase and NewServer get the same engine.
Init ==
  /\ engines = <<[open |-> TRUE, files |-> 0]>>
  /\ directory = 0
  /\ db = 1 /\ cm = 1 /\ userStore = 1
  /\ restore = [r \in Restores |-> [at |-> "new", engine |-> 0, error |-> "none"]]
  /\ request = [q \in Requests |-> [at |-> "new", engine |-> 0]]
  /\ stale = {}

Restoring == {r \in Restores : restore[r].at \notin {"new", "done"}}
AtRestore(r, at) == restore[r].at = at
Goto(r, at) == restore' = [restore EXCEPT ![r].at = at]
Fail(r, at, call) == restore' = [restore EXCEPT ![r].at = at, ![r].error = call]

--------------------------------------------------------------------------------
(* handleRestore                                                            *)

\* Mutant of Closed: the engine is left open.
ClosedNot(e) == engines

Closed(e) == [engines EXCEPT ![e].open = FALSE]

\* s.db.Close(); closing a closed engine succeeds.
CloseEngine(r) ==
  /\ AtRestore(r, "new") /\ (Overlap \/ Restoring = {})
  /\ engines' = Closed(db)
  /\ Goto(r, "closed")
  /\ UNCHANGED <<directory, db, cm, userStore, request, stale>>

\* Close marks the engine closed and then fails to sync or to close a file, as it does
\* on the descriptor a failed rotation or Compact has lost: the request is answered
\* and ends there.
CloseFails(r) ==
  /\ AtRestore(r, "new") /\ (Overlap \/ Restoring = {})
  /\ "close" \in Failures /\ engines[db].open
  /\ engines' = Closed(db)
  /\ Fail(r, "done", "close")
  /\ UNCHANGED <<directory, db, cm, userStore, request, stale>>

\* RestoreBackupZip replaces the files, or fails before or after it has.
ReplaceFiles(r) ==
  /\ AtRestore(r, "closed")
  /\ \/ directory' = directory + 1 /\ Goto(r, "replaced")
     \/ /\ "extract" \in Failures /\ directory' \in {directory, directory + 1}
        /\ Fail(r, "replaced", "extract")
  /\ UNCHANGED <<engines, db, cm, userStore, request, stale>>

\* NewEngine opens the files that are there now.
OpenEngine(r) ==
  /\ AtRestore(r, "replaced")
  /\ engines' = Append(engines, [open |-> TRUE, files |-> directory])
  /\ restore' = [restore EXCEPT ![r].at = "opened", ![r].engine = Len(engines')]
  /\ UNCHANGED <<directory, db, cm, userStore, request, stale>>

\* NewEngine fails: the request ends and the closed engine stays in place.
OpenFails(r) ==
  /\ AtRestore(r, "replaced") /\ "reload" \in Failures
  /\ Fail(r, "done", "reload")
  /\ UNCHANGED <<engines, directory, db, cm, userStore, request, stale>>

\* Mutant of AssignDB: on an error the new engine is dropped.
AssignDBIfOk(r) ==
  /\ AtRestore(r, "opened")
  /\ db' = IF restore[r].error = "none" THEN restore[r].engine ELSE db
  /\ Goto(r, "assigned")
  /\ UNCHANGED <<engines, directory, cm, userStore, request, stale>>

\* s.db = dbEngine, also after a failed extraction.
AssignDB(r) ==
  /\ AtRestore(r, "opened")
  /\ db' = restore[r].engine
  /\ Goto(r, "assigned")
  /\ UNCHANGED <<engines, directory, cm, userStore, request, stale>>

\* document.NewCollectionManager(s.db) reads s.db again ...
ReadDB(r) ==
  /\ AtRestore(r, "assigned")
  /\ restore' = [restore EXCEPT ![r].at = "read", ![r].engine = db]
  /\ UNCHANGED <<engines, directory, db, cm, userStore, request, stale>>

\* Mutant of AssignCM: the old collection manager is kept.
AssignCMNot(r) ==
  /\ AtRestore(r, "read")
  /\ Goto(r, "done")
  /\ UNCHANGED <<engines, directory, db, cm, userStore, request, stale>>

\* ... and s.cm is assigned; the request answers.
AssignCM(r) ==
  /\ AtRestore(r, "read")
  /\ cm' = restore[r].engine
  /\ Goto(r, "done")
  /\ UNCHANGED <<engines, directory, db, userStore, request, stale>>

RestoreStep(r) ==
  \/ ReplaceFiles(r) \/ OpenEngine(r) \/ OpenFails(r)
  \/ AssignDB(r) \/ ReadDB(r) \/ AssignCM(r)

--------------------------------------------------------------------------------
(* A request that writes: handlePutKV and its like.                         *)

\* The handler evaluates s.db.
ReadEngine(q) ==
  /\ request[q].at = "new"
  /\ request' = [request EXCEPT ![q] = [at |-> "working", engine |-> db]]
  /\ UNCHANGED <<engines, directory, db, cm, userStore, restore, stale>>

\* Put answers with success on an open engine, and with an error on a closed one.
PutAnswers(q) ==
  LET e == engines[request[q].engine] IN
  /\ request[q].at = "working"
  /\ request' = [request EXCEPT ![q].at = IF e.open THEN "acked" ELSE "refused"]
  /\ stale' = IF e.open /\ e.files # directory THEN stale \cup {q} ELSE stale
  /\ UNCHANGED <<engines, directory, db, cm, userStore, restore>>

Next ==
  \/ \E r \in Restores : CloseEngine(r) \/ CloseFails(r) \/ RestoreStep(r)
  \/ \E q \in Requests : ReadEngine(q) \/ PutAnswers(q)

Spec == Init /\ [][Next]_vars

\* A goroutine that can run runs.
Fairness == \A r \in Restores : WF_vars(RestoreStep(r))

FairSpec == Spec /\ Fairness

--------------------------------------------------------------------------------
(* Properties.                                                              *)

TypeOK ==
  /\ {db, cm, userStore} \subseteq DOMAIN engines
  /\ \A e \in DOMAIN engines : engines[e].files \in 0 .. directory
  /\ \A r \in Restores : restore[r].at \in {"opened", "read"} => restore[r].engine \in DOMAIN engines
  /\ \A q \in Requests : request[q].at = "working" => request[q].engine \in DOMAIN engines

\* No write is acknowledged by an engine whose files a restore has removed, also when
\* the handler took s.db before the restore began: the old engine is closed before
\* its files go, and a closed engine refuses (handleRestore, one restore at a time).
NoStaleAck == stale = {}

\* When no restore is running the engine served is open on the files in the
\* directory, unless its reload failed, and documents go to the same engine.
ServedEngineIsCurrent ==
  Restoring = {} => /\ engines[db].open => engines[db].files = directory
                    /\ cm = db

\* A restore whose Close succeeded ends, and then an open engine is in place, also when
\* the archive could not be extracted (the error path of handleRestore opens what is
\* left of the directory); unless NewEngine failed.
RestoreEndsServing ==
  \A r \in Restores :
    r \in Restoring ~> AtRestore(r, "done") /\ (engines[db].open \/ restore[r].error = "reload")

--------------------------------------------------------------------------------
(* What the code says and does not keep.                                    *)

\* After a restore that answered "database state restored successfully" users are
\* looked up in the restored store: userStore keeps the closed engine.
UsersAreRestored ==
  Restoring = {} => \A r \in Restores :
    restore[r].at = "done" /\ restore[r].error = "none" => engines[userStore].open

\* A restore that has not touched the files leaves them served: where Close failed the
\* handler keeps the engine it has closed, and nobody opens those files again until a
\* later restore ends.
RefusedRestoreServes ==
  Restoring = {} /\ directory = 0 => engines[db].open

\* After restores that both answered with success the data served is the data on
\* disk ("hot-reload restore executed successfully"): two at once can leave an
\* engine in place whose files are gone.
ServedAfterOverlap ==
  Restoring = {} => engines[db].open /\ engines[db].files = directory
================================================================================
