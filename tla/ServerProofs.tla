------------------------------ MODULE ServerProofs ------------------------------
(* Proofs about ServerRestore for any number of restores and requests, as   *)
(* long as no two restores run at once; and, by the proofs of the other two *)
(* modules, about what MCServer puts together.                              *)
EXTENDS MCServer, SequenceTheorems, TLAPS

Engine == [open : BOOLEAN, files : Nat]
RestoreAt == {"new", "closed", "replaced", "opened", "assigned", "read", "done"}
RestoreErrors == {"none", "close", "extract", "reload"}
RequestAt == {"new", "working", "acked", "refused"}

Types ==
  /\ engines \in Seq(Engine)
  /\ directory \in Nat
  /\ restore \in [Restores -> [at : RestoreAt, engine : Nat, error : RestoreErrors]]
  /\ request \in [Requests -> [at : RequestAt, engine : Nat]]

\* One restore at a time.
Alone == \A r, s \in Restoring : r = s

\* Only the engine in place can be open, and none while the files are replaced; the
\* engine a restore has opened is not yet in place.
OnlyOpen ==
  \A e \in DOMAIN engines : engines[e].open =>
    /\ engines[e].files = directory
    /\ \A r \in Restores :
         /\ restore[r].at \notin {"closed", "replaced"}
         /\ restore[r].at = "opened" => e = restore[r].engine
    /\ e = db \/ \E r \in Restores : restore[r].at = "opened"

\* Requests and restores work on engines that exist; the last restore to read s.db
\* reads what is there when it ends.
IInv ==
  /\ Types /\ TypeOK /\ Alone /\ OnlyOpen
  /\ \A r \in Restores : restore[r].at = "read" => restore[r].engine = db
  /\ (\A r \in Restores : restore[r].at \notin {"assigned", "read"}) => cm = db
  /\ stale = {}

\* The engine of NewServer is open on the directory it was opened on.
LEMMA InitIInv == Init => IInv
<1> SUFFICES ASSUME Init PROVE IInv
  OBVIOUS
<1>1. Types /\ TypeOK
  BY DEF Init, Types, TypeOK, Engine, RestoreAt, RestoreErrors, RequestAt
<1>2. Alone /\ OnlyOpen
  BY DEF Init, Alone, OnlyOpen, Restoring
<1> QED
  BY <1>1, <1>2 DEF Init, IInv

\* A restore step keeps the invariant: the engine in place is closed before its files
\* go, and another is opened on what replaced them (handleRestore).
LEMMA RestoreKeepsIInv ==
  ASSUME Overlap = FALSE, IInv, NEW r \in Restores,
         CloseEngine(r) \/ CloseFails(r) \/ RestoreStep(r)
  PROVE  IInv'
<1> USE DEF AtRestore, Goto, RestoreAt
<1>0. /\ Types /\ TypeOK /\ Alone /\ OnlyOpen /\ stale = {}
      /\ db \in DOMAIN engines /\ DOMAIN engines = 1 .. Len(engines)
      /\ \A s \in Restores : restore[s].at = "read" => restore[s].engine = db
      /\ (\A s \in Restores : restore[s].at \notin {"assigned", "read"}) => cm = db
  BY DEF IInv, Types, TypeOK
<1>1. \A s \in Restores \ {r} : restore'[s] = restore[s]
  BY <1>0 DEF CloseEngine, CloseFails, RestoreStep, ReplaceFiles, OpenEngine, OpenFails, AssignDB,
             ReadDB, AssignCM, Fail, Types
<1>2. \A s \in Restores \ {r} : restore[s].at \in {"new", "done"}
  BY <1>0 DEF Alone, Restoring, CloseEngine, CloseFails, RestoreStep, ReplaceFiles, OpenEngine,
             OpenFails, AssignDB, ReadDB, AssignCM, Fail, Types
<1>3. Alone'
  BY <1>1, <1>2 DEF Alone, Restoring
<1>4. CASE CloseEngine(r) \/ CloseFails(r)
  <2>0. /\ engines \in [1 .. Len(engines) -> Engine]
        /\ engines' = [engines EXCEPT ![db].open = FALSE]
        /\ UNCHANGED <<directory, db, cm, userStore, request, stale>>
        /\ restore[r].at = "new"
    BY <1>0, <1>4 DEF CloseEngine, CloseFails, Closed, Types
  <2>1. \A e \in DOMAIN engines : ~ engines'[e].open /\ engines'[e].files = engines[e].files
    <3>1. \A e \in DOMAIN engines : engines[e].open => e = db
      BY <1>0, <1>2, <2>0 DEF OnlyOpen
    <3> QED
      BY <3>1, <2>0, <1>0 DEF Engine
  <2>2. /\ DOMAIN engines' = DOMAIN engines
        /\ engines' \in Seq(Engine)
    <3>1. engines' = [engines EXCEPT ![db] = [engines[db] EXCEPT !.open = FALSE]]
      BY <2>0
    <3>2. [engines[db] EXCEPT !.open = FALSE] \in Engine
      BY <2>0, <1>0 DEF Engine
    <3> QED
      BY <3>1, <3>2, <1>0, ExceptSeq DEF Types
  <2>3. /\ restore'[r].at \in {"closed", "done"}
        /\ restore' \in [Restores -> [at : RestoreAt, engine : Nat, error : RestoreErrors]]
    <3>1. CASE restore' = [restore EXCEPT ![r].at = "closed"]
      BY <3>1, <1>0 DEF Types
    <3>2. CASE restore' = [restore EXCEPT ![r].at = "done", ![r].error = "close"]
      BY ZenonT(40), <3>2, <1>0 DEF Types, RestoreErrors
    <3> QED
      BY <3>1, <3>2, <1>4 DEF CloseEngine, CloseFails, Fail
  <2>4. Types' /\ TypeOK'
    <3>1. Types'
      BY <1>0, <2>0, <2>1, <2>2, <2>3 DEF Types
    <3>2. TypeOK'
      <4>1. \A e \in DOMAIN engines' : engines'[e].files \in 0 .. directory'
        BY <1>0, <2>0, <2>1, <2>2 DEF TypeOK
      <4>2. \A s \in Restores : restore'[s].at \in {"opened", "read"} =>
              restore'[s].engine \in DOMAIN engines'
        BY <1>0, <1>1, <1>2, <2>3
      <4> QED
        BY <1>0, <2>0, <2>2, <4>1, <4>2 DEF TypeOK
    <3> QED
      BY <3>1, <3>2
  <2>5. OnlyOpen'
    BY <2>1, <2>2 DEF OnlyOpen
  <2> QED
    BY <1>0, <1>1, <1>2, <1>3, <2>0, <2>3, <2>4, <2>5 DEF IInv
<1>5. CASE ReplaceFiles(r)
  <2>1. \A e \in DOMAIN engines : ~ engines[e].open
    BY <1>0, <1>5 DEF ReplaceFiles, OnlyOpen
  <2>2. /\ directory' \in {directory, directory + 1}
        /\ restore'[r].at = "replaced"
        /\ restore' \in [Restores -> [at : RestoreAt, engine : Nat, error : RestoreErrors]]
    <3>1. CASE directory' = directory + 1 /\ restore' = [restore EXCEPT ![r].at = "replaced"]
      BY <3>1, <1>0 DEF Types
    <3>2. CASE /\ directory' \in {directory, directory + 1}
               /\ restore' = [restore EXCEPT ![r].at = "replaced", ![r].error = "extract"]
      BY ZenonT(40), <3>2, <1>0 DEF Types, RestoreErrors
    <3> QED
      BY <3>1, <3>2, <1>5 DEF ReplaceFiles, Fail
  <2>3. Types' /\ TypeOK'
    <3>1. Types'
      BY <1>0, <1>1, <1>5, <2>2 DEF ReplaceFiles, Types
    <3>2. TypeOK'
      <4>1. \A e \in DOMAIN engines : engines[e].files \in 0 .. directory'
        BY <1>0, <2>2 DEF Types, TypeOK
      <4>2. \A s \in Restores : restore'[s].at \in {"opened", "read"} =>
              restore'[s].engine \in DOMAIN engines
        BY <1>0, <1>1, <2>2 DEF TypeOK
      <4> QED
        BY <1>0, <1>5, <4>1, <4>2 DEF ReplaceFiles, TypeOK
    <3> QED
      BY <3>1, <3>2
  <2>4. OnlyOpen'
    BY <2>1, <1>5 DEF OnlyOpen, ReplaceFiles
  <2> QED
    BY <1>0, <1>1, <1>2, <1>3, <1>5, <2>2, <2>3, <2>4 DEF IInv, ReplaceFiles
<1>6. CASE OpenEngine(r)
  <2>1. /\ Len(engines') = Len(engines) + 1
        /\ engines' \in Seq(Engine)
        /\ engines'[Len(engines')] = [open |-> TRUE, files |-> directory]
        /\ \A e \in DOMAIN engines : engines'[e] = engines[e] /\ ~ engines[e].open
        /\ DOMAIN engines' = DOMAIN engines \cup {Len(engines')}
    <3> DEFINE new == [open |-> TRUE, files |-> directory]
    <3>1. new \in Engine /\ engines' = Append(engines, new)
      BY <1>0, <1>6 DEF OpenEngine, Types, Engine
    <3>2. \A e \in DOMAIN engines : ~ engines[e].open
      BY <1>0, <1>6 DEF OpenEngine, OnlyOpen
    <3>3. DOMAIN engines' = 1 .. Len(engines')
      BY <3>1, <1>0, AppendProperties DEF Types
    <3> HIDE DEF new
    <3> QED
      BY <3>1, <3>2, <3>3, <1>0, AppendProperties DEF Types, new
  <2>2. restore'[r].at = "opened" /\ restore'[r].engine = Len(engines')
    BY <1>0, <1>6 DEF OpenEngine, Types
  <2>3. Types' /\ TypeOK'
    <3>1. Types'
      <4>1. Len(engines') \in Nat
        BY <2>1
      <4>2. restore' = [restore EXCEPT ![r].at = "opened", ![r].engine = Len(engines')]
        BY <1>6 DEF OpenEngine
      <4>3. restore' \in [Restores -> [at : RestoreAt, engine : Nat, error : RestoreErrors]]
        BY ZenonT(40), <4>1, <4>2, <1>0 DEF Types
      <4> QED
        BY <1>0, <1>6, <2>1, <4>3 DEF OpenEngine, Types
    <3>2. TypeOK'
      BY SMTT(30), <1>0, <1>1, <1>6, <2>1, <2>2, <3>1 DEF OpenEngine, Types, TypeOK, Engine
    <3> QED
      BY <3>1, <3>2
  <2>4. OnlyOpen'
    <3>1. \A s \in Restores : restore'[s].at \notin {"closed", "replaced"}
      BY <1>1, <1>2, <2>2
    <3>2. \A s \in Restores : restore'[s].at = "opened" => s = r
      BY <1>1, <1>2
    <3>3. ASSUME NEW e \in DOMAIN engines', engines'[e].open
          PROVE  e = Len(engines') /\ engines'[e].files = directory'
      BY <3>3, <2>1, <1>6 DEF OpenEngine
    <3> QED
      BY <3>1, <3>2, <3>3, <2>2 DEF OnlyOpen
  <2> QED
    BY <1>0, <1>1, <1>2, <1>3, <1>6, <2>2, <2>3, <2>4 DEF IInv, OpenEngine
<1>7. CASE OpenFails(r)
  <2>1. restore'[r].at = "done"
    BY <1>0, <1>7 DEF OpenFails, Fail, Types
  <2>2. Types' /\ TypeOK'
    <3>1. Types'
      BY ZenonT(40), <1>0, <1>1, <1>7, <2>1 DEF OpenFails, Fail, Types, RestoreErrors
    <3>2. TypeOK'
      BY <1>0, <1>1, <1>7, <2>1, <3>1 DEF OpenFails, Fail, Types, TypeOK, Engine
    <3> QED
      BY <3>1, <3>2
  <2>3. OnlyOpen'
    BY <1>0, <1>1, <1>7, <2>1 DEF OnlyOpen, OpenFails, Fail
  <2> QED
    BY <1>0, <1>1, <1>2, <1>3, <1>7, <2>1, <2>2, <2>3 DEF IInv, OpenFails
<1>8. CASE AssignDB(r)
  <2>1. restore'[r].at = "assigned" /\ db' = restore[r].engine /\ restore[r].at = "opened"
    BY <1>0, <1>8 DEF AssignDB, Types
  <2>2. Types' /\ TypeOK'
    <3>1. Types'
      BY SMTT(30), <1>0, <1>1, <1>8, <2>1 DEF AssignDB, Types
    <3>2. TypeOK'
      BY <1>0, <1>1, <1>8, <2>1, <3>1 DEF AssignDB, Types, TypeOK, Engine
    <3> QED
      BY <3>1, <3>2
  <2>3. OnlyOpen'
    BY <1>0, <1>1, <1>2, <1>8, <2>1 DEF OnlyOpen, AssignDB
  <2> QED
    BY <1>0, <1>1, <1>2, <1>3, <1>8, <2>1, <2>2, <2>3 DEF IInv, AssignDB
<1>9. CASE ReadDB(r)
  <2>1. restore'[r].at = "read" /\ restore'[r].engine = db /\ restore[r].at = "assigned"
    BY <1>0, <1>9 DEF ReadDB, Types
  <2>2. Types' /\ TypeOK'
    <3>1. Types'
      <4>1. db \in Nat
        BY <1>0
      <4> QED
        BY ZenonT(40), <1>0, <1>9, <4>1 DEF ReadDB, Types
    <3>2. TypeOK'
      BY <1>0, <1>1, <1>9, <2>1, <3>1 DEF ReadDB, Types, TypeOK, Engine
    <3> QED
      BY <3>1, <3>2
  <2>3. OnlyOpen'
    BY ZenonT(40), <1>0, <1>1, <1>2, <1>9, <2>1 DEF OnlyOpen, ReadDB
  <2> QED
    BY <1>0, <1>1, <1>2, <1>3, <1>9, <2>1, <2>2, <2>3 DEF IInv, ReadDB
<1>10. CASE AssignCM(r)
  <2>1. restore'[r].at = "done" /\ cm' = db /\ restore[r].at = "read"
    BY <1>0, <1>10 DEF AssignCM, Types
  <2>2. Types' /\ TypeOK'
    <3>1. Types'
      BY <1>0, <1>1, <1>10, <2>1 DEF AssignCM, Types
    <3>2. TypeOK'
      BY <1>0, <1>1, <1>10, <2>1, <3>1 DEF AssignCM, Types, TypeOK, Engine
    <3> QED
      BY <3>1, <3>2
  <2>3. OnlyOpen'
    BY <1>0, <1>1, <1>2, <1>10, <2>1 DEF OnlyOpen, AssignCM
  <2> QED
    BY <1>0, <1>1, <1>2, <1>3, <1>10, <2>1, <2>2, <2>3 DEF IInv, AssignCM
<1> QED
  BY <1>4, <1>5, <1>6, <1>7, <1>8, <1>9, <1>10 DEF RestoreStep

\* A request that still holds an engine from before a restore finds it closed
\* (handlePutKV).
LEMMA RequestKeepsIInv ==
  ASSUME IInv, NEW q \in Requests, ReadEngine(q) \/ PutAnswers(q)
  PROVE  IInv'
<1> USE DEF RequestAt
<1>1. /\ Types /\ TypeOK /\ OnlyOpen /\ stale = {} /\ db \in DOMAIN engines
      /\ DOMAIN engines \subseteq Nat
  BY DEF IInv, Types, TypeOK
<1>2. CASE ReadEngine(q)
  <2>1. Types' /\ TypeOK'
    <3>1. Types'
      BY <1>1, <1>2 DEF ReadEngine, Types
    <3>2. TypeOK'
      BY <1>1, <1>2, <3>1 DEF ReadEngine, Types, TypeOK, Engine
    <3> QED
      BY <3>1, <3>2
  <2> QED
    BY <1>2, <2>1 DEF IInv, ReadEngine, Alone, Restoring, OnlyOpen
<1>3. CASE PutAnswers(q)
  <2>1. engines[request[q].engine].open => engines[request[q].engine].files = directory
    BY <1>1, <1>3 DEF PutAnswers, OnlyOpen, TypeOK
  <2>2. stale' = {}
    BY <1>1, <1>3, <2>1 DEF PutAnswers
  <2>3. Types' /\ TypeOK'
    <3>1. Types'
      BY <1>1, <1>3 DEF PutAnswers, Types
    <3>2. TypeOK'
      BY <1>1, <1>3, <3>1 DEF PutAnswers, Types, TypeOK, Engine
    <3> QED
      BY <3>1, <3>2
  <2> QED
    BY <1>3, <2>2, <2>3 DEF IInv, PutAnswers, Alone, Restoring, OnlyOpen
<1> QED
  BY <1>2, <1>3

\* The invariant holds while restores come one at a time.
THEOREM RestoreInvariant == Overlap = FALSE => (Spec => []IInv)
<1> SUFFICES ASSUME Overlap = FALSE PROVE Spec => []IInv
  OBVIOUS
<1>1. IInv /\ [Next]_vars => IInv'
  <2> SUFFICES ASSUME IInv, [Next]_vars PROVE IInv'
    OBVIOUS
  <2>1. CASE \E r \in Restores : CloseEngine(r) \/ CloseFails(r) \/ RestoreStep(r)
    BY <2>1, RestoreKeepsIInv
  <2>2. CASE \E q \in Requests : ReadEngine(q) \/ PutAnswers(q)
    BY <2>2, RequestKeepsIInv
  <2>3. CASE UNCHANGED vars
    BY <2>3 DEF vars, IInv, Types, TypeOK, Alone, Restoring, OnlyOpen
  <2> QED
    BY <2>1, <2>2, <2>3 DEF Next
<1> QED
  BY <1>1, InitIInv, PTL DEF Spec

\* No write is acknowledged by an engine whose files a restore has replaced, whatever
\* engine its handler took and whenever (handleRestore, handlePutKV).
THEOREM NoStaleAckHolds == Overlap = FALSE => (Spec => []NoStaleAck)
<1>1. IInv => NoStaleAck
  BY DEF IInv, NoStaleAck
<1> QED
  BY <1>1, RestoreInvariant, PTL

\* Between restores the engine in place, if it is open, is open on the files in the
\* directory, and documents go to the same engine (handleRestore).
THEOREM ServedEngineHolds == Overlap = FALSE => (Spec => []ServedEngineIsCurrent)
<1>1. IInv => ServedEngineIsCurrent
  <2> SUFFICES ASSUME IInv, Restoring = {} PROVE ServedEngineIsCurrent
    BY DEF ServedEngineIsCurrent
  <2>1. \A r \in Restores : restore[r].at \in {"new", "done"}
    BY DEF Restoring
  <2> QED
    BY <2>1 DEF IInv, OnlyOpen, TypeOK, ServedEngineIsCurrent
<1> QED
  BY <1>1, RestoreInvariant, PTL

--------------------------------------------------------------------------------
(* The server: each part behaves as its module says, whatever its subject.  *)

TxP == INSTANCE TransactionsProofs
SessP == INSTANCE SessionsProofs WITH Requests <- Clients

\* The restores of the server are restores.
LEMMA ServerRestores == ServerSpec => Spec
<1>1. ServerInit => Init
  BY DEF ServerInit
<1>2. [ServerNext]_<<subject, vars, txVars, sessVars>> => [Next]_vars
  BY DEF ServerNext
<1> QED
  BY <1>1, <1>2, PTL DEF ServerSpec, ServerSafety, Spec

\* The transactions of the server are transactions.
LEMMA ServerCommits == ServerSpec => TxP!Spec
<1>1. ServerInit => TxP!Init
  BY DEF ServerInit, Tx!Init, TxP!Init, Tx!Engine!Init, TxP!Engine!Init
<1>2. Tx!Next => TxP!Next
  BY DEF Tx!Next, TxP!Next, Tx!Begin, TxP!Begin, Tx!Get, TxP!Get, Tx!Put, TxP!Put,
         Tx!CommitReadOnly, TxP!CommitReadOnly, Tx!CommitBegin, TxP!CommitBegin,
         Tx!CommitStep, TxP!CommitStep, Tx!CommitWrite, TxP!CommitWrite,
         Tx!CommitWriteFails, TxP!CommitWriteFails, Tx!CommitEnd, TxP!CommitEnd,
         Tx!Rollback, TxP!Rollback, Tx!Crash, TxP!Crash, Tx!Free, TxP!Free,
         Tx!Written, TxP!Written, Tx!Applied, TxP!Applied, Tx!CountOp, TxP!CountOp,
         Tx!Usable, TxP!Usable, Tx!CountEnd, TxP!CountEnd, Tx!ReadValue, TxP!ReadValue, Tx!history, TxP!history,
         Tx!Engine!Put, TxP!Engine!Put, Tx!Engine!Delete, TxP!Engine!Delete
<1>3. [ServerNext]_<<subject, vars, txVars, sessVars>> => [TxP!Next]_TxP!vars
  BY <1>2 DEF ServerNext, txVars, TxP!vars, TxP!history
<1> QED
  BY <1>1, <1>3, PTL DEF ServerSpec, ServerSafety, TxP!Spec

\* The sessions of the server are sessions.
LEMMA ServerSessions == ServerSpec => SessP!Spec
<1>1. ServerInit => SessP!Init
  BY DEF ServerInit, Sess!Init, SessP!Init, Sess!DefaultRole, SessP!DefaultRole,
         Sess!NewRequest, SessP!NewRequest
<1>2. ASSUME NEW r \in Clients, Sess!Begin(r) PROVE SessP!Begin(r)
  BY <1>2
     DEF Sess!Begin, SessP!Begin, Sess!LoginLookup, SessP!LoginLookup, Sess!LoginRefused,
         SessP!LoginRefused, Sess!RegisterLook, SessP!RegisterLook, Sess!Admit, SessP!Admit,
         Sess!Reject, SessP!Reject, Sess!At, SessP!At, Sess!Refuse, SessP!Refuse, Sess!NewRequest,
         SessP!NewRequest, Sess!CanRead, SessP!CanRead, Sess!Kinds, SessP!Kinds, Sess!store,
         SessP!store, Sess!audit, SessP!audit, Sess!Delivered, SessP!Delivered, Sess!LoggedOut,
         SessP!LoggedOut, Sess!Standing, SessP!Standing, Sess!MockRole, SessP!MockRole,
         Sess!DefaultRole, SessP!DefaultRole
<1>3. ASSUME NEW r \in Clients, Sess!Step(r) PROVE SessP!Step(r)
  BY <1>3
     DEF Sess!Step, SessP!Step, Sess!LoginAdd, SessP!LoginAdd, Sess!LogoutFind, SessP!LogoutFind,
         Sess!LogoutDelete, SessP!LogoutDelete, Sess!AuditLock, SessP!AuditLock, Sess!AuditAppend,
         SessP!AuditAppend, Sess!ViewCheck, SessP!ViewCheck, Sess!ViewLock, SessP!ViewLock,
         Sess!ViewAnswer, SessP!ViewAnswer, Sess!PutKV, SessP!PutKV, Sess!UserCheck,
         SessP!UserCheck, Sess!UserStoreFails, SessP!UserStoreFails, Sess!RegisterPut,
         SessP!RegisterPut, Sess!DeleteUser, SessP!DeleteUser, Sess!CreateUser, SessP!CreateUser,
         Sess!Admitted, SessP!Admitted, Sess!At, SessP!At, Sess!Goto, SessP!Goto, Sess!Answer,
         SessP!Answer, Sess!Refuse, SessP!Refuse, Sess!NewRequest, SessP!NewRequest, Sess!CanRead,
         SessP!CanRead, Sess!IsAdmin, SessP!IsAdmin, Sess!HeaderToken, SessP!HeaderToken,
         Sess!RoleOf, SessP!RoleOf, Sess!MockRole, SessP!MockRole, Sess!Roles, SessP!Roles,
         Sess!Trimmed, SessP!Trimmed, Sess!store, SessP!store, Sess!audit, SessP!audit
<1>4. [ServerNext]_<<subject, vars, txVars, sessVars>> => [SessP!Next]_SessP!vars
  BY <1>2, <1>3 DEF ServerNext, sessVars, SessP!vars, Sess!Next, SessP!Next
<1> QED
  BY <1>1, <1>4, PTL DEF ServerSpec, ServerSafety, SessP!Spec

\* In the server too, restores that come one at a time let nobody write to an engine
\* whose files are gone.
THEOREM ServerNoStaleAck == Overlap = FALSE => (ServerSpec => []NoStaleAck)
BY ServerRestores, NoStaleAckHolds

\* Commits do not mix: between them the store holds the finished ones, one after the
\* other (tx.go: Commit).
THEOREM ServerStoreIsSerial == ServerSpec => []StoreIsSerial
<1>1. TxP!StoreIsSerial => StoreIsSerial
  BY DEF StoreIsSerial, Tx!StoreIsSerial, TxP!StoreIsSerial, Tx!Free, TxP!Free
<1> QED
  BY <1>1, ServerCommits, TxP!TxStoreIsSerial, PTL

\* A commit in progress has written a part of its own write set (tx.go: Commit).
THEOREM ServerCommitIsPartOfOne == ServerSpec => []CommitIsPartOfOne
<1>1. TxP!CommitIsPartOfOne => CommitIsPartOfOne
  BY DEF CommitIsPartOfOne, Tx!CommitIsPartOfOne, TxP!CommitIsPartOfOne, Tx!Written, TxP!Written
<1> QED
  BY <1>1, ServerCommits, TxP!TxCommitIsPartOfOne, PTL

\* The audit log tells the life of every session (auth.go: handleLogin, handleLogout;
\* audit.go: LogAuditEvent).
THEOREM ServerSessionsAreAudited == ServerSpec => []SessionsAreAudited
<1>1. SessP!SessionsAreAudited => SessionsAreAudited
  BY DEF SessionsAreAudited, Sess!SessionsAreAudited, SessP!SessionsAreAudited,
         Sess!Said, SessP!Said, Sess!Delivered, SessP!Delivered, Sess!At, SessP!At
<1>2. SessP!SessionsAssumption
  BY ServerAssumption DEF Sess!SessionsAssumption, SessP!SessionsAssumption, Sess!Kinds, SessP!Kinds
<1> QED
  BY <1>1, <1>2, ServerSessions, SessP!AuditOfSessions, PTL

\* Nobody who begins after a logout by the header was answered is served with its token (auth.go:
\* handleLogout; server.go: authMiddleware).
THEOREM ServerLoggedOutIsRefused == ServerSpec => []LoggedOutIsRefused
<1>1. SessP!LoggedOutIsRefused => LoggedOutIsRefused
  BY DEF LoggedOutIsRefused, Sess!LoggedOutIsRefused, SessP!LoggedOutIsRefused
<1>2. SessP!SessionsAssumption
  BY ServerAssumption DEF Sess!SessionsAssumption, SessP!SessionsAssumption, Sess!Kinds, SessP!Kinds
<1> QED
  BY <1>1, <1>2, ServerSessions, SessP!RefusedAfterLogout, PTL
================================================================================
