--------------------------------- MODULE MCServer -------------------------------
(***************************************************************************)
(* What runs in the server beside an engine: restores, transactions, and   *)
(* users with their sessions.  They share no state that is modelled, so a  *)
(* behaviour exercises one of them, its subject.                           *)
(***************************************************************************)
EXTENDS ServerRestore

\* Transactions
CONSTANTS Txs, Keys, Values, NoValue, Unwritten, Unread, MaxOps, MaxFaults
VARIABLES store, at, writable, writeSet, toApply, activeTx, lockedBy,
          first, expected, failed, ops, faults

txVars == <<store, at, writable, writeSet, toApply, activeTx, lockedBy,
            first, expected, failed, ops, faults>>

Tx == INSTANCE Transactions

\* Sessions
CONSTANTS Clients, Users, DefaultUsers, Owner, Dba, GlobalToken, MaxAudit, None
VARIABLES users, sessions, sessMu, auditLogs, auditWriter, auditReaders, req, events

sessVars == <<users, sessions, sessMu, auditLogs, auditWriter, auditReaders, req, events>>

Sess == INSTANCE Sessions WITH Requests <- Clients

ASSUME ServerAssumption ==
  /\ Tx!TxBoundsAssumption /\ Tx!TxValuesAssumption
  /\ Sess!SessionsAssumption

VARIABLE subject

ServerInit ==
  /\ subject \in {"restore", "tx", "sessions"}
  /\ Init /\ Tx!Init /\ Sess!Init

ServerNext ==
  /\ UNCHANGED subject
  /\ IF subject = "restore" THEN Next ELSE UNCHANGED vars
  /\ IF subject = "tx" THEN Tx!Next ELSE UNCHANGED txVars
  /\ IF subject = "sessions" THEN Sess!Next ELSE UNCHANGED sessVars

ServerSafety == ServerInit /\ [][ServerNext]_<<subject, vars, txVars, sessVars>>

\* The fairness of the three modules; only the subject ever takes a step.
ServerFairness ==
  /\ \A r \in Restores : WF_vars(subject = "restore" /\ RestoreStep(r))
  /\ \A t \in Txs : /\ WF_txVars(subject = "tx" /\ Tx!CommitStep(t))
                     /\ WF_txVars(subject = "tx" /\ Tx!End(t))
  /\ \A r \in Clients : WF_sessVars(subject = "sessions" /\ Sess!Step(r))

ServerSpec == ServerSafety /\ ServerFairness

\* Commit: write sets are applied one after the other.
StoreIsSerial == Tx!StoreIsSerial

\* Commit: a commit in progress has written a part of its own write set.
CommitIsPartOfOne == Tx!CommitIsPartOfOne

\* Commit, Rollback: nobody waits for ever for the manager's lock.
EveryTxEnds == Tx!EveryTxEnds

\* handleLogin, handleLogout: the audit log tells the life of every session.
SessionsAreAudited == Sess!SessionsAreAudited

\* handleLogout: its answer ends a session whose token came in the header.
LoggedOutIsRefused == Sess!LoggedOutIsRefused

\* sessMu, auditLogsMu: every request is answered.
EveryRequestEnds == Sess!EveryRequestEnds
================================================================================
