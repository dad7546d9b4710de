------------------------------ MODULE Transactions -----------------------------
(***************************************************************************)
(* internal/core/tx.go: transactions over a storage engine.  Begin, Commit *)
(* and Rollback take the manager's lock, Get and Put do not; Commit calls  *)
(* the engine once per key of the write set, in the order of a Go map,     *)
(* with the lock held.  Each engine call is atomic (KVStore).  Nothing     *)
(* tells a finished transaction from an open one: it can be read, written, *)
(* committed and rolled back again.                                        *)
(***************************************************************************)
EXTENDS Integers, FiniteSets

CONSTANTS
  Txs,       \* transactions, each begun at most once
  Keys,
  Values,
  NoValue,   \* nil: no such key, or a deletion in a write set
  Unwritten, \* the write set does not have the key
  Unread,
  MaxOps,    \* bound: Gets, Puts and repeated ends of one transaction
  MaxFaults  \* bound: crashes and failing engine calls

TxBoundsAssumption == MaxOps \in Nat /\ MaxFaults \in Nat
TxValuesAssumption == NoValue \notin Values /\ Unwritten \notin Values \cup {NoValue}

VARIABLES
  store,     \* the engine, as the map it implements
  at,        \* per transaction: "new", "open", "committing", "committed", "rolledBack";
             \* after a crash "dead", or "gone" if it was finished
  writable,  \* mvccTx.writable
  writeSet,  \* mvccTx.writeSet, per key
  toApply,   \* keys Commit has still to write
  activeTx,  \* mvccTxManager.activeTx
  lockedBy,  \* the transactions that hold manager.mu in Commit
  first,     \* what the first engine read of each key returned (history)
  expected,  \* the writes of all finished commits, in the order of their ends (history)
  failed,    \* keys whose engine call failed in a commit (history)
  ops, faults  \* bounds

history == <<first, expected, failed>>
vars == <<store, at, writable, writeSet, toApply, activeTx, lockedBy, history, ops, faults>>

Engine == INSTANCE KVStore

Init ==
  /\ Engine!Init
  /\ at = [t \in Txs |-> "new"]
  /\ writable = [t \in Txs |-> FALSE]
  /\ writeSet = [t \in Txs |-> [k \in Keys |-> Unwritten]]
  /\ toApply = [t \in Txs |-> {}]
  /\ activeTx = {} /\ lockedBy = {}
  /\ first = [t \in Txs |-> [k \in Keys |-> Unread]]
  /\ failed = {}
  /\ expected = store
  /\ ops = [t \in Txs |-> 0] /\ faults = 0

Free == lockedBy = {}
Written(t) == {k \in Keys : writeSet[t][k] # Unwritten}

\* The store after the writes of t.
Applied(t, s) == [k \in Keys |-> IF k \in Written(t) THEN writeSet[t][k] ELSE s[k]]

Begin(t, w) ==
  /\ at[t] = "new" /\ Free
  /\ at' = [at EXCEPT ![t] = "open"]
  /\ writable' = [writable EXCEPT ![t] = w]
  /\ activeTx' = activeTx \cup {t}
  /\ UNCHANGED <<store, writeSet, toApply, lockedBy, history, ops, faults>>

CountOp(t) == ops[t] < MaxOps /\ ops' = [ops EXCEPT ![t] = @ + 1]

\* Commit and Rollback look at no state; one that is not the first counts as an operation.
Usable(t) == at[t] \in {"open", "committed", "rolledBack"}
CountEnd(t) == IF at[t] = "open" THEN UNCHANGED ops ELSE CountOp(t)

\* What Get answers: the transaction's own write, else the engine's value now.
ReadValue(t, k) == IF k \in Written(t) THEN writeSet[t][k] ELSE store[k]

\* readSet is written here and read nowhere.
Get(t, k) ==
  /\ Usable(t) /\ CountOp(t)
  /\ first' = IF k \notin Written(t) /\ first[t][k] = Unread
              THEN [first EXCEPT ![t][k] = ReadValue(t, k)] ELSE first
  /\ UNCHANGED <<store, at, writable, writeSet, toApply, activeTx, lockedBy, expected, failed, faults>>

\* Put, and Delete with NoValue; a read-only transaction gets an error.
Put(t, k, v) ==
  /\ Usable(t) /\ writable[t] /\ CountOp(t)
  /\ writeSet' = [writeSet EXCEPT ![t][k] = v]
  /\ UNCHANGED <<store, at, writable, toApply, activeTx, lockedBy, history, faults>>

\* A commit of a read-only transaction only leaves activeTx.
CommitReadOnly(t) ==
  /\ Usable(t) /\ ~ writable[t] /\ Free /\ CountEnd(t)
  /\ at' = [at EXCEPT ![t] = "committed"]
  /\ activeTx' = activeTx \ {t}
  /\ UNCHANGED <<store, writable, writeSet, toApply, lockedBy, history, faults>>

\* Mutant of CommitBegin: the lock is not awaited.
CommitBeginUnlocked(t) ==
  /\ Usable(t) /\ writable[t] /\ CountEnd(t)
  /\ at' = [at EXCEPT ![t] = "committing"]
  /\ lockedBy' = lockedBy \cup {t}
  /\ toApply' = [toApply EXCEPT ![t] = Written(t)]
  /\ UNCHANGED <<store, writable, writeSet, activeTx, history, faults>>

\* Commit takes the lock; the write set of a finished transaction is still there.
CommitBegin(t) ==
  /\ Usable(t) /\ writable[t] /\ Free /\ CountEnd(t)
  /\ at' = [at EXCEPT ![t] = "committing"]
  /\ lockedBy' = lockedBy \cup {t}
  /\ toApply' = [toApply EXCEPT ![t] = Written(t)]
  /\ UNCHANGED <<store, writable, writeSet, activeTx, history, faults>>

\* Mutant of CommitWrite: a deletion is skipped.
CommitWriteNoDelete(t, k) ==
  /\ k \in toApply[t]
  /\ IF writeSet[t][k] = NoValue THEN UNCHANGED store ELSE Engine!Put(k, writeSet[t][k])
  /\ toApply' = [toApply EXCEPT ![t] = @ \ {k}]
  /\ UNCHANGED <<at, writable, writeSet, activeTx, lockedBy, history, ops, faults>>

\* One engine call of the loop.
CommitWrite(t, k) ==
  /\ k \in toApply[t]
  /\ IF writeSet[t][k] = NoValue THEN Engine!Delete(k) ELSE Engine!Put(k, writeSet[t][k])
  /\ toApply' = [toApply EXCEPT ![t] = @ \ {k}]
  /\ UNCHANGED <<at, writable, writeSet, activeTx, lockedBy, history, ops, faults>>

\* The engine call fails and Commit goes on.
CommitWriteFails(t, k) ==
  /\ k \in toApply[t]
  /\ faults < MaxFaults /\ faults' = faults + 1
  /\ failed' = failed \cup {k}
  /\ toApply' = [toApply EXCEPT ![t] = @ \ {k}]
  /\ UNCHANGED <<store, at, writable, writeSet, activeTx, lockedBy, first, expected, ops>>

\* Mutant of CommitEnd: it returns with the lock held.
CommitEndLocked(t) ==
  /\ at[t] = "committing" /\ toApply[t] = {}
  /\ at' = [at EXCEPT ![t] = "committed"]
  /\ activeTx' = activeTx \ {t}
  /\ expected' = Applied(t, expected)
  /\ UNCHANGED <<store, writable, writeSet, toApply, lockedBy, first, failed, ops, faults>>

\* Commit returns nil.
CommitEnd(t) ==
  /\ at[t] = "committing" /\ toApply[t] = {}
  /\ at' = [at EXCEPT ![t] = "committed"]
  /\ lockedBy' = lockedBy \ {t}
  /\ activeTx' = activeTx \ {t}
  /\ expected' = Applied(t, expected)
  /\ UNCHANGED <<store, writable, writeSet, toApply, first, failed, ops, faults>>

Rollback(t) ==
  /\ Usable(t) /\ Free /\ CountEnd(t)
  /\ at' = [at EXCEPT ![t] = "rolledBack"]
  /\ activeTx' = activeTx \ {t}
  /\ UNCHANGED <<store, writable, writeSet, toApply, lockedBy, history, faults>>

\* The process dies; the engine's map survives.
Crash ==
  /\ faults < MaxFaults /\ faults' = faults + 1
  /\ at' = [t \in Txs |-> CASE at[t] \in {"open", "committing"} -> "dead"
                             [] at[t] \in {"committed", "rolledBack"} -> "gone"
                             [] OTHER -> at[t]]
  /\ activeTx' = {} /\ lockedBy' = {}
  /\ toApply' = [t \in Txs |-> {}]
  /\ UNCHANGED <<store, writable, writeSet, history, ops>>

CommitStep(t) == CommitEnd(t) \/ \E k \in Keys : CommitWrite(t, k) \/ CommitWriteFails(t, k)

Next ==
  \/ \E t \in Txs :
       \/ \E w \in BOOLEAN : Begin(t, w)
       \/ \E k \in Keys : Get(t, k) \/ \E v \in Values \cup {NoValue} : Put(t, k, v)
       \/ CommitReadOnly(t) \/ CommitBegin(t) \/ CommitStep(t) \/ Rollback(t)
  \/ Crash

Spec == Init /\ [][Next]_vars

\* A goroutine in Commit runs, and one that waits for the manager's lock gets it: the
\* lock is asked for finitely often by each of finitely many transactions, so that it is
\* free for good when the others are done.
End(t) == at[t] = "open" /\ (CommitBegin(t) \/ Rollback(t))
Fairness == \A t \in Txs : WF_vars(CommitStep(t)) /\ WF_vars(End(t))

FairSpec == Spec /\ Fairness

--------------------------------------------------------------------------------
(* Properties.                                                              *)

TypeOK ==
  /\ store \in [Keys -> Values \cup {NoValue}]
  /\ writeSet \in [Txs -> [Keys -> Values \cup {NoValue, Unwritten}]]
  /\ toApply \in [Txs -> SUBSET Keys]
  /\ {t \in Txs : at[t] = "open"} \subseteq activeTx
  /\ activeTx \subseteq {t \in Txs : at[t] \in {"open", "committing"}}
  /\ Cardinality(lockedBy) <= 1
  /\ \A t \in Txs : ~ writable[t] => Written(t) = {}

\* Between commits the store holds exactly the write sets of the finished commits,
\* repeated ones included, applied one after the other: commits of overlapping keys do
\* not mix, and nothing shows that was not committed (Commit holds manager.mu).
StoreIsSerial ==
  Free /\ failed = {} /\ "dead" \notin {at[t] : t \in Txs} => store = expected

\* What a commit in progress has left of the store is what the finished commits
\* wrote and a part of its own write set.
CommitIsPartOfOne ==
  failed = {} /\ faults = 0 =>
    \A t \in lockedBy : \A k \in Keys :
      store[k] = IF k \in Written(t) \ toApply[t] THEN writeSet[t][k] ELSE expected[k]

\* Every commit and rollback that waits for the manager's lock ends.
EveryTxEnds == \A t \in Txs : at[t] = "open" /\ writable[t] ~> at[t] # "open"

--------------------------------------------------------------------------------
(* What the comments say and the code does not keep.                        *)

\* A transaction reads one snapshot ("TxManager manages MVCC snapshot isolation"):
\* Get returns whatever the engine holds at that moment.
ReadsRepeat ==
  [][\A t \in Txs, k \in Keys :
       Get(t, k) /\ k \notin Written(t) => first[t][k] \in {Unread, store[k]}]_vars

\* A transaction is atomic ("a single atomic, consistent, isolated MVCC
\* transaction"): one that died in Commit is in the store as a whole or not at all.
DeadTxLeftNothing ==
  Free /\ failed = {} =>
    \/ store = expected
    \/ \E t \in Txs : at[t] = "dead" /\ store = Applied(t, expected)

\* A commit that returned nil is in the store ("atomic, consistent"): errors of the
\* engine are dropped.
CommittedIsStored ==
  Free /\ ({t \in Txs : at[t] = "dead"} = {}) => store = expected

\* A transaction ends once: one that was rolled back can still be committed, and one
\* that was committed writes its set again, over later commits.
EndsOnce ==
  [][\A t \in Txs : at[t] \in {"committed", "rolledBack"} => at'[t] # "committing"]_vars

\* A transaction that overwrites a key it has read finds it as it read it ("snapshot
\* isolation", ErrTxConflict): nothing is checked in Commit.
FirstCommitterWins ==
  [][\A t \in Txs : CommitBegin(t) =>
       \A k \in Written(t) : first[t][k] \in {Unread, store[k]}]_vars
================================================================================
