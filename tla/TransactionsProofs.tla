--------------------------- MODULE TransactionsProofs ---------------------------
(* Proofs about Transactions for any number of transactions, keys, values,  *)
(* failures and crashes.                                                    *)
EXTENDS Transactions, FiniteSetTheorems, TLAPS

TxAt == {"new", "open", "committing", "committed", "rolledBack", "dead", "gone"}

Types ==
  /\ store \in [Keys -> Values \cup {NoValue}]
  /\ expected \in [Keys -> Values \cup {NoValue}]
  /\ at \in [Txs -> TxAt]
  /\ writable \in [Txs -> BOOLEAN]
  /\ writeSet \in [Txs -> [Keys -> Values \cup {NoValue, Unwritten}]]
  /\ toApply \in [Txs -> SUBSET Keys]
  /\ faults \in Nat

\* manager.mu: the transaction that commits holds it, and nobody else.
Locking ==
  /\ \A t \in Txs : t \in lockedBy <=> at[t] = "committing"
  /\ lockedBy \subseteq Txs
  /\ \A t, u \in lockedBy : t = u

\* The loop of Commit.
Loop ==
  /\ \A t \in Txs : toApply[t] \subseteq Written(t)
  /\ \A t \in Txs : toApply[t] # {} => at[t] = "committing"

Active ==
  /\ {t \in Txs : at[t] = "open"} \subseteq activeTx
  /\ activeTx \subseteq {t \in Txs : at[t] \in {"open", "committing"}}
ReadOnly == \A t \in Txs : /\ ~ writable[t] => Written(t) = {}
                           /\ at[t] = "new" => ~ writable[t]
NoneDead == \A t \in Txs : at[t] # "dead"
DeadByFault == ~ NoneDead => faults > 0

\* What a commit has applied is in the store, everything else is as the finished
\* commits left it.
PartOf(t) ==
  \A k \in Keys :
    store[k] = IF k \in Written(t) \ toApply[t] THEN writeSet[t][k] ELSE expected[k]

Stored ==
  failed = {} /\ NoneDead =>
    /\ Free => store = expected
    /\ \A t \in lockedBy : PartOf(t)

IInv == Types /\ Locking /\ Loop /\ Active /\ ReadOnly /\ DeadByFault /\ Stored

\* Nothing is begun.
LEMMA InitIInv == ASSUME Init PROVE IInv
<1>1. \A t \in Txs : Written(t) = {}
  BY DEF Init, Written
<1>2. Types
  BY DEF Init, Types, TxAt, Engine!Init
<1>3. Locking /\ Loop /\ Active /\ ReadOnly
  BY <1>1 DEF Init, Locking, Loop, Active, ReadOnly
<1>4. DeadByFault /\ Stored
  BY DEF Init, DeadByFault, NoneDead, Stored
<1> QED
  BY <1>2, <1>3, <1>4 DEF IInv

\* A step that begins or ends one transaction, also once more, and leaves write sets,
\* store and commits alone.
LEMMA MoveKeepsIInv ==
  ASSUME IInv, NEW t \in Txs, at[t] = "new" \/ Usable(t),
         NEW to \in {"open", "committed", "rolledBack"},
         at' = [at EXCEPT ![t] = to],
         activeTx' = IF to = "open" THEN activeTx \cup {t} ELSE activeTx \ {t},
         writable' \in [Txs -> BOOLEAN],
         Written(t) = {} \/ writable' = writable,
         \A u \in Txs \ {t} : writable'[u] = writable[u],
         UNCHANGED <<store, writeSet, toApply, lockedBy, expected, failed, faults>>
  PROVE  IInv'
<1>0. /\ Types /\ Locking /\ Loop /\ Active /\ ReadOnly /\ DeadByFault /\ Stored
      /\ at'[t] = to /\ to \notin {"committing", "dead"} /\ at[t] \notin {"committing", "dead"}
      /\ \A u \in Txs \ {t} : at'[u] = at[u]
  BY DEF IInv, Types, Usable
<1>1. \A u \in Txs : Written(u)' = Written(u)
  BY DEF Written
<1>2. Types' /\ Locking' /\ Loop' /\ ReadOnly'
  <2>1. Types'
    BY <1>0 DEF Types, TxAt
  <2>2. Locking'
    <3>1. \A u \in Txs : at'[u] = "committing" <=> at[u] = "committing"
      BY <1>0
    <3> QED
      BY <1>0, <3>1 DEF Locking
  <2>3. Loop'
    BY <1>0, <1>1 DEF Loop
  <2>4. ReadOnly'
    BY <1>0, <1>1 DEF ReadOnly
  <2> QED
    BY <2>1, <2>2, <2>3, <2>4
<1>3. Active'
  BY <1>0 DEF Active
<1>4. NoneDead' <=> NoneDead
  BY <1>0 DEF NoneDead
<1>5. DeadByFault'
  BY <1>0, <1>4 DEF DeadByFault
<1>6. Stored'
  <2>1. \A u \in Txs : PartOf(u)' <=> PartOf(u)
    BY <1>1 DEF PartOf
  <2> QED
    BY <1>0, <1>4, <2>1 DEF Stored, Free, Locking
<1> QED
  BY <1>2, <1>3, <1>5, <1>6 DEF IInv

\* Begin, CommitReadOnly and Rollback are such steps.
LEMMA ShortKeepsIInv ==
  ASSUME IInv, NEW t \in Txs,
         CommitReadOnly(t) \/ Rollback(t) \/ \E w \in BOOLEAN : Begin(t, w)
  PROVE  IInv'
<1>1. CASE CommitReadOnly(t)
  BY <1>1, MoveKeepsIInv DEF CommitReadOnly, history, IInv, Types
<1>2. CASE Rollback(t)
  BY <1>2, MoveKeepsIInv DEF Rollback, history, IInv, Types
<1>3. ASSUME NEW w \in BOOLEAN, Begin(t, w) PROVE IInv'
  <2>1. Written(t) = {}
    BY <1>3 DEF Begin, IInv, ReadOnly
  <2> QED
    BY <1>3, <2>1, MoveKeepsIInv DEF Begin, history, IInv, Types
<1> QED
  BY <1>1, <1>2, <1>3

\* Get changes what is remembered of reads, nothing else.
LEMMA GetKeepsIInv ==
  ASSUME IInv, NEW t \in Txs, NEW k \in Keys, Get(t, k) PROVE IInv'
BY DEF IInv, Get, Types, Locking, Loop, Active, ReadOnly, DeadByFault, NoneDead, Stored, Free,
       PartOf, Written

\* Put changes the write set of a transaction that no commit reads.
LEMMA PutKeepsIInv ==
  ASSUME IInv, NEW t \in Txs, NEW k \in Keys, NEW v \in Values \cup {NoValue},
         Put(t, k, v)
  PROVE  IInv'
<1>0. /\ Types /\ Locking /\ Loop /\ Active /\ ReadOnly /\ DeadByFault /\ Stored
      /\ at[t] # "new" /\ writable[t] /\ t \notin lockedBy /\ toApply[t] = {}
      /\ UNCHANGED <<store, at, writable, toApply, activeTx, lockedBy, expected, failed, faults>>
      /\ writeSet' = [writeSet EXCEPT ![t][k] = v]
  BY DEF IInv, Put, Usable, history, Locking, Loop
<1>1. \A u \in Txs \ {t} : writeSet'[u] = writeSet[u]
  BY <1>0 DEF Types
<1>2. \A u \in Txs \ {t} : Written(u)' = Written(u) /\ (PartOf(u)' <=> PartOf(u))
  BY <1>0, <1>1 DEF Written, PartOf
<1>3. Types' /\ Active' /\ DeadByFault' /\ Locking'
  BY <1>0 DEF Types, Active, DeadByFault, NoneDead, Locking
<1>4. Loop' /\ ReadOnly'
  BY <1>0, <1>2 DEF Loop, ReadOnly
<1>5. Stored'
  BY <1>0, <1>2 DEF Stored, NoneDead, Free, Locking
<1> QED
  BY <1>3, <1>4, <1>5 DEF IInv

\* A commit starts with the lock, which nobody holds, and nothing applied.
LEMMA CommitBeginKeepsIInv ==
  ASSUME IInv, NEW t \in Txs, CommitBegin(t)
  PROVE  IInv'
<1>0. /\ Types /\ Locking /\ Loop /\ Active /\ ReadOnly /\ DeadByFault /\ Stored
      /\ Usable(t) /\ writable[t] /\ lockedBy = {}
      /\ at' = [at EXCEPT ![t] = "committing"]
      /\ lockedBy' = {t}
      /\ toApply' = [toApply EXCEPT ![t] = Written(t)]
      /\ UNCHANGED <<store, writable, writeSet, activeTx, expected, failed, faults>>
  BY DEF IInv, CommitBegin, history, Free
<1>1. /\ \A u \in Txs : Written(u)' = Written(u)
      /\ at'[t] = "committing" /\ toApply'[t] = Written(t)
      /\ \A u \in Txs \ {t} : at'[u] = at[u] /\ toApply'[u] = toApply[u]
  BY <1>0 DEF Written, Types
<1>2. Types'
  BY <1>0 DEF Types, TxAt, Written
<1>3. Locking' /\ Loop'
  BY <1>0, <1>1 DEF Locking, Loop
<1>4. Active' /\ ReadOnly' /\ (NoneDead' <=> NoneDead)
  BY <1>0, <1>1 DEF Active, ReadOnly, NoneDead, Usable
<1>5. DeadByFault'
  BY <1>0, <1>4 DEF DeadByFault
<1>6. Stored'
  <2>1. ASSUME failed = {}, NoneDead PROVE PartOf(t)'
    BY <1>0, <1>1, <2>1 DEF Stored, Free, PartOf
  <2> QED
    BY <1>0, <1>4, <2>1 DEF Stored, Free
<1> QED
  BY <1>2, <1>3, <1>4, <1>5, <1>6 DEF IInv

\* The loop of Commit writes one key, or fails to.
LEMMA CommitWriteKeepsIInv ==
  ASSUME IInv, NEW t \in Txs, NEW k \in Keys,
         CommitWrite(t, k) \/ CommitWriteFails(t, k)
  PROVE  IInv'
<1>0. /\ Types /\ Locking /\ Loop /\ Active /\ ReadOnly /\ DeadByFault /\ Stored
      /\ k \in toApply[t] /\ at[t] = "committing" /\ lockedBy = {t} /\ k \in Written(t)
      /\ toApply' = [toApply EXCEPT ![t] = @ \ {k}]
      /\ UNCHANGED <<at, writable, writeSet, activeTx, lockedBy, expected>>
      /\ faults' \in Nat /\ faults' >= faults
      /\ \/ failed' # {}
         \/ failed' = failed /\ store' = [store EXCEPT ![k] = writeSet[t][k]]
      /\ store' \in {store, [store EXCEPT ![k] = writeSet[t][k]]}
  <2>1. /\ Types /\ Locking /\ Loop /\ Active /\ ReadOnly /\ DeadByFault /\ Stored
        /\ k \in toApply[t]
    BY DEF IInv, CommitWrite, CommitWriteFails
  <2>2. at[t] = "committing" /\ lockedBy = {t} /\ k \in Written(t)
    BY <2>1 DEF Locking, Loop
  <2>3. CASE CommitWrite(t, k)
    <3>1. store' = [store EXCEPT ![k] = writeSet[t][k]]
      BY <2>3 DEF CommitWrite, Engine!Put, Engine!Delete
    <3> QED
      BY <2>1, <2>2, <2>3, <3>1 DEF CommitWrite, history, Types
  <2>4. CASE CommitWriteFails(t, k)
    BY <2>1, <2>2, <2>4 DEF CommitWriteFails, Types
  <2> QED
    BY <2>3, <2>4
<1>1. /\ toApply'[t] = toApply[t] \ {k}
      /\ \A u \in Txs \ {t} : toApply'[u] = toApply[u]
      /\ \A u \in Txs : Written(u)' = Written(u)
  BY <1>0 DEF Types, Written
<1>2. Types'
  <2>1. writeSet[t][k] \in Values \cup {NoValue}
    BY <1>0 DEF Types, Written
  <2>2. store' \in [Keys -> Values \cup {NoValue}]
    BY <1>0, <2>1 DEF Types
  <2>3. toApply' \in [Txs -> SUBSET Keys]
    BY <1>0 DEF Types
  <2> QED
    BY <1>0, <2>2, <2>3 DEF Types
<1>3. Locking' /\ Loop' /\ Active' /\ ReadOnly'
  BY <1>0, <1>1 DEF Locking, Loop, Active, ReadOnly
<1>4. DeadByFault'
  BY <1>0 DEF DeadByFault, NoneDead, Types
<1>5. Stored'
  <2> SUFFICES ASSUME failed' = {}, NoneDead' PROVE PartOf(t)'
    BY <1>0 DEF Stored, Free
  <2>1. failed = {} /\ NoneDead /\ store' = [store EXCEPT ![k] = writeSet[t][k]]
    BY <1>0 DEF NoneDead
  <2>2. PartOf(t)
    BY <1>0, <2>1 DEF Stored
  <2> QED
    BY <1>0, <1>1, <2>1, <2>2 DEF PartOf, Types
<1> QED
  BY <1>2, <1>3, <1>4, <1>5 DEF IInv

\* Commit returns with everything applied.
LEMMA CommitEndKeepsIInv ==
  ASSUME IInv, NEW t \in Txs, CommitEnd(t)
  PROVE  IInv'
<1>0. /\ Types /\ Locking /\ Loop /\ Active /\ ReadOnly /\ DeadByFault /\ Stored
      /\ at[t] = "committing" /\ lockedBy = {t} /\ lockedBy' = {} /\ toApply[t] = {}
      /\ at' = [at EXCEPT ![t] = "committed"]
      /\ activeTx' = activeTx \ {t}
      /\ expected' = Applied(t, expected)
      /\ UNCHANGED <<store, writable, writeSet, toApply, failed, faults>>
  BY DEF IInv, CommitEnd, Locking
<1>1. /\ \A u \in Txs : Written(u)' = Written(u)
      /\ at'[t] = "committed" /\ \A u \in Txs \ {t} : at'[u] = at[u]
  BY <1>0 DEF Written, Types
<1>2. Types'
  <2>1. expected' \in [Keys -> Values \cup {NoValue}]
    BY <1>0 DEF Types, Applied, Written
  <2> QED
    BY <1>0, <2>1 DEF Types, TxAt
<1>3. Locking' /\ Loop'
  BY <1>0, <1>1 DEF Locking, Loop
<1>4. Active' /\ ReadOnly' /\ (NoneDead' <=> NoneDead)
  BY <1>0, <1>1 DEF Active, ReadOnly, NoneDead
<1>5. DeadByFault'
  BY <1>0, <1>4 DEF DeadByFault
<1>6. Stored'
  <2> SUFFICES ASSUME failed = {}, NoneDead PROVE store = expected'
    BY <1>0, <1>4 DEF Stored
  <2>1. PartOf(t)
    BY <1>0 DEF Stored
  <2>2. \A k \in Keys : store[k] = Applied(t, expected)[k]
    BY <1>0, <2>1 DEF PartOf, Applied
  <2> QED
    BY <1>0, <2>2 DEF Types, Applied
<1> QED
  BY <1>2, <1>3, <1>4, <1>5, <1>6 DEF IInv

\* A crash ends every transaction; one that it kills in Commit is dead.
LEMMA CrashKeepsIInv ==
  ASSUME IInv, Crash
  PROVE  IInv'
<1>0. /\ Types /\ Locking /\ Loop /\ Active /\ ReadOnly /\ DeadByFault /\ Stored
      /\ faults' = faults + 1
      /\ at' = [t \in Txs |-> CASE at[t] \in {"open", "committing"} -> "dead"
                                 [] at[t] \in {"committed", "rolledBack"} -> "gone"
                                 [] OTHER -> at[t]]
      /\ activeTx' = {} /\ lockedBy' = {} /\ toApply' = [t \in Txs |-> {}]
      /\ UNCHANGED <<store, writable, writeSet, expected, failed>>
  BY DEF IInv, Crash, history
<1>1. /\ \A u \in Txs : Written(u)' = Written(u) /\ at'[u] \notin {"open", "committing"}
      /\ \A u \in Txs : at'[u] = "new" => at[u] = "new"
      /\ \A u \in Txs : at'[u] # "dead" => at[u] \notin {"open", "committing"}
      /\ \A u \in Txs : at'[u] # "dead" => at[u] # "dead"
  BY <1>0 DEF Written
<1>2. Types'
  BY <1>0 DEF Types, TxAt
<1>3. Locking' /\ Loop' /\ Active' /\ ReadOnly'
  BY <1>0, <1>1 DEF Locking, Loop, Active, ReadOnly
<1>4. DeadByFault'
  BY <1>0 DEF DeadByFault, Types
<1>5. Stored'
  <2> SUFFICES ASSUME failed = {}, NoneDead' PROVE store = expected
    BY <1>0 DEF Stored
  <2>1. \A t \in Txs : at[t] \notin {"open", "committing", "dead"}
    BY <1>1 DEF NoneDead
  <2> QED
    BY <1>0, <2>1 DEF Stored, NoneDead, Locking, Free
<1> QED
  BY <1>2, <1>3, <1>4, <1>5 DEF IInv

\* Every step keeps the invariant.
LEMMA NextKeepsIInv ==
  ASSUME IInv, [Next]_vars
  PROVE  IInv'
<1>1. CASE UNCHANGED vars
  BY <1>1 DEF IInv, vars, history, Types, Locking, Loop, Active, ReadOnly, DeadByFault,
              NoneDead, Stored, Free, PartOf, Written
<1>2. ASSUME NEW t \in Txs, NEW k \in Keys, Get(t, k) \/ \E v \in Values \cup {NoValue} : Put(t, k, v)
      PROVE  IInv'
  BY <1>2, GetKeepsIInv, PutKeepsIInv
<1>3. ASSUME NEW t \in Txs, CommitStep(t)
      PROVE  IInv'
  BY <1>3, CommitEndKeepsIInv, CommitWriteKeepsIInv DEF CommitStep
<1>4. CASE Crash
  BY <1>4, CrashKeepsIInv
<1> QED
  BY <1>1, <1>2, <1>3, <1>4, ShortKeepsIInv, CommitBeginKeepsIInv DEF Next

\* The invariant is what the runs check.
LEMMA IInvIsEnough ==
  ASSUME IInv
  PROVE  TypeOK /\ StoreIsSerial /\ CommitIsPartOfOne
<1>1. TypeOK
  <2>1. Cardinality(lockedBy) <= 1
    <3>1. CASE lockedBy = {}
      <4>1. Cardinality(lockedBy) = 0
        BY <3>1, FS_EmptySet
      <4> QED
        BY <4>1
    <3>2. CASE lockedBy # {}
      <4>1. PICK t : lockedBy = {t}
        BY <3>2 DEF IInv, Locking
      <4>2. Cardinality(lockedBy) = 1
        BY <4>1, FS_Singleton
      <4> QED
        BY <4>2
    <3> QED
      BY <3>1, <3>2
  <2> QED
    BY <2>1 DEF IInv, Types, TypeOK, Active, ReadOnly
<1>2. StoreIsSerial
  <2>1. "dead" \notin {at[t] : t \in Txs} => NoneDead
    BY DEF NoneDead
  <2> QED
    BY <2>1 DEF IInv, Stored, StoreIsSerial
<1>3. CommitIsPartOfOne
  <2>1. faults = 0 => NoneDead
    BY DEF IInv, DeadByFault, Types
  <2> QED
    BY <2>1 DEF IInv, Stored, PartOf, CommitIsPartOfOne
<1> QED
  BY <1>1, <1>2, <1>3

\* The invariant holds in every behaviour.
LEMMA Invariant == Spec => []IInv
<1>1. Init => IInv
  BY InitIInv
<1>2. IInv /\ [Next]_vars => IInv'
  BY NextKeepsIInv
<1> QED
  BY <1>1, <1>2, PTL DEF Spec

\* Type correctness.
THEOREM TxTypes == Spec => []TypeOK
BY Invariant, IInvIsEnough, PTL

\* Between commits the store is what the finished commits wrote, one after the other
\* (tx.go: Commit, under manager.mu).
THEOREM TxStoreIsSerial == Spec => []StoreIsSerial
BY Invariant, IInvIsEnough, PTL

\* What a commit in progress has written is part of its own write set, over what the
\* finished commits wrote (tx.go: the loop of Commit).
THEOREM TxCommitIsPartOfOne == Spec => []CommitIsPartOfOne
BY Invariant, IInvIsEnough, PTL
================================================================================
