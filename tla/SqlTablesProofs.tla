---------------------------- MODULE SqlTablesProofs ----------------------------
(***************************************************************************)
(* While the writers of a table take turns: what SELECT and ListTables     *)
(* answer, and that the statements implement TableLog, for every number of *)
(* requests, tables and rows.                                              *)
(***************************************************************************)
EXTENDS SqlTables, FiniteSetTheorems, SequenceTheorems, TLAPS

TurnTaking == WritersOverlap = FALSE

--------------------------------------------------------------------------------
(* The invariant.                                                           *)

Row(t, i) == store[RowKey(t, i)]
Creating(s) == session[s] \in Creates
Inserting(s) == session[s] \in Inserts

\* The fate of a row is decided: its INSERT will not answer with an error.
SettledIn(given, refused, requests, r) ==
  r \in given \ refused /\ \A s \in Sessions : requests[s] \in Inserts => requests[s].row # r
Settled(r) == SettledIn(used, rejected, session, r)

\* Row r has an id below the counter of t, or was deleted.
Kept(t, r) == r \in removed \/ \E i \in 0 .. Count(t) - 1 : Row(t, i) = r

TableInv(t) ==
  /\ store[SchemaKey(t)] = NoValue => Count(t) = 0 /\ created[t] = 0
  /\ Count(t) <= Cardinality(used) /\ Len(acked[t]) <= Count(t)
  /\ \A i \in 0 .. Count(t) - 1 : Row(t, i) # NoValue => Settled(Row(t, i))
  /\ \A i, j \in 0 .. Count(t) - 1 : Row(t, i) = Row(t, j) /\ Row(t, i) # NoValue => i = j
  /\ \A n \in DOMAIN acked[t] : Kept(t, acked[t][n])

CreateInv(q) ==
  /\ q.at = "putSchema" => store[SchemaKey(q.table)] = NoValue
  /\ q.at = "putCounter" => store[SchemaKey(q.table)] # NoValue /\ Count(q.table) = 0

InsertInv(q) ==
  /\ q.row \in used \ rejected /\ Count(q.table) < Cardinality(used)
  /\ q.at # "readSchema" => store[SchemaKey(q.table)] # NoValue
  /\ q.at \in {"putRow", "putCount"} => q.id = Count(q.table)
  /\ q.at = "putCount" =>
       \/ Row(q.table, q.id) = q.row
       \/ Row(q.table, q.id) = NoValue /\ q.row \in removed

\* The writers of a table take turns, and a row is inserted once.
Turns == \A a, b \in Sessions : a # b =>
  /\ (Creating(a) \/ Inserting(a)) /\ (Creating(b) \/ Inserting(b)) =>
       session[a].table # session[b].table
  /\ Inserting(a) /\ Inserting(b) => session[a].row # session[b].row

\* What the row loop has put out is what the ids below next hold.
Places(q) == [DOMAIN q.out -> 1 .. q.next]
SnapshotOf(q, place) ==
  /\ \A m, n \in DOMAIN q.out : m < n => place[m] < place[n]
  /\ \A n \in DOMAIN q.out : Row(q.table, place[n] - 1) = q.out[n] /\ q.out[n] \in q.where \ q.unread
  /\ \A i \in 1 .. q.next : Row(q.table, i - 1) \in q.where \ q.unread =>
       \E n \in DOMAIN q.out : place[n] = i
UnreadInv(q) == \A r \in q.unread : \E i \in 0 .. q.next - 1 : Row(q.table, i) = r

ScanInv(q) ==
  /\ q.next <= q.count /\ q.count <= Count(q.table) /\ store[SchemaKey(q.table)] # NoValue
  /\ q.limit # NoLimit => Len(q.out) <= q.limit
  /\ \A n \in DOMAIN q.out : Settled(q.out[n])
  /\ \A n \in DOMAIN q.before : q.before[n] \in q.where =>
       \/ q.before[n] \in removed \cup q.unread \cup Elements(q.out)
       \/ \E i \in q.next .. q.count - 1 : Row(q.table, i) = q.before[n]
  /\ removed = {} => UnreadInv(q)
  /\ removed = {} => \E place \in Places(q) : SnapshotOf(q, place)
  /\ q.at = "answered" => q.next = q.count \/ LimitReached(q)

SelectInv(q) ==
  /\ q.at \in {"readSchema", "readCount"} =>
       /\ q.next = 0 /\ q.out = <<>> /\ q.unread = {}
       /\ \A n \in DOMAIN q.before : Kept(q.table, q.before[n])
       /\ q.at = "readCount" => store[SchemaKey(q.table)] # NoValue
  /\ q.at \in {"scan", "answered"} => ScanInv(q)

ListInv(q) ==
  /\ \A t \in Tables : q.known[t] > 0 => t \in q.todo \cup DOMAIN q.counts \cup q.unread
  /\ \A t \in Tables : Len(q.ackedBefore[t]) <= Count(t)
  /\ \A t \in DOMAIN q.counts \ q.unread : q.counts[t] \in Len(q.ackedBefore[t]) .. Count(t)
  /\ q.at = "answered" => q.todo = {}

StatementInv(q) ==
  /\ q \in Creates => CreateInv(q)
  /\ q \in Inserts => InsertInv(q)
  /\ q \in Selects => SelectInv(q)
  /\ q \in Lists => ListInv(q)
SessionInv(s) == StatementInv(session[s])

IInv ==
  /\ TypeOK
  /\ \A t \in Tables : TableInv(t)
  /\ Turns
  /\ \A s \in Sessions : SessionInv(s)

--------------------------------------------------------------------------------
(* The keys, and what a Put or a Delete of one leaves alone.                *)

LEMMA KeysDiffer ==
  ASSUME NEW t, NEW u, NEW i, NEW j
  PROVE  /\ SchemaKey(t) = SchemaKey(u) <=> t = u
         /\ SeqKey(t) = SeqKey(u) <=> t = u
         /\ RowKey(t, i) = RowKey(u, j) <=> t = u /\ i = j
         /\ SchemaKey(t) # SeqKey(u) /\ SchemaKey(t) # RowKey(u, j) /\ SeqKey(t) # RowKey(u, j)
BY DEF SchemaKey, SeqKey, RowKey

LEMMA KeysAreKeys ==
  ASSUME NEW t \in Tables
  PROVE  /\ SchemaKey(t) \in EngineKeys /\ SeqKey(t) \in EngineKeys
         /\ \A i \in RowIds : RowKey(t, i) \in EngineKeys
BY DEF EngineKeys

LEMMA SchemaPut ==
  ASSUME store \in [EngineKeys -> EngineValues \cup {NoValue}], NEW t \in Tables, NEW v,
         store' = [store EXCEPT ![SchemaKey(t)] = v]
  PROVE  /\ \A u \in Tables :
              store'[SchemaKey(u)] = (IF u = t THEN v ELSE store[SchemaKey(u)])
         /\ \A u \in Tables : store'[SeqKey(u)] = store[SeqKey(u)]
         /\ \A u \in Tables, i \in RowIds : store'[RowKey(u, i)] = store[RowKey(u, i)]
BY KeysDiffer, KeysAreKeys

LEMMA SeqPut ==
  ASSUME store \in [EngineKeys -> EngineValues \cup {NoValue}], NEW t \in Tables, NEW v,
         store' = [store EXCEPT ![SeqKey(t)] = v]
  PROVE  /\ \A u \in Tables : store'[SchemaKey(u)] = store[SchemaKey(u)]
         /\ \A u \in Tables : store'[SeqKey(u)] = (IF u = t THEN v ELSE store[SeqKey(u)])
         /\ \A u \in Tables, i \in RowIds : store'[RowKey(u, i)] = store[RowKey(u, i)]
<1>1. \A k \in EngineKeys : store'[k] = IF k = SeqKey(t) THEN v ELSE store[k]
  OBVIOUS
<1>2. ASSUME NEW u \in Tables PROVE store'[SchemaKey(u)] = store[SchemaKey(u)]
  BY <1>1, KeysDiffer, KeysAreKeys
<1>3. ASSUME NEW u \in Tables PROVE store'[SeqKey(u)] = IF u = t THEN v ELSE store[SeqKey(u)]
  BY <1>1, KeysDiffer, KeysAreKeys
<1>4. ASSUME NEW u \in Tables, NEW i \in RowIds PROVE store'[RowKey(u, i)] = store[RowKey(u, i)]
  BY <1>1, KeysDiffer, KeysAreKeys
<1> QED BY <1>2, <1>3, <1>4

\* The size of the tables: counters stay below the number of rows.
LEMMA RowsFinite ==
  ASSUME NEW S, S \subseteq Rows
  PROVE  /\ IsFiniteSet(S) /\ Cardinality(S) \in Nat /\ Cardinality(Rows) \in Nat
         /\ Cardinality(S) <= Cardinality(Rows)
         /\ \A r \in Rows \ S : Cardinality(S \cup {r}) = Cardinality(S) + 1
BY RowsAssumption, FS_Subset, FS_CardinalityType, FS_AddElement

LEMMA CountsAreIds ==
  ASSUME TypeOK, NEW t \in Tables, TableInv(t)
  PROVE  /\ Count(t) \in Nat /\ Cardinality(used) \in Nat
         /\ Count(t) <= Cardinality(Rows)
         /\ \A i \in 0 .. Count(t) - 1 : i \in RowIds
         /\ Count(t) < Cardinality(used) => Count(t) \in RowIds
<1>1. Cardinality(used) \in Nat /\ Cardinality(Rows) \in Nat /\ Cardinality(used) <= Cardinality(Rows)
  BY RowsFinite DEF TypeOK
<1>2. Count(t) \in Nat
  BY <1>1, NoValueAssumption DEF TypeOK, Count
<1>3. Count(t) <= Cardinality(used)
  BY DEF TableInv
<1> QED BY <1>1, <1>2, <1>3 DEF RowIds

--------------------------------------------------------------------------------
(* What no step undoes: tables stay, counters grow, rows keep their ids.    *)

CountIn(map, t) == IF map[SeqKey(t)] = NoValue THEN 0 ELSE map[SeqKey(t)]

Grows ==
  /\ removed \subseteq removed'
  /\ \A r : SettledIn(used, rejected, session, r) => SettledIn(used', rejected', session', r)
  /\ \A t \in Tables :
       /\ store[SchemaKey(t)] # NoValue => store'[SchemaKey(t)] # NoValue
       /\ CountIn(store, t) <= CountIn(store', t)
       /\ \A i \in 0 .. CountIn(store, t) - 1 :
            \/ store'[RowKey(t, i)] = store[RowKey(t, i)]
            \/ store'[RowKey(t, i)] = NoValue /\ store[RowKey(t, i)] \in removed'

\* A table whose counter and acknowledged rows stay.
LEMMA TableStays ==
  ASSUME TypeOK, Grows, NEW t \in Tables, TableInv(t),
         CountIn(store', t) = CountIn(store, t), acked'[t] = acked[t],
         created'[t] = created[t] \/ store'[SchemaKey(t)] # NoValue,
         Cardinality(used') \in Nat, Cardinality(used) <= Cardinality(used')
  PROVE  TableInv(t)'
<1> DEFINE n == CountIn(store, t)
<1>1. n \in Nat /\ n = Count(t) /\ Count(t)' = n
  BY CountsAreIds DEF Count, CountIn
<1>2. \A i \in 0 .. n - 1 :
        \/ store'[RowKey(t, i)] = store[RowKey(t, i)]
        \/ store'[RowKey(t, i)] = NoValue /\ store[RowKey(t, i)] \in removed'
  BY DEF Grows
<1>3. (store[SchemaKey(t)] = NoValue => Count(t) = 0 /\ created[t] = 0)'
  BY <1>1 DEF TableInv, Grows
<1>4. n <= Cardinality(used') /\ Len(acked'[t]) <= n
  <2>1. Len(acked[t]) <= n /\ n <= Cardinality(used) /\ Cardinality(used) \in Nat
    BY <1>1, CountsAreIds DEF TableInv
  <2> QED BY <1>1, <2>1
<1>5. ASSUME NEW i \in 0 .. n - 1, store'[RowKey(t, i)] # NoValue
      PROVE  SettledIn(used', rejected', session', store'[RowKey(t, i)])
  <2>1. store'[RowKey(t, i)] = store[RowKey(t, i)]
    BY <1>2, <1>5
  <2>2. SettledIn(used, rejected, session, store[RowKey(t, i)])
    BY <1>1, <1>5, <2>1 DEF TableInv, Row, Settled
  <2> QED BY <2>1, <2>2 DEF Grows
<1>6. ASSUME NEW i \in 0 .. n - 1, NEW j \in 0 .. n - 1,
             store'[RowKey(t, i)] = store'[RowKey(t, j)], store'[RowKey(t, i)] # NoValue
      PROVE  i = j
  BY <1>1, <1>2, <1>6 DEF TableInv, Row
<1>7. ASSUME NEW k \in DOMAIN acked[t]
      PROVE  acked[t][k] \in removed' \/ \E i \in 0 .. n - 1 : store'[RowKey(t, i)] = acked[t][k]
  <2>1. acked[t][k] \in removed \/ \E i \in 0 .. n - 1 : store[RowKey(t, i)] = acked[t][k]
    BY <1>1 DEF TableInv, Kept, Row
  <2> QED BY <1>2, <2>1 DEF Grows
<1> QED BY <1>1, <1>3, <1>4, <1>5, <1>6, <1>7 DEF TableInv, Kept, Row, Settled

\* A SELECT that reads on is not disturbed.
LEMMA SelectStays ==
  ASSUME TypeOK, Grows, NEW q \in Selects, SelectInv(q), TableInv(q.table),
         CountIn(store', q.table) \in Nat
  PROVE  SelectInv(q)'
<1> DEFINE t == q.table
           n == CountIn(store, t)
<1>0. t \in Tables /\ q.next \in Nat /\ q.count \in Nat /\ q.before \in Seq(Rows) /\ q.out \in Seq(Rows)
  BY DEF Selects
<1>1. n \in Nat /\ n = Count(t) /\ Count(t)' = CountIn(store', t) /\ n <= CountIn(store', t)
  BY <1>0, CountsAreIds DEF Count, CountIn, Grows
<1>2. \A i \in 0 .. n - 1 :
        \/ store'[RowKey(t, i)] = store[RowKey(t, i)]
        \/ store'[RowKey(t, i)] = NoValue /\ store[RowKey(t, i)] \in removed'
  BY <1>0 DEF Grows
<1>3. removed \subseteq removed' /\ (store[SchemaKey(t)] # NoValue => store'[SchemaKey(t)] # NoValue)
  BY <1>0 DEF Grows
<1>4. CASE q.at \in {"readSchema", "readCount"}
  <2>1. ASSUME NEW k \in DOMAIN q.before
        PROVE  \/ q.before[k] \in removed'
               \/ \E i \in 0 .. CountIn(store', t) - 1 : store'[RowKey(t, i)] = q.before[k]
    <3>1. q.before[k] \in removed \/ \E i \in 0 .. n - 1 : store[RowKey(t, i)] = q.before[k]
      BY <1>1, <1>4 DEF SelectInv, Kept, Row
    <3> QED BY <1>1, <1>2, <1>3, <3>1
  <2> QED BY <1>1, <1>3, <1>4, <2>1 DEF SelectInv, Kept, Row
<1>5. CASE q.at \in {"scan", "answered"}
  <2>0. ScanInv(q)
    BY <1>5 DEF SelectInv
  <2>1. q.next <= q.count /\ q.count <= n
    BY <1>1, <2>0 DEF ScanInv
  <2>2. ASSUME NEW k \in DOMAIN q.out PROVE SettledIn(used', rejected', session', q.out[k])
    BY <2>0 DEF ScanInv, Settled, Grows
  <2>3. ASSUME NEW k \in DOMAIN q.before, q.before[k] \in q.where
        PROVE  \/ q.before[k] \in removed' \cup q.unread \cup Elements(q.out)
               \/ \E i \in q.next .. q.count - 1 : store'[RowKey(t, i)] = q.before[k]
    <3>1. \/ q.before[k] \in removed \cup q.unread \cup Elements(q.out)
          \/ \E i \in q.next .. q.count - 1 : store[RowKey(t, i)] = q.before[k]
      BY <2>0, <2>3 DEF ScanInv, Row
    <3>2. \A i \in q.next .. q.count - 1 : i \in 0 .. n - 1
      BY <1>0, <1>1, <2>1
    <3> QED BY <1>2, <1>3, <3>1, <3>2
  <2>4. ASSUME removed' = {}
        PROVE  \A i \in 0 .. n - 1 : store'[RowKey(t, i)] = store[RowKey(t, i)]
    BY <1>2, <2>4
  <2>5. ASSUME removed' = {}, NEW r \in q.unread
        PROVE  \E i \in 0 .. q.next - 1 : store'[RowKey(t, i)] = r
    <3>1. removed = {}
      BY <1>3, <2>5
    <3>2. PICK i \in 0 .. q.next - 1 : store[RowKey(t, i)] = r
      BY <2>0, <2>5, <3>1 DEF ScanInv, UnreadInv, Row
    <3>3. i \in 0 .. n - 1
      BY <1>0, <1>1, <2>1
    <3> QED BY <2>4, <2>5, <3>2, <3>3
  <2>6. ASSUME removed' = {}
        PROVE  \E place \in Places(q) : SnapshotOf(q, place)'
    <3>1. removed = {}
      BY <1>3, <2>6
    <3>2. PICK place \in Places(q) : SnapshotOf(q, place)
      BY <2>0, <3>1 DEF ScanInv
    <3>3. ASSUME NEW i \in 1 .. q.next
          PROVE  store'[RowKey(t, i - 1)] = store[RowKey(t, i - 1)]
      <4>1. i - 1 \in 0 .. n - 1
        BY <1>0, <1>1, <2>1
      <4> QED BY <2>4, <2>6, <4>1
    <3>4. \A m \in DOMAIN q.out : place[m] \in 1 .. q.next
      BY DEF Places
    <3>5. SnapshotOf(q, place)'
      BY <3>2, <3>3, <3>4 DEF SnapshotOf, Row
    <3> QED BY <3>5
  <2>7. ScanInv(q)'
    <3>1. q.count <= CountIn(store', t)
      BY <1>0, <1>1, <2>1
    <3>2. q.limit # NoLimit => Len(q.out) <= q.limit
      BY <2>0 DEF ScanInv
    <3>3. q.at = "answered" => q.next = q.count \/ LimitReached(q)
      BY <2>0 DEF ScanInv
    <3>4. store'[SchemaKey(t)] # NoValue
      BY <1>3, <2>0 DEF ScanInv
    <3>5. (removed = {} => UnreadInv(q))'
      BY <2>5 DEF UnreadInv, Row
    <3>6. (removed = {} => \E place \in Places(q) : SnapshotOf(q, place))'
      BY <2>6 DEF Places
    <3>7. (\A k \in DOMAIN q.out : Settled(q.out[k]))'
      BY <2>2 DEF Settled
    <3>8. (\A k \in DOMAIN q.before : q.before[k] \in q.where =>
             \/ q.before[k] \in removed \cup q.unread \cup Elements(q.out)
             \/ \E i \in q.next .. q.count - 1 : Row(q.table, i) = q.before[k])'
      BY <2>3 DEF Row, Elements
    <3> QED BY <1>1, <2>1, <3>1, <3>2, <3>3, <3>4, <3>5, <3>6, <3>7, <3>8 DEF ScanInv, LimitReached
  <2> QED BY <1>5, <2>7 DEF SelectInv
<1> QED BY <1>4, <1>5 DEF Selects

\* A ListTables that reads on is not disturbed.
LEMMA ListStays ==
  ASSUME TypeOK, Grows, NEW q \in Lists, ListInv(q),
         \A t \in Tables : Count(t) \in Nat /\ CountIn(store', t) \in Nat
  PROVE  ListInv(q)'
<1>1. ASSUME NEW t \in Tables
      PROVE  /\ Count(t) \in Nat /\ Count(t)' \in Nat /\ Count(t) <= Count(t)'
             /\ Len(q.ackedBefore[t]) \in Nat /\ q.ackedBefore \in [Tables -> Seq(Rows)]
  BY DEF Count, CountIn, Grows, Lists
<1>2. \A t \in Tables : Len(q.ackedBefore[t]) <= CountIn(store', t)
  BY <1>1 DEF ListInv, Count, CountIn
<1>3. DOMAIN q.counts \subseteq Tables /\ \A t \in DOMAIN q.counts : q.counts[t] \in Nat
  BY RowsFinite DEF Lists
<1>4. ASSUME NEW t \in DOMAIN q.counts \ q.unread
      PROVE  q.counts[t] \in Len(q.ackedBefore[t]) .. CountIn(store', t)
  <2>1. q.counts[t] \in Len(q.ackedBefore[t]) .. Count(t)
    BY DEF ListInv
  <2>2. t \in Tables /\ CountIn(store', t) = Count(t)'
    BY <1>3 DEF Count, CountIn
  <2> QED BY <1>1, <1>3, <2>1, <2>2
<1> QED BY <1>2, <1>4 DEF ListInv, Count, CountIn

\* Writers of other tables are not disturbed.
LEMMA CreateStays ==
  ASSUME NEW q, CreateInv(q), store'[SchemaKey(q.table)] = store[SchemaKey(q.table)],
         CountIn(store', q.table) = CountIn(store, q.table)
  PROVE  CreateInv(q)'
BY DEF CreateInv, Count, CountIn

LEMMA InsertStays ==
  ASSUME TypeOK, Grows, NEW q \in Inserts, InsertInv(q), TableInv(q.table),
         CountIn(store', q.table) = CountIn(store, q.table),
         used \subseteq used', q.row \notin rejected',
         Cardinality(used') \in Nat, Cardinality(used) <= Cardinality(used'),
         \A i \in RowIds : \/ store'[RowKey(q.table, i)] = store[RowKey(q.table, i)]
                           \/ /\ store'[RowKey(q.table, i)] = NoValue
                              /\ store[RowKey(q.table, i)] \in removed' \cup {NoValue}
  PROVE  InsertInv(q)'
<1> DEFINE t == q.table
<1>1. t \in Tables
  BY DEF Inserts
<1>2. /\ Count(t) \in Nat /\ Count(t)' = Count(t) /\ Cardinality(used) \in Nat
      /\ Count(t) < Cardinality(used) /\ Count(t) \in RowIds
  BY <1>1, CountsAreIds DEF Count, CountIn, InsertInv
<1>3. removed \subseteq removed'
  BY DEF Grows
<1>4. q.at # "readSchema" => store'[SchemaKey(t)] # NoValue
  BY <1>1 DEF InsertInv, Grows
<1>5. ASSUME q.at = "putCount"
      PROVE  \/ store'[RowKey(t, q.id)] = q.row
             \/ store'[RowKey(t, q.id)] = NoValue /\ q.row \in removed'
  <2>1. q.id \in RowIds
    BY <1>2, <1>5 DEF InsertInv
  <2>2. \/ store[RowKey(t, q.id)] = q.row
        \/ store[RowKey(t, q.id)] = NoValue /\ q.row \in removed
    BY <1>5 DEF InsertInv, Row
  <2>3. q.row # NoValue
    BY NoValueAssumption DEF Inserts
  <2> QED BY <1>3, <2>1, <2>2, <2>3
<1>6. q.row \in used' \ rejected' /\ Count(t) < Cardinality(used')
  BY <1>2 DEF InsertInv
<1> QED BY <1>2, <1>4, <1>5, <1>6 DEF InsertInv, Row

--------------------------------------------------------------------------------
(* The steps of one request that store nothing.                             *)

Quiet(s) ==
  /\ UNCHANGED <<store, acked, removed, created>>
  /\ session' \in [Sessions -> Statements]
  /\ \A b \in Sessions \ {s} : session'[b] = session[b]
  /\ used \subseteq used' /\ used' \subseteq Rows
  /\ rejected \subseteq rejected' /\ rejected' \subseteq used'
  /\ \A r \in rejected' \ rejected : Inserting(s) /\ r = session[s].row
  /\ rejected' # rejected => session'[s] = Idle
  /\ session'[s] \in Creates \cup Inserts =>
       \/ (Creating(s) \/ Inserting(s)) /\ session'[s].table = session[s].table
       \/ \A b \in Sessions : (Creating(b) \/ Inserting(b)) => session[b].table # session'[s].table
  /\ session'[s] \in Inserts =>
       \/ Inserting(s) /\ session'[s].row = session[s].row
       \/ session'[s].row \notin used

LEMMA StatementKinds ==
  ASSUME NEW q \in Statements
  PROVE  /\ q.at = "idle" <=> q = Idle
         /\ q \in Creates <=> q.at # "idle" /\ q.op = "create"
         /\ q \in Inserts <=> q.at # "idle" /\ q.op = "insert"
         /\ q \in Selects <=> q.at # "idle" /\ q.op = "select"
         /\ q \in Lists <=> q.at # "idle" /\ q.op = "list"
<1>1. CASE q = Idle
  BY <1>1 DEF Idle, Creates, Inserts, Selects, Lists
<1>2. CASE q \in Creates
  BY <1>2 DEF Idle, Creates, Inserts, Selects, Lists
<1>3. CASE q \in Inserts
  BY <1>3 DEF Idle, Creates, Inserts, Selects, Lists
<1>4. CASE q \in Selects
  BY <1>4 DEF Idle, Creates, Inserts, Selects, Lists
<1>5. CASE q \in Lists
  BY <1>5 DEF Idle, Creates, Inserts, Selects, Lists
<1> QED BY <1>1, <1>2, <1>3, <1>4, <1>5 DEF Statements

\* Every other request keeps its part of the invariant.
LEMMA OthersStay ==
  ASSUME IInv, Grows, NEW b \in Sessions, session'[b] = session[b],
         \A t \in Tables : CountIn(store', t) \in Nat,
         used \subseteq used', Cardinality(used') \in Nat, Cardinality(used) <= Cardinality(used'),
         Inserting(b) => session[b].row \notin rejected',
         Creating(b) \/ Inserting(b) =>
           LET t == session[b].table IN
           /\ store'[SchemaKey(t)] = store[SchemaKey(t)] /\ CountIn(store', t) = CountIn(store, t)
           /\ \A i \in RowIds : \/ store'[RowKey(t, i)] = store[RowKey(t, i)]
                                \/ /\ store'[RowKey(t, i)] = NoValue
                                   /\ store[RowKey(t, i)] \in removed' \cup {NoValue}
  PROVE  SessionInv(b)'
<1> DEFINE q == session[b]
<1>0. TypeOK /\ q \in Statements /\ SessionInv(b) /\ \A t \in Tables : TableInv(t)
  BY DEF IInv, TypeOK
<1>1. ASSUME q \in Creates PROVE CreateInv(q)'
  <2>1. CreateInv(q) BY <1>0, <1>1 DEF SessionInv, StatementInv
  <2> QED BY <1>1, <2>1, CreateStays DEF Creating
<1>2. ASSUME q \in Inserts PROVE InsertInv(q)'
  <2>1. InsertInv(q) /\ q.table \in Tables BY <1>0, <1>2 DEF SessionInv, StatementInv, Inserts
  <2> QED BY <1>0, <1>2, <2>1, InsertStays DEF Inserting
<1>3. ASSUME q \in Selects PROVE SelectInv(q)'
  <2>1. SelectInv(q) /\ q.table \in Tables BY <1>0, <1>3 DEF SessionInv, StatementInv, Selects
  <2> QED BY <1>0, <1>3, <2>1, SelectStays
<1>4. ASSUME q \in Lists PROVE ListInv(q)'
  <2>1. ListInv(q) BY <1>0, <1>4 DEF SessionInv, StatementInv
  <2>2. \A t \in Tables : Count(t) \in Nat BY <1>0, CountsAreIds
  <2> QED BY <1>0, <1>4, <2>1, <2>2, ListStays
<1> QED BY <1>1, <1>2, <1>3, <1>4 DEF SessionInv, StatementInv

LEMMA QuietGrows ==
  ASSUME IInv, NEW s \in Sessions, Quiet(s)
  PROVE  /\ TypeOK' /\ Grows /\ Cardinality(used') \in Nat /\ Cardinality(used) <= Cardinality(used')
         /\ \A t \in Tables : CountIn(store, t) \in Nat /\ CountIn(store', t) = CountIn(store, t)
<1>0. TypeOK /\ Turns /\ \A t \in Tables : TableInv(t)
  BY DEF IInv
<1>1. TypeOK'
  <2>1. \A t \in Tables, i \in RowIds : store'[RowKey(t, i)] \in used' \cup {NoValue}
    BY <1>0 DEF TypeOK, Quiet
  <2> QED BY <1>0, <2>1 DEF TypeOK, Quiet
<1>2. Cardinality(used') \in Nat /\ Cardinality(used) <= Cardinality(used')
  <2>1. IsFiniteSet(used') BY RowsFinite DEF Quiet
  <2> QED BY <2>1, FS_Subset, FS_CardinalityType DEF Quiet
<1>3. ASSUME NEW r, SettledIn(used, rejected, session, r)
      PROVE  SettledIn(used', rejected', session', r)
  <2>1. r \in used' \ rejected'
    BY <1>3 DEF Quiet, SettledIn, Inserting
  <2>2. ASSUME NEW b \in Sessions, session'[b] \in Inserts PROVE session'[b].row # r
    <3>1. CASE b # s
      BY <1>3, <2>2, <3>1 DEF Quiet, SettledIn
    <3>2. CASE b = s
      BY <1>3, <2>2, <3>2 DEF Quiet, SettledIn, Inserting
    <3> QED BY <3>1, <3>2
  <2> QED BY <2>1, <2>2 DEF SettledIn
<1>4. Grows
  <2>1. \A t \in Tables : CountIn(store, t) \in Nat /\ CountIn(store', t) = CountIn(store, t)
    BY <1>0, CountsAreIds DEF Count, CountIn, Quiet
  <2> QED BY <1>3, <2>1 DEF Grows, Quiet
<1>5. \A t \in Tables : CountIn(store, t) \in Nat /\ CountIn(store', t) = CountIn(store, t)
  BY <1>0, CountsAreIds DEF Count, CountIn, Quiet
<1> QED BY <1>1, <1>2, <1>4, <1>5

LEMMA QuietStep ==
  ASSUME IInv, NEW s \in Sessions, Quiet(s), SessionInv(s)'
  PROVE  IInv'
<1>0. TypeOK /\ Turns /\ \A t \in Tables : TableInv(t)
  BY DEF IInv
<1>1. TypeOK'
  BY QuietGrows
<1>2. Cardinality(used') \in Nat /\ Cardinality(used) <= Cardinality(used')
  BY QuietGrows
<1>4. Grows
  BY QuietGrows
<1>5. \A t \in Tables : CountIn(store, t) \in Nat /\ CountIn(store', t) = CountIn(store, t)
  BY QuietGrows
<1>6. ASSUME NEW t \in Tables PROVE TableInv(t)'
  BY <1>0, <1>2, <1>4, <1>5, TableStays DEF Quiet
<1>7. Turns'
  <2> SUFFICES ASSUME NEW a \in Sessions, NEW b \in Sessions, a # b
               PROVE  /\ (session'[a] \in Creates \/ session'[a] \in Inserts) /\ (session'[b] \in Creates \/ session'[b] \in Inserts)
                           => session'[a].table # session'[b].table
                      /\ session'[a] \in Inserts /\ session'[b] \in Inserts => session'[a].row # session'[b].row
    BY DEF Turns, Creating, Inserting
  <2>1. \A c \in Sessions : Inserting(c) => session[c].row \in used
    BY DEF IInv, SessionInv, StatementInv, InsertInv, Inserting
  <2>2. CASE a # s /\ b # s
    BY <1>0, <2>2 DEF Turns, Creating, Inserting, Quiet
  <2>3. CASE a = s
    <3>1. session'[b] = session[b]
      BY <2>3 DEF Quiet
    <3> QED BY <1>0, <2>1, <2>3, <3>1 DEF Turns, Creating, Inserting, Quiet
  <2>4. CASE b = s
    <3>1. session'[a] = session[a]
      BY <2>4 DEF Quiet
    <3> QED BY <1>0, <2>1, <2>4, <3>1 DEF Turns, Creating, Inserting, Quiet
  <2> QED BY <2>2, <2>3, <2>4
<1>8. ASSUME NEW b \in Sessions, b # s PROVE SessionInv(b)'
  <2>1. Inserting(b) => session[b].row \notin rejected'
    <3>1. Inserting(b) => session[b].row \notin rejected
      BY DEF IInv, SessionInv, StatementInv, InsertInv, Inserting
    <3> QED BY <1>0, <1>8, <3>1 DEF Turns, Quiet
  <2>2. Creating(b) \/ Inserting(b) => session[b].table \in Tables
    BY DEF Creating, Inserting, Creates, Inserts
  <2> QED BY <1>2, <1>4, <1>5, <1>8, <2>1, <2>2, OthersStay DEF Quiet
<1> QED BY <1>1, <1>6, <1>7, <1>8 DEF IInv

\* A request goes on to q, and nothing else changes.
LEMMA QuietMove ==
  ASSUME IInv, NEW s \in Sessions, NEW q \in Statements, Become(s, q),
         UNCHANGED <<store, history, used>>, StatementInv(q),
         q \in Creates => Creating(s) /\ q.table = session[s].table,
         q \in Inserts => Inserting(s) /\ q.table = session[s].table /\ q.row = session[s].row
  PROVE  IInv'
<1>0. TypeOK /\ \A t \in Tables : TableInv(t)
  BY DEF IInv
<1>1. session'[s] = q /\ session' \in [Sessions -> Statements]
      /\ \A b \in Sessions \ {s} : session'[b] = session[b]
  BY <1>0 DEF TypeOK, Become
<1>2. Quiet(s)
  BY <1>0, <1>1 DEF Quiet, TypeOK, history
<1>3. Grows /\ TypeOK' /\ \A t \in Tables : CountIn(store', t) \in Nat
  BY <1>2, QuietGrows
<1>4. SessionInv(s)'
  <2>1. ASSUME q \in Creates PROVE CreateInv(q)'
    BY <2>1, CreateStays DEF StatementInv, history
  <2>2. ASSUME q \in Inserts PROVE InsertInv(q)'
    BY <2>2 DEF StatementInv, InsertInv, Row, Count, history
  <2>3. ASSUME q \in Selects PROVE SelectInv(q)'
    <3>1. SelectInv(q) /\ q.table \in Tables BY <2>3 DEF StatementInv, Selects
    <3> QED BY <1>0, <1>3, <2>3, <3>1, SelectStays
  <2>4. ASSUME q \in Lists PROVE ListInv(q)'
    <3>1. ListInv(q) BY <2>4 DEF StatementInv
    <3>2. \A t \in Tables : Count(t) \in Nat BY <1>0, CountsAreIds
    <3> QED BY <1>0, <1>3, <2>4, <3>1, <3>2, ListStays
  <2> QED BY <1>1, <2>1, <2>2, <2>3, <2>4 DEF SessionInv, StatementInv
<1> QED BY <1>2, <1>4, QuietStep

\* A request ends.
LEMMA IdleKeeps ==
  ASSUME IInv, NEW s \in Sessions, Become(s, Idle), UNCHANGED <<store, history, used>>
  PROVE  IInv'
<1>1. Idle \in Statements /\ Idle \notin Creates \cup Inserts \cup Selects \cup Lists
  <2>1. Idle \in Statements /\ Idle.at = "idle" BY DEF Statements, Idle
  <2> QED BY <2>1, StatementKinds
<1>2. StatementInv(Idle)
  BY <1>1 DEF StatementInv
<1> QED BY <1>1, <1>2, QuietMove

LEMMA FailKeeps ==
  ASSUME IInv, NEW s \in Sessions, At(s) # "idle", Fail(s)
  PROVE  IInv'
<1>0. TypeOK /\ session[s] \in Statements
  BY DEF IInv, TypeOK
<1>1. Idle \in Statements /\ Idle \notin Creates \cup Inserts \cup Selects \cup Lists
  <2>1. Idle \in Statements /\ Idle.at = "idle" BY DEF Statements, Idle
  <2> QED BY <2>1, StatementKinds
<1>2. session[s].op = "insert" => Inserting(s) /\ session[s].row \in used
  <2>1. session[s].op = "insert" => session[s] \in Inserts
    BY <1>0, StatementKinds DEF At
  <2>2. SessionInv(s)
    BY DEF IInv
  <2> QED BY <2>1, <2>2 DEF SessionInv, StatementInv, InsertInv, Inserting
<1>3. session'[s] = Idle /\ session' \in [Sessions -> Statements]
      /\ \A b \in Sessions \ {s} : session'[b] = session[b]
  BY <1>0, <1>1 DEF TypeOK, Fail, Become
<1>4. Quiet(s)
  BY <1>0, <1>1, <1>2, <1>3 DEF Quiet, TypeOK, Fail
<1>5. SessionInv(s)'
  BY <1>1, <1>3 DEF SessionInv, StatementInv
<1> QED BY <1>4, <1>5, QuietStep

--------------------------------------------------------------------------------
(* Statements that begin.                                                   *)

LEMMA WritersBusy ==
  ASSUME TypeOK, TurnTaking, NEW t, MayWrite(t), NEW b \in Sessions, Creating(b) \/ Inserting(b)
  PROVE  session[b].table # t
<1>1. session[b] \in Statements
  BY DEF TypeOK
<1>2. b \in Busy /\ session[b].op \in {"create", "insert"}
  BY <1>1, StatementKinds DEF Creating, Inserting, Busy, At
<1> QED BY <1>2 DEF TurnTaking, MayWrite, Writing

LEMMA BeginCreateKeeps ==
  ASSUME IInv, TurnTaking, NEW s \in Sessions, NEW t \in Tables, NEW n \in Schemas,
         BeginCreate(s, t, n)
  PROVE  IInv'
<1> DEFINE q == [op |-> "create", at |-> "checkAbsent", table |-> t, columns |-> n]
<1>0. TypeOK
  BY DEF IInv
<1>1. q \in Creates /\ q \in Statements
  BY DEF Creates, Statements
<1>2. q \notin Inserts \cup Selects \cup Lists
  BY <1>1, StatementKinds
<1>3. session'[s] = q /\ session' \in [Sessions -> Statements]
      /\ \A b \in Sessions \ {s} : session'[b] = session[b]
  BY <1>0, <1>1 DEF TypeOK, BeginCreate, Become
<1>4. \A b \in Sessions : (Creating(b) \/ Inserting(b)) => session[b].table # t
  BY <1>0, WritersBusy DEF BeginCreate
<1>5. Quiet(s)
  BY <1>0, <1>1, <1>2, <1>3, <1>4 DEF Quiet, BeginCreate, history, TypeOK
<1>6. SessionInv(s)'
  BY <1>1, <1>2, <1>3 DEF SessionInv, StatementInv, CreateInv
<1> QED BY <1>5, <1>6, QuietStep

LEMMA BeginInsertKeeps ==
  ASSUME IInv, TurnTaking, NEW s \in Sessions, NEW t \in Tables, NEW r \in Rows,
         BeginInsert(s, t, r)
  PROVE  IInv'
<1> DEFINE q == [op |-> "insert", at |-> "readSchema", table |-> t, row |-> r, id |-> 0]
<1>0. TypeOK /\ TableInv(t)
  BY DEF IInv
<1>1. q \in Inserts /\ q \in Statements
  BY DEF Inserts, Statements
<1>2. q \notin Creates \cup Selects \cup Lists
  BY <1>1, StatementKinds
<1>3. session'[s] = q /\ session' \in [Sessions -> Statements]
      /\ \A b \in Sessions \ {s} : session'[b] = session[b]
  BY <1>0, <1>1 DEF TypeOK, BeginInsert, Become
<1>4. \A b \in Sessions : (Creating(b) \/ Inserting(b)) => session[b].table # t
  BY <1>0, WritersBusy DEF BeginInsert
<1>5. r \notin used /\ used' = used \cup {r} /\ used \subseteq Rows /\ rejected \subseteq used
  BY <1>0 DEF BeginInsert, TypeOK
<1>6. Quiet(s)
  BY <1>0, <1>1, <1>2, <1>3, <1>4, <1>5 DEF Quiet, BeginInsert, history, TypeOK
<1>7. InsertInv(q)'
  <2>1. Cardinality(used') = Cardinality(used) + 1 /\ Cardinality(used) \in Nat
    BY <1>5, RowsFinite
  <2>2. Count(t) <= Cardinality(used) /\ Count(t) \in Nat
    BY <1>0, CountsAreIds DEF TableInv
  <2>3. Count(t)' = Count(t) /\ rejected' = rejected
    BY DEF Count, BeginInsert, history
  <2> QED BY <1>5, <2>1, <2>2, <2>3 DEF InsertInv
<1>8. SessionInv(s)'
  BY <1>1, <1>2, <1>3, <1>7 DEF SessionInv, StatementInv
<1> QED BY <1>6, <1>8, QuietStep

LEMMA BeginSelectKeeps ==
  ASSUME IInv, NEW s \in Sessions, NEW t \in Tables, NEW c \in Conditions, NEW n \in Limits,
         BeginSelect(s, t, c, n)
  PROVE  IInv'
<1> DEFINE q == [op |-> "select", at |-> "readSchema", table |-> t, where |-> c,
                limit |-> n, next |-> 0, count |-> 0, out |-> <<>>,
                unread |-> {}, before |-> acked[t]]
<1>0. TypeOK /\ TableInv(t)
  BY DEF IInv
<1>1. q \in Selects
  <2>1. acked[t] \in Seq(Rows) /\ c \in SUBSET Rows /\ n \in Nat \cup {NoLimit}
    BY <1>0, RowsAssumption, LimitsAssumption DEF TypeOK
  <2> QED BY <2>1 DEF Selects
<1>2. q \in Statements /\ q \notin Creates \cup Inserts \cup Lists
  <2>1. q \in Statements BY <1>1 DEF Statements
  <2> QED BY <1>1, <2>1, StatementKinds
<1>3. SelectInv(q)
  BY <1>0 DEF SelectInv, TableInv
<1>4. StatementInv(q)
  BY <1>2, <1>3 DEF StatementInv
<1> QED BY <1>2, <1>4, QuietMove DEF BeginSelect

\* A scan begins a listing, whatever schemas it missed.
LEMMA ScanSchemasKeeps ==
  ASSUME IInv, NEW s \in Sessions, NEW missed \in SUBSET Tables, ScanSchemas(s, missed),
         UNCHANGED <<store, history, used>>
  PROVE  IInv'
<1> DEFINE q == [op |-> "list", at |-> "readCounts",
                todo |-> {t \in Tables \ missed : store[SchemaKey(t)] # NoValue},
                counts |-> [t \in {} |-> 0], unread |-> missed, ackedBefore |-> acked,
                known |-> created]
<1>0. TypeOK /\ \A t \in Tables : TableInv(t)
  BY DEF IInv
<1>1. q \in Lists
  <2>1. acked \in [Tables -> Seq(Rows)] /\ created \in [Tables -> Nat]
    BY <1>0 DEF TypeOK
  <2>2. [t \in {} |-> 0] \in [{} -> 0 .. Cardinality(Rows)]
    OBVIOUS
  <2>3. [t \in {} |-> 0] \in UNION {[T -> 0 .. Cardinality(Rows)] : T \in SUBSET Tables}
    BY <2>2
  <2> QED BY <2>1, <2>3 DEF Lists
<1>2. q \in Statements /\ q \notin Creates \cup Inserts \cup Selects
  <2>1. q \in Statements BY <1>1 DEF Statements
  <2> QED BY <1>1, <2>1, StatementKinds
<1>3. ListInv(q)
  BY <1>0 DEF ListInv, TableInv, TypeOK
<1>4. StatementInv(q)
  BY <1>2, <1>3 DEF StatementInv
<1> QED BY <1>2, <1>4, QuietMove DEF ScanSchemas

LEMMA BeginListKeeps ==
  ASSUME IInv, NEW s \in Sessions, BeginList(s) \/ ListScanFails(s)
  PROVE  IInv'
<1>1. UNCHANGED <<store, history, used>>
  BY DEF BeginList, ListScanFails
<1>2. CASE \E missed \in SUBSET Tables : ScanSchemas(s, missed)
  BY <1>1, <1>2, ScanSchemasKeeps
<1>3. CASE UNCHANGED session
  <2>1. Become(s, session[s]) /\ session[s] \in Statements
    BY <1>3 DEF Become, IInv, TypeOK
  <2>2. StatementInv(session[s])
    BY DEF IInv, SessionInv
  <2> QED BY <1>1, <2>1, <2>2, QuietMove DEF Creating, Inserting
<1> QED BY <1>2, <1>3 DEF BeginList, ListScanFails

--------------------------------------------------------------------------------
(* The checks and reads of the writers.                                     *)

LEMMA CreateCheckKeeps ==
  ASSUME IInv, NEW s \in Sessions, CreateCheck(s)
  PROVE  IInv'
<1> DEFINE p == session[s]
<1>0. p \in Creates
  BY StatementKinds DEF IInv, TypeOK, CreateCheck, At, Statements, Idle, Inserts, Selects, Lists
<1>1. PICK q : q = [p EXCEPT !.at = "putSchema"]
  OBVIOUS
<1>2. q \in Creates /\ q.table = p.table /\ q.at = "putSchema"
  BY <1>0, <1>1 DEF Creates
<1>3. q \in Statements /\ q \notin Inserts \cup Lists \cup Selects
  <2>1. q \in Statements BY <1>2 DEF Statements
  <2> QED BY <1>2, <2>1, StatementKinds
<1>4. StatementInv(q)
  BY <1>2, <1>3 DEF StatementInv, CreateInv, CreateCheck
<1>5. Become(s, q)
  BY <1>1 DEF CreateCheck, Become, Continue, IInv, TypeOK
<1> QED BY <1>0, <1>2, <1>3, <1>4, <1>5, QuietMove DEF CreateCheck, Creating

LEMMA InsertReadSchemaKeeps ==
  ASSUME IInv, NEW s \in Sessions, InsertReadSchema(s)
  PROVE  IInv'
<1> DEFINE p == session[s]
<1>0. p \in Inserts /\ InsertInv(p)
  BY StatementKinds DEF IInv, TypeOK, InsertReadSchema, At, SessionInv, StatementInv
<1>1. PICK q : q = [p EXCEPT !.at = "readCount"]
  OBVIOUS
<1>2. q \in Inserts /\ q.table = p.table /\ q.at = "readCount" /\ q.row = p.row
  BY <1>0, <1>1 DEF Inserts
<1>3. q \in Statements /\ q \notin Creates \cup Lists \cup Selects
  <2>1. q \in Statements BY <1>2 DEF Statements
  <2> QED BY <1>2, <2>1, StatementKinds
<1>4. store[SchemaKey(p.table)] # NoValue
  BY <1>0, WidthAssumption, NoValueAssumption DEF InsertReadSchema, Inserts
<1>5. StatementInv(q)
  BY <1>0, <1>2, <1>3, <1>4 DEF StatementInv, InsertInv
<1>6. Become(s, q)
  BY <1>1 DEF InsertReadSchema, Become, Continue, IInv, TypeOK
<1> QED BY <1>0, <1>2, <1>3, <1>5, <1>6, QuietMove DEF InsertReadSchema, Inserting

LEMMA InsertReadCountKeeps ==
  ASSUME IInv, NEW s \in Sessions, InsertReadCount(s)
  PROVE  IInv'
<1> DEFINE p == session[s]
<1>0. p \in Inserts /\ InsertInv(p) /\ TypeOK /\ p.table \in Tables /\ TableInv(p.table)
  <2>1. p \in Inserts
    BY StatementKinds DEF IInv, TypeOK, InsertReadCount, At
  <2> QED BY <2>1 DEF IInv, SessionInv, StatementInv, Inserts
<1>1. Count(p.table) \in Nat
  BY <1>0, CountsAreIds
<1>2. PICK a : a = [p EXCEPT !.at = "putRow"]
  OBVIOUS
<1>3. PICK q : q = [a EXCEPT !.id = Count(p.table)]
  OBVIOUS
<1>4. /\ q \in Inserts /\ q.table = p.table /\ q.at = "putRow" /\ q.row = p.row
      /\ q.id = Count(p.table)
  BY <1>0, <1>1, <1>2, <1>3 DEF Inserts
<1>5. q \in Statements /\ q \notin Creates \cup Lists \cup Selects
  <2>1. q \in Statements BY <1>4 DEF Statements
  <2> QED BY <1>4, <2>1, StatementKinds
<1>6. StatementInv(q)
  BY <1>0, <1>4, <1>5 DEF StatementInv, InsertInv, InsertReadCount, At
<1>7. Become(s, q)
  BY <1>2, <1>3 DEF InsertReadCount
<1> QED BY <1>0, <1>4, <1>5, <1>6, <1>7, QuietMove DEF InsertReadCount, Inserting

--------------------------------------------------------------------------------
(* The steps of SELECT.                                                     *)

LEMMA SelectFacts ==
  ASSUME IInv, NEW s \in Sessions, session[s] \in Selects
  PROVE  LET p == session[s] IN
         /\ TypeOK /\ SelectInv(p) /\ p.table \in Tables /\ TableInv(p.table)
         /\ p.next \in Nat /\ p.count \in Nat /\ p.out \in Seq(Rows) /\ p.limit \in Nat \cup {NoLimit}
         /\ p.where \subseteq Rows /\ p.unread \subseteq Rows /\ p.before \in Seq(Rows)
         /\ Count(p.table) \in Nat /\ \A i \in 0 .. Count(p.table) - 1 : i \in RowIds
<1>1. TypeOK /\ SelectInv(session[s])
  BY DEF IInv, SessionInv, StatementInv
<1>2. session[s].table \in Tables
  BY DEF Selects
<1>3. TableInv(session[s].table)
  BY <1>2 DEF IInv
<1> QED BY <1>1, <1>2, <1>3, CountsAreIds DEF Selects

LEMMA Scanning ==
  ASSUME TypeOK, NEW s \in Sessions, At(s) = "scan"
  PROVE  session[s] \in Selects
<1>1. session[s] \in Statements /\ session[s].at = "scan"
  BY DEF TypeOK, At
<1> QED BY <1>1 DEF Statements, Idle, Creates, Inserts, Lists

\* The request goes on with its SELECT.
LEMMA SelectMove ==
  ASSUME IInv, NEW s \in Sessions, NEW q \in Selects, SelectInv(q), Become(s, q),
         UNCHANGED <<store, history, used>>
  PROVE  IInv'
<1>1. q \in Statements /\ q \notin Creates \cup Inserts \cup Lists
  <2>1. q \in Statements BY DEF Statements
  <2> QED BY <2>1, StatementKinds
<1>2. StatementInv(q)
  BY <1>1 DEF StatementInv
<1> QED BY <1>1, <1>2, QuietMove

LEMMA SelectReadSchemaKeeps ==
  ASSUME IInv, NEW s \in Sessions, SelectReadSchema(s)
  PROVE  IInv'
<1> DEFINE p == session[s]
<1>0. p \in Selects
  BY StatementKinds DEF IInv, TypeOK, SelectReadSchema, At
<1>1. PICK q : q = [p EXCEPT !.at = "readCount"]
  OBVIOUS
<1>2. /\ q \in Selects /\ q.at = "readCount" /\ q.table = p.table
      /\ q.next = p.next /\ q.out = p.out /\ q.unread = p.unread /\ q.before = p.before
  BY <1>0, <1>1 DEF Selects
<1>3. SelectInv(q)
  BY <1>0, <1>2, SelectFacts DEF SelectInv, SelectReadSchema, At
<1>4. Become(s, q)
  BY <1>1 DEF SelectReadSchema, Become, Continue, IInv, TypeOK
<1> QED BY <1>2, <1>3, <1>4, SelectMove DEF SelectReadSchema

LEMMA SelectReadCountKeeps ==
  ASSUME IInv, NEW s \in Sessions, SelectReadCount(s)
  PROVE  IInv'
<1> DEFINE p == session[s]
           n == Count(p.table)
<1>0. p \in Selects /\ p.at = "readCount"
  BY StatementKinds DEF IInv, TypeOK, SelectReadCount, At
<1>1. PICK a : a = [p EXCEPT !.at = "scan"]
  OBVIOUS
<1>2. PICK q : q = [a EXCEPT !.count = n]
  OBVIOUS
<1>3. n \in Nat
  BY <1>0, SelectFacts
<1>4. /\ q \in Selects /\ q.at = "scan" /\ q.table = p.table /\ q.where = p.where
      /\ q.next = p.next /\ q.out = p.out /\ q.unread = p.unread /\ q.before = p.before
      /\ q.count = n /\ q.limit = p.limit
  BY <1>0, <1>1, <1>2, <1>3 DEF Selects
<1>5. /\ q.next = 0 /\ q.out = <<>> /\ q.unread = {} /\ store[SchemaKey(q.table)] # NoValue
      /\ \A k \in DOMAIN q.before : Kept(q.table, q.before[k])
  BY <1>0, <1>4, SelectFacts DEF SelectInv
<1>6. ScanInv(q)
  <2>1. DOMAIN q.out = {} /\ Len(q.out) = 0
    BY <1>5
  <2>2. q.limit # NoLimit => Len(q.out) <= q.limit
    BY <1>4, <2>1 DEF Selects
  <2>3. ASSUME NEW k \in DOMAIN q.before
        PROVE  \/ q.before[k] \in removed \cup q.unread \cup Elements(q.out)
               \/ \E i \in q.next .. q.count - 1 : Row(q.table, i) = q.before[k]
    BY <1>4, <1>5 DEF Kept
  <2>4. \E place \in Places(q) : SnapshotOf(q, place)
    <3>1. PICK place : place = [m \in {} |-> 0]
      OBVIOUS
    <3>2. place \in Places(q)
      BY <2>1, <3>1 DEF Places
    <3>3. 1 .. q.next = {}
      BY <1>5
    <3>4. SnapshotOf(q, place)
      BY <2>1, <3>3 DEF SnapshotOf
    <3> QED BY <3>2, <3>4
  <2> QED BY <1>3, <1>4, <1>5, <2>1, <2>2, <2>3, <2>4 DEF ScanInv, UnreadInv
<1>7. SelectInv(q)
  BY <1>4, <1>6 DEF SelectInv
<1>8. Become(s, q)
  BY <1>1, <1>2 DEF SelectReadCount
<1> QED BY <1>4, <1>7, <1>8, SelectMove DEF SelectReadCount

\* Rows below the counter are told apart by their ids.
LEMMA RowsDiffer ==
  ASSUME IInv, NEW t \in Tables, NEW i \in 0 .. Count(t) - 1, NEW j \in 0 .. Count(t) - 1,
         Row(t, i) = Row(t, j), Row(t, i) # NoValue
  PROVE  i = j
BY DEF IInv, TableInv

LEMMA SelectRowKeeps ==
  ASSUME IInv, NEW s \in Sessions, SelectRow(s)
  PROVE  IInv'
<1> DEFINE p == session[s]
           t == p.table
           row == RowOf(s)
<1>0. p \in Selects /\ p.at = "scan" /\ p.next < p.count /\ ~ LimitReached(p)
  BY Scanning DEF IInv, SelectRow, InLoop, At
<1>1. /\ t \in Tables /\ TableInv(t) /\ Count(t) \in Nat /\ SelectInv(p)
      /\ p.next \in Nat /\ p.count \in Nat /\ p.out \in Seq(Rows) /\ p.where \subseteq Rows
      /\ p.limit \in Nat \cup {NoLimit}
  BY <1>0, SelectFacts
<1>2. ScanInv(p) /\ p.count <= Count(t) /\ row = Row(t, p.next) /\ p.next \in 0 .. Count(t) - 1
  BY <1>0, <1>1 DEF SelectInv, ScanInv, RowOf, Row
<1>3. PICK a : a = [p EXCEPT !.next = @ + 1]
  OBVIOUS
<1>4. PICK q : q = [a EXCEPT !.out = IF row \in p.where THEN Append(@, row) ELSE @]
  OBVIOUS
<1>5. q = Scanned(p, row)
  BY <1>0, <1>3, <1>4 DEF Scanned, Selects
<1> DEFINE next == p.next + 1
             out == IF row \in p.where THEN Append(p.out, row) ELSE p.out
<1>7. next \in Nat /\ out \in Seq(Rows)
  BY <1>1
<1>8. /\ q \in Selects /\ q.at = "scan" /\ q.table = t /\ q.where = p.where /\ q.limit = p.limit
      /\ q.next = next /\ q.count = p.count /\ q.out = out /\ q.unread = p.unread
      /\ q.before = p.before
  BY <1>0, <1>3, <1>4, <1>7 DEF Selects
<1>9. row \in p.where => row # NoValue
  BY <1>1, NoValueAssumption
<1>10. /\ Len(out) = IF row \in p.where THEN Len(p.out) + 1 ELSE Len(p.out)
       /\ \A k \in 1 .. Len(p.out) : out[k] = p.out[k]
       /\ row \in p.where => out[Len(p.out) + 1] = row
       /\ DOMAIN out = 1 .. Len(out) /\ DOMAIN p.out = 1 .. Len(p.out) /\ Len(p.out) \in Nat
  BY <1>1
<1>11. q.limit # NoLimit => Len(q.out) <= q.limit
  BY <1>0, <1>1, <1>2, <1>8, <1>10 DEF ScanInv, LimitReached
<1>12. ASSUME NEW k \in DOMAIN out PROVE Settled(out[k])
  <2>1. CASE k \in DOMAIN p.out
    BY <1>2, <1>10, <2>1 DEF ScanInv
  <2>2. CASE k \notin DOMAIN p.out
    <3>1. row \in p.where /\ out[k] = row
      BY <1>10, <2>2
    <3> QED BY <1>1, <1>2, <1>9, <3>1 DEF TableInv
  <2> QED BY <2>1, <2>2
<1>13. Elements(p.out) \subseteq Elements(out) /\ (row \in p.where => row \in Elements(out))
  BY <1>10 DEF Elements
<1>14. ASSUME NEW k \in DOMAIN p.before, p.before[k] \in p.where
       PROVE  \/ p.before[k] \in removed \cup p.unread \cup Elements(out)
              \/ \E i \in next .. p.count - 1 : Row(t, i) = p.before[k]
  <2>1. CASE p.before[k] \in removed \cup p.unread \cup Elements(p.out)
    BY <1>13, <2>1
  <2>2. CASE \E i \in p.next .. p.count - 1 : Row(t, i) = p.before[k]
    <3>1. PICK i \in p.next .. p.count - 1 : Row(t, i) = p.before[k]
      BY <2>2
    <3>2. CASE i = p.next
      BY <1>2, <1>13, <1>14, <3>1, <3>2
    <3>3. CASE i # p.next
      <4>1. i \in next .. p.count - 1 BY <1>1, <3>3
      <4> QED BY <3>1, <4>1
    <3> QED BY <3>2, <3>3
  <2> QED BY <1>2, <1>14, <2>1, <2>2 DEF ScanInv
<1>15. ASSUME removed = {} PROVE UnreadInv(q)
  <2>1. ASSUME NEW r \in p.unread PROVE \E i \in 0 .. next - 1 : Row(t, i) = r
    <3>1. PICK i \in 0 .. p.next - 1 : Row(t, i) = r
      BY <1>2, <1>15 DEF ScanInv, UnreadInv
    <3>2. i \in 0 .. next - 1 BY <1>1
    <3> QED BY <3>1, <3>2
  <2> QED BY <1>8, <2>1 DEF UnreadInv
<1>16. ASSUME removed = {} PROVE \E place \in Places(q) : SnapshotOf(q, place)
  <2>1. PICK old \in Places(p) : SnapshotOf(p, old)
    BY <1>2, <1>16 DEF ScanInv
  <2>2. old \in [1 .. Len(p.out) -> 1 .. p.next]
    BY <1>10 DEF Places
  <2>3. row \in p.where => row \notin p.unread
    <3> SUFFICES ASSUME row \in p.where, row \in p.unread PROVE FALSE
      OBVIOUS
    <3>1. PICK i \in 0 .. p.next - 1 : Row(t, i) = row
      BY <1>2, <1>16 DEF ScanInv, UnreadInv
    <3>2. i \in 0 .. Count(t) - 1 /\ i # p.next
      BY <1>1, <1>2
    <3> QED BY <1>1, <1>2, <1>9, <3>1, <3>2, RowsDiffer
  <2>4. CASE row \in p.where
    <3>1. PICK place : place = [m \in 1 .. Len(p.out) + 1 |-> IF m <= Len(p.out) THEN old[m] ELSE next]
      OBVIOUS
    <3>2. DOMAIN q.out = 1 .. Len(p.out) + 1
      BY <1>8, <1>10, <2>4
    <3>3. /\ \A m \in 1 .. Len(p.out) : place[m] = old[m] /\ old[m] \in 1 .. p.next
          /\ place[Len(p.out) + 1] = next
      <4>1. ASSUME NEW m \in 1 .. Len(p.out)
            PROVE  m \in 1 .. Len(p.out) + 1 /\ m <= Len(p.out) /\ old[m] \in 1 .. p.next
        BY <1>10, <2>2
      <4>2. Len(p.out) + 1 \in 1 .. Len(p.out) + 1 /\ ~ (Len(p.out) + 1 <= Len(p.out))
        BY <1>10
      <4> QED BY <3>1, <4>1, <4>2
    <3>4. place \in Places(q)
      BY <1>1, <1>8, <1>10, <2>2, <3>1, <3>2 DEF Places
    <3>5. ASSUME NEW m \in DOMAIN q.out, NEW n \in DOMAIN q.out, m < n PROVE place[m] < place[n]
      <4>1. m \in 1 .. Len(p.out)
        BY <1>10, <3>2, <3>5
      <4>2. CASE n = Len(p.out) + 1
        BY SMTT(30), <1>1, <3>3, <4>1, <4>2
      <4>3. CASE n # Len(p.out) + 1
        <5>1. n \in 1 .. Len(p.out) BY <1>10, <3>2, <4>3
        <5> QED BY <1>10, <2>1, <3>3, <3>5, <4>1, <5>1 DEF SnapshotOf
      <4> QED BY <4>2, <4>3
    <3>6. ASSUME NEW m \in DOMAIN q.out
          PROVE  Row(t, place[m] - 1) = out[m] /\ out[m] \in p.where \ p.unread
      <4>1. CASE m = Len(p.out) + 1
        BY SMTT(30), <1>1, <1>2, <1>10, <2>3, <2>4, <3>3, <4>1
      <4>2. CASE m # Len(p.out) + 1
        <5>1. m \in 1 .. Len(p.out) BY <1>10, <3>2, <4>2
        <5> QED BY <1>10, <2>1, <3>3, <5>1 DEF SnapshotOf
      <4> QED BY <4>1, <4>2
    <3>7. ASSUME NEW i \in 1 .. next, Row(t, i - 1) \in p.where \ p.unread
          PROVE  \E m \in DOMAIN q.out : place[m] = i
      <4>1. CASE i = next
        BY <1>10, <3>2, <3>3, <4>1
      <4>2. CASE i # next
        <5>1. i \in 1 .. p.next BY <1>1, <4>2
        <5>2. PICK m \in DOMAIN p.out : old[m] = i
          BY <2>1, <3>7, <5>1 DEF SnapshotOf
        <5> QED BY <1>10, <3>2, <3>3, <5>2
      <4> QED BY <4>1, <4>2
    <3>8. SnapshotOf(q, place)
      BY <1>8, <3>5, <3>6, <3>7 DEF SnapshotOf
    <3> QED BY <3>4, <3>8
  <2>5. CASE row \notin p.where
    <3>1. q.out = p.out
      BY <1>8, <2>5
    <3>2. old \in Places(q)
      <4>1. 1 .. p.next \subseteq 1 .. next
        BY <1>1
      <4>2. old \in [DOMAIN p.out -> 1 .. next]
        BY <2>2, <1>10, <4>1
      <4> QED BY <1>8, <3>1, <4>2 DEF Places
    <3>3. ASSUME NEW i \in 1 .. next, Row(t, i - 1) \in p.where \ p.unread
          PROVE  \E m \in DOMAIN p.out : old[m] = i
      <4>1. i # next
        BY <1>1, <1>2, <2>5, <3>3
      <4>2. i \in 1 .. p.next BY <1>1, <4>1
      <4> QED BY <2>1, <3>3, <4>2 DEF SnapshotOf
    <3>4. SnapshotOf(q, old)
      BY <1>8, <2>1, <3>1, <3>3 DEF SnapshotOf
    <3> QED BY <3>2, <3>4
  <2> QED BY <2>4, <2>5
<1>17. next <= p.count
  BY <1>0, <1>1
<1>18. ScanInv(q)
  BY <1>2, <1>8, <1>11, <1>12, <1>14, <1>15, <1>16, <1>17 DEF ScanInv
<1>19. SelectInv(q)
  BY <1>8, <1>18 DEF SelectInv
<1>20. Become(s, q)
  BY <1>5 DEF SelectRow
<1> QED BY <1>8, <1>19, <1>20, SelectMove DEF SelectRow

LEMMA SelectRowFailsKeeps ==
  ASSUME IInv, NEW s \in Sessions, SelectRowFails(s)
  PROVE  IInv'
<1> DEFINE p == session[s]
           t == p.table
           row == RowOf(s)
<1>0. p \in Selects /\ p.at = "scan" /\ p.next < p.count
  BY Scanning DEF IInv, SelectRowFails, InLoop, At
<1>1. /\ t \in Tables /\ TableInv(t) /\ Count(t) \in Nat /\ SelectInv(p) /\ TypeOK
      /\ p.next \in Nat /\ p.count \in Nat /\ p.out \in Seq(Rows) /\ p.where \subseteq Rows
      /\ p.limit \in Nat \cup {NoLimit} /\ p.unread \subseteq Rows /\ p.before \in Seq(Rows)
      /\ \A i \in 0 .. Count(t) - 1 : i \in RowIds
  BY <1>0, SelectFacts
<1>2. ScanInv(p) /\ p.count <= Count(t) /\ row = Row(t, p.next) /\ p.next \in 0 .. Count(t) - 1
  BY <1>0, <1>1 DEF SelectInv, ScanInv, RowOf, Row
<1>3. row \in Rows \cup {NoValue}
  BY <1>1, <1>2 DEF TypeOK, Row
<1> DEFINE next == p.next + 1
           unread == p.unread \cup ({row} \ {NoValue})
<1>4. PICK a : a = [p EXCEPT !.next = @ + 1]
  OBVIOUS
<1>5. PICK b : b = [a EXCEPT !.out = IF NoValue \in p.where THEN Append(@, NoValue) ELSE @]
  OBVIOUS
<1>6. PICK q : q = [b EXCEPT !.unread = @ \cup ({row} \ {NoValue})]
  OBVIOUS
<1>7. b = Scanned(p, NoValue)
  BY <1>0, <1>4, <1>5 DEF Scanned, Selects
<1>8. NoValue \notin p.where
  BY <1>1, NoValueAssumption
<1>9. b \in Selects /\ b.unread = p.unread /\ b.at = "scan" /\ b.table = t /\ b.where = p.where
      /\ b.limit = p.limit /\ b.next = next /\ b.count = p.count /\ b.out = p.out
      /\ b.before = p.before
  <2>1. a \in Selects /\ a.unread = p.unread /\ a.at = "scan" /\ a.table = t /\ a.where = p.where
        /\ a.limit = p.limit /\ a.next = next /\ a.count = p.count /\ a.out = p.out
        /\ a.before = p.before
    BY SMTT(30), <1>0, <1>1, <1>4 DEF Selects
  <2>2. b = [a EXCEPT !.out = p.out]
    BY <1>5, <1>8, <2>1
  <2> QED BY <2>1, <2>2 DEF Selects
<1>10. unread \subseteq Rows
  BY <1>1, <1>3
<1>11. /\ q \in Selects /\ q.at = "scan" /\ q.table = t /\ q.where = p.where /\ q.limit = p.limit
       /\ q.next = next /\ q.count = p.count /\ q.out = p.out /\ q.unread = unread
       /\ q.before = p.before
  BY <1>6, <1>9, <1>10 DEF Selects
<1>12. ASSUME NEW k \in DOMAIN p.before, p.before[k] \in p.where
       PROVE  \/ p.before[k] \in removed \cup unread \cup Elements(p.out)
              \/ \E i \in next .. p.count - 1 : Row(t, i) = p.before[k]
  <2>1. CASE p.before[k] \in removed \cup p.unread \cup Elements(p.out)
    BY <2>1
  <2>2. CASE \E i \in p.next .. p.count - 1 : Row(t, i) = p.before[k]
    <3>1. PICK i \in p.next .. p.count - 1 : Row(t, i) = p.before[k]
      BY <2>2
    <3>2. CASE i = p.next
      BY <1>2, <1>8, <1>12, <3>1, <3>2
    <3>3. CASE i # p.next
      <4>1. i \in next .. p.count - 1 BY <1>1, <3>3
      <4> QED BY <3>1, <4>1
    <3> QED BY <3>2, <3>3
  <2> QED BY <1>2, <1>12, <2>1, <2>2 DEF ScanInv
<1>13. ASSUME removed = {} PROVE UnreadInv(q)
  <2>1. ASSUME NEW r \in p.unread PROVE \E i \in 0 .. next - 1 : Row(t, i) = r
    <3>1. PICK i \in 0 .. p.next - 1 : Row(t, i) = r
      BY <1>2, <1>13 DEF ScanInv, UnreadInv
    <3>2. i \in 0 .. next - 1 BY <1>1
    <3> QED BY <3>1, <3>2
  <2>2. p.next \in 0 .. next - 1
    BY <1>1
  <2> QED BY <1>2, <1>11, <2>1, <2>2 DEF UnreadInv
<1>14. ASSUME removed = {} PROVE \E place \in Places(q) : SnapshotOf(q, place)
  <2>1. PICK old \in Places(p) : SnapshotOf(p, old)
    BY <1>2, <1>14 DEF ScanInv
  <2>2. old \in [DOMAIN p.out -> 1 .. p.next]
    BY DEF Places
  <2>3. old \in Places(q)
    <3>1. 1 .. p.next \subseteq 1 .. next
      BY <1>1
    <3>2. old \in [DOMAIN p.out -> 1 .. next]
      BY <2>2, <3>1
    <3> QED BY <1>11, <3>2 DEF Places
  <2>4. ASSUME NEW n \in DOMAIN p.out PROVE p.out[n] \notin {row} \ {NoValue}
    <3> SUFFICES ASSUME p.out[n] = row, row # NoValue PROVE FALSE
      OBVIOUS
    <3>1. Row(t, old[n] - 1) = row
      BY <2>1 DEF SnapshotOf
    <3>2. old[n] - 1 \in 0 .. Count(t) - 1 /\ old[n] - 1 # p.next
      BY <1>1, <1>2, <2>2
    <3> QED BY <1>1, <1>2, <3>1, <3>2, RowsDiffer
  <2>5. ASSUME NEW i \in 1 .. next, Row(t, i - 1) \in p.where \ unread
        PROVE  \E m \in DOMAIN p.out : old[m] = i
    <3>1. i # next
      BY SMTT(30), <1>1, <1>2, <1>8, <2>5
    <3>2. i \in 1 .. p.next BY <1>1, <3>1
    <3> QED BY <2>1, <2>5, <3>2 DEF SnapshotOf
  <2>6. SnapshotOf(q, old)
    BY <1>11, <2>1, <2>4, <2>5 DEF SnapshotOf
  <2> QED BY <2>3, <2>6
<1>15. next <= p.count
  BY <1>0, <1>1
<1>16. ScanInv(q)
  BY <1>2, <1>11, <1>12, <1>13, <1>14, <1>15 DEF ScanInv
<1>17. SelectInv(q)
  BY <1>11, <1>16 DEF SelectInv
<1>18. Become(s, q)
  BY <1>6, <1>7 DEF SelectRowFails
<1> QED BY <1>11, <1>17, <1>18, SelectMove DEF SelectRowFails

LEMMA SelectDoneKeeps ==
  ASSUME IInv, NEW s \in Sessions, SelectDone(s)
  PROVE  IInv'
<1> DEFINE p == session[s]
<1>0. p \in Selects /\ p.at = "scan" /\ ScanInv(p) /\ p.next \in Nat /\ p.count \in Nat
  <2>1. p \in Selects /\ p.at = "scan"
    BY Scanning DEF IInv, SelectDone, At
  <2> QED BY <2>1, SelectFacts DEF SelectInv
<1>1. PICK q : q = [p EXCEPT !.at = "answered"]
  OBVIOUS
<1>2. /\ q \in Selects /\ q.at = "answered" /\ q.table = p.table /\ q.where = p.where
      /\ q.limit = p.limit /\ q.next = p.next /\ q.count = p.count /\ q.out = p.out
      /\ q.unread = p.unread /\ q.before = p.before
  BY <1>0, <1>1 DEF Selects
<1>3. q.next = q.count \/ LimitReached(q)
  BY <1>0, <1>2 DEF SelectDone, ScanInv, LimitReached
<1>4. removed = {} => UnreadInv(q)
  BY <1>0, <1>2 DEF ScanInv, UnreadInv
<1>5. removed = {} => \E place \in Places(q) : SnapshotOf(q, place)
  BY <1>0, <1>2 DEF ScanInv, Places, SnapshotOf
<1>6. ScanInv(q)
  BY <1>0, <1>2, <1>3, <1>4, <1>5 DEF ScanInv
<1>7. SelectInv(q)
  BY <1>2, <1>6 DEF SelectInv
<1>8. Become(s, q)
  BY <1>1 DEF SelectDone, Become, Continue, IInv, TypeOK
<1> QED BY <1>2, <1>7, <1>8, SelectMove DEF SelectDone

--------------------------------------------------------------------------------
(* The steps of ListTables.                                                 *)

LEMMA Listing ==
  ASSUME IInv, NEW s \in Sessions, At(s) = "readCounts"
  PROVE  LET p == session[s] IN
         /\ p \in Lists /\ p.at = "readCounts" /\ ListInv(p) /\ p.todo \subseteq Tables
         /\ p.unread \subseteq Tables /\ p.ackedBefore \in [Tables -> Seq(Rows)]
         /\ DOMAIN p.counts \subseteq Tables
         /\ p.counts \in [DOMAIN p.counts -> 0 .. Cardinality(Rows)]
         /\ \A t \in Tables : Count(t) \in 0 .. Cardinality(Rows)
<1>1. session[s] \in Lists /\ session[s].at = "readCounts"
  <2>1. session[s] \in Statements /\ session[s].at = "readCounts"
    BY DEF IInv, TypeOK, At
  <2> QED BY <2>1 DEF Statements, Idle, Creates, Inserts, Selects
<1>2. ListInv(session[s])
  BY <1>1 DEF IInv, SessionInv, StatementInv
<1>3. PICK T \in SUBSET Tables : session[s].counts \in [T -> 0 .. Cardinality(Rows)]
  BY <1>1 DEF Lists
<1>4. \A t \in Tables : Count(t) \in 0 .. Cardinality(Rows)
  BY CountsAreIds, RowsFinite DEF IInv
<1> QED BY <1>1, <1>2, <1>3, <1>4 DEF Lists

LEMMA ListMove ==
  ASSUME IInv, NEW s \in Sessions, NEW q \in Lists, ListInv(q), Become(s, q),
         UNCHANGED <<store, history, used>>
  PROVE  IInv'
<1>1. q \in Statements /\ q \notin Creates \cup Inserts \cup Selects
  <2>1. q \in Statements BY DEF Statements
  <2> QED BY <2>1, StatementKinds
<1>2. StatementInv(q)
  BY <1>1 DEF StatementInv
<1> QED BY <1>1, <1>2, QuietMove

LEMMA ListedIs ==
  ASSUME NEW p \in Lists, NEW t \in p.todo, NEW n \in 0 .. Cardinality(Rows),
         p.todo \subseteq Tables, DOMAIN p.counts \subseteq Tables,
         p.counts \in [DOMAIN p.counts -> 0 .. Cardinality(Rows)],
         NEW q, q = Listed(p, t, n)
  PROVE  /\ q \in Lists /\ q.at = p.at /\ q.unread = p.unread /\ q.ackedBefore = p.ackedBefore
         /\ q.known = p.known /\ q.todo = p.todo \ {t}
         /\ DOMAIN q.counts = DOMAIN p.counts \cup {t} /\ q.counts[t] = n
         /\ \A u \in DOMAIN p.counts \ {t} : q.counts[u] = p.counts[u]
<1>1. PICK a : a = [p EXCEPT !.todo = @ \ {t}]
  OBVIOUS
<1>2. PICK c : c = [u \in DOMAIN p.counts \cup {t} |-> IF u = t THEN n ELSE p.counts[u]]
  OBVIOUS
<1>3. PICK b : b = [a EXCEPT !.counts = c]
  OBVIOUS
<1>4. a \in Lists /\ a.counts = p.counts /\ a.at = p.at /\ a.unread = p.unread
      /\ a.ackedBefore = p.ackedBefore /\ a.known = p.known /\ a.todo = p.todo \ {t}
  BY <1>1 DEF Lists
<1>5. c \in UNION {[T -> 0 .. Cardinality(Rows)] : T \in SUBSET Tables}
  <2>1. c \in [DOMAIN p.counts \cup {t} -> 0 .. Cardinality(Rows)]
    BY <1>2
  <2>2. DOMAIN p.counts \cup {t} \in SUBSET Tables
    OBVIOUS
  <2> QED BY <2>1, <2>2
<1>6. b \in Lists /\ b.counts = c /\ b.at = p.at /\ b.unread = p.unread
      /\ b.ackedBefore = p.ackedBefore /\ b.known = p.known /\ b.todo = p.todo \ {t}
  BY <1>3, <1>4, <1>5 DEF Lists
<1>7. b = q
  BY <1>1, <1>2, <1>3, <1>4 DEF Listed, Lists
<1> QED BY <1>2, <1>6, <1>7

LEMMA ListReadCountKeeps ==
  ASSUME IInv, NEW s \in Sessions, ListReadCount(s)
  PROVE  IInv'
<1> DEFINE p == session[s]
<1>1. /\ p \in Lists /\ p.at = "readCounts" /\ ListInv(p) /\ p.todo \subseteq Tables
      /\ p.ackedBefore \in [Tables -> Seq(Rows)] /\ DOMAIN p.counts \subseteq Tables
      /\ p.counts \in [DOMAIN p.counts -> 0 .. Cardinality(Rows)]
      /\ \A t \in Tables : Count(t) \in 0 .. Cardinality(Rows)
  BY Listing DEF ListReadCount
<1>2. PICK t \in p.todo : Become(s, Listed(p, t, Count(t)))
  BY DEF ListReadCount
<1>3. PICK q : q = Listed(p, t, Count(t))
  OBVIOUS
<1>4. /\ q \in Lists /\ q.at = p.at /\ q.unread = p.unread /\ q.ackedBefore = p.ackedBefore
      /\ q.known = p.known /\ q.todo = p.todo \ {t}
      /\ DOMAIN q.counts = DOMAIN p.counts \cup {t} /\ q.counts[t] = Count(t)
      /\ \A u \in DOMAIN p.counts \ {t} : q.counts[u] = p.counts[u]
  <2>1. t \in p.todo /\ Count(t) \in 0 .. Cardinality(Rows)
    BY <1>1
  <2>2. /\ p \in Lists /\ p.todo \subseteq Tables /\ DOMAIN p.counts \subseteq Tables
        /\ p.counts \in [DOMAIN p.counts -> 0 .. Cardinality(Rows)]
    BY <1>1
  <2> HIDE DEF p
  <2> QED BY <1>3, <2>1, <2>2, ListedIs
<1>5. ListInv(q)
  <2>1. DOMAIN q.counts = DOMAIN p.counts \cup {t}
    BY <1>4
  <2>2. ASSUME NEW u \in DOMAIN q.counts \ q.unread
        PROVE  q.counts[u] \in Len(q.ackedBefore[u]) .. Count(u)
    <3>1. CASE u = t
      <4>1. q.counts[u] = Count(t) BY <1>4, <2>1, <3>1
      <4>2. Len(q.ackedBefore[t]) <= Count(t) /\ Len(q.ackedBefore[t]) \in Nat
        BY <1>1, <1>4 DEF ListInv
      <4> QED BY <1>1, <3>1, <4>1, <4>2
    <3>2. CASE u # t
      <4>1. u \in DOMAIN p.counts \ p.unread /\ q.counts[u] = p.counts[u] BY <1>4, <2>1, <3>2
      <4> QED BY <1>1, <1>4, <4>1 DEF ListInv
    <3> QED BY <3>1, <3>2
  <2> QED BY <1>1, <1>4, <2>1, <2>2 DEF ListInv
<1> QED BY <1>2, <1>3, <1>4, <1>5, ListMove DEF ListReadCount

LEMMA ListReadFailsKeeps ==
  ASSUME IInv, NEW s \in Sessions, ListReadFails(s)
  PROVE  IInv'
<1> DEFINE p == session[s]
<1>1. /\ p \in Lists /\ p.at = "readCounts" /\ ListInv(p) /\ p.todo \subseteq Tables
      /\ p.unread \subseteq Tables /\ DOMAIN p.counts \subseteq Tables
      /\ p.counts \in [DOMAIN p.counts -> 0 .. Cardinality(Rows)]
      /\ Cardinality(Rows) \in Nat
  BY Listing, RowsFinite DEF ListReadFails
<1>2. PICK t \in p.todo : Become(s, [Listed(p, t, 0) EXCEPT !.unread = @ \cup {t}])
  BY DEF ListReadFails
<1>3. PICK a : a = Listed(p, t, 0)
  OBVIOUS
<1>4. /\ a \in Lists /\ a.at = p.at /\ a.unread = p.unread /\ a.ackedBefore = p.ackedBefore
      /\ a.known = p.known /\ a.todo = p.todo \ {t}
      /\ DOMAIN a.counts = DOMAIN p.counts \cup {t} /\ a.counts[t] = 0
      /\ \A u \in DOMAIN p.counts \ {t} : a.counts[u] = p.counts[u]
  <2>1. t \in p.todo /\ 0 \in 0 .. Cardinality(Rows)
    BY <1>1
  <2>2. /\ p \in Lists /\ p.todo \subseteq Tables /\ DOMAIN p.counts \subseteq Tables
        /\ p.counts \in [DOMAIN p.counts -> 0 .. Cardinality(Rows)]
    BY <1>1
  <2> HIDE DEF p
  <2> QED BY <1>3, <2>1, <2>2, ListedIs
<1>5. PICK q : q = [a EXCEPT !.unread = @ \cup {t}]
  OBVIOUS
<1>6. /\ q \in Lists /\ q.at = p.at /\ q.unread = p.unread \cup {t}
      /\ q.ackedBefore = p.ackedBefore /\ q.known = p.known /\ q.todo = p.todo \ {t}
      /\ q.counts = a.counts
  BY <1>1, <1>4, <1>5 DEF Lists
<1>7. ListInv(q)
  <2>1. DOMAIN q.counts = DOMAIN p.counts \cup {t}
    BY <1>4, <1>6
  <2>2. ASSUME NEW u \in DOMAIN q.counts \ q.unread
        PROVE  q.counts[u] \in Len(q.ackedBefore[u]) .. Count(u)
    <3>1. u \in DOMAIN p.counts \ p.unread /\ q.counts[u] = p.counts[u]
      BY <1>4, <1>6, <2>1
    <3> QED BY <1>1, <1>6, <3>1 DEF ListInv
  <2> QED BY <1>1, <1>6, <2>1, <2>2 DEF ListInv
<1>8. Become(s, q)
  BY <1>2, <1>3, <1>5
<1> QED BY <1>6, <1>7, <1>8, ListMove DEF ListReadFails

LEMMA ListDoneKeeps ==
  ASSUME IInv, NEW s \in Sessions, ListDone(s)
  PROVE  IInv'
<1> DEFINE p == session[s]
<1>1. p \in Lists /\ ListInv(p) /\ p.todo = {}
  BY Listing DEF ListDone
<1>2. PICK q : q = [p EXCEPT !.at = "answered"]
  OBVIOUS
<1>3. /\ q \in Lists /\ q.unread = p.unread /\ q.ackedBefore = p.ackedBefore
      /\ q.known = p.known /\ q.todo = p.todo /\ q.counts = p.counts
  BY <1>1, <1>2 DEF Lists
<1>4. ListInv(q)
  BY <1>1, <1>3 DEF ListInv
<1>5. Become(s, q)
  BY <1>2 DEF ListDone, Become, Continue, IInv, TypeOK
<1> QED BY <1>3, <1>4, <1>5, ListMove DEF ListDone

LEMMA AnswerKeeps ==
  ASSUME IInv, NEW s \in Sessions, Answer(s)
  PROVE  IInv'
BY IdleKeeps DEF Answer

--------------------------------------------------------------------------------
(* The steps of a writer that store: they touch its own table.              *)

WriterStep(s, t) ==
  /\ Creating(s) \/ Inserting(s)
  /\ session[s].table = t
  /\ UNCHANGED <<rejected, removed, used>>
  /\ session' \in [Sessions -> Statements]
  /\ \A b \in Sessions \ {s} : session'[b] = session[b]
  /\ session'[s] \in Creates \cup Inserts => session'[s].table = t
  /\ session'[s] \in Inserts => Inserting(s) /\ session'[s].row = session[s].row
  /\ \A u \in Tables \ {t} :
       /\ store'[SchemaKey(u)] = store[SchemaKey(u)] /\ store'[SeqKey(u)] = store[SeqKey(u)]
       /\ acked'[u] = acked[u] /\ created'[u] = created[u]
       /\ \A i \in RowIds : store'[RowKey(u, i)] = store[RowKey(u, i)]
  /\ \A i \in RowIds : i < Count(t) => store'[RowKey(t, i)] = store[RowKey(t, i)]
  /\ store'[SchemaKey(t)] = NoValue => store[SchemaKey(t)] = NoValue
  /\ Count(t) <= CountIn(store', t) /\ CountIn(store', t) \in Nat

LEMMA WriterGrows ==
  ASSUME IInv, NEW s \in Sessions, NEW t \in Tables, WriterStep(s, t)
  PROVE  Grows
<1>0. TypeOK /\ \A u \in Tables : TableInv(u)
  BY DEF IInv
<1>1. ASSUME NEW r, SettledIn(used, rejected, session, r)
      PROVE  SettledIn(used', rejected', session', r)
  <2>1. ASSUME NEW b \in Sessions, session'[b] \in Inserts PROVE session'[b].row # r
    <3>1. CASE b = s
      BY <1>1, <2>1, <3>1 DEF WriterStep, SettledIn, Inserting
    <3>2. CASE b # s
      BY <1>1, <2>1, <3>2 DEF WriterStep, SettledIn
    <3> QED BY <3>1, <3>2
  <2> QED BY <1>1, <2>1 DEF SettledIn, WriterStep
<1>2. ASSUME NEW u \in Tables
      PROVE  /\ store[SchemaKey(u)] # NoValue => store'[SchemaKey(u)] # NoValue
             /\ CountIn(store, u) <= CountIn(store', u)
             /\ \A i \in 0 .. CountIn(store, u) - 1 : store'[RowKey(u, i)] = store[RowKey(u, i)]
  <2>1. Count(u) \in Nat /\ CountIn(store, u) = Count(u) /\ \A i \in 0 .. Count(u) - 1 : i \in RowIds
    BY <1>0, CountsAreIds DEF CountIn, Count
  <2>2. CASE u = t
    BY <2>1, <2>2 DEF WriterStep
  <2>3. CASE u # t
    <3>1. CountIn(store', u) = CountIn(store, u)
      BY <2>3 DEF WriterStep, CountIn
    <3> QED BY <2>1, <2>3, <3>1 DEF WriterStep
  <2> QED BY <2>2, <2>3
<1> QED BY <1>1, <1>2 DEF Grows, WriterStep

LEMMA WriterKeeps ==
  ASSUME IInv, NEW s \in Sessions, NEW t \in Tables, WriterStep(s, t),
         TypeOK', TableInv(t)', SessionInv(s)'
  PROVE  IInv'
<1>0. TypeOK /\ Turns /\ \A u \in Tables : TableInv(u)
  BY DEF IInv
<1>1. Grows
  BY WriterGrows
<1>2. used' = used /\ rejected' = rejected /\ Cardinality(used) \in Nat
  BY <1>0, RowsFinite DEF TypeOK, WriterStep
<1>3. \A u \in Tables : CountIn(store', u) \in Nat /\ (u # t => CountIn(store', u) = CountIn(store, u))
  <2>1. ASSUME NEW u \in Tables, u # t PROVE CountIn(store', u) = CountIn(store, u) /\ CountIn(store, u) \in Nat
    BY <1>0, <2>1, CountsAreIds DEF WriterStep, CountIn, Count
  <2> QED BY <2>1 DEF WriterStep
<1>4. ASSUME NEW u \in Tables, u # t PROVE TableInv(u)'
  <2>1. acked'[u] = acked[u] /\ created'[u] = created[u]
    BY <1>4 DEF WriterStep
  <2> QED BY <1>0, <1>1, <1>2, <1>3, <1>4, <2>1, TableStays
<1>5. Turns'
  <2> SUFFICES ASSUME NEW a \in Sessions, NEW b \in Sessions, a # b
               PROVE  /\ (session'[a] \in Creates \/ session'[a] \in Inserts) /\ (session'[b] \in Creates \/ session'[b] \in Inserts)
                           => session'[a].table # session'[b].table
                      /\ session'[a] \in Inserts /\ session'[b] \in Inserts => session'[a].row # session'[b].row
    BY DEF Turns, Creating, Inserting
  <2>1. CASE a # s /\ b # s
    BY <1>0, <2>1 DEF Turns, Creating, Inserting, WriterStep
  <2>2. CASE a = s
    <3>1. session'[b] = session[b]
      BY <2>2 DEF WriterStep
    <3> QED BY <1>0, <2>2, <3>1 DEF Turns, Creating, Inserting, WriterStep
  <2>3. CASE b = s
    <3>1. session'[a] = session[a]
      BY <2>3 DEF WriterStep
    <3> QED BY <1>0, <2>3, <3>1 DEF Turns, Creating, Inserting, WriterStep
  <2> QED BY <2>1, <2>2, <2>3
<1>6. ASSUME NEW b \in Sessions, b # s PROVE SessionInv(b)'
  <2>1. Inserting(b) => session[b].row \notin rejected'
    BY <1>2 DEF IInv, SessionInv, StatementInv, InsertInv, Inserting
  <2>2. Creating(b) \/ Inserting(b) => session[b].table \in Tables /\ session[b].table # t
    BY <1>0, <1>6 DEF Creating, Inserting, Creates, Inserts, Turns, WriterStep
  <2>3. session'[b] = session[b]
    BY <1>6 DEF WriterStep
  <2>4. Creating(b) \/ Inserting(b) =>
          LET u == session[b].table IN
          /\ store'[SchemaKey(u)] = store[SchemaKey(u)] /\ CountIn(store', u) = CountIn(store, u)
          /\ \A i \in RowIds : store'[RowKey(u, i)] = store[RowKey(u, i)]
    BY <1>3, <2>2 DEF WriterStep
  <2> QED BY <1>1, <1>2, <1>3, <2>1, <2>3, <2>4, OthersStay
<1>7. \A u \in Tables : TableInv(u)'
  BY <1>4
<1>8. \A b \in Sessions : SessionInv(b)'
  BY <1>6
<1> QED BY <1>5, <1>7, <1>8 DEF IInv

LEMMA CreatingFacts ==
  ASSUME IInv, NEW s \in Sessions, At(s) \in {"putSchema", "putCounter"}
  PROVE  LET p == session[s] IN
         /\ p \in Creates /\ Creating(s) /\ CreateInv(p) /\ p.at = At(s)
         /\ p.table \in Tables /\ p.columns \in Schemas /\ TypeOK /\ TableInv(p.table)
<1>1. session[s] \in Creates
  <2>1. session[s] \in Statements /\ session[s].at \in {"putSchema", "putCounter"}
    BY DEF IInv, TypeOK, At
  <2> QED BY <2>1 DEF Statements, Idle, Inserts, Selects, Lists
<1>2. session[s].table \in Tables /\ session[s].columns \in Schemas
  BY <1>1 DEF Creates
<1> QED BY <1>1, <1>2 DEF IInv, SessionInv, StatementInv, Creating, At

LEMMA InsertingFacts ==
  ASSUME IInv, NEW s \in Sessions, At(s) \in {"putRow", "putCount"}
  PROVE  LET p == session[s] IN
         /\ p \in Inserts /\ Inserting(s) /\ InsertInv(p) /\ p.at = At(s)
         /\ p.table \in Tables /\ p.row \in Rows /\ TypeOK /\ TableInv(p.table)
         /\ p.id = Count(p.table) /\ p.id \in Nat /\ p.id \in RowIds /\ p.id < Cardinality(Rows)
         /\ p.row # NoValue
<1>1. session[s] \in Inserts
  <2>1. session[s] \in Statements /\ session[s].at \in {"putRow", "putCount"}
    BY DEF IInv, TypeOK, At
  <2> QED BY <2>1 DEF Statements, Idle, Creates, Selects, Lists
<1>2. session[s].table \in Tables /\ session[s].row \in Rows
  BY <1>1 DEF Inserts
<1>3. InsertInv(session[s]) /\ TypeOK /\ TableInv(session[s].table)
  BY <1>1, <1>2 DEF IInv, SessionInv, StatementInv
<1>4. session[s].id = Count(session[s].table) /\ Count(session[s].table) < Cardinality(used)
  BY <1>3 DEF InsertInv, At
<1>5. /\ Count(session[s].table) \in Nat /\ Count(session[s].table) \in RowIds
      /\ Cardinality(used) \in Nat /\ Cardinality(used) <= Cardinality(Rows) /\ Cardinality(Rows) \in Nat
  BY <1>2, <1>3, <1>4, CountsAreIds, RowsFinite DEF TypeOK
<1>6. session[s].row # NoValue
  BY <1>2, NoValueAssumption
<1> QED BY <1>1, <1>2, <1>3, <1>4, <1>5, <1>6 DEF Inserting, At

LEMMA CreatePutSchemaKeeps ==
  ASSUME IInv, NEW s \in Sessions, CreatePutSchema(s)
  PROVE  /\ IInv' /\ WriterStep(s, session[s].table)
         /\ \A t \in Tables : t = session[s].table =>
              /\ store[SchemaKey(t)] = NoValue /\ store'[SchemaKey(t)] # NoValue
              /\ CountIn(store', t) = 0
<1> DEFINE p == session[s]
<1>t. PICK t \in Tables : t = p.table
  BY CreatingFacts DEF CreatePutSchema
<1>0. /\ p \in Creates /\ Creating(s) /\ CreateInv(p) /\ p.at = "putSchema"
      /\ t \in Tables /\ p.columns \in Schemas /\ TypeOK /\ TableInv(t)
  BY <1>t, CreatingFacts DEF CreatePutSchema
<1>1. PICK q : q = [p EXCEPT !.at = "putCounter"]
  OBVIOUS
<1>2. q \in Creates /\ q.table = t /\ q.at = "putCounter"
  BY <1>t, <1>0, <1>1 DEF Creates
<1>3. q \in Statements /\ q \notin Inserts \cup Lists \cup Selects
  <2>1. q \in Statements BY <1>2 DEF Statements
  <2> QED BY <1>2, <2>1, StatementKinds
<1>4. session'[s] = q /\ session' \in [Sessions -> Statements]
      /\ \A b \in Sessions \ {s} : session'[b] = session[b]
  <2>1. session' = [session EXCEPT ![s] = q]
    BY <1>0, <1>1 DEF CreatePutSchema, Continue, TypeOK
  <2> QED BY <1>0, <1>3, <2>1 DEF TypeOK
<1>5. store' = [store EXCEPT ![SchemaKey(t)] = p.columns]
  BY <1>t DEF CreatePutSchema, Engine!Put
<1>6. /\ \A u \in Tables : store'[SchemaKey(u)] = (IF u = t THEN p.columns ELSE store[SchemaKey(u)])
      /\ \A u \in Tables : store'[SeqKey(u)] = store[SeqKey(u)]
      /\ \A u \in Tables, i \in RowIds : store'[RowKey(u, i)] = store[RowKey(u, i)]
  <2>1. store \in [EngineKeys -> EngineValues \cup {NoValue}]
    BY <1>0 DEF TypeOK
  <2> QED BY <1>0, <1>5, <2>1, SchemaPut
<1>7. p.columns \in EngineValues /\ p.columns # NoValue
  BY <1>0, WidthAssumption, NoValueAssumption DEF EngineValues
<1>8. UNCHANGED <<acked, rejected, removed, created, used>>
  BY DEF CreatePutSchema, history
<1>9. Count(t) = 0 /\ CountIn(store', t) = 0
  BY <1>t, <1>0, <1>6 DEF CreateInv, TableInv, Count, CountIn
<1>10. WriterStep(s, t)
  BY <1>t, <1>0, <1>2, <1>3, <1>4, <1>6, <1>7, <1>8, <1>9 DEF WriterStep
<1>11. TypeOK'
  <2>1. store' \in [EngineKeys -> EngineValues \cup {NoValue}]
    BY <1>0, <1>5, <1>7 DEF TypeOK
  <2>2. \A u \in Tables : store'[SchemaKey(u)] \in Schemas \cup {NoValue}
    BY <1>0, <1>6 DEF TypeOK
  <2>3. \A u \in Tables, i \in RowIds : store'[RowKey(u, i)] \in used \cup {NoValue}
    BY <1>0, <1>6 DEF TypeOK
  <2> QED BY <1>0, <1>4, <1>6, <1>8, <2>1, <2>2, <2>3 DEF TypeOK
<1>12. Grows
  BY <1>0, <1>10, WriterGrows
<1>13. TableInv(t)'
  <2>1. Cardinality(used') \in Nat /\ Cardinality(used) <= Cardinality(used')
    BY <1>0, <1>8, RowsFinite DEF TypeOK
  <2>2. CountIn(store, t) = 0
    BY <1>9 DEF Count, CountIn
  <2>3. acked'[t] = acked[t] /\ created'[t] = created[t]
    BY <1>8
  <2> QED BY <1>0, <1>9, <1>12, <2>1, <2>2, <2>3, TableStays
<1>14. SessionInv(s)'
  <2>1. CreateInv(q)'
    BY <1>0, <1>2, <1>6, <1>7, <1>9 DEF CreateInv, Count, CountIn
  <2> QED BY <1>3, <1>4, <2>1 DEF SessionInv, StatementInv
<1>15. IInv'
  BY <1>10, <1>11, <1>13, <1>14, WriterKeeps
<1> QED BY <1>t, <1>0, <1>6, <1>7, <1>9, <1>10, <1>15 DEF CreateInv

LEMMA CreatePutCounterKeeps ==
  ASSUME IInv, NEW s \in Sessions, CreatePutCounter(s)
  PROVE  /\ IInv' /\ WriterStep(s, session[s].table)
         /\ \A t \in Tables : t = session[s].table =>
              /\ store[SchemaKey(t)] # NoValue /\ store'[SchemaKey(t)] # NoValue
              /\ CountIn(store', t) = CountIn(store, t)
<1> DEFINE p == session[s]
<1>t. PICK t \in Tables : t = p.table
  BY CreatingFacts DEF CreatePutCounter
<1>0. /\ p \in Creates /\ Creating(s) /\ CreateInv(p) /\ p.at = "putCounter"
      /\ TypeOK /\ TableInv(t)
  BY <1>t, CreatingFacts DEF CreatePutCounter
<1>1. Idle \in Statements /\ Idle \notin Creates \cup Inserts \cup Selects \cup Lists
  <2>1. Idle \in Statements /\ Idle.at = "idle" BY DEF Statements, Idle
  <2> QED BY <2>1, StatementKinds
<1>2. session'[s] = Idle /\ session' \in [Sessions -> Statements]
      /\ \A b \in Sessions \ {s} : session'[b] = session[b]
  BY <1>0, <1>1 DEF TypeOK, CreatePutCounter, Become
<1>3. store' = [store EXCEPT ![SeqKey(t)] = 0]
  BY <1>t DEF CreatePutCounter, Engine!Put
<1>4. /\ \A u \in Tables : store'[SchemaKey(u)] = store[SchemaKey(u)]
      /\ \A u \in Tables : store'[SeqKey(u)] = (IF u = t THEN 0 ELSE store[SeqKey(u)])
      /\ \A u \in Tables, i \in RowIds : store'[RowKey(u, i)] = store[RowKey(u, i)]
  <2>1. store \in [EngineKeys -> EngineValues \cup {NoValue}]
    BY <1>0 DEF TypeOK
  <2> QED BY <1>0, <1>3, <2>1, SeqPut
<1>5. /\ UNCHANGED <<acked, rejected, removed, used>>
      /\ created' = [created EXCEPT ![t] = @ + 1]
  BY <1>t DEF CreatePutCounter
<1>6. /\ Count(t) = 0 /\ CountIn(store, t) = 0 /\ CountIn(store', t) = 0
      /\ store[SchemaKey(t)] # NoValue
  BY <1>t, <1>0, <1>4 DEF CreateInv, Count, CountIn
<1>7. /\ \A u \in Tables \ {t} : created'[u] = created[u]
      /\ created' \in [Tables -> Nat]
  BY <1>0, <1>5 DEF TypeOK
<1>8. WriterStep(s, t)
  BY <1>t, <1>0, <1>1, <1>2, <1>4, <1>5, <1>6, <1>7 DEF WriterStep
<1>9. TypeOK'
  <2>1. Cardinality(Rows) \in Nat /\ 0 \in EngineValues /\ 0 \in 0 .. Cardinality(Rows)
    BY RowsFinite DEF EngineValues
  <2>2. store' \in [EngineKeys -> EngineValues \cup {NoValue}]
    BY <1>0, <1>3, <2>1 DEF TypeOK
  <2>3. \A u \in Tables : store'[SeqKey(u)] \in 0 .. Cardinality(Rows) \cup {NoValue}
    BY <1>0, <1>4, <2>1 DEF TypeOK
  <2>4. \A u \in Tables, i \in RowIds : store'[RowKey(u, i)] \in used \cup {NoValue}
    BY <1>0, <1>4 DEF TypeOK
  <2> QED BY <1>0, <1>2, <1>4, <1>5, <1>7, <2>2, <2>3, <2>4 DEF TypeOK
<1>10. Grows
  BY <1>8, WriterGrows
<1>11. TableInv(t)'
  <2>1. Cardinality(used') \in Nat /\ Cardinality(used) <= Cardinality(used')
    BY <1>0, <1>5, RowsFinite DEF TypeOK
  <2>2. acked'[t] = acked[t] /\ store'[SchemaKey(t)] # NoValue
    BY <1>4, <1>5, <1>6
  <2> QED BY <1>0, <1>6, <1>10, <2>1, <2>2, TableStays
<1>12. SessionInv(s)'
  BY <1>1, <1>2 DEF SessionInv, StatementInv
<1>13. IInv'
  BY <1>8, <1>9, <1>11, <1>12, WriterKeeps
<1> QED BY <1>t, <1>4, <1>6, <1>8, <1>13

LEMMA InsertPutRowKeeps ==
  ASSUME IInv, NEW s \in Sessions, InsertPutRow(s)
  PROVE  /\ IInv' /\ WriterStep(s, session[s].table)
         /\ \A t \in Tables : t = session[s].table =>
              store'[SchemaKey(t)] = store[SchemaKey(t)] /\ CountIn(store', t) = CountIn(store, t)
<1> DEFINE p == session[s]
<1>t. PICK t \in Tables : t = p.table
  BY InsertingFacts DEF InsertPutRow
<1>n. PICK n \in RowIds : n = p.id
  BY InsertingFacts DEF InsertPutRow
<1>0. /\ p \in Inserts /\ Inserting(s) /\ InsertInv(p) /\ p.at = "putRow" /\ p.row \in Rows
      /\ TypeOK /\ TableInv(t) /\ n = Count(t) /\ n \in Nat /\ p.row # NoValue
  BY <1>t, <1>n, InsertingFacts DEF InsertPutRow
<1>1. PICK q : q = [p EXCEPT !.at = "putCount"]
  OBVIOUS
<1>2. q \in Inserts /\ q.table = t /\ q.at = "putCount" /\ q.row = p.row /\ q.id = n
  BY <1>t, <1>n, <1>0, <1>1 DEF Inserts
<1>3. q \in Statements /\ q \notin Creates \cup Lists \cup Selects
  <2>1. q \in Statements BY <1>2 DEF Statements
  <2> QED BY <1>2, <2>1, StatementKinds
<1>4. session'[s] = q /\ session' \in [Sessions -> Statements]
      /\ \A b \in Sessions \ {s} : session'[b] = session[b]
  <2>1. session' = [session EXCEPT ![s] = q]
    BY <1>0, <1>1 DEF InsertPutRow, Continue, TypeOK
  <2> QED BY <1>0, <1>3, <2>1 DEF TypeOK
<1>5. store' = [store EXCEPT ![RowKey(t, n)] = p.row]
  BY <1>t, <1>n DEF InsertPutRow, Engine!Put
<1>6. /\ \A u \in Tables : store'[SchemaKey(u)] = store[SchemaKey(u)]
      /\ \A u \in Tables : store'[SeqKey(u)] = store[SeqKey(u)]
      /\ \A u \in Tables, i \in RowIds :
           u # t \/ i # n => store'[RowKey(u, i)] = store[RowKey(u, i)]
      /\ store'[RowKey(t, n)] = p.row
  <2>1. store \in [EngineKeys -> EngineValues \cup {NoValue}]
    BY <1>0 DEF TypeOK
  <2>2. \A k \in EngineKeys : store'[k] = IF k = RowKey(t, n) THEN p.row ELSE store[k]
    BY <1>5, <2>1
  <2>3. ASSUME NEW u \in Tables
        PROVE  store'[SchemaKey(u)] = store[SchemaKey(u)] /\ store'[SeqKey(u)] = store[SeqKey(u)]
    BY <2>2, KeysDiffer, KeysAreKeys
  <2>4. ASSUME NEW u \in Tables, NEW i \in RowIds, u # t \/ i # n
        PROVE  store'[RowKey(u, i)] = store[RowKey(u, i)]
    BY <2>2, <2>4, KeysDiffer, KeysAreKeys
  <2>5. store'[RowKey(t, n)] = p.row
    BY <2>2, KeysAreKeys
  <2> QED BY <2>3, <2>4, <2>5
<1>7. UNCHANGED <<acked, rejected, removed, created, used>>
  BY DEF InsertPutRow, history
<1>8. CountIn(store', t) = n /\ CountIn(store, t) = n
  BY <1>0, <1>6 DEF Count, CountIn
<1>9. WriterStep(s, t)
  <2>1. \A i \in RowIds : i < n => i # n
    BY <1>0 DEF RowIds
  <2> QED BY <1>t, <1>0, <1>2, <1>3, <1>4, <1>6, <1>7, <1>8, <2>1 DEF WriterStep
<1>10. TypeOK'
  <2>1. p.row \in EngineValues /\ p.row \in used
    BY <1>0 DEF EngineValues, InsertInv
  <2>2. store' \in [EngineKeys -> EngineValues \cup {NoValue}]
    BY <1>0, <1>5, <2>1 DEF TypeOK
  <2>3. \A u \in Tables, i \in RowIds : store'[RowKey(u, i)] \in used \cup {NoValue}
    BY <1>0, <1>6, <2>1 DEF TypeOK
  <2> QED BY <1>0, <1>4, <1>6, <1>7, <2>2, <2>3 DEF TypeOK
<1>11. Grows
  BY <1>9, WriterGrows
<1>12. TableInv(t)'
  <2>1. Cardinality(used') \in Nat /\ Cardinality(used) <= Cardinality(used')
    BY <1>0, <1>7, RowsFinite DEF TypeOK
  <2>2. acked'[t] = acked[t] /\ created'[t] = created[t]
    BY <1>7
  <2> QED BY <1>0, <1>8, <1>11, <2>1, <2>2, TableStays
<1>13. SessionInv(s)'
  <2>1. store'[RowKey(t, n)] = p.row
    BY <1>6
  <2>2. InsertInv(q)'
    BY <1>t, <1>0, <1>2, <1>6, <1>7, <1>8, <2>1 DEF InsertInv, Count, CountIn, Row
  <2> QED BY <1>3, <1>4, <2>2 DEF SessionInv, StatementInv
<1>14. IInv'
  BY <1>9, <1>10, <1>12, <1>13, WriterKeeps
<1> QED BY <1>t, <1>6, <1>8, <1>9, <1>14

LEMMA InsertPutCountKeeps ==
  ASSUME IInv, NEW s \in Sessions, InsertPutCount(s)
  PROVE  /\ IInv' /\ WriterStep(s, session[s].table)
         /\ \A t \in Tables : t = session[s].table =>
              /\ store[SchemaKey(t)] # NoValue /\ store'[SchemaKey(t)] = store[SchemaKey(t)]
              /\ CountIn(store', t) = Count(t) + 1 /\ Count(t) \in RowIds
              /\ store'[RowKey(t, Count(t))] = store[RowKey(t, Count(t))]
<1> DEFINE p == session[s]
<1>t. PICK t \in Tables : t = p.table
  BY InsertingFacts DEF InsertPutCount
<1>n. PICK n \in RowIds : n = p.id
  BY InsertingFacts DEF InsertPutCount
<1>0. /\ p \in Inserts /\ Inserting(s) /\ InsertInv(p) /\ p.at = "putCount" /\ p.row \in Rows
      /\ TypeOK /\ TableInv(t) /\ n = Count(t) /\ n \in Nat /\ p.row # NoValue
      /\ n < Cardinality(Rows) /\ Turns
  BY <1>t, <1>n, InsertingFacts DEF InsertPutCount, IInv
<1>1. Idle \in Statements /\ Idle \notin Creates \cup Inserts \cup Selects \cup Lists
  <2>1. Idle \in Statements /\ Idle.at = "idle" BY DEF Statements, Idle
  <2> QED BY <2>1, StatementKinds
<1>2. session'[s] = Idle /\ session' \in [Sessions -> Statements]
      /\ \A b \in Sessions \ {s} : session'[b] = session[b]
  BY <1>0, <1>1 DEF TypeOK, InsertPutCount, Become
<1>3. store' = [store EXCEPT ![SeqKey(t)] = n + 1]
  BY <1>t, <1>n DEF InsertPutCount, Engine!Put
<1>4. /\ \A u \in Tables : store'[SchemaKey(u)] = store[SchemaKey(u)]
      /\ \A u \in Tables : store'[SeqKey(u)] = (IF u = t THEN n + 1 ELSE store[SeqKey(u)])
      /\ \A u \in Tables, i \in RowIds : store'[RowKey(u, i)] = store[RowKey(u, i)]
  <2>1. store \in [EngineKeys -> EngineValues \cup {NoValue}]
    BY <1>0 DEF TypeOK
  <2> QED BY <1>0, <1>3, <2>1, SeqPut
<1>5. /\ UNCHANGED <<created, rejected, removed, used>>
      /\ acked' = [acked EXCEPT ![t] = Append(@, p.row)]
  BY <1>t DEF InsertPutCount
<1>6. n + 1 # NoValue /\ CountIn(store', t) = n + 1 /\ CountIn(store, t) = n
  <2>1. n + 1 \in Nat /\ n + 1 # NoValue
    BY <1>0, NoValueAssumption
  <2> QED BY <1>0, <1>4, <2>1 DEF Count, CountIn
<1>7. /\ \A u \in Tables \ {t} : acked'[u] = acked[u]
      /\ acked' \in [Tables -> Seq(Rows)] /\ acked'[t] = Append(acked[t], p.row)
      /\ acked[t] \in Seq(Rows)
  BY <1>0, <1>5 DEF TypeOK
<1>8. WriterStep(s, t)
  BY SMTT(30), <1>t, <1>0, <1>1, <1>2, <1>4, <1>5, <1>6, <1>7 DEF WriterStep
<1>9. TypeOK'
  <2>1. Cardinality(Rows) \in Nat /\ n + 1 \in EngineValues /\ n + 1 \in 0 .. Cardinality(Rows)
    BY <1>0, RowsFinite DEF EngineValues
  <2>2. store' \in [EngineKeys -> EngineValues \cup {NoValue}]
    BY <1>0, <1>3, <2>1 DEF TypeOK
  <2>3. \A u \in Tables : store'[SeqKey(u)] \in 0 .. Cardinality(Rows) \cup {NoValue}
    BY <1>0, <1>4, <2>1 DEF TypeOK
  <2>4. \A u \in Tables, i \in RowIds : store'[RowKey(u, i)] \in used \cup {NoValue}
    BY <1>0, <1>4 DEF TypeOK
  <2> QED BY <1>0, <1>2, <1>4, <1>5, <1>7, <2>2, <2>3, <2>4 DEF TypeOK
<1>10. Grows
  BY <1>8, WriterGrows
<1>11. TableInv(t)'
  <2>1. \A i \in 0 .. n : i \in RowIds
    BY <1>0, RowsFinite DEF RowIds
  <2>2. Count(t)' = n + 1
    BY <1>6 DEF Count, CountIn
  <2>3. \/ store[RowKey(t, n)] = p.row
        \/ store[RowKey(t, n)] = NoValue /\ p.row \in removed
    BY <1>t, <1>n, <1>0 DEF InsertInv, Row
  <2>4. n < Cardinality(used) /\ Cardinality(used) \in Nat
    BY <1>t, <1>0, CountsAreIds DEF InsertInv
  <2>5. (store[SchemaKey(t)] = NoValue => Count(t) = 0 /\ created[t] = 0)'
    <3>1. store'[SchemaKey(t)] # NoValue
      BY <1>t, <1>0, <1>4 DEF InsertInv
    <3> QED BY <3>1
  <2>6. n + 1 <= Cardinality(used') /\ Len(acked'[t]) <= n + 1
    <3>1. Len(acked[t]) <= n
      BY <1>0 DEF TableInv
    <3>2. Len(acked'[t]) = Len(acked[t]) + 1 /\ Len(acked[t]) \in Nat
      BY <1>7
    <3> QED BY <1>0, <1>5, <2>4, <3>1, <3>2
  <2>7. SettledIn(used', rejected', session', p.row)
    <3>1. p.row \in used' \ rejected'
      BY <1>0, <1>5 DEF InsertInv
    <3>2. ASSUME NEW b \in Sessions, session'[b] \in Inserts PROVE session'[b].row # p.row
      BY <1>0, <1>1, <1>2, <3>2 DEF Turns, Inserting
    <3> QED BY <3>1, <3>2 DEF SettledIn
  <2>8. ASSUME NEW i \in 0 .. n, store'[RowKey(t, i)] # NoValue
        PROVE  SettledIn(used', rejected', session', store'[RowKey(t, i)])
    <3>1. store'[RowKey(t, i)] = store[RowKey(t, i)]
      BY <1>4, <2>1
    <3>2. CASE i = n
      BY <2>3, <2>7, <2>8, <3>1, <3>2
    <3>3. CASE i # n
      <4>1. i \in 0 .. n - 1
        BY <1>0, <3>3
      <4>2. SettledIn(used, rejected, session, store[RowKey(t, i)])
        BY <1>0, <2>8, <3>1, <4>1 DEF TableInv, Row, Settled
      <4> QED BY <1>10, <3>1, <4>2 DEF Grows
    <3> QED BY <3>2, <3>3
  <2>9. ASSUME NEW i \in 0 .. n - 1, store[RowKey(t, i)] # NoValue PROVE store[RowKey(t, i)] # store[RowKey(t, n)]
    <3>1. store[RowKey(t, i)] # p.row
      BY <1>0, <2>9 DEF TableInv, Row, Settled, SettledIn, Inserting
    <3> QED BY <2>3, <2>9, <3>1
  <2>10. ASSUME NEW i \in 0 .. n, NEW j \in 0 .. n,
                store'[RowKey(t, i)] = store'[RowKey(t, j)], store'[RowKey(t, i)] # NoValue
         PROVE  i = j
    <3>1. store'[RowKey(t, i)] = store[RowKey(t, i)] /\ store'[RowKey(t, j)] = store[RowKey(t, j)]
      BY <1>4, <2>1
    <3>2. CASE i \in 0 .. n - 1 /\ j \in 0 .. n - 1
      BY <1>0, <2>10, <3>1, <3>2 DEF TableInv, Row
    <3>3. CASE i = n /\ j \in 0 .. n - 1
      BY <2>9, <2>10, <3>1, <3>3
    <3>4. CASE j = n /\ i \in 0 .. n - 1
      BY <2>9, <2>10, <3>1, <3>4
    <3>5. (i \in 0 .. n - 1 \/ i = n) /\ (j \in 0 .. n - 1 \/ j = n)
      BY <1>0
    <3> QED BY <3>2, <3>3, <3>4, <3>5
  <2>11. ASSUME NEW k \in DOMAIN acked'[t]
         PROVE  acked'[t][k] \in removed' \/ \E i \in 0 .. n : store'[RowKey(t, i)] = acked'[t][k]
    <3>1. CASE k \in DOMAIN acked[t]
      <4>1. acked'[t][k] = acked[t][k]
        BY <1>7, <3>1
      <4>2. acked[t][k] \in removed \/ \E i \in 0 .. n - 1 : store[RowKey(t, i)] = acked[t][k]
        BY <1>0, <3>1 DEF TableInv, Kept, Row
      <4>3. \A i \in 0 .. n - 1 : i \in 0 .. n
        BY <1>0
      <4> QED BY <1>4, <1>5, <2>1, <4>1, <4>2, <4>3
    <3>2. CASE k \notin DOMAIN acked[t]
      <4>1. acked'[t][k] = p.row
        BY <1>7, <3>2
      <4>2. n \in 0 .. n /\ store'[RowKey(t, n)] = store[RowKey(t, n)]
        BY <1>0, <1>4
      <4> QED BY <1>5, <2>3, <4>1, <4>2
    <3> QED BY <3>1, <3>2
  <2>12. 0 .. (n + 1) - 1 = 0 .. n
    BY <1>0
  <2> QED BY <2>2, <2>5, <2>6, <2>8, <2>10, <2>11, <2>12 DEF TableInv, Kept, Row, Settled
<1>12. SessionInv(s)'
  BY <1>1, <1>2 DEF SessionInv, StatementInv
<1>13. IInv'
  BY <1>8, <1>9, <1>11, <1>12, WriterKeeps
<1>14. /\ store[SchemaKey(t)] # NoValue /\ store'[SchemaKey(t)] = store[SchemaKey(t)]
       /\ CountIn(store', t) = Count(t) + 1 /\ Count(t) \in RowIds
       /\ store'[RowKey(t, Count(t))] = store[RowKey(t, Count(t))]
  BY <1>t, <1>0, <1>4, <1>6 DEF InsertInv
<1> QED BY <1>t, <1>8, <1>13, <1>14

--------------------------------------------------------------------------------
(* The world around the statements.                                         *)

\* Rows are deleted through the key-value routes, or nothing happens to the engine.
DeleteStep ==
  /\ UNCHANGED <<session, acked, rejected, created, used>>
  /\ store' \in [EngineKeys -> EngineValues \cup {NoValue}]
  /\ removed \subseteq removed' /\ removed' \subseteq used
  /\ \A t \in Tables :
       /\ store'[SchemaKey(t)] = store[SchemaKey(t)] /\ store'[SeqKey(t)] = store[SeqKey(t)]
       /\ \A i \in RowIds :
            \/ store'[RowKey(t, i)] = store[RowKey(t, i)]
            \/ store'[RowKey(t, i)] = NoValue /\ store[RowKey(t, i)] \in removed'

LEMMA DeleteIsDelete ==
  ASSUME IInv, NEW t \in Tables, NEW i \in RowIds, DeleteRowKey(t, i)
  PROVE  DeleteStep
<1>0. TypeOK
  BY DEF IInv
<1>1. store' = [store EXCEPT ![RowKey(t, i)] = NoValue] /\ store[RowKey(t, i)] # NoValue
      /\ removed' = removed \cup {store[RowKey(t, i)]}
  BY DEF DeleteRowKey, Engine!Delete
<1>2. \A k \in EngineKeys : store'[k] = IF k = RowKey(t, i) THEN NoValue ELSE store[k]
  BY <1>0, <1>1 DEF TypeOK
<1>3. store' \in [EngineKeys -> EngineValues \cup {NoValue}]
  BY <1>0, <1>1 DEF TypeOK
<1>4. ASSUME NEW u \in Tables
      PROVE  store'[SchemaKey(u)] = store[SchemaKey(u)] /\ store'[SeqKey(u)] = store[SeqKey(u)]
  BY <1>2, KeysDiffer, KeysAreKeys
<1>5. ASSUME NEW u \in Tables, NEW j \in RowIds
      PROVE  \/ store'[RowKey(u, j)] = store[RowKey(u, j)]
             \/ store'[RowKey(u, j)] = NoValue /\ store[RowKey(u, j)] \in removed'
  <2>1. RowKey(u, j) \in EngineKeys
    BY KeysAreKeys
  <2> QED BY <1>1, <1>2, <2>1
<1>6. removed' \subseteq used
  BY <1>0, <1>1 DEF TypeOK
<1> QED BY <1>1, <1>3, <1>4, <1>5, <1>6 DEF DeleteStep, DeleteRowKey

LEMMA DeleteGrows ==
  ASSUME IInv, DeleteStep
  PROVE  Grows /\ \A t \in Tables : CountIn(store', t) = CountIn(store, t) /\ CountIn(store, t) \in Nat
<1>1. ASSUME NEW t \in Tables
      PROVE  /\ CountIn(store', t) = CountIn(store, t) /\ CountIn(store, t) \in Nat
             /\ \A i \in 0 .. CountIn(store, t) - 1 : i \in RowIds
  BY CountsAreIds DEF IInv, CountIn, Count, DeleteStep
<1> QED BY <1>1 DEF Grows, DeleteStep

LEMMA DeleteKeeps ==
  ASSUME IInv, DeleteStep
  PROVE  IInv'
<1>0. TypeOK /\ Turns /\ \A t \in Tables : TableInv(t)
  BY DEF IInv
<1>1. Grows /\ \A t \in Tables : CountIn(store', t) = CountIn(store, t) /\ CountIn(store, t) \in Nat
  BY DeleteGrows
<1>2. TypeOK'
  <2>1. \A t \in Tables, i \in RowIds : store'[RowKey(t, i)] \in used \cup {NoValue}
    BY <1>0 DEF TypeOK, DeleteStep
  <2> QED BY <1>0, <2>1 DEF TypeOK, DeleteStep
<1>3. used' = used /\ rejected' = rejected /\ Cardinality(used) \in Nat
  BY <1>0, RowsFinite DEF TypeOK, DeleteStep
<1>4. ASSUME NEW t \in Tables PROVE TableInv(t)'
  <2>1. acked'[t] = acked[t] /\ created'[t] = created[t]
    BY DEF DeleteStep
  <2> QED BY <1>0, <1>1, <1>3, <2>1, TableStays
<1>5. Turns'
  BY <1>0 DEF Turns, Creating, Inserting, DeleteStep
<1>6. ASSUME NEW b \in Sessions PROVE SessionInv(b)'
  <2>1. Inserting(b) => session[b].row \notin rejected'
    BY <1>3 DEF IInv, SessionInv, StatementInv, InsertInv, Inserting
  <2>2. Creating(b) \/ Inserting(b) => session[b].table \in Tables
    BY DEF Creating, Inserting, Creates, Inserts
  <2>3. Creating(b) \/ Inserting(b) =>
          LET t == session[b].table IN
          /\ store'[SchemaKey(t)] = store[SchemaKey(t)] /\ CountIn(store', t) = CountIn(store, t)
          /\ \A i \in RowIds : \/ store'[RowKey(t, i)] = store[RowKey(t, i)]
                               \/ /\ store'[RowKey(t, i)] = NoValue
                                  /\ store[RowKey(t, i)] \in removed' \cup {NoValue}
    BY <1>1, <2>2 DEF DeleteStep
  <2>4. session'[b] = session[b]
    BY DEF DeleteStep
  <2> QED BY <1>1, <1>3, <2>1, <2>3, <2>4, OthersStay
<1> QED BY <1>2, <1>4, <1>5, <1>6 DEF IInv

LEMMA CrashKeeps ==
  ASSUME IInv, Crash
  PROVE  IInv'
<1>0. TypeOK /\ \A t \in Tables : TableInv(t)
  BY DEF IInv
<1>1. Idle \in Statements /\ Idle \notin Creates \cup Inserts \cup Selects \cup Lists
  <2>1. Idle \in Statements /\ Idle.at = "idle" BY DEF Statements, Idle
  <2> QED BY <2>1, StatementKinds
<1>2. session' \in [Sessions -> Statements] /\ \A s \in Sessions : session'[s] = Idle
  BY <1>1 DEF Crash
<1>3. UNCHANGED <<store, acked, rejected, removed, created, used>>
  BY DEF Crash, history
<1>4. TypeOK'
  BY <1>0, <1>2, <1>3 DEF TypeOK
<1>5. \A t \in Tables : CountIn(store', t) = CountIn(store, t) /\ CountIn(store, t) \in Nat
  BY <1>0, <1>3, CountsAreIds DEF CountIn, Count
<1>6. Grows
  <2>1. \A r : SettledIn(used, rejected, session, r) => SettledIn(used', rejected', session', r)
    BY <1>1, <1>2, <1>3 DEF SettledIn
  <2> QED BY <1>3, <1>5, <2>1 DEF Grows
<1>7. ASSUME NEW t \in Tables PROVE TableInv(t)'
  <2>1. Cardinality(used') \in Nat /\ Cardinality(used) <= Cardinality(used')
    BY <1>0, <1>3, RowsFinite DEF TypeOK
  <2>2. acked'[t] = acked[t] /\ created'[t] = created[t]
    BY <1>3
  <2> QED BY <1>0, <1>5, <1>6, <2>1, <2>2, TableStays
<1>8. Turns'
  BY <1>1, <1>2 DEF Turns, Creating, Inserting
<1>9. ASSUME NEW s \in Sessions PROVE SessionInv(s)'
  BY <1>1, <1>2 DEF SessionInv, StatementInv
<1> QED BY <1>4, <1>7, <1>8, <1>9 DEF IInv

--------------------------------------------------------------------------------
(* The invariant holds.                                                     *)

LEMMA InitInv == Init => IInv
<1> SUFFICES ASSUME Init PROVE IInv
  OBVIOUS
<1>1. Idle \in Statements /\ Idle \notin Creates \cup Inserts \cup Selects \cup Lists
  <2>1. Idle \in Statements /\ Idle.at = "idle" BY DEF Statements, Idle
  <2> QED BY <2>1, StatementKinds
<1>2. /\ store = [k \in EngineKeys |-> NoValue] /\ session = [s \in Sessions |-> Idle]
      /\ acked = [t \in Tables |-> <<>>] /\ created = [t \in Tables |-> 0]
      /\ rejected = {} /\ removed = {} /\ used = {}
  BY DEF Init, Engine!Init
<1>3. ASSUME NEW t \in Tables
      PROVE  /\ store[SchemaKey(t)] = NoValue /\ store[SeqKey(t)] = NoValue
             /\ \A i \in RowIds : store[RowKey(t, i)] = NoValue
  BY <1>2, KeysAreKeys
<1>4. TypeOK
  BY <1>1, <1>2, <1>3 DEF TypeOK
<1>5. ASSUME NEW t \in Tables PROVE TableInv(t)
  <2>1. Count(t) = 0 /\ acked[t] = <<>> /\ created[t] = 0 /\ Len(acked[t]) = 0 /\ DOMAIN acked[t] = {}
    BY <1>2, <1>3 DEF Count
  <2>2. Cardinality(used) \in Nat
    BY <1>2, RowsFinite
  <2> QED BY <2>1, <2>2 DEF TableInv
<1>6. Turns
  BY <1>1, <1>2 DEF Turns, Creating, Inserting
<1>7. ASSUME NEW s \in Sessions PROVE SessionInv(s)
  BY <1>1, <1>2 DEF SessionInv, StatementInv
<1> QED BY <1>4, <1>5, <1>6, <1>7 DEF IInv

\* What the goroutine of a request does keeps the invariant.
LEMMA StepKeeps ==
  ASSUME IInv, NEW s \in Sessions, Step(s)
  PROVE  IInv'
<1>1. CASE GetFails(s)
  <2>1. At(s) # "idle" /\ Fail(s) BY <1>1 DEF GetFails
  <2> QED BY <2>1, FailKeeps
<1>2. CASE PutFails(s)
  <2>1. At(s) # "idle" /\ Fail(s) BY <1>2 DEF PutFails
  <2> QED BY <2>1, FailKeeps
<1>3. CASE Refuse(s)
  <2>1. At(s) # "idle" /\ Fail(s) BY <1>3 DEF Refuse
  <2> QED BY <2>1, FailKeeps
<1>4. CASE CreateCheck(s) \/ CreatePutSchema(s) \/ CreatePutCounter(s)
  BY <1>4, CreateCheckKeeps, CreatePutSchemaKeeps, CreatePutCounterKeeps
<1>5. CASE InsertReadSchema(s) \/ InsertReadCount(s) \/ InsertPutRow(s) \/ InsertPutCount(s)
  BY <1>5, InsertReadSchemaKeeps, InsertReadCountKeeps, InsertPutRowKeeps, InsertPutCountKeeps
<1>6. CASE SelectReadSchema(s) \/ SelectReadCount(s) \/ SelectRow(s) \/ SelectRowFails(s) \/ SelectDone(s)
  BY <1>6, SelectReadSchemaKeeps, SelectReadCountKeeps, SelectRowKeeps, SelectRowFailsKeeps, SelectDoneKeeps
<1>7. CASE ListReadCount(s) \/ ListReadFails(s) \/ ListDone(s) \/ Answer(s)
  BY <1>7, ListReadCountKeeps, ListReadFailsKeeps, ListDoneKeeps, AnswerKeeps
<1> QED BY <1>1, <1>2, <1>3, <1>4, <1>5, <1>6, <1>7 DEF Step

LEMMA NextInv == TurnTaking /\ IInv /\ [Next]_vars => IInv'
<1> SUFFICES ASSUME TurnTaking, IInv, [Next]_vars PROVE IInv'
  OBVIOUS
<1>1. ASSUME NEW s \in Sessions, Begin(s) PROVE IInv'
  BY <1>1, BeginCreateKeeps, BeginInsertKeeps, BeginSelectKeeps DEF Begin
<1>2. ASSUME NEW s \in Sessions, BeginList(s) \/ ListScanFails(s) PROVE IInv'
  BY <1>2, BeginListKeeps
<1>3. ASSUME NEW s \in Sessions, Step(s) PROVE IInv'
  BY <1>3, StepKeeps
<1>4. ASSUME NEW t \in Tables, NEW i \in RowIds, DeleteRowKey(t, i) PROVE IInv'
  BY <1>4, DeleteIsDelete, DeleteKeeps
<1>5. CASE Crash
  BY <1>5, CrashKeeps
<1>6. CASE UNCHANGED vars
  <2>1. DeleteStep
    BY <1>6 DEF DeleteStep, vars, history, IInv, TypeOK
  <2> QED BY <2>1, DeleteKeeps
<1> QED BY <1>1, <1>2, <1>3, <1>4, <1>5, <1>6 DEF Next

LEMMA Invariance == TurnTaking /\ Spec => []IInv
<1>1. Init => IInv
  BY InitInv
<1>2. TurnTaking /\ IInv /\ [Next]_vars => IInv'
  BY NextInv
<1>3. ASSUME TurnTaking PROVE Spec => []IInv
  <2>1. IInv /\ [Next]_vars => IInv'
    BY <1>2, <1>3
  <2> QED BY <1>1, <2>1, PTL DEF Spec
<1> QED BY <1>3 DEF TurnTaking

--------------------------------------------------------------------------------
(* What the statements answer.                                              *)

\* Every state is of its type: the engine's values are where their keys say, a request
\* knows what its statement knows (ExecuteStatement and the functions it calls).
THEOREM SqlTypes == TurnTaking /\ Spec => []TypeOK
<1>1. IInv => TypeOK
  BY DEF IInv
<1> QED BY <1>1, Invariance, PTL

LEMMA SelectedFacts ==
  ASSUME IInv, NEW s \in Sessions, Selected(s)
  PROVE  LET q == session[s] IN
         /\ q \in Selects /\ ScanInv(q) /\ q.at = "answered" /\ q.table \in Tables
         /\ q.next \in Nat /\ q.count \in Nat /\ q.where \subseteq Rows
         /\ Count(q.table) \in Nat
<1>1. session[s] \in Selects /\ session[s].at = "answered"
  BY StatementKinds DEF Selected, At, IInv, TypeOK
<1> QED BY <1>1, SelectFacts DEF SelectInv

\* A SELECT beside a writer answers the table of one moment (executeSelect).
THEOREM SelectAnswersSnapshot == TurnTaking /\ Spec => []SelectIsSnapshot
<1>1. ASSUME IInv PROVE SelectIsSnapshot
  <2> SUFFICES ASSUME removed = {}, NEW s \in Sessions, Selected(s)
               PROVE  LET q == session[s]
                          row == Content(q.table)
                          wanted == q.where \ q.unread
                      IN /\ q.limit # NoLimit => Len(q.out) <= q.limit
                         /\ \E place \in [DOMAIN q.out -> 1 .. q.count] :
                              /\ \A m, n \in DOMAIN q.out : m < n => place[m] < place[n]
                              /\ \A n \in DOMAIN q.out : q.out[n] = row[place[n]] /\ q.out[n] \in wanted
                              /\ \A i \in 1 .. q.count : row[i] \in wanted =>
                                   \/ \E n \in DOMAIN q.out : place[n] = i
                                   \/ LimitReached(q) /\ \A n \in DOMAIN q.out : place[n] < i
    BY DEF SelectIsSnapshot
  <2> DEFINE q == session[s]
             t == q.table
             row == Content(t)
             wanted == q.where \ q.unread
  <2>1. /\ ScanInv(q) /\ q.at = "answered" /\ q.next \in Nat /\ q.count \in Nat /\ Count(t) \in Nat
    BY <1>1, SelectedFacts
  <2>2. /\ q.next <= q.count /\ q.count <= Count(t) /\ store[SchemaKey(t)] # NoValue
        /\ q.next = q.count \/ LimitReached(q)
    BY <2>1 DEF ScanInv
  <2>3. PICK place \in Places(q) : SnapshotOf(q, place)
    BY <2>1 DEF ScanInv
  <2>4. \A i \in 1 .. q.count : row[i] = Row(t, i - 1)
    <3>1. row = [i \in 1 .. Count(t) |-> store[RowKey(t, i - 1)]]
      BY <2>2 DEF Content
    <3>2. \A i \in 1 .. q.count : i \in 1 .. Count(t)
      BY <2>1, <2>2
    <3> QED BY <3>1, <3>2 DEF Row
  <2>5. 1 .. q.next \subseteq 1 .. q.count
    BY <2>1, <2>2
  <2>6. place \in [DOMAIN q.out -> 1 .. q.count] /\ \A n \in DOMAIN q.out : place[n] \in 1 .. q.next
    <3>1. place \in [DOMAIN q.out -> 1 .. q.next]
      BY DEF Places
    <3> QED BY <2>5, <3>1
  <2>7. \A m, n \in DOMAIN q.out : m < n => place[m] < place[n]
    BY <2>3 DEF SnapshotOf
  <2>8. ASSUME NEW n \in DOMAIN q.out PROVE q.out[n] = row[place[n]] /\ q.out[n] \in wanted
    BY <2>3, <2>4, <2>5, <2>6 DEF SnapshotOf
  <2>9. ASSUME NEW i \in 1 .. q.count, row[i] \in wanted
        PROVE  \/ \E n \in DOMAIN q.out : place[n] = i
               \/ LimitReached(q) /\ \A n \in DOMAIN q.out : place[n] < i
    <3>1. CASE i <= q.next
      <4>1. i \in 1 .. q.next BY <2>1, <3>1
      <4> QED BY <2>3, <2>4, <2>9, <4>1 DEF SnapshotOf
    <3>2. CASE ~ (i <= q.next)
      <4>1. LimitReached(q) BY <2>1, <2>2, <3>2
      <4>2. \A n \in DOMAIN q.out : place[n] < i BY <2>1, <2>6, <3>2
      <4> QED BY <4>1, <4>2
    <3> QED BY <3>1, <3>2
  <2>10. q.limit # NoLimit => Len(q.out) <= q.limit
    BY <2>1 DEF ScanInv
  <2> QED BY <2>6, <2>7, <2>8, <2>9, <2>10
<1> QED BY <1>1, Invariance, PTL

\* A SELECT misses no acknowledged row and shows none whose INSERT fails (executeInsert
\* puts the counter last).
THEOREM SelectAnswersAcked == TurnTaking /\ Spec => []SelectSeesAcked
<1>1. ASSUME IInv PROVE SelectSeesAcked
  <2> SUFFICES ASSUME NEW s \in Sessions, Selected(s)
               PROVE  LET q == session[s] IN
                      /\ Elements(q.out) \cap rejected = {}
                      /\ \/ LimitReached(q)
                         \/ (Elements(q.before) \cap q.where) \ (removed \cup q.unread)
                              \subseteq Elements(q.out)
    BY DEF SelectSeesAcked
  <2> DEFINE q == session[s]
  <2>1. ScanInv(q) /\ q.at = "answered" /\ q.next \in Nat /\ q.count \in Nat
    BY <1>1, SelectedFacts
  <2>2. Elements(q.out) \cap rejected = {}
    BY <2>1 DEF ScanInv, Settled, SettledIn, Elements
  <2>3. ASSUME ~ LimitReached(q)
        PROVE  (Elements(q.before) \cap q.where) \ (removed \cup q.unread) \subseteq Elements(q.out)
    <3>1. q.next = q.count
      BY <2>1, <2>3 DEF ScanInv
    <3>2. q.next .. q.count - 1 = {}
      BY <2>1, <3>1
    <3>3. ASSUME NEW k \in DOMAIN q.before, q.before[k] \in q.where
          PROVE  q.before[k] \in removed \cup q.unread \cup Elements(q.out)
      BY <2>1, <3>2, <3>3 DEF ScanInv
    <3> QED BY <3>3 DEF Elements
  <2> QED BY <2>2, <2>3
<1> QED BY <1>1, Invariance, PTL

\* ListTables names the tables created before and counts neither too little nor too
\* much (ListTables beside writers).
THEOREM ListAnswersCurrent == TurnTaking /\ Spec => []ListIsCurrent
<1>1. ASSUME IInv PROVE ListIsCurrent
  <2> SUFFICES ASSUME NEW s \in Sessions, At(s) = "answered", session[s].op = "list", NEW t \in Tables
               PROVE  /\ session[s].known[t] > 0 =>
                           t \in DOMAIN session[s].counts \cup session[s].unread
                      /\ t \in DOMAIN session[s].counts \ session[s].unread =>
                           session[s].counts[t] \in Len(session[s].ackedBefore[t]) .. Count(t)
    BY DEF ListIsCurrent
  <2>1. session[s] \in Lists /\ session[s].at = "answered"
    BY <1>1, StatementKinds DEF At, IInv, TypeOK
  <2>2. ListInv(session[s])
    BY <1>1, <2>1 DEF IInv, SessionInv, StatementInv
  <2> QED BY <2>1, <2>2 DEF ListInv
<1> QED BY <1>1, Invariance, PTL

--------------------------------------------------------------------------------
(* The statements implement TableLog.                                       *)

\* The table t in the engine.
View(map, t) ==
  IF map[SchemaKey(t)] = NoValue THEN NoTable
  ELSE [i \in 1 .. CountIn(map, t) |-> map[RowKey(t, i - 1)]]
Views(map) == [t \in Tables |-> View(map, t)]

LEMMA ViewStays ==
  ASSUME NEW t, CountIn(store, t) \in Nat, CountIn(store', t) = CountIn(store, t),
         store'[SchemaKey(t)] = NoValue <=> store[SchemaKey(t)] = NoValue,
         \A i \in 0 .. CountIn(store, t) - 1 : store'[RowKey(t, i)] = store[RowKey(t, i)]
  PROVE  View(store', t) = View(store, t)
<1> DEFINE n == CountIn(store, t)
<1>1. \A i \in 1 .. n : i - 1 \in 0 .. n - 1
  OBVIOUS
<1>2. \A i \in 1 .. n : store'[RowKey(t, i - 1)] = store[RowKey(t, i - 1)]
  BY <1>1
<1>3. [i \in 1 .. n |-> store'[RowKey(t, i - 1)]] = [i \in 1 .. n |-> store[RowKey(t, i - 1)]]
  BY <1>2
<1> QED BY <1>3 DEF View

LEMMA ViewFacts ==
  ASSUME IInv, NEW t \in Tables
  PROVE  /\ CountIn(store, t) = Count(t) /\ Count(t) \in Nat /\ Count(t) <= Cardinality(Rows)
         /\ Cardinality(Rows) \in Nat /\ \A i \in 0 .. Count(t) - 1 : i \in RowIds
         /\ store[SchemaKey(t)] # NoValue =>
              View(store, t) \in [1 .. Count(t) -> Rows \cup {NoValue}] /\ View(store, t) # NoTable
<1>0. TypeOK /\ TableInv(t)
  BY DEF IInv
<1>1. /\ CountIn(store, t) = Count(t) /\ Count(t) \in Nat /\ Count(t) <= Cardinality(Rows)
      /\ Cardinality(Rows) \in Nat /\ \A i \in 0 .. Count(t) - 1 : i \in RowIds
  BY <1>0, CountsAreIds, RowsFinite DEF CountIn, Count
<1>2. ASSUME store[SchemaKey(t)] # NoValue
      PROVE  View(store, t) \in [1 .. Count(t) -> Rows \cup {NoValue}] /\ View(store, t) # NoTable
  <2>1. ASSUME NEW i \in 1 .. Count(t) PROVE store[RowKey(t, i - 1)] \in Rows \cup {NoValue}
    <3>1. i - 1 \in 0 .. Count(t) - 1
      BY <1>1
    <3>2. i - 1 \in RowIds
      BY <1>1, <3>1
    <3> QED BY <1>0, <3>2 DEF TypeOK
  <2>2. View(store, t) = [i \in 1 .. Count(t) |-> store[RowKey(t, i - 1)]]
    BY <1>1, <1>2 DEF View
  <2>3. View(store, t) \in [1 .. Count(t) -> Rows \cup {NoValue}]
    BY <2>1, <2>2
  <2>4. Count(t) \in 0 .. Cardinality(Rows)
    BY <1>1
  <2> QED BY <2>3, <2>4, NoTableAssumption
<1> QED BY <1>1, <1>2

\* A step of a writer changes no other table.
LEMMA OtherViewsStay ==
  ASSUME IInv, NEW s \in Sessions, NEW t \in Tables, WriterStep(s, t), NEW u \in Tables, u # t
  PROVE  View(store', u) = View(store, u)
<1>1. CountIn(store', u) = CountIn(store, u) /\ store'[SchemaKey(u)] = store[SchemaKey(u)]
  BY DEF WriterStep, CountIn
<1>2. \A i \in 0 .. CountIn(store, u) - 1 : store'[RowKey(u, i)] = store[RowKey(u, i)]
  BY ViewFacts DEF WriterStep
<1> QED BY <1>1, <1>2, ViewFacts, ViewStays

LEMMA CreatePutSchemaCreates ==
  ASSUME IInv, NEW s \in Sessions, CreatePutSchema(s)
  PROVE  \E t \in Tables : View(store, t) = NoTable /\ Views(store') = [Views(store) EXCEPT ![t] = <<>>]
<1>1. PICK t \in Tables : t = session[s].table
  BY CreatingFacts DEF CreatePutSchema
<1>2. /\ WriterStep(s, t) /\ store[SchemaKey(t)] = NoValue /\ store'[SchemaKey(t)] # NoValue
      /\ CountIn(store', t) = 0
  BY <1>1, CreatePutSchemaKeeps
<1>3. View(store, t) = NoTable
  BY <1>2 DEF View
<1>4. View(store', t) = <<>>
  <2>1. 1 .. 0 = {}
    OBVIOUS
  <2>2. View(store', t) = [i \in 1 .. 0 |-> store'[RowKey(t, i - 1)]]
    BY <1>2 DEF View
  <2> QED BY <2>1, <2>2
<1>5. \A u \in Tables \ {t} : View(store', u) = View(store, u)
  BY <1>2, OtherViewsStay
<1> QED BY <1>3, <1>4, <1>5 DEF Views

LEMMA CreatePutCounterStutters ==
  ASSUME IInv, NEW s \in Sessions, CreatePutCounter(s)
  PROVE  Views(store') = Views(store)
<1>1. PICK t \in Tables : t = session[s].table
  BY CreatingFacts DEF CreatePutCounter
<1>2. /\ WriterStep(s, t) /\ store[SchemaKey(t)] # NoValue /\ store'[SchemaKey(t)] # NoValue
      /\ CountIn(store', t) = CountIn(store, t)
  BY <1>1, CreatePutCounterKeeps
<1>3. \A i \in 0 .. CountIn(store, t) - 1 : store'[RowKey(t, i)] = store[RowKey(t, i)]
  BY <1>2, ViewFacts DEF WriterStep
<1>4. View(store', t) = View(store, t)
  BY <1>2, <1>3, ViewFacts, ViewStays
<1>5. \A u \in Tables \ {t} : View(store', u) = View(store, u)
  BY <1>2, OtherViewsStay
<1> QED BY <1>4, <1>5 DEF Views

LEMMA InsertPutRowStutters ==
  ASSUME IInv, NEW s \in Sessions, InsertPutRow(s)
  PROVE  Views(store') = Views(store)
<1>1. PICK t \in Tables : t = session[s].table
  BY InsertingFacts DEF InsertPutRow
<1>2. /\ WriterStep(s, t) /\ store'[SchemaKey(t)] = store[SchemaKey(t)]
      /\ CountIn(store', t) = CountIn(store, t)
  BY <1>1, InsertPutRowKeeps
<1>3. \A i \in 0 .. CountIn(store, t) - 1 : store'[RowKey(t, i)] = store[RowKey(t, i)]
  BY <1>2, ViewFacts DEF WriterStep
<1>4. View(store', t) = View(store, t)
  BY <1>2, <1>3, ViewFacts, ViewStays
<1>5. \A u \in Tables \ {t} : View(store', u) = View(store, u)
  BY <1>2, OtherViewsStay
<1> QED BY <1>4, <1>5 DEF Views

LEMMA InsertPutCountInserts ==
  ASSUME IInv, NEW s \in Sessions, InsertPutCount(s)
  PROVE  \E t \in Tables, r \in Rows \cup {NoValue} :
           View(store, t) # NoTable /\ Views(store') = [Views(store) EXCEPT ![t] = Append(@, r)]
<1>1. PICK t \in Tables : t = session[s].table
  BY InsertingFacts DEF InsertPutCount
<1> DEFINE n == Count(t)
<1>2. /\ WriterStep(s, t) /\ store[SchemaKey(t)] # NoValue /\ store'[SchemaKey(t)] = store[SchemaKey(t)]
      /\ CountIn(store', t) = n + 1 /\ n \in RowIds /\ store'[RowKey(t, n)] = store[RowKey(t, n)]
  BY <1>1, InsertPutCountKeeps
<1>3. n \in Nat /\ CountIn(store, t) = n /\ View(store, t) \in [1 .. n -> Rows \cup {NoValue}]
      /\ View(store, t) # NoTable /\ \A i \in 0 .. n - 1 : i \in RowIds
  BY <1>2, ViewFacts
<1>4. PICK r : r = store[RowKey(t, n)]
  OBVIOUS
<1>5. r \in Rows \cup {NoValue}
  BY <1>2, <1>4 DEF IInv, TypeOK
<1>6. View(store', t) = Append(View(store, t), r)
  <2>1. PICK old : old = View(store, t)
    OBVIOUS
  <2>2. PICK new : new = View(store', t)
    OBVIOUS
  <2>3. new = [i \in 1 .. n + 1 |-> store'[RowKey(t, i - 1)]]
    BY <1>2, <2>2 DEF View
  <2>4. old = [i \in 1 .. n |-> store[RowKey(t, i - 1)]]
    BY <1>2, <1>3, <2>1 DEF View
  <2>5. ASSUME NEW i \in 1 .. n PROVE store'[RowKey(t, i - 1)] = store[RowKey(t, i - 1)]
    <3>1. i - 1 \in 0 .. n - 1
      BY <1>3
    <3>2. i - 1 \in RowIds /\ i - 1 < n
      BY <1>3, <3>1
    <3> QED BY <1>2, <3>2 DEF WriterStep
  <2>6. old \in Seq(Rows \cup {NoValue}) /\ Len(old) = n
    BY <1>3, <2>1
  <2>7. \A i \in 1 .. n : new[i] = old[i] /\ i \in 1 .. n + 1
    BY <1>3, <2>3, <2>4, <2>5
  <2>8. new[n + 1] = r
    <3>1. (n + 1) - 1 = n /\ n + 1 \in 1 .. n + 1
      BY <1>3
    <3> QED BY <1>2, <1>4, <2>3, <3>1
  <2>9. new \in Seq(Rows \cup {NoValue}) /\ Len(new) = n + 1
    <3>1. ASSUME NEW i \in 1 .. n + 1 PROVE new[i] \in Rows \cup {NoValue}
      <4>1. CASE i = n + 1
        BY <1>5, <2>8, <4>1
      <4>2. CASE i # n + 1
        <5>1. i \in 1 .. n BY <1>3, <4>2
        <5> QED BY <2>6, <2>7, <5>1
      <4> QED BY <4>1, <4>2
    <3>2. new \in [1 .. n + 1 -> Rows \cup {NoValue}]
      BY <2>3, <3>1
    <3> QED BY <1>3, <3>2
  <2>10. Append(old, r) \in Seq(Rows \cup {NoValue}) /\ Len(Append(old, r)) = n + 1
         /\ Append(old, r)[n + 1] = r /\ \A i \in 1 .. n : Append(old, r)[i] = old[i]
    BY <1>5, <2>6, AppendProperties
  <2>11. \A i \in 1 .. n + 1 : new[i] = Append(old, r)[i]
    <3>1. \A i \in 1 .. n + 1 : i = n + 1 \/ i \in 1 .. n
      BY <1>3
    <3> QED BY <2>7, <2>8, <2>10, <3>1
  <2>12. new = Append(old, r)
    BY <2>9, <2>10, <2>11, SeqEqual
  <2> QED BY <2>1, <2>2, <2>12
<1>7. \A u \in Tables \ {t} : View(store', u) = View(store, u)
  BY <1>2, OtherViewsStay
<1>8. Views(store') = [Views(store) EXCEPT ![t] = Append(@, r)]
  BY <1>6, <1>7 DEF Views
<1> QED BY <1>3, <1>5, <1>8

LEMMA DeleteRemoves ==
  ASSUME IInv, NEW t \in Tables, NEW j \in RowIds, DeleteRowKey(t, j)
  PROVE  \/ Views(store') = Views(store)
         \/ /\ View(store, t) # NoTable
            /\ \E i \in DOMAIN View(store, t) :
                 Views(store') = [Views(store) EXCEPT ![t] = [@ EXCEPT ![i] = NoValue]]
<1>1. \A k \in EngineKeys : store'[k] = IF k = RowKey(t, j) THEN NoValue ELSE store[k]
  BY DEF DeleteRowKey, Engine!Delete, IInv, TypeOK
<1>2. ASSUME NEW u \in Tables
      PROVE  store'[SchemaKey(u)] = store[SchemaKey(u)] /\ store'[SeqKey(u)] = store[SeqKey(u)]
  BY <1>1, KeysDiffer, KeysAreKeys
<1>3. ASSUME NEW u \in Tables, NEW i \in RowIds, u # t \/ i # j
      PROVE  store'[RowKey(u, i)] = store[RowKey(u, i)]
  BY <1>1, <1>3, KeysDiffer, KeysAreKeys
<1>4. store'[RowKey(t, j)] = NoValue
  BY <1>1, KeysAreKeys
<1>5. \A u \in Tables : CountIn(store', u) = CountIn(store, u)
  BY <1>2 DEF CountIn
<1>6. ASSUME NEW u \in Tables \ {t} PROVE View(store', u) = View(store, u)
  <2>1. \A i \in 0 .. CountIn(store, u) - 1 : store'[RowKey(u, i)] = store[RowKey(u, i)]
    BY <1>3, ViewFacts
  <2> QED BY <1>2, <1>5, <2>1, ViewFacts, ViewStays
<1> DEFINE n == Count(t)
<1>7. n \in Nat /\ CountIn(store, t) = n /\ CountIn(store', t) = n /\ j \in Nat
      /\ \A i \in 0 .. n - 1 : i \in RowIds
  BY <1>5, ViewFacts DEF RowIds
<1>8. CASE store[SchemaKey(t)] = NoValue \/ ~ (j < n)
  <2>1. View(store', t) = View(store, t)
    <3>1. CASE store[SchemaKey(t)] = NoValue
      BY <1>2, <3>1 DEF View
    <3>2. CASE ~ (j < n)
      <4>1. \A i \in 0 .. n - 1 : store'[RowKey(t, i)] = store[RowKey(t, i)]
        BY <1>3, <1>7, <3>2
      <4> QED BY <1>2, <1>7, <4>1, ViewStays
    <3> QED BY <1>8, <3>1, <3>2
  <2> QED BY <1>6, <2>1 DEF Views
<1>9. CASE store[SchemaKey(t)] # NoValue /\ j < n
  <2>1. View(store, t) # NoTable /\ View(store, t) = [i \in 1 .. n |-> store[RowKey(t, i - 1)]]
    BY <1>7, <1>9, ViewFacts DEF View
  <2>2. View(store', t) = [i \in 1 .. n |-> store'[RowKey(t, i - 1)]]
    BY <1>2, <1>7, <1>9 DEF View
  <2>3. j + 1 \in 1 .. n /\ (j + 1) - 1 = j
    BY <1>7, <1>9
  <2>4. ASSUME NEW i \in 1 .. n
        PROVE  store'[RowKey(t, i - 1)] = IF i = j + 1 THEN NoValue ELSE store[RowKey(t, i - 1)]
    <3>1. i - 1 \in RowIds
      BY <1>7
    <3>2. CASE i = j + 1
      BY <1>4, <2>3, <3>2
    <3>3. CASE i # j + 1
      <4>1. i - 1 # j BY <1>7, <3>3
      <4> QED BY <1>3, <3>1, <3>3, <4>1
    <3> QED BY <3>2, <3>3
  <2>5. View(store', t) = [View(store, t) EXCEPT ![j + 1] = NoValue]
    BY ZenonT(40), <2>1, <2>2, <2>4
  <2>6. Views(store') = [Views(store) EXCEPT ![t] = [@ EXCEPT ![j + 1] = NoValue]]
    BY <1>6, <2>5 DEF Views
  <2>7. j + 1 \in DOMAIN View(store, t)
    BY <2>1, <2>3
  <2> QED BY <2>1, <2>6, <2>7
<1> QED BY <1>8, <1>9

\* The statements on the engine's keys are the abstract log of each table: created once,
\* appended to at the end, rows in place (executor.go on any StorageEngine).
THEOREM SqlImplementsTableLog == TurnTaking /\ Spec => ImplementsTableLog
<1> DEFINE content == [t \in Tables |-> Content(t)]
<1>1. content = Views(store) /\ content' = Views(store')
  BY DEF Content, Views, View, Count, CountIn
<1>2. Init => Abstract!Init
  <2> SUFFICES ASSUME Init PROVE Abstract!Init
    OBVIOUS
  <2>1. \A t \in Tables : store[SchemaKey(t)] = NoValue
    BY KeysAreKeys DEF Init, Engine!Init
  <2> QED BY <2>1 DEF Abstract!Init, Content
<1>3. ASSUME IInv, [Next]_vars PROVE Abstract!Next \/ UNCHANGED content
  <2>1. ASSUME NEW s \in Sessions, CreatePutSchema(s) PROVE Abstract!Next
    <3>1. PICK t \in Tables : View(store, t) = NoTable /\ Views(store') = [Views(store) EXCEPT ![t] = <<>>]
      BY <1>3, <2>1, CreatePutSchemaCreates
    <3>2. Abstract!Create(t)
      BY <1>1, <3>1 DEF Abstract!Create, Views
    <3> QED BY <3>2 DEF Abstract!Next
  <2>2. ASSUME NEW s \in Sessions, CreatePutCounter(s) \/ InsertPutRow(s) PROVE UNCHANGED content
    BY <1>1, <1>3, <2>2, CreatePutCounterStutters, InsertPutRowStutters
  <2>3. ASSUME NEW s \in Sessions, InsertPutCount(s) PROVE Abstract!Next
    <3>1. PICK t \in Tables, r \in Rows \cup {NoValue} :
            View(store, t) # NoTable /\ Views(store') = [Views(store) EXCEPT ![t] = Append(@, r)]
      BY <1>3, <2>3, InsertPutCountInserts
    <3>2. Abstract!Insert(t, r)
      BY <1>1, <3>1 DEF Abstract!Insert, Views
    <3> QED BY <3>2 DEF Abstract!Next
  <2>4. ASSUME NEW t \in Tables, NEW j \in RowIds, DeleteRowKey(t, j) PROVE Abstract!Next \/ UNCHANGED content
    <3>1. CASE Views(store') = Views(store)
      BY <1>1, <3>1
    <3>2. ASSUME View(store, t) # NoTable, NEW i \in DOMAIN View(store, t),
                 Views(store') = [Views(store) EXCEPT ![t] = [@ EXCEPT ![i] = NoValue]]
          PROVE  Abstract!Next
      <4>1. Views(store)[t] = View(store, t)
        BY DEF Views
      <4>2. Abstract!Remove(t, i) /\ content[t] # NoTable /\ i \in DOMAIN content[t]
        BY <1>1, <3>2, <4>1 DEF Abstract!Remove
      <4> QED BY <4>2 DEF Abstract!Next
    <3> QED BY <1>3, <2>4, <3>1, <3>2, DeleteRemoves
  <2>5. ASSUME UNCHANGED store PROVE UNCHANGED content
    BY <1>1, <2>5
  <2>6. ASSUME NEW s \in Sessions, Begin(s) \/ BeginList(s) \/ ListScanFails(s)
        PROVE  UNCHANGED store
    BY <2>6 DEF Begin, BeginCreate, BeginInsert, BeginSelect, BeginList, ListScanFails
  <2>7. ASSUME NEW s \in Sessions, GetFails(s) \/ PutFails(s) \/ Refuse(s) \/ CreateCheck(s)
                 \/ InsertReadSchema(s) \/ InsertReadCount(s) \/ SelectReadSchema(s)
                 \/ SelectReadCount(s) \/ SelectRow(s) \/ SelectRowFails(s) \/ SelectDone(s)
                 \/ ListReadCount(s) \/ ListReadFails(s) \/ ListDone(s) \/ Answer(s)
        PROVE  UNCHANGED store
    BY <2>7 DEF GetFails, PutFails, Refuse, Fail, CreateCheck, InsertReadSchema, InsertReadCount,
         SelectReadSchema, SelectReadCount, SelectRow, SelectRowFails, SelectDone,
         ListReadCount, ListReadFails, ListDone, Answer
  <2>8. ASSUME NEW s \in Sessions, Step(s) PROVE Abstract!Next \/ UNCHANGED content
    BY <2>1, <2>2, <2>3, <2>5, <2>7, <2>8 DEF Step
  <2>9. Crash \/ UNCHANGED vars => UNCHANGED store
    BY DEF Crash, vars
  <2> QED BY <1>3, <2>4, <2>5, <2>6, <2>8, <2>9 DEF Next
<1>4. IInv /\ [Next]_vars => [Abstract!Next]_content
  BY <1>3
<1> QED BY <1>2, <1>4, Invariance, PTL DEF Spec, ImplementsTableLog, Abstract!Spec
================================================================================
