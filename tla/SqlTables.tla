------------------------------- MODULE SqlTables -------------------------------
(***************************************************************************)
(* SQL statements as internal/sql/executor.go runs them: each one is a     *)
(* sequence of calls of the storage engine, and each call is atomic (the   *)
(* engine implements KVStore).  One goroutine runs each request, and       *)
(* nothing orders the calls of different requests.                         *)
(***************************************************************************)
EXTENDS Integers, Sequences, FiniteSets

CONSTANTS
  Sessions,        \* concurrent requests
  Tables,
  Schemas,         \* column lists, by their number of columns
  Rows,            \* rows to insert, each at most once
  Width,           \* how many values an INSERT of the row gives
  Conditions,      \* WHERE clauses, each the set of rows it keeps
  Limits,          \* LIMIT clauses
  NoLimit,         \* no LIMIT clause (-1 in the code)
  NoValue,         \* Get finds nothing
  NoTable,         \* no table yet
  WritersOverlap,  \* may two statements that write a table run at once?
  MaxFaults,       \* bound: crashes and failing engine calls
  MaxDeletes       \* bound: deletions of row keys through the key-value routes

ASSUME WidthAssumption == Width \in [Rows -> Schemas] /\ Schemas \subseteq Nat
ASSUME RowsAssumption == IsFiniteSet(Rows) /\ Conditions \subseteq SUBSET Rows
ASSUME LimitsAssumption == Limits \subseteq Nat \cup {NoLimit} /\ NoLimit \notin Nat
ASSUME NoValueAssumption == NoValue \notin Nat \cup Rows
ASSUME NoTableAssumption ==
  \A n \in 0 .. Cardinality(Rows) : NoTable \notin [1 .. n -> Rows \cup {NoValue}]
ASSUME OverlapAssumption == WritersOverlap \in BOOLEAN
ASSUME SqlBoundsAssumption == MaxFaults \in Nat /\ MaxDeletes \in Nat

VARIABLES
  store,     \* the engine, as the map it implements
  session,   \* the statement each request is running
  acked,     \* per table, the rows of acknowledged INSERTs in order (history)
  rejected,  \* rows whose INSERT answered with an error (history)
  removed,   \* rows whose key was deleted (history)
  created,   \* per table, the acknowledged CREATEs (history)
  used,      \* rows given to an INSERT
  faults, deletes  \* bounds

history == <<acked, rejected, removed, created>>
vars == <<store, session, history, used, faults, deletes>>

--------------------------------------------------------------------------------
(* The engine's keys.                                                       *)

SchemaKey(t) == <<"schema", t>>
SeqKey(t) == <<"seq", t>>
RowKey(t, i) == <<"row", t, i>>

RowIds == 0 .. Cardinality(Rows) - 1
EngineKeys ==
  {SchemaKey(t) : t \in Tables} \cup {SeqKey(t) : t \in Tables}
    \cup {RowKey(t, i) : t \in Tables, i \in RowIds}
EngineValues == Schemas \cup Rows \cup 0 .. Cardinality(Rows)

Engine == INSTANCE KVStore WITH Keys <- EngineKeys, Values <- EngineValues

\* The row counter: an absent one counts as 0.
Count(t) == IF store[SeqKey(t)] = NoValue THEN 0 ELSE store[SeqKey(t)]

\* The rows a SELECT of t can see, by id.
Content(t) ==
  IF store[SchemaKey(t)] = NoValue THEN NoTable
  ELSE [i \in 1 .. Count(t) |-> store[RowKey(t, i - 1)]]

--------------------------------------------------------------------------------
(* Requests.                                                                *)

Idle == [at |-> "idle"]
At(s) == session[s].at
Become(s, state) == session' = [session EXCEPT ![s] = state]
Continue(s, at) == session' = [session EXCEPT ![s].at = at]
Busy == {s \in Sessions : At(s) # "idle"}

Writing(t) == \E s \in Busy : session[s].op \in {"create", "insert"} /\ session[s].table = t
MayWrite(t) == WritersOverlap \/ ~ Writing(t)

Init ==
  /\ Engine!Init
  /\ session = [s \in Sessions |-> Idle]
  /\ acked = [t \in Tables |-> <<>>]
  /\ created = [t \in Tables |-> 0]
  /\ rejected = {} /\ removed = {} /\ used = {}
  /\ faults = 0 /\ deletes = 0

\* ExecuteStatement: the statement is parsed and run.
BeginCreate(s, t, columns) ==
  /\ At(s) = "idle" /\ MayWrite(t)
  /\ Become(s, [op |-> "create", at |-> "checkAbsent", table |-> t, columns |-> columns])
  /\ UNCHANGED <<store, history, used, faults, deletes>>

BeginInsert(s, t, r) ==
  /\ At(s) = "idle" /\ MayWrite(t) /\ r \notin used
  /\ Become(s, [op |-> "insert", at |-> "readSchema", table |-> t, row |-> r, id |-> 0])
  /\ used' = used \cup {r}
  /\ UNCHANGED <<store, history, faults, deletes>>

BeginSelect(s, t, condition, limit) ==
  /\ At(s) = "idle"
  /\ Become(s, [op |-> "select", at |-> "readSchema", table |-> t, where |-> condition,
                limit |-> limit, next |-> 0, count |-> 0, out |-> <<>>,
                unread |-> {}, before |-> acked[t]])
  /\ UNCHANGED <<store, history, used, faults, deletes>>

\* The scan of the schemas, under one read lock, found all but those of missed.
ScanSchemas(s, missed) ==
  Become(s, [op |-> "list", at |-> "readCounts",
             todo |-> {t \in Tables \ missed : store[SchemaKey(t)] # NoValue},
             counts |-> [t \in {} |-> 0], unread |-> missed, ackedBefore |-> acked, known |-> created])

\* ListTables scans the schemas, then reads each counter.
BeginList(s) ==
  /\ At(s) = "idle"
  /\ ScanSchemas(s, {})
  /\ UNCHANGED <<store, history, used, faults, deletes>>

\* A closed engine refuses the scan, and ListTables answers the error; a lost descriptor
\* makes the scan pass over the keys of that file.
ListScanFails(s) ==
  /\ At(s) = "idle"
  /\ faults < MaxFaults /\ faults' = faults + 1
  /\ UNCHANGED session \/ \E missed \in SUBSET Tables \ {{}} : ScanSchemas(s, missed)
  /\ UNCHANGED <<store, history, used, deletes>>

--------------------------------------------------------------------------------
(* Errors and answers.                                                      *)

\* A statement answers with an error; what it has stored stays.
Fail(s) ==
  /\ Become(s, Idle)
  /\ rejected' = IF session[s].op = "insert" THEN rejected \cup {session[s].row} ELSE rejected
  /\ UNCHANGED <<store, acked, removed, created, used, deletes>>

\* A Get before the row loop fails (the engine is closed or lost a descriptor).
GetFails(s) ==
  /\ At(s) \in {"checkAbsent", "readSchema", "readCount"}
  /\ faults < MaxFaults /\ faults' = faults + 1
  /\ Fail(s)

\* A Put fails and changes nothing.
PutFails(s) ==
  /\ At(s) \in {"putSchema", "putCounter", "putRow", "putCount"}
  /\ faults < MaxFaults /\ faults' = faults + 1
  /\ Fail(s)

\* Create refuses an existing table; INSERT and SELECT want one, INSERT also as
\* many values as it has columns; SELECT refuses a field that is no column.
Refuse(s) ==
  LET columns == store[SchemaKey(session[s].table)] IN
  /\ \/ At(s) = "checkAbsent" /\ columns # NoValue
     \/ At(s) = "readSchema" /\ columns = NoValue
     \/ At(s) = "readSchema" /\ session[s].op = "insert" /\ columns # Width[session[s].row]
     \/ At(s) = "scan" /\ session[s].next = 0
  /\ Fail(s) /\ UNCHANGED faults

--------------------------------------------------------------------------------
(* executeCreate.                                                           *)

\* Mutant of CreateCheck: the check is missing.
CreateCheckMissing(s) ==
  /\ At(s) = "checkAbsent"
  /\ Continue(s, "putSchema")
  /\ UNCHANGED <<store, history, used, faults, deletes>>

CreateCheck(s) ==
  /\ At(s) = "checkAbsent" /\ store[SchemaKey(session[s].table)] = NoValue
  /\ Continue(s, "putSchema")
  /\ UNCHANGED <<store, history, used, faults, deletes>>

CreatePutSchema(s) ==
  /\ At(s) = "putSchema"
  /\ Engine!Put(SchemaKey(session[s].table), session[s].columns)
  /\ Continue(s, "putCounter")
  /\ UNCHANGED <<history, used, faults, deletes>>

\* Puts the counter and answers.
CreatePutCounter(s) ==
  /\ At(s) = "putCounter"
  /\ Engine!Put(SeqKey(session[s].table), 0)
  /\ created' = [created EXCEPT ![session[s].table] = @ + 1]
  /\ Become(s, Idle)
  /\ UNCHANGED <<acked, rejected, removed, used, faults, deletes>>

--------------------------------------------------------------------------------
(* executeInsert.                                                           *)

InsertReadSchema(s) ==
  /\ At(s) = "readSchema" /\ session[s].op = "insert"
  /\ store[SchemaKey(session[s].table)] = Width[session[s].row]
  /\ Continue(s, "readCount")
  /\ UNCHANGED <<store, history, used, faults, deletes>>

InsertReadCount(s) ==
  /\ At(s) = "readCount" /\ session[s].op = "insert"
  /\ Become(s, [session[s] EXCEPT !.at = "putRow", !.id = Count(session[s].table)])
  /\ UNCHANGED <<store, history, used, faults, deletes>>

InsertPutRow(s) ==
  /\ At(s) = "putRow"
  /\ Engine!Put(RowKey(session[s].table, session[s].id), session[s].row)
  /\ Continue(s, "putCount")
  /\ UNCHANGED <<history, used, faults, deletes>>

\* Counts the row and answers "1 row inserted".
InsertPutCount(s) ==
  /\ At(s) = "putCount"
  /\ Engine!Put(SeqKey(session[s].table), session[s].id + 1)
  /\ acked' = [acked EXCEPT ![session[s].table] = Append(@, session[s].row)]
  /\ Become(s, Idle)
  /\ UNCHANGED <<rejected, removed, created, used, faults, deletes>>

--------------------------------------------------------------------------------
(* executeSelect and ListTables.                                            *)

SelectReadSchema(s) ==
  /\ At(s) = "readSchema" /\ session[s].op = "select"
  /\ store[SchemaKey(session[s].table)] # NoValue
  /\ Continue(s, "readCount")
  /\ UNCHANGED <<store, history, used, faults, deletes>>

SelectReadCount(s) ==
  /\ At(s) = "readCount" /\ session[s].op = "select"
  /\ Become(s, [session[s] EXCEPT !.at = "scan", !.count = Count(session[s].table)])
  /\ UNCHANGED <<store, history, used, faults, deletes>>

\* Mutant of LimitReached: one row too many.
LimitReachedLate(q) == q.limit # NoLimit /\ Len(q.out) > q.limit

LimitReached(q) == q.limit # NoLimit /\ Len(q.out) >= q.limit

\* Mutant of Scanned: the loop breaks at a missing row.
ScannedBreak(q, row) ==
  [q EXCEPT !.next = IF row = NoValue THEN q.count ELSE @ + 1,
            !.out = IF row \in q.where THEN Append(@, row) ELSE @]

\* The next row of the loop was read: skip it or project it.
Scanned(q, row) ==
  [q EXCEPT !.next = @ + 1,
            !.out = IF row \in q.where THEN Append(@, row) ELSE @]

InLoop(s) == At(s) = "scan" /\ session[s].next < session[s].count /\ ~ LimitReached(session[s])
RowOf(s) == store[RowKey(session[s].table, session[s].next)]

\* One round of the row loop: one Get.
SelectRow(s) ==
  /\ InLoop(s)
  /\ Become(s, Scanned(session[s], RowOf(s)))
  /\ UNCHANGED <<store, history, used, faults, deletes>>

\* A row whose Get fails is skipped like a missing one.
SelectRowFails(s) ==
  /\ InLoop(s)
  /\ faults < MaxFaults /\ faults' = faults + 1
  /\ Become(s, [Scanned(session[s], NoValue) EXCEPT !.unread = @ \cup ({RowOf(s)} \ {NoValue})])
  /\ UNCHANGED <<store, history, used, deletes>>

SelectDone(s) ==
  /\ At(s) = "scan" /\ (session[s].next >= session[s].count \/ LimitReached(session[s]))
  /\ Continue(s, "answered")
  /\ UNCHANGED <<store, history, used, faults, deletes>>

\* ListTables has the number of rows of t.
Listed(q, t, n) ==
  [q EXCEPT !.todo = @ \ {t},
            !.counts = [u \in DOMAIN @ \cup {t} |-> IF u = t THEN n ELSE @[u]]]

\* Mutant of ListReadCount: the last id instead of the number of rows.
ListReadLastId(s) ==
  /\ At(s) = "readCounts"
  /\ \E t \in session[s].todo : Become(s, Listed(session[s], t, Count(t) - 1))
  /\ UNCHANGED <<store, history, used, faults, deletes>>

ListReadCount(s) ==
  /\ At(s) = "readCounts"
  /\ \E t \in session[s].todo : Become(s, Listed(session[s], t, Count(t)))
  /\ UNCHANGED <<store, history, used, faults, deletes>>

\* A counter that cannot be read counts as 0.
ListReadFails(s) ==
  /\ At(s) = "readCounts"
  /\ faults < MaxFaults /\ faults' = faults + 1
  /\ \E t \in session[s].todo :
       Become(s, [Listed(session[s], t, 0) EXCEPT !.unread = @ \cup {t}])
  /\ UNCHANGED <<store, history, used, deletes>>

ListDone(s) ==
  /\ At(s) = "readCounts" /\ session[s].todo = {}
  /\ Continue(s, "answered")
  /\ UNCHANGED <<store, history, used, faults, deletes>>

\* The answer of a SELECT or of ListTables is written to the client.
Answer(s) ==
  /\ At(s) = "answered"
  /\ Become(s, Idle)
  /\ UNCHANGED <<store, history, used, faults, deletes>>

--------------------------------------------------------------------------------
(* The world around the statements.                                         *)

\* DELETE /api/kv/sql:row:t:i: the engine's keys are open to the key-value routes.
DeleteRowKey(t, i) ==
  /\ deletes < MaxDeletes /\ deletes' = deletes + 1
  /\ store[RowKey(t, i)] # NoValue
  /\ Engine!Delete(RowKey(t, i))
  /\ removed' = removed \cup {store[RowKey(t, i)]}
  /\ UNCHANGED <<session, acked, rejected, created, used, faults>>

\* The process dies; a restart finds every Put that returned (and, of the one it
\* died in, all or nothing).  Clients get no answer.
Crash ==
  /\ faults < MaxFaults /\ faults' = faults + 1
  /\ session' = [s \in Sessions |-> Idle]
  /\ UNCHANGED <<store, history, used, deletes>>

Begin(s) == \E t \in Tables :
  \/ \E n \in Schemas : BeginCreate(s, t, n)
  \/ \E r \in Rows : BeginInsert(s, t, r)
  \/ \E c \in Conditions, n \in Limits : BeginSelect(s, t, c, n)

\* What the goroutine of a request does on its own.
Step(s) ==
  \/ GetFails(s) \/ PutFails(s) \/ Refuse(s)
  \/ CreateCheck(s) \/ CreatePutSchema(s) \/ CreatePutCounter(s)
  \/ InsertReadSchema(s) \/ InsertReadCount(s) \/ InsertPutRow(s) \/ InsertPutCount(s)
  \/ SelectReadSchema(s) \/ SelectReadCount(s) \/ SelectRow(s) \/ SelectRowFails(s) \/ SelectDone(s)
  \/ ListReadCount(s) \/ ListReadFails(s) \/ ListDone(s) \/ Answer(s)

Next ==
  \/ \E s \in Sessions : Begin(s) \/ BeginList(s) \/ ListScanFails(s) \/ Step(s)
  \/ \E t \in Tables, i \in RowIds : DeleteRowKey(t, i)
  \/ Crash

Spec == Init /\ [][Next]_vars

--------------------------------------------------------------------------------
(* Properties.                                                              *)

\* The statements, by what their goroutines know.
Creates == [op : {"create"}, at : {"checkAbsent", "putSchema", "putCounter"},
            table : Tables, columns : Schemas]
Inserts == [op : {"insert"}, at : {"readSchema", "readCount", "putRow", "putCount"},
            table : Tables, row : Rows, id : Nat]
Selects == [op : {"select"}, at : {"readSchema", "readCount", "scan", "answered"},
            table : Tables, where : SUBSET Rows, limit : Nat \cup {NoLimit}, next : Nat,
            count : Nat, out : Seq(Rows), unread : SUBSET Rows, before : Seq(Rows)]
Lists == [op : {"list"}, at : {"readCounts", "answered"}, todo : SUBSET Tables,
          counts : UNION {[T -> 0 .. Cardinality(Rows)] : T \in SUBSET Tables},
          unread : SUBSET Tables, ackedBefore : [Tables -> Seq(Rows)], known : [Tables -> Nat]]
Statements == {Idle} \cup Creates \cup Inserts \cup Selects \cup Lists

TypeOK ==
  /\ store \in [EngineKeys -> EngineValues \cup {NoValue}]
  /\ \A t \in Tables : store[SchemaKey(t)] \in Schemas \cup {NoValue}
  /\ \A t \in Tables : store[SeqKey(t)] \in 0 .. Cardinality(Rows) \cup {NoValue}
  /\ \A t \in Tables, i \in RowIds : store[RowKey(t, i)] \in used \cup {NoValue}
  /\ session \in [Sessions -> Statements]
  /\ acked \in [Tables -> Seq(Rows)] /\ created \in [Tables -> Nat]
  /\ rejected \cup removed \subseteq used /\ used \subseteq Rows

Elements(seq) == {seq[n] : n \in DOMAIN seq}
Selected(s) == At(s) = "answered" /\ session[s].op = "select"

\* A SELECT answers what the table held when the statement read the row counter:
\* in order, the rows at ids below the counter that satisfy WHERE and could be read, all
\* of them or as many as LIMIT wants from the first on, although it reads row by row
\* beside a writer (executeSelect; rows deleted behind its back aside).
SelectIsSnapshot ==
  removed = {} =>
    \A s \in Sessions : Selected(s) =>
      LET q == session[s]
          row == Content(q.table)
          wanted == q.where \ q.unread
      IN /\ q.limit # NoLimit => Len(q.out) <= q.limit
         /\ \E place \in [DOMAIN q.out -> 1 .. q.count] :
              /\ \A m, n \in DOMAIN q.out : m < n => place[m] < place[n]
              /\ \A n \in DOMAIN q.out : q.out[n] = row[place[n]] /\ q.out[n] \in wanted
              /\ \A i \in 1 .. q.count : row[i] \in wanted =>
                   \/ \E n \in DOMAIN q.out : place[n] = i
                   \/ LimitReached(q) /\ \A n \in DOMAIN q.out : place[n] < i

\* A SELECT misses no row whose INSERT was acknowledged before it began, except
\* rows deleted since, rows it could not read and rows behind its LIMIT, and shows no
\* row whose INSERT answers with an error: its id is given to the next row (the counter
\* is put last in executeInsert).
SelectSeesAcked ==
  \A s \in Sessions : Selected(s) =>
    LET q == session[s] IN
    /\ Elements(q.out) \cap rejected = {}
    /\ \/ LimitReached(q)
       \/ (Elements(q.before) \cap q.where) \ (removed \cup q.unread) \subseteq Elements(q.out)

\* ListTables names every table created before whose schema it could read and, where
\* it could read the counter, at least the rows acknowledged before and no more than
\* are there now (ListTables beside writers).
ListIsCurrent ==
  \A s \in Sessions : At(s) = "answered" /\ session[s].op = "list" =>
    \A t \in Tables :
      /\ session[s].known[t] > 0 => t \in DOMAIN session[s].counts \cup session[s].unread
      /\ t \in DOMAIN session[s].counts \ session[s].unread =>
           session[s].counts[t] \in Len(session[s].ackedBefore[t]) .. Count(t)

\* While the writers of a table take turns, tables are created once and grow at
\* their end, also across failing Puts and crashes between the Puts of a statement.
Abstract == INSTANCE TableLog WITH
              content <- [t \in Tables |-> Content(t)], NoRow <- NoValue
ImplementsTableLog == Abstract!Spec

--------------------------------------------------------------------------------
(* What the code says and does not keep.                                    *)

\* A row the client was told is inserted ("1 row inserted (Row index ID: %d).") is
\* in its table until it is deleted: two INSERTs that overlap take the same id.
InsertedRowsStored ==
  \A t \in Tables : acked[t] # <<>> =>
    Elements(acked[t]) \ removed \subseteq Elements(Content(t))

\* A table is created once ("Check if table already exists"): two CREATEs that
\* overlap both pass the check and both answer "created successfully".
CreatedOnce == \A t \in Tables : created[t] <= 1

\* SELECT skips rows that are "deleted or missing" and no others: it also skips
\* those that Get could not read.
SkipsOnlyMissingRows ==
  \A s \in Sessions : Selected(s) /\ ~ LimitReached(session[s]) =>
    (Elements(session[s].before) \cap session[s].where) \ removed \subseteq Elements(session[s].out)
================================================================================
