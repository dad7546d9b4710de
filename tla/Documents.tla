-------------------------------- MODULE Documents -------------------------------
(***************************************************************************)
(* Documents as keys of the engine (internal/document/collection.go and    *)
(* the document routes of server.go).  A name is a sequence of characters, *)
(* so that the key "doc:<collection>:<id>" is what the code builds.  Every *)
(* operation is one call of the engine.                                    *)
(***************************************************************************)
EXTENDS Integers, Sequences, SequencesExt, FiniteSetsExt

CONSTANTS
  Names,       \* collection names
  Ids,         \* document ids clients choose
  Generated,   \* ids made of the time of day
  RawKeys,     \* keys that clients of the key-value routes choose
  RawValues,   \* values they store
  Bodies,      \* what a document holds besides _id
  Unreadable,  \* a value that is no JSON object
  None

VARIABLES
  store,   \* the engine: key -> document
  op,      \* the last operation
  found,   \* the documents it returned
  listed   \* the names it returned

vars == <<store, op, found, listed>>

Colon == ":"

\* The empty id is of no document route, but a raw key can end there.
AllIds == Ids \cup Generated \cup {<<>>}

Init == store = [k \in {} |-> None] /\ op = "none" /\ found = {} /\ listed = {}

--------------------------------------------------------------------------------
(* Keys                                                                     *)

Prefix(c) == <<"doc", Colon>> \o c \o <<Colon>>

Key(c, id) == <<"doc", Colon>> \o c \o <<Colon>> \o id

DocumentKeys == {Key(c, id) : c \in Names, id \in AllIds}

\* What is behind "doc:".
Rest(k) == SubSeq(k, 3, Len(k))

\* Names and ids are all there are: a raw key under "doc:" is of one of them or has no
\* second colon.
DocumentsAssumption ==
  /\ \A n \in Names \cup AllIds \cup RawKeys : n \in Seq(STRING)
  /\ \A k \in RawKeys \ DocumentKeys :
       IsPrefix(<<"doc", Colon>>, k) => \A i \in 3 .. Len(k) : k[i] # Colon
  /\ RawValues \subseteq [id : AllIds \cup {None}, body : Bodies] \cup {Unreadable}
  /\ None \notin AllIds \cup {Unreadable}
  /\ {None, Unreadable} \cap [id : AllIds \cup {None}, body : Bodies] = {}

\* Scan of the engine.
Scan(prefix) == {k \in DOMAIN store : IsPrefix(prefix, k)}

\* strings.SplitN(key, ":", 3)[1]
NameOf(k) ==
  SubSeq(Rest(k), 1, Min({Len(Rest(k)) + 1} \cup {i \in DOMAIN Rest(k) : Rest(k)[i] = Colon}) - 1)

--------------------------------------------------------------------------------
(* Operations                                                               *)

Answer(name, documents, names) == op' = name /\ found' = documents /\ listed' = names

\* Put and Delete of the engine.
StorePut(k, v) ==
  store' = [j \in DOMAIN store \cup {k} |-> IF j = k THEN v ELSE store[j]]

StoreDelete(k) ==
  store' = [j \in DOMAIN store \ {k} |-> store[j]]

\* Mutant of Injected: an _id the client sent is kept.
InjectedIfMissing(id, doc) ==
  [id |-> IF doc.id = None THEN id ELSE doc.id, body |-> doc.body]

\* Insert sets _id to the id of the key.
Injected(id, doc) == [id |-> id, body |-> doc.body]

Insert(c, id, doc) == StorePut(Key(c, id), Injected(id, doc)) /\ Answer("put", {}, {})

\* handlePutDocument: the id is the query's, else the document's, else the time.
PutDocument(c, q, doc) ==
  IF q # None THEN Insert(c, q, doc)
  ELSE IF doc.id # None THEN Insert(c, doc.id, doc)
  ELSE \E id \in Generated : Insert(c, id, doc)

\* A body that is no JSON object is refused.  null passes both Unmarshals as a nil map,
\* and Insert panics when it sets _id; net/http recovers and closes the connection.
RefuseDocument == UNCHANGED store /\ Answer("refused", {}, {})

DeleteDocument(c, id) == StoreDelete(Key(c, id)) /\ Answer("delete", {}, {})

\* POST and DELETE /api/kv/{key}: whatever the key, and whatever the value, also a JSON
\* object with another _id than the key's or with none.
PutRaw(k, v) == StorePut(k, v) /\ Answer("raw", {}, {})

DeleteRaw(k) == StoreDelete(k) /\ Answer("raw", {}, {})

GetDocument(c, id) ==
  /\ UNCHANGED store
  /\ Answer("get", IF Key(c, id) \in DOMAIN store THEN {store[Key(c, id)]} ELSE {}, {})

\* keep: the bodies the filter matches; ListAll keeps all.
QueryDocuments(c, keep) ==
  /\ UNCHANGED store
  /\ Answer("query", {d \in {store[k] : k \in Scan(Prefix(c))} \ {Unreadable} : d.body \in keep}, {})

ListCollections ==
  /\ UNCHANGED store
  /\ Answer("list", {}, {NameOf(k) : k \in Scan(<<"doc", Colon>>)})

Sent == [id : Ids \cup {None}, body : Bodies]

Next ==
  \/ ListCollections \/ RefuseDocument
  \/ \E c \in Names, keep \in SUBSET Bodies : QueryDocuments(c, keep)
  \/ \E c \in Names, id \in Ids \cup Generated : DeleteDocument(c, id) \/ GetDocument(c, id)
  \/ \E c \in Names, q \in Ids \cup {None}, d \in Sent : PutDocument(c, q, d)
  \/ \E k \in RawKeys : DeleteRaw(k) \/ \E v \in RawValues : PutRaw(k, v)

Spec == Init /\ [][Next]_vars

--------------------------------------------------------------------------------
(* Properties                                                               *)

Abstract == INSTANCE Collections WITH
  Ids <- AllIds,
  StrayNames <- {NameOf(k) : k \in RawKeys},
  strays <- {NameOf(k) : k \in Scan(<<"doc", Colon>>) \ DocumentKeys},
  docs <- [p \in Names \X AllIds |->
             IF Key(p[1], p[2]) \in DOMAIN store THEN store[Key(p[1], p[2])] ELSE None]

\* The keys of the engine are collections of documents: what a Put stores is what Get
\* and Query of that collection return, under its id and nowhere else, and the
\* collections listed are those with a document - also when one name begins another
\* and ids hold colons, as long as no collection name does, and whatever the key-value
\* routes write (a key "doc:x" adds x to the list and nothing else).
ImplementsCollections == Abstract!Spec

--------------------------------------------------------------------------------
(* What the code says and does not keep.                                    *)

\* "ListAll returns all documents in a collection", and no others: a name with a colon
\* makes keys of another collection.
ListsOnlyItsDocuments ==
  [][\A c \in Names : QueryDocuments(c, Bodies) => Abstract!Query(c, Bodies)]_vars

\* "ListCollections returns a list of all unique collection names", and nothing else: a
\* raw key "doc:x" is listed as the collection x.
ListsOnlyCollections ==
  [][ListCollections => listed' \subseteq {NameOf(k) : k \in DocumentKeys \cap DOMAIN store}]_vars
================================================================================
