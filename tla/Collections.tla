------------------------------- MODULE Collections ------------------------------
(* What CollectionManager (internal/document/collection.go) promises: named *)
(* collections of documents, each document under an id of its own.  The     *)
(* key-value routes change documents behind its back - one that is not JSON *)
(* any more belongs to its collection but is not found - and leave strays,  *)
(* names that are listed without a document.                                *)
CONSTANTS Names, Ids, Bodies, RawValues, StrayNames, Unreadable, None

VARIABLES
  docs,
  strays,
  op,      \* the last operation
  found,   \* the documents it returned
  listed   \* the names it returned

vars == <<docs, strays, op, found, listed>>

Init ==
  /\ docs = [p \in Names \X Ids |-> None] /\ strays = {}
  /\ op = "none" /\ found = {} /\ listed = {}

Answer(name, documents, names) == op' = name /\ found' = documents /\ listed' = names

Set(c, id, d) == docs' = [docs EXCEPT ![<<c, id>>] = d] /\ UNCHANGED strays

Put(c, id, b) == Answer("put", {}, {}) /\ Set(c, id, [id |-> id, body |-> b])

Delete(c, id) == Answer("delete", {}, {}) /\ Set(c, id, None)

Get(c, id) == Answer("get", {docs[<<c, id>>]} \ {None}, {}) /\ UNCHANGED <<docs, strays>>

Query(c, keep) ==
  /\ Answer("query",
            {d \in {docs[<<c, id>>] : id \in Ids} \ {None, Unreadable} : d.body \in keep}, {})
  /\ UNCHANGED <<docs, strays>>

List ==
  /\ Answer("list", {}, {c \in Names : \E id \in Ids : docs[<<c, id>>] # None} \cup strays)
  /\ UNCHANGED <<docs, strays>>

Refuse == Answer("refused", {}, {}) /\ UNCHANGED <<docs, strays>>

\* The key-value routes write a document, or a key that is no document's.
Overwrite(c, id, d) == Answer("raw", {}, {}) /\ Set(c, id, d)

Elsewhere == Answer("raw", {}, {}) /\ strays' \in SUBSET StrayNames /\ UNCHANGED docs

Next ==
  \/ List \/ Refuse \/ Elsewhere
  \/ \E c \in Names, keep \in SUBSET Bodies : Query(c, keep)
  \/ \E c \in Names, id \in Ids :
       \/ Delete(c, id) \/ Get(c, id)
       \/ \E b \in Bodies : Put(c, id, b)
       \/ \E d \in RawValues \cup {None} : Overwrite(c, id, d)

Spec == Init /\ [][Next]_vars
================================================================================
