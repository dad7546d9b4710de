-------------------------------- MODULE TableLog -------------------------------
(* What SQL statements promise when writers of a table take turns: a table *)
(* is created once, grows at its end and keeps its rows in place.          *)
EXTENDS Sequences

CONSTANTS Tables, Rows, NoRow, NoTable

VARIABLE content  \* per table: NoTable, or its rows in the order of their ids

Init == content = [t \in Tables |-> NoTable]

Create(t) ==
  /\ content[t] = NoTable
  /\ content' = [content EXCEPT ![t] = <<>>]

\* NoRow: the row's key was deleted before the row was counted.
Insert(t, r) ==
  /\ content[t] # NoTable
  /\ content' = [content EXCEPT ![t] = Append(@, r)]

\* The key of a row is deleted: the row leaves a gap.
Remove(t, i) ==
  /\ content[t] # NoTable
  /\ i \in DOMAIN content[t]
  /\ content' = [content EXCEPT ![t][i] = NoRow]

Next == \E t \in Tables :
  \/ Create(t)
  \/ \E r \in Rows \cup {NoRow} : Insert(t, r)
  \/ content[t] # NoTable /\ \E i \in DOMAIN content[t] : Remove(t, i)

Spec == Init /\ [][Next]_content
================================================================================
