------------------------------- MODULE DurableLog ------------------------------
(* What the data files promise about power loss: a log that grows at its   *)
(* end, a durable part that is never lost, and a loss that takes a suffix. *)
EXTENDS Integers

CONSTANT Records  \* records with a field lsn that orders them

VARIABLES
  log,     \* the records a reader of the files finds
  durable  \* those that are synced

Init == log = {} /\ durable = {}

\* The parts of the log that can be left when it is cut off somewhere.
Prefixes == {p \in SUBSET log : \A r \in log, s \in p : r.lsn <= s.lsn => r \in p}

\* Writing may flush what was there before (rotation does).
Append(r) ==
  /\ r \in Records
  /\ \A s \in log : s.lsn < r.lsn
  /\ log' = log \cup {r}
  /\ durable' \in {durable, log}

Flush == durable' = log /\ UNCHANGED log

LosePower ==
  /\ log' \in {p \in Prefixes : durable \subseteq p}
  /\ durable' = log'

Next == Flush \/ LosePower \/ \E r \in Records : Append(r)

Spec == Init /\ [][Next]_<<log, durable>>
================================================================================
