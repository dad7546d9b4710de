-------------------------------- MODULE LogBuffer -------------------------------
(* The ring buffer the server keeps its last log lines in                   *)
(* (internal/logs/buffer.go).  Write and GetEntries run under b.mu.         *)
EXTENDS Integers, Sequences

CONSTANTS
  capacity,
  Messages,  \* what is logged, trimmed and not empty
  ZeroEntry, \* what an entry never written holds
  MaxWrites  \* bound: messages written

ASSUME CapacityAssumption == capacity \in Nat \ {0} /\ ZeroEntry \notin Messages

VARIABLES
  entries, index, count,
  written   \* every message kept so far, in order (history)

vars == <<entries, index, count, written>>

\* InitBuffer; an entry never written is never shown.
Init ==
  /\ entries = [i \in 0 .. capacity - 1 |-> ZeroEntry]
  /\ index = 0 /\ count = 0 /\ written = <<>>

Counted(n) == IF n < capacity THEN n + 1 ELSE n

\* A message that is empty once trimmed is not kept and is not in Messages.
Write(m) ==
  /\ Len(written) < MaxWrites
  /\ entries' = [entries EXCEPT ![index] = m]
  /\ index' = (index + 1) % capacity
  /\ count' = Counted(count)
  /\ written' = Append(written, m)

Next == \E m \in Messages : Write(m)

Spec == Init /\ [][Next]_vars

--------------------------------------------------------------------------------

\* Mutant of GetEntries: the wrapped buffer is read from its start.
GetEntriesFromStart == [i \in 1 .. count |-> entries[i - 1]]

\* The two copies of GetEntries once the buffer is full: [index ..], then [.. index - 1].
GetEntries ==
  LET firstPart == capacity - index IN
  IF count < capacity THEN [i \in 1 .. count |-> entries[i - 1]]
  ELSE [i \in 1 .. count |-> IF i <= firstPart THEN entries[index + i - 1]
                             ELSE entries[i - firstPart - 1]]

TypeOK ==
  /\ entries \in [0 .. capacity - 1 -> Messages \cup {ZeroEntry}]
  /\ index \in 0 .. capacity - 1
  /\ count \in 0 .. capacity

\* The entries returned are the last messages written, oldest first, as many as fit
\* (GetEntries: "all logs sorted from oldest to newest").
EntriesAreRecent ==
  /\ \A i \in 1 .. count : GetEntries[i] = written[Len(written) - count + i]
  /\ count = IF Len(written) < capacity THEN Len(written) ELSE capacity
================================================================================
