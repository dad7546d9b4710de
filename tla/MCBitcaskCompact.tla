---------------------------- MODULE MCBitcaskCompact ---------------------------
(* Compaction on an instance of two files and two keys.                    *)
EXTENDS BitcaskCompact, TLC

CONSTANTS k1, k2, v1, v2

KeySizes == [k \in {k1, k2} |-> 1]
ValSizes == [v \in {v1, v2} |-> 1]

\* Misaligned reads and power loss are studied without compaction.
ASSUME ModelledFaults == Faults \cap {"shortWrite", "powerLoss"} = {}

Symmetry == Permutations({v1, v2}) \cup Permutations({k1, k2})
================================================================================
