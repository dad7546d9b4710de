----------------------------- MODULE MCBitcaskBackup ----------------------------
(* A small instance: one backup, one restore, two records to a file.       *)
EXTENDS BitcaskBackup, TLC

CONSTANTS k1, k2, v1, v2

KeySizes == [k \in Keys |-> 1]
ValSizes == [v \in Values |-> 1]

Symmetry == Permutations(Values) \cup Permutations(Keys)
================================================================================
