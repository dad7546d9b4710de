------------------------------- MODULE MCBitcask -------------------------------
(* A small instance of the engine: a file holds two whole records.         *)
EXTENDS Bitcask, TLC

CONSTANTS k1, k2, v1, v2

KeySizes == [k \in Keys |-> 1]
ValSizes == [v \in Values |-> 1]

Symmetry == Permutations(Values) \cup Permutations(Keys)
================================================================================
