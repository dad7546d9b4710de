------------------------------ MODULE MCSqlTables ------------------------------
(* Small instances of the SQL executor.                                    *)
EXTENDS SqlTables, TLC

CONSTANTS r1, r2, r3, s1, s2

\* Two rows fit a table of one column, the third does not.
Widths == [r \in Rows |-> IF r = r3 THEN 2 ELSE 1]
SomeConditions == {Rows, Rows \ {r1}}
Symmetry == Permutations(Sessions)
================================================================================
