-------------------------------- MODULE KVStore --------------------------------
(* What the KVEngine interface (internal/engine/engine.go) promises: a map *)
(* from keys to values whose operations take effect one at a time and that *)
(* nothing but a Put or a Delete changes.                                  *)
CONSTANTS Keys, Values, NoValue

VARIABLE store

Init == store = [k \in Keys |-> NoValue]

Put(k, v) == store' = [store EXCEPT ![k] = v]

Delete(k) == store' = [store EXCEPT ![k] = NoValue]

Next == \E k \in Keys : Delete(k) \/ \E v \in Values : Put(k, v)

Spec == Init /\ [][Next]_store
================================================================================
