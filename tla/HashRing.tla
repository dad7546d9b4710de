-------------------------------- MODULE HashRing -------------------------------
(***************************************************************************)
(* The consistent-hash ring of internal/cluster/sharding.go.  Every method *)
(* holds the ring's lock.  The hash is any function from a node's replicas *)
(* to points of the circle (SHA-256 cut to 32 bits in the code).           *)
(***************************************************************************)
EXTENDS Integers, SequencesExt, TLC

CONSTANTS
  Nodes,
  NoNode,      \* "", the answer of an empty ring
  Replicas,    \* points of a node
  Size,        \* points of the circle, 2^32 in the code
  Collisions   \* may two replicas have the same point?

RingAssumption ==
  Replicas \in Nat \ {0} /\ Size \in Nat \ {0} /\ Collisions \in BOOLEAN /\ NoNode \notin Nodes

VARIABLES
  hash,     \* hashKey of the replicas of each node; chosen once
  nodes,    \* ConsistentHash.nodes
  ring,     \* ConsistentHash.ring, sorted; a point that collides is in it twice
  ringMap   \* ConsistentHash.ringMap, from points to nodes

vars == <<hash, nodes, ring, ringMap>>

Points == 0 .. Size - 1
Replica == 1 .. Replicas

Init ==
  /\ hash \in [Nodes \X Replica -> Points]
  /\ Collisions \/ \A a, b \in Nodes \X Replica : hash[a] = hash[b] => a = b
  /\ nodes = {} /\ ring = <<>> /\ ringMap = <<>>

NewPoints(n) == [i \in Replica |-> hash[<<n, i>>]]

\* sort.Slice: in place j is the least point that j points do not exceed.
Sorted(s) ==
  [j \in DOMAIN s |-> Min({p \in ToSet(s) : Cardinality({i \in DOMAIN s : s[i] <= p}) >= j})]

\* The points of the ring that are in kept, in their order (newRing of RemoveNode).
Filtered(kept) ==
  LET places == {i \in DOMAIN ring : ring[i] \in kept}
      Place(j) == CHOOSE i \in places : Cardinality({k \in places : k <= i}) = j
  IN [j \in 1 .. Cardinality(places) |-> ring[Place(j)]]

AddNode(n) ==
  /\ n \notin nodes
  /\ nodes' = nodes \cup {n}
  /\ ring' = Sorted(ring \o NewPoints(n))
  /\ ringMap' = [p \in DOMAIN ringMap \cup ToSet(NewPoints(n)) |->
                   IF p \in ToSet(NewPoints(n)) THEN n ELSE ringMap[p]]
  /\ UNCHANGED hash

\* The points that stay when n is removed.
Remaining(n) == DOMAIN ringMap \ ToSet(NewPoints(n))

RemoveNode(n) ==
  /\ n \in nodes
  /\ nodes' = nodes \ {n}
  /\ ringMap' = [p \in Remaining(n) |-> ringMap[p]]
  /\ ring' = Filtered(Remaining(n))
  /\ UNCHANGED hash

\* Mutant of Found: the point of the key itself is passed over.
FoundStrict(p) ==
  LET after == {i \in DOMAIN ring : ring[i] > p}
  IN IF after = {} THEN 1 ELSE Min(after)

\* sort.Search, and the wrap to the first point.
Found(p) ==
  LET after == {i \in DOMAIN ring : ring[i] >= p}
  IN IF after = {} THEN 1 ELSE Min(after)

\* The node of a key that hashes to p.
GetNode(p) == IF ring = <<>> THEN NoNode ELSE ringMap[ring[Found(p)]]

Next == \E n \in Nodes : AddNode(n) \/ RemoveNode(n)

Spec == Init /\ [][Next]_vars

--------------------------------------------------------------------------------
(* Properties.                                                              *)

Distance(p, q) == (q - p) % Size

\* How far clockwise of p the nearest replica of n is.
Reach(p, n) == Min({Distance(p, hash[<<n, i>>]) : i \in Replica})

\* A key goes to the first node on the ring clockwise from its hash, whatever nodes
\* came and went before and in whatever order (GetNode's search in the sorted ring;
\* "First Node on the ring clockwise from Hash(Key)", theory.md).
LookupIsClockwise ==
  \A p \in Points :
    IF nodes = {} THEN GetNode(p) = NoNode
    ELSE /\ GetNode(p) \in nodes
         /\ \A n \in nodes : Reach(p, GetNode(p)) <= Reach(p, n)
================================================================================
