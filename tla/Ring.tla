--------------------------------- MODULE Ring ---------------------------------
(* The data of consistenthash.Map (internal/consistenthash/con_hash.go) and   *)
(* what addNode, removeNoLock and Get do with it: keys, the sorted slice of   *)
(* positions, given by how often it holds each, and hashMap, their owners.    *)
EXTENDS Integers, FiniteSets, Functions

CONSTANTS Addrs,            \* the nodes of the service
          Place,            \* Place[addr][i]: the hash of "addr-i"
          DefaultReplicas, MinReplicas, MaxReplicas,
          Step,             \* how far one rebalancing moves a replica count
          NoAddr            \* absent from hashMap

ASSUME RingAssumption ==
  /\ IsFiniteSet(Addrs)
  /\ MinReplicas \in Nat \ {0} /\ DefaultReplicas \in MinReplicas..MaxReplicas
  /\ MaxReplicas \in Nat /\ Step \in Nat \ {0}
  /\ Place \in [Addrs -> [0..MaxReplicas-1 -> Nat]]
  /\ NoAddr \notin Addrs

Replicas == {0} \cup MinReplicas..MaxReplicas

Positions == UNION {{Place[addr][i] : i \in 0..MaxReplicas-1} : addr \in Addrs}

\* How many of the first n virtual nodes of addr lie at each position.
Copies ==
  [addr \in Addrs |-> [n \in 0..MaxReplicas |->
     [pos \in Positions |-> Cardinality({i \in 0..n-1 : Place[addr][i] = pos})]]]

-----------------------------------------------------------------------------
(* Faulty variants of the definitions below, each the shape of a plausible    *)
(* slip: the runs use them to show that the properties can fail.              *)

\* The owner by rank, hash modulo the size of the ring.
OwnerByRank(ring, owners, hash) ==
  LET onRing == {pos \in Positions : ring[pos] > 0}
      Rank(pos) == Cardinality({other \in onRing : other < pos})
  IN IF onRing = {} THEN NoAddr
     ELSE owners[CHOOSE pos \in onRing : Rank(pos) = hash % Cardinality(onRing)]

\* removeNoLock takes the positions out of keys only.
OwnersKept(owners, addr, n) == owners

-----------------------------------------------------------------------------
\* Get: the owner of the first position at or after hash, going round.
OwnerIn(ring, owners, hash) ==
  LET onRing == {pos \in Positions : ring[pos] > 0}
      ahead  == {pos \in onRing : pos >= hash}
      First(set) == CHOOSE pos \in set : \A other \in set : pos <= other
  IN CASE onRing = {}                -> NoAddr
       [] onRing # {} /\ ahead = {}  -> owners[First(onRing)]
       [] OTHER                      -> owners[First(ahead)]

\* The hashes a key may have, one per arc of the ring.
Hashes == Positions \cup {pos + 1 : pos \in Positions}

\* addNode: its positions are appended to keys, which are sorted again.
KeysWith(ring, addr, n) == [pos \in Positions |-> ring[pos] + Copies[addr][n][pos]]
OwnersWith(owners, addr, n) ==
  [pos \in Positions |-> IF Copies[addr][n][pos] > 0 THEN addr ELSE owners[pos]]

\* removeNoLock: slice_remove takes out one copy of each, where there is one.
KeysWithout(ring, addr, n) ==
  [pos \in Positions |-> IF ring[pos] > Copies[addr][n][pos]
                         THEN ring[pos] - Copies[addr][n][pos] ELSE 0]
OwnersWithout(owners, addr, n) ==
  [pos \in Positions |-> IF Copies[addr][n][pos] > 0 THEN NoAddr ELSE owners[pos]]

\* The bounds of a replica count.
Clamped(n) == CASE n > MaxReplicas -> MaxReplicas
                [] n < MinReplicas -> MinReplicas
                [] OTHER           -> n

\* What a pass moves the replica count of a node to.
Moved(n, fewer) == Clamped(IF fewer THEN n - Step ELSE n + Step)

\* The ring with the first replicas[addr] virtual nodes of every node.
KeysOf(replicas) ==
  [pos \in Positions |-> Cardinality({addr \in Addrs : Copies[addr][replicas[addr]][pos] > 0})]
OwnersOf(replicas) ==
  [pos \in Positions |->
     IF \E addr \in Addrs : Copies[addr][replicas[addr]][pos] > 0
     THEN CHOOSE addr \in Addrs : Copies[addr][replicas[addr]][pos] > 0 ELSE NoAddr]
=============================================================================
