------------------------------ MODULE RingProofs ------------------------------
(* What addNode, removeNoLock and Get do to the data of a ring, for any nodes *)
(* and replica counts, and any placing of the virtual nodes at distinct       *)
(* positions.  HashRingProofs and RingClusterProofs rest on it.               *)
EXTENDS Ring, FiniteSetTheorems, TLAPS

\* No two virtual nodes have the same hash.
DistinctPlaces ==
  \A a, b \in Addrs : \A i, j \in 0..MaxReplicas-1 :
    Place[a][i] = Place[b][j] => a = b /\ i = j

\* RingMatchesReplicas, of any slice, map and replica counts.
Matches(ring, owners, replicas) ==
  \A addr \in Addrs : \A i \in 0..MaxReplicas-1 :
    /\ ring[Place[addr][i]] = IF i < replicas[addr] THEN 1 ELSE 0
    /\ owners[Place[addr][i]] = IF i < replicas[addr] THEN addr ELSE NoAddr

Rings == [Positions -> Nat]
OwnerMaps == [Positions -> Addrs \cup {NoAddr}]

-----------------------------------------------------------------------------
LEMMA LeastOf ==
  ASSUME NEW set \in SUBSET Nat, set # {}
  PROVE  \E least \in set : \A other \in set : least <= other
<1>1. PICK least \in set : \A other \in set : <<other, least>> \notin OpToRel(<, Nat)
  BY NatLessThanWellFounded, WFMin
<1>2. \A other \in set : ~(other < least)
  BY <1>1 DEF OpToRel
<1> QED BY <1>2

LEMMA PositionsAreNat ==
  /\ Positions \subseteq Nat
  /\ \A pos \in Positions : \E addr \in Addrs, i \in 0..MaxReplicas-1 : pos = Place[addr][i]
  /\ \A addr \in Addrs, i \in 0..MaxReplicas-1 : Place[addr][i] \in Positions
BY RingAssumption DEF Positions

LEMMA CopiesType ==
  ASSUME NEW addr \in Addrs, NEW n \in 0..MaxReplicas, NEW pos \in Positions
  PROVE  Copies[addr][n][pos] \in Nat
<1>1. Copies[addr][n][pos] = Cardinality({i \in 0..n-1 : Place[addr][i] = pos})
  BY DEF Copies
<1>2. IsFiniteSet(0..n-1)
  BY FS_Interval, RingAssumption
<1>3. {i \in 0..n-1 : Place[addr][i] = pos} \in SUBSET (0..n-1)
  OBVIOUS
<1> QED BY <1>1, <1>2, <1>3, FS_Subset, FS_CardinalityType

\* With distinct hashes a position carries at most one virtual node.
LEMMA CopiesAt ==
  ASSUME DistinctPlaces, NEW a \in Addrs, NEW n \in 0..MaxReplicas,
         NEW b \in Addrs, NEW i \in 0..MaxReplicas-1
  PROVE  Copies[a][n][Place[b][i]] = IF a = b /\ i < n THEN 1 ELSE 0
<1> DEFINE there == {j \in 0..n-1 : Place[a][j] = Place[b][i]}
<1>1. Place[b][i] \in Positions
  BY PositionsAreNat
<1>2. Copies[a][n][Place[b][i]] = Cardinality(there)
  BY <1>1 DEF Copies
<1>3. CASE a = b /\ i < n
  <2>1. there = {i}
    BY <1>3, RingAssumption DEF DistinctPlaces
  <2> QED BY <1>2, <1>3, <2>1, FS_Singleton
<1>4. CASE ~(a = b /\ i < n)
  <2>1. there = {}
    BY <1>4, RingAssumption DEF DistinctPlaces
  <2> QED BY <1>2, <1>4, <2>1, FS_EmptySet
<1> QED BY <1>3, <1>4

LEMMA ReplicasInRange == Replicas \subseteq 0..MaxReplicas
BY RingAssumption DEF Replicas

LEMMA WithTypes ==
  ASSUME NEW ring \in Rings, NEW owners \in OwnerMaps, NEW addr \in Addrs, NEW n \in 0..MaxReplicas
  PROVE  /\ KeysWith(ring, addr, n) \in Rings /\ OwnersWith(owners, addr, n) \in OwnerMaps
         /\ KeysWithout(ring, addr, n) \in Rings /\ OwnersWithout(owners, addr, n) \in OwnerMaps
BY CopiesType DEF KeysWith, OwnersWith, KeysWithout, OwnersWithout, Rings, OwnerMaps

\* addNode, of a node that is not on the ring.
LEMMA MatchesWith ==
  ASSUME DistinctPlaces, NEW ring \in Rings, NEW owners \in OwnerMaps,
         NEW replicas \in [Addrs -> Replicas], Matches(ring, owners, replicas),
         NEW addr \in Addrs, replicas[addr] = 0, NEW n \in Replicas
  PROVE  Matches(KeysWith(ring, addr, n), OwnersWith(owners, addr, n),
                 [replicas EXCEPT ![addr] = n])
<1>1. n \in 0..MaxReplicas
  BY ReplicasInRange
<1> SUFFICES ASSUME NEW b \in Addrs, NEW i \in 0..MaxReplicas-1
             PROVE  LET new == [replicas EXCEPT ![addr] = n]
                    IN /\ KeysWith(ring, addr, n)[Place[b][i]] = IF i < new[b] THEN 1 ELSE 0
                       /\ OwnersWith(owners, addr, n)[Place[b][i]] = IF i < new[b] THEN b ELSE NoAddr
  BY DEF Matches
<1>2. Place[b][i] \in Positions
  BY PositionsAreNat
<1>3. Copies[addr][n][Place[b][i]] = IF addr = b /\ i < n THEN 1 ELSE 0
  BY <1>1, CopiesAt
<1>4. /\ KeysWith(ring, addr, n)[Place[b][i]] = ring[Place[b][i]] + Copies[addr][n][Place[b][i]]
      /\ OwnersWith(owners, addr, n)[Place[b][i]] =
           IF Copies[addr][n][Place[b][i]] > 0 THEN addr ELSE owners[Place[b][i]]
  BY <1>2 DEF KeysWith, OwnersWith
<1>5. /\ ring[Place[b][i]] = IF i < replicas[b] THEN 1 ELSE 0
      /\ owners[Place[b][i]] = IF i < replicas[b] THEN b ELSE NoAddr
  BY DEF Matches
<1>6. CASE addr = b
  BY <1>3, <1>4, <1>5, <1>6
<1>7. CASE addr # b
  BY <1>3, <1>4, <1>5, <1>7
<1> QED BY <1>6, <1>7

\* removeNoLock.
LEMMA MatchesWithout ==
  ASSUME DistinctPlaces, NEW ring \in Rings, NEW owners \in OwnerMaps,
         NEW replicas \in [Addrs -> Replicas], Matches(ring, owners, replicas),
         NEW addr \in Addrs
  PROVE  Matches(KeysWithout(ring, addr, replicas[addr]),
                 OwnersWithout(owners, addr, replicas[addr]), [replicas EXCEPT ![addr] = 0])
<1>1. replicas[addr] \in 0..MaxReplicas
  BY ReplicasInRange
<1> SUFFICES ASSUME NEW b \in Addrs, NEW i \in 0..MaxReplicas-1
             PROVE  LET new == [replicas EXCEPT ![addr] = 0]
                    IN /\ KeysWithout(ring, addr, replicas[addr])[Place[b][i]] =
                            IF i < new[b] THEN 1 ELSE 0
                       /\ OwnersWithout(owners, addr, replicas[addr])[Place[b][i]] =
                            IF i < new[b] THEN b ELSE NoAddr
  BY DEF Matches
<1>2. Place[b][i] \in Positions
  BY PositionsAreNat
<1> DEFINE copies == Copies[addr][replicas[addr]][Place[b][i]]
<1>3. copies = IF addr = b /\ i < replicas[addr] THEN 1 ELSE 0
  BY <1>1, CopiesAt
<1>4. /\ KeysWithout(ring, addr, replicas[addr])[Place[b][i]] =
           IF ring[Place[b][i]] > copies THEN ring[Place[b][i]] - copies ELSE 0
      /\ OwnersWithout(owners, addr, replicas[addr])[Place[b][i]] =
           IF copies > 0 THEN NoAddr ELSE owners[Place[b][i]]
  BY <1>2 DEF KeysWithout, OwnersWithout
<1>5. /\ ring[Place[b][i]] = IF i < replicas[b] THEN 1 ELSE 0
      /\ owners[Place[b][i]] = IF i < replicas[b] THEN b ELSE NoAddr
  BY DEF Matches
<1> HIDE DEF copies
<1>6. CASE addr = b
  BY <1>3, <1>4, <1>5, <1>6
<1>7. CASE addr # b
  BY <1>3, <1>4, <1>5, <1>7
<1> QED BY <1>6, <1>7

-----------------------------------------------------------------------------
\* f is the position at which Get finds the owner of hash.
Finds(ring, hash, f) ==
  /\ f \in Positions /\ ring[f] > 0
  /\ \/ /\ f >= hash
        /\ \A pos \in Positions : ring[pos] > 0 /\ pos >= hash => f <= pos
     \/ /\ \A pos \in Positions : ring[pos] > 0 => pos < hash
        /\ \A pos \in Positions : ring[pos] > 0 => f <= pos

LEMMA OwnerFound ==
  ASSUME NEW ring \in Rings, NEW owners \in OwnerMaps, NEW hash \in Nat
  PROVE  \/ /\ \A pos \in Positions : ring[pos] = 0
            /\ OwnerIn(ring, owners, hash) = NoAddr
         \/ \E f \in Positions : Finds(ring, hash, f) /\ OwnerIn(ring, owners, hash) = owners[f]
<1> DEFINE onRing == {pos \in Positions : ring[pos] > 0}
           ahead == {pos \in onRing : pos >= hash}
           First(set) == CHOOSE pos \in set : \A other \in set : pos <= other
<1>1. OwnerIn(ring, owners, hash) =
        CASE onRing = {}                -> NoAddr
          [] onRing # {} /\ ahead = {}  -> owners[First(onRing)]
          [] OTHER                      -> owners[First(ahead)]
  BY DEF OwnerIn
<1>2. \A pos \in Positions : ring[pos] \in Nat /\ pos \in Nat
  BY PositionsAreNat DEF Rings
<1>3. ASSUME NEW set \in SUBSET Nat, set # {}
      PROVE  First(set) \in set /\ \A other \in set : First(set) <= other
  BY <1>3, LeastOf
<1>4. onRing \in SUBSET Nat /\ ahead \in SUBSET Nat
  BY <1>2
<1>5. \A pos : pos \in onRing <=> pos \in Positions /\ ring[pos] > 0
  OBVIOUS
<1>6. \A pos : pos \in ahead <=> pos \in onRing /\ pos >= hash
  OBVIOUS
<1> HIDE DEF onRing, ahead, First
<1>7. CASE onRing = {}
  <2>1. \A pos \in Positions : ring[pos] = 0
    BY <1>2, <1>5, <1>7
  <2> QED BY <1>1, <1>7, <2>1
<1>8. CASE onRing # {} /\ ahead = {}
  <2>1. First(onRing) \in onRing /\ \A other \in onRing : First(onRing) <= other
    BY <1>3, <1>4, <1>8
  <2>2. \A pos \in Positions : ring[pos] > 0 => pos < hash
    BY <1>2, <1>5, <1>6, <1>8
  <2>3. Finds(ring, hash, First(onRing))
    BY <1>5, <2>1, <2>2 DEF Finds
  <2> QED BY <1>1, <1>5, <1>8, <2>1, <2>3
<1>9. CASE onRing # {} /\ ahead # {}
  <2>1. First(ahead) \in ahead /\ \A other \in ahead : First(ahead) <= other
    BY <1>3, <1>4, <1>9
  <2>2. Finds(ring, hash, First(ahead))
    BY <1>5, <1>6, <2>1 DEF Finds
  <2> QED BY <1>1, <1>5, <1>6, <1>9, <2>1, <2>2
<1> QED BY <1>7, <1>8, <1>9

\* Two rings that differ in one node only give a hash to the same owner, unless
\* it is that node in one of them.
LEMMA OneNodeMoves ==
  ASSUME DistinctPlaces,
         NEW ring1 \in Rings, NEW owners1 \in OwnerMaps, NEW replicas1, Matches(ring1, owners1, replicas1),
         NEW ring2 \in Rings, NEW owners2 \in OwnerMaps, NEW replicas2, Matches(ring2, owners2, replicas2),
         NEW addr \in Addrs, \A other \in Addrs \ {addr} : replicas1[other] = replicas2[other],
         NEW hash \in Nat,
         OwnerIn(ring1, owners1, hash) # addr, OwnerIn(ring2, owners2, hash) # addr
  PROVE  OwnerIn(ring1, owners1, hash) = OwnerIn(ring2, owners2, hash)
<1> DEFINE owner1 == OwnerIn(ring1, owners1, hash)
           owner2 == OwnerIn(ring2, owners2, hash)
<1>1. ASSUME NEW pos \in Positions
      PROVE  /\ ring1[pos] > 0 /\ owners1[pos] # addr => ring2[pos] > 0 /\ owners2[pos] = owners1[pos]
             /\ ring2[pos] > 0 /\ owners2[pos] # addr => ring1[pos] > 0 /\ owners1[pos] = owners2[pos]
             /\ ring1[pos] \in Nat /\ ring2[pos] \in Nat /\ pos \in Nat
  <2>1. PICK b \in Addrs, i \in 0..MaxReplicas-1 : pos = Place[b][i]
    BY PositionsAreNat
  <2>2. /\ ring1[pos] = (IF i < replicas1[b] THEN 1 ELSE 0)
        /\ owners1[pos] = (IF i < replicas1[b] THEN b ELSE NoAddr)
        /\ ring2[pos] = (IF i < replicas2[b] THEN 1 ELSE 0)
        /\ owners2[pos] = (IF i < replicas2[b] THEN b ELSE NoAddr)
    BY <2>1 DEF Matches
  <2>3. b # addr => replicas1[b] = replicas2[b]
    OBVIOUS
  <2>4. pos \in Nat
    BY PositionsAreNat
  <2> QED BY <2>2, <2>3, <2>4
<1>2. \/ (\A pos \in Positions : ring1[pos] = 0) /\ owner1 = NoAddr
      \/ \E f \in Positions : Finds(ring1, hash, f) /\ owner1 = owners1[f]
  BY OwnerFound
<1>3. \/ (\A pos \in Positions : ring2[pos] = 0) /\ owner2 = NoAddr
      \/ \E f \in Positions : Finds(ring2, hash, f) /\ owner2 = owners2[f]
  BY OwnerFound
<1>4. owner1 # addr /\ owner2 # addr
  OBVIOUS
<1> HIDE DEF owner1, owner2
<1>5. CASE (\A pos \in Positions : ring1[pos] = 0) /\ owner1 = NoAddr
  <2>1. ~ \E f \in Positions : Finds(ring2, hash, f) /\ owner2 = owners2[f]
    BY <1>1, <1>4, <1>5 DEF Finds
  <2> QED BY <1>3, <1>5, <2>1 DEF owner1, owner2
<1>6. CASE (\A pos \in Positions : ring2[pos] = 0) /\ owner2 = NoAddr
  <2>1. ~ \E f \in Positions : Finds(ring1, hash, f) /\ owner1 = owners1[f]
    BY <1>1, <1>4, <1>6 DEF Finds
  <2> QED BY <1>2, <1>6, <2>1 DEF owner1, owner2
<1>7. ASSUME NEW f \in Positions, Finds(ring1, hash, f), owner1 = owners1[f],
             NEW g \in Positions, Finds(ring2, hash, g), owner2 = owners2[g]
      PROVE  owner1 = owner2
  <2>1. ring1[f] > 0 /\ ring2[f] > 0 /\ owners2[f] = owners1[f]
    BY <1>1, <1>4, <1>7 DEF Finds
  <2>2. ring2[g] > 0 /\ ring1[g] > 0
    BY <1>1, <1>4, <1>7 DEF Finds
  <2>3. f \in Nat /\ g \in Nat
    BY <1>1
  <2>4. f <= g /\ g <= f
    BY <1>7, <2>1, <2>2, <2>3 DEF Finds
  <2> QED BY <1>7, <2>1, <2>3, <2>4
<1> QED BY <1>2, <1>3, <1>5, <1>6, <1>7 DEF owner1, owner2

LEMMA MovedInRange ==
  ASSUME NEW n \in Replicas, NEW fewer
  PROVE  Moved(n, fewer) \in MinReplicas..MaxReplicas
BY RingAssumption DEF Moved, Clamped, Replicas

\* A ring as another node would publish it.
LEMMA SnapshotTypes ==
  ASSUME NEW replicas \in [Addrs -> Replicas]
  PROVE  KeysOf(replicas) \in Rings /\ OwnersOf(replicas) \in OwnerMaps
<1>1. ASSUME NEW pos \in Positions
      PROVE  Cardinality({addr \in Addrs : Copies[addr][replicas[addr]][pos] > 0}) \in Nat
  <2>1. {addr \in Addrs : Copies[addr][replicas[addr]][pos] > 0} \in SUBSET Addrs
    OBVIOUS
  <2> QED BY <2>1, RingAssumption, FS_Subset, FS_CardinalityType
<1>2. KeysOf(replicas) \in Rings
  BY <1>1 DEF KeysOf, Rings
<1>3. OwnersOf(replicas) \in OwnerMaps
  BY DEF OwnersOf, OwnerMaps
<1> QED BY <1>2, <1>3

\* Without collisions the replica counts determine the ring.
LEMMA ExactRing ==
  ASSUME DistinctPlaces, NEW ring \in Rings, NEW owners \in OwnerMaps,
         NEW replicas \in [Addrs -> Replicas]
  PROVE  Matches(ring, owners, replicas) <=> ring = KeysOf(replicas) /\ owners = OwnersOf(replicas)
<1>1. Matches(KeysOf(replicas), OwnersOf(replicas), replicas)
  <2> SUFFICES ASSUME NEW b \in Addrs, NEW i \in 0..MaxReplicas-1
               PROVE  /\ KeysOf(replicas)[Place[b][i]] = IF i < replicas[b] THEN 1 ELSE 0
                      /\ OwnersOf(replicas)[Place[b][i]] = IF i < replicas[b] THEN b ELSE NoAddr
    BY DEF Matches
  <2> DEFINE here == {addr \in Addrs : Copies[addr][replicas[addr]][Place[b][i]] > 0}
  <2>1. Place[b][i] \in Positions
    BY PositionsAreNat
  <2>2. /\ KeysOf(replicas)[Place[b][i]] = Cardinality(here)
        /\ OwnersOf(replicas)[Place[b][i]] =
             IF \E addr \in Addrs : Copies[addr][replicas[addr]][Place[b][i]] > 0
             THEN CHOOSE addr \in Addrs : Copies[addr][replicas[addr]][Place[b][i]] > 0 ELSE NoAddr
    BY <2>1 DEF KeysOf, OwnersOf
  <2>3. ASSUME NEW addr \in Addrs
        PROVE  Copies[addr][replicas[addr]][Place[b][i]] > 0 <=> addr = b /\ i < replicas[b]
    <3>1. replicas[addr] \in 0..MaxReplicas
      BY ReplicasInRange
    <3>2. Copies[addr][replicas[addr]][Place[b][i]] = IF addr = b /\ i < replicas[addr] THEN 1 ELSE 0
      BY <3>1, CopiesAt
    <3> QED BY <3>2
  <2>4. CASE i < replicas[b]
    <3>1. here = {b}
      BY <2>3, <2>4
    <3>2. Cardinality(here) = 1
      BY <3>1, FS_Singleton
    <3> QED BY <2>2, <2>3, <2>4, <3>2
  <2>5. CASE ~(i < replicas[b])
    <3>1. here = {}
      BY <2>3, <2>5
    <3>2. Cardinality(here) = 0
      BY <3>1, FS_EmptySet
    <3> QED BY <2>2, <2>3, <2>5, <3>2
  <2> QED BY <2>4, <2>5
<1>2. KeysOf(replicas) \in Rings /\ OwnersOf(replicas) \in OwnerMaps
  BY SnapshotTypes
<1>3. ASSUME Matches(ring, owners, replicas)
      PROVE  ring = KeysOf(replicas) /\ owners = OwnersOf(replicas)
  <2>1. ASSUME NEW pos \in Positions
        PROVE  ring[pos] = KeysOf(replicas)[pos] /\ owners[pos] = OwnersOf(replicas)[pos]
    <3>1. PICK b \in Addrs, i \in 0..MaxReplicas-1 : pos = Place[b][i]
      BY PositionsAreNat
    <3> QED BY <1>1, <1>3, <3>1 DEF Matches
  <2> QED BY <1>2, <2>1 DEF Rings, OwnerMaps
<1> QED BY <1>1, <1>3
=============================================================================
