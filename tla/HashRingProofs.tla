---------------------------- MODULE HashRingProofs ----------------------------
(* For any nodes, replica counts and loads, and any placing of the virtual    *)
(* nodes at distinct positions: the ring is the one nodeReplicas describes,   *)
(* and what joins, leaves or is rebalanced moves no other node's keys.        *)
(* Wherever they are placed: what TypeOK says, and every node is counted.     *)
EXTENDS HashRing, RingProofs

(* The average of a pass is a natural number: the fold of CheckStart is       *)
(* defined by recursion over the sets of nodes, of which there are finitely   *)
(* many.                                                                      *)

\* Induction over the natural numbers, for a set.
LEMMA SetInduction ==
  ASSUME NEW set, 0 \in set, \A i \in Nat : i \in set => i+1 \in set
  PROVE  \A i \in Nat : i \in set
<1> SUFFICES ASSUME \E i \in Nat : i \notin set PROVE FALSE
  OBVIOUS
<1> DEFINE out == {i \in Nat : i \notin set}
<1>1. out \in SUBSET Nat /\ out # {}
  OBVIOUS
<1> HIDE DEF out
<1>2. PICK least \in out : \A other \in out : least <= other
  BY <1>1, LeastOf
<1>3. least \in Nat /\ least # 0 /\ least - 1 \in Nat /\ (least - 1) + 1 = least
  BY <1>1 DEF out
<1>4. least - 1 \notin out
  BY <1>2, <1>3
<1> QED BY <1>3, <1>4 DEF out

LEMMA SumOfCounts ==
  ASSUME NEW all, IsFiniteSet(all), NEW f, \A x \in all : f[x] \in Nat
  PROVE  FoldFunctionOnSet(+, 0, f, all) \in Nat
<1> DEFINE One(s) == CHOOSE x \in s : TRUE
           Sums(g) == [s \in SUBSET all |-> IF s = {} THEN 0 ELSE f[One(s)] + g[s \ {One(s)}]]
           sum == CHOOSE sum : sum = Sums(sum)
<1>0. FoldFunctionOnSet(+, 0, f, all) = sum[all]
  BY DEF FoldFunctionOnSet, MapThenFoldSet
<1>1. ASSUME NEW s \in SUBSET all
      PROVE  /\ Cardinality(s) \in Nat /\ Cardinality(s) <= Cardinality(all)
             /\ Cardinality(s) = 0 <=> s = {}
             /\ s # {} => /\ One(s) \in all /\ s \ {One(s)} \in SUBSET all
                          /\ f[One(s)] \in Nat
                          /\ Cardinality(s \ {One(s)}) = Cardinality(s) - 1
  <2>1. IsFiniteSet(s) /\ Cardinality(s) <= Cardinality(all)
    BY FS_Subset
  <2>2. Cardinality(s) \in Nat /\ (Cardinality(s) = 0 <=> s = {})
    BY <2>1, FS_CardinalityType, FS_EmptySet
  <2>3. ASSUME s # {} PROVE One(s) \in s
    BY <2>3
  <2> HIDE DEF One
  <2>4. ASSUME s # {} PROVE Cardinality(s \ {One(s)}) = Cardinality(s) - 1
    BY <2>1, <2>3, <2>4, FS_RemoveElement
  <2> QED BY <2>1, <2>2, <2>3, <2>4
<1>2. \A g : \A s \in SUBSET all : Sums(g)[s] = IF s = {} THEN 0 ELSE f[One(s)] + g[s \ {One(s)}]
  OBVIOUS
<1>3. \A g \in [SUBSET all -> Nat] : Sums(g) \in [SUBSET all -> Nat]
  <2> SUFFICES ASSUME NEW g \in [SUBSET all -> Nat] PROVE Sums(g) \in [SUBSET all -> Nat]
    OBVIOUS
  <2>1. \A s \in SUBSET all : s # {} => f[One(s)] + g[s \ {One(s)}] \in Nat
    <3> HIDE DEF One
    <3> QED BY <1>1
  <2> HIDE DEF One
  <2> QED BY <2>1
<1>f. \A g : Sums(g) = [s \in SUBSET all |-> Sums(g)[s]]
  OBVIOUS
<1> HIDE DEF One, Sums
<1> DEFINE Upto(g, n) == \A s \in SUBSET all : Cardinality(s) <= n => g[s] = Sums(g)[s]
           set == {n \in Nat : \E g \in [SUBSET all -> Nat] : Upto(g, n)}
<1>4. 0 \in set
  <2> DEFINE g == [s \in SUBSET all |-> 0]
  <2>1. g \in [SUBSET all -> Nat]
    OBVIOUS
  <2>2. ASSUME NEW s \in SUBSET all, Cardinality(s) <= 0 PROVE g[s] = Sums(g)[s]
    <3>0. Cardinality(s) \in Nat /\ (Cardinality(s) = 0 <=> s = {})
      BY <1>1
    <3>1. s = {}
      BY <2>2, <3>0
    <3> QED BY <1>2, <3>1
  <2> HIDE DEF g
  <2> QED BY <2>1, <2>2
<1>5. ASSUME NEW n \in Nat, n \in set PROVE n+1 \in set
  <2>1. PICK g \in [SUBSET all -> Nat] : Upto(g, n)
    BY <1>5
  <2> DEFINE h == Sums(g)
  <2>2. h \in [SUBSET all -> Nat]
    BY <1>3
  <2>3. ASSUME NEW s \in SUBSET all, Cardinality(s) <= n+1 PROVE h[s] = Sums(h)[s]
    <3>1. CASE s = {}
      BY <1>2, <3>1
    <3>2. CASE s # {}
      <4> DEFINE rest == s \ {One(s)}
      <4>1. rest \in SUBSET all /\ Cardinality(rest) <= n
        <5>1. rest \in SUBSET all /\ Cardinality(rest) = Cardinality(s) - 1 /\ Cardinality(s) \in Nat
          BY <1>1, <3>2
        <5> HIDE DEF rest
        <5> QED BY <2>3, <5>1
      <4>2. g[rest] = h[rest]
        BY <2>1, <4>1
      <4> QED BY <1>2, <3>2, <4>2
    <3> QED BY <3>1, <3>2
  <2> HIDE DEF h
  <2> QED BY <2>2, <2>3
<1> HIDE DEF set
<1>6. Cardinality(all) \in Nat /\ Cardinality(all) \in set
  BY <1>4, <1>5, SetInduction, FS_CardinalityType
<1>7. PICK g \in [SUBSET all -> Nat] : Upto(g, Cardinality(all))
  BY <1>6 DEF set
<1>8. g = Sums(g)
  <2>1. \A s \in SUBSET all : g[s] = Sums(g)[s]
    BY <1>1, <1>7
  <2>2. g = [s \in SUBSET all |-> g[s]]
    OBVIOUS
  <2> QED BY <1>f, <2>1, <2>2
<1>9. sum = Sums(sum)
  BY <1>8
<1> HIDE DEF sum
<1> DEFINE nats == {n \in Nat : \A s \in SUBSET all : Cardinality(s) <= n => sum[s] \in Nat}
<1>10. 0 \in nats
  <2> SUFFICES ASSUME NEW s \in SUBSET all, Cardinality(s) <= 0 PROVE sum[s] \in Nat
    OBVIOUS
  <2> HIDE DEF nats
  <2>0. Cardinality(s) \in Nat /\ (Cardinality(s) = 0 <=> s = {})
    BY <1>1
  <2>1. s = {}
    BY <2>0
  <2>2. sum[s] = Sums(sum)[s] /\ Sums(sum)[s] = 0
    BY <1>2, <1>9, <2>1
  <2> QED BY <2>2
<1>11. ASSUME NEW n \in Nat, n \in nats PROVE n+1 \in nats
  <2> SUFFICES ASSUME NEW s \in SUBSET all, Cardinality(s) <= n+1 PROVE sum[s] \in Nat
    OBVIOUS
  <2>0. sum[s] = Sums(sum)[s] /\ Sums(sum)[s] = IF s = {} THEN 0 ELSE f[One(s)] + sum[s \ {One(s)}]
    BY <1>2, <1>9
  <2>1. CASE s = {}
    BY <2>0, <2>1
  <2>2. CASE s # {}
    <3> DEFINE rest == s \ {One(s)}
    <3>1. rest \in SUBSET all /\ Cardinality(rest) = Cardinality(s) - 1
      <4> HIDE DEF nats
      <4> QED BY <1>1, <2>2
    <3>a. Cardinality(s) \in Nat /\ f[One(s)] \in Nat
      BY <1>1, <2>2
    <3>2. sum[s] = f[One(s)] + sum[rest]
      BY <2>0, <2>2
    <3> HIDE DEF rest
    <3>3. Cardinality(rest) <= n
      BY <3>1, <3>a
    <3>4. sum[rest] \in Nat
      BY <1>11, <3>1, <3>3
    <3> QED BY <3>2, <3>4, <3>a
  <2> QED BY <2>1, <2>2
<1> HIDE DEF nats
<1>12. Cardinality(all) \in nats
  BY <1>6, <1>10, <1>11, SetInduction
<1>13. sum[all] \in Nat
  BY <1>6, <1>12 DEF nats
<1> QED BY <1>0, <1>13

\* What CheckStart takes as the average.
LEMMA AverageIsNat ==
  ASSUME nodeCounts \in [Addrs -> Nat \cup {NoCount}], Counted # {}
  PROVE  FoldFunctionOnSet(+, 0, nodeCounts, Counted) \div Cardinality(Counted) \in Nat
<1>1. Counted \in SUBSET Addrs /\ \A addr \in Counted : nodeCounts[addr] \in Nat
  BY DEF Counted
<1>2. IsFiniteSet(Counted)
  BY <1>1, RingAssumption, FS_Subset
<1>3. FoldFunctionOnSet(+, 0, nodeCounts, Counted) \in Nat
  BY <1>1, <1>2, SumOfCounts
<1>4. Cardinality(Counted) \in Nat \ {0}
  BY <1>2, FS_CardinalityType, FS_EmptySet
<1>5. \A a \in Nat, b \in Nat \ {0} : a \div b \in Nat
  OBVIOUS
<1> QED BY <1>3, <1>4, <1>5

\* A position with an owner stays on the ring, whatever collides.
OwnersOnRing(ring, owners) == \A pos \in Positions : owners[pos] # NoAddr => ring[pos] > 0

LEMMA OnRingKept ==
  ASSUME NEW ring \in Rings, NEW owners \in OwnerMaps, OwnersOnRing(ring, owners),
         NEW addr \in Addrs, NEW n \in 0..MaxReplicas
  PROVE  /\ OwnersOnRing(KeysWith(ring, addr, n), OwnersWith(owners, addr, n))
         /\ OwnersOnRing(KeysWithout(ring, addr, n), OwnersWithout(owners, addr, n))
<1> SUFFICES ASSUME NEW pos \in Positions
             PROVE  /\ OwnersWith(owners, addr, n)[pos] # NoAddr => KeysWith(ring, addr, n)[pos] > 0
                    /\ OwnersWithout(owners, addr, n)[pos] # NoAddr
                         => KeysWithout(ring, addr, n)[pos] > 0
  BY DEF OwnersOnRing
<1>1. Copies[addr][n][pos] \in Nat /\ ring[pos] \in Nat /\ (owners[pos] # NoAddr => ring[pos] > 0)
  BY CopiesType DEF Rings, OwnersOnRing
<1> DEFINE copies == Copies[addr][n][pos]
<1>2. /\ KeysWith(ring, addr, n)[pos] = ring[pos] + copies
      /\ OwnersWith(owners, addr, n)[pos] = IF copies > 0 THEN addr ELSE owners[pos]
      /\ KeysWithout(ring, addr, n)[pos] = IF ring[pos] > copies THEN ring[pos] - copies ELSE 0
      /\ OwnersWithout(owners, addr, n)[pos] = IF copies > 0 THEN NoAddr ELSE owners[pos]
  BY DEF KeysWith, OwnersWith, KeysWithout, OwnersWithout
<1> HIDE DEF copies
<1>3. CASE copies > 0
  BY <1>1, <1>2, <1>3 DEF copies
<1>4. CASE copies = 0
  BY <1>1, <1>2, <1>4
<1> QED BY <1>1, <1>3, <1>4 DEF copies

CheckType == [on : BOOLEAN, avg : Nat, must : SUBSET Addrs, open : SUBSET Addrs,
              again : SUBSET Addrs, moving : Addrs \cup {NoAddr}, new : Replicas]

LEMMA InitTypeOK == Init => TypeOK
<1> SUFFICES ASSUME Init PROVE TypeOK
  OBVIOUS
<1>1. /\ keys \in [Positions -> Nat] /\ hashMap \in [Positions -> Addrs \cup {NoAddr}]
      /\ \A pos \in Positions : hashMap[pos] = NoAddr
      /\ nodeCounts \in [Addrs -> Nat \cup {NoCount}]
  BY DEF Init
<1>2. nodeReplicas \in [Addrs -> Replicas]
  BY DEF Init, Replicas
<1>3. check \in CheckType
  BY DEF Init, NoCheck, CheckType, Replicas
<1>4. role \in {"candidate", "leader", "follower", "down"} /\ replaced \in BOOLEAN
  BY DEF Init
<1> QED BY <1>1, <1>2, <1>3, <1>4 DEF TypeOK, CheckType

LEMMA NextTypeOK == TypeOK /\ [Next]_vars => TypeOK'
<1> SUFFICES ASSUME TypeOK, [Next]_vars PROVE TypeOK'
  OBVIOUS
<1>0. /\ keys \in Rings /\ hashMap \in OwnerMaps /\ (~replaced => OwnersOnRing(keys, hashMap))
      /\ nodeReplicas \in [Addrs -> Replicas] /\ nodeCounts \in [Addrs -> Nat \cup {NoCount}]
      /\ role \in {"candidate", "leader", "follower", "down"} /\ check \in CheckType
      /\ replaced \in BOOLEAN
  BY DEF TypeOK, CheckType, Rings, OwnerMaps, OwnersOnRing
<1>t. /\ \A addr \in Addrs : Created(addr) \in CheckType /\ Dropped(addr) \in CheckType
      /\ NoCheck \in CheckType
  <2>1. ASSUME NEW addr \in Addrs PROVE Created(addr) \in CheckType /\ Dropped(addr) \in CheckType
    BY <1>0 DEF CheckType, Created, Dropped
  <2>2. NoCheck \in CheckType
    BY DEF NoCheck, CheckType, Replicas
  <2> QED BY <2>1, <2>2
<1>r. Replicas \subseteq 0..MaxReplicas /\ 0 \in Replicas /\ DefaultReplicas \in Replicas
  BY ReplicasInRange, RingAssumption DEF Replicas
<1> DEFINE Typed == /\ keys' \in Rings /\ hashMap' \in OwnerMaps /\ (~replaced' => OwnersOnRing(keys', hashMap'))
                    /\ nodeReplicas' \in [Addrs -> Replicas]
                    /\ nodeCounts' \in [Addrs -> Nat \cup {NoCount}]
                    /\ role' \in {"candidate", "leader", "follower", "down"} /\ check' \in CheckType
                    /\ replaced' \in BOOLEAN
<1>u. Typed => TypeOK'
  BY DEF TypeOK, CheckType, Rings, OwnerMaps, OwnersOnRing
<1> HIDE DEF CheckType
<1>1. ASSUME NEW addr \in Addrs, Add(addr) PROVE Typed
  <2>1. /\ keys' = KeysWith(keys, addr, DefaultReplicas)
        /\ hashMap' = OwnersWith(hashMap, addr, DefaultReplicas)
        /\ nodeReplicas' = [nodeReplicas EXCEPT ![addr] = DefaultReplicas]
        /\ nodeCounts' = [nodeCounts EXCEPT ![addr] = 0]
        /\ check' = Created(addr) /\ role' = role /\ replaced' = replaced
    BY <1>1 DEF Add
  <2>2. keys' \in Rings /\ hashMap' \in OwnerMaps
        /\ (~replaced => OwnersOnRing(keys', hashMap'))
    BY <1>0, <1>r, <2>1, WithTypes, OnRingKept
  <2> QED BY <1>0, <1>t, <1>r, <2>1, <2>2
<1>2. ASSUME NEW addr \in Addrs, Remove(addr) PROVE Typed
  <2>0. nodeReplicas[addr] \in 0..MaxReplicas
    BY <1>0, <1>r
  <2>1. /\ keys' = KeysWithout(keys, addr, nodeReplicas[addr])
        /\ hashMap' = OwnersWithout(hashMap, addr, nodeReplicas[addr])
        /\ nodeReplicas' = [nodeReplicas EXCEPT ![addr] = 0]
        /\ nodeCounts' = [nodeCounts EXCEPT ![addr] = NoCount]
        /\ check' = Dropped(addr) /\ role' = role /\ replaced' = replaced
    BY <1>2 DEF Remove
  <2>2. keys' \in Rings /\ hashMap' \in OwnerMaps
        /\ (~replaced => OwnersOnRing(keys', hashMap'))
    BY <1>0, <2>0, <2>1, WithTypes, OnRingKept
  <2> QED BY <1>0, <1>t, <1>r, <2>1, <2>2
<1>3. ASSUME NEW addr \in Addrs, CheckMoves(addr) PROVE Typed
  <2> DEFINE old == nodeReplicas[addr]
             new == check.new
             keys0 == KeysWithout(keys, addr, old)
             hashMap0 == OwnersWithout(hashMap, addr, old)
  <2>0. old \in 0..MaxReplicas /\ new \in Replicas /\ new \in 0..MaxReplicas
    BY <1>0, <1>r DEF CheckType
  <2>1. /\ keys' = KeysWith(keys0, addr, new) /\ hashMap' = OwnersWith(hashMap0, addr, new)
        /\ nodeReplicas' = [nodeReplicas EXCEPT ![addr] = new]
        /\ nodeCounts' = [nodeCounts EXCEPT ![addr] = 0]
        /\ role' = role /\ replaced' = replaced
    BY <1>3 DEF CheckMoves, Rebalanced
  <2>2. check' \in CheckType
    BY <1>0, <1>3, <1>r DEF CheckMoves, CheckType
  <2> HIDE DEF new
  <2>3. keys0 \in Rings /\ hashMap0 \in OwnerMaps /\ (~replaced => OwnersOnRing(keys0, hashMap0))
    BY <1>0, <2>0, WithTypes, OnRingKept
  <2> HIDE DEF keys0, hashMap0
  <2>4. keys' \in Rings /\ hashMap' \in OwnerMaps
        /\ (~replaced => OwnersOnRing(keys', hashMap'))
    BY <2>0, <2>1, <2>3, WithTypes, OnRingKept
  <2> QED BY <1>0, <2>0, <2>1, <2>2, <2>4
<1>4. ASSUME NEW addr \in Addrs, CheckKeeps(addr) PROVE Typed
  <2>1. check' \in CheckType
    BY <1>0, <1>4 DEF CheckKeeps, CheckType
  <2> QED BY <1>0, <1>4, <2>1 DEF CheckKeeps
<1>d. ASSUME NEW addr \in Addrs, CheckDecides(addr) PROVE Typed
  <2>1. Moved(nodeReplicas[addr], TooMany(addr)) \in Replicas
    BY <1>0, MovedInRange DEF Replicas
  <2>2. check' \in CheckType
    BY <1>0, <1>d, <2>1 DEF CheckDecides, CheckType
  <2> QED BY <1>0, <1>d, <2>2 DEF CheckDecides
<1>5. ASSUME NEW addr \in Addrs, NEW count \in Counts, ReceiveCount(addr, count) PROVE Typed
  <2>1. nodeCounts' \in [Addrs -> Nat \cup {NoCount}] /\ check' \in CheckType
    BY <1>0, <1>5, <1>t, HashRingAssumption DEF ReceiveCount
  <2> QED BY <1>0, <1>5, <2>1 DEF ReceiveCount
<1>6. ASSUME NEW snapshot \in Snapshots, ReceiveSnapshot(snapshot) PROVE Typed
  <2>1. snapshot.keys \in Rings /\ snapshot.owners \in OwnerMaps
    BY HashRingAssumption DEF Rings, OwnerMaps
  <2>2. keys' = snapshot.keys /\ hashMap' = snapshot.owners /\ replaced' = TRUE
    BY <1>6 DEF ReceiveSnapshot
  <2> QED BY <1>0, <1>6, <2>1, <2>2 DEF ReceiveSnapshot
<1>p. ASSUME CheckPanics PROVE Typed
  <2>1. keys' \in Rings /\ hashMap' \in OwnerMaps /\ OwnersOnRing(keys', hashMap')
    BY <1>p DEF CheckPanics, Rings, OwnerMaps, OwnersOnRing
  <2>2. nodeReplicas' \in [Addrs -> Replicas]
    BY <1>r, <1>p DEF CheckPanics
  <2> QED BY <1>0, <1>p, <2>1, <2>2 DEF CheckPanics
<1>7. ASSUME CheckStart PROVE Typed
  <2> DEFINE avg == FoldFunctionOnSet(+, 0, nodeCounts, Counted) \div Cardinality(Counted)
  <2>1. avg \in Nat
    BY <1>0, <1>7, AverageIsNat DEF CheckStart
  <2>2. check' = [NoCheck EXCEPT !.on = TRUE, !.avg = avg, !.must = Counted, !.open = Counted]
    BY <1>7 DEF CheckStart
  <2> HIDE DEF avg
  <2>3. Counted \in SUBSET Addrs
    BY DEF Counted
  <2>4. check' \in CheckType
    BY <1>t, <2>1, <2>2, <2>3 DEF CheckType
  <2> QED BY <1>0, <1>7, <2>4 DEF CheckStart
<1>8. ASSUME CheckEnd PROVE Typed
  BY <1>0, <1>8, <1>t DEF CheckEnd
<1>9. ASSUME Elected \/ CampaignFails \/ SessionLost \/ Launch PROVE Typed
  BY <1>0, <1>9 DEF Elected, CampaignFails, SessionLost, Launch
<1>10. ASSUME UNCHANGED vars PROVE Typed
  BY <1>0, <1>10 DEF vars
<1>11. Typed
  <2> HIDE DEF Typed
  <2> QED BY <1>1, <1>2, <1>3, <1>4, <1>5, <1>6, <1>7, <1>8, <1>9, <1>10, <1>d, <1>p DEF Next
<1> QED BY <1>u, <1>11

(* Whatever collides and whatever snapshots bring, torn ones too: until one   *)
(* comes, an owner hashMap names is on the ring, where a lookup finds it,     *)
(* replica counts stay within their bounds, also what a pass has decided, and *)
(* the average of a pass is a number (lines 400-456, 529-582).                *)
THEOREM TypeCorrect == Spec => []TypeOK
BY InitTypeOK, NextTypeOK, PTL DEF Spec

-----------------------------------------------------------------------------
(* A node of the ring is counted, so that the division of checkAndRebalance   *)
(* panics only where no node is known (con_hash.go, lines 412, 454, 529,      *)
(* 569-582).                                                                  *)
THEOREM NodesCountedHolds == Spec => []NodesCounted
<1>1. Init => NodesCounted
  BY DEF Init, NodesCounted
<1>2. TypeOK /\ NodesCounted /\ [Next]_vars => NodesCounted'
  <2> SUFFICES ASSUME TypeOK, NodesCounted, [Next]_vars PROVE NodesCounted'
    OBVIOUS
  <2> USE HashRingAssumption
  <2>0. nodeReplicas \in [Addrs -> Replicas] /\ nodeCounts \in [Addrs -> Nat \cup {NoCount}]
    BY DEF TypeOK
  <2>1. ASSUME NEW addr \in Addrs, Add(addr) \/ Remove(addr) PROVE NodesCounted'
    BY <2>0, <2>1 DEF Add, Remove, NodesCounted
  <2>2. ASSUME NEW addr \in Addrs, CheckMoves(addr) PROVE NodesCounted'
    BY <2>0, <2>2 DEF CheckMoves, Rebalanced, NodesCounted
  <2>3. ASSUME NEW addr \in Addrs, NEW count \in Counts, ReceiveCount(addr, count)
        PROVE  NodesCounted'
    BY <2>0, <2>3 DEF ReceiveCount, NodesCounted
  <2>4. ASSUME CheckPanics PROVE NodesCounted'
    BY <2>4 DEF CheckPanics, NodesCounted
  <2>5. ASSUME UNCHANGED <<nodeReplicas, nodeCounts>> PROVE NodesCounted'
    BY <2>5 DEF NodesCounted
  <2> QED
    BY <2>1, <2>2, <2>3, <2>4, <2>5
    DEF Next, vars, Elected, CampaignFails, SessionLost, Launch, ReceiveSnapshot, CheckStart,
        CheckKeeps, CheckDecides, CheckEnd
<1> QED BY <1>1, <1>2, TypeCorrect, PTL DEF Spec

-----------------------------------------------------------------------------
LEMMA MatchesIsRing == RingMatchesReplicas <=> (~replaced => Matches(keys, hashMap, nodeReplicas))
BY DEF RingMatchesReplicas, Matches

\* What TypeOK says of the ring, in the terms of RingProofs.
LEMMA RingTypes ==
  ASSUME TypeOK
  PROVE  /\ keys \in Rings /\ hashMap \in OwnerMaps /\ nodeReplicas \in [Addrs -> Replicas]
         /\ check.new \in Replicas /\ 0 \in Replicas /\ DefaultReplicas \in Replicas
         /\ \A n \in Replicas : n \in 0..MaxReplicas
<1>1. check.new \in Replicas
  BY DEF TypeOK
<1>2. 0 \in Replicas /\ DefaultReplicas \in Replicas
  BY RingAssumption DEF Replicas
<1> QED BY <1>1, <1>2, ReplicasInRange DEF TypeOK, Rings, OwnerMaps

\* The ring of no nodes.
LEMMA NothingMatches ==
  ASSUME keys = [pos \in Positions |-> 0], hashMap = [pos \in Positions |-> NoAddr],
         nodeReplicas = [addr \in Addrs |-> 0]
  PROVE  RingMatchesReplicas
BY PositionsAreNat, RingAssumption DEF RingMatchesReplicas

LEMMA AddStep ==
  ASSUME DistinctPlaces, TypeOK, RingMatchesReplicas, NEW addr \in Addrs, Add(addr)
  PROVE  RingMatchesReplicas'
<1>1. /\ keys' = KeysWith(keys, addr, DefaultReplicas)
      /\ hashMap' = OwnersWith(hashMap, addr, DefaultReplicas)
      /\ nodeReplicas' = [nodeReplicas EXCEPT ![addr] = DefaultReplicas]
      /\ nodeReplicas[addr] = 0 /\ replaced' = replaced
  BY DEF Add
<1>2. ~replaced' => Matches(keys', hashMap', nodeReplicas')
  BY <1>1, RingTypes, MatchesIsRing, MatchesWith
<1> QED BY <1>2 DEF RingMatchesReplicas, Matches

LEMMA RemoveStep ==
  ASSUME DistinctPlaces, TypeOK, RingMatchesReplicas, NEW addr \in Addrs, Remove(addr)
  PROVE  RingMatchesReplicas'
<1>1. /\ keys' = KeysWithout(keys, addr, nodeReplicas[addr])
      /\ hashMap' = OwnersWithout(hashMap, addr, nodeReplicas[addr])
      /\ nodeReplicas' = [nodeReplicas EXCEPT ![addr] = 0]
      /\ replaced' = replaced
  BY DEF Remove
<1>2. ~replaced' => Matches(keys', hashMap', nodeReplicas')
  BY <1>1, RingTypes, MatchesIsRing, MatchesWithout
<1> QED BY <1>2 DEF RingMatchesReplicas, Matches

\* A rebalanced node is taken out as it is now, and put back with the count that
\* the pass decided on before.
LEMMA CheckMovesStep ==
  ASSUME DistinctPlaces, TypeOK, RingMatchesReplicas, NEW addr \in Addrs, CheckMoves(addr)
  PROVE  /\ RingMatchesReplicas'
         /\ \A other \in Addrs \ {addr} : nodeReplicas'[other] = nodeReplicas[other]
<1> DEFINE old == nodeReplicas[addr]
           new == check.new
           keys0 == KeysWithout(keys, addr, old)
           hashMap0 == OwnersWithout(hashMap, addr, old)
           replicas0 == [nodeReplicas EXCEPT ![addr] = 0]
<1>1. old \in 0..MaxReplicas /\ new \in Replicas /\ 0 \in Replicas
  BY RingTypes
<1>2. /\ keys' = KeysWith(keys0, addr, new) /\ hashMap' = OwnersWith(hashMap0, addr, new)
      /\ nodeReplicas' = [nodeReplicas EXCEPT ![addr] = new]
      /\ replaced' = replaced
  BY DEF CheckMoves, Rebalanced
<1>3. keys0 \in Rings /\ hashMap0 \in OwnerMaps
  BY <1>1, RingTypes, WithTypes
<1>4. /\ replicas0 \in [Addrs -> Replicas] /\ replicas0[addr] = 0
      /\ [replicas0 EXCEPT ![addr] = new] = [nodeReplicas EXCEPT ![addr] = new]
  BY <1>1, RingTypes
<1>5. ~replaced => Matches(keys0, hashMap0, replicas0)
  BY RingTypes, MatchesIsRing, MatchesWithout
<1>6. \A other \in Addrs \ {addr} : nodeReplicas'[other] = nodeReplicas[other]
  BY <1>2, RingTypes
<1> HIDE DEF old, new, keys0, hashMap0, replicas0
<1>7. ~replaced => Matches(KeysWith(keys0, addr, new), OwnersWith(hashMap0, addr, new),
                           [replicas0 EXCEPT ![addr] = new])
  BY <1>1, <1>3, <1>4, <1>5, MatchesWith
<1>8. RingMatchesReplicas'
  BY <1>2, <1>4, <1>7 DEF RingMatchesReplicas, Matches
<1> QED BY <1>6, <1>8

LEMMA NextRing == DistinctPlaces => (TypeOK /\ RingMatchesReplicas /\ [Next]_vars => RingMatchesReplicas')
<1> SUFFICES ASSUME DistinctPlaces, TypeOK, RingMatchesReplicas, [Next]_vars PROVE RingMatchesReplicas'
  OBVIOUS
<1>1. ASSUME NEW snapshot \in Snapshots, ReceiveSnapshot(snapshot) PROVE RingMatchesReplicas'
  BY <1>1 DEF ReceiveSnapshot, RingMatchesReplicas
<1>2. ASSUME CheckPanics PROVE RingMatchesReplicas'
  <2>1. /\ keys' = [pos \in Positions |-> 0] /\ hashMap' = [pos \in Positions |-> NoAddr]
        /\ nodeReplicas' = [addr \in Addrs |-> 0]
    BY <1>2 DEF CheckPanics
  <2> QED BY <2>1, PositionsAreNat, RingAssumption DEF RingMatchesReplicas
<1>3. ASSUME UNCHANGED <<keys, hashMap, nodeReplicas, replaced>> PROVE RingMatchesReplicas'
  BY <1>3 DEF RingMatchesReplicas
<1> QED
  BY <1>1, <1>2, <1>3, AddStep, RemoveStep, CheckMovesStep
  DEF Next, vars, Elected, CampaignFails, SessionLost, Launch, ReceiveCount, CheckStart,
      CheckKeeps, CheckDecides, CheckEnd

(* Without collisions, and until a snapshot comes, the ring holds exactly the *)
(* virtual nodes that nodeReplicas names (con_hash.go, 384-456, 534-582).     *)
THEOREM RingMatchesReplicasHolds == DistinctPlaces => (Spec => []RingMatchesReplicas)
<1> SUFFICES ASSUME DistinctPlaces PROVE Spec => []RingMatchesReplicas
  OBVIOUS
<1>1. Init => RingMatchesReplicas
  BY NothingMatches DEF Init
<1>2. TypeOK /\ RingMatchesReplicas /\ [Next]_vars => RingMatchesReplicas'
  BY NextRing
<1> QED BY <1>1, <1>2, TypeCorrect, PTL DEF Spec

\* What OnlyItsKeysMove says of one step.
LEMMA StepMovesItsKeys ==
  ASSUME DistinctPlaces, TypeOK, TypeOK', RingMatchesReplicas, RingMatchesReplicas', ~replaced,
         NEW addr \in Addrs,
         Add(addr) \/ Remove(addr) \/ CheckMoves(addr), NEW hash \in Hashes
  PROVE  Owner(hash)' # Owner(hash) => addr \in {Owner(hash), Owner(hash)'}
<1>1. /\ keys \in Rings /\ hashMap \in OwnerMaps /\ nodeReplicas \in [Addrs -> Replicas]
      /\ Matches(keys, hashMap, nodeReplicas)
  BY RingTypes, MatchesIsRing
<1>2. replaced' = replaced
  BY DEF Add, Remove, CheckMoves
<1>3. keys' \in Rings /\ hashMap' \in OwnerMaps /\ Matches(keys', hashMap', nodeReplicas')
  BY <1>2 DEF TypeOK, Rings, OwnerMaps, RingMatchesReplicas, Matches
<1>4. \A other \in Addrs \ {addr} : nodeReplicas'[other] = nodeReplicas[other]
  BY <1>1, CheckMovesStep DEF Add, Remove
<1>5. hash \in Nat
  BY PositionsAreNat DEF Hashes
<1>6. /\ Owner(hash) = OwnerIn(keys, hashMap, hash)
      /\ Owner(hash)' = OwnerIn(keys', hashMap', hash)
  BY DEF Owner
<1>7. OwnerIn(keys, hashMap, hash) # addr /\ OwnerIn(keys', hashMap', hash) # addr
        => OwnerIn(keys, hashMap, hash) = OwnerIn(keys', hashMap', hash)
  BY <1>1, <1>3, <1>4, <1>5, OneNodeMoves
<1> QED BY <1>6, <1>7

(* What consistent hashing promises, for any nodes and replica counts: one    *)
(* that joins, leaves or is rebalanced moves keys only to or from itself      *)
(* (con_hash.go, lines 400-456, 482-508, 569-582).                            *)
THEOREM OnlyItsKeysMoveHolds == DistinctPlaces => (Spec => OnlyItsKeysMove)
<1> SUFFICES ASSUME DistinctPlaces PROVE Spec => OnlyItsKeysMove
  OBVIOUS
<1> DEFINE Moves == ~replaced =>
                      \A addr \in Addrs :
                        Add(addr) \/ Remove(addr) \/ CheckMoves(addr) =>
                          \A hash \in Hashes :
                            Owner(hash)' # Owner(hash) => addr \in {Owner(hash), Owner(hash)'}
<1>1. Spec => []RingMatchesReplicas
  BY RingMatchesReplicasHolds
<1>2. TypeOK /\ TypeOK' /\ RingMatchesReplicas /\ RingMatchesReplicas' => Moves
  BY StepMovesItsKeys
<1> HIDE DEF Moves
<1>3. Spec => [][Moves]_vars
  BY <1>1, <1>2, TypeCorrect, PTL DEF Spec
<1> QED BY <1>3 DEF Moves, OnlyItsKeysMove
=============================================================================
