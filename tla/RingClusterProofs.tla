--------------------------- MODULE RingClusterProofs ---------------------------
(* For any nodes, elections, crashes and snapshots, torn ones included: who   *)
(* may lead has an exact ring, and followers that are up to date agree.       *)
EXTENDS RingCluster, RingProofs, SequenceTheorems

LEMMA NodesAreAddrs == Nodes \subseteq Addrs /\ Uneven \subseteq Addrs /\ NoAddr \notin Nodes
BY ClusterAssumption, RingAssumption

LEMMA WithType ==
  ASSUME NEW r \in RingType, NEW addr \in Addrs, NEW n \in Replicas
  PROVE  With(r, addr, n) \in RingType
<1>1. KeysWith(r.keys, addr, n) \in Rings /\ OwnersWith(r.owners, addr, n) \in OwnerMaps
  BY WithTypes, ReplicasInRange DEF RingType, Rings, OwnerMaps
<1> QED BY <1>1 DEF With, RingType, Rings, OwnerMaps

LEMMA WithoutType ==
  ASSUME NEW r \in RingType, NEW addr \in Addrs
  PROVE  Without(r, addr) \in RingType /\ Without(r, addr).replicas[addr] = 0
<1>1. r.replicas[addr] \in 0..MaxReplicas /\ 0 \in Replicas
  BY ReplicasInRange DEF RingType, Replicas
<1>2. /\ KeysWithout(r.keys, addr, r.replicas[addr]) \in Rings
      /\ OwnersWithout(r.owners, addr, r.replicas[addr]) \in OwnerMaps
  BY <1>1, WithTypes DEF RingType, Rings, OwnerMaps
<1> QED BY <1>1, <1>2 DEF Without, RingType, Rings, OwnerMaps

LEMMA EmptyType ==
  /\ EmptyRing \in RingType
  /\ NoSync \in [at : {"none", "pass", "encode", "put"}, keys : [Positions -> Nat],
                 owners : [Positions -> Addrs \cup {NoAddr}]]
  /\ [keys |-> EmptyRing.keys, owners |-> EmptyRing.owners] \in Snapshot
<1>1. 0 \in Replicas
  BY DEF Replicas
<1> QED BY <1>1 DEF EmptyRing, RingType, NoSync, Snapshot

LEMMA InReplicas ==
  DefaultReplicas \in Replicas /\ MinReplicas..MaxReplicas \subseteq Replicas
BY RingAssumption DEF Replicas

LEMMA InitTypeOK == Init => TypeOK
BY EmptyType, NodesAreAddrs, ClusterAssumption DEF Init, TypeOK

\* What a step of one node that leaves the rest of the ring alone does.
LEMMA ChangedType ==
  ASSUME TypeOK, NEW n \in Nodes, NEW r \in RingType, Changed(n, r)
  PROVE  ring' \in [Nodes -> RingType] /\ taken' \in [Nodes -> BOOLEAN]
BY DEF TypeOK, Changed

LEMMA NextTypeOK == TypeOK /\ [Next]_vars => TypeOK'
<1> SUFFICES ASSUME TypeOK, [Next]_vars PROVE TypeOK'
  OBVIOUS
<1> DEFINE SyncType == [at : {"none", "pass", "encode", "put"}, keys : [Positions -> Nat],
                        owners : [Positions -> Addrs \cup {NoAddr}]]
           Roles == {"candidate", "leader", "follower", "deaf", "out", "down"}
<1>0. /\ ring \in [Nodes -> RingType] /\ role \in [Nodes -> Roles]
      /\ sync \in [Nodes -> SyncType] /\ elected \in Nodes \cup {NoAddr}
      /\ published \in Snapshot /\ inbox \in [Nodes -> Seq(Snapshot)]
      /\ passes \in 0..MaxPasses
      /\ \A n \in Nodes : inbox[n] # <<>> => role[n] = "follower"
      /\ taken \in [Nodes -> BOOLEAN]
  BY DEF TypeOK
<1>1. ASSUME NEW n \in Nodes, Start(n) PROVE TypeOK'
  <2>1. ring' \in [Nodes -> RingType] /\ taken' \in [Nodes -> BOOLEAN]
    BY <1>1, ChangedType, WithType, EmptyType, InReplicas, NodesAreAddrs DEF Start
  <2> QED BY <1>0, <1>1, <2>1 DEF Start, TypeOK
<1>2. ASSUME NEW n \in Nodes, Crash(n) PROVE TypeOK'
  <2>1. ring' \in [Nodes -> RingType] /\ sync' \in [Nodes -> SyncType]
    BY <1>0, <1>2, EmptyType DEF Crash
  <2>2. inbox' \in [Nodes -> Seq(Snapshot)] /\ inbox'[n] = <<>>
        /\ \A other \in Nodes : other # n => inbox'[other] = inbox[other]
    BY <1>0, <1>2 DEF Crash
  <2> QED BY <1>0, <1>2, <2>1, <2>2 DEF Crash, TypeOK
<1>3. ASSUME NEW n \in Nodes, NEW addr \in Addrs, Add(n, addr) \/ Remove(n, addr) PROVE TypeOK'
  <2>0. ring[n] \in RingType
    BY <1>0
  <2>1. ring' \in [Nodes -> RingType] /\ taken' \in [Nodes -> BOOLEAN]
    BY <1>3, <2>0, ChangedType, WithType, WithoutType, InReplicas DEF Add, Remove
  <2> QED BY <1>0, <1>3, <2>1 DEF Add, Remove, TypeOK
<1>4. ASSUME NEW n \in Nodes, NEW addr \in Uneven, NEW new \in MinReplicas..MaxReplicas,
             PassMoves(n, addr, new)
      PROVE  TypeOK'
  <2>0. ring[n] \in RingType /\ addr \in Addrs /\ new \in Replicas
    BY <1>0, InReplicas, NodesAreAddrs
  <2>1. ring' \in [Nodes -> RingType] /\ taken' \in [Nodes -> BOOLEAN]
    BY <1>4, <2>0, ChangedType, WithType, WithoutType DEF PassMoves
  <2>2. sync' \in [Nodes -> SyncType]
    BY <1>0, <1>4 DEF PassMoves
  <2>3. passes' \in 0..MaxPasses
    BY <1>0, <1>4, ClusterAssumption DEF PassMoves
  <2> QED BY <1>0, <1>4, <2>1, <2>2, <2>3 DEF PassMoves, TypeOK
<1>5. ASSUME NEW n \in Nodes, Elected(n) \/ CampaignFails(n) \/ Retire(n) \/ NoSession(n)
      PROVE  TypeOK'
  <2>1. UNCHANGED <<ring, sync, published, passes, inbox, taken>> /\ elected' \in Nodes \cup {NoAddr}
    BY <1>0, <1>5 DEF Elected, CampaignFails, Retire, NoSession
  <2>2. role' \in [Nodes -> Roles] /\ \A other \in Nodes : role[other] = "follower" => role'[other] = "follower"
    BY <1>0, <1>5 DEF Elected, CampaignFails, Retire, NoSession
  <2> QED BY <1>0, <2>1, <2>2 DEF TypeOK
<1>6. ASSUME NEW n \in Nodes, WatchEnds(n) PROVE TypeOK'
  <2>2. inbox' \in [Nodes -> Seq(Snapshot)] /\ inbox'[n] = <<>>
        /\ \A other \in Nodes : other # n => inbox'[other] = inbox[other]
    BY <1>0, <1>6 DEF WatchEnds
  <2> QED BY <1>0, <1>6, <2>2 DEF WatchEnds, TypeOK
<1>7. ASSUME NEW n \in Nodes, Sync(n) \/ Encode(n) PROVE TypeOK'
  <2>1. ring[n].keys \in [Positions -> Nat] /\ ring[n].owners \in [Positions -> Addrs \cup {NoAddr}]
        /\ sync[n] \in SyncType
    BY <1>0 DEF RingType
  <2>2. CASE Sync(n)
    <3>1. sync' = [sync EXCEPT ![n] = [sync[n] EXCEPT !.at = "encode", !.keys = ring[n].keys]]
      BY <1>0, <2>2 DEF Sync
    <3>2. [sync[n] EXCEPT !.at = "encode", !.keys = ring[n].keys] \in SyncType
      BY <2>1
    <3>3. sync' \in [Nodes -> SyncType]
      BY <1>0, <3>1, <3>2
    <3> QED BY <1>0, <2>2, <3>3 DEF Sync, TypeOK
  <2>3. CASE Encode(n)
    <3>1. PICK keys \in {sync[n].keys, ring[n].keys} :
            sync' = [sync EXCEPT ![n] = [at |-> "put", keys |-> keys, owners |-> ring[n].owners]]
      BY <2>3 DEF Encode
    <3>2. [at |-> "put", keys |-> keys, owners |-> ring[n].owners] \in SyncType
      BY <2>1
    <3>3. sync' \in [Nodes -> SyncType]
      BY <1>0, <3>1, <3>2
    <3> QED BY <1>0, <2>3, <3>3 DEF Encode, TypeOK
  <2> QED BY <1>7, <2>2, <2>3
<1>8. ASSUME NEW n \in Nodes, Publish(n) PROVE TypeOK'
  <2> DEFINE snapshot == [keys |-> sync[n].keys, owners |-> sync[n].owners]
  <2>1. snapshot \in Snapshot
    BY <1>0 DEF Snapshot
  <2>2. /\ published' = snapshot
        /\ inbox' = [other \in Nodes |-> IF role[other] = "follower"
                                         THEN Append(inbox[other], snapshot) ELSE inbox[other]]
        /\ sync' = [sync EXCEPT ![n] = NoSync] /\ UNCHANGED <<ring, role, elected, passes, taken>>
    BY <1>8 DEF Publish
  <2> HIDE DEF snapshot
  <2>3. inbox' \in [Nodes -> Seq(Snapshot)]
    BY <1>0, <2>1, <2>2
  <2>4. ASSUME NEW other \in Nodes, inbox'[other] # <<>>
        PROVE  role'[other] = "follower"
    BY <1>0, <2>1, <2>2, <2>4
  <2>5. sync' \in [Nodes -> SyncType]
    BY <1>0, <2>2, EmptyType
  <2> QED BY <1>0, <2>1, <2>2, <2>3, <2>4, <2>5 DEF TypeOK
<1>9. ASSUME NEW n \in Nodes, PublishFails(n) PROVE TypeOK'
  <2>1. sync' \in [Nodes -> SyncType]
    BY <1>0, <1>9, EmptyType DEF PublishFails
  <2> QED BY <1>0, <1>9, <2>1 DEF PublishFails, TypeOK
<1>10. ASSUME NEW n \in Nodes, Take(n) PROVE TypeOK'
  <2>1. /\ inbox[n] \in Seq(Snapshot) /\ inbox[n] # <<>> /\ Head(inbox[n]) \in Snapshot
        /\ Tail(inbox[n]) \in Seq(Snapshot)
    BY <1>0, <1>10 DEF Take
  <2>2. [ring[n] EXCEPT !.keys = Head(inbox[n]).keys, !.owners = Head(inbox[n]).owners] \in RingType
    <3> DEFINE head == Head(inbox[n])
    <3>1. head.keys \in [Positions -> Nat] /\ head.owners \in [Positions -> Addrs \cup {NoAddr}]
      BY <2>1 DEF Snapshot
    <3>2. ring[n] \in RingType
      BY <1>0
    <3> HIDE DEF head
    <3>3. [ring[n] EXCEPT !.keys = head.keys, !.owners = head.owners] \in RingType
      BY <3>1, <3>2 DEF RingType
    <3> QED BY <3>3 DEF head
  <2>3. ring' = [ring EXCEPT ![n] = [ring[n] EXCEPT !.keys = Head(inbox[n]).keys,
                                                    !.owners = Head(inbox[n]).owners]]
    BY <1>0, <1>10 DEF Take
  <2>4. ring' \in [Nodes -> RingType]
    BY <1>0, <2>2, <2>3
  <2>5. inbox' \in [Nodes -> Seq(Snapshot)] /\ inbox'[n] = Tail(inbox[n])
        /\ \A other \in Nodes : other # n => inbox'[other] = inbox[other]
    BY <1>0, <1>10, <2>1 DEF Take
  <2>6. role[n] = "follower"
    BY <1>10 DEF Take
  <2> QED BY <1>0, <1>10, <2>4, <2>5, <2>6 DEF Take, TypeOK
<1>11. CASE UNCHANGED vars
  BY <1>0, <1>11 DEF vars, TypeOK
<1>12. ASSUME SessionExpires PROVE TypeOK'
  BY <1>0, <1>12 DEF SessionExpires, TypeOK
<1> QED BY <1>1, <1>2, <1>3, <1>4, <1>5, <1>6, <1>7, <1>8, <1>9, <1>10, <1>11, <1>12 DEF Next

(* The state of a cluster has its type: a node without a watch of the         *)
(* snapshots has none to deliver (con_hash.go, lines 185-250, 336-353).       *)
THEOREM TypeCorrect == Spec => []TypeOK
BY InitTypeOK, NextTypeOK, PTL DEF Spec

-----------------------------------------------------------------------------
\* The last snapshot that waits, or else the ring, is what is in etcd.
AgreeIInv ==
  \A n \in Nodes :
    /\ taken[n] => role[n] \in {"follower", "deaf"}
    /\ role[n] = "follower" /\ inbox[n] # <<>> => inbox[n][Len(inbox[n])] = published
    /\ role[n] = "follower" /\ taken[n] /\ inbox[n] = <<>> =>
         ring[n].keys = published.keys /\ ring[n].owners = published.owners

\* What waits after the first snapshot is taken.
LEMMA TailOf ==
  ASSUME NEW S, NEW s \in Seq(S), s # <<>>
  PROVE  /\ Len(s) = 1 => Tail(s) = <<>> /\ Head(s) = s[Len(s)]
         /\ Len(s) # 1 => Tail(s) # <<>> /\ Tail(s)[Len(Tail(s))] = s[Len(s)]
<1>1. Len(s) \in Nat /\ Len(s) # 0 /\ Head(s) = s[1]
  BY EmptySeq, SMT
<1>2. /\ Tail(s) \in Seq(S) /\ Len(Tail(s)) = Len(s) - 1
      /\ \A i \in 1..Len(Tail(s)) : Tail(s)[i] = s[i+1]
  BY HeadTailProperties
<1>3. Len(Tail(s)) = 0 <=> Tail(s) = <<>>
  BY <1>2, EmptySeq
<1> DEFINE n == Len(s)
           tail == Tail(s)
<1> HIDE DEF n, tail
<1>4. CASE n = 1
  BY <1>1, <1>2, <1>3, <1>4 DEF n, tail
<1>5. CASE n # 1
  <2>1. n \in Nat /\ n # 0 /\ Len(tail) = n - 1
    BY <1>1, <1>2 DEF n, tail
  <2>2. n - 1 \in 1..Len(tail) /\ (n - 1) + 1 = n
    BY <1>5, <2>1
  <2>3. tail[n - 1] = s[n]
    BY <1>2, <2>2 DEF tail
  <2>4. Len(tail) # 0
    BY <2>1, <2>2
  <2> QED BY <1>3, <1>5, <2>1, <2>3, <2>4 DEF n, tail
<1> QED BY <1>4, <1>5 DEF n

LEMMA NextAgreeIInv == TypeOK /\ AgreeIInv /\ [Next]_vars => AgreeIInv'
<1> SUFFICES ASSUME TypeOK, AgreeIInv, [Next]_vars PROVE AgreeIInv'
  OBVIOUS
<1>0. /\ ring \in [Nodes -> RingType]
      /\ role \in [Nodes -> {"candidate", "leader", "follower", "deaf", "out", "down"}]
      /\ inbox \in [Nodes -> Seq(Snapshot)] /\ taken \in [Nodes -> BOOLEAN]
      /\ \A n \in Nodes : inbox[n] # <<>> => role[n] = "follower"
  BY DEF TypeOK
<1>1. ASSUME NEW n \in Nodes, UNCHANGED published,
             \A other \in Nodes \ {n} : /\ ring'[other] = ring[other] /\ role'[other] = role[other]
                                       /\ inbox'[other] = inbox[other] /\ taken'[other] = taken[other],
             ~taken'[n], role'[n] = "follower" => inbox'[n] = inbox[n],
             role'[n] = "follower" => role[n] = "follower" \/ inbox[n] = <<>>
      PROVE  AgreeIInv'
  BY <1>1 DEF AgreeIInv
<1>2. ASSUME NEW n \in Nodes, Start(n) \/ Crash(n) PROVE AgreeIInv'
  BY <1>0, <1>1, <1>2 DEF Start, Crash, Changed
<1>3. ASSUME NEW n \in Nodes, NEW addr \in Addrs, Add(n, addr) \/ Remove(n, addr) PROVE AgreeIInv'
  <2>1. \E r : ring' = [ring EXCEPT ![n] = r]
    BY <1>3 DEF Add, Remove, Changed
  <2>2. taken' = [taken EXCEPT ![n] = FALSE] /\ UNCHANGED <<role, published, inbox>>
    BY <1>3 DEF Add, Remove, Changed
  <2> QED BY <1>0, <1>1, <2>1, <2>2
<1>4. ASSUME NEW n \in Nodes, NEW addr \in Uneven, NEW new \in MinReplicas..MaxReplicas,
             PassMoves(n, addr, new)
      PROVE  AgreeIInv'
  <2>1. \E r : ring' = [ring EXCEPT ![n] = r]
    BY <1>4 DEF PassMoves, Changed
  <2>2. taken' = [taken EXCEPT ![n] = FALSE] /\ UNCHANGED <<role, published, inbox>>
    BY <1>4 DEF PassMoves, Changed
  <2> QED BY <1>0, <1>1, <2>1, <2>2
<1>5. ASSUME NEW n \in Nodes, Elected(n) \/ CampaignFails(n) \/ Retire(n) \/ NoSession(n)
      PROVE  AgreeIInv'
  <2>1. role[n] \in {"candidate", "leader"} /\ UNCHANGED <<ring, published, inbox, taken>>
    BY <1>5 DEF Elected, CampaignFails, Retire, NoSession
  <2>2. \A other \in Nodes \ {n} : role'[other] = role[other]
    BY <1>0, <1>5 DEF Elected, CampaignFails, Retire, NoSession
  <2>3. ~taken[n] /\ inbox[n] = <<>>
    BY <1>0, <2>1 DEF AgreeIInv
  <2> QED BY <1>1, <2>1, <2>2, <2>3
<1>6. ASSUME NEW n \in Nodes, WatchEnds(n) PROVE AgreeIInv'
  BY <1>0, <1>6 DEF WatchEnds, AgreeIInv
<1>7. ASSUME NEW n \in Nodes, Sync(n) \/ Encode(n) \/ PublishFails(n) PROVE AgreeIInv'
  <2>1. UNCHANGED <<ring, role, published, inbox, taken>>
    BY <1>7 DEF Sync, Encode, PublishFails
  <2> QED BY <2>1 DEF AgreeIInv
<1>8. ASSUME NEW n \in Nodes, Publish(n) PROVE AgreeIInv'
  <2>1. UNCHANGED <<ring, role, taken>> /\ published' \in Snapshot
    BY <1>8, NextTypeOK DEF Publish, TypeOK
  <2>2. \A other \in Nodes : role[other] = "follower" => inbox'[other] = Append(inbox[other], published')
    BY <1>8 DEF Publish
  <2>3. ASSUME NEW other \in Nodes, role[other] = "follower"
        PROVE  inbox'[other] # <<>> /\ inbox'[other][Len(inbox'[other])] = published'
    <3>1. inbox[other] \in Seq(Snapshot) /\ inbox'[other] = Append(inbox[other], published')
      BY <1>0, <2>2, <2>3
    <3> QED BY <2>1, <3>1
  <2> QED BY <2>1, <2>3 DEF AgreeIInv
<1>9. ASSUME NEW n \in Nodes, Take(n) PROVE AgreeIInv'
  <2>1. /\ role[n] = "follower" /\ inbox[n] # <<>> /\ UNCHANGED <<role, published>>
        /\ inbox'[n] = Tail(inbox[n]) /\ ring'[n].keys = Head(inbox[n]).keys
        /\ ring'[n].owners = Head(inbox[n]).owners
    BY <1>0, <1>9 DEF Take, RingType
  <2>2. \A other \in Nodes \ {n} : /\ ring'[other] = ring[other]
                                  /\ inbox'[other] = inbox[other] /\ taken'[other] = taken[other]
    BY <1>0, <1>9 DEF Take
  <2>3. inbox[n] \in Seq(Snapshot) /\ inbox[n][Len(inbox[n])] = published
    BY <1>0, <2>1 DEF AgreeIInv
  <2>4. CASE Len(inbox[n]) = 1
    <3>1. Tail(inbox[n]) = <<>> /\ Head(inbox[n]) = published
      BY <2>1, <2>3, <2>4, TailOf
    <3> QED BY <2>1, <2>2, <3>1 DEF AgreeIInv
  <2>5. CASE Len(inbox[n]) # 1
    <3>1. Tail(inbox[n]) # <<>> /\ Tail(inbox[n])[Len(Tail(inbox[n]))] = published
      BY <2>1, <2>3, <2>5, TailOf
    <3> QED BY <2>1, <2>2, <3>1 DEF AgreeIInv
  <2> QED BY <2>4, <2>5
<1>10. CASE SessionExpires
  BY <1>10 DEF SessionExpires, AgreeIInv
<1>11. CASE UNCHANGED vars
  BY <1>11 DEF vars, AgreeIInv
<1> QED BY <1>2, <1>3, <1>4, <1>5, <1>6, <1>7, <1>8, <1>9, <1>10, <1>11 DEF Next

(* Followers that are up to date look keys up alike, whatever the leaders do  *)
(* (con_hash.go, lines 336-353, 362-380).                                     *)
THEOREM FollowersAgreeHolds == Spec => []FollowersAgree
<1>1. Init => AgreeIInv
  BY DEF Init, AgreeIInv
<1>2. AgreeIInv => FollowersAgree
  BY DEF AgreeIInv, FollowersAgree
<1> QED BY <1>1, <1>2, TypeCorrect, NextAgreeIInv, PTL DEF Spec

-----------------------------------------------------------------------------
\* What a node that leads, or may lead again, has; and only such a node passes.
ExactRings ==
  \A n \in Nodes : role[n] \in {"candidate", "leader", "out"} =>
                     Matches(ring[n].keys, ring[n].owners, ring[n].replicas)
PassesByLeaders ==
  \A n \in Nodes : sync[n].at = "pass" => role[n] \in {"candidate", "leader", "out"}

ExactIInv == ExactRings /\ PassesByLeaders

LEMMA EmptyExact == Matches(EmptyRing.keys, EmptyRing.owners, EmptyRing.replicas)
<1>1. /\ \A pos \in Positions : EmptyRing.keys[pos] = 0 /\ EmptyRing.owners[pos] = NoAddr
      /\ \A addr \in Addrs : EmptyRing.replicas[addr] = 0
  BY DEF EmptyRing
<1>2. \A i \in 0..MaxReplicas-1 : ~(i < 0)
  BY RingAssumption
<1> QED BY <1>1, <1>2, PositionsAreNat DEF Matches

\* addNode, and a pass that moves a node, on a ring that is exact.
LEMMA WithExact ==
  ASSUME DistinctPlaces, NEW r \in RingType, Matches(r.keys, r.owners, r.replicas),
         NEW addr \in Addrs, r.replicas[addr] = 0, NEW n \in Replicas
  PROVE  Matches(With(r, addr, n).keys, With(r, addr, n).owners, With(r, addr, n).replicas)
<1>1. r.keys \in Rings /\ r.owners \in OwnerMaps /\ r.replicas \in [Addrs -> Replicas]
  BY DEF RingType, Rings, OwnerMaps
<1>2. Matches(KeysWith(r.keys, addr, n), OwnersWith(r.owners, addr, n), [r.replicas EXCEPT ![addr] = n])
  BY <1>1, MatchesWith
<1> QED BY <1>2 DEF With

LEMMA WithoutExact ==
  ASSUME DistinctPlaces, NEW r \in RingType, Matches(r.keys, r.owners, r.replicas), NEW addr \in Addrs
  PROVE  Matches(Without(r, addr).keys, Without(r, addr).owners, Without(r, addr).replicas)
<1>1. r.keys \in Rings /\ r.owners \in OwnerMaps /\ r.replicas \in [Addrs -> Replicas]
  BY DEF RingType, Rings, OwnerMaps
<1>2. Matches(KeysWithout(r.keys, addr, r.replicas[addr]), OwnersWithout(r.owners, addr, r.replicas[addr]),
              [r.replicas EXCEPT ![addr] = 0])
  BY <1>1, MatchesWithout
<1> QED BY <1>2 DEF Without

LEMMA NextExactIInv == DistinctPlaces => (TypeOK /\ ExactIInv /\ [Next]_vars => ExactIInv')
<1> SUFFICES ASSUME DistinctPlaces, TypeOK, ExactIInv, [Next]_vars PROVE ExactIInv'
  OBVIOUS
<1> DEFINE Exact(r) == Matches(r.keys, r.owners, r.replicas)
           Leads(r) == r \in {"candidate", "leader", "out"}
<1>0. /\ ring \in [Nodes -> RingType] /\ DOMAIN role = Nodes /\ DOMAIN sync = Nodes
      /\ \A n \in Nodes : DOMAIN sync[n] = {"at", "keys", "owners"}
  BY DEF TypeOK
<1>a. /\ \A n \in Nodes : Leads(role[n]) => Exact(ring[n])
      /\ \A n \in Nodes : sync[n].at = "pass" => Leads(role[n])
  BY DEF ExactIInv, ExactRings, PassesByLeaders
\* A step of one node leaves the others as they are.
<1>1. ASSUME NEW n \in Nodes,
             \A other \in Nodes \ {n} : /\ ring'[other] = ring[other] /\ role'[other] = role[other]
                                       /\ sync'[other] = sync[other],
             Leads(role'[n]) => Exact(ring'[n]),
             sync'[n].at = "pass" => Leads(role'[n])
      PROVE  ExactIInv'
  BY <1>a, <1>1 DEF ExactIInv, ExactRings, PassesByLeaders
<1> HIDE DEF Exact, Leads
<1>2. ASSUME NEW n \in Nodes, Start(n) PROVE ExactIInv'
  <2> DEFINE new == With(EmptyRing, n, DefaultReplicas)
  <2>1. Exact(new)
    <3>1. EmptyRing.replicas[n] = 0
      BY NodesAreAddrs DEF EmptyRing
    <3> QED BY <3>1, EmptyExact, EmptyType, InReplicas, NodesAreAddrs, WithExact DEF Exact
  <2>2. /\ ring' = [ring EXCEPT ![n] = new] /\ role' = [role EXCEPT ![n] = "candidate"]
        /\ UNCHANGED sync
    BY <1>2 DEF Start, Changed
  <2> HIDE DEF new
  <2>3. ring'[n] = new /\ Leads(role'[n])
    BY <1>0, <2>2 DEF Leads
  <2> QED BY <1>0, <1>1, <1>a, <2>1, <2>2, <2>3
<1>3. ASSUME NEW n \in Nodes, Crash(n) PROVE ExactIInv'
  <2>1. role'[n] = "down" /\ sync'[n].at = "none"
    BY <1>0, <1>3 DEF Crash, NoSync
  <2>2. \A other \in Nodes \ {n} : /\ ring'[other] = ring[other] /\ role'[other] = role[other]
                                  /\ sync'[other] = sync[other]
    BY <1>0, <1>3 DEF Crash
  <2>3. ~Leads(role'[n])
    BY <2>1 DEF Leads
  <2> QED BY <1>1, <2>1, <2>2, <2>3
<1>4. ASSUME NEW n \in Nodes, NEW addr \in Addrs, Add(n, addr) PROVE ExactIInv'
  <2> DEFINE new == With(ring[n], addr, DefaultReplicas)
  <2>1. Exact(ring[n]) => Exact(new)
    BY <1>0, <1>4, InReplicas, WithExact DEF Exact, Add
  <2>2. ring' = [ring EXCEPT ![n] = new] /\ UNCHANGED <<role, sync>>
    BY <1>4 DEF Add, Changed
  <2> HIDE DEF new
  <2>3. ring'[n] = new
    BY <1>0, <2>2
  <2> QED BY <1>0, <1>1, <1>a, <2>1, <2>2, <2>3
<1>5. ASSUME NEW n \in Nodes, NEW addr \in Addrs, Remove(n, addr) PROVE ExactIInv'
  <2> DEFINE new == Without(ring[n], addr)
  <2>1. Exact(ring[n]) => Exact(new)
    BY <1>0, WithoutExact DEF Exact
  <2>2. ring' = [ring EXCEPT ![n] = new] /\ UNCHANGED <<role, sync>>
    BY <1>5 DEF Remove, Changed
  <2> HIDE DEF new
  <2>3. ring'[n] = new
    BY <1>0, <2>2
  <2> QED BY <1>0, <1>1, <1>a, <2>1, <2>2, <2>3
<1>6. ASSUME NEW n \in Nodes, NEW addr \in Uneven, NEW more \in MinReplicas..MaxReplicas,
             PassMoves(n, addr, more)
      PROVE  ExactIInv'
  <2> DEFINE without == Without(ring[n], addr)
             new == With(without, addr, more)
  <2>1. ring[n] \in RingType /\ addr \in Addrs /\ more \in Replicas
    BY <1>0, InReplicas, NodesAreAddrs
  <2>2. without \in RingType /\ without.replicas[addr] = 0
    BY <2>1, WithoutType
  <2>3. Exact(ring[n]) => Exact(without)
    BY <2>1, WithoutExact DEF Exact
  <2>4. ring' = [ring EXCEPT ![n] = new] /\ UNCHANGED role
    BY <1>6 DEF PassMoves, Changed
  <2>5. sync' = [sync EXCEPT ![n].at = "pass"] /\ (sync[n].at = "pass" \/ role[n] = "leader")
    BY <1>6 DEF PassMoves
  <2> HIDE DEF without
  <2>6. Exact(without) => Exact(new)
    BY <2>1, <2>2, WithExact DEF Exact
  <2> HIDE DEF new
  <2>7. ring'[n] = new /\ sync'[n].at = "pass"
    BY <1>0, <2>4, <2>5
  <2>8. Leads(role[n])
    BY <1>a, <2>5 DEF Leads
  <2>9. \A other \in Nodes \ {n} : ring'[other] = ring[other] /\ sync'[other] = sync[other]
    BY <1>0, <2>4, <2>5
  <2> QED BY <1>1, <1>a, <2>3, <2>4, <2>6, <2>7, <2>8, <2>9
<1>7. ASSUME NEW n \in Nodes, Elected(n) \/ Retire(n) \/ NoSession(n) PROVE ExactIInv'
  <2>1. Leads(role[n]) /\ Leads(role'[n]) /\ UNCHANGED <<ring, sync>>
    BY <1>0, <1>7 DEF Elected, Retire, NoSession, Leads
  <2>2. \A other \in Nodes \ {n} : role'[other] = role[other]
    BY <1>0, <1>7 DEF Elected, Retire, NoSession
  <2> QED BY <1>1, <1>a, <2>1, <2>2
<1>8. ASSUME NEW n \in Nodes, CampaignFails(n) \/ WatchEnds(n) PROVE ExactIInv'
  <2>1. /\ role'[n] \in {"follower", "deaf"} /\ UNCHANGED <<ring, sync>>
        /\ sync[n].at # "pass" \/ role[n] = "follower"
    BY <1>0, <1>8 DEF CampaignFails, WatchEnds
  <2>2. \A other \in Nodes \ {n} : role'[other] = role[other]
    BY <1>0, <1>8 DEF CampaignFails, WatchEnds
  <2>3. ~Leads(role'[n]) /\ sync[n].at # "pass"
    BY <1>a, <2>1 DEF Leads
  <2> QED BY <1>1, <1>a, <2>1, <2>2, <2>3
<1>9. ASSUME NEW n \in Nodes, Sync(n) \/ Encode(n) \/ Publish(n) \/ PublishFails(n) PROVE ExactIInv'
  <2>1. sync'[n].at # "pass" /\ UNCHANGED <<ring, role>>
    BY <1>0, <1>9 DEF Sync, Encode, Publish, PublishFails, NoSync
  <2>2. \A other \in Nodes \ {n} : sync'[other] = sync[other]
    BY <1>0, <1>9 DEF Sync, Encode, Publish, PublishFails
  <2> QED BY <1>1, <1>a, <2>1, <2>2
<1>10. ASSUME NEW n \in Nodes, Take(n) PROVE ExactIInv'
  <2>1. role[n] = "follower" /\ UNCHANGED <<role, sync>>
    BY <1>10 DEF Take
  <2>2. \A other \in Nodes \ {n} : ring'[other] = ring[other]
    BY <1>0, <1>10 DEF Take
  <2>3. ~Leads(role[n])
    BY <2>1 DEF Leads
  <2> QED BY <1>1, <1>a, <2>1, <2>2, <2>3
<1>11. CASE SessionExpires \/ UNCHANGED vars
  <2>1. UNCHANGED <<ring, role, sync>>
    BY <1>11 DEF SessionExpires, vars
  <2> QED BY <2>1 DEF ExactIInv, ExactRings, PassesByLeaders
<1> QED BY <1>2, <1>3, <1>4, <1>5, <1>6, <1>7, <1>8, <1>9, <1>10, <1>11 DEF Next

(* Without a collision of hashes, whoever leads, or may lead again, has       *)
(* exactly the ring of its nodeReplicas, whatever leaders have published      *)
(* (con_hash.go, lines 229-246, 346-349, 446-456).                            *)
THEOREM LeaderRingExactHolds == DistinctPlaces => (Spec => []LeaderRingExact)
<1> SUFFICES ASSUME DistinctPlaces PROVE Spec => []LeaderRingExact
  OBVIOUS
<1>1. Init => ExactIInv
  <2> SUFFICES ASSUME Init PROVE ExactIInv
    OBVIOUS
  <2>1. \A n \in Nodes : role[n] = "down" /\ sync[n].at = "none"
    BY DEF Init, NoSync
  <2> QED BY <2>1 DEF ExactIInv, ExactRings, PassesByLeaders
<1>2. TypeOK /\ ExactIInv /\ [Next]_vars => ExactIInv'
  BY NextExactIInv
<1>3. ASSUME TypeOK, ExactIInv PROVE LeaderRingExact
  <2>1. \A n \in Nodes : /\ ring[n].keys \in Rings /\ ring[n].owners \in OwnerMaps
                          /\ ring[n].replicas \in [Addrs -> Replicas]
    BY <1>3 DEF TypeOK, RingType, Rings, OwnerMaps
  <2>2. ASSUME NEW n \in Nodes, role[n] \in {"candidate", "leader", "out"}
        PROVE  ring[n].keys = KeysOf(ring[n].replicas) /\ ring[n].owners = OwnersOf(ring[n].replicas)
    <3>1. Matches(ring[n].keys, ring[n].owners, ring[n].replicas)
      BY <1>3, <2>2 DEF ExactIInv, ExactRings
    <3> QED BY <2>1, <3>1, ExactRing
  <2> QED BY <2>2 DEF LeaderRingExact
<1> QED BY <1>1, <1>2, <1>3, TypeCorrect, PTL DEF Spec
=============================================================================
