---------------------------- MODULE DiscoveryProofs ----------------------------
(* For any number of nodes, pickers, leases and events: a node that renews a  *)
(* lease which etcd holds is registered under it; a node on a picker's ring   *)
(* has a client, but in the windows RingHasClients names; and a picker that   *)
(* watches knows which nodes are registered, by what it has or by what it has *)
(* yet to handle.                                                             *)
EXTENDS Discovery, FiniteSetTheorems, TLAPS

LEMMA InitRegIInv == RegInit => RegIInv
<1> SUFFICES ASSUME RegInit PROVE RegIInv
  OBVIOUS
<1>1. RegTypeOK
  BY LeasesAssumption DEF RegInit, RegTypeOK
<1>2. KeptIsRegistered /\ PutIsRegistered /\ KeepersStarted
  BY DEF RegInit, KeptIsRegistered, PutIsRegistered, KeepersStarted
<1> QED BY <1>1, <1>2 DEF RegIInv

\* A lease that ends takes a key away only when it is the lease of the key, and
\* then its owner does not hold it any more.
LEMMA LeaseEndsRegistered ==
  ASSUME RegIInv, NEW n \in Nodes, NEW id \in live[n], LeaseEnds(n, id)
  PROVE  /\ live' \in [Nodes -> SUBSET Nat] /\ services' \in [Nodes -> Nat]
         /\ \A q \in Nodes : /\ live'[q] \subseteq live[q]
                             /\ services'[q] \in live'[q] \cup {0}
                             /\ lease[q] \in live'[q] /\ services[q] = lease[q]
                                  => services'[q] = lease[q]
<1>1. live \in [Nodes -> SUBSET Nat] /\ services \in [Nodes -> Nat] /\ lease \in [Nodes -> Nat]
  BY DEF RegIInv, RegTypeOK
<1>2. \A q \in Nodes : services[q] \in live[q] \cup {0}
  BY DEF RegIInv, RegTypeOK
<1>3. /\ live' = [live EXCEPT ![n] = live[n] \ {id}]
      /\ services' = [services EXCEPT ![n] = IF services[n] = id THEN 0 ELSE services[n]]
  BY DEF LeaseEnds
<1> QED BY <1>1, <1>2, <1>3

LEMMA NextRegIInv == RegIInv /\ [Next]_vars => RegIInv'
<1> SUFFICES ASSUME RegIInv, [Next]_vars PROVE RegIInv'
  OBVIOUS
<1> USE LeasesAssumption
<1>0. RegTypeOK /\ KeptIsRegistered /\ PutIsRegistered /\ KeepersStarted
  BY DEF RegIInv
<1>t. /\ live \in [Nodes -> SUBSET Nat] /\ services \in [Nodes -> Nat] /\ lease \in [Nodes -> Nat]
      /\ phase \in [Nodes -> {"down", "grant", "put", "keep", "add", "up"}] /\ keeping \subseteq Nodes
  BY <1>0 DEF RegTypeOK
<1>1. ASSUME NEW n \in Nodes, Launch(n) PROVE RegIInv'
  <2>1. RegTypeOK'
    BY <1>0, <1>1, <1>t DEF RegTypeOK, Launch
  <2>2. KeptIsRegistered' /\ PutIsRegistered' /\ KeepersStarted'
    BY <1>0, <1>1, <1>t DEF KeptIsRegistered, PutIsRegistered, KeepersStarted, Launch
  <2> QED BY <2>1, <2>2 DEF RegIInv
<1>2. ASSUME NEW n \in Nodes, Grant(n) PROVE RegIInv'
  <2>1. PICK id \in 1..MaxLeases[n] \ live[n] :
           /\ live' = [live EXCEPT ![n] = live[n] \cup {id}]
           /\ lease' = [lease EXCEPT ![n] = id]
    BY <1>2 DEF Grant
  <2>2. phase[n] = "grant" /\ phase' = [phase EXCEPT ![n] = "put"]
        /\ UNCHANGED <<services, keeping>>
    BY <1>2 DEF Grant
  <2>3. id \in Nat /\ MaxLeases[n] \in Nat
    BY <2>1
  <2>4. RegTypeOK'
    BY <1>0, <1>t, <2>1, <2>2, <2>3 DEF RegTypeOK
  <2>5. KeptIsRegistered' /\ PutIsRegistered' /\ KeepersStarted'
    <3>1. n \notin keeping
      BY <1>0, <2>2 DEF KeepersStarted
    <3> QED BY <1>0, <1>t, <2>1, <2>2, <3>1 DEF KeptIsRegistered, PutIsRegistered, KeepersStarted
  <2> QED BY <2>4, <2>5 DEF RegIInv
<1>3. ASSUME NEW n \in Nodes, PutService(n) PROVE RegIInv'
  <2>1. RegTypeOK'
    BY <1>0, <1>3, <1>t DEF RegTypeOK, PutService
  <2>2. n \notin keeping
    BY <1>0, <1>3 DEF KeepersStarted, PutService
  <2>3. KeptIsRegistered' /\ PutIsRegistered' /\ KeepersStarted'
    BY <1>0, <1>3, <1>t, <2>2 DEF KeptIsRegistered, PutIsRegistered, KeepersStarted, PutService
  <2> QED BY <2>1, <2>3 DEF RegIInv
<1>4. ASSUME NEW n \in Nodes, KeepAlive(n) PROVE RegIInv'
  <2>1. RegTypeOK'
    BY <1>0, <1>4, <1>t DEF RegTypeOK, KeepAlive
  <2>2. KeptIsRegistered' /\ PutIsRegistered' /\ KeepersStarted'
    BY <1>0, <1>4, <1>t DEF KeptIsRegistered, PutIsRegistered, KeepersStarted, KeepAlive
  <2> QED BY <2>1, <2>2 DEF RegIInv
<1>5. ASSUME NEW n \in Nodes, RegisterFails(n) PROVE RegIInv'
  <2>1. RegTypeOK'
    BY <1>0, <1>5, <1>t DEF RegTypeOK, RegisterFails
  <2>2. KeptIsRegistered' /\ PutIsRegistered' /\ KeepersStarted'
    BY <1>0, <1>5, <1>t DEF KeptIsRegistered, PutIsRegistered, KeepersStarted, RegisterFails
  <2> QED BY <2>1, <2>2 DEF RegIInv
<1>6. ASSUME NEW n \in Nodes, KeepAliveLost(n) PROVE RegIInv'
  <2>1. RegTypeOK'
    BY <1>0, <1>6, <1>t DEF RegTypeOK, KeepAliveLost
  <2>2. KeptIsRegistered' /\ PutIsRegistered' /\ KeepersStarted'
    BY <1>0, <1>6, <1>t DEF KeptIsRegistered, PutIsRegistered, KeepersStarted, KeepAliveLost
  <2> QED BY <2>1, <2>2 DEF RegIInv
<1>7. ASSUME NEW n \in Nodes, Started(n) PROVE RegIInv'
  <2>1. RegTypeOK'
    BY <1>0, <1>7, <1>t DEF RegTypeOK, Started
  <2>2. KeptIsRegistered' /\ PutIsRegistered' /\ KeepersStarted'
    BY <1>0, <1>7, <1>t DEF KeptIsRegistered, PutIsRegistered, KeepersStarted, Started
  <2> QED BY <2>1, <2>2 DEF RegIInv
<1>8. ASSUME NEW n \in Nodes, LeaseExpires(n) PROVE RegIInv'
  <2>1. PICK id \in live[n] : LeaseEnds(n, id)
    BY <1>8 DEF LeaseExpires
  <2>2. UNCHANGED <<lease, phase, keeping>>
    BY <1>8 DEF LeaseExpires
  <2>3. /\ live' \in [Nodes -> SUBSET Nat] /\ services' \in [Nodes -> Nat]
        /\ \A q \in Nodes : /\ live'[q] \subseteq live[q]
                            /\ services'[q] \in live'[q] \cup {0}
                            /\ lease[q] \in live'[q] /\ services[q] = lease[q]
                                 => services'[q] = lease[q]
    BY <2>1, LeaseEndsRegistered
  <2>4. RegTypeOK'
    BY <1>0, <1>t, <2>2, <2>3 DEF RegTypeOK
  <2>5. KeptIsRegistered' /\ PutIsRegistered' /\ KeepersStarted'
    BY <1>0, <1>t, <2>2, <2>3 DEF KeptIsRegistered, PutIsRegistered, KeepersStarted
  <2> QED BY <2>4, <2>5 DEF RegIInv
<1>9. ASSUME NEW n \in Nodes, Crash(n) PROVE RegIInv'
  <2>1. RegTypeOK'
    BY <1>0, <1>9, <1>t DEF RegTypeOK, Crash
  <2>2. KeptIsRegistered' /\ PutIsRegistered' /\ KeepersStarted'
    BY <1>0, <1>9, <1>t DEF KeptIsRegistered, PutIsRegistered, KeepersStarted, Crash
  <2> QED BY <2>1, <2>2 DEF RegIInv
<1>10. ASSUME NEW n \in Nodes, ExitRevoking(n) PROVE RegIInv'
  <2>1. CASE lease[n] \in live[n]
    <3>1. /\ live' \in [Nodes -> SUBSET Nat] /\ services' \in [Nodes -> Nat]
          /\ \A q \in Nodes : /\ live'[q] \subseteq live[q]
                              /\ services'[q] \in live'[q] \cup {0}
                              /\ lease[q] \in live'[q] /\ services[q] = lease[q]
                                   => services'[q] = lease[q]
      BY <1>10, <2>1, LeaseEndsRegistered DEF ExitRevoking
    <3>2. RegTypeOK'
      BY <1>0, <1>10, <1>t, <3>1 DEF RegTypeOK, ExitRevoking
    <3>3. KeptIsRegistered' /\ PutIsRegistered' /\ KeepersStarted'
      BY <1>0, <1>10, <1>t, <3>1
      DEF KeptIsRegistered, PutIsRegistered, KeepersStarted, ExitRevoking
    <3> QED BY <3>2, <3>3 DEF RegIInv
  <2>2. CASE lease[n] \notin live[n]
    <3>1. live' = live /\ services' = services
      BY <1>0, <1>10, <1>t, <2>2 DEF ExitRevoking, LeaseEnds, RegTypeOK
    <3>2. RegTypeOK'
      BY <1>0, <1>10, <1>t, <3>1 DEF RegTypeOK, ExitRevoking
    <3>3. KeptIsRegistered' /\ PutIsRegistered' /\ KeepersStarted'
      BY <1>0, <1>10, <1>t, <3>1
      DEF KeptIsRegistered, PutIsRegistered, KeepersStarted, ExitRevoking
    <3> QED BY <3>2, <3>3 DEF RegIInv
  <2> QED BY <2>1, <2>2
<1>11. ASSUME UNCHANGED regvars PROVE RegIInv'
  BY <1>11, <1>0 DEF regvars, RegIInv, RegTypeOK, KeptIsRegistered, PutIsRegistered, KeepersStarted
<1> QED
  BY <1>1, <1>2, <1>3, <1>4, <1>5, <1>6, <1>7, <1>8, <1>9, <1>10, <1>11
  DEF Next, vars, regvars, Begin, Register, Expire, AddSelf, Stop, Discover, WatchCloses, Snapshot, PassRevives

(* The inductive invariant of the registrations (registry.go, lines 26-89).   *)
THEOREM RegIInvHolds == Spec => []RegIInv
<1>1. Init => RegIInv
  BY InitRegIInv DEF Init
<1> QED BY <1>1, NextRegIInv, PTL DEF Spec

(* A node that renews a lease which etcd holds is registered under it, for    *)
(* any number of nodes, lives and leases (registry.go, lines 45-64).          *)
THEOREM KeptIsRegisteredHolds == Spec => []KeptIsRegistered
<1>1. RegIInv => KeptIsRegistered
  BY DEF RegIInv
<1> QED BY <1>1, RegIInvHolds, PTL

-----------------------------------------------------------------------------
EventType == [kind : {"found", "put", "delete"}, addr : Nodes]

\* Until a snapshot comes the ring is what nodeReplicas says.
RingOfReplicas(pk) == ~pk.replaced => pk.ring = pk.added \cup pk.revived

\* The inductive invariant of a picker p: while a put event is half handled its
\* node has a client already, and only the event that is half handled leaves a
\* node that discovery put on the ring without one.
PickerOK(p, pk) ==
  /\ pk \in PickerType
  /\ pk.half => pk.todo # <<>>
  /\ pk.at \in {"off", "fetch"} => ~pk.half
  /\ pk.half /\ Head(pk.todo).kind = "put" => Head(pk.todo).addr \in pk.clients
  /\ \A n \in pk.added \ {p} :
       \/ n \in pk.clients
       \/ pk.half /\ Head(pk.todo).addr = n /\ Head(pk.todo).kind \in {"found", "delete"}
  /\ RingOfReplicas(pk)

PickIInv ==
  /\ picker \in [Pickers -> PickerType]
  /\ \A p \in Pickers : PickerOK(p, picker[p])

\* What Add and Remove leave alone, and what they do to nodeReplicas.
SameButRing(pk, new) ==
  /\ new.at = pk.at /\ new.todo = pk.todo /\ new.half = pk.half
  /\ new.clients = pk.clients /\ new.missed = pk.missed

LEMMA RingAddOK ==
  ASSUME NEW pk \in PickerType, RingOfReplicas(pk), NEW n \in Nodes
  PROVE  LET new == RingAdd(pk, n)
         IN /\ new \in PickerType /\ SameButRing(pk, new) /\ RingOfReplicas(new)
            /\ new.added = pk.added \cup {n}
<1> DEFINE new == RingAdd(pk, n)
<1>1. /\ new.ring = IF n \in pk.added \cup pk.revived THEN pk.ring ELSE pk.ring \cup {n}
      /\ new.added = pk.added \cup {n} /\ new.revived = pk.revived \ {n}
      /\ new.replaced = pk.replaced
  BY DEF RingAdd, PickerType
<1>2. new \in PickerType /\ SameButRing(pk, new)
  BY DEF RingAdd, PickerType, SameButRing
<1> HIDE DEF new
<1>3. RingOfReplicas(new)
  BY <1>1 DEF RingOfReplicas
<1> QED BY <1>1, <1>2, <1>3 DEF new

LEMMA RingRemovesOK ==
  ASSUME NEW pk \in PickerType, RingOfReplicas(pk), NEW n \in Nodes, NEW new \in RingRemoves(pk, n)
  PROVE  /\ new \in PickerType /\ SameButRing(pk, new) /\ RingOfReplicas(new)
         /\ new.added = pk.added \ {n}
<1>1. CASE n \notin pk.added \cup pk.revived
  <2>1. new = pk
    BY <1>1 DEF RingRemoves
  <2>2. pk.added \ {n} = pk.added
    BY <1>1
  <2> QED BY <2>1, <2>2 DEF SameButRing
<1>2. CASE n \in pk.added \cup pk.revived
  <2>1. PICK ring \in {pk.ring \ {n}} \cup (IF pk.replaced THEN {pk.ring} ELSE {}) :
           new = [pk EXCEPT !.ring = ring, !.added = @ \ {n}, !.revived = @ \ {n}]
    BY <1>2 DEF RingRemoves
  <2>2. ring \in SUBSET Nodes /\ (~pk.replaced => ring = pk.ring \ {n})
    BY DEF PickerType
  <2>3. /\ new.ring = ring /\ new.added = pk.added \ {n} /\ new.revived = pk.revived \ {n}
        /\ new.replaced = pk.replaced
    BY <2>1 DEF PickerType
  <2>4. new \in PickerType /\ SameButRing(pk, new)
    BY <2>1, <2>2 DEF PickerType, SameButRing
  <2>5. RingOfReplicas(new)
    BY <2>2, <2>3 DEF RingOfReplicas
  <2> QED BY <2>3, <2>4, <2>5
<1> QED BY <1>1, <1>2

\* What updateHashRing and the passes do to a picker.
RingOnly(p) == Snapshot(p) \/ PassRevives(p)

LEMMA RingOnlyOK ==
  ASSUME picker \in [Pickers -> PickerType], NEW p \in Pickers, RingOfReplicas(picker[p]), RingOnly(p)
  PROVE  \E new : /\ picker' = [picker EXCEPT ![p] = new]
                  /\ new \in PickerType /\ SameButRing(picker[p], new) /\ RingOfReplicas(new)
                  /\ new.added = picker[p].added
<1> DEFINE pk == picker[p]
<1>0. pk \in PickerType
  OBVIOUS
<1>1. CASE Snapshot(p)
  <2>1. PICK nodes \in SUBSET (Nodes \ {p}) :
           picker' = [picker EXCEPT ![p].ring = nodes \cup (@ \cap {p}), ![p].replaced = TRUE]
    BY <1>1 DEF Snapshot
  <2> DEFINE new == [pk EXCEPT !.ring = nodes \cup (@ \cap {p}), !.replaced = TRUE]
  <2>2. picker' = [picker EXCEPT ![p] = new]
    BY <2>1
  <2>3. /\ new \in PickerType /\ SameButRing(pk, new) /\ new.replaced
        /\ new.added = pk.added
    BY <1>0 DEF PickerType, SameButRing
  <2> HIDE DEF new
  <2>4. RingOfReplicas(new)
    BY <2>3 DEF RingOfReplicas
  <2> QED BY <2>2, <2>3, <2>4
<1>2. CASE PassRevives(p)
  <2>1. PICK n \in Nodes :
           picker' = [picker EXCEPT ![p].ring = @ \cup {n}, ![p].revived = @ \cup {n}]
    BY <1>2 DEF PassRevives
  <2> DEFINE new == [pk EXCEPT !.ring = @ \cup {n}, !.revived = @ \cup {n}]
  <2>2. picker' = [picker EXCEPT ![p] = new]
    BY <2>1
  <2>3. /\ new \in PickerType /\ SameButRing(pk, new) /\ new.added = pk.added
        /\ new.ring = pk.ring \cup {n} /\ new.revived = pk.revived \cup {n}
        /\ new.replaced = pk.replaced
    BY <1>0 DEF PickerType, SameButRing
  <2> HIDE DEF new
  <2>4. RingOfReplicas(new)
    BY <2>3 DEF RingOfReplicas
  <2> QED BY <2>2, <2>3, <2>4
<1> QED BY <1>1, <1>2 DEF RingOnly

LEMMA SequenceOfSet ==
  ASSUME NEW S, IsFiniteSet(S)
  PROVE  SetToSeq(S) \in Seq(S)
<1>1. Cardinality(S) \in Nat /\ ExistsBijection(1..Cardinality(S), S)
  BY FS_CardinalityType
<1>2. \E f \in [1..Cardinality(S) -> S] : IsInjective(f)
  BY <1>1 DEF ExistsBijection, Bijection, Injection
<1>3. SetToSeq(S) \in [1..Cardinality(S) -> S]
  BY <1>2 DEF SetToSeq
<1> QED BY <1>1, <1>3

LEMMA SequenceOfEvents ==
  ASSUME NEW nodes \in SUBSET Nodes, NEW ev \in [nodes -> EventType]
  PROVE  SetToSeq({ev[n] : n \in nodes}) \in Seq(EventType)
<1> DEFINE image == {ev[n] : n \in nodes}
<1>1. IsFiniteSet(nodes)
  BY LeasesAssumption, FS_Subset
<1>2. ev \in Surjection(nodes, image)
  BY DEF Surjection
<1>3. IsFiniteSet(image)
  BY <1>1, <1>2, FS_Surjection DEF ExistsSurjection
<1>4. SetToSeq(image) \in Seq(image) /\ image \subseteq EventType
  BY <1>3, SequenceOfSet
<1> HIDE DEF image
<1>5. SetToSeq(image) \in Seq(EventType)
  BY <1>4
<1> QED BY <1>5 DEF image

\* What is heard is appended: the event that is half handled stays the head.
LEMMA HeardOK ==
  ASSUME NEW p \in Pickers, NEW pk, PickerOK(p, pk)
  PROVE  PickerOK(p, Heard(pk)) /\ Heard(pk) \in PickerType
<1> DEFINE changed == {n \in Nodes : services'[n] # services[n]}
           Change(n) == Event(IF services'[n] = 0 THEN "delete" ELSE "put", n)
           ev == [n \in changed |-> Change(n)]
           more == SetToSeq({Change(n) : n \in changed})
<1>1. more \in Seq(EventType)
  <2>1. changed \in SUBSET Nodes /\ ev \in [changed -> EventType]
    BY DEF Event, EventType
  <2>2. {Change(n) : n \in changed} = {ev[n] : n \in changed}
    OBVIOUS
  <2> HIDE DEF ev, changed, Change
  <2>3. SetToSeq({ev[n] : n \in changed}) \in Seq(EventType)
    BY <2>1, SequenceOfEvents
  <2> QED BY <2>2, <2>3
<1>2. changed \subseteq Nodes
  OBVIOUS
<1>3. pk \in PickerType
  BY DEF PickerOK
<1>4. CASE pk.at = "watch"
  <2>1. Heard(pk) = [pk EXCEPT !.todo = @ \o more, !.missed = @ \ changed]
    BY <1>4 DEF Heard
  <2> HIDE DEF more, changed
  <2>2. pk.todo \in Seq(EventType)
    BY <1>3 DEF PickerType, EventType
  <2>3. pk.todo \o more \in Seq(EventType)
        /\ (pk.todo # <<>> => pk.todo \o more # <<>> /\ Head(pk.todo \o more) = Head(pk.todo))
    BY <1>1, <2>2
  <2>4. /\ Heard(pk) \in PickerType /\ Heard(pk).todo = pk.todo \o more
        /\ Heard(pk).at = pk.at /\ Heard(pk).half = pk.half
        /\ Heard(pk).clients = pk.clients /\ Heard(pk).ring = pk.ring
        /\ Heard(pk).added = pk.added /\ Heard(pk).revived = pk.revived
        /\ Heard(pk).replaced = pk.replaced
    BY <1>3, <2>1, <2>3 DEF PickerType, EventType
  <2> QED BY <2>3, <2>4 DEF PickerOK, RingOfReplicas
<1>5. CASE pk.at = "apply"
  <2>1. Heard(pk) = [pk EXCEPT !.missed = @ \cup changed]
    BY <1>5 DEF Heard
  <2> HIDE DEF changed
  <2>2. /\ Heard(pk) \in PickerType /\ Heard(pk).todo = pk.todo
        /\ Heard(pk).at = pk.at /\ Heard(pk).half = pk.half
        /\ Heard(pk).clients = pk.clients /\ Heard(pk).ring = pk.ring
        /\ Heard(pk).added = pk.added /\ Heard(pk).revived = pk.revived
        /\ Heard(pk).replaced = pk.replaced
    BY <1>2, <1>3, <2>1 DEF PickerType
  <2> QED BY <2>2 DEF PickerOK, RingOfReplicas
<1>6. CASE pk.at \notin {"watch", "apply"}
  <2>1. Heard(pk) = pk
    BY <1>6 DEF Heard
  <2> QED BY <1>3, <2>1
<1> QED BY <1>4, <1>5, <1>6

LEMMA OffOK ==
  ASSUME NEW p \in Pickers, NEW at \in {"off", "fetch"}, NEW pk, pk = [Off EXCEPT !.at = at]
  PROVE  PickerOK(p, pk)
<1>1. pk \in PickerType
  <2>1. <<>> \in Seq([kind : {"found", "put", "delete"}, addr : Nodes])
    OBVIOUS
  <2> QED BY <2>1 DEF PickerType, Off
<1> QED BY <1>1 DEF PickerOK, RingOfReplicas, Off

LEMMA OffIsOff == Off = [Off EXCEPT !.at = "off"]
BY DEF Off

\* What every step of discovery changes.
LEMMA PickersKept ==
  ASSUME PickIInv, NEW p \in Pickers, NEW pk, PickerOK(p, pk),
         picker' = [picker EXCEPT ![p] = pk]
  PROVE  PickIInv'
<1>1. pk \in PickerType
  BY DEF PickerOK
<1>2. picker \in [Pickers -> PickerType] /\ \A q \in Pickers : PickerOK(q, picker[q])
  BY DEF PickIInv
<1>3. picker' \in [Pickers -> PickerType] /\ \A q \in Pickers : PickerOK(q, picker'[q])
  BY <1>1, <1>2
<1> QED BY <1>3 DEF PickIInv

LEMMA DiscoverOK ==
  ASSUME PickIInv, NEW p \in Pickers, Discover(p) \/ WatchCloses(p)
  PROVE  PickIInv'
<1> DEFINE pk == picker[p]
           head == Head(pk.todo)
<1>0. PickerOK(p, pk) /\ picker \in [Pickers -> PickerType]
  BY DEF PickIInv
<1>t. /\ pk \in PickerType /\ pk.todo \in Seq(EventType) /\ pk.half \in BOOLEAN
      /\ pk.clients \in SUBSET Nodes /\ pk.added \in SUBSET Nodes /\ pk.missed \in SUBSET Nodes
  BY <1>0 DEF PickerOK, PickerType, EventType, RingOfReplicas
<1>h. pk.todo # <<>> => head \in EventType /\ head.addr \in Nodes /\ Tail(pk.todo) \in Seq(EventType)
  <2>1. pk.todo # <<>> => head \in EventType /\ Tail(pk.todo) \in Seq(EventType)
    BY <1>t
  <2> QED BY <2>1 DEF EventType
<1>k. /\ pk.half => pk.todo # <<>>
      /\ pk.at \in {"off", "fetch"} => ~pk.half
      /\ pk.half /\ head.kind = "put" => head.addr \in pk.clients
      /\ \A n \in pk.added \ {p} :
           \/ n \in pk.clients
           \/ pk.half /\ head.addr = n /\ head.kind \in {"found", "delete"}
      /\ RingOfReplicas(pk)
  BY <1>0 DEF PickerOK
<1>d. pk.todo # <<>> =>
        /\ Handled(pk) \in PickerType /\ Handled(pk).todo = Tail(pk.todo) /\ ~Handled(pk).half
        /\ Handled(pk).at = pk.at /\ Handled(pk).clients = pk.clients
        /\ Handled(pk).added = pk.added /\ Handled(pk).missed = pk.missed
        /\ RingOfReplicas(Handled(pk))
  BY <1>t, <1>h, <1>k DEF Handled, PickerType, EventType, RingOfReplicas
<1>1. ASSUME FetchAll(p) PROVE PickIInv'
  <2> DEFINE nodes == {m \in Nodes \ {p} : services[m] # 0}
             ev == [n \in nodes |-> Event("found", n)]
             todo == SetToSeq({Event("found", n) : n \in nodes})
             new == [pk EXCEPT !.at = "apply", !.todo = todo]
  <2>1. nodes \in SUBSET Nodes /\ ev \in [nodes -> EventType]
    BY DEF Event, EventType
  <2>2. {Event("found", n) : n \in nodes} = {ev[n] : n \in nodes}
    OBVIOUS
  <2>3. todo \in Seq(EventType)
    <3> HIDE DEF nodes, ev
    <3>1. SetToSeq({ev[n] : n \in nodes}) \in Seq(EventType)
      BY <2>1, SequenceOfEvents
    <3> QED BY <2>2, <3>1
  <2>4. pk.at = "fetch" /\ picker' = [picker EXCEPT ![p] = new]
    BY <1>0, <1>1 DEF FetchAll
  <2> HIDE DEF nodes, todo
  <2>5. PickerOK(p, new)
    BY <1>t, <1>k, <2>3, <2>4 DEF PickerOK, PickerType, EventType, RingOfReplicas
  <2> HIDE DEF new
  <2> QED BY <2>4, <2>5, PickersKept
<1>2. ASSUME FetchFails(p) \/ FoundRefused(p) PROVE PickIInv'
  <2> DEFINE new == [pk EXCEPT !.at = "ended"]
  <2>1. picker' = [picker EXCEPT ![p] = new]
    BY <1>0, <1>2 DEF FetchFails, FoundRefused
  <2>2. PickerOK(p, new)
    BY <1>t, <1>k DEF PickerOK, PickerType, RingOfReplicas
  <2> HIDE DEF new
  <2> QED BY <2>1, <2>2, PickersKept
<1>3. ASSUME FoundRing(p) PROVE PickIInv'
  <2> DEFINE on == RingAdd(pk, head.addr)
             new == [on EXCEPT !.half = TRUE]
  <2>1. picker' = [picker EXCEPT ![p] = new]
    BY <1>0, <1>3 DEF FoundRing, Subject
  <2>2. /\ pk.at \in {"apply", "watch"} /\ pk.todo # <<>> /\ ~pk.half /\ head.kind = "found"
    BY <1>3 DEF FoundRing, Next1
  <2>a. /\ on \in PickerType /\ SameButRing(pk, on) /\ RingOfReplicas(on)
        /\ on.added = pk.added \cup {head.addr}
    BY <1>t, <1>h, <1>k, <2>2, RingAddOK
  <2> HIDE DEF on
  <2>3. PickerOK(p, new)
    BY <1>t, <1>h, <1>k, <2>2, <2>a DEF PickerOK, PickerType, RingOfReplicas, SameButRing
  <2> HIDE DEF new
  <2> QED BY <2>1, <2>3, PickersKept
<1>4. ASSUME FoundClient(p) PROVE PickIInv'
  <2> DEFINE new == [Handled(pk) EXCEPT !.clients = @ \cup {head.addr}]
  <2>1. picker' = [picker EXCEPT ![p] = new]
    BY <1>0, <1>4 DEF FoundClient, Subject
  <2>2. pk.half
    BY <1>4 DEF FoundClient, Next2
  <2>3. PickerOK(p, new)
    BY <1>t, <1>h, <1>k, <1>d, <2>2 DEF PickerOK, PickerType, RingOfReplicas
  <2> HIDE DEF new
  <2> QED BY <2>1, <2>3, PickersKept
<1>5. ASSUME WatchStart(p) PROVE PickIInv'
  <2> DEFINE new == [pk EXCEPT !.at = "watch"]
  <2>1. picker' = [picker EXCEPT ![p] = new]
    BY <1>0, <1>5 DEF WatchStart
  <2>2. PickerOK(p, new)
    BY <1>t, <1>k DEF PickerOK, PickerType, RingOfReplicas
  <2> HIDE DEF new
  <2> QED BY <2>1, <2>2, PickersKept
<1>6. ASSUME SkipSelf(p) \/ PutRefused(p) PROVE PickIInv'
  <2>1. pk.todo # <<>> /\ ~pk.half
    BY <1>6 DEF SkipSelf, PutRefused, Next1
  <2>2. CASE SkipSelf(p)
    <3>1. picker' = [picker EXCEPT ![p] = Handled(pk)]
      BY <1>0, <2>2 DEF SkipSelf
    <3>2. PickerOK(p, Handled(pk))
      BY <1>k, <1>d, <2>1 DEF PickerOK
    <3> QED BY <3>1, <3>2, PickersKept
  <2>3. CASE PutRefused(p)
    <3> DEFINE new == [Handled(pk) EXCEPT !.missed = @ \cup {head.addr}]
    <3>1. picker' = [picker EXCEPT ![p] = new]
      BY <1>0, <2>3 DEF PutRefused, Subject
    <3>2. PickerOK(p, new)
      BY <1>t, <1>h, <1>k, <1>d, <2>1 DEF PickerOK, PickerType, RingOfReplicas
    <3> HIDE DEF new
    <3> QED BY <3>1, <3>2, PickersKept
  <2> QED BY <1>6, <2>2, <2>3
<1>7. ASSUME PutClient(p) PROVE PickIInv'
  <2> DEFINE new == [pk EXCEPT !.clients = @ \cup {head.addr}, !.half = TRUE]
  <2>1. picker' = [picker EXCEPT ![p] = new]
    BY <1>0, <1>7 DEF PutClient, Subject
  <2>2. /\ pk.at \in {"apply", "watch"} /\ pk.todo # <<>> /\ ~pk.half
    BY <1>7 DEF PutClient, Next1
  <2>3. PickerOK(p, new)
    BY <1>t, <1>h, <1>k, <2>2 DEF PickerOK, PickerType, RingOfReplicas
  <2> HIDE DEF new
  <2> QED BY <2>1, <2>3, PickersKept
<1>8. ASSUME PutRing(p) PROVE PickIInv'
  <2> DEFINE done == Handled(pk)
             new == RingAdd(done, head.addr)
  <2>1. picker' = [picker EXCEPT ![p] = new]
    BY <1>0, <1>8 DEF PutRing, Subject
  <2>2. pk.half /\ head.kind = "put" /\ pk.todo # <<>>
    BY <1>8, <1>k DEF PutRing, Next2
  <2> HIDE DEF done
  <2>a. /\ new \in PickerType /\ SameButRing(done, new) /\ RingOfReplicas(new)
        /\ new.added = done.added \cup {head.addr}
    BY <1>h, <1>d, <2>2, RingAddOK DEF done
  <2> HIDE DEF new
  <2>3. PickerOK(p, new)
    BY <1>k, <1>d, <2>2, <2>a DEF PickerOK, SameButRing, done
  <2> QED BY <2>1, <2>3, PickersKept
<1>9. ASSUME DeleteClient(p) PROVE PickIInv'
  <2> DEFINE new == [pk EXCEPT !.clients = @ \ {head.addr}, !.half = TRUE]
  <2>1. picker' = [picker EXCEPT ![p] = new]
    BY <1>0, <1>9 DEF DeleteClient, Subject
  <2>2. /\ pk.at \in {"apply", "watch"} /\ pk.todo # <<>> /\ ~pk.half /\ head.kind = "delete"
    BY <1>9 DEF DeleteClient, Next1
  <2>3. PickerOK(p, new)
    BY <1>t, <1>h, <1>k, <2>2 DEF PickerOK, PickerType, RingOfReplicas
  <2> HIDE DEF new
  <2> QED BY <2>1, <2>3, PickersKept
<1>10. ASSUME DeleteRing(p) PROVE PickIInv'
  <2> DEFINE done == Handled(pk)
  <2>1. PICK new \in RingRemoves(done, head.addr) : picker' = [picker EXCEPT ![p] = new]
    BY <1>0, <1>10 DEF DeleteRing, Subject
  <2>2. pk.half /\ pk.todo # <<>>
    BY <1>10, <1>k DEF DeleteRing, Next2
  <2> HIDE DEF done
  <2>a. /\ new \in PickerType /\ SameButRing(done, new) /\ RingOfReplicas(new)
        /\ new.added = done.added \ {head.addr}
    BY <1>h, <1>d, <2>2, RingRemovesOK DEF done
  <2>3. PickerOK(p, new)
    BY <1>k, <1>d, <2>2, <2>a DEF PickerOK, SameButRing, done
  <2> QED BY <2>1, <2>3, PickersKept
<1>11. ASSUME WatchCloses(p) PROVE PickIInv'
  <2> DEFINE new == [pk EXCEPT !.at = "ended", !.todo = <<>>]
  <2>1. picker' = [picker EXCEPT ![p] = new] /\ ~pk.half
    BY <1>0, <1>11 DEF WatchCloses
  <2>2. <<>> \in Seq(EventType)
    OBVIOUS
  <2>3. PickerOK(p, new)
    BY <1>t, <1>k, <2>1, <2>2 DEF PickerOK, PickerType, EventType, RingOfReplicas
  <2> HIDE DEF new
  <2> QED BY <2>1, <2>3, PickersKept
<1> QED
  BY <1>1, <1>2, <1>3, <1>4, <1>5, <1>6, <1>7, <1>8, <1>9, <1>10, <1>11 DEF Discover

LEMMA InitPickIInv == Init => PickIInv
<1> SUFFICES ASSUME Init PROVE PickIInv
  OBVIOUS
<1>1. picker = [p \in Pickers |-> Off]
  BY DEF Init
<1>2. ASSUME NEW p \in Pickers PROVE PickerOK(p, picker[p])
  BY <1>1, OffIsOff, OffOK
<1>3. \A p \in Pickers : picker[p] \in PickerType
  BY <1>2 DEF PickerOK
<1> QED BY <1>1, <1>2, <1>3 DEF PickIInv

LEMMA NextPickIInv == PickIInv /\ [Next]_vars => PickIInv'
<1> SUFFICES ASSUME PickIInv, [Next]_vars PROVE PickIInv'
  OBVIOUS
<1>0. picker \in [Pickers -> PickerType] /\ \A p \in Pickers : PickerOK(p, picker[p])
  BY DEF PickIInv
<1>k. ASSUME \A p \in Pickers : PickerOK(p, picker'[p]), DOMAIN picker' = Pickers,
             picker' = [p \in Pickers |-> picker'[p]]
      PROVE  PickIInv'
  <2>1. \A p \in Pickers : picker'[p] \in PickerType
    BY <1>k DEF PickerOK
  <2>2. picker' \in [Pickers -> PickerType]
    BY <1>k, <2>1
  <2> QED BY <1>k, <2>2 DEF PickIInv
<1>1. ASSUME NEW n \in Nodes, Begin(n) PROVE PickIInv'
  <2>1. picker' = [p \in Pickers |-> IF p = n THEN [Off EXCEPT !.at = "fetch"] ELSE picker[p]]
    BY <1>1 DEF Begin
  <2>2. ASSUME NEW p \in Pickers PROVE PickerOK(p, picker'[p])
    <3>1. CASE p = n
      <4>1. picker'[p] = [Off EXCEPT !.at = "fetch"]
        BY <2>1, <3>1
      <4> QED BY <4>1, OffOK
    <3>2. CASE p # n
      BY <1>0, <2>1, <3>2
    <3> QED BY <3>1, <3>2
  <2> QED BY <1>k, <2>1, <2>2
<1>2. ASSUME NEW n \in Nodes, Register(n) \/ Expire(n) PROVE PickIInv'
  <2>1. picker' = [p \in Pickers |-> Heard(picker[p])]
    BY <1>2 DEF Register, Expire
  <2>2. \A p \in Pickers : PickerOK(p, picker'[p])
    BY <1>0, <2>1, HeardOK
  <2> QED BY <1>k, <2>1, <2>2
<1>3. ASSUME NEW n \in Nodes, Stop(n) PROVE PickIInv'
  <2>1. picker' = [p \in Pickers |-> IF p = n THEN Off ELSE Heard(picker[p])]
    BY <1>3 DEF Stop
  <2>2. ASSUME NEW p \in Pickers PROVE PickerOK(p, picker'[p])
    <3>1. PickerOK(p, Off) /\ PickerOK(p, Heard(picker[p]))
      BY <1>0, OffIsOff, OffOK, HeardOK
    <3>2. picker'[p] = Off \/ picker'[p] = Heard(picker[p])
      BY <2>1
    <3> QED BY <3>1, <3>2
  <2> QED BY <1>k, <2>1, <2>2
<1>4. ASSUME NEW n \in Nodes, AddSelf(n) PROVE PickIInv'
  <2>1. picker' = [p \in Pickers |-> IF p = n THEN RingAdd(picker[p], n) ELSE picker[p]]
    BY <1>4 DEF AddSelf
  <2>2. ASSUME NEW p \in Pickers PROVE PickerOK(p, picker'[p])
    <3>1. CASE p = n
      <4> DEFINE new == RingAdd(picker[p], n)
      <4>1. picker[p] \in PickerType /\ PickerOK(p, picker[p]) /\ RingOfReplicas(picker[p])
        BY <1>0 DEF PickerOK
      <4>2. /\ new \in PickerType /\ SameButRing(picker[p], new) /\ RingOfReplicas(new)
            /\ new.added = picker[p].added \cup {n}
        BY <4>1, RingAddOK
      <4>3. picker'[p] = new
        BY <2>1, <3>1
      <4> HIDE DEF new
      <4>4. PickerOK(p, new)
        BY <3>1, <4>1, <4>2 DEF PickerOK, SameButRing
      <4> QED BY <4>3, <4>4
    <3>2. CASE p # n
      BY <1>0, <2>1, <3>2
    <3> QED BY <3>1, <3>2
  <2> QED BY <1>k, <2>1, <2>2
<1>5. ASSUME NEW p \in Pickers, RingOnly(p) PROVE PickIInv'
  <2>1. PickerOK(p, picker[p]) /\ RingOfReplicas(picker[p])
    BY <1>0 DEF PickerOK
  <2>2. PICK new : /\ picker' = [picker EXCEPT ![p] = new]
                   /\ new \in PickerType /\ SameButRing(picker[p], new) /\ RingOfReplicas(new)
                   /\ new.added = picker[p].added
    BY <1>0, <1>5, <2>1, RingOnlyOK
  <2>3. PickerOK(p, new)
    BY <2>1, <2>2 DEF PickerOK, SameButRing
  <2> QED BY <2>2, <2>3, PickersKept
<1>6. ASSUME picker' = picker PROVE PickIInv'
  BY <1>0, <1>6 DEF PickIInv
<1> QED BY <1>1, <1>2, <1>3, <1>4, <1>5, <1>6, DiscoverOK DEF Next, vars, RingOnly

(* The types of the registrations and of every picker; an event is half       *)
(* handled only while it is there (registry.go, 26-89; peer.go, 91-186).      *)
THEOREM TypeCorrect == Spec => []TypeOK
<1>1. Init => PickIInv
  BY InitPickIInv
<1>2. PickIInv /\ RegIInv => TypeOK
  BY DEF PickIInv, PickerOK, RegIInv, TypeOK
<1> QED BY <1>1, <1>2, NextPickIInv, RegIInvHolds, PTL DEF Spec

(* For any number of nodes, pickers and events, a node that PickPeer may      *)
(* answer has a client, but for the windows that RingHasClients names: the    *)
(* first read, a removal, a node that a pass put back, and, once a snapshot   *)
(* has come, any node (peer.go, lines 115-126, 178-181; con_hash.go, lines    *)
(* 347, 447, 554).                                                            *)
THEOREM RingHasClientsHolds == Spec => []RingHasClients
<1>1. Init => PickIInv
  BY InitPickIInv
<1>2. PickIInv => RingHasClients
  BY DEF PickIInv, PickerOK, RingHasClients, RingOfReplicas, Subject
<1> QED BY <1>1, <1>2, NextPickIInv, PTL DEF Spec

-----------------------------------------------------------------------------
(* What a picker knows of the nodes.  An event of a node waits, and the last  *)
(* one that waits tells whether the node is registered; of a node without an  *)
(* event, the client map and what discovery gave to the ring tell it.         *)

Waits(todo, n) == \E i \in 1..Len(todo) : todo[i].addr = n

Told(todo, n, registered) ==
  \A i \in 1..Len(todo) :
    todo[i].addr = n /\ (\A j \in 1..Len(todo) : todo[j].addr = n => j <= i)
      => (n \in registered <=> todo[i].kind = "put")

Known(pk, n, registered) ==
  /\ ~Waits(pk.todo, n) => (n \in registered <=> n \in pk.clients) /\ (n \in registered <=> n \in pk.added)
  /\ pk.at = "apply" /\ Waits(pk.todo, n) => n \in registered
  /\ pk.at = "watch" => Told(pk.todo, n, registered)

\* The nodes that etcd has a key of.
Registered == {n \in Nodes : services[n] # 0}

\* The inductive invariant of a picker p, given the nodes that are registered:
\* what it reads are nodes to find, what it hears are puts and deletes, the
\* first half of an event is done when it is half handled, and what it has not
\* missed it knows.
PickerKnows(p, pk, registered) ==
  /\ pk.at \in {"off", "fetch"} => pk.todo = <<>> /\ pk.clients = {} /\ pk.added \subseteq {p}
  /\ \A i \in 1..Len(pk.todo) : /\ pk.at = "apply" => pk.todo[i].kind = "found"
                                /\ pk.at = "watch" => pk.todo[i].kind \in {"put", "delete"}
  /\ pk.half => /\ Head(pk.todo).kind = "found" => Head(pk.todo).addr \in pk.added
                /\ Head(pk.todo).kind = "delete" => Head(pk.todo).addr \notin pk.clients
  /\ pk.at \in {"apply", "watch"} =>
       \A n \in Nodes \ ({p} \cup pk.missed) : Known(pk, n, registered)

KnowIInv == \A p \in Pickers : PickerKnows(p, picker[p], Registered)

\* The events of some nodes, one of each.
LEMMA EventsOf ==
  ASSUME NEW nodes \in SUBSET Nodes, NEW ev \in [nodes -> EventType],
         \A n \in nodes : ev[n].addr = n
  PROVE  LET s == SetToSeq({ev[n] : n \in nodes})
         IN /\ s \in Seq(EventType)
            /\ \A i \in 1..Len(s) : s[i].addr \in nodes /\ s[i] = ev[s[i].addr]
            /\ \A n \in nodes : \E i \in 1..Len(s) : s[i].addr = n
<1> DEFINE image == {ev[n] : n \in nodes}
           size == Cardinality(image)
           s == SetToSeq(image)
<1>1. IsFiniteSet(nodes)
  BY LeasesAssumption, FS_Subset
<1>2. ev \in Surjection(nodes, image)
  BY DEF Surjection
<1>3. IsFiniteSet(image)
  BY <1>1, <1>2, FS_Surjection DEF ExistsSurjection
<1>4. s \in Seq(EventType)
  BY SequenceOfEvents
<1>5. \A e \in image : e.addr \in nodes /\ e = ev[e.addr]
  OBVIOUS
<1>6. \A n \in nodes : ev[n] \in image /\ ev[n].addr = n
  OBVIOUS
<1> HIDE DEF image
<1>7. size \in Nat /\ ExistsBijection(1..size, image)
  BY <1>3, FS_CardinalityType
<1>8. \E f \in [1..size -> image] : IsInjective(f)
  BY <1>7 DEF ExistsBijection, Bijection, Injection
<1>9. s \in [1..size -> image] /\ IsInjective(s)
  BY <1>8 DEF SetToSeq
<1>10. s \in Injection(1..size, image)
  BY <1>9 DEF Injection
<1>11. IsFiniteSet(1..size) /\ Cardinality(1..size) = size
  BY <1>7, FS_Interval
<1>12. s \in Surjection(1..size, image)
  BY <1>3, <1>10, <1>11, FS_Injection
<1>13. Len(s) = size
  BY <1>4, <1>7, <1>9
<1> HIDE DEF s, size
<1>14. /\ \A i \in 1..Len(s) : s[i] \in image
       /\ \A e \in image : \E i \in 1..Len(s) : s[i] = e
  BY <1>9, <1>12, <1>13 DEF Surjection
<1>15. \A i \in 1..Len(s) : s[i].addr \in nodes /\ s[i] = ev[s[i].addr]
  BY <1>5, <1>14
<1>16. \A n \in nodes : \E i \in 1..Len(s) : s[i].addr = n
  BY <1>6, <1>14
<1> QED BY <1>4, <1>15, <1>16 DEF s, image

\* What is told by the events behind the head.
LEMMA TailTold ==
  ASSUME NEW todo \in Seq(EventType), todo # <<>>, NEW n, NEW registered
  PROVE  /\ Tail(todo) \in Seq(EventType) /\ Head(todo) = todo[1] /\ 1 \in 1..Len(todo)
         /\ \A i \in 1..Len(Tail(todo)) : i+1 \in 1..Len(todo) /\ Tail(todo)[i] = todo[i+1]
         /\ Waits(Tail(todo), n) => Waits(todo, n)
         /\ Head(todo).addr = n => Waits(todo, n)
         /\ Head(todo).addr # n /\ Waits(todo, n) => Waits(Tail(todo), n)
         /\ Told(todo, n, registered) => /\ Told(Tail(todo), n, registered)
                                         /\ Head(todo).addr = n /\ ~Waits(Tail(todo), n)
                                              => (n \in registered <=> Head(todo).kind = "put")
<1> DEFINE tail == Tail(todo)
<1>1. /\ Len(todo) \in Nat \ {0} /\ tail \in Seq(EventType) /\ Len(tail) = Len(todo) - 1
      /\ Head(todo) = todo[1] /\ \A i \in 1..Len(tail) : tail[i] = todo[i+1]
  OBVIOUS
<1> HIDE DEF tail
<1>2. \A i \in 1..Len(tail) : i+1 \in 1..Len(todo) /\ tail[i] = todo[i+1]
  BY <1>1
<1>3. \A j \in 1..Len(todo) : j # 1 => j-1 \in 1..Len(tail) /\ tail[j-1] = todo[j]
  BY <1>1
<1>4. 1 \in 1..Len(todo)
  BY <1>1
<1>5. Waits(tail, n) => Waits(todo, n)
  BY <1>2 DEF Waits
<1>6. Head(todo).addr = n => Waits(todo, n)
  BY <1>1, <1>4 DEF Waits
<1>7. Head(todo).addr # n /\ Waits(todo, n) => Waits(tail, n)
  BY <1>1, <1>3 DEF Waits
<1>8. ASSUME Told(todo, n, registered) PROVE Told(tail, n, registered)
  <2> SUFFICES ASSUME NEW i \in 1..Len(tail), tail[i].addr = n,
                      \A j \in 1..Len(tail) : tail[j].addr = n => j <= i
               PROVE  n \in registered <=> tail[i].kind = "put"
    BY DEF Told
  <2>1. \A j \in 1..Len(todo) : todo[j].addr = n => j <= i+1
    <3> SUFFICES ASSUME NEW j \in 1..Len(todo), todo[j].addr = n, j # 1 PROVE j <= i+1
      BY <1>1
    <3>1. j-1 <= i
      BY <1>3
    <3> QED BY <1>1, <3>1
  <2> QED BY <1>2, <1>8, <2>1 DEF Told
<1>9. ASSUME Told(todo, n, registered), Head(todo).addr = n, ~Waits(tail, n)
      PROVE  n \in registered <=> Head(todo).kind = "put"
  <2>1. \A j \in 1..Len(todo) : todo[j].addr = n => j = 1
    BY <1>3, <1>9 DEF Waits
  <2>2. \A j \in 1..Len(todo) : todo[j].addr = n => j <= 1
    BY <2>1
  <2> QED BY <1>1, <1>4, <1>9, <2>2 DEF Told
<1> QED BY <1>1, <1>2, <1>4, <1>5, <1>6, <1>7, <1>8, <1>9 DEF tail

\* What is told when more is heard.
LEMMA MoreTold ==
  ASSUME NEW todo \in Seq(EventType), NEW more \in Seq(EventType), NEW n, NEW registered
  PROVE  LET all == todo \o more
         IN /\ all \in Seq(EventType)
            /\ \A i \in 1..Len(all) : \/ i \in 1..Len(todo) /\ all[i] = todo[i]
                                      \/ \E j \in 1..Len(more) : all[i] = more[j]
            /\ Waits(all, n) <=> Waits(todo, n) \/ Waits(more, n)
            /\ ~Waits(more, n) /\ Told(todo, n, registered) => Told(all, n, registered)
            /\ Waits(more, n) /\ (\A j \in 1..Len(more) : more[j].addr = n => (n \in registered <=> more[j].kind = "put"))
                 => Told(all, n, registered)
<1> DEFINE all == todo \o more
<1>1. /\ all \in Seq(EventType) /\ Len(todo) \in Nat /\ Len(more) \in Nat /\ Len(all) = Len(todo) + Len(more)
      /\ \A i \in 1..Len(all) : all[i] = IF i <= Len(todo) THEN todo[i] ELSE more[i - Len(todo)]
  OBVIOUS
<1> HIDE DEF all
<1>2. /\ \A i \in 1..Len(todo) : i \in 1..Len(all) /\ all[i] = todo[i]
      /\ \A j \in 1..Len(more) : j + Len(todo) \in 1..Len(all) /\ all[j + Len(todo)] = more[j]
  <2>1. \A i \in 1..Len(todo) : i \in 1..Len(all) /\ all[i] = todo[i]
    BY <1>1
  <2>2. \A j \in 1..Len(more) : j + Len(todo) \in 1..Len(all) /\ all[j + Len(todo)] = more[j]
    <3> SUFFICES ASSUME NEW j \in 1..Len(more)
                 PROVE  j + Len(todo) \in 1..Len(all) /\ all[j + Len(todo)] = more[j]
      OBVIOUS
    <3>1. /\ j + Len(todo) \in 1..Len(all) /\ ~(j + Len(todo) <= Len(todo))
          /\ (j + Len(todo)) - Len(todo) = j
      BY <1>1
    <3> QED BY <1>1, <3>1
  <2> QED BY <2>1, <2>2
<1>3. \A i \in 1..Len(all) : \/ i \in 1..Len(todo) /\ all[i] = todo[i]
                             \/ /\ i \notin 1..Len(todo) /\ i - Len(todo) \in 1..Len(more)
                                /\ all[i] = more[i - Len(todo)]
  BY <1>1
<1>4. Waits(all, n) <=> Waits(todo, n) \/ Waits(more, n)
  BY <1>2, <1>3 DEF Waits
<1>5. ASSUME ~Waits(more, n), Told(todo, n, registered) PROVE Told(all, n, registered)
  <2> SUFFICES ASSUME NEW i \in 1..Len(all), all[i].addr = n,
                      \A j \in 1..Len(all) : all[j].addr = n => j <= i
               PROVE  n \in registered <=> all[i].kind = "put"
    BY DEF Told
  <2>1. i \in 1..Len(todo) /\ all[i] = todo[i]
    BY <1>3, <1>5 DEF Waits
  <2>2. \A j \in 1..Len(todo) : todo[j].addr = n => j <= i
    BY <1>2
  <2> QED BY <1>5, <2>1, <2>2 DEF Told
<1>6. ASSUME Waits(more, n), \A j \in 1..Len(more) : more[j].addr = n => (n \in registered <=> more[j].kind = "put")
      PROVE  Told(all, n, registered)
  <2> SUFFICES ASSUME NEW i \in 1..Len(all), all[i].addr = n,
                      \A j \in 1..Len(all) : all[j].addr = n => j <= i
               PROVE  n \in registered <=> all[i].kind = "put"
    BY DEF Told
  <2>1. PICK j \in 1..Len(more) : more[j].addr = n
    BY <1>6 DEF Waits
  <2>2. j + Len(todo) <= i
    BY <1>2, <2>1
  <2>3. i \notin 1..Len(todo)
    BY <1>1, <2>2
  <2> QED BY <1>3, <1>6, <2>3
<1> QED BY <1>1, <1>3, <1>4, <1>5, <1>6 DEF all

\* What the pickers hear: one event for each node that changed.
LEMMA HeardKnows ==
  ASSUME services \in [Nodes -> Nat], services' \in [Nodes -> Nat],
         NEW p \in Pickers, NEW pk, PickerOK(p, pk), PickerKnows(p, pk, Registered)
  PROVE  PickerKnows(p, Heard(pk), Registered')
<1> DEFINE changed == {n \in Nodes : services'[n] # services[n]}
           Change(n) == Event(IF services'[n] = 0 THEN "delete" ELSE "put", n)
           ev == [n \in changed |-> Change(n)]
           more == SetToSeq({Change(n) : n \in changed})
<1>1. /\ more \in Seq(EventType)
      /\ \A i \in 1..Len(more) : more[i].addr \in changed /\ more[i] = ev[more[i].addr]
      /\ \A n \in changed : \E i \in 1..Len(more) : more[i].addr = n
  <2>1. /\ changed \in SUBSET Nodes /\ ev \in [changed -> EventType]
        /\ \A n \in changed : ev[n].addr = n
    BY DEF Event, EventType
  <2>2. {Change(n) : n \in changed} = {ev[n] : n \in changed}
    OBVIOUS
  <2> HIDE DEF ev, changed, Change
  <2>3. LET s == SetToSeq({ev[n] : n \in changed})
        IN /\ s \in Seq(EventType)
           /\ \A i \in 1..Len(s) : s[i].addr \in changed /\ s[i] = ev[s[i].addr]
           /\ \A n \in changed : \E i \in 1..Len(s) : s[i].addr = n
    BY <2>1, EventsOf
  <2> QED BY <2>2, <2>3
<1>2. \A n \in changed : /\ ev[n].kind = IF n \in Registered' THEN "put" ELSE "delete"
                         /\ ev[n].kind \in {"put", "delete"}
  BY DEF Event, Registered
<1>3. /\ changed \subseteq Nodes /\ Registered' \subseteq Nodes
      /\ \A n \in Nodes \ changed : n \in Registered' <=> n \in Registered
  BY DEF Registered
<1>4. pk \in PickerType /\ pk.todo \in Seq(EventType) /\ (pk.half => pk.todo # <<>>)
  BY DEF PickerOK, PickerType, EventType
<1>5. CASE pk.at = "watch"
  <2> DEFINE todo == pk.todo
             all == todo \o more
  <2>1. Heard(pk) = [pk EXCEPT !.todo = @ \o more, !.missed = @ \ changed]
    BY <1>5 DEF Heard
  <2> HIDE DEF more, changed, ev
  <2>2. /\ Heard(pk).todo = all /\ Heard(pk).at = "watch" /\ Heard(pk).half = pk.half
        /\ Heard(pk).clients = pk.clients /\ Heard(pk).added = pk.added
        /\ Heard(pk).missed = pk.missed \ changed
    BY <1>4, <1>5, <2>1 DEF PickerType
  <2>3. todo # <<>> => Head(all) = Head(todo)
    BY <1>1, <1>4
  <2>4. \A i \in 1..Len(all) : all[i].kind \in {"put", "delete"}
    <3>1. \A i \in 1..Len(all) : \/ i \in 1..Len(todo) /\ all[i] = todo[i]
                                 \/ \E j \in 1..Len(more) : all[i] = more[j]
      BY <1>1, <1>4, MoreTold
    <3>2. \A i \in 1..Len(todo) : todo[i].kind \in {"put", "delete"}
      BY <1>5 DEF PickerKnows
    <3>3. \A j \in 1..Len(more) : more[j].kind \in {"put", "delete"}
      BY <1>1, <1>2
    <3> QED BY <3>1, <3>2, <3>3
  <2>5. ASSUME NEW n \in Nodes \ ({p} \cup Heard(pk).missed)
        PROVE  Known(Heard(pk), n, Registered')
    <3>1. CASE n \in changed
      <4>1. Waits(more, n)
        BY <1>1, <3>1 DEF Waits
      <4>2. \A j \in 1..Len(more) : more[j].addr = n => (n \in Registered' <=> more[j].kind = "put")
        BY <1>1, <1>2, <3>1
      <4>3. Waits(all, n) /\ Told(all, n, Registered')
        BY <1>1, <1>4, <4>1, <4>2, MoreTold
      <4> QED BY <2>2, <4>3 DEF Known
    <3>2. CASE n \notin changed
      <4>1. ~Waits(more, n)
        BY <1>1, <3>2 DEF Waits
      <4>2. Known(pk, n, Registered')
        <5>1. Known(pk, n, Registered) /\ (n \in Registered' <=> n \in Registered)
          BY <1>3, <1>5, <2>2, <3>2 DEF PickerKnows
        <5> QED BY <5>1 DEF Known, Told
      <4>3. Told(todo, n, Registered')
        BY <1>5, <4>2 DEF Known
      <4>4. Told(all, n, Registered') /\ (Waits(all, n) <=> Waits(todo, n))
        BY <1>1, <1>4, <4>1, <4>3, MoreTold
      <4> QED BY <2>2, <4>2, <4>4 DEF Known
    <3> QED BY <3>1, <3>2
  <2> HIDE DEF all
  <2> QED BY <1>4, <2>2, <2>3, <2>4, <2>5 DEF PickerKnows
<1>6. CASE pk.at = "apply"
  <2>1. Heard(pk) = [pk EXCEPT !.missed = @ \cup changed]
    BY <1>6 DEF Heard
  <2> HIDE DEF changed
  <2>2. /\ Heard(pk).todo = pk.todo /\ Heard(pk).at = pk.at /\ Heard(pk).half = pk.half
        /\ Heard(pk).clients = pk.clients /\ Heard(pk).added = pk.added
        /\ Heard(pk).missed = pk.missed \cup changed
    BY <1>4, <2>1 DEF PickerType
  <2>3. ASSUME NEW n \in Nodes \ ({p} \cup Heard(pk).missed)
        PROVE  Known(Heard(pk), n, Registered')
    <3>1. Known(pk, n, Registered) /\ (n \in Registered' <=> n \in Registered)
      BY <1>3, <1>6, <2>2 DEF PickerKnows
    <3> QED BY <1>6, <2>2, <3>1 DEF Known
  <2> QED BY <1>6, <2>2, <2>3 DEF PickerKnows
<1>7. CASE pk.at \notin {"watch", "apply"}
  <2>1. Heard(pk) = pk
    BY <1>7 DEF Heard
  <2> QED BY <1>7, <2>1 DEF PickerKnows
<1> QED BY <1>5, <1>6, <1>7

\* What discovery does with the head of todo.
LEMMA HandledKnows ==
  ASSUME NEW p \in Pickers, NEW pk, PickerOK(p, pk), NEW registered, PickerKnows(p, pk, registered),
         pk.todo # <<>>, NEW new,
         new.at = pk.at, new.todo = Tail(pk.todo), ~new.half, pk.missed \subseteq new.missed,
         pk.at \notin {"off", "fetch"},
         \A n \in Nodes \ {p, Head(pk.todo).addr} :
           (n \in new.clients <=> n \in pk.clients) /\ (n \in new.added <=> n \in pk.added),
         \/ Head(pk.todo).addr \in {p} \cup new.missed
         \/ /\ Head(pk.todo).kind = "delete"
            /\ Head(pk.todo).addr \notin new.clients /\ Head(pk.todo).addr \notin new.added
         \/ /\ Head(pk.todo).kind # "delete"
            /\ Head(pk.todo).addr \in new.clients /\ Head(pk.todo).addr \in new.added
  PROVE  PickerKnows(p, new, registered)
<1> DEFINE todo == pk.todo
           head == Head(todo)
<1>1. todo \in Seq(EventType) /\ todo # <<>>
  BY DEF PickerOK, PickerType, EventType
<1>2. /\ 1 \in 1..Len(todo) /\ head = todo[1]
      /\ \A i \in 1..Len(Tail(todo)) : i+1 \in 1..Len(todo) /\ Tail(todo)[i] = todo[i+1]
  BY <1>1, TailTold
<1>3. \A i \in 1..Len(Tail(todo)) : /\ pk.at = "apply" => Tail(todo)[i].kind = "found"
                                    /\ pk.at = "watch" => Tail(todo)[i].kind \in {"put", "delete"}
  BY <1>2 DEF PickerKnows
<1>4. (pk.at = "apply" => head.kind = "found") /\ (pk.at = "watch" => head.kind \in {"put", "delete"})
  BY <1>2 DEF PickerKnows
<1>5. ASSUME pk.at \in {"apply", "watch"}, NEW n \in Nodes \ ({p} \cup new.missed)
      PROVE  Known(new, n, registered)
  <2>1. Known(pk, n, registered)
    BY <1>5 DEF PickerKnows
  <2>2. /\ Waits(Tail(todo), n) => Waits(todo, n)
        /\ head.addr = n => Waits(todo, n)
        /\ head.addr # n /\ Waits(todo, n) => Waits(Tail(todo), n)
        /\ Told(todo, n, registered) => /\ Told(Tail(todo), n, registered)
                                        /\ head.addr = n /\ ~Waits(Tail(todo), n) => (n \in registered <=> head.kind = "put")
    BY <1>1, <2>1, TailTold
  <2>a. /\ pk.todo = todo /\ new.todo = Tail(todo) /\ new.at = pk.at
        /\ head.addr # n => (n \in new.clients <=> n \in pk.clients) /\ (n \in new.added <=> n \in pk.added)
    BY <1>5
  <2>b. head.addr = n => \/ head.kind = "delete" /\ n \notin new.clients /\ n \notin new.added
                         \/ head.kind # "delete" /\ n \in new.clients /\ n \in new.added
    BY <1>5
  <2>k. /\ ~Waits(todo, n) => (n \in registered <=> n \in pk.clients) /\ (n \in registered <=> n \in pk.added)
        /\ pk.at = "apply" /\ Waits(todo, n) => n \in registered
        /\ pk.at = "watch" => Told(todo, n, registered)
    BY <2>1 DEF Known
  <2>c. Known(new, n, registered) <=>
          /\ ~Waits(Tail(todo), n) => (n \in registered <=> n \in new.clients) /\ (n \in registered <=> n \in new.added)
          /\ pk.at = "apply" /\ Waits(Tail(todo), n) => n \in registered
          /\ pk.at = "watch" => Told(Tail(todo), n, registered)
    BY <2>a DEF Known
  <2> HIDE DEF head, todo
  <2>3. CASE head.addr = n
    <3>1. ~Waits(Tail(todo), n) => (n \in registered <=> head.kind # "delete")
      <4>1. CASE pk.at = "apply"
        BY <1>4, <2>2, <2>3, <2>k, <4>1
      <4>2. CASE pk.at = "watch"
        BY <1>4, <2>2, <2>3, <2>k, <4>2
      <4> QED BY <1>5, <4>1, <4>2
    <3>2. (n \in new.clients <=> head.kind # "delete") /\ (n \in new.added <=> head.kind # "delete")
      BY <2>3, <2>b
    <3>3. /\ pk.at = "apply" => n \in registered
          /\ pk.at = "watch" => Told(Tail(todo), n, registered)
      BY <2>2, <2>3, <2>k
    <3> QED BY <2>c, <3>1, <3>2, <3>3
  <2>4. CASE head.addr # n
    BY <2>2, <2>4, <2>a, <2>c, <2>k
  <2> QED BY <2>3, <2>4
<1> HIDE DEF head
<1> QED BY <1>3, <1>5 DEF PickerKnows

\* The first half of the head of todo: its node still has an event.
LEMMA HalfKnows ==
  ASSUME NEW p \in Pickers, NEW pk, PickerOK(p, pk), NEW registered, PickerKnows(p, pk, registered),
         pk.todo # <<>>, NEW new,
         new.at = pk.at, new.todo = pk.todo, new.missed = pk.missed,
         pk.at \notin {"off", "fetch"},
         \A n \in Nodes \ {Head(pk.todo).addr} :
           (n \in new.clients <=> n \in pk.clients) /\ (n \in new.added <=> n \in pk.added),
         Head(pk.todo).kind = "found" => Head(pk.todo).addr \in new.added,
         Head(pk.todo).kind = "delete" => Head(pk.todo).addr \notin new.clients
  PROVE  PickerKnows(p, new, registered)
<1> DEFINE todo == pk.todo
           head == Head(todo)
<1>1. todo \in Seq(EventType) /\ todo # <<>>
  BY DEF PickerOK, PickerType, EventType
<1>2. ASSUME pk.at \in {"apply", "watch"}, NEW n \in Nodes \ ({p} \cup new.missed)
      PROVE  Known(new, n, registered)
  <2>1. Known(pk, n, registered)
    BY <1>2 DEF PickerKnows
  <2>2. head.addr = n => Waits(todo, n)
    BY <1>1, TailTold
  <2>3. head.addr # n => (n \in new.clients <=> n \in pk.clients) /\ (n \in new.added <=> n \in pk.added)
    BY <1>2
  <2> QED BY <2>1, <2>2, <2>3 DEF Known
<1> QED BY <1>2 DEF PickerKnows

\* One picker changes, and no service.
LEMMA KnowKept ==
  ASSUME PickIInv, KnowIInv, services' = services, NEW p \in Pickers, NEW pk,
         PickerKnows(p, pk, Registered), picker' = [picker EXCEPT ![p] = pk]
  PROVE  KnowIInv'
<1>1. Registered' = Registered
  BY DEF Registered
<1>2. picker \in [Pickers -> PickerType]
  BY DEF PickIInv
<1>3. ASSUME NEW q \in Pickers PROVE PickerKnows(q, picker'[q], Registered)
  <2>1. CASE q = p
    BY <1>2, <2>1
  <2>2. CASE q # p
    <3>1. picker'[q] = picker[q]
      BY <1>2, <2>2
    <3> QED BY <3>1 DEF KnowIInv
  <2> QED BY <2>1, <2>2
<1>4. \A q \in Pickers : PickerKnows(q, picker'[q], Registered')
  BY <1>1, <1>3
<1> QED BY <1>4 DEF KnowIInv

\* The first read: an address for each registered node.
LEMMA FetchAllKnows ==
  ASSUME PickIInv, KnowIInv, services' = services, NEW p \in Pickers, FetchAll(p)
  PROVE  KnowIInv'
<1> DEFINE pk == picker[p]
           nodes == {m \in Nodes \ {p} : services[m] # 0}
           ev == [n \in nodes |-> Event("found", n)]
           todo == SetToSeq({Event("found", n) : n \in nodes})
           new == [pk EXCEPT !.at = "apply", !.todo = todo]
<1>0. /\ PickerOK(p, pk) /\ picker \in [Pickers -> PickerType]
      /\ PickerKnows(p, pk, Registered)
  BY DEF PickIInv, KnowIInv
<1>1. nodes \in SUBSET Nodes /\ ev \in [nodes -> EventType] /\ \A n \in nodes : ev[n].addr = n
  BY DEF Event, EventType
<1>2. {Event("found", n) : n \in nodes} = {ev[n] : n \in nodes}
  OBVIOUS
<1>3. \A n \in nodes : ev[n].kind = "found"
  BY DEF Event
<1>4. \A n \in Nodes \ {p} : n \in nodes <=> n \in Registered
  BY DEF Registered
<1>5. /\ \A i \in 1..Len(todo) : todo[i].addr \in nodes /\ todo[i].kind = "found"
      /\ \A n \in nodes : \E i \in 1..Len(todo) : todo[i].addr = n
  <2> HIDE DEF nodes, ev
  <2>1. LET s == SetToSeq({ev[n] : n \in nodes})
        IN /\ s \in Seq(EventType)
           /\ \A i \in 1..Len(s) : s[i].addr \in nodes /\ s[i] = ev[s[i].addr]
           /\ \A n \in nodes : \E i \in 1..Len(s) : s[i].addr = n
    BY <1>1, EventsOf
  <2>2. todo = SetToSeq({ev[n] : n \in nodes})
    BY <1>2
  <2> HIDE DEF todo
  <2>3. /\ \A i \in 1..Len(todo) : todo[i].addr \in nodes /\ todo[i] = ev[todo[i].addr]
        /\ \A n \in nodes : \E i \in 1..Len(todo) : todo[i].addr = n
    BY <2>1, <2>2
  <2> QED BY <1>3, <2>3
<1>6. pk.at = "fetch" /\ picker' = [picker EXCEPT ![p] = new]
  BY <1>0 DEF FetchAll
<1>7. /\ pk \in PickerType /\ ~pk.half
      /\ pk.clients = {} /\ pk.added \subseteq {p}
  BY <1>0, <1>6 DEF PickerOK, PickerKnows
<1> HIDE DEF nodes, todo
<1>8. /\ new.at = "apply" /\ new.todo = todo /\ ~new.half
      /\ new.clients = {} /\ new.added \subseteq {p}
  BY <1>7 DEF PickerType
<1> HIDE DEF new
<1>9. ASSUME NEW n \in Nodes \ {p} PROVE Known(new, n, Registered)
  <2>1. Waits(todo, n) <=> n \in Registered
    BY <1>4, <1>5 DEF Waits
  <2> QED BY <1>8, <2>1 DEF Known
<1>10. PickerKnows(p, new, Registered)
  BY <1>5, <1>8, <1>9 DEF PickerKnows
<1> QED BY <1>6, <1>10, KnowKept

LEMMA HandledType ==
  ASSUME NEW p \in Pickers, NEW pk, PickerOK(p, pk), pk.todo # <<>>
  PROVE  /\ Handled(pk) \in PickerType /\ RingOfReplicas(Handled(pk))
         /\ Head(pk.todo).addr \in Nodes
<1>1. pk \in PickerType /\ pk.todo \in Seq(EventType)
  BY DEF PickerOK, PickerType, EventType
<1>2. Head(pk.todo) \in EventType /\ Tail(pk.todo) \in Seq(EventType)
  BY <1>1
<1> QED BY <1>1, <1>2 DEF PickerOK, Handled, PickerType, EventType, RingOfReplicas

LEMMA DiscoverKnows ==
  ASSUME PickIInv, KnowIInv, services' = services, NEW p \in Pickers,
         Discover(p) \/ WatchCloses(p)
  PROVE  KnowIInv'
<1> DEFINE pk == picker[p]
           head == Head(pk.todo)
<1>0. /\ PickerOK(p, pk) /\ picker \in [Pickers -> PickerType]
      /\ PickerKnows(p, pk, Registered)
  BY DEF PickIInv, KnowIInv
<1>t. pk \in PickerType /\ pk.half \in BOOLEAN
  BY <1>0 DEF PickerOK, PickerType
<1>h. pk.half => pk.todo # <<>>
  BY <1>0 DEF PickerOK
<1>d. /\ Handled(pk).todo = Tail(pk.todo) /\ ~Handled(pk).half
      /\ Handled(pk).at = pk.at /\ Handled(pk).clients = pk.clients
      /\ Handled(pk).added = pk.added /\ Handled(pk).missed = pk.missed
  BY <1>t DEF Handled, PickerType
<1>1. CASE FetchAll(p)
  BY <1>1, FetchAllKnows
<1>2. CASE FetchFails(p) \/ FoundRefused(p)
  <2> DEFINE new == [pk EXCEPT !.at = "ended"]
  <2>1. picker' = [picker EXCEPT ![p] = new]
    BY <1>0, <1>2 DEF FetchFails, FoundRefused
  <2>2. /\ new.at = "ended" /\ new.todo = pk.todo /\ new.half = pk.half
        /\ new.clients = pk.clients /\ new.added = pk.added
    BY <1>t DEF PickerType
  <2> HIDE DEF new
  <2>3. PickerKnows(p, new, Registered)
    BY <1>0, <2>2 DEF PickerKnows
  <2> QED BY <2>1, <2>3, KnowKept
<1>3. CASE WatchStart(p)
  <2> DEFINE new == [pk EXCEPT !.at = "watch"]
  <2>1. picker' = [picker EXCEPT ![p] = new] /\ pk.at = "apply" /\ pk.todo = <<>>
    BY <1>0, <1>3 DEF WatchStart
  <2>2. /\ new.at = "watch" /\ new.todo = <<>> /\ ~new.half
        /\ new.clients = pk.clients /\ new.added = pk.added /\ new.missed = pk.missed
    BY <1>t, <1>h, <2>1 DEF PickerType
  <2> HIDE DEF new
  <2>3. ASSUME NEW n \in Nodes \ ({p} \cup new.missed) PROVE Known(new, n, Registered)
    <3>1. Known(pk, n, Registered)
      BY <1>0, <2>1, <2>2 DEF PickerKnows
    <3> QED BY <2>1, <2>2, <3>1 DEF Known, Waits, Told
  <2>4. PickerKnows(p, new, Registered)
    BY <2>2, <2>3 DEF PickerKnows
  <2> QED BY <2>1, <2>4, KnowKept
<1>4. CASE WatchCloses(p)
  <2> DEFINE new == [pk EXCEPT !.at = "ended", !.todo = <<>>]
  <2>1. picker' = [picker EXCEPT ![p] = new] /\ ~pk.half
    BY <1>0, <1>4 DEF WatchCloses
  <2>2. new.at = "ended" /\ new.todo = <<>> /\ ~new.half
    BY <1>t, <2>1 DEF PickerType
  <2> HIDE DEF new
  <2>3. PickerKnows(p, new, Registered)
    BY <2>2 DEF PickerKnows
  <2> QED BY <2>1, <2>3, KnowKept
\* The first half of an event.
<1>5. ASSUME NEW new, picker' = [picker EXCEPT ![p] = new],
             pk.at \notin {"off", "fetch"}, pk.todo # <<>>,
             new.at = pk.at, new.todo = pk.todo, new.missed = pk.missed,
             \A n \in Nodes \ {head.addr} :
               (n \in new.clients <=> n \in pk.clients) /\ (n \in new.added <=> n \in pk.added),
             head.kind = "found" => head.addr \in new.added,
             head.kind = "delete" => head.addr \notin new.clients
      PROVE  KnowIInv'
  <2>1. PickerKnows(p, new, Registered)
    BY <1>0, <1>5, HalfKnows
  <2> QED BY <1>5, <2>1, KnowKept
\* All of an event.
<1>6. ASSUME NEW new, picker' = [picker EXCEPT ![p] = new],
             pk.at \notin {"off", "fetch"}, pk.todo # <<>>,
             new.at = pk.at, new.todo = Tail(pk.todo), ~new.half, pk.missed \subseteq new.missed,
             \A n \in Nodes \ {p, head.addr} :
               (n \in new.clients <=> n \in pk.clients) /\ (n \in new.added <=> n \in pk.added),
             \/ head.addr \in {p} \cup new.missed
             \/ head.kind = "delete" /\ head.addr \notin new.clients /\ head.addr \notin new.added
             \/ head.kind # "delete" /\ head.addr \in new.clients /\ head.addr \in new.added
      PROVE  KnowIInv'
  <2>1. PickerKnows(p, new, Registered)
    BY <1>0, <1>6, HandledKnows
  <2> QED BY <1>6, <2>1, KnowKept
<1>7. CASE FoundRing(p)
  <2> DEFINE new == [RingAdd(pk, head.addr) EXCEPT !.half = TRUE]
  <2>1. /\ picker' = [picker EXCEPT ![p] = new]
        /\ pk.at \in {"apply", "watch"} /\ pk.todo # <<>> /\ head.kind = "found"
    BY <1>0, <1>7 DEF FoundRing, Subject, Next1
  <2>2. /\ new.at = pk.at /\ new.todo = pk.todo /\ new.missed = pk.missed
        /\ new.clients = pk.clients /\ new.added = pk.added \cup {head.addr}
    BY <1>t DEF PickerType, RingAdd
  <2> HIDE DEF new
  <2> QED BY <2>1, <2>2, <1>5
<1>8. CASE PutClient(p)
  <2> DEFINE new == [pk EXCEPT !.clients = @ \cup {head.addr}, !.half = TRUE]
  <2>1. /\ picker' = [picker EXCEPT ![p] = new]
        /\ pk.at \in {"apply", "watch"} /\ pk.todo # <<>> /\ head.kind = "put"
    BY <1>0, <1>8 DEF PutClient, Subject, Next1
  <2>2. /\ new.at = pk.at /\ new.todo = pk.todo /\ new.missed = pk.missed
        /\ new.clients = pk.clients \cup {head.addr} /\ new.added = pk.added
    BY <1>t DEF PickerType
  <2> HIDE DEF new
  <2> QED BY <2>1, <2>2, <1>5
<1>9. CASE DeleteClient(p)
  <2> DEFINE new == [pk EXCEPT !.clients = @ \ {head.addr}, !.half = TRUE]
  <2>1. /\ picker' = [picker EXCEPT ![p] = new]
        /\ pk.at \in {"apply", "watch"} /\ pk.todo # <<>> /\ head.kind = "delete"
    BY <1>0, <1>9 DEF DeleteClient, Subject, Next1
  <2>2. /\ new.at = pk.at /\ new.todo = pk.todo /\ new.missed = pk.missed
        /\ new.clients = pk.clients \ {head.addr} /\ new.added = pk.added
    BY <1>t DEF PickerType
  <2> HIDE DEF new
  <2> QED BY <2>1, <2>2, <1>5
<1>10. CASE FoundClient(p)
  <2> DEFINE new == [Handled(pk) EXCEPT !.clients = @ \cup {head.addr}]
  <2>1. /\ picker' = [picker EXCEPT ![p] = new]
        /\ pk.at \in {"apply", "watch"} /\ pk.half /\ head.kind = "found"
    BY <1>0, <1>10 DEF FoundClient, Subject, Next2
  <2>2. /\ new.at = pk.at /\ new.todo = Tail(pk.todo) /\ ~new.half /\ new.missed = pk.missed
        /\ new.clients = pk.clients \cup {head.addr} /\ new.added = pk.added
    BY <1>d, <1>t DEF Handled, PickerType
  <2>3. head.addr \in pk.added
    BY <1>0, <2>1 DEF PickerKnows
  <2> HIDE DEF new
  <2> QED BY <1>h, <2>1, <2>2, <2>3, <1>6
<1>11. CASE PutRing(p)
  <2> DEFINE new == RingAdd(Handled(pk), head.addr)
  <2>1. /\ picker' = [picker EXCEPT ![p] = new]
        /\ pk.at \in {"apply", "watch"} /\ pk.half /\ head.kind = "put"
    BY <1>0, <1>11 DEF PutRing, Subject, Next2
  <2>2. /\ new.at = pk.at /\ new.todo = Tail(pk.todo) /\ ~new.half /\ new.missed = pk.missed
        /\ new.clients = pk.clients /\ new.added = pk.added \cup {head.addr}
    BY <1>d, <1>t DEF Handled, PickerType, RingAdd
  <2>3. head.addr \in pk.clients
    BY <1>0, <2>1 DEF PickerOK
  <2> HIDE DEF new
  <2> QED BY <1>h, <2>1, <2>2, <2>3, <1>6
<1>12. CASE DeleteRing(p)
  <2> DEFINE done == Handled(pk)
  <2>1. PICK new \in RingRemoves(done, head.addr) : picker' = [picker EXCEPT ![p] = new]
    BY <1>0, <1>12 DEF DeleteRing, Subject
  <2>a. pk.at \in {"apply", "watch"} /\ pk.half /\ head.kind = "delete"
    BY <1>12 DEF DeleteRing, Next2
  <2>b. done \in PickerType /\ RingOfReplicas(done) /\ head.addr \in Nodes
    BY <1>0, <1>h, <2>a, HandledType DEF PickerOK
  <2> HIDE DEF done
  <2>c. SameButRing(done, new) /\ new.added = done.added \ {head.addr}
    BY <2>1, <2>b, RingRemovesOK
  <2>2. /\ new.at = pk.at /\ new.todo = Tail(pk.todo) /\ ~new.half /\ new.missed = pk.missed
        /\ new.clients = pk.clients /\ new.added = pk.added \ {head.addr}
    BY <1>d, <2>c DEF SameButRing, done
  <2>3. head.addr \notin pk.clients
    BY <1>0, <2>a DEF PickerKnows
  <2> QED BY <1>h, <2>1, <2>2, <2>3, <2>a, <1>6
<1>13. CASE SkipSelf(p)
  <2> DEFINE new == Handled(pk)
  <2>1. /\ picker' = [picker EXCEPT ![p] = new] /\ head.addr = p
        /\ pk.at \in {"apply", "watch"} /\ pk.todo # <<>>
    BY <1>0, <1>13 DEF SkipSelf, Subject, Next1
  <2> HIDE DEF new
  <2>2. /\ new.at = pk.at /\ new.todo = Tail(pk.todo) /\ ~new.half /\ new.missed = pk.missed
        /\ new.clients = pk.clients /\ new.added = pk.added
    BY <1>d DEF new
  <2> QED BY <2>1, <2>2, <1>6
<1>14. CASE PutRefused(p)
  <2> DEFINE new == [Handled(pk) EXCEPT !.missed = @ \cup {head.addr}]
  <2>1. /\ picker' = [picker EXCEPT ![p] = new]
        /\ pk.at \in {"apply", "watch"} /\ pk.todo # <<>>
    BY <1>0, <1>14 DEF PutRefused, Subject, Next1
  <2>2. /\ new.at = pk.at /\ new.todo = Tail(pk.todo) /\ ~new.half
        /\ new.missed = pk.missed \cup {head.addr}
        /\ new.clients = pk.clients /\ new.added = pk.added
    BY <1>d, <1>t DEF Handled, PickerType
  <2> HIDE DEF new
  <2> QED BY <2>1, <2>2, <1>6
<1> QED
  BY <1>1, <1>2, <1>3, <1>4, <1>7, <1>8, <1>9, <1>10, <1>11, <1>12, <1>13, <1>14 DEF Discover

LEMMA InitKnowIInv == Init => KnowIInv
<1> SUFFICES ASSUME Init, NEW p \in Pickers PROVE PickerKnows(p, picker[p], Registered)
  BY DEF KnowIInv
<1>1. picker[p] = Off
  BY DEF Init
<1> QED BY <1>1 DEF PickerKnows, Off

LEMMA NextKnowIInv == RegIInv /\ RegIInv' /\ PickIInv /\ KnowIInv /\ [Next]_vars => KnowIInv'
<1> SUFFICES ASSUME RegIInv, RegIInv', PickIInv, KnowIInv, [Next]_vars PROVE KnowIInv'
  OBVIOUS
<1>0. \A p \in Pickers : PickerOK(p, picker[p]) /\ PickerKnows(p, picker[p], Registered)
  BY DEF PickIInv, KnowIInv
<1>s. services \in [Nodes -> Nat] /\ services' \in [Nodes -> Nat]
  BY DEF RegIInv, RegTypeOK
<1>h. \A p \in Pickers : PickerKnows(p, Heard(picker[p]), Registered')
  BY <1>0, <1>s, HeardKnows
<1>o. ASSUME NEW p \in Pickers, NEW pk, NEW registered,
             pk = Off \/ pk = [Off EXCEPT !.at = "fetch"]
      PROVE  PickerKnows(p, pk, registered)
  <2>1. pk.todo = <<>> /\ pk.clients = {} /\ pk.added = {} /\ ~pk.half /\ pk.at \in {"off", "fetch"}
    BY <1>o DEF Off
  <2> QED BY <2>1 DEF PickerKnows
<1>r. services' = services => Registered' = Registered
  BY DEF Registered
<1>1. ASSUME NEW n \in Nodes, Begin(n) PROVE KnowIInv'
  <2>1. /\ picker' = [p \in Pickers |-> IF p = n THEN [Off EXCEPT !.at = "fetch"] ELSE picker[p]]
        /\ services' = services
    BY <1>1 DEF Begin, Launch
  <2>2. ASSUME NEW p \in Pickers PROVE PickerKnows(p, picker'[p], Registered')
    <3>1. picker'[p] = [Off EXCEPT !.at = "fetch"] \/ picker'[p] = picker[p]
      BY <2>1
    <3> QED BY <1>0, <1>o, <1>r, <2>1, <3>1
  <2> QED BY <2>2 DEF KnowIInv
<1>2. ASSUME NEW n \in Nodes, Register(n) \/ Expire(n) PROVE KnowIInv'
  <2>1. picker' = [p \in Pickers |-> Heard(picker[p])]
    BY <1>2 DEF Register, Expire
  <2>2. \A p \in Pickers : PickerKnows(p, picker'[p], Registered')
    BY <1>h, <2>1
  <2> QED BY <2>2 DEF KnowIInv
<1>3. ASSUME NEW n \in Nodes, Stop(n) PROVE KnowIInv'
  <2>1. picker' = [p \in Pickers |-> IF p = n THEN Off ELSE Heard(picker[p])]
    BY <1>3 DEF Stop
  <2>2. ASSUME NEW p \in Pickers PROVE PickerKnows(p, picker'[p], Registered')
    <3>1. picker'[p] = Off \/ picker'[p] = Heard(picker[p])
      BY <2>1
    <3> QED BY <1>h, <1>o, <3>1
  <2> QED BY <2>2 DEF KnowIInv
<1>4. ASSUME NEW n \in Nodes, AddSelf(n) PROVE KnowIInv'
  <2>1. /\ picker' = [p \in Pickers |-> IF p = n THEN RingAdd(picker[p], n) ELSE picker[p]]
        /\ services' = services
    BY <1>4 DEF AddSelf, Started
  <2>2. ASSUME NEW p \in Pickers PROVE PickerKnows(p, picker'[p], Registered)
    <3>1. CASE p = n
      <4> DEFINE pk == picker[p]
                 new == RingAdd(pk, p)
      <4>1. pk \in PickerType /\ PickerKnows(p, pk, Registered)
        BY <1>0 DEF PickerOK
      <4>2. /\ new.at = pk.at /\ new.todo = pk.todo /\ new.half = pk.half /\ new.missed = pk.missed
            /\ new.clients = pk.clients /\ new.added = pk.added \cup {p}
        BY <4>1 DEF PickerType, RingAdd
      <4>3. picker'[p] = new
        BY <2>1, <3>1
      <4> HIDE DEF new, pk
      <4>4. ASSUME NEW q \in Nodes \ ({p} \cup new.missed), pk.at \in {"apply", "watch"}
            PROVE  Known(new, q, Registered)
        <5>1. Known(pk, q, Registered)
          BY <4>1, <4>2, <4>4 DEF PickerKnows
        <5> QED BY <4>2, <5>1 DEF Known
      <4>5. PickerKnows(p, new, Registered)
        BY <4>1, <4>2, <4>4 DEF PickerKnows
      <4> QED BY <4>3, <4>5
    <3>2. CASE p # n
      BY <1>0, <2>1, <3>2
    <3> QED BY <3>1, <3>2
  <2> QED BY <1>r, <2>1, <2>2 DEF KnowIInv
<1>5. ASSUME NEW p \in Pickers, Discover(p) \/ WatchCloses(p) PROVE KnowIInv'
  <2>1. services' = services
    BY <1>5 DEF Discover, WatchCloses, regvars
  <2> QED BY <1>5, <2>1, DiscoverKnows
<1>6. ASSUME NEW p \in Pickers, RingOnly(p) PROVE KnowIInv'
  <2>1. services' = services
    BY <1>6 DEF RingOnly, Snapshot, PassRevives, regvars
  <2>2. picker \in [Pickers -> PickerType] /\ RingOfReplicas(picker[p])
    BY <1>0 DEF PickIInv, PickerOK
  <2>3. PICK new : /\ picker' = [picker EXCEPT ![p] = new] /\ SameButRing(picker[p], new)
                   /\ new.added = picker[p].added
    BY <1>6, <2>2, RingOnlyOK
  <2>4. PickerKnows(p, new, Registered)
    BY <1>0, <2>3 DEF PickerKnows, Known, SameButRing
  <2> QED BY <2>1, <2>3, <2>4, KnowKept
<1>7. ASSUME UNCHANGED vars PROVE KnowIInv'
  <2>1. picker' = picker /\ services' = services
    BY <1>7 DEF vars
  <2> QED BY <1>0, <1>r, <2>1 DEF KnowIInv
<1> QED BY <1>1, <1>2, <1>3, <1>4, <1>5, <1>6, <1>7 DEF Next, RingOnly

(* For any number of nodes, pickers and events, a picker that watches knows   *)
(* which nodes are registered, but for what it missed: a node without an      *)
(* event has a client, and has been given to the ring, exactly when it is     *)
(* registered, and the last event of a node tells what it is now (peer.go,    *)
(* lines 91-186).                                                             *)
THEOREM CaughtUpHolds == Spec => []CaughtUp
<1>1. Init => PickIInv /\ KnowIInv
  BY InitPickIInv, InitKnowIInv
<1>2. PickIInv /\ KnowIInv => CaughtUp
  <2> SUFFICES ASSUME PickIInv, KnowIInv, NEW p \in Pickers, picker[p].at = "watch",
                      NEW n \in Nodes \ ({p} \cup picker[p].missed)
               PROVE  LET pk      == picker[p]
                          pending == {i \in DOMAIN pk.todo : pk.todo[i].addr = n}
                      IN /\ pending = {} =>
                              /\ services[n] # 0 <=> n \in pk.clients
                              /\ services[n] # 0 <=> n \in pk.added
                              /\ ~pk.replaced /\ n \notin pk.revived => (services[n] # 0 <=> n \in pk.ring)
                         /\ \A i \in pending :
                              (\A j \in pending : j <= i) => (services[n] # 0 <=> pk.todo[i].kind = "put")
    BY DEF CaughtUp
  <2> DEFINE pk == picker[p]
  <2>1. pk.todo \in Seq(EventType) /\ PickerKnows(p, pk, Registered)
    BY DEF PickIInv, KnowIInv, PickerOK, PickerType, EventType
  <2>2. DOMAIN pk.todo = 1..Len(pk.todo)
    BY <2>1
  <2>3. Known(pk, n, Registered)
    BY <2>1 DEF PickerKnows
  <2>4. n \in Registered <=> services[n] # 0
    BY DEF Registered
  <2> HIDE DEF pk
  <2>5. /\ {i \in DOMAIN pk.todo : pk.todo[i].addr = n} = {} => ~Waits(pk.todo, n)
        /\ Told(pk.todo, n, Registered)
    BY <2>2, <2>3 DEF Known, Waits, pk
  <2>6. ~pk.replaced /\ n \notin pk.revived => (n \in pk.ring <=> n \in pk.added)
    BY DEF PickIInv, PickerOK, RingOfReplicas, pk
  <2> QED BY <2>2, <2>3, <2>4, <2>5, <2>6 DEF Known, Told, pk
<1> QED BY <1>1, <1>2, NextPickIInv, NextKnowIInv, NextRegIInv, RegIInvHolds, PTL DEF Spec
=============================================================================
