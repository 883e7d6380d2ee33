------------------------------- MODULE Discovery -------------------------------
(* The picker of a node (internal/server/peer.go): it reads the registered    *)
(* services once, then follows their changes, and keeps for each a gRPC       *)
(* client and its place on the hash ring.  A request goes to the client of    *)
(* the node the ring names; map and ring have locks of their own, and each    *)
(* update is two steps.                                                       *)
(*                                                                            *)
(* Of the ring only its nodes matter here: HashRing has the positions.        *)
(* consistenthash.Map goes by nodeReplicas, the nodes it has been given, and  *)
(* the ring is not always theirs: a snapshot replaces the one and not the     *)
(* other, and a pass of checkAndRebalance gives it nodes that have left.      *)
EXTENDS Registration, Sequences, SequencesExt

CONSTANTS Pickers,          \* the nodes whose picker is modelled
          MaxEvents         \* bound: the events a picker has not handled yet

ASSUME PickersAssumption ==
  /\ Pickers \subseteq Nodes /\ MaxEvents \in Nat \ {0}

VARIABLE picker             \* node -> the state of its picker

vars == <<services, live, lease, phase, keeping, picker>>

Event(kind, addr) == [kind |-> kind, addr |-> addr]

\* at: where discovery is; todo: the addresses read, or the events heard, that
\* are not handled yet; half: the first of the two updates of the head is made.
\* nodeReplicas is added, what discovery put there, and revived, what a pass has
\* put back since.  replaced (history): a snapshot has come.
\* missed (history): what changed after the read and before the watch, or was
\* refused by NewClient, and has not changed since.
Off == [at |-> "off", todo |-> <<>>, half |-> FALSE, clients |-> {}, ring |-> {}, added |-> {},
        revived |-> {}, replaced |-> FALSE, missed |-> {}]

Init == RegInit /\ picker = [p \in Pickers |-> Off]

\* The head of todo, before its first and before its second update.
Subject(p) == Head(picker[p].todo).addr
Next1(p, kind) == picker[p].at \in {"apply", "watch"} /\ picker[p].todo # <<>> /\ ~picker[p].half
                    /\ Head(picker[p].todo).kind = kind
Next2(p, kind) == picker[p].at \in {"apply", "watch"} /\ picker[p].half
                    /\ Head(picker[p].todo).kind = kind

\* Map.Add, which leaves a node of nodeReplicas as it is, on the ring or not.
RingAdd(pk, n) ==
  [pk EXCEPT !.ring = IF n \in pk.added \cup pk.revived THEN @ ELSE @ \cup {n},
             !.added = @ \cup {n}, !.revived = @ \ {n}]

\* Map.Remove, which leaves any other node as it is, and after a snapshot may
\* take out fewer virtual nodes than the ring has, or none.
RingRemoves(pk, n) ==
  IF n \notin pk.added \cup pk.revived THEN {pk}
  ELSE {[pk EXCEPT !.ring = ring, !.added = @ \ {n}, !.revived = @ \ {n}] :
          ring \in {pk.ring \ {n}} \cup IF pk.replaced THEN {pk.ring} ELSE {}}

Handled(pk) == [pk EXCEPT !.todo = Tail(@), !.half = FALSE]

\* A change of the services reaches the pickers that watch, in order; those
\* between their read and their watch miss it.
Heard(pk) ==
  LET changed == {n \in Nodes : services'[n] # services[n]}
      Change(n) == Event(IF services'[n] = 0 THEN "delete" ELSE "put", n)
  IN CASE pk.at = "watch" -> [pk EXCEPT !.todo = @ \o SetToSeq({Change(n) : n \in changed}),
                                        !.missed = @ \ changed]
       [] pk.at = "apply" -> [pk EXCEPT !.missed = @ \cup changed]
       [] OTHER           -> pk

\* The bound on what a picker has heard and not handled.
Room ==
  \/ services' = services
  \/ \A p \in Pickers : picker[p].at = "watch" => Len(picker[p].todo) < MaxEvents

-----------------------------------------------------------------------------
(* Faulty variants of the steps below, each the shape of a plausible slip:    *)
(* the runs use them to show that the properties can fail.                    *)

\* The client of a node that left is kept.
DeleteKeepsClient(p) ==
  /\ Next1(p, "delete") /\ Subject(p) # p
  /\ picker' = [picker EXCEPT ![p].half = TRUE]

\* The ring before the client, as in fetchAllServices.
PutFirstRing(p) ==
  /\ Next1(p, "put") /\ Subject(p) # p
  /\ picker' = [picker EXCEPT ![p] = [RingAdd(picker[p], Subject(p)) EXCEPT !.half = TRUE]]

\* The node is not removed from the ring.
DeleteSkipsRing(p) ==
  /\ Next2(p, "delete")
  /\ picker' = [picker EXCEPT ![p] = Handled(picker[p])]

\* The node is not put on the ring.
PutSkipsRing(p) ==
  /\ Next2(p, "put")
  /\ picker' = [picker EXCEPT ![p] = Handled(picker[p])]

\* The channel is left in the middle of an event.
WatchClosesMidEvent(p) ==
  /\ picker[p].at = "watch"
  /\ picker' = [picker EXCEPT ![p].at = "ended", ![p].todo = <<>>]
  /\ UNCHANGED regvars

-----------------------------------------------------------------------------
\* fetchAllServices reads every service but the node itself.
FetchAll(p) ==
  /\ picker[p].at = "fetch"
  /\ picker' = [picker EXCEPT
       ![p].at = "apply",
       ![p].todo = SetToSeq({Event("found", n) : n \in {m \in Nodes \ {p} : services[m] # 0}})]

\* The read fails: startServiceDiscovery returns, and nothing is ever watched.
FetchFails(p) ==
  /\ picker[p].at = "fetch"
  /\ picker' = [picker EXCEPT ![p].at = "ended"]

\* For each service read: the ring first.
FoundRing(p) ==
  /\ Next1(p, "found")
  /\ picker' = [picker EXCEPT ![p] = [RingAdd(picker[p], Subject(p)) EXCEPT !.half = TRUE]]

FoundClient(p) ==
  /\ Next2(p, "found")
  /\ picker' = [picker EXCEPT ![p] = [Handled(picker[p]) EXCEPT !.clients = @ \cup {Subject(p)}]]

\* NewClient returns an error: the discovery ends, the ring keeping the node.
FoundRefused(p) ==
  /\ Next2(p, "found")
  /\ picker' = [picker EXCEPT ![p].at = "ended"]

\* The watch starts at the present revision, not at that of the read.
WatchStart(p) ==
  /\ picker[p].at = "apply" /\ picker[p].todo = <<>>
  /\ picker' = [picker EXCEPT ![p].at = "watch"]

\* Events of the node itself are skipped.
SkipSelf(p) ==
  /\ Next1(p, "put") \/ Next1(p, "delete")
  /\ Subject(p) = p
  /\ picker' = [picker EXCEPT ![p] = Handled(picker[p])]

\* A put event: the client first.
PutClient(p) ==
  /\ Next1(p, "put") /\ Subject(p) # p
  /\ picker' = [picker EXCEPT ![p].clients = @ \cup {Subject(p)}, ![p].half = TRUE]

PutRefused(p) ==
  /\ Next1(p, "put") /\ Subject(p) # p
  /\ picker' = [picker EXCEPT ![p] = [Handled(picker[p]) EXCEPT !.missed = @ \cup {Subject(p)}]]

PutRing(p) ==
  /\ Next2(p, "put")
  /\ picker' = [picker EXCEPT ![p] = RingAdd(Handled(picker[p]), Subject(p))]

\* A delete event: the client first here too.
DeleteClient(p) ==
  /\ Next1(p, "delete") /\ Subject(p) # p
  /\ picker' = [picker EXCEPT ![p].clients = @ \ {Subject(p)}, ![p].half = TRUE]

DeleteRing(p) ==
  /\ Next2(p, "delete")
  /\ \E pk \in RingRemoves(Handled(picker[p]), Subject(p)) : picker' = [picker EXCEPT ![p] = pk]

\* The watch channel closes: what it had not delivered is lost.
WatchCloses(p) ==
  /\ picker[p].at = "watch" /\ ~picker[p].half
  /\ picker' = [picker EXCEPT ![p].at = "ended", ![p].todo = <<>>]
  /\ UNCHANGED regvars

-----------------------------------------------------------------------------
(* What else happens to the ring, in detail in HashRing and RingCluster: a    *)
(* node that has taken a snapshot leads no more, and runs no passes.  Whether *)
(* the node itself is on its ring is not asked here, and stays as it is.      *)

\* updateHashRing: the ring becomes that of the leader.
Snapshot(p) ==
  /\ picker[p].at # "off"
  /\ \E nodes \in SUBSET (Nodes \ {p}) :
        picker' = [picker EXCEPT ![p].ring = nodes \cup (@ \cap {p}), ![p].replaced = TRUE]
  /\ UNCHANGED regvars

\* checkAndRebalance puts a node back that has left, or was never found: nodes
\* that once reported a load are in nodeCounts.
PassRevives(p) ==
  /\ picker[p].at # "off" /\ ~picker[p].replaced
  /\ \E n \in Nodes \ ({p} \cup picker[p].added \cup picker[p].revived) :
        picker' = [picker EXCEPT ![p].ring = @ \cup {n}, ![p].revived = @ \cup {n}]
  /\ UNCHANGED regvars

-----------------------------------------------------------------------------
Discover(p) ==
  /\ \/ FetchAll(p) \/ FetchFails(p) \/ FoundRing(p) \/ FoundClient(p) \/ FoundRefused(p)
     \/ WatchStart(p) \/ SkipSelf(p) \/ PutClient(p) \/ PutRefused(p) \/ PutRing(p)
     \/ DeleteClient(p) \/ DeleteRing(p)
  /\ UNCHANGED regvars

\* NewClientPicker comes before Start: discovery begins with the process.
Begin(n) ==
  /\ Launch(n)
  /\ picker' = [p \in Pickers |-> IF p = n THEN [Off EXCEPT !.at = "fetch"] ELSE picker[p]]

Register(n) ==
  /\ Grant(n) \/ PutService(n) \/ KeepAlive(n) \/ RegisterFails(n) \/ KeepAliveLost(n)
  /\ Room
  /\ picker' = [p \in Pickers |-> Heard(picker[p])]

Expire(n) ==
  /\ LeaseExpires(n)
  /\ Room
  /\ picker' = [p \in Pickers |-> Heard(picker[p])]

AddSelf(n) ==
  /\ Started(n)
  /\ picker' = [p \in Pickers |-> IF p = n THEN RingAdd(picker[p], n) ELSE picker[p]]

Stop(n) ==
  /\ Crash(n) \/ ExitRevoking(n)
  /\ Room
  /\ picker' = [p \in Pickers |-> IF p = n THEN Off ELSE Heard(picker[p])]

Next ==
  \/ \E n \in Nodes : Begin(n) \/ Register(n) \/ Expire(n) \/ AddSelf(n) \/ Stop(n)
  \/ \E p \in Pickers : Discover(p) \/ WatchCloses(p) \/ Snapshot(p) \/ PassRevives(p)

Spec == Init /\ [][Next]_vars

(* The discovery goroutine runs, and a lease that nobody renews expires.      *)
Fairness ==
  /\ \A p \in Pickers : WF_vars(Discover(p))
  /\ \A n \in Nodes : WF_vars(n \notin keeping /\ Expire(n))

FairSpec == Spec /\ Fairness
-----------------------------------------------------------------------------
PickerType == [at : {"off", "fetch", "apply", "watch", "ended"},
               todo : Seq([kind : {"found", "put", "delete"}, addr : Nodes]), half : BOOLEAN,
               clients : SUBSET Nodes, ring : SUBSET Nodes, added : SUBSET Nodes,
               revived : SUBSET Nodes, replaced : BOOLEAN, missed : SUBSET Nodes]

TypeOK ==
  /\ RegTypeOK
  /\ picker \in [Pickers -> PickerType]
  /\ \A p \in Pickers : picker[p].half => picker[p].todo # <<>>

(* What the picker holds is what etcd holds, but for the events under way: a  *)
(* node without one has a client, and was given to the ring, exactly when it  *)
(* is registered, and the last event of a node tells what it is now.  A       *)
(* change between the read and the watch, or a refused address, is the        *)
(* exception, until the node changes again.  The ring itself agrees as long   *)
(* as no snapshot has come and no pass has put the node back (lines 91-186).  *)
CaughtUp ==
  \A p \in Pickers : picker[p].at = "watch" =>
    \A n \in Nodes \ ({p} \cup picker[p].missed) :
      LET pk      == picker[p]
          pending == {i \in DOMAIN pk.todo : pk.todo[i].addr = n}
      IN /\ pending = {} =>
              /\ services[n] # 0 <=> n \in pk.clients
              /\ services[n] # 0 <=> n \in pk.added
              /\ ~pk.replaced /\ n \notin pk.revived => (services[n] # 0 <=> n \in pk.ring)
         /\ \A i \in pending :
              (\A j \in pending : j <= i) => (services[n] # 0 <=> pk.todo[i].kind = "put")

(* A node on the ring has a client - the handlers call it without looking -   *)
(* but for four windows: the first read, which stays open when NewClient      *)
(* fails; a removal; a node that a pass of this leader has put back; and,     *)
(* once a snapshot has come, any node, be it that the leader knew more or     *)
(* other nodes or that Remove left some of its positions (peer.go, lines      *)
(* 115-126, 178-181; con_hash.go, lines 347, 447, 554; server.go, line 128).  *)
RingHasClients ==
  \A p \in Pickers : ~picker[p].replaced =>
    \A n \in picker[p].ring \ {p} :
      \/ n \in picker[p].clients
      \/ picker[p].half /\ Subject(p) = n /\ Head(picker[p].todo).kind \in {"found", "delete"}
      \/ n \in picker[p].revived

Following(p, n) == picker[p].at = "watch" /\ n \notin picker[p].missed

(* A node that is down for good disappears from the clients of every picker   *)
(* that watches: by the revoked lease, or by its expiry when the node crashed *)
(* or lost its race to revoke.  It disappears from the ring as well unless a  *)
(* snapshot comes or a pass puts it back, time and again: then it may stay    *)
(* there for good, without a client (registry.go, lines 71-77; peer.go, lines *)
(* 174-183; con_hash.go, lines 347, 447, 554).                                *)
GoneNodeLeaves ==
  \A p \in Pickers : \A n \in Nodes \ {p} :
    <>[](phase[n] = "down" /\ Following(p, n)) =>
      /\ <>[](n \notin picker[p].clients)
      /\ <>[](~picker[p].replaced /\ n \notin picker[p].revived) => <>[](n \notin picker[p].ring)

(* A node that keeps its lease has a client at every picker that watches,     *)
(* also when it was there before, crashed, and came back before its old lease *)
(* expired; and it is on the ring, unless a snapshot comes: a node that it    *)
(* lacks is not added again (registry.go, lines 45-64; peer.go, lines         *)
(* 154-172; con_hash.go, lines 347, 388).                                     *)
KeptNodeFound ==
  \A p \in Pickers : \A n \in Nodes \ {p} :
    <>[](n \in keeping /\ lease[n] \in live[n] /\ Following(p, n)) =>
      /\ <>[](n \in picker[p].clients)
      /\ <>[](~picker[p].replaced) => <>[](n \in picker[p].ring)
=============================================================================
