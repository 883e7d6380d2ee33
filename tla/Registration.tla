----------------------------- MODULE Registration -----------------------------
(* Register of internal/registry/registry.go, called by Server.Start: a node  *)
(* of the service writes its address to etcd under a lease and keeps the      *)
(* lease alive until it stops.  Processes exit, crash and start again; etcd   *)
(* is external: it deletes a key when the lease the key was last put with     *)
(* expires or is revoked.                                                     *)
EXTENDS Naturals, FiniteSets

CONSTANTS Nodes,            \* the addresses of the service
          MaxLeases         \* bound: the leases of a node that etcd holds at once

ASSUME LeasesAssumption == IsFiniteSet(Nodes) /\ MaxLeases \in [Nodes -> Nat]

VARIABLES services,         \* address -> the lease its key is attached to, 0: no key
          live,             \* node -> its leases that etcd still holds
          lease,            \* node -> the lease its process was granted, 0: none
          phase,            \* node -> where its process is in Start
          keeping           \* nodes whose keep-alive goroutine runs

regvars == <<services, live, lease, phase, keeping>>

RegInit ==
  /\ services = [n \in Nodes |-> 0]
  /\ live = [n \in Nodes |-> {}]
  /\ lease = [n \in Nodes |-> 0]
  /\ phase = [n \in Nodes |-> "down"]
  /\ keeping = {}

\* What etcd does with a lease that expires or is revoked.
LeaseEnds(n, id) ==
  /\ live' = [live EXCEPT ![n] = @ \ {id}]
  /\ services' = [services EXCEPT ![n] = IF @ = id THEN 0 ELSE @]

-----------------------------------------------------------------------------
\* A faulty variant, the shape of a plausible slip: the address is only put
\* when the key is not there yet.
PutServiceIfAbsent(n) ==
  /\ phase[n] = "put"
  /\ lease[n] \in live[n]
  /\ services' = [services EXCEPT ![n] = IF @ = 0 THEN lease[n] ELSE @]
  /\ phase' = [phase EXCEPT ![n] = "keep"]
  /\ UNCHANGED <<live, lease, keeping>>

-----------------------------------------------------------------------------
Launch(n) ==
  /\ phase[n] = "down"
  /\ phase' = [phase EXCEPT ![n] = "grant"]
  /\ UNCHANGED <<services, live, lease, keeping>>

Grant(n) ==
  /\ phase[n] = "grant"
  /\ \E id \in 1..MaxLeases[n] \ live[n] :
        /\ live' = [live EXCEPT ![n] = @ \cup {id}]
        /\ lease' = [lease EXCEPT ![n] = id]
  /\ phase' = [phase EXCEPT ![n] = "put"]
  /\ UNCHANGED <<services, keeping>>

\* The key is attached to the new lease, whatever lease it had.
PutService(n) ==
  /\ phase[n] = "put"
  /\ lease[n] \in live[n]
  /\ services' = [services EXCEPT ![n] = lease[n]]
  /\ phase' = [phase EXCEPT ![n] = "keep"]
  /\ UNCHANGED <<live, lease, keeping>>

KeepAlive(n) ==
  /\ phase[n] = "keep"
  /\ keeping' = keeping \cup {n}
  /\ phase' = [phase EXCEPT ![n] = "add"]
  /\ UNCHANGED <<services, live, lease>>

\* Grant, Put or KeepAlive fails: Register returns an error, which Start drops.
RegisterFails(n) ==
  /\ phase[n] \in {"grant", "put", "keep"}
  /\ phase' = [phase EXCEPT ![n] = "add"]
  /\ UNCHANGED <<services, live, lease, keeping>>

\* Start goes on after Register: the node adds itself to its own ring.
Started(n) ==
  /\ phase[n] = "add"
  /\ phase' = [phase EXCEPT ![n] = "up"]
  /\ UNCHANGED <<services, live, lease, keeping>>

\* The keep-alive channel closes: the goroutine returns, for good.
KeepAliveLost(n) ==
  /\ n \in keeping
  /\ keeping' = keeping \ {n}
  /\ UNCHANGED <<services, live, lease, phase>>

\* Ten seconds without a keep-alive: the process is gone, stopped renewing, or
\* could not reach etcd.
LeaseExpires(n) ==
  /\ \E id \in live[n] : LeaseEnds(n, id)
  /\ UNCHANGED <<lease, phase, keeping>>

\* Close with stopCh heard in time: the lease is revoked before the exit.
ExitRevoking(n) ==
  /\ phase[n] = "up" /\ n \in keeping
  /\ LeaseEnds(n, lease[n])
  /\ phase' = [phase EXCEPT ![n] = "down"]
  /\ keeping' = keeping \ {n}
  /\ lease' = [lease EXCEPT ![n] = 0]

\* A crash, or an exit that the keep-alive goroutine or its Revoke did not
\* finish: the lease outlives the process.
Crash(n) ==
  /\ phase[n] # "down"
  /\ phase' = [phase EXCEPT ![n] = "down"]
  /\ keeping' = keeping \ {n}
  /\ lease' = [lease EXCEPT ![n] = 0]
  /\ UNCHANGED <<services, live>>

-----------------------------------------------------------------------------
RegTypeOK ==
  /\ live \in [Nodes -> SUBSET Nat] /\ {services, lease} \subseteq [Nodes -> Nat]
  /\ \A n \in Nodes : /\ live[n] \subseteq 1..MaxLeases[n] /\ services[n] \in live[n] \cup {0}
                     /\ lease[n] \in 0..MaxLeases[n]
  /\ phase \in [Nodes -> {"down", "grant", "put", "keep", "add", "up"}]
  /\ keeping \subseteq Nodes

(* A node that renews a lease which etcd still holds is registered under that *)
(* lease: what is left of its earlier lives - a lease that expires late, an   *)
(* exit that revoked or did not - never takes its key away (lines 45-64).     *)
KeptIsRegistered ==
  \A n \in keeping : lease[n] \in live[n] => services[n] = lease[n]

\* What makes it inductive: the same already between the Put and KeepAlive, and a
\* node that renews a lease is past the steps that grant another.
PutIsRegistered ==
  \A n \in Nodes : phase[n] = "keep" /\ lease[n] \in live[n] => services[n] = lease[n]
KeepersStarted == \A n \in keeping : phase[n] \in {"add", "up"}

RegIInv == RegTypeOK /\ KeptIsRegistered /\ PutIsRegistered /\ KeepersStarted
=============================================================================
