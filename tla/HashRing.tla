------------------------------- MODULE HashRing -------------------------------
(* One consistenthash.Map (internal/consistenthash/con_hash.go): the hash     *)
(* ring of a node, changed by service discovery (Add, Remove), by the         *)
(* leader's rebalancing when the node leads, and by the snapshots of another  *)
(* leader when it follows.  etcd and the other nodes are the environment.     *)
(*                                                                            *)
(* What runs under the lock mu is one action.  checkAndRebalance holds it     *)
(* only while it changes one node: its pass is two steps per node it moves,   *)
(* one that decides, under no lock, and one that applies.                     *)
EXTENDS Ring

CONSTANTS Counts,           \* the loads the nodes report
          Snapshots,        \* what other leaders publish, [keys, owners]
          NoCount           \* absent from nodeCounts

ASSUME HashRingAssumption ==
  /\ Snapshots \subseteq [keys   : [Positions -> Nat],
                          owners : [Positions -> Addrs \cup {NoAddr}]]
  /\ Counts \subseteq Nat /\ NoCount \notin Nat

VARIABLES keys,             \* position -> how often the sorted slice holds it
          hashMap,          \* position -> node, or NoAddr
          nodeReplicas,     \* node -> its virtual nodes, 0 when absent
          nodeCounts,       \* node -> the load last reported, or NoCount
          role,             \* where RunElection is
          check,            \* the pass of checkAndRebalance
          replaced          \* history: a snapshot has replaced the ring

vars == <<keys, hashMap, nodeReplicas, nodeCounts, role, check, replaced>>

\* moving, new: the node that the pass has decided to move, and its new count.
NoCheck == [on |-> FALSE, avg |-> 0, must |-> {}, open |-> {}, again |-> {},
            moving |-> NoAddr, new |-> 0]

Init ==
  /\ keys = [pos \in Positions |-> 0]
  /\ hashMap = [pos \in Positions |-> NoAddr]
  /\ nodeReplicas = [addr \in Addrs |-> 0]
  /\ nodeCounts = [addr \in Addrs |-> NoCount]
  /\ role = "candidate"
  /\ check = NoCheck
  /\ replaced = FALSE

Counted == {addr \in Addrs : nodeCounts[addr] # NoCount}

Owner(hash) == OwnerIn(keys, hashMap, hash)

\* An entry of nodeCounts made during a pass may be visited by its range loop;
\* one removed before its turn is not.
Created(addr) == IF check.on THEN [check EXCEPT !.open = @ \cup {addr}] ELSE check
Dropped(addr) == IF check.on THEN [check EXCEPT !.open = @ \ {addr}, !.must = @ \ {addr}]
                             ELSE check

-----------------------------------------------------------------------------
(* Faulty variants of the steps below, each the shape of a plausible slip:    *)
(* the runs use them to show that the properties can fail.  A new node is not *)
(* counted; rebalanceReplicas removes as many virtual nodes as it is about to *)
(* add.                                                                       *)
AddUncounted(addr) ==
  /\ role # "down" /\ nodeReplicas[addr] = 0
  /\ keys' = KeysWith(keys, addr, DefaultReplicas)
  /\ hashMap' = OwnersWith(hashMap, addr, DefaultReplicas)
  /\ nodeReplicas' = [nodeReplicas EXCEPT ![addr] = DefaultReplicas]
  /\ UNCHANGED <<nodeCounts, role, check, replaced>>

RebalancedByNew(addr, new) ==
  /\ keys' = KeysWith(KeysWithout(keys, addr, new), addr, new)
  /\ hashMap' = OwnersWith(OwnersWithout(hashMap, addr, new), addr, new)
  /\ nodeReplicas' = [nodeReplicas EXCEPT ![addr] = new]

-----------------------------------------------------------------------------
Add(addr) ==
  /\ role # "down" /\ nodeReplicas[addr] = 0
  /\ keys' = KeysWith(keys, addr, DefaultReplicas)
  /\ hashMap' = OwnersWith(hashMap, addr, DefaultReplicas)
  /\ nodeReplicas' = [nodeReplicas EXCEPT ![addr] = DefaultReplicas]
  /\ nodeCounts' = [nodeCounts EXCEPT ![addr] = 0]
  /\ check' = Created(addr)
  /\ UNCHANGED <<role, replaced>>

Remove(addr) ==
  /\ nodeReplicas[addr] # 0
  /\ keys' = KeysWithout(keys, addr, nodeReplicas[addr])
  /\ hashMap' = OwnersWithout(hashMap, addr, nodeReplicas[addr])
  /\ nodeReplicas' = [nodeReplicas EXCEPT ![addr] = 0]
  /\ nodeCounts' = [nodeCounts EXCEPT ![addr] = NoCount]
  /\ check' = Dropped(addr)
  /\ UNCHANGED <<role, replaced>>

\* rebalanceReplicas: remove the node and add it with the new count.
Rebalanced(addr, new) ==
  /\ keys' = KeysWith(KeysWithout(keys, addr, nodeReplicas[addr]), addr, new)
  /\ hashMap' = OwnersWith(OwnersWithout(hashMap, addr, nodeReplicas[addr]), addr, new)
  /\ nodeReplicas' = [nodeReplicas EXCEPT ![addr] = new]

-----------------------------------------------------------------------------
\* Campaign succeeds, or its five seconds pass.
Elected ==
  /\ role = "candidate"
  /\ role' = "leader"
  /\ UNCHANGED <<keys, hashMap, nodeReplicas, nodeCounts, check, replaced>>

\* A pass, which only computes, does not outlast the five seconds.  A follower
\* stays one: no way leads from the loop of lines 230-243 back to the campaign.
CampaignFails ==
  /\ role = "candidate" /\ ~check.on
  /\ role' = "follower"
  /\ UNCHANGED <<keys, hashMap, nodeReplicas, nodeCounts, check, replaced>>

\* The session of the leader ends; a pass under way runs to its end.
SessionLost ==
  /\ role = "leader"
  /\ role' = "candidate"
  /\ UNCHANGED <<keys, hashMap, nodeReplicas, nodeCounts, check, replaced>>

\* updateHashRing: keys and hashMap become those a leader has published, which
\* may be torn: the keys of one ring and the owners of another.
ReceiveSnapshot(snapshot) ==
  /\ role = "follower"
  /\ keys' = snapshot.keys
  /\ hashMap' = snapshot.owners
  /\ replaced' = TRUE
  /\ UNCHANGED <<nodeReplicas, nodeCounts, role, check>>

\* fetchAllNodeCount and watchNodeCount, under no lock: any node that ever
\* reported, whether or not it is on the ring.
ReceiveCount(addr, count) ==
  /\ role = "leader"
  /\ nodeCounts' = [nodeCounts EXCEPT ![addr] = count]
  /\ check' = IF nodeCounts[addr] = NoCount THEN Created(addr) ELSE check
  /\ UNCHANGED <<keys, hashMap, nodeReplicas, role, replaced>>

\* The ticker fires with no counts at all: the division of line 529 panics, and
\* the process ends.
CheckPanics ==
  /\ role = "leader" /\ ~check.on
  /\ Counted = {}
  /\ role' = "down"
  /\ keys' = [pos \in Positions |-> 0]
  /\ hashMap' = [pos \in Positions |-> NoAddr]
  /\ nodeReplicas' = [addr \in Addrs |-> 0]
  /\ replaced' = FALSE
  /\ UNCHANGED <<nodeCounts, check>>

\* NewConsistentHash, after that.
Launch ==
  /\ role = "down"
  /\ role' = "candidate"
  /\ UNCHANGED <<keys, hashMap, nodeReplicas, nodeCounts, check, replaced>>

\* The ticker fires: the average is taken.
CheckStart ==
  /\ role = "leader" /\ ~check.on
  /\ Counted # {}
  /\ LET avg == FoldFunctionOnSet(+, 0, nodeCounts, Counted) \div Cardinality(Counted)
     IN /\ avg # 0
        /\ check' = [NoCheck EXCEPT !.on = TRUE, !.avg = avg, !.must = Counted, !.open = Counted]
  /\ UNCHANGED <<keys, hashMap, nodeReplicas, nodeCounts, role, replaced>>

TooMany(addr) == 10 * nodeCounts[addr] > 11 * check.avg
TooFew(addr) == 10 * nodeCounts[addr] < 9 * check.avg

\* The loop comes to a node.
Visits(addr) == check.on /\ check.moving = NoAddr /\ addr \in check.open

\* The range loop visits a node within the thresholds.
CheckKeeps(addr) ==
  /\ Visits(addr) /\ nodeCounts[addr] # NoCount
  /\ ~TooMany(addr) /\ ~TooFew(addr)
  /\ check' = [check EXCEPT !.open = @ \ {addr}, !.must = @ \ {addr}]
  /\ UNCHANGED <<keys, hashMap, nodeReplicas, nodeCounts, role, replaced>>

\* It visits one outside: the new count comes from nodeReplicas as they are now,
\* read under no lock.
CheckDecides(addr) ==
  /\ Visits(addr) /\ nodeCounts[addr] # NoCount
  /\ TooMany(addr) \/ TooFew(addr)
  /\ check' = [check EXCEPT !.open = @ \ {addr}, !.must = @ \ {addr}, !.moving = addr,
                            !.new = Moved(nodeReplicas[addr], TooMany(addr))]
  /\ UNCHANGED <<keys, hashMap, nodeReplicas, nodeCounts, role, replaced>>

\* rebalanceReplicas, with mu held, also for a node that left or came since.  It
\* deletes and remakes the entry of nodeCounts, and the loop may meet the new
\* entry, in this model once.
CheckMoves(addr) ==
  /\ check.moving = addr
  /\ Rebalanced(addr, check.new)
  /\ nodeCounts' = [nodeCounts EXCEPT ![addr] = 0]
  /\ check' = [check EXCEPT !.moving = NoAddr, !.new = 0, !.again = @ \cup {addr},
                            !.open = IF addr \in check.again THEN @ ELSE @ \cup {addr}]
  /\ UNCHANGED <<role, replaced>>

CheckEnd ==
  /\ check.on /\ check.moving = NoAddr /\ check.must = {}
  /\ check' = NoCheck
  /\ UNCHANGED <<keys, hashMap, nodeReplicas, nodeCounts, role, replaced>>

Next ==
  \/ \E addr \in Addrs :
        \/ Add(addr) \/ Remove(addr)
        \/ CheckKeeps(addr) \/ CheckDecides(addr) \/ CheckMoves(addr)
        \/ \E count \in Counts : ReceiveCount(addr, count)
  \/ Elected \/ CampaignFails \/ SessionLost
  \/ \E snapshot \in Snapshots : ReceiveSnapshot(snapshot)
  \/ CheckPanics \/ Launch \/ CheckStart \/ CheckEnd

Spec == Init /\ [][Next]_vars
-----------------------------------------------------------------------------
\* An owner that hashMap names can be found, its position being on the ring, as
\* long as no snapshot has come.
TypeOK ==
  /\ keys \in [Positions -> Nat]
  /\ hashMap \in [Positions -> Addrs \cup {NoAddr}]
  /\ ~replaced => \A pos \in Positions : hashMap[pos] # NoAddr => keys[pos] > 0
  /\ nodeReplicas \in [Addrs -> Replicas]
  /\ nodeCounts \in [Addrs -> Nat \cup {NoCount}]
  /\ role \in {"candidate", "leader", "follower", "down"}
  /\ check \in [on : BOOLEAN, avg : Nat, must : SUBSET Addrs, open : SUBSET Addrs,
                again : SUBSET Addrs, moving : Addrs \cup {NoAddr}, new : Replicas]
  /\ replaced \in BOOLEAN

(* As long as no snapshot has come, the ring holds exactly the virtual nodes  *)
(* that nodeReplicas names, once each and owned by their node, whatever Add,  *)
(* Remove and passes of checkAndRebalance did in between (lines 384-456,      *)
(* 569-582).  The hashes of the virtual nodes are taken to be distinct.       *)
RingMatchesReplicas ==
  ~replaced =>
    \A addr \in Addrs : \A i \in 0..MaxReplicas-1 :
      LET pos == Place[addr][i]
          on  == i < nodeReplicas[addr]
      IN /\ keys[pos] = IF on THEN 1 ELSE 0
         /\ hashMap[pos] = IF on THEN addr ELSE NoAddr

(* A node of nodeReplicas is counted, also one that comes or leaves while a   *)
(* pass is about to move it: the division of line 529 panics only when the    *)
(* leader knows of no node at all (CheckPanics; lines 412, 454, 529, 569-582).*)
NodesCounted == \A addr \in Addrs : nodeReplicas[addr] # 0 => nodeCounts[addr] # NoCount

(* What consistent hashing is for: a node that joins, leaves or is rebalanced *)
(* only moves keys to or from itself (lines 400-456, 482-508, 569-582).       *)
OnlyItsKeysMove ==
  [][~replaced =>
       \A addr \in Addrs :
         Add(addr) \/ Remove(addr) \/ CheckMoves(addr) =>
           \A hash \in Hashes :
             Owner(hash)' # Owner(hash) => addr \in {Owner(hash), Owner(hash)'}]_vars

(* Remove "deletes all its virtual nodes" (line 423), and its test says the    *)
(* same, "node1 still present in hashMap" being the failure                   *)
(* (con_hash_test.go, line 148).  The run HashRingClaim finds it violated:    *)
(* Remove goes by nodeReplicas, which a snapshot leaves as it was.            *)
RemovedOwnsNothing ==
  [][\A addr \in Addrs : Remove(addr) => \A pos \in Positions : hashMap'[pos] # addr]_vars
=============================================================================
