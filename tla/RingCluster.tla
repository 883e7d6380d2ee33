------------------------------ MODULE RingCluster ------------------------------
(* The nodes of a cluster, each with a consistenthash.Map of its own, and what *)
(* they do to each other through etcd: the election (RunElection), the        *)
(* snapshots that a leader publishes after a pass that changed its ring       *)
(* (syncHashRing) and the watch that brings them to followers                 *)
(* (updateHashRing), while discovery changes the ring of every node.          *)
(*                                                                            *)
(* HashRing has the pass of a leader in detail, with the loads it goes by;    *)
(* here a pass may move any of the nodes Uneven.  syncHashRing holds no lock: *)
(* it reads the keys, then hashMap, and its Put has no deadline and may       *)
(* outlast the leadership.  etcd is external.                                 *)
EXTENDS Ring, Sequences

CONSTANTS Nodes,            \* the nodes that run
          Uneven,           \* the nodes whose load a pass may find out of bounds
          MaxPasses         \* bound on the passes that change a ring

ASSUME ClusterAssumption == {Nodes, Uneven} \subseteq SUBSET Addrs /\ MaxPasses \in Nat \ {0}

VARIABLES ring,             \* node -> [keys, owners, replicas]
          role,             \* node -> where RunElection is
          sync,             \* node -> its pass and its syncHashRing
          elected,          \* who holds the election in etcd, or NoAddr
          published,        \* the snapshot in etcd
          passes,           \* how many passes have changed a ring
          inbox,            \* follower -> snapshots its watch has yet to deliver
          taken             \* history: the ring is as the last snapshot left it

vars == <<ring, role, sync, elected, published, passes, inbox, taken>>

EmptyRing == [keys     |-> [pos \in Positions |-> 0],
              owners   |-> [pos \in Positions |-> NoAddr],
              replicas |-> [addr \in Addrs |-> 0]]

NoSync == [at |-> "none", keys |-> EmptyRing.keys, owners |-> EmptyRing.owners]

Init ==
  /\ ring = [n \in Nodes |-> EmptyRing]
  /\ role = [n \in Nodes |-> "down"]
  /\ sync = [n \in Nodes |-> NoSync]
  /\ elected = NoAddr
  /\ published = [keys |-> EmptyRing.keys, owners |-> EmptyRing.owners]
  /\ passes = 0
  /\ inbox = [n \in Nodes |-> <<>>]
  /\ taken = [n \in Nodes |-> FALSE]

Up(n) == role[n] # "down"

With(r, addr, n) == [keys     |-> KeysWith(r.keys, addr, n),
                     owners   |-> OwnersWith(r.owners, addr, n),
                     replicas |-> [r.replicas EXCEPT ![addr] = n]]
Without(r, addr) == [keys     |-> KeysWithout(r.keys, addr, r.replicas[addr]),
                     owners   |-> OwnersWithout(r.owners, addr, r.replicas[addr]),
                     replicas |-> [r.replicas EXCEPT ![addr] = 0]]

\* A change that does not come from a snapshot.
Changed(n, r) ==
  /\ ring' = [ring EXCEPT ![n] = r]
  /\ taken' = [taken EXCEPT ![n] = FALSE]

-----------------------------------------------------------------------------
(* Faulty variants of the steps below, each the shape of a plausible slip:    *)
(* the runs use them to show that the properties can fail.                    *)

\* The leader does not watch its session.
RetireNever(n) ==
  /\ role[n] = "leader" /\ elected # n
  /\ UNCHANGED vars

\* A leader takes over the present snapshot before it stands again.
RetireTaking(n) ==
  /\ role[n] = "leader" /\ elected # n
  /\ role' = [role EXCEPT ![n] = "candidate"]
  /\ ring' = [ring EXCEPT ![n].keys = published.keys, ![n].owners = published.owners]
  /\ UNCHANGED <<sync, elected, published, passes, inbox, taken>>

\* What the watch of the snapshots had not delivered is delivered later.
WatchEndsLate(n) ==
  /\ role[n] = "follower"
  /\ role' = [role EXCEPT ![n] = "deaf"]
  /\ UNCHANGED <<ring, sync, elected, published, passes, inbox, taken>>

\* Of the snapshots that wait, the last delivered wins, in the wrong order.
TakeNewestFirst(n) ==
  /\ role[n] = "follower" /\ inbox[n] # <<>>
  /\ LET last == inbox[n][Len(inbox[n])]
     IN ring' = [ring EXCEPT ![n].keys = last.keys, ![n].owners = last.owners]
  /\ inbox' = [inbox EXCEPT ![n] = SubSeq(@, 1, Len(@) - 1)]
  /\ taken' = [taken EXCEPT ![n] = TRUE]
  /\ UNCHANGED <<role, sync, elected, published, passes>>

-----------------------------------------------------------------------------
\* NewConsistentHash and Server.Start, also after a crash.
Start(n) ==
  /\ role[n] = "down"
  /\ role' = [role EXCEPT ![n] = "candidate"]
  /\ Changed(n, With(EmptyRing, n, DefaultReplicas))
  /\ UNCHANGED <<sync, elected, published, passes, inbox>>

\* The process ends; its session expires later.
Crash(n) ==
  /\ Up(n)
  /\ role' = [role EXCEPT ![n] = "down"]
  /\ ring' = [ring EXCEPT ![n] = EmptyRing]
  /\ sync' = [sync EXCEPT ![n] = NoSync]
  /\ inbox' = [inbox EXCEPT ![n] = <<>>]
  /\ taken' = [taken EXCEPT ![n] = FALSE]
  /\ UNCHANGED <<elected, published, passes>>

\* Discovery, of any other node.
Add(n, addr) ==
  /\ Up(n) /\ addr # n /\ ring[n].replicas[addr] = 0
  /\ Changed(n, With(ring[n], addr, DefaultReplicas))
  /\ UNCHANGED <<role, sync, elected, published, passes, inbox>>

Remove(n, addr) ==
  /\ Up(n) /\ addr # n /\ ring[n].replicas[addr] # 0
  /\ Changed(n, Without(ring[n], addr))
  /\ UNCHANGED <<role, sync, elected, published, passes, inbox>>

-----------------------------------------------------------------------------
\* Campaign succeeds.
Elected(n) ==
  /\ role[n] = "candidate" /\ elected = NoAddr
  /\ elected' = n
  /\ role' = [role EXCEPT ![n] = "leader"]
  /\ UNCHANGED <<ring, sync, published, passes, inbox, taken>>

\* Five seconds pass, whoever holds the election: the node is a follower from
\* now on, and watches for the next snapshot.  A pass, which only computes, does
\* not outlast them.
CampaignFails(n) ==
  /\ role[n] = "candidate" /\ sync[n].at # "pass"
  /\ role' = [role EXCEPT ![n] = "follower"]
  /\ UNCHANGED <<ring, sync, elected, published, passes, inbox, taken>>

\* The session of who is elected expires in etcd, noticed or not.
SessionExpires ==
  /\ elected # NoAddr
  /\ elected' = NoAddr
  /\ UNCHANGED <<ring, role, sync, published, passes, inbox, taken>>

\* The leader notices and stands again; a pass under way runs to its end.
Retire(n) ==
  /\ role[n] = "leader" /\ elected # n
  /\ role' = [role EXCEPT ![n] = "candidate"]
  /\ UNCHANGED <<ring, sync, elected, published, passes, inbox, taken>>

\* NewSession fails: RunElection returns.
NoSession(n) ==
  /\ role[n] = "candidate"
  /\ role' = [role EXCEPT ![n] = "out"]
  /\ UNCHANGED <<ring, sync, elected, published, passes, inbox, taken>>

\* The watch of the snapshots ends, what it had not delivered being lost: its
\* own channel closes while the node goes on observing, or the channel of Observe
\* closes and it is cancelled; the break of line 239 leaves the select, not the
\* loop.  The node takes no snapshots any more.
WatchEnds(n) ==
  /\ role[n] = "follower"
  /\ role' = [role EXCEPT ![n] = "deaf"]
  /\ inbox' = [inbox EXCEPT ![n] = <<>>]
  /\ UNCHANGED <<ring, sync, elected, published, passes, taken>>

-----------------------------------------------------------------------------
\* A pass moves a node, the first or a further one: with the mutex held, but to
\* a number it computed before, maybe of nodeReplicas as they were then.
PassMoves(n, addr, new) ==
  /\ \/ sync[n].at = "pass" /\ passes' = passes
     \/ /\ role[n] = "leader" /\ sync[n].at = "none"
        /\ passes < MaxPasses /\ passes' = passes + 1
  /\ Changed(n, With(Without(ring[n], addr), addr, new))
  /\ sync' = [sync EXCEPT ![n].at = "pass"]
  /\ UNCHANGED <<role, elected, published, inbox>>

\* The pass has moved a node: syncHashRing takes the slice of keys, which Marshal
\* writes out first.
Sync(n) ==
  /\ sync[n].at = "pass"
  /\ sync' = [sync EXCEPT ![n].at = "encode", ![n].keys = ring[n].keys]
  /\ UNCHANGED <<ring, role, elected, published, passes, inbox, taken>>

\* Marshal reads hashMap, as it is now.  An Add or Remove since Sync came after
\* the keys were written out; or before, and changed their array in place: then
\* the slice shows the keys of now, in the code cut to its length or with further
\* copies of the last of them.
Encode(n) ==
  /\ sync[n].at = "encode"
  /\ \E keys \in {sync[n].keys, ring[n].keys} :
        sync' = [sync EXCEPT ![n] = [at |-> "put", keys |-> keys, owners |-> ring[n].owners]]
  /\ UNCHANGED <<ring, role, elected, published, passes, inbox, taken>>

\* Put takes effect, at once or, with no deadline, when n no longer leads.
Publish(n) ==
  /\ sync[n].at = "put"
  /\ LET snapshot == [keys |-> sync[n].keys, owners |-> sync[n].owners]
     IN /\ published' = snapshot
        /\ inbox' = [other \in Nodes |-> IF role[other] = "follower"
                                         THEN Append(inbox[other], snapshot) ELSE inbox[other]]
  /\ sync' = [sync EXCEPT ![n] = NoSync]
  /\ UNCHANGED <<ring, role, elected, passes, taken>>

PublishFails(n) ==
  /\ sync[n].at = "put"
  /\ sync' = [sync EXCEPT ![n] = NoSync]
  /\ UNCHANGED <<ring, role, elected, published, passes, inbox, taken>>

\* updateHashRing: keys and hashMap are replaced, nodeReplicas is not.
Take(n) ==
  /\ role[n] = "follower" /\ inbox[n] # <<>>
  /\ ring' = [ring EXCEPT ![n].keys = Head(inbox[n]).keys, ![n].owners = Head(inbox[n]).owners]
  /\ inbox' = [inbox EXCEPT ![n] = Tail(@)]
  /\ taken' = [taken EXCEPT ![n] = TRUE]
  /\ UNCHANGED <<role, sync, elected, published, passes>>

Next ==
  \/ SessionExpires
  \/ \E n \in Nodes :
       \/ Start(n) \/ Crash(n)
       \/ Elected(n) \/ CampaignFails(n) \/ Retire(n) \/ NoSession(n)
       \/ WatchEnds(n)
       \/ Sync(n) \/ Encode(n) \/ Publish(n) \/ PublishFails(n) \/ Take(n)
       \/ \E addr \in Addrs :
            \/ Add(n, addr) \/ Remove(n, addr)
       \/ \E addr \in Uneven, new \in MinReplicas..MaxReplicas : PassMoves(n, addr, new)

Spec == Init /\ [][Next]_vars

\* A candidate's campaign ends after five seconds at most; a leader waits for
\* the end of its session, and the session of a crashed node expires.
Campaign(n) == Elected(n) \/ CampaignFails(n) \/ NoSession(n)
Expiry(n) == elected = n /\ role[n] # "leader" /\ SessionExpires

FairSpec == Spec /\ \A n \in Nodes : WF_vars(Campaign(n) \/ Retire(n) \/ Expiry(n))
-----------------------------------------------------------------------------
RingType == [keys : [Positions -> Nat], owners : [Positions -> Addrs \cup {NoAddr}],
             replicas : [Addrs -> Replicas]]
Snapshot == [keys : [Positions -> Nat], owners : [Positions -> Addrs \cup {NoAddr}]]

\* Only a follower has a watch with snapshots to deliver.
TypeOK ==
  /\ ring \in [Nodes -> RingType]
  /\ role \in [Nodes -> {"candidate", "leader", "follower", "deaf", "out", "down"}]
  /\ sync \in [Nodes -> [at : {"none", "pass", "encode", "put"}, keys : [Positions -> Nat],
                         owners : [Positions -> Addrs \cup {NoAddr}]]]
  /\ elected \in Nodes \cup {NoAddr}
  /\ published \in Snapshot
  /\ passes \in 0..MaxPasses
  /\ inbox \in [Nodes -> Seq(Snapshot)]
  /\ \A n \in Nodes : inbox[n] # <<>> => role[n] = "follower"
  /\ taken \in [Nodes -> BOOLEAN]

(* A node that leads, or may lead again, has the ring that its nodeReplicas   *)
(* describes, so that its passes and removals take out what they should: no   *)
(* node that ever took a snapshot, which would set the two apart, comes to    *)
(* lead (lines 185-246, 346-349, 446-456).                                    *)
LeaderRingExact ==
  \A n \in Nodes :
    role[n] \in {"candidate", "leader", "out"} =>
      /\ ring[n].keys = KeysOf(ring[n].replicas)
      /\ ring[n].owners = OwnersOf(ring[n].replicas)

(* A follower that has taken every snapshot its watch has for it, and whose   *)
(* discovery has changed nothing since, has the ring in etcd, whoever put it  *)
(* there, in whichever order leaders overtook each other, and whole or torn:  *)
(* all such followers look keys up alike (lines 336-353, 362-380).            *)
FollowersAgree ==
  \A n \in Nodes :
    role[n] = "follower" /\ taken[n] /\ inbox[n] = <<>> =>
      ring[n].keys = published.keys /\ ring[n].owners = published.owners

(* Once no node crashes any more, there is time and again a leader who holds  *)
(* the election, or no node stands for it: the end of a session, or the crash *)
(* of the leader, does not leave a candidate waiting (lines 185-221).  All    *)
(* nodes may end up as followers, with no leader: a node that lost a campaign *)
(* never stands again (lines 230-243).                                        *)
LeaderReturns ==
  <>[][\A n \in Nodes : role[n] # "down" => role'[n] # "down"]_role =>
    []<>(\/ elected # NoAddr /\ role[elected] = "leader"
         \/ \A n \in Nodes : role[n] \notin {"candidate", "leader"})
=============================================================================
