------------------------------ MODULE LRU2Layer ------------------------------
(* One level of one bucket of lru2Store: the type `cache` of                  *)
(* pkg/store/lru2.go, with its slots m, its index hmap and its doubly linked  *)
(* list dlnk kept in an array.  Every operation runs under the lock of the    *)
(* bucket, so each is one action.                                             *)
(*                                                                            *)
(* Slot 0 of dlnk is the sentinel; m[i] here is c.m[i-1] there.  hmap is      *)
(* total, with 0 for "no entry": slot numbers start at 1 (comment, line 391). *)
EXTENDS Naturals

CONSTANTS Keys,       \* the keys of the bucket
          Values,     \* the values stored
          Expiries,   \* the expiry times a put may carry, 0 included
          Cap,        \* the capacity of the level
          NoKey,      \* the key of a slot never written
          NoValue     \* the value of a slot never written

\* Cap is a uint16 and dlnk has Cap+1 entries, computed in uint16: 65535 would
\* wrap (line 403).  The store replaces a capacity of 0 by a default.
ASSUME CapAssumption == Cap \in Nat /\ 0 < Cap /\ Cap < 65535

ASSUME ExpiriesAssumption == Expiries \subseteq Nat

ASSUME NoKeyAssumption == NoKey \notin Keys

VARIABLES dlnk,       \* dlnk[i][P], dlnk[i][N]: neighbours of slot i
          m,          \* the node in each slot
          hmap,       \* key -> slot, or 0
          last,       \* the slots handed out so far are 1..last
          ret         \* result of the last operation

vars == <<dlnk, m, hmap, last, ret>>

P == 0                \* towards the head; dlnk[0][P] is the tail
N == 1                \* towards the tail; dlnk[0][N] is the head

Node == [k : Keys \cup {NoKey}, v : Values \cup {NoValue}, expireAt : Expiries \cup {0}]

NoNode == [k |-> NoKey, v |-> NoValue, expireAt |-> 0]

Returned(status, nd) == [status |-> status, node |-> nd]

Init ==
  /\ dlnk = [i \in 0..Cap |-> [s \in {P, N} |-> 0]]
  /\ m = [i \in 1..Cap |-> NoNode]
  /\ hmap = [key \in Keys |-> 0]
  /\ last = 0
  /\ ret = Returned(0, NoNode)

-----------------------------------------------------------------------------
(* Faulty variants of the definitions below, each the shape of a plausible    *)
(* slip: the runs use them to show that the properties can fail.              *)

AdjustWithoutBackLink(d, idx, f, t) ==
  IF d[idx][f] = 0 THEN d
  ELSE LET d1 == [d EXCEPT ![d[idx][t]][f] = d[idx][f]]
           d2 == [d1 EXCEPT ![d1[idx][f]][t] = d1[idx][t]]
           d3 == [d2 EXCEPT ![idx][f] = 0]
           d4 == [d3 EXCEPT ![idx][t] = d3[0][t]]
       IN [d4 EXCEPT ![0][t] = idx]

AdjustWithoutUnlink(d, idx, f, t) ==
  IF d[idx][f] = 0 THEN d
  ELSE LET d2 == [d EXCEPT ![d[idx][f]][t] = d[idx][t]]
           d3 == [d2 EXCEPT ![idx][f] = 0]
           d4 == [d3 EXCEPT ![idx][t] = d3[0][t]]
           d5 == [d4 EXCEPT ![d4[0][t]][f] = idx]
       IN [d5 EXCEPT ![0][t] = idx]

-----------------------------------------------------------------------------
(* adjust(idx, f, t): unlink slot idx and link it in at the end of the list   *)
(* on side t of the sentinel; f, t = P, N moves to the head, N, P to the tail.*)
Adjust(d, idx, f, t) ==
  IF d[idx][f] = 0 THEN d
  ELSE LET d1 == [d EXCEPT ![d[idx][t]][f] = d[idx][f]]
           d2 == [d1 EXCEPT ![d1[idx][f]][t] = d1[idx][t]]
           d3 == [d2 EXCEPT ![idx][f] = 0]
           d4 == [d3 EXCEPT ![idx][t] = d3[0][t]]
           d5 == [d4 EXCEPT ![d4[0][t]][f] = idx]
       IN [d5 EXCEPT ![0][t] = idx]

\* The fresh slot becomes the head; when hmap is empty it becomes the tail too.
LinkFresh(d, slot, first) ==
  LET d1 == IF first THEN [d EXCEPT ![0][P] = slot]
                     ELSE [d EXCEPT ![d[0][N]][P] = slot]
      d2 == [d1 EXCEPT ![slot] = [s \in {P, N} |-> IF s = P THEN 0 ELSE d1[0][N]]]
  IN [d2 EXCEPT ![0][N] = slot]

PutUpdate(key, val, expireAt) ==
  /\ hmap[key] # 0
  /\ m' = [m EXCEPT ![hmap[key]].v = val, ![hmap[key]].expireAt = expireAt]
  /\ dlnk' = Adjust(dlnk, hmap[key], P, N)
  /\ ret' = Returned(0, NoNode)
  /\ UNCHANGED <<hmap, last>>

PutReuseKeepingIndex(key, val, expireAt) ==
  /\ hmap[key] = 0
  /\ last = Cap
  /\ LET slot == dlnk[0][P]
         tail == m[slot]
     IN /\ ret' = Returned(1, IF tail.expireAt > 0 THEN tail ELSE NoNode)
        /\ hmap' = [hmap EXCEPT ![key] = slot]
        /\ m' = [m EXCEPT ![slot] = [k |-> key, v |-> val, expireAt |-> expireAt]]
        /\ dlnk' = Adjust(dlnk, slot, P, N)
  /\ UNCHANGED last

\* The level is full: the tail slot is rewritten; a live tail is reported.
PutReuse(key, val, expireAt) ==
  /\ hmap[key] = 0
  /\ last = Cap
  /\ LET slot == dlnk[0][P]
         tail == m[slot]
     IN /\ ret' = Returned(1, IF tail.expireAt > 0 THEN tail ELSE NoNode)
        /\ hmap' = [hmap EXCEPT ![tail.k] = 0, ![key] = slot]
        /\ m' = [m EXCEPT ![slot] = [k |-> key, v |-> val, expireAt |-> expireAt]]
        /\ dlnk' = Adjust(dlnk, slot, P, N)
  /\ UNCHANGED last

PutAllocUnbounded(key, val, expireAt) ==
  /\ hmap[key] = 0
  /\ last' = last + 1
  /\ dlnk' = LinkFresh(dlnk, last + 1, \A other \in Keys : hmap[other] = 0)
  /\ m' = [m EXCEPT ![last + 1] = [k |-> key, v |-> val, expireAt |-> expireAt]]
  /\ hmap' = [hmap EXCEPT ![key] = last + 1]
  /\ ret' = Returned(1, NoNode)

PutAlloc(key, val, expireAt) ==
  /\ hmap[key] = 0
  /\ last # Cap
  /\ last' = last + 1
  /\ dlnk' = LinkFresh(dlnk, last + 1, \A other \in Keys : hmap[other] = 0)
  /\ m' = [m EXCEPT ![last + 1] = [k |-> key, v |-> val, expireAt |-> expireAt]]
  /\ hmap' = [hmap EXCEPT ![key] = last + 1]
  /\ ret' = Returned(1, NoNode)

GetHit(key) ==
  /\ hmap[key] # 0
  /\ dlnk' = Adjust(dlnk, hmap[key], P, N)
  /\ ret' = Returned(1, m[hmap[key]])
  /\ UNCHANGED <<m, hmap, last>>

GetMiss(key) ==
  /\ hmap[key] = 0
  /\ ret' = Returned(0, NoNode)
  /\ UNCHANGED <<dlnk, m, hmap, last>>

DelTwice(key) ==
  /\ hmap[key] # 0
  /\ m' = [m EXCEPT ![hmap[key]].expireAt = 0]
  /\ dlnk' = Adjust(dlnk, hmap[key], N, P)
  /\ ret' = Returned(1, m[hmap[key]])
  /\ UNCHANGED <<hmap, last>>

\* The returned node is the slot with the expiry time it had, which the code
\* returns beside it.
DelHit(key) ==
  /\ hmap[key] # 0
  /\ m[hmap[key]].expireAt > 0
  /\ m' = [m EXCEPT ![hmap[key]].expireAt = 0]
  /\ dlnk' = Adjust(dlnk, hmap[key], N, P)
  /\ ret' = Returned(1, m[hmap[key]])
  /\ UNCHANGED <<hmap, last>>

DelMiss(key) ==
  /\ hmap[key] # 0 => m[hmap[key]].expireAt = 0
  /\ ret' = Returned(0, NoNode)
  /\ UNCHANGED <<dlnk, m, hmap, last>>

Next ==
  \E key \in Keys :
    \/ \E val \in Values, expireAt \in Expiries :
          \/ PutUpdate(key, val, expireAt)
          \/ PutReuse(key, val, expireAt)
          \/ PutAlloc(key, val, expireAt)
    \/ GetHit(key)
    \/ GetMiss(key)
    \/ DelHit(key)
    \/ DelMiss(key)

Spec == Init /\ [][Next]_vars
-----------------------------------------------------------------------------
TypeOK ==
  /\ dlnk \in [0..Cap -> [{P, N} -> 0..Cap]]
  /\ m \in [1..Cap -> Node]
  /\ hmap \in [Keys -> 0..Cap]
  /\ last \in 0..Cap
  /\ ret \in [status : {0, 1}, node : Node]

(* The list over the slots in use and the sentinel is closed and each link    *)
(* has its back link, whatever adjust and put rewired: lines 533-546, 450-464.*)
Links ==
  /\ \A i \in 0..last, s \in {P, N} :
        dlnk[i][s] \in 0..last /\ dlnk[dlnk[i][s]][1 - s] = i
  /\ last > 0 => dlnk[0][N] # 0

(* The index and the slots name each other: every slot in use holds a key     *)
(* that hmap sends back to it, and no entry is left behind for a key whose    *)
(* slot was reused (lines 438-439).  So no key is held by two slots.          *)
Index ==
  /\ \A i \in 1..last : m[i].k \in Keys /\ hmap[m[i].k] = i
  /\ \A key \in Keys : hmap[key] \in 0..last /\ (hmap[key] # 0 => m[hmap[key]].k = key)

IInv == TypeOK /\ Links /\ Index
=============================================================================
