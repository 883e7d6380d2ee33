------------------------------ MODULE LRU2Store ------------------------------
(* lru2Store (pkg/store/lru2.go): buckets of two levels, the clients that     *)
(* call Set, Get, Delete, Clear and Close, the internal clock and the cleanup *)
(* goroutine.  A level is a recency sequence (Recency; LRU2Layer checks that  *)
(* the arrays of the code implement it).  What runs under one acquisition of  *)
(* a bucket's lock is one action; what runs outside it is not: the expiry     *)
(* time of a Set is computed before the lock, Clear scans and deletes under   *)
(* separate acquisitions, and the cleanup goroutine locks bucket by bucket.   *)
EXTENDS Recency, FiniteSets

CONSTANTS Keys, Values, None,
          Clients,        \* goroutines that call Set and Clear
          Buckets,        \* the buckets are 1..Buckets
          BucketOf,       \* hashBKRD(key) & mask
          L1Cap, L2Cap,   \* CapPerBucket and Level2Cap
          Durations,      \* the durations Set and SetWithExpiration are given
          MaxClock        \* bound on the clock

ASSUME StoreAssumption ==
  /\ Buckets \in Nat \ {0} /\ L1Cap \in Nat \ {0} /\ L2Cap \in Nat \ {0}
  /\ BucketOf \in [Keys -> 1..Buckets]
  /\ Durations \subseteq Nat /\ MaxClock \in Nat \ {0}

VARIABLES clock,          \* the internal clock read by Now
          caches,         \* caches[b][1], caches[b][2]: the levels of bucket b
          op,             \* what each client is in the middle of
          sweep,          \* the cleanup goroutine: next bucket (0: waiting), its time
          ticking,        \* the ticker was not stopped
          reported,       \* the calls of onEvicted made by the last step, in order
          did             \* the call that took effect in the last step, with its result

vars == <<clock, caches, op, sweep, ticking, reported, did>>

Node == [k : Keys, v : Values, expireAt : Nat]

Idle == [kind |-> "idle"]

Waiting == [bucket |-> 0, now |-> 0]

Init ==
  /\ clock = 1
  /\ caches = [b \in 1..Buckets |-> <<<<>>, <<>>>>]
  /\ op = [c \in Clients |-> Idle]
  /\ sweep = Waiting
  /\ ticking = TRUE
  /\ reported = <<>>
  /\ did = None

L1(key) == caches[BucketOf[key]][1]
L2(key) == caches[BucketOf[key]][2]

Expired(nd, now) == nd.expireAt > 0 /\ now >= nd.expireAt

\* The nodes whose key is not among keys.
Beyond(nodes, keys) == {nd \in nodes : nd.k \notin ToSet(keys)}

Did(call, key, result) == [call |-> call, k |-> key, v |-> result]

Entry(nd) == [k |-> nd.k, v |-> nd.v]

\* A faulty variant, the shape of a plausible slip: put calls the callback for
\* any live tail, also one that stays.
EvictionReportOfTail(level2, key) ==
  IF level2 = <<>> \/ Last(level2).expireAt = 0 THEN <<>> ELSE <<Entry(Last(level2))>>

\* onEvicted(k, v) for the node a full level 2 pushes out.
EvictionReport(level2, key) ==
  IF Displaced(level2, L2Cap, key) = {} THEN <<>> ELSE <<Entry(Last(level2))>>

-----------------------------------------------------------------------------
\* The clock is advanced by a goroutine of its own, under no lock.
Tick ==
  /\ clock < MaxClock
  /\ clock' = clock + 1
  /\ reported' = <<>> /\ did' = None
  /\ UNCHANGED <<caches, op, sweep, ticking>>

\* SetWithExpiration up to the lock: the expiry time is fixed here.
SetStart(c, key, val, duration) ==
  /\ op[c] = Idle
  /\ op' = [op EXCEPT ![c] = [kind |-> "set", k |-> key, v |-> val,
              expireAt |-> IF duration > 0 THEN clock + duration ELSE 0]]
  /\ reported' = <<>> /\ did' = None
  /\ UNCHANGED <<clock, caches, sweep, ticking>>

\* History, for ClearEmpties: the keys set since a Clear under way began.
NoteSet(ops, key) ==
  [c \in Clients |-> IF ops[c].kind \in {"scan", "delete"}
                     THEN [ops[c] EXCEPT !.since = @ \cup {key}] ELSE ops[c]]

\* SetWithExpiration under the lock: put into level 1; a live node pushed out
\* of a full level 1 moves to level 2, which reports what it pushes out.
SetApply(c) ==
  /\ op[c].kind = "set"
  /\ LET nd      == [k |-> op[c].k, v |-> op[c].v, expireAt |-> op[c].expireAt]
         b       == BucketOf[nd.k]
         evicted == Displaced(L1(nd.k), L1Cap, nd.k)
     IN /\ caches' = [caches EXCEPT
             ![b][1] = PutIn(@, L1Cap, nd),
             ![b][2] = IF evicted = {} THEN @ ELSE PutIn(@, L2Cap, Last(L1(nd.k)))]
        /\ reported' = IF evicted = {} THEN <<>>
                       ELSE EvictionReport(L2(nd.k), Last(L1(nd.k)).k)
        /\ op' = NoteSet([op EXCEPT ![c] = Idle], nd.k)
        /\ did' = Did("set", nd.k, IF Expired(nd, clock) THEN None ELSE nd.v)
  /\ UNCHANGED <<clock, sweep, ticking>>

-----------------------------------------------------------------------------
(* Faulty variants of the definitions below, each the shape of a plausible    *)
(* slip: the runs use them to show that the properties can fail.              *)

DeleteFromLevel1(levels, key) == <<DelIn(levels[1], key), levels[2]>>

DeleteReportLevel1(levels, key) ==
  IF Live(levels[1], key) THEN <<Entry(NodeOf(levels[1], key))>> ELSE <<>>

\* Without the call of delete.
GetLevel1ExpiredOnly(key) ==
  /\ Live(L1(key), key)
  /\ Expired(NodeOf(L1(key), key), clock)
  /\ caches' = [caches EXCEPT ![BucketOf[key]][1] = DelIn(@, key)]
  /\ reported' = <<>>
  /\ did' = Did("get", key, None)
  /\ UNCHANGED <<clock, op, sweep, ticking>>

\* Without the keys of level 2.
ClearScanLevel1(c) ==
  /\ op[c].kind = "scan"
  /\ LET level1 == caches[op[c].bucket][1]
         keys1  == op[c].keys \o Collected(level1, Walked(level1))
     IN op' = [op EXCEPT ![c] =
                 IF op[c].bucket < Buckets
                 THEN [kind |-> "scan", bucket |-> op[c].bucket + 1, keys |-> keys1,
                       since |-> op[c].since]
                 ELSE [kind |-> "delete", keys |-> keys1, since |-> op[c].since]]
  /\ reported' = <<>> /\ did' = None
  /\ UNCHANGED <<clock, caches, sweep, ticking>>

ExpiredKeysLevel1(levels, now) ==
  Collected(levels[1], {nd \in ToSet(levels[1]) : Expired(nd, now)})

-----------------------------------------------------------------------------
\* delete: both levels; one callback, with the value of level 1 when it had one.
DeleteFrom(levels, key) == <<DelIn(levels[1], key), DelIn(levels[2], key)>>

DeleteReport(levels, key) ==
  CASE Live(levels[1], key) -> <<Entry(NodeOf(levels[1], key))>>
    [] ~Live(levels[1], key) /\ Live(levels[2], key) -> <<Entry(NodeOf(levels[2], key))>>
    [] OTHER -> <<>>

\* Get: a live entry leaves level 1 for level 2, which may push one out.
GetLevel1Hit(key) ==
  /\ Live(L1(key), key)
  /\ ~Expired(NodeOf(L1(key), key), clock)
  /\ LET nd == NodeOf(L1(key), key)
     IN /\ caches' = [caches EXCEPT ![BucketOf[key]] =
                        <<DelIn(@[1], key), PutIn(@[2], L2Cap, nd)>>]
        /\ reported' = EvictionReport(L2(key), key)
        /\ did' = Did("get", key, nd.v)
  /\ UNCHANGED <<clock, op, sweep, ticking>>

\* Get: an expired entry of level 1 is already deleted by del when delete runs,
\* so delete finds at most the copy of level 2.
GetLevel1Expired(key) ==
  /\ Live(L1(key), key)
  /\ Expired(NodeOf(L1(key), key), clock)
  /\ LET levels == [caches[BucketOf[key]] EXCEPT ![1] = DelIn(@, key)]
     IN /\ caches' = [caches EXCEPT ![BucketOf[key]] = DeleteFrom(levels, key)]
        /\ reported' = DeleteReport(levels, key)
        /\ did' = Did("get", key, None)
  /\ UNCHANGED <<clock, op, sweep, ticking>>

\* _get, but for the reordering: the value of a node that is live and in time.
ValueIn(level, key) ==
  IF Live(level, key) /\ ~Expired(NodeOf(level, key), clock) THEN NodeOf(level, key).v ELSE None

\* Get: level 1 has no live entry; a node found in level 2 becomes its head,
\* live or not, and is not deleted when it has expired.
GetLevel2(key) ==
  /\ ~Live(L1(key), key)
  /\ caches' = [caches EXCEPT ![BucketOf[key]][2] = Touch(@, key)]
  /\ did' = Did("get", key, ValueIn(L2(key), key))
  /\ reported' = <<>>
  /\ UNCHANGED <<clock, op, sweep, ticking>>

Delete(key) ==
  /\ caches' = [caches EXCEPT ![BucketOf[key]] = DeleteFrom(@, key)]
  /\ reported' = DeleteReport(caches[BucketOf[key]], key)
  /\ did' = Did("delete", key, Live(L1(key), key) \/ Live(L2(key), key))
  /\ UNCHANGED <<clock, op, sweep, ticking>>

ClearStart(c) ==
  /\ op[c] = Idle
  /\ op' = [op EXCEPT ![c] = [kind |-> "scan", bucket |-> 1, keys |-> <<>>, since |-> {}]]
  /\ reported' = <<>> /\ did' = None
  /\ UNCHANGED <<clock, caches, sweep, ticking>>

\* The keys of one bucket, under its lock; those of level 2 without duplicates.
ClearScan(c) ==
  /\ op[c].kind = "scan"
  /\ LET b      == op[c].bucket
         levels == caches[b]
         keys1  == op[c].keys \o Collected(levels[1], Walked(levels[1]))
         keys2  == keys1 \o Collected(levels[2], Beyond(Walked(levels[2]), keys1))
     IN op' = [op EXCEPT ![c] =
                 IF b < Buckets
                 THEN [kind |-> "scan", bucket |-> b + 1, keys |-> keys2, since |-> op[c].since]
                 ELSE [kind |-> "delete", keys |-> keys2, since |-> op[c].since]]
  /\ reported' = <<>> /\ did' = None
  /\ UNCHANGED <<clock, caches, sweep, ticking>>

ClearDelete(c) ==
  /\ op[c].kind = "delete"
  /\ op[c].keys # <<>>
  /\ LET key == Head(op[c].keys)
     IN /\ caches' = [caches EXCEPT ![BucketOf[key]] = DeleteFrom(@, key)]
        /\ reported' = DeleteReport(caches[BucketOf[key]], key)
  /\ op' = [op EXCEPT ![c].keys = Tail(@)]
  /\ did' = None
  /\ UNCHANGED <<clock, sweep, ticking>>

ClearReturn(c) ==
  /\ op[c].kind = "delete"
  /\ op[c].keys = <<>>
  /\ op' = [op EXCEPT ![c] = Idle]
  /\ reported' = <<>> /\ did' = None
  /\ UNCHANGED <<clock, caches, sweep, ticking>>

\* Close stops the ticker; the goroutine finishes the sweep it is in.
Close ==
  /\ ticking
  /\ ticking' = FALSE
  /\ reported' = <<>> /\ did' = None
  /\ UNCHANGED <<clock, caches, op, sweep>>

CleanupStart ==
  /\ ticking
  /\ sweep = Waiting
  /\ sweep' = [bucket |-> 1, now |-> clock]
  /\ reported' = <<>> /\ did' = None
  /\ UNCHANGED <<clock, caches, op, ticking>>

\* The keys with an expired node in either level, as the sweep collects them.
ExpiredKeys(levels, now) ==
  LET due(level) == {nd \in ToSet(level) : Expired(nd, now)}
      keys1      == Collected(levels[1], due(levels[1]))
  IN keys1 \o Collected(levels[2], Beyond(due(levels[2]), keys1))

\* The levels and the callbacks after keys were deleted from both, in order.
DeletedAll(levels, keys) ==
  LET after[i \in 0..Len(keys)] ==
        IF i = 0 THEN [levels |-> levels, reported |-> <<>>]
        ELSE LET before == after[i-1]
             IN [levels   |-> DeleteFrom(before.levels, keys[i]),
                 reported |-> before.reported \o DeleteReport(before.levels, keys[i])]
  IN after[Len(keys)]

\* One bucket under its lock: each collected key is deleted from both levels.
CleanupBucket ==
  /\ sweep # Waiting
  /\ LET b     == sweep.bucket
         after == DeletedAll(caches[b], ExpiredKeys(caches[b], sweep.now))
     IN /\ caches' = [caches EXCEPT ![b] = after.levels]
        /\ reported' = after.reported
        /\ sweep' = IF b < Buckets THEN [sweep EXCEPT !.bucket = b + 1] ELSE Waiting
  /\ did' = None
  /\ UNCHANGED <<clock, op, ticking>>

Next ==
  \/ Tick
  \/ \E c \in Clients :
       \/ \E key \in Keys, val \in Values, duration \in Durations :
             SetStart(c, key, val, duration)
       \/ SetApply(c)
       \/ ClearStart(c) \/ ClearScan(c) \/ ClearDelete(c) \/ ClearReturn(c)
  \/ \E key \in Keys : \/ GetLevel1Hit(key) \/ GetLevel1Expired(key) \/ GetLevel2(key)
                       \/ Delete(key)
  \/ Close
  \/ CleanupStart
  \/ CleanupBucket

Spec == Init /\ [][Next]_vars

(* The cleanup goroutine is scheduled as long as the ticker fires.  Clients   *)
(* are owed nothing, and the clock may stand still.                           *)
Fairness == WF_vars(CleanupStart \/ CleanupBucket)

FairSpec == Spec /\ Fairness
-----------------------------------------------------------------------------
\* What a Get of key would answer now.
Readable(key) ==
  IF Live(L1(key), key) THEN ValueIn(L1(key), key) ELSE ValueIn(L2(key), key)

\* A level never exceeds its capacity and holds each key once, in the bucket of
\* the key.
LevelsBounded ==
  \A b \in 1..Buckets :
    /\ Len(caches[b][1]) <= L1Cap /\ Len(caches[b][2]) <= L2Cap
    /\ \A level \in 1..2 : \A i, j \in DOMAIN caches[b][level] :
          /\ BucketOf[caches[b][level][i].k] = b
          /\ caches[b][level][i].k = caches[b][level][j].k => i = j

\* What a client is in the middle of; since is the history of ClearEmpties.
OpType ==
  {Idle}
  \cup [kind : {"set"}, k : Keys, v : Values, expireAt : Nat]
  \cup [kind : {"scan"}, bucket : 1..Buckets, keys : Seq(Keys), since : SUBSET Keys]
  \cup [kind : {"delete"}, keys : Seq(Keys), since : SUBSET Keys]

(* Types, and the levels as above, however evictions from level 1, promotions *)
(* and deletions interleave (lines 113-123, 180-200).                         *)
TypeOK ==
  /\ clock \in 1..MaxClock
  /\ caches \in [1..Buckets -> [1..2 -> Seq(Node)]]
  /\ LevelsBounded
  /\ op \in [Clients -> OpType]
  /\ sweep = Waiting \/ sweep \in [bucket : 1..Buckets, now : 1..MaxClock]
  /\ ticking \in BOOLEAN
  /\ reported \in Seq([k : Keys, v : Values])
  /\ did = None \/ did \in [call : {"get", "set", "delete"}, k : Keys,
                             v : Values \cup {None} \cup BOOLEAN]

(* A value that could be read and can no longer be read, without time having  *)
(* passed and without having been overwritten, was passed to onEvicted in     *)
(* that very step: evictions at either level, deletions, Clear and the        *)
(* cleanup drop nothing silently (lines 27-30, 196-199, 576-588).             *)
EveryLossReported ==
  [][\A key \in Keys :
       (Readable(key) # None /\ Readable(key)' = None /\ clock' = clock
          /\ ~\E c \in Clients : op[c].kind = "set" /\ op'[c] = Idle /\ op[c].k = key)
       => [k |-> key, v |-> Readable(key)] \in ToSet(reported')]_vars

(* In level 1 no deleted slot is nearer to the head than a live node, so a    *)
(* full level 1 with a deleted slot reuses it and displaces nothing: what del *)
(* promises with "moved to the tail, to be reused first" (lines 488-489).     *)
DeletedReusedFirst(level) ==
  \A i, j \in DOMAIN level : i < j /\ level[i].expireAt = 0 => level[j].expireAt = 0

Level1ReusesDeletedFirst == \A b \in 1..Buckets : DeletedReusedFirst(caches[b][1])

(* When Clear returns, no key is left in either level but those that were set *)
(* while it ran, although it scans and deletes under separate locks and reads *)
(* move entries between the levels meanwhile (lines 224-251).                 *)
ClearEmpties ==
  [][\A c \in Clients, key \in Keys :
       ClearReturn(c) /\ key \notin op[c].since => ~Live(L1(key), key) /\ ~Live(L2(key), key)]_vars

(* A callback speaks of a value that is gone, and of a key once: after the    *)
(* step the key is in no level, or only in level 1, with the node that hid    *)
(* the reported copy of level 2 or that a Set put there in this step (lines   *)
(* 196-199, 434, 577-588).                                                    *)
ReportedOnceAndGone ==
  [][/\ \A i, j \in DOMAIN reported' : reported'[i].k = reported'[j].k => i = j
     /\ \A key \in {reported'[i].k : i \in DOMAIN reported'} :
          /\ ~Live(L2(key), key)'
          /\ Live(L1(key), key)' =>
               \/ Live(L1(key), key) /\ NodeOf(L1(key), key)' = NodeOf(L1(key), key)
               \/ \E c \in Clients : op[c].kind = "set" /\ op[c].k = key /\ op'[c] = Idle]_vars

HoldsUntil(key, e) ==
  \E level \in {L1(key), L2(key)} : Live(level, key) /\ NodeOf(level, key).expireAt = e

(* An expired entry is eventually removed from both levels, read or not, as   *)
(* long as the ticker runs (lines 600-637).                                   *)
ExpiredRemoved ==
  \A key \in Keys, e \in 2..MaxClock :
    (clock >= e /\ HoldsUntil(key, e)) ~> (~HoldsUntil(key, e) \/ ~ticking)
=============================================================================
