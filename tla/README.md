# TLA+ models and proofs for the distributed cache

The program is a cache node in Go. Several nodes share a key space through a
consistent hash ring; the node that owns a key keeps its value in a local
two-level LRU store in front of Redis, and reads that miss go to Redis through a
singleflight group. etcd carries registration, discovery, leader election, load
reports and ring snapshots.

This directory holds TLA+ models of the parts that change state, TLC
configurations that check them on small instances, and TLAPS proofs of most of
their invariants for every value of the constants. Line numbers refer to the
files under `src/`.

## 1. The system

| Part | State | Operations | Used by |
| --- | --- | --- | --- |
| LRU level, `cache` in `pkg/store/lru2.go` | `dlnk` (linked list in an array, slot 0 is both ends), `m` (nodes), `hmap`, `last` | `put`, `get`, `del`, `walk`, `adjust` | the store, under a bucket's lock |
| Two-level store, `lru2Store` | `caches[bucket][0..1]`, `locks`, the ticker, the package clock | `Set`, `SetWithExpiration`, `Get`, `Delete`, `Clear`, `Len`, `Close`; goroutines: clock, `cleanupLoop` | the handlers, any number of goroutines |
| `singleflight.Group` | `m`, a `sync.Map` from key to call | `Do` | the Get handler |
| Handlers, `Server` in `internal/server/server.go` | none of their own; local store, Redis, group, peers | `Get`, `Set`, `Delete`, `SetToCache` | gRPC, the command line |
| Redis wrapper, `internal/database` | external | `Get`, `Set`, `Delete` | the handlers |
| Hash ring, `consistenthash.Map` | `keys`, `hashMap`, `nodeReplicas`, `nodeCounts`, `selfLoad` | `Add`, `Remove`, `Get`; goroutines: load report, election, `updateNodeCount`, `CheckAndRebalanceAndSyncHashRing`, `updateHashRing` | the peer picker |
| Peer picker, `internal/server/peer.go` | `grpcCli`, the ring | `PickPeer`, `Close`; goroutine: discovery | the handlers |
| Registration, `internal/registry` | a lease in etcd | `Register`, keep-alive, revoke | `Server.Start` |
| Byte-bounded LRU, `LruCache` in `pkg/store/lru.go` | `list`, `items`, `expires`, `usedBytes` | `Get`, `Set`, `SetWithExpiration`, `Delete`, `Clear`, `Len`, `Close`, eviction; goroutine: `cleanupLoop` | nobody: `NewStore` has its case commented out, although `main.go` asks for it |
| Command line, generated gRPC code | none | input and output | |

Interaction: a request enters a handler in a goroutine of its own. The handler
asks the ring of its node for the owner. Another owner gets the request by gRPC,
and its handler asks its own ring again. The owner of a key calls the store (one
bucket lock per call), and on a miss calls `Do`, whose `fn` is `redis.Get`; then
it fills the store. `Set` and `Delete` call Redis and then `cache.Delete`. A node
that starts registers its address in etcd under a lease; discovery at the other
nodes makes a client for it and puts it on their rings, and takes both away when
the address goes. The elected leader changes replica counts and publishes its
ring, which followers take over as it is.

What makes it hard:

- **Interleaving and atomicity.** `Do` takes no lock across Load, Store and
  Delete. The handlers take no lock across the store and Redis. The expiry time
  of a Set is computed before the lock. `Clear` and the cleanup go bucket by
  bucket. A pass of `checkAndRebalance` locks node by node, and decides before it
  locks; `syncHashRing` reads the ring under no lock.
- **Two copies of a key.** A read moves an entry from level 1 to level 2; a later
  Set writes level 1 and leaves the old copy in level 2. Every operation has to
  keep the older copy from becoming readable.
- **Linked list in an array.** `adjust` and `put` rewire four links through an
  array whose slot 0 is head and tail at once.
- **Partial failure.** Redis commands and calls to other nodes fail; the handlers
  drop the error of a write.
- **Crash and restart.** A node may come back while etcd still holds the lease of
  its earlier life; a leader may die in a pass, or between a pass and its Put.
- **Two steps per update.** A picker changes its client map and its ring one after
  the other, and reads the services in one step and watches them in another.
- **Liveness.** Waiters depend on another goroutine; expired entries depend on
  the cleanup goroutine.
- **Two sources of truth.** A snapshot replaces part of a follower's ring; the rings
  of two nodes may differ, and each node routes by its own.

What makes each part correct: the list visits every slot once and agrees with the
index (level); a Get answers what was last set or nothing, and every loss is
reported (store); no finished call stays in the map and nobody waits for ever
(singleflight); a store entry differs from Redis only in named circumstances
(handlers), and a request is answered once the rings agree; the ring is what the
replica counts say, and a change of one node moves only keys of that node (ring);
who leads has such a ring, and followers have the one in etcd, whole or torn
(cluster); a picker
knows the nodes that are registered (discovery); list, map, expiries and byte
count agree (byte-bounded LRU). `PROJECT.json` lists each hazard at its
line with the properties that speak of it.

## 2. Modules

```
RecencyList --abstract of--> LRU2Layer --> LRU2LayerRefinement --> MCLRU2Layer
   |                                               \--> LRU2LayerProofs
Recency (operators on a recency sequence, used by both families)
   |
LRU2Store --> LRU2StorePromise (implements LossyCache) --> LRU2StoreProofs
         \                  \--> MCLRU2Store
          \--> LRU2StoreClaims --/
Singleflight --> MCSingleflight
         \--> CacheServer --> MCCacheServer, CacheServerProofs
LRUCache --> MCLRUCache, LRUCacheProofs
Ring (operators on positions and owners) --> RingProofs
   |--> HashRing --> MCHashRing, HashRingProofs
   \--> RingCluster --> MCRingCluster, RingClusterProofs
Registration --> Discovery --> MCDiscovery, DiscoveryProofs
```

Three specifications stand on each other: `LRU2Layer` (arrays) implements
`RecencyList` (a sequence, most recently used first); `LRU2Store` is built from
the operators of that sequence and implements `LossyCache` (a map that may
forget); `CacheServer` uses a `LossyCache` at every node and the steps of
`Singleflight`. `HashRing` has one node's ring in detail and the rest of the
cluster as environment; `RingCluster` has several nodes and the loads as
environment; both use the operators of `Ring`. `Discovery` composes the
registration of every node with the pickers of some.

### LRU2Layer, RecencyList, Recency, LRU2LayerRefinement

State as in the code: `dlnk[i][P/N]`, `m[slot]`, `hmap` (0 when absent), `last`,
and `ret`, what the last operation returned. `put` is three actions by its
branches (`PutUpdate`, `PutReuse`, `PutAlloc`), `get` and `del` two each; `walk`
is the function `Visited`. A capacity is `Cap`, assumed between 1 and 65534,
where `last+1` and `len(dlnk)` fit in `uint16`. Not represented: an empty
callback versus none, and the identity of node pointers.

### LRU2Store, LRU2StorePromise, LossyCache, LRU2StoreClaims

One action is what runs under one acquisition of one bucket lock.
`SetWithExpiration` is `SetStart` (before the lock) and `SetApply`. `Get` is
three actions by the place where the key is found. `Clear` is `ClearStart`, one
`ClearScan` per bucket, one `ClearDelete` per key, `ClearReturn`. The cleanup
goroutine is `CleanupStart` and one `CleanupBucket` per bucket. `Tick` advances
the clock. `op[c]` is what a client is in the middle of, `reported` the calls of
`onEvicted` in the last step, `did` the call that took effect and its result.
`Readable(key)` is what a Get would answer now; the refinement mapping sends it
to `stored` of `LossyCache`.

Assumed: a clock that does not step back, sums of times that do not overflow,
values other than nil, capacities of at least 1, an `onEvicted` that does not
call the store (it would block on the bucket's lock).

### Singleflight

One step per operation: Load (`DoJoin` or `DoLead`, by what it finds), Store, the
return of `fn`, `wg.Done`, Delete, Wait, return. Call objects are reused only
when neither the map nor a caller refers to them. `fn` may return anything in
`Results`, its error included; a panic of `fn` is left out.

### LRUCache

`cache` is the state under the lock: the list of elements, the map from keys to
elements, the expiries, `usedBytes`, and what each element holds. Every operation
is one action, since it holds the lock throughout, but `Get`, which is four:
`GetFind` (lines 81-86), `GetExpiry` (88-93), then `GetDrop` or `GetTouch` and
`GetReturn`; it goes on with the element of the first step, which others may have
removed or written to. An element is free again when neither the list nor a Get
refers to it; `ElemsAssumption` gives the model as many elements as there can be
keys and Gets, so that `PushFront` always has one to make. The size of an entry is given by its value (`Size`, key included).
`drift` is history: the bytes that `evict` has subtracted once too often. `late` is
history: the entry had expired when the Get found it. Not represented: `onEvicted`
(nothing else reads what it does) and the value a racing read of line 108 gets.

### CacheServer

The handlers of all nodes, composed with `Singleflight`: one step per call a handler
makes. A key of the group and of the stores is a place, a node and a name, since
every node has its own. `owner` is the owner of a name as each node sees it, and
may change at any time (`RingChange`): what rings do is in the modules of the
ring. A forwarded request moves to the place at the other node, whose handler
picks again; the goroutine that waits has nothing left to do but pass the answer
on, so one goroutine stands for the chain. The call to the other node may fail
(`ForwardFails`). Redis commands are atomic and may fail without effect
(`RedisMayFail`). The store is a `LossyCache` with an `Evict` that may happen at
any time. Three history variables name the circumstances in which a store may
differ from Redis: `hot` (the value was put there by `SetToCache`), `overtaken`
(Redis changed while a goroutine held a value it had read before) and `elsewhere`
(another node, with another idea of the owner, changed Redis while the store had,
or was about to have, a value).

### Ring

`keys` is given by how many copies of each position the sorted slice holds,
`hashMap` by the owner of each position. `Place` gives the hash of every virtual
node; in the instances all are distinct. `KeysWith`, `OwnersWith` are `addNode`,
`KeysWithout`, `OwnersWithout` are `removeNoLock` with `slice_remove`, `OwnerIn` is
the lookup of `Get`, `Moved` is the replica count a pass moves a node to.

### HashRing

One node's `Map`. `Add` and `Remove` are discovery's calls, whatever their order.
`role` follows `RunElection`: a node that lost the campaign stays a follower,
since the loop of lines 230-243 has no way back to the campaign. As follower it
receives `Snapshots`, each given by its keys and its owners, which in the instances
are a ring of other replica counts and a torn one. As leader it receives load counts,
also of nodes that are not on the ring, and runs passes of `checkAndRebalance`. A
pass fixes its average and then visits the nodes one by one, in any order. A node
within the thresholds is left (`CheckKeeps`); for one outside, the new count is
computed from `nodeReplicas` under no lock (`CheckDecides`) and applied under `mu` in
another step (`CheckMoves`), before which the node may have left, come, or been
counted anew. `rebalanceReplicas` deletes and remakes the entry of `nodeCounts` that
the `range` stands on, and the Go specification lets the loop meet the new entry or
not: the model allows one more visit in a pass. A node removed before its turn is not
visited, one added may be. A pass with no counts at all divides by 0 and ends the
process (`CheckPanics`), which starts again with an empty ring (`Launch`). `Step` is
the code's 10, the thresholds are the default 1.1 and 0.9.

Not represented: how `selfLoad` is counted and reported, lookups in the middle of a
change of the ring. Data races on Go maps abort the process and have no later states.

### RingCluster

Each node has a ring (`keys`, `owners`, `replicas`), a role, and what its
rebalancing goroutine is doing (`sync`). `role` follows `RunElection` in full:
`candidate` (in `Campaign`), `leader`, `follower` (with a watch on the snapshots),
`deaf` (after that watch has ended, by itself at lines 338 and 352, or because the
observation did, 235-240), `out` (no session) and `down`. `elected` is
who holds the election in etcd; a session may expire before its leader notices, so
that two nodes may take themselves for the leader (`SessionExpires`, `Elected`,
`Retire`). A pass moves any node of `Uneven` to any count, one step per node: the
count was decided earlier. `syncHashRing` is three steps, under no lock: `Sync` takes
the keys, `Encode` reads `hashMap`, and `Publish` is the Put, which may come when the
node leads no longer. A change of the ring between `Sync` and `Encode` makes a torn
snapshot: the keys of before, or of now, with the owners of now. `inbox` is what etcd
has yet to deliver to a follower, in order; only snapshots published while it watches
get there. Nodes crash, start again with an empty ring, and discovery adds and removes
nodes in any order.

Simplifications: a pass does not outlast the five seconds of the next campaign; a
node has one Put under way at a time; an encoding that runs in the very moment of a
change, or through a slice whose array the change reorders, shows the keys of before
or of now, not the further copies or missing ends the code may produce; `MaxPasses`
bounds how many passes change a ring. The loads that decide which node a pass moves
are in `HashRing`.

### Registration, Discovery

`services` is the prefix `/services/<name>` in etcd: each address with the lease it
is attached to. `live` is the set of leases etcd holds, `lease` the one a process was
granted. `Register` is `Grant`, `PutService`, `KeepAlive`, each of which may fail
(`Start` drops the error and goes on). An exit revokes the lease (`ExitRevoking`) or
loses that race, like a crash; the lease then expires at some time, perhaps after
the node has started again and put its key under a new one. A lease may also expire
under a node that still renews it but cannot reach etcd.

`picker` is one node's `ClientPicker`: the first read (`FetchAll`), two steps for
each service read, the watch, two steps for each event. `todo` is what was read or
heard and not handled yet. `Heard` appends what changes in `services` to the `todo`
of the pickers that watch; a picker between its read and its watch misses it
(`missed`, history).

Of the ring only its nodes matter here, and they are not what discovery makes them
alone. `Add` and `Remove` go by `nodeReplicas`, which is `added` (what discovery put
there) and `revived` (what a pass of `checkAndRebalance` put back since,
`PassRevives`): `Add` leaves a node alone that is there, and `Remove` takes out all of
a node until a snapshot has come (`Snapshot`, `replaced`), and after that all of it or
not. Whether a node is on its own ring is not asked.

Not represented: a node whose address begins with ":" registers under its local
IP while its picker and ring know it by ":port" (`registry.go:40-42`,
`server.go:57-59`), so that it finds itself as a peer; addresses here are one name.

## 3. Runs

| Run | Instance | States | Shows |
| --- | --- | --- | --- |
| `LRU2Layer` | 3 slots, 4 keys, 2 values | 51,897 | `TypeOK`, `Links`, `Index`, `WalkSpansSlots`, and `ImplementsRecencyList`: each put, get and del is one on the recency sequence, with the same results |
| `LRU2StoreTime` | 2 buckets, levels of 1, 2 keys, 2 values, durations 1 and 2, clock to 2 | 178,052 | `EveryLossReported`, `ReportedOnceAndGone`, `ExpiredRemoved`; `IsLossyCache` with expiry, promotion, cleanup, Clear and Close |
| `LRU2StoreCapacity` | levels of 2 and 1, 3 keys, 2 clients | 381,180 | `TypeOK` with the capacities, `Level1ReusesDeletedFirst`, `ClearEmpties`; `IsLossyCache` under eviction through both levels |
| `LRUCache` | 2 keys, sizes 1 and 2, room for 2, 1 getter, clock to 3 | 174,570 | `ListMatchesItems`, `BytesAccounted`, `LateAnswerOnlyIfRemoved`, `ExpiredRemoved` |
| `Singleflight` | 3 callers, 1 key, 3 calls, 2 results | 73,967 | `NoStaleEntry`, `NoLostWaiter`, `EveryDoReturns` |
| `CacheServer` | 1 node, 3 requests, 1 key, 2 values, failing Redis | 649,121 | `StaleOnlyIfOvertaken` |
| `CacheCluster` | 3 nodes, 1 request at a time, 1 key, failing Redis | 126,784 | `StaleOnlyIfOvertaken` across nodes, `RequestsAnswered` |
| `HashRing` | 3 nodes of 1 or 2 virtual nodes, step 1, a whole snapshot and a torn one | 505,374 | `RingMatchesReplicas`, `NodesCounted`, `OnlyItsKeysMove` |
| `RingCluster` | 2 nodes of 1 or 2 virtual nodes, 2 passes | 749,227 | `LeaderRingExact`, `FollowersAgree`, `LeaderReturns` |
| `Discovery` | a picker, and another node with 2 leases at once, 2 events | 635,532 | `KeptIsRegistered`, `CaughtUp`, `RingHasClients`, `GoneNodeLeaves`, `KeptNodeFound` |
| `ClaimCleanup` | 1 key | | `CleanupRemovesOnlyExpired` is violated |
| `HashRingClaim` | 3 nodes | | `RemovedOwnsNothing` is violated |

Every module's type invariant is checked with a run that covers it.

**Why the bounds are enough.** Three slots are the fewest in which the list has a
head, a tail and a middle, and one key more than slots makes reuse and re-entry
happen. A level of one slot makes every put displace and every read promote; two
slots in level 1 are the fewest in which the order inside the level matters, and
three keys then fill both levels. Both keys of `LRU2StoreTime` lie in the last of
two buckets, so that Clear and the cleanup have to get there past an empty one;
durations 1 and 2 let an older copy expire before, with and after a newer one. Two
clients let a Clear overtake a Set and another Clear. A large value and a small one
of `LRUCache` make an update grow, shrink and evict, and one getter meets every
operation between its steps: getters share nothing else. `MaxDrift` bounds how often
eviction may miscount, one large value's worth. Three callers of one key are the
fewest in which a caller deletes another's call while a third waits for it; keys
do not interact in the group. Three nodes are the fewest in which a request can go
round without coming back to where it was made, and in which a key could move
between two nodes that did not change; one request at a time is enough there, as
`CacheServer` has the requests that meet at a node. The virtual nodes of `HashRing`
interleave, so that there is an arc of every kind (own neighbour, other
neighbour, wrap-around); the whole snapshot has more virtual nodes of a node than
the follower believes, the torn one has positions without an owner. Two nodes are the
fewest with a leader and a follower, or two leaders that do not know of each other;
two passes publish two snapshots, the fewest that can overtake each other or be taken
in the wrong order. Two leases of a node are its earlier life and its present one; two
events wait when one is half handled and the next is heard.

**Symmetry** is declared in `LRU2StoreCapacity` for keys (all share a bucket), values
and clients, and in `CacheServer` for goroutines, calls and values. No run with a
liveness property declares any.

**Fairness.** `LRU2StoreTime` and `LRUCache` assume weak fairness of the cleanup
goroutine: it is a loop over a ticker, and each pass takes locks that are held for a
bounded time. Nothing is assumed of clients or of the clock; once `Close` has stopped
the ticker nothing is promised. `Singleflight` assumes that a goroutine inside `Do`
keeps being scheduled and that `fn`, a Redis read by a client with timeouts, returns.
`CacheCluster` assumes that a goroutine that serves a request keeps running, and
that Redis and the other nodes answer, if only with an error. `RingCluster` assumes
that a campaign ends after its five seconds, that a leader notices the end of its
session, and that the session of a node that no longer leads expires. `Discovery`
assumes that the discovery goroutine runs and that a lease nobody renews expires.
Nothing is assumed of crashes, of elections, of passes or of snapshots.

**Conditional liveness.** `RequestsAnswered` is promised once the rings stop changing
and the owner each names takes the key for its own; `LeaderReturns` once no node
crashes any more, and leaves open that all nodes end up as followers; `GoneNodeLeaves`
and `KeptNodeFound` for a node whose state, and whose picker's watch, stay as they are:
of the clients always, of the ring only while no snapshot comes and no pass puts the
node back.

**Deadlock** is checked in every run.

**Mutants.** Each passing property has a faulty form of a mapped definition,
written beside it in its module under a comment, that makes the run fail.

## 4. Where the code and its words differ

Two runs end in a violation, each of what a comment or a test says
(`findings` in `PROJECT.json`):

- The cleanup deletes a live value of level 1 when an older copy of its key has
  expired in level 2 (`lru2.go:631`).
- After a snapshot, `Remove` leaves virtual nodes of the removed node on the ring
  (`con_hash.go:447`).

Others are in the models, without a run of their own:

- `SetWithExpiration` with a duration of 0 makes an older value readable again
  (`lru2.go:164`): the expiry 0 marks a deleted node (361), the Set that "writes the
  new value into level 1" (156) is born deleted, and a Get goes on to level 2.
- `Do` is said to run `fn` once for one key (`singleflight.go:19`); two callers that
  both find no call (22, 31) both run it.
- A Get that read Redis before a Delete refills the store after it; the deleted
  value is answered until it is evicted (`server.go:121`). `overtaken` marks it.
- Two nodes that name each other as the owner of a key forward a request between
  them for as long as their rings differ (`server.go:128`).
- `lru2.go:96` says an expired hit in level 2 is deleted; `_get` (562) answers a
  miss first, and the node stays, moved to the head, until the cleanup.
- `lru2.go:489` says deleted slots are reused first; a later Get of the deleted key
  moves its node of level 2 to the head (479). `Level1ReusesDeletedFirst` is
  stated for level 1 for this reason.
- `lru2.go:27` says `onEvicted` fires when an item is finally evicted; it also fires
  for an old copy in level 2 whose key has a newer value in level 1 (434).
- `lru2.go:576` says a deletion calls `onEvicted`; an expired entry of level 1 that
  Get removes (113, 118) is already marked deleted when `delete` looks, and no
  call is made. `EveryLossReported` is about values that had not expired.
- `README.md:111` says a set is synchronised to Redis; the error of the Redis
  command is dropped (`server.go:144, 158`) and the handler reports success.
- `con_hash.go:472` says `Get` returns the real node of a key. A follower that
  receives a snapshot with a node and then adds the node holds its positions twice;
  after its removal one copy of each has no owner and the lookup answers the empty
  address.
- `con_hash.go:184` says a leader whose session ends stands again. It does; a follower
  never stands again, whoever leads or nobody (230-243), and once its observation
  channel closes it hears no snapshots either, the `break` of line 239 leaving the
  `select` only.
- `con_hash.go:355` says that the current ring is published, of which `Keys` are all
  positions and `HashMap` their owners (85-89). `syncHashRing` takes no lock and reads
  one after the other (364-367): when a node leaves in between, followers get positions
  without an owner and answer the empty address for their keys. `RingCluster` publishes
  such snapshots.
- `con_hash.go:361` says that after the sync all `nodeCounts` are reset to 0 and written
  back to etcd. `syncHashRing` does neither (362-378): a pass resets the counts of the
  nodes it moves (412), in memory, and the next reports overwrite them.
- `con_hash.go:425, 569-570` lock the ring; the number a pass moves a node to is computed
  before (535-551), so that a node that discovery has just removed is put back.
- `checkAndRebalance` divides by the number of counts (`con_hash.go:529`): the process of
  a leader that knows of no node, not even itself, ends in a panic. `NodesCounted` says
  that it then has no node on its ring.
- `peer.go:181` removes a departed node from the ring; after a snapshot some of it may
  stay, and a pass may put it back. `PickPeer` then answers a node without a client, and
  the handlers call it (`server.go:128`). `RingHasClients` says when that may happen.
- `store.go:32` calls `MaxBytes` the largest number of bytes. `evict` (`lru.go:177`)
  subtracts an entry that `removeElement` (164) subtracts again, and the cache holds
  more than `MaxBytes` from then on. `BytesAccounted` says by how much.
- `lru.go`: `Set` of an existing key leaves its expiry as it was (117-125); a `Get` that
  finds a key expired deletes whatever the key holds by then (93-94); `Clear` calls no
  `onEvicted`; `Close` twice panics.
- A registration whose keep-alive channel closes is not renewed and not made again
  (`registry.go:78`); a first read that fails, or an address that `NewClient` refuses in
  it, ends discovery for good (`peer.go:93, 118`), with its error dropped.

## 5. Proofs

The provers establish, for every value of the constants:

| Theorem | Statement |
| --- | --- |
| `LRU2LayerProofs!IInvHolds` | `Spec => []IInv` |
| `LRU2LayerProofs!TypeCorrect`, `LinksHold`, `IndexHolds` | `TypeOK`, `Links`, `Index` |
| `LRU2LayerProofs!WalkSpansSlotsHolds` | `WalkSpansSlots` |
| `LRU2LayerProofs!LevelIsRecencyList` | `ImplementsRecencyList` |
| `LRU2StoreProofs!TypeCorrect` | `TypeOK`, with the capacities and each key at most once in a level |
| `LRU2StoreProofs!StoreIsLossyCache` | `IsLossyCache`, given `DurationsPositive` |
| `LRU2StoreProofs!LossesReported`, `ReportsOnceAndOfTheGone` | `EveryLossReported`, `ReportedOnceAndGone` |
| `LRU2StoreProofs!ClearLeavesNothing` | `ClearEmpties` |
| `LRU2StoreProofs!Level1ReusesDeletedSlots` | `Level1ReusesDeletedFirst`, given `DurationsPositive` |
| `LRUCacheProofs!TypeCorrect` | `TypeOK`, with "a Get under way has an entry to read" |
| `LRUCacheProofs!ListMatchesItemsHolds`, `BytesAccountedHolds` | `ListMatchesItems`, `BytesAccounted` |
| `LRUCacheProofs!LateAnswerHolds` | `LateAnswerOnlyIfRemoved` |
| `CacheServerProofs!TypeCorrect` | `TypeOK` of the group, with "a Do that returns has a result of `fn`" |
| `CacheServerProofs!NoStaleEntryHolds`, `NoLostWaiterHolds` | `NoStaleEntry`, `NoLostWaiter` |
| `CacheServerProofs!ServerIInvHolds`, `StaleOnlyIfOvertakenHolds` | `ServerIInv`, `StaleOnlyIfOvertaken` |
| `CacheServerProofs!ServerTypeCorrect` | `ServerTypeOK` |
| `CacheServerProofs!GroupServes` | `NoStaleEntry` and `NoLostWaiter`, of the server that uses the group |
| `HashRingProofs!RingMatchesReplicasHolds`, `OnlyItsKeysMoveHolds` | `RingMatchesReplicas`, `OnlyItsKeysMove`, given `DistinctPlaces` |
| `HashRingProofs!TypeCorrect`, `NodesCountedHolds` | `TypeOK`, `NodesCounted` |
| `RingClusterProofs!TypeCorrect`, `FollowersAgreeHolds` | `TypeOK`, `FollowersAgree` |
| `RingClusterProofs!LeaderRingExactHolds` | `LeaderRingExact`, given `DistinctPlaces` |
| `DiscoveryProofs!RegIInvHolds`, `KeptIsRegisteredHolds` | `RegIInv`, `KeptIsRegistered` |
| `DiscoveryProofs!TypeCorrect`, `RingHasClientsHolds` | `TypeOK`, `RingHasClients` |
| `DiscoveryProofs!CaughtUpHolds` | `CaughtUp` |

**Level.** From `CapAssumption`, `ExpiriesAssumption` and `NoKeyAssumption`. The
inductive invariant is `TypeOK /\ Links /\ Index`. None of the three is inductive
alone: the slot that `PutReuse` takes is `dlnk[0][P]`, and that it is a slot in use
comes from `Links`; that the index entry it drops is the one of that slot comes
from `Index`; that an update moves an existing slot comes from `Index` and
`TypeOK`. The heart of the proof is three lemmas about links alone:
`AdjustPointwise` gives every link of `Adjust(links, idx, f, t)` in closed form,
`AdjustLinks` shows from it that the list stays closed with back links, and
`LinkFreshLinks` does the same for the slot that `PutAlloc` links in. The
preservation proof then has one step per action.

`IInv` does not say that the list is one chain: a closed list with back links may be
a chain and a cycle beside it, which no step of the code makes and no link by itself
excludes. `OrderInv` adds that the slots in use have an order from head to tail
(`IsOrder`), and `HeadOrder`, `TailOrder` and `FreshOrder` give the order after each
change of the list. `VisitedInOrder` shows that the walk follows the order, which is
`WalkSpansSlots`. For the refinement, `HeldIs` ties the index to the position of a key
in the sequence, `HeadStep` and `TailStep` turn a change of the order into one of the
sequence, and one lemma for each action shows it to be `Put`, `Get` or `Del` of
`RecencyList`, results included.

**Store.** From `StoreAssumption` alone, but where the table says `DurationsPositive`:
no Set is given a duration of 0. That is a premise and not an assumption of the model,
since the code takes a 0, and then stores a node that counts as deleted (line 165)
above the older value, which section 4 shows to break the promise. The proofs climb
four steps. Lemmas about sequences say what `Touch`, `PutIn` and their like do to the
nodes of a level: a level becomes the set of its live nodes, each key in it once.
Lemmas about the two levels of a bucket (`BucketPut`, `BucketHit`, `BucketTouch`,
`BucketDelete`) say what an operation does to what a read of a key would answer, and
which call of `onEvicted` it makes. `Effect(written)` puts them together: of one step
of the store, for every key, that the key reads as before, or was written, or is lost
and reported. Refinement, losses and reports follow from it action by
action. The invariant `StoreInv` adds to `TypeOK` that a Set under way has a time of
expiry above 0, the mark of deleted nodes. For `ClearEmpties`, `ClearInv` says where a
key may be that was there when Clear began: in a bucket it has yet to scan or among
the keys it has yet to delete. A read that moves an entry between the levels of its
bucket disturbs neither.

**Byte-bounded LRU.** From `LRUAssumption` and `ElemsAssumption`. `usedBytes` is a sum
along a list that every operation reorders, so the proof speaks of sums as a relation
(`IsSum`, with `SumUnique`): what a list sums up to is unchanged when elements of no
weight are dropped (`KeptFacts`), when one moves to the front (`InFront`), and when
weights are split (`SumOfBoth`). `Consistent` is what holds of the state under the
lock: list and map hold the same elements, each entry names its key, no key
without an element has an expiry, and `usedBytes + drift` is the sum of the list.
`Follows` is what an operation leaves of the elements a Get may hold: a removed element
does not come back, an entry keeps its key, and an expiry stays unless it was set. The
invariant `Inv` adds that each Get is right about its element (`GetOK`) and that
nothing else has an entry; without that an element could be made anew while a Get
holds it. That there is always an element to make is a counting argument
(`OneIsFree`). For `BytesAccounted`, `evict` ends at or
below the limit even when it runs out of elements: an empty list sums up to 0, and the
count is then `-drift`.

**Singleflight.** From `NoCallAssumption`. The inductive invariant is
`TypeOK /\ CallsHeld /\ DoneHasResult /\ NoStaleEntry /\ NoLostWaiter`. `NoStaleEntry`
needs that a fresh call object is one nobody refers to; `NoLostWaiter` needs
`NoStaleEntry` for the caller that joins (the call it finds in the map has a
creator) and `CallsHeld` for the creator that is past `wg.Done`; `DoneHasResult`
turns "done" into "the waiter returns a result of `fn`".

**Handlers.** From `ServerAssumption` and `NoCallAssumption`. `ServerIInv` is the
invariant of `Singleflight` with three facts of the handlers. `HeldIsSound`: what a
request is about to put into a store, or a finished call hands to its waiters, is
Redis' value, unless a circumstance excuses it; without it nothing is known of the
value that line 121 sets. `LoadsItsKey`: a request that loads is in
a `Do` of its own key, and `CallsHaveOneKey`: so are the callers that share a call;
without them a waiter could be handed another key's value. Each step of a handler is
a step of the group or leaves the group alone, so the proof of the group carries over.

**Ring.** From `RingAssumption` (finitely many nodes) and, where marked,
`DistinctPlaces`: no two virtual nodes hash to one position. That is a premise of the
theorems and not an assumption of the models, since crc32 does not promise it.
`CopiesAt` says that a position then carries one virtual node at most;
`MatchesWith` and `MatchesWithout` follow `addNode` and `removeNoLock`. `OwnerFound`
characterises the lookup by the position it finds, and `OneNodeMoves` compares two
rings that differ in one node, which gives `OnlyItsKeysMove`. `NodesCounted` and
`TypeOK` need none of it and hold when hashes collide. `TypeOK` says, among types, that
until a snapshot comes a position with an owner is on the ring, and that the average of
a pass is a number; this is a fold over a set of nodes, a recursive function on sets, and `SumOfCounts`
shows by induction on the size of the set that the function exists and what it yields.

**Cluster.** From `RingAssumption` and `ClusterAssumption`. `FollowersAgree` is
proved from `AgreeIInv`: the last of the snapshots that wait, or else the ring, is what
is in etcd, and only a follower has ever taken one. It says nothing of what a snapshot
holds, and so covers torn ones. `LeaderRingExact` is proved from `ExactIInv`: the rings
of all nodes that never followed match their replica counts, and a pass, which may run
on when its node leads no more, runs only at such a node. `ExactRing` turns `Matches`
into the ring the replica counts determine. Nothing of the kind is proved of what is
published: it may be torn.

**Registration and discovery.** From `LeasesAssumption` and `PickersAssumption`.
`KeptIsRegistered` alone is not inductive: `RegIInv` says the same between `Put` and
`KeepAlive`, and that who renews a lease is past both. For `RingHasClients` the
invariant says of each picker that a put handled by half already has its client, so
that only a half-handled find or delete leaves a node that discovery added without one;
and that until a snapshot comes the ring is `added` and `revived` together. `CaughtUp`
speaks of a picker with nothing to handle; its invariant `PickerKnows` speaks of
any picker that watches. Of a node it did not miss, the last event that waits tells
whether the node is registered; if none waits, the client map and `added` tell it, with
the half an event that is being handled has yet to do. No snapshot and no pass changes
`added`, which is why this part holds after them too.

**Only model-checked.** The liveness properties (`ExpiredRemoved` of the store and of
the byte-bounded LRU, `EveryDoReturns`, `RequestsAnswered`, `LeaderReturns`,
`GoneNodeLeaves`, `KeptNodeFound`): they rest on fairness, which the provers do not
handle. Every invariant and action property of a passing run, and both refinements, is
a theorem, some of them under the premises the table names.

Functions that recur along a sequence (`Bytes`, `Kept`, `Visited`, the searches in a
level) are within reach: `Iterated` says that such a function exists, and `SetInduction` is
induction for a set, which has to be given by its elements; the two carry every fact
about sequences above.

## 6. Not modelled

- The construction of a store: the bucket mask and the capacities in `uint16`.
- `Len`, which changes no state, and the logging everywhere.
- A clock that steps back at its recalibration; overflow of `Now()+expiration`.
- The gRPC listener and the health service of `Start`; requests in progress while
  `Close` shuts the store and Redis.
- How `selfLoad` is counted and reported; hashes that collide, in the checked instances;
  what an encoding of the ring sees in the very moment of a change.
- A panic of `fn`, and of a handler that calls the client of a node it does not have:
  `RingHasClients` says when that may happen.
- The command line (input and output) and the generated gRPC code.

## 7. Plan

Done, in this order, the most used first: the level and its refinement, the store
and its promise, singleflight, the handlers, one node's ring; proofs of the level
and of singleflight; then the handlers across nodes, registration and discovery, the
ring of a cluster, the byte-bounded LRU; proofs of the handlers, the rings,
registration and discovery; then the store with its refinement, the byte-bounded LRU,
and what a picker knows; then the order of the slots and the refinement of the level.

Next, in this order:

1. `LRU2Sizing`: the bucket mask and capacities in `uint16` as operators, against a
   reference over bounded inputs.
2. Load reports: `selfLoad`, its exchange with 0 and a failed Put (`con_hash.go:150`).
3. An instance of the ring with colliding hashes.
