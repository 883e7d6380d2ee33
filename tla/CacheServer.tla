------------------------------ MODULE CacheServer ------------------------------
(* The handlers Get, Set and Delete of internal/server/server.go on the nodes *)
(* of a cluster, with what they use: the ring of their node, which names the  *)
(* owner of a key, the local store and the singleflight group of their node,  *)
(* whose steps are those of Singleflight, and Redis, which all nodes share.   *)
(* A gRPC server runs each request in a goroutine of its own and the handlers *)
(* take no lock, so every call is a separate step.                            *)
(*                                                                            *)
(* A request that is forwarded is served by a goroutine of the other node     *)
(* while its own waits, and once it is answered only the answer goes back:    *)
(* one goroutine stands for both.  A key of Singleflight and of the stores is *)
(* a place <<node, name>>.  A local store is a LossyCache (LRU2Store is       *)
(* checked to be one).  Redis is external: its commands are atomic, and any   *)
(* of them may fail.  The rings are Discovery's and HashRing's: here a node   *)
(* may come to name another owner at any time.                                *)
EXTENDS Singleflight

CONSTANTS Nodes, Names,         \* Keys of Singleflight: the places <<node, name>>
          Owners,               \* what PickPeer may answer, NoNode among them
          HotPlaces,            \* where SetToCache is called in this instance
          Values, NoNode, NoValue, Failed,
          RedisMayFail          \* whether commands fail in this instance

ASSUME ServerAssumption ==
  /\ Keys = Nodes \X Names /\ Owners \subseteq Nodes \cup {NoNode} /\ NoNode \notin Nodes
  /\ HotPlaces \subseteq Keys /\ NoKey \notin Keys
  /\ Results = Values \cup {Failed} /\ Failed \notin Values /\ NoValue \notin Values
  /\ NoResult \notin Results /\ RedisMayFail \in BOOLEAN

VARIABLES redis,        \* name -> value, or NoValue
          owner,        \* place -> the owner of the name as the node sees it
          cache,        \* place -> the value the store of the node returns, or NoValue
          serving,      \* what each goroutine is serving
          hot,          \* history: the cached value was put by SetToCache
          overtaken,    \* history: Redis changed while a value read before was held
          elsewhere     \* history: another node changed Redis while a value was
                        \* stored or held

vars == <<m, call, doing, redis, owner, cache, serving, hot, overtaken, elsewhere>>
histories == <<hot, overtaken, elsewhere>>

Rest == [req |-> "none", at |-> "rest", key |-> NoKey, val |-> NoValue]

Request(req, key, val) == [req |-> req, at |-> "pick", key |-> key, val |-> val]

NodeOf(place) == place[1]
NameOf(place) == place[2]
Nowhere == [place \in Keys |-> FALSE]

Init ==
  /\ SFInit
  /\ redis = [name \in Names |-> NoValue]
  /\ owner \in [Keys -> Owners]
  /\ cache = [place \in Keys |-> NoValue]
  /\ serving = [p \in Procs |-> Rest]
  /\ hot = Nowhere /\ overtaken = Nowhere /\ elsewhere = Nowhere

\* A value read from Redis that goroutine q may still put in the store.
Holding(q, place) ==
  /\ serving[q].key = place
  /\ \/ serving[q].at = "fill"
     \/ doing[q].at = "return"
     \/ doing[q].call # NoCall /\ call[doing[q].call].val # NoResult

Held(place) == \E q \in Procs : Holding(q, place)

Reply(p) == serving' = [serving EXCEPT ![p] = Rest]

\* History: the store of the place has been emptied.
Emptied(place) ==
  /\ cache' = [cache EXCEPT ![place] = NoValue]
  /\ hot' = [hot EXCEPT ![place] = FALSE]
  /\ overtaken' = [overtaken EXCEPT ![place] = @ /\ Held(place)]
  /\ elsewhere' = [elsewhere EXCEPT ![place] = @ /\ Held(place)]

\* What redis.Get may answer: an error when the key is absent or the call fails.
RedisGet(name) ==
  {IF redis[name] = NoValue THEN Failed ELSE redis[name]}
    \cup (IF RedisMayFail THEN {Failed} ELSE {})

\* What redis.Set (or redis.Delete, with NoValue) may leave behind.
RedisPut(name, val) ==
  {[redis EXCEPT ![name] = val]} \cup (IF RedisMayFail THEN {redis} ELSE {})

-----------------------------------------------------------------------------
(* A caller's request at a node: a command line or a gRPC client.             *)
Start(p, request) ==
  /\ serving[p] = Rest
  /\ serving' = [serving EXCEPT ![p] = request]
  /\ UNCHANGED <<m, call, doing, redis, owner, cache, histories>>

GetStart(p, place)      == Start(p, Request("get", place, NoValue))
SetStart(p, place, val) == Start(p, Request("set", place, val))
DeleteStart(p, place)   == Start(p, Request("delete", place, NoValue))

-----------------------------------------------------------------------------
(* Faulty variants of the steps below, each the shape of a plausible slip:    *)
(* the runs use them to show that the properties can fail.                    *)

\* The node does not recognise itself.
PickSelfNever(p) ==
  /\ serving[p].at = "pick"
  /\ owner[serving[p].key] = NodeOf(serving[p].key)
  /\ UNCHANGED vars

\* The error of Do is not checked.
LoadedUnchecked(p) ==
  /\ serving[p].at = "load"
  /\ doing[p].at = "return"
  /\ DoReturn(p)
  /\ serving' = [serving EXCEPT ![p].at = "fill", ![p].val = doing[p].res]
  /\ UNCHANGED <<redis, owner, cache, histories>>

\* No cache.Delete after the Redis command.
DropNothing(p) ==
  /\ serving[p].at = "drop"
  /\ overtaken' = [overtaken EXCEPT ![serving[p].key] = @ /\ Held(serving[p].key)]
  /\ Reply(p)
  /\ UNCHANGED <<m, call, doing, redis, owner, cache, hot, elsewhere>>

-----------------------------------------------------------------------------
\* PickPeer answers "": the handler answers an error.
PickFails(p) ==
  /\ serving[p].at = "pick"
  /\ owner[serving[p].key] = NoNode
  /\ Reply(p)
  /\ UNCHANGED <<m, call, doing, redis, owner, cache, histories>>

\* PickPeer answers self.
PickSelf(p) ==
  /\ serving[p].at = "pick"
  /\ owner[serving[p].key] = NodeOf(serving[p].key)
  /\ serving' = [serving EXCEPT ![p].at = IF serving[p].req = "get" THEN "cache" ELSE "redis"]
  /\ UNCHANGED <<m, call, doing, redis, owner, cache, histories>>

\* PickPeer answers another node, whose own handler picks in its turn.
Forward(p) ==
  /\ serving[p].at = "pick"
  /\ owner[serving[p].key] \notin {NodeOf(serving[p].key), NoNode}
  /\ serving' = [serving EXCEPT ![p].key = <<owner[@], NameOf(@)>>]
  /\ UNCHANGED <<m, call, doing, redis, owner, cache, histories>>

\* The call to the other node fails: Get answers an error, Set and Delete drop
\* it and answer as if the write had been made.
ForwardFails(p) ==
  /\ serving[p].at = "pick"
  /\ owner[serving[p].key] \notin {NodeOf(serving[p].key), NoNode}
  /\ Reply(p)
  /\ UNCHANGED <<m, call, doing, redis, owner, cache, histories>>

\* cache.Get hits and the handler answers.
GetHit(p) ==
  /\ serving[p].at = "cache"
  /\ cache[serving[p].key] # NoValue
  /\ Reply(p)
  /\ UNCHANGED <<m, call, doing, redis, owner, cache, histories>>

\* cache.Get misses and the handler calls Do.
GetMiss(p) ==
  /\ serving[p].at = "cache"
  /\ cache[serving[p].key] = NoValue
  /\ DoEnter(p, serving[p].key)
  /\ serving' = [serving EXCEPT ![p].at = "load"]
  /\ UNCHANGED <<redis, owner, cache, histories>>

Loading(p) ==
  /\ serving[p].at = "load"
  /\ DoStep(p)
  /\ UNCHANGED <<redis, owner, cache, serving, histories>>

\* The fn of Do.
ReadRedis(p) ==
  /\ serving[p].at = "load"
  /\ \E res \in RedisGet(NameOf(serving[p].key)) : DoFnReturns(p, res)
  /\ UNCHANGED <<redis, owner, cache, serving, histories>>

\* Do returned an error, and so does the handler; nothing is cached.
LoadFailed(p) ==
  /\ serving[p].at = "load"
  /\ doing[p].at = "return" /\ doing[p].res = Failed
  /\ DoReturn(p)
  /\ Reply(p)
  /\ UNCHANGED <<redis, owner, cache, histories>>

Loaded(p) ==
  /\ serving[p].at = "load"
  /\ doing[p].at = "return" /\ doing[p].res # Failed
  /\ DoReturn(p)
  /\ serving' = [serving EXCEPT ![p].at = "fill", ![p].val = doing[p].res]
  /\ UNCHANGED <<redis, owner, cache, histories>>

\* cache.Set with the loaded value, by the caller that loaded it and by each
\* that joined it; the handler answers.
Fill(p) ==
  /\ serving[p].at = "fill"
  /\ cache' = [cache EXCEPT ![serving[p].key] = serving[p].val]
  /\ hot' = [hot EXCEPT ![serving[p].key] = FALSE]
  /\ Reply(p)
  /\ UNCHANGED <<m, call, doing, redis, owner, overtaken, elsewhere>>

\* redis.Set or redis.Delete; its error is dropped and the handler goes on.
WriteRedis(p) ==
  /\ serving[p].at = "redis"
  /\ LET here == serving[p].key
         Old(place) == NameOf(place) = NameOf(here) /\ redis' # redis
     IN /\ redis' \in RedisPut(NameOf(here), serving[p].val)
        /\ overtaken' = [place \in Keys |-> overtaken[place] \/ (Old(place) /\ Held(place))]
        /\ elsewhere' = [place \in Keys |->
                           \/ elsewhere[place]
                           \/ /\ place # here /\ Old(place)
                              /\ cache[place] # NoValue \/ Held(place)]
  /\ serving' = [serving EXCEPT ![p].at = "drop"]
  /\ UNCHANGED <<m, call, doing, owner, cache, hot>>

\* cache.Delete, and the handler answers that the write was made.
DropCached(p) ==
  /\ serving[p].at = "drop"
  /\ Emptied(serving[p].key)
  /\ Reply(p)
  /\ UNCHANGED <<m, call, doing, redis, owner>>

\* SetToCache (the command set_hot): the local store only, whoever owns the key.
SetToCache(place, val) ==
  /\ cache' = [cache EXCEPT ![place] = val]
  /\ hot' = [hot EXCEPT ![place] = TRUE]
  /\ UNCHANGED <<m, call, doing, redis, owner, serving, overtaken, elsewhere>>

\* The store evicts or expires an entry.
Evict(place) ==
  /\ cache[place] # NoValue
  /\ Emptied(place)
  /\ UNCHANGED <<m, call, doing, redis, owner, serving>>

\* The ring of a node changes: a node joins or leaves, or a snapshot comes.
RingChange(place, node) ==
  /\ owner' = [owner EXCEPT ![place] = node]
  /\ UNCHANGED <<m, call, doing, redis, cache, serving, histories>>

Serve(p) ==
  \/ PickFails(p) \/ PickSelf(p) \/ Forward(p) \/ ForwardFails(p)
  \/ GetHit(p) \/ GetMiss(p) \/ Loading(p) \/ ReadRedis(p) \/ LoadFailed(p)
  \/ Loaded(p) \/ Fill(p) \/ WriteRedis(p) \/ DropCached(p)

NextStep ==
  \/ \E p \in Procs, place \in Keys :
        \/ GetStart(p, place)
        \/ DeleteStart(p, place)
        \/ \E val \in Values : SetStart(p, place, val)
  \/ \E p \in Procs : Serve(p)
  \/ \E place \in Keys : Evict(place) \/ \E node \in Owners : RingChange(place, node)
  \/ \E place \in HotPlaces, val \in Values : SetToCache(place, val)

ServerSpec == Init /\ [][NextStep]_vars

\* A goroutine that serves a request keeps running, and Redis and the other
\* nodes answer, if only with an error.
ServerFairSpec == ServerSpec /\ \A p \in Procs : WF_vars(Serve(p))

-----------------------------------------------------------------------------
ServingType == [req : {"none", "get", "set", "delete"},
                at : {"rest", "pick", "cache", "load", "fill", "redis", "drop"},
                key : Keys \cup {NoKey}, val : Values \cup {NoValue}]

ServerTypeOK ==
  /\ TypeOK
  /\ redis \in [Names -> Values \cup {NoValue}]
  /\ owner \in [Keys -> Owners]
  /\ cache \in [Keys -> Values \cup {NoValue}]
  /\ serving \in [Procs -> ServingType]
  /\ {hot, overtaken, elsewhere} \subseteq [Keys -> BOOLEAN]

Writing(place) == \E p \in Procs : serving[p].at = "drop" /\ serving[p].key = place

Fresh(place) == cache[place] \in {NoValue, redis[NameOf(place)]} \/ hot[place]

(* A store holds a value that differs from Redis only if set_hot put it       *)
(* there, if a writer of the node is between its Redis command and its        *)
(* cache.Delete, if Redis changed while some Get held a value it had read     *)
(* before, or if a node with another idea of the owner made a change: there   *)
(* is no other way for a node to answer with old data (lines 100-164).        *)
StaleOnlyIfOvertaken ==
  \A place \in Keys :
    Fresh(place) \/ overtaken[place] \/ elsewhere[place] \/ Writing(place)

\* What makes it inductive.  A value read from Redis and still held is what Redis
\* has, or Redis was seen to change; a request that loads is in a Do of its own
\* key; and requests that share a call share its key.
Sound(place, val) ==
  val \in {Failed, redis[NameOf(place)]} \/ overtaken[place] \/ elsewhere[place]

HeldIsSound ==
  \A p \in Procs :
    /\ serving[p].at = "fill" => Sound(serving[p].key, serving[p].val)
    /\ doing[p].at = "return" => Sound(serving[p].key, doing[p].res)
    /\ doing[p].call # NoCall /\ call[doing[p].call].val # NoResult
         => Sound(serving[p].key, call[doing[p].call].val)

LoadsItsKey ==
  \A p \in Procs :
    /\ serving[p].at = "load" <=> doing[p].at # "out"
    /\ serving[p].at = "load" => doing[p].key = serving[p].key
    /\ serving[p].at # "rest" => serving[p].key \in Keys
    /\ serving[p].at = "fill" => serving[p].val \in Values
    /\ doing[p].at \notin Creating \cup {"wait"} => doing[p].call = NoCall

CallsHaveOneKey ==
  \A p, q \in Procs :
    doing[p].call = doing[q].call /\ doing[p].call # NoCall => doing[p].key = doing[q].key

ServerIInv ==
  /\ IInv /\ ServerTypeOK
  /\ HeldIsSound /\ LoadsItsKey /\ CallsHaveOneKey
  /\ StaleOnlyIfOvertaken

(* A request is answered, wherever it was made and however many nodes it is   *)
(* forwarded to, once the rings no longer change and the node each of them    *)
(* names takes the key for its own (lines 100-164); until then two nodes may  *)
(* forward it to each other for ever.                                         *)
RingsSettle ==
  /\ <>[][FALSE]_owner
  /\ <>[](\A place \in Keys : owner[place] = NoNode
                               \/ owner[<<owner[place], NameOf(place)>>] = owner[place])

RequestsAnswered ==
  RingsSettle => \A p \in Procs : serving[p] # Rest ~> serving[p] = Rest
=============================================================================
