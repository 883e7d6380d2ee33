--------------------------- MODULE CacheServerProofs ---------------------------
(* The singleflight group, and the handlers that use it.  For any number of   *)
(* goroutines, keys and call objects, no finished call is left in the map and *)
(* no caller waits for a call nobody will finish; for any number of nodes and *)
(* values, too, a node answers with old data only in the ways                 *)
(* StaleOnlyIfOvertaken lists.                                                *)
EXTENDS CacheServer, TLAPS

-----------------------------------------------------------------------------
(* The group: Singleflight, as a specification of its own.                    *)

LEMMA InitIInv == SFInit => IInv
<1> SUFFICES ASSUME SFInit PROVE IInv
  OBVIOUS
<1>1. TypeOK
  BY DEF SFInit, TypeOK, DoingType, CallType, Out
<1>2. CallsHeld /\ DoneHasResult /\ NoLostWaiter
  BY DEF SFInit, CallsHeld, DoneHasResult, NoLostWaiter, Out, Creating
<1>3. NoStaleEntry
  BY DEF SFInit, NoStaleEntry
<1> QED BY <1>1, <1>2, <1>3 DEF IInv

LEMMA NextIInv == IInv /\ [Next]_sfvars => IInv'
<1> SUFFICES ASSUME IInv, [Next]_sfvars PROVE IInv'
  OBVIOUS
<1>0. TypeOK /\ CallsHeld /\ DoneHasResult /\ NoStaleEntry /\ NoLostWaiter
  BY DEF IInv
<1> USE NoCallAssumption
<1>1. ASSUME NEW p \in Procs, NEW key \in Keys, DoEnter(p, key) PROVE IInv'
  <2>1. TypeOK'
    BY <1>0, <1>1 DEF TypeOK, DoingType, CallType, DoEnter, Out
  <2>2. \A q \in Procs : doing'[q] = IF q = p THEN [Out EXCEPT !.at = "load", !.key = key]
                                              ELSE doing[q]
    BY <1>0, <1>1 DEF TypeOK, DoingType, CallType, DoEnter
  <2>3. CallsHeld'
    BY <1>0, <1>1, <2>2 DEF CallsHeld, DoEnter, Out, Creating
  <2>4. NoStaleEntry'
    BY <1>0, <1>1, <2>2 DEF NoStaleEntry, DoEnter, Out, Creating
  <2>5. NoLostWaiter'
    BY <1>0, <1>1, <2>2 DEF NoLostWaiter, DoEnter, Out
  <2>6. DoneHasResult'
    BY <1>0, <1>1 DEF DoneHasResult, DoEnter
  <2> QED BY <2>1, <2>3, <2>4, <2>5, <2>6 DEF IInv
<1>2. ASSUME NEW p \in Procs, DoJoin(p) PROVE IInv'
  <2>0. doing[p].key \in Keys /\ m[doing[p].key] \in Calls /\ doing[p].at = "load"
    BY <1>0, <1>2 DEF CallsHeld, DoJoin, TypeOK, DoingType, CallType
  <2>1. TypeOK'
    <3>1. [doing[p] EXCEPT !.at = "wait", !.call = m[doing[p].key]] \in DoingType
      BY <1>0, <2>0 DEF TypeOK, DoingType
    <3>2. doing' = [doing EXCEPT ![p] = [doing[p] EXCEPT !.at = "wait", !.call = m[doing[p].key]]]
      BY <1>0, <1>2 DEF TypeOK, DoJoin
    <3> QED BY <1>0, <1>2, <3>1, <3>2 DEF TypeOK, DoJoin
  <2>2. /\ doing'[p].at = "wait" /\ doing'[p].call = m[doing[p].key]
        /\ doing'[p].key = doing[p].key /\ m' = m /\ call' = call
        /\ \A q \in Procs : q # p => doing'[q] = doing[q]
    BY <1>0, <1>2 DEF TypeOK, DoingType, CallType, DoJoin
  <2>3. CallsHeld'
    BY <1>0, <2>0, <2>2 DEF CallsHeld, Creating
  <2>4. NoStaleEntry'
    BY <1>0, <2>0, <2>2 DEF NoStaleEntry, Creating
  <2>5. NoLostWaiter'
    <3>1. PICK q \in Procs : doing[q].at \in Creating /\ doing[q].call = m[doing[p].key]
      BY <1>0, <2>0 DEF NoStaleEntry
    <3>2. q # p
      BY <2>0, <3>1 DEF Creating
    <3>3. call[doing[q].call].done \/ doing[q].at \in {"fn", "finish"}
      BY <1>0, <3>1 DEF CallsHeld, Creating
    <3>4. ASSUME NEW r \in Procs, r # p, doing'[r].at = "wait"
          PROVE  \/ call'[doing'[r].call].done
                 \/ \E s \in Procs : doing'[s].at \in {"fn", "finish"}
                                     /\ doing'[s].call = doing'[r].call
      BY <1>0, <2>0, <2>2, <3>4 DEF NoLostWaiter
    <3> QED BY <2>2, <3>1, <3>2, <3>3, <3>4 DEF NoLostWaiter
  <2>6. DoneHasResult'
    BY <1>0, <1>2 DEF DoneHasResult, DoJoin
  <2> QED BY <2>1, <2>3, <2>4, <2>5, <2>6 DEF IInv
<1>3. ASSUME NEW p \in Procs, DoLead(p) PROVE IInv'
  <2>0. doing[p].key \in Keys /\ doing[p].at = "load"
    BY <1>0, <1>3 DEF CallsHeld, DoLead
  <2>1. TypeOK'
    BY <1>0, <1>3 DEF TypeOK, DoingType, CallType, DoLead
  <2>2. /\ doing'[p].at = "store" /\ doing'[p].key = doing[p].key /\ m' = m /\ call' = call
        /\ \A q \in Procs : q # p => doing'[q] = doing[q]
    BY <1>0, <1>3 DEF TypeOK, DoingType, CallType, DoLead
  <2>3. CallsHeld'
    BY <1>0, <2>0, <2>2 DEF CallsHeld, Creating
  <2>4. NoStaleEntry'
    BY <1>0, <2>0, <2>2 DEF NoStaleEntry, Creating
  <2>5. NoLostWaiter'
    BY <1>0, <2>0, <2>2 DEF NoLostWaiter
  <2>6. DoneHasResult'
    BY <1>0, <1>3 DEF DoneHasResult, DoLead
  <2> QED BY <2>1, <2>3, <2>4, <2>5, <2>6 DEF IInv
<1>4. ASSUME NEW p \in Procs, DoStore(p) PROVE IInv'
  <2>0. doing[p].key \in Keys /\ doing[p].at = "store"
    BY <1>0, <1>4 DEF CallsHeld, DoStore
  <2>a. PICK c \in Calls :
          /\ Unreferenced(c)
          /\ call' = [call EXCEPT ![c] = [done |-> FALSE, val |-> NoResult]]
          /\ m' = [m EXCEPT ![doing[p].key] = c]
          /\ doing' = [doing EXCEPT ![p].at = "fn", ![p].call = c]
    BY <1>4 DEF DoStore
  <2>1. TypeOK'
    <3>1. [doing[p] EXCEPT !.at = "fn", !.call = c] \in DoingType
      BY <1>0, <2>0 DEF TypeOK, DoingType
    <3>2. doing' = [doing EXCEPT ![p] = [doing[p] EXCEPT !.at = "fn", !.call = c]]
      BY <1>0, <2>a DEF TypeOK
    <3>3. [done |-> FALSE, val |-> NoResult] \in CallType
      BY DEF CallType
    <3> QED BY <1>0, <2>0, <2>a, <3>1, <3>2, <3>3 DEF TypeOK
  <2>2. /\ doing'[p].at = "fn" /\ doing'[p].key = doing[p].key /\ doing'[p].call = c
        /\ \A q \in Procs : q # p => doing'[q] = doing[q]
        /\ \A key \in Keys : m'[key] = IF key = doing[p].key THEN c ELSE m[key]
        /\ \A d \in Calls : d # c => call'[d] = call[d]
    BY <1>0, <2>0, <2>a DEF TypeOK, DoingType, CallType
  <2>3. \A q \in Procs : doing[q].call # c
    BY <2>a DEF Unreferenced
  <2>4. CallsHeld'
    BY <1>0, <2>0, <2>2, <2>3 DEF CallsHeld, Creating
  <2>5. NoStaleEntry'
    BY <1>0, <2>0, <2>2 DEF NoStaleEntry, Creating
  <2>6. NoLostWaiter'
    <3>1. ASSUME NEW r \in Procs, doing'[r].at = "wait"
          PROVE  \/ call'[doing'[r].call].done
                 \/ \E s \in Procs : doing'[s].at \in {"fn", "finish"}
                                     /\ doing'[s].call = doing'[r].call
      <4>1. r # p /\ doing'[r] = doing[r] /\ doing[r].call \in Calls /\ doing[r].call # c
        BY <1>0, <2>2, <2>3, <3>1 DEF CallsHeld
      <4>2. CASE call[doing[r].call].done
        BY <2>2, <4>1, <4>2
      <4>3. CASE \E s \in Procs : doing[s].at \in {"fn", "finish"} /\ doing[s].call = doing[r].call
        BY <2>0, <2>2, <4>1, <4>3
      <4> QED BY <1>0, <3>1, <4>1, <4>2, <4>3 DEF NoLostWaiter
    <3> QED BY <3>1 DEF NoLostWaiter
  <2>7. DoneHasResult'
    BY <1>0, <2>2, <2>a DEF DoneHasResult, TypeOK
  <2> QED BY <2>1, <2>4, <2>5, <2>6, <2>7 DEF IInv
<1>5. ASSUME NEW p \in Procs, NEW res \in Results, DoFnReturns(p, res) PROVE IInv'
  <2>0. doing[p].call \in Calls /\ doing[p].at = "fn" /\ doing[p].key \in Keys
    BY <1>0, <1>5 DEF CallsHeld, DoFnReturns, Creating
  <2>1. TypeOK'
    <3>1. [doing[p] EXCEPT !.at = "finish"] \in DoingType
      BY <1>0 DEF TypeOK, DoingType
    <3>2. [call[doing[p].call] EXCEPT !.val = res] \in CallType
      BY <1>0, <2>0 DEF TypeOK, CallType
    <3> QED BY <1>0, <1>5, <2>0, <3>1, <3>2 DEF TypeOK, DoFnReturns
  <2>2. /\ doing'[p].at = "finish" /\ doing'[p].key = doing[p].key
        /\ doing'[p].call = doing[p].call /\ m' = m
        /\ \A q \in Procs : q # p => doing'[q] = doing[q]
        /\ \A c \in Calls : call'[c].done = call[c].done
        /\ call'[doing[p].call].val = res
        /\ \A c \in Calls : c # doing[p].call => call'[c] = call[c]
    BY <1>0, <1>5, <2>0 DEF TypeOK, DoingType, CallType, DoFnReturns
  <2>3. CallsHeld'
    BY <1>0, <2>0, <2>2 DEF CallsHeld, Creating
  <2>4. NoStaleEntry'
    BY <1>0, <2>0, <2>2 DEF NoStaleEntry, Creating
  <2>5. NoLostWaiter'
    BY <1>0, <2>0, <2>2 DEF NoLostWaiter, CallsHeld
  <2>6. DoneHasResult'
    BY <1>0, <1>5, <2>0 DEF DoneHasResult, CallsHeld, TypeOK, CallType, DoFnReturns
  <2> QED BY <2>1, <2>3, <2>4, <2>5, <2>6 DEF IInv
<1>6. ASSUME NEW p \in Procs, DoFinish(p) PROVE IInv'
  <2>0. doing[p].call \in Calls /\ doing[p].at = "finish" /\ doing[p].key \in Keys
    BY <1>0, <1>6 DEF CallsHeld, DoFinish, Creating
  <2>1. TypeOK'
    <3>1. [doing[p] EXCEPT !.at = "remove"] \in DoingType
      BY <1>0 DEF TypeOK, DoingType
    <3>2. [call[doing[p].call] EXCEPT !.done = TRUE] \in CallType
      BY <1>0, <2>0 DEF TypeOK, CallType
    <3> QED BY <1>0, <1>6, <2>0, <3>1, <3>2 DEF TypeOK, DoFinish
  <2>2. /\ doing'[p].at = "remove" /\ doing'[p].key = doing[p].key
        /\ doing'[p].call = doing[p].call /\ m' = m
        /\ \A q \in Procs : q # p => doing'[q] = doing[q]
        /\ call'[doing[p].call].done
        /\ \A c \in Calls : call[c].done => call'[c].done
        /\ \A c \in Calls : call'[c].val = call[c].val
    BY <1>0, <1>6, <2>0 DEF TypeOK, DoingType, CallType, DoFinish
  <2>3. CallsHeld'
    BY <1>0, <2>0, <2>2 DEF CallsHeld, Creating
  <2>4. NoStaleEntry'
    BY <1>0, <2>0, <2>2 DEF NoStaleEntry, Creating
  <2>5. NoLostWaiter'
    BY <1>0, <2>0, <2>2 DEF NoLostWaiter, CallsHeld
  <2>6. DoneHasResult'
    BY <1>0, <1>6, <2>0 DEF DoneHasResult, CallsHeld, TypeOK, CallType, DoFinish
  <2> QED BY <2>1, <2>3, <2>4, <2>5, <2>6 DEF IInv
<1>7. ASSUME NEW p \in Procs, DoRemove(p) PROVE IInv'
  <2>0. doing[p].call \in Calls /\ doing[p].at = "remove" /\ doing[p].key \in Keys
        /\ call[doing[p].call].done
    BY <1>0, <1>7 DEF CallsHeld, DoRemove, Creating
  <2>a. call[doing[p].call].val \in Results
    BY <1>0, <1>7, <2>0 DEF DoneHasResult, DoRemove
  <2>1. TypeOK'
    <3> DEFINE back == [at |-> "return", key |-> doing[p].key, call |-> NoCall,
                        res |-> call[doing[p].call].val]
    <3>1. back \in DoingType /\ back.at = "return" /\ back.res \in Results
      BY <2>0, <2>a DEF DoingType
    <3>2. doing' = [doing EXCEPT ![p] = back]
      BY <1>7 DEF DoRemove
    <3>3. m' \in [Keys -> Calls \cup {NoCall}] /\ call' = call
      BY <1>0, <1>7 DEF TypeOK, DoRemove
    <3> HIDE DEF back
    <3> QED BY <1>0, <3>1, <3>2, <3>3 DEF TypeOK
  <2>2. /\ doing'[p].at = "return" /\ doing'[p].key = doing[p].key /\ call' = call
        /\ \A q \in Procs : q # p => doing'[q] = doing[q]
        /\ \A key \in Keys : m'[key] = IF key = doing[p].key THEN NoCall ELSE m[key]
    BY <1>0, <1>7, <2>0 DEF TypeOK, DoingType, CallType, DoRemove
  <2>3. CallsHeld'
    BY <1>0, <2>0, <2>2 DEF CallsHeld, Creating
  <2>4. NoStaleEntry'
    \* Another caller's entry under another key has its creator; this key has none.
    BY <1>0, <2>0, <2>2 DEF NoStaleEntry, Creating
  <2>5. NoLostWaiter'
    BY <1>0, <2>0, <2>2 DEF NoLostWaiter
  <2>6. DoneHasResult'
    BY <1>0, <1>7 DEF DoneHasResult, DoRemove
  <2> QED BY <2>1, <2>3, <2>4, <2>5, <2>6 DEF IInv
<1>8. ASSUME NEW p \in Procs, DoWait(p) PROVE IInv'
  <2>0. doing[p].at = "wait" /\ doing[p].call \in Calls /\ doing[p].key \in Keys
    BY <1>0, <1>8 DEF CallsHeld, DoWait, Creating
  <2>a. call[doing[p].call].val \in Results
    BY <1>0, <1>8, <2>0 DEF DoneHasResult, DoWait
  <2>1. TypeOK'
    <3> DEFINE back == [at |-> "return", key |-> doing[p].key, call |-> NoCall,
                        res |-> call[doing[p].call].val]
    <3>1. back \in DoingType /\ back.at = "return" /\ back.res \in Results
      BY <2>0, <2>a DEF DoingType
    <3>2. doing' = [doing EXCEPT ![p] = back]
      BY <1>8 DEF DoWait
    <3>3. m' \in [Keys -> Calls \cup {NoCall}] /\ call' = call
      BY <1>0, <1>8 DEF TypeOK, DoWait
    <3> HIDE DEF back
    <3> QED BY <1>0, <3>1, <3>2, <3>3 DEF TypeOK
  <2>2. /\ doing'[p].at = "return" /\ doing'[p].key = doing[p].key /\ m' = m /\ call' = call
        /\ \A q \in Procs : q # p => doing'[q] = doing[q]
    BY <1>0, <1>8, <2>0 DEF TypeOK, DoingType, CallType, DoWait, Out
  <2>3. CallsHeld'
    BY <1>0, <2>0, <2>2 DEF CallsHeld, Creating
  <2>4. NoStaleEntry'
    BY <1>0, <2>0, <2>2 DEF NoStaleEntry, Creating
  <2>5. NoLostWaiter'
    BY <1>0, <2>0, <2>2 DEF NoLostWaiter
  <2>6. DoneHasResult'
    BY <1>0, <1>8 DEF DoneHasResult, DoWait
  <2> QED BY <2>1, <2>3, <2>4, <2>5, <2>6 DEF IInv
<1>9. ASSUME NEW p \in Procs, DoReturn(p) PROVE IInv'
  <2>0. doing[p].at = "return"
    BY <1>0, <1>9 DEF CallsHeld, DoReturn
  <2>1. TypeOK'
    BY <1>0, <1>9, <2>0 DEF TypeOK, DoingType, CallType, DoReturn, Out
  <2>2. /\ doing'[p].at = "out" /\ m' = m /\ call' = call
        /\ \A q \in Procs : q # p => doing'[q] = doing[q]
    BY <1>0, <1>9, <2>0 DEF TypeOK, DoingType, CallType, DoReturn, Out
  <2>3. CallsHeld'
    BY <1>0, <2>0, <2>2 DEF CallsHeld, Creating
  <2>4. NoStaleEntry'
    BY <1>0, <2>0, <2>2 DEF NoStaleEntry, Creating
  <2>5. NoLostWaiter'
    BY <1>0, <2>0, <2>2 DEF NoLostWaiter
  <2>6. DoneHasResult'
    BY <1>0, <1>9 DEF DoneHasResult, DoReturn
  <2> QED BY <2>1, <2>3, <2>4, <2>5, <2>6 DEF IInv
<1>10. CASE UNCHANGED sfvars
  BY <1>0, <1>10 DEF sfvars, IInv, TypeOK, CallsHeld, DoneHasResult, NoStaleEntry, NoLostWaiter
<1> QED BY <1>1, <1>2, <1>3, <1>4, <1>5, <1>6, <1>7, <1>8, <1>9, <1>10 DEF Next, DoStep

(* The map, the call objects and the callers keep their types.                *)
THEOREM TypeCorrect == Spec => []TypeOK
<1>1. IInv => TypeOK
  BY DEF IInv
<1>2. IInv /\ [Next]_sfvars => IInv'
  BY NextIInv
<1> QED BY <1>1, <1>2, InitIInv, PTL DEF Spec

(* A call in the map always has a creator that has yet to delete it, whatever *)
(* the race between Load, Store and Delete (lines 22-38).                     *)
THEOREM NoStaleEntryHolds == Spec => []NoStaleEntry
<1>1. IInv => NoStaleEntry
  BY DEF IInv
<1>2. IInv /\ [Next]_sfvars => IInv'
  BY NextIInv
<1> QED BY <1>1, <1>2, InitIInv, PTL DEF Spec

(* A caller that waits always has a result or a caller about to produce one   *)
(* (lines 24, 35).                                                            *)
THEOREM NoLostWaiterHolds == Spec => []NoLostWaiter
<1>1. IInv => NoLostWaiter
  BY DEF IInv
<1>2. IInv /\ [Next]_sfvars => IInv'
  BY NextIInv
<1> QED BY <1>1, <1>2, InitIInv, PTL DEF Spec

-----------------------------------------------------------------------------
(* The handlers: each step is a step of the group or leaves it alone.         *)

LEMMA Places ==
  /\ \A place \in Keys : NodeOf(place) \in Nodes /\ NameOf(place) \in Names
  /\ \A node \in Nodes, place \in Keys : <<node, NameOf(place)>> \in Keys
BY ServerAssumption DEF NodeOf, NameOf

LEMMA InitServerIInv == Init => ServerIInv
<1> SUFFICES ASSUME Init PROVE ServerIInv
  OBVIOUS
<1> USE ServerAssumption
<1>1. SFInit /\ IInv
  BY InitIInv DEF Init
<1>2. ServerTypeOK
  <2>1. Rest \in ServingType
    BY DEF Rest, ServingType
  <2> QED BY <1>1, <2>1 DEF Init, ServerTypeOK, IInv, Nowhere
<1>3. HeldIsSound /\ LoadsItsKey /\ CallsHaveOneKey
  BY <1>1 DEF Init, SFInit, Out, Rest, HeldIsSound, LoadsItsKey, CallsHaveOneKey, Creating
<1>4. StaleOnlyIfOvertaken
  BY DEF Init, StaleOnlyIfOvertaken, Fresh
<1> QED BY <1>1, <1>2, <1>3, <1>4 DEF ServerIInv

LEMMA RedisAnswers ==
  ASSUME ServerTypeOK, NEW name \in Names
  PROVE  /\ RedisGet(name) \subseteq Results
         /\ \A res \in RedisGet(name) : res \in {Failed, redis[name]}
<1>1. redis[name] \in Values \cup {NoValue}
  BY DEF ServerTypeOK
<1> QED BY <1>1, ServerAssumption DEF RedisGet

\* The part of a step that happens in Do is a step of Singleflight.
LEMMA StepIsDoStep == ServerIInv /\ [NextStep]_vars => [Next]_sfvars
<1> SUFFICES ASSUME ServerIInv, [NextStep]_vars PROVE [Next]_sfvars
  OBVIOUS
<1>0. ServerTypeOK /\ LoadsItsKey
  BY DEF ServerIInv
<1>1. ASSUME NEW p \in Procs, GetMiss(p) PROVE Next
  BY <1>0, <1>1 DEF GetMiss, LoadsItsKey, Next
<1>2. ASSUME NEW p \in Procs, Loading(p) PROVE Next
  BY <1>2 DEF Loading, Next
<1>3. ASSUME NEW p \in Procs, ReadRedis(p) PROVE Next
  <2>1. NameOf(serving[p].key) \in Names
    BY <1>0, <1>3, Places DEF ReadRedis, LoadsItsKey
  <2> QED BY <1>0, <1>3, <2>1, RedisAnswers DEF ReadRedis, Next
<1>4. ASSUME NEW p \in Procs, LoadFailed(p) \/ Loaded(p) PROVE Next
  BY <1>4 DEF LoadFailed, Loaded, Next
<1>5. ASSUME NEW p \in Procs, Serve(p) PROVE [Next]_sfvars
  BY <1>1, <1>2, <1>3, <1>4, <1>5
  DEF Serve, PickFails, PickSelf, Forward, ForwardFails, GetHit, Fill, WriteRedis, DropCached, sfvars
<1>6. ASSUME NextStep, ~ \E p \in Procs : Serve(p) PROVE UNCHANGED sfvars
  BY <1>6 DEF NextStep, GetStart, SetStart, DeleteStart, Start, Evict, SetToCache, RingChange, sfvars
<1>7. CASE UNCHANGED vars
  BY <1>7 DEF vars, sfvars
<1> QED BY <1>5, <1>6, <1>7

\* A step that neither enters nor leaves Do, holds no loaded value and is not
\* between the Redis command and the cache.Delete only moves the request on.
LEMMA QuietStep ==
  ASSUME ServerIInv, IInv', NEW p \in Procs, NEW next \in ServingType,
         serving[p].at \in {"rest", "pick", "cache", "redis"},
         next.at \in {"rest", "pick", "cache", "redis"},
         next.at # "rest" => next.key \in Keys,
         serving' = [serving EXCEPT ![p] = next],
         UNCHANGED <<m, call, doing, redis, owner, cache, histories>>
  PROVE  ServerIInv'
<1>0. /\ IInv /\ ServerTypeOK /\ HeldIsSound /\ LoadsItsKey /\ CallsHaveOneKey
      /\ StaleOnlyIfOvertaken
  BY DEF ServerIInv
<1>1. UNCHANGED <<m, call, doing, redis, owner, cache, hot, overtaken, elsewhere>>
  BY DEF histories
<1>2. /\ serving'[p] = next
      /\ \A q \in Procs : q # p => serving'[q] = serving[q]
  BY <1>0 DEF ServerTypeOK
<1>3. ServerTypeOK'
  BY <1>0, <1>1, IInv' DEF ServerTypeOK, IInv
<1>o. doing[p].at = "out" /\ doing[p].call = NoCall
  BY <1>0 DEF LoadsItsKey, Creating
<1>4. HeldIsSound'
  BY <1>0, <1>1, <1>2, <1>o DEF HeldIsSound, Sound
<1>5. LoadsItsKey' /\ CallsHaveOneKey'
  BY <1>0, <1>1, <1>2, <1>o DEF LoadsItsKey, CallsHaveOneKey
<1>6. StaleOnlyIfOvertaken'
  BY <1>0, <1>1, <1>2 DEF StaleOnlyIfOvertaken, Fresh, Writing
<1> QED BY <1>3, <1>4, <1>5, <1>6 DEF ServerIInv

LEMMA LoadingStep ==
  ASSUME ServerIInv, IInv', NEW p \in Procs, Loading(p)
  PROVE  ServerIInv'
<1>0. /\ IInv /\ ServerTypeOK /\ HeldIsSound /\ LoadsItsKey /\ CallsHaveOneKey
      /\ StaleOnlyIfOvertaken
  BY DEF ServerIInv
<1>1. UNCHANGED <<redis, owner, cache, serving, hot, overtaken, elsewhere>>
  BY DEF Loading, histories
<1>t. /\ m \in [Keys -> Calls \cup {NoCall}] /\ call \in [Calls -> CallType]
      /\ doing \in [Procs -> DoingType]
  BY <1>0 DEF IInv, TypeOK
<1>2. ServerTypeOK' /\ StaleOnlyIfOvertaken'
  BY <1>0, <1>1, IInv' DEF ServerTypeOK, IInv, StaleOnlyIfOvertaken, Fresh, Writing
<1>3. CallsHeld /\ DoneHasResult /\ NoStaleEntry
  BY <1>0 DEF IInv
<1>k. serving[p].at = "load" /\ doing[p].key = serving[p].key /\ doing[p].key \in Keys
  BY <1>0 DEF Loading, LoadsItsKey
<1> USE NoCallAssumption
<1>4. CASE DoJoin(p)
  <2>1. /\ doing[p].at = "load" /\ m[doing[p].key] \in Calls /\ m' = m /\ call' = call
        /\ doing'[p].at = "wait" /\ doing'[p].call = m[doing[p].key]
        /\ doing'[p].key = doing[p].key
        /\ \A q \in Procs : q # p => doing'[q] = doing[q]
    BY <1>4, <1>t, <1>k DEF DoJoin, DoingType
  \* The call it joins is held by its creator, whose key is the same.
  <2>2. PICK r \in Procs : /\ doing[r].at \in Creating /\ doing[r].call = m[doing[p].key]
                           /\ doing[r].key = doing[p].key
    BY <1>3, <1>k, <2>1 DEF NoStaleEntry
  <2>3. CallsHaveOneKey'
    BY <1>0, <2>1, <2>2 DEF CallsHaveOneKey
  <2>4. HeldIsSound'
    <3>1. serving[r].key = serving[p].key
      BY <1>0, <1>k, <2>2 DEF LoadsItsKey, Creating
    <3>2. doing'[p].call = doing[r].call
      BY <2>1, <2>2
    <3> QED BY <1>0, <1>1, <2>1, <3>1, <3>2 DEF HeldIsSound, Sound
  <2>5. LoadsItsKey'
    BY <1>0, <1>1, <1>k, <2>1 DEF LoadsItsKey, Creating
  <2> QED BY IInv', <1>2, <2>3, <2>4, <2>5 DEF ServerIInv
<1>5. CASE DoLead(p)
  <2>1. /\ doing[p].at = "load" /\ m' = m /\ call' = call
        /\ doing'[p].at = "store" /\ doing'[p].call = doing[p].call
        /\ doing'[p].key = doing[p].key
        /\ \A q \in Procs : q # p => doing'[q] = doing[q]
    BY <1>5, <1>t DEF DoLead, DoingType
  <2>2. HeldIsSound'
    BY <1>0, <1>1, <2>1 DEF HeldIsSound, Sound
  <2>3. LoadsItsKey' /\ CallsHaveOneKey'
    BY <1>0, <1>1, <2>1 DEF LoadsItsKey, CallsHaveOneKey, Creating
  <2> QED BY IInv', <1>2, <2>2, <2>3 DEF ServerIInv
<1>6. CASE DoStore(p)
  <2>1. PICK c \in Calls :
          /\ Unreferenced(c)
          /\ call' = [call EXCEPT ![c] = [done |-> FALSE, val |-> NoResult]]
          /\ doing' = [doing EXCEPT ![p].at = "fn", ![p].call = c]
    BY <1>6 DEF DoStore
  <2>2. /\ doing[p].at = "store" /\ doing'[p].at = "fn" /\ doing'[p].call = c
        /\ doing'[p].key = doing[p].key /\ call'[c].val = NoResult
        /\ \A q \in Procs : q # p => doing'[q] = doing[q] /\ doing[q].call # c
        /\ \A d \in Calls : d # c => call'[d] = call[d]
    BY <1>6, <1>t, <2>1 DEF DoStore, DoingType, CallType, Unreferenced
  <2>3. \A q \in Procs : doing[q].call \in Calls \cup {NoCall}
    BY <1>t DEF DoingType
  <2>4. HeldIsSound'
    BY <1>0, <1>1, <2>2, <2>3 DEF HeldIsSound, Sound
  <2>5. LoadsItsKey' /\ CallsHaveOneKey'
    BY <1>0, <1>1, <2>2 DEF LoadsItsKey, CallsHaveOneKey, Creating
  <2> QED BY IInv', <1>2, <2>4, <2>5 DEF ServerIInv
<1>7. CASE DoFinish(p)
  <2>0. doing[p].at = "finish" /\ doing[p].call \in Calls
    BY <1>3, <1>7 DEF CallsHeld, DoFinish, Creating
  <2>1. /\ doing'[p].at = "remove" /\ doing'[p].call = doing[p].call
        /\ doing'[p].key = doing[p].key
        /\ \A q \in Procs : q # p => doing'[q] = doing[q]
        /\ \A c \in Calls : call'[c].val = call[c].val
    BY <1>7, <1>t, <2>0 DEF DoFinish, DoingType, CallType
  <2>2. \A q \in Procs : doing[q].call \in Calls \cup {NoCall}
    BY <1>t DEF DoingType
  <2>3. HeldIsSound'
    BY <1>0, <1>1, <2>0, <2>1, <2>2 DEF HeldIsSound, Sound
  <2>4. LoadsItsKey' /\ CallsHaveOneKey'
    BY <1>0, <1>1, <2>0, <2>1 DEF LoadsItsKey, CallsHaveOneKey, Creating
  <2> QED BY IInv', <1>2, <2>3, <2>4 DEF ServerIInv
<1>8. CASE DoRemove(p) \/ DoWait(p)
  <2>0. /\ doing[p].at \in {"remove", "wait"} /\ doing[p].call \in Calls
        /\ call[doing[p].call].done
    BY <1>3, <1>8 DEF CallsHeld, DoRemove, DoWait, Creating
  <2>1. /\ doing'[p].at = "return" /\ doing'[p].call = NoCall
        /\ doing'[p].key = doing[p].key /\ doing'[p].res = call[doing[p].call].val
        /\ \A q \in Procs : q # p => doing'[q] = doing[q]
        /\ call' = call
    BY <1>8, <1>t DEF DoRemove, DoWait
  <2>2. call[doing[p].call].val # NoResult
    BY <1>3, <2>0, ServerAssumption DEF DoneHasResult
  <2>3. HeldIsSound'
    <3>1. Sound(serving[p].key, call[doing[p].call].val)
      BY <1>0, <2>0, <2>2 DEF HeldIsSound
    <3> QED BY <1>0, <1>1, <2>1, <3>1 DEF HeldIsSound, Sound
  <2>4. LoadsItsKey' /\ CallsHaveOneKey'
    BY <1>0, <1>1, <2>0, <2>1 DEF LoadsItsKey, CallsHaveOneKey, Creating
  <2> QED BY IInv', <1>2, <2>3, <2>4 DEF ServerIInv
<1> QED BY <1>4, <1>5, <1>6, <1>7, <1>8 DEF Loading, DoStep

LEMMA ReadRedisStep ==
  ASSUME ServerIInv, IInv', NEW p \in Procs, ReadRedis(p)
  PROVE  ServerIInv'
<1>0. /\ IInv /\ ServerTypeOK /\ HeldIsSound /\ LoadsItsKey /\ CallsHaveOneKey
      /\ StaleOnlyIfOvertaken
  BY DEF ServerIInv
<1>1. UNCHANGED <<redis, owner, cache, serving, hot, overtaken, elsewhere>>
  BY DEF ReadRedis, histories
<1>t. call \in [Calls -> CallType] /\ doing \in [Procs -> DoingType]
  BY <1>0 DEF IInv, TypeOK
<1>2. ServerTypeOK' /\ StaleOnlyIfOvertaken'
  BY <1>0, <1>1, IInv' DEF ServerTypeOK, IInv, StaleOnlyIfOvertaken, Fresh, Writing
<1>3. PICK res \in RedisGet(NameOf(serving[p].key)) : DoFnReturns(p, res)
  BY DEF ReadRedis
<1>4. /\ serving[p].key \in Keys /\ doing[p].at = "fn" /\ doing[p].call \in Calls
  BY <1>0, <1>3 DEF ReadRedis, LoadsItsKey, IInv, CallsHeld, DoFnReturns, Creating
<1>5. res \in {Failed, redis[NameOf(serving[p].key)]}
  BY <1>0, <1>3, <1>4, Places, RedisAnswers
<1>6. /\ doing'[p].at = "finish" /\ doing'[p].key = doing[p].key
      /\ doing'[p].call = doing[p].call
      /\ \A q \in Procs : q # p => doing'[q] = doing[q]
      /\ call'[doing[p].call].val = res
      /\ \A c \in Calls : c # doing[p].call => call'[c] = call[c]
  BY <1>3, <1>4, <1>t DEF DoFnReturns, DoingType, CallType
<1>7. \A q \in Procs : doing'[q].call = doing[q].call /\ doing'[q].key = doing[q].key
  BY <1>6
<1>8. CallsHaveOneKey' /\ LoadsItsKey'
  BY <1>0, <1>1, <1>4, <1>6, <1>7 DEF CallsHaveOneKey, LoadsItsKey, Creating
<1>9. HeldIsSound'
  \* Who shares the call shares the key, so the answer of Redis is about its place.
  <2>1. ASSUME NEW q \in Procs, doing[q].call = doing[p].call
        PROVE  serving[q].key = serving[p].key
    <3>1. doing[q].key = doing[p].key /\ doing[q].call # NoCall
      BY <1>0, <1>4, <2>1, NoCallAssumption DEF CallsHaveOneKey
    <3>2. doing[q].at # "out" /\ doing[p].at # "out"
      BY <1>0, <1>4, <3>1 DEF LoadsItsKey, Creating
    <3> QED BY <1>0, <3>1, <3>2 DEF LoadsItsKey
  <2>2. \A q \in Procs : doing[q].call \in Calls \cup {NoCall}
    BY <1>t DEF DoingType
  <2>3. ASSUME NEW q \in Procs
        PROVE  /\ serving'[q].at = "fill" => Sound(serving[q].key, serving[q].val)
               /\ doing'[q].at = "return" => Sound(serving[q].key, doing'[q].res)
               /\ doing'[q].call # NoCall /\ call'[doing'[q].call].val # NoResult
                    => Sound(serving[q].key, call'[doing'[q].call].val)
    <3>1. CASE doing[q].call = doing[p].call
      <4>1. Sound(serving[q].key, res)
        BY <1>5, <2>1, <3>1 DEF Sound
      <4> QED BY <1>0, <1>1, <1>6, <1>7, <3>1, <4>1 DEF HeldIsSound
    <3>2. CASE doing[q].call # doing[p].call
      BY <1>0, <1>1, <1>6, <2>2, <3>2 DEF HeldIsSound
    <3> QED BY <3>1, <3>2
  <2> QED BY <1>1, <2>3 DEF HeldIsSound, Sound
<1> QED BY IInv', <1>2, <1>8, <1>9 DEF ServerIInv

LEMMA GetMissStep ==
  ASSUME ServerIInv, IInv', NEW p \in Procs, GetMiss(p)
  PROVE  ServerIInv'
<1>0. /\ IInv /\ ServerTypeOK /\ HeldIsSound /\ LoadsItsKey /\ CallsHaveOneKey
      /\ StaleOnlyIfOvertaken
  BY DEF ServerIInv
<1>t. /\ doing \in [Procs -> DoingType] /\ serving \in [Procs -> ServingType]
      /\ cache \in [Keys -> Values \cup {NoValue}] /\ redis \in [Names -> Values \cup {NoValue}]
      /\ hot \in [Keys -> BOOLEAN] /\ overtaken \in [Keys -> BOOLEAN]
      /\ elsewhere \in [Keys -> BOOLEAN]
  BY <1>0 DEF IInv, TypeOK, ServerTypeOK
<1>1. UNCHANGED <<call, redis, owner, cache, hot, overtaken, elsewhere>>
  BY DEF GetMiss, DoEnter, histories
<1>2. /\ serving[p].at = "cache" /\ serving[p].key \in Keys
      /\ serving'[p] = [serving[p] EXCEPT !.at = "load"]
      /\ \A q \in Procs : q # p => serving'[q] = serving[q] /\ doing'[q] = doing[q]
      /\ doing'[p].at = "load" /\ doing'[p].key = serving[p].key /\ doing'[p].call = NoCall
      /\ serving' = [serving EXCEPT ![p] = [serving[p] EXCEPT !.at = "load"]]
  BY <1>0, <1>t DEF GetMiss, DoEnter, LoadsItsKey, Out, ServingType, DoingType
<1>3. serving'[p].at = "load" /\ serving'[p].key = serving[p].key
  BY <1>2, <1>t DEF ServingType
<1>4. ServerTypeOK'
  <2>1. [serving[p] EXCEPT !.at = "load"] \in ServingType
    BY <1>t DEF ServingType
  <2> QED BY <1>0, <1>1, <1>2, <2>1, <1>t, IInv' DEF ServerTypeOK, IInv
<1>5. HeldIsSound'
  BY <1>0, <1>1, <1>2, <1>3 DEF HeldIsSound, Sound
<1>6. LoadsItsKey'
  BY <1>0, <1>1, <1>2, <1>3 DEF LoadsItsKey, Creating
<1>7. CallsHaveOneKey'
  BY <1>0, <1>2 DEF CallsHaveOneKey
<1>8. StaleOnlyIfOvertaken'
  BY <1>0, <1>1, <1>2, <1>3 DEF StaleOnlyIfOvertaken, Fresh, Writing
<1> QED BY IInv', <1>4, <1>5, <1>6, <1>7, <1>8 DEF ServerIInv

LEMMA ReturnStep ==
  ASSUME ServerIInv, IInv', NEW p \in Procs, LoadFailed(p) \/ Loaded(p)
  PROVE  ServerIInv'
<1>0. /\ IInv /\ ServerTypeOK /\ HeldIsSound /\ LoadsItsKey /\ CallsHaveOneKey
      /\ StaleOnlyIfOvertaken
  BY DEF ServerIInv
<1>t. /\ doing \in [Procs -> DoingType] /\ serving \in [Procs -> ServingType]
      /\ cache \in [Keys -> Values \cup {NoValue}] /\ redis \in [Names -> Values \cup {NoValue}]
      /\ hot \in [Keys -> BOOLEAN] /\ overtaken \in [Keys -> BOOLEAN]
      /\ elsewhere \in [Keys -> BOOLEAN]
  BY <1>0 DEF IInv, TypeOK, ServerTypeOK
<1>1. UNCHANGED <<call, redis, owner, cache, hot, overtaken, elsewhere>>
  BY DEF LoadFailed, Loaded, DoReturn, histories
<1>2. /\ serving[p].at = "load" /\ serving[p].key \in Keys
      /\ doing[p].at = "return" /\ doing[p].res \in Results
      /\ doing'[p].at = "out" /\ doing'[p].call = NoCall
      /\ \A q \in Procs : q # p => serving'[q] = serving[q] /\ doing'[q] = doing[q]
  BY <1>0, <1>t DEF LoadFailed, Loaded, Reply, DoReturn, Out, LoadsItsKey, IInv, TypeOK
<1>3. PICK next \in ServingType :
        /\ serving' = [serving EXCEPT ![p] = next]
        /\ \/ next.at = "rest"
           \/ /\ next.at = "fill" /\ next.key = serving[p].key
              /\ next.val = doing[p].res /\ next.val \in Values
  <2>1. CASE LoadFailed(p)
    <3>1. Rest \in ServingType /\ Rest.at = "rest"
      BY DEF Rest, ServingType
    <3> QED BY <2>1, <3>1 DEF LoadFailed, Reply
  <2>2. CASE Loaded(p)
    <3> DEFINE next == [serving[p] EXCEPT !.at = "fill", !.val = doing[p].res]
    <3>1. doing[p].res \in Values
      BY <1>2, <2>2, ServerAssumption DEF Loaded
    <3>2. next \in ServingType /\ next.at = "fill" /\ next.key = serving[p].key
          /\ next.val = doing[p].res
      BY <1>t, <3>1 DEF ServingType
    <3>3. serving' = [serving EXCEPT ![p] = next]
      BY <1>t, <2>2 DEF Loaded
    <3> HIDE DEF next
    <3> QED BY <3>1, <3>2, <3>3
  <2> QED BY <2>1, <2>2
<1>4. serving'[p] = next
  BY <1>t, <1>3
<1>5. ServerTypeOK'
  BY <1>0, <1>1, <1>3, <1>t, IInv' DEF ServerTypeOK, IInv
<1>6. HeldIsSound'
  BY <1>0, <1>1, <1>2, <1>3, <1>4 DEF HeldIsSound, Sound
<1>7. LoadsItsKey' /\ CallsHaveOneKey'
  BY <1>0, <1>1, <1>2, <1>3, <1>4 DEF LoadsItsKey, CallsHaveOneKey, Creating
<1>8. StaleOnlyIfOvertaken'
  BY <1>0, <1>1, <1>2, <1>3, <1>4 DEF StaleOnlyIfOvertaken, Fresh, Writing
<1> QED BY IInv', <1>5, <1>6, <1>7, <1>8 DEF ServerIInv

\* A request that is answered leaves the others where they were.
LEMMA ReplyKeeps ==
  ASSUME ServerIInv, NEW p \in Procs, Reply(p), serving[p].at \in {"fill", "drop"},
         UNCHANGED <<m, call, doing>>
  PROVE  /\ serving' \in [Procs -> ServingType] /\ serving'[p] = Rest
         /\ \A q \in Procs : q # p => serving'[q] = serving[q]
         /\ LoadsItsKey' /\ CallsHaveOneKey'
         /\ serving[p].key \in Keys /\ doing[p].at = "out" /\ doing[p].call = NoCall
<1>0. /\ IInv /\ ServerTypeOK /\ HeldIsSound /\ LoadsItsKey /\ CallsHaveOneKey
      /\ StaleOnlyIfOvertaken
  BY DEF ServerIInv
<1>t. /\ doing \in [Procs -> DoingType] /\ serving \in [Procs -> ServingType]
      /\ cache \in [Keys -> Values \cup {NoValue}] /\ redis \in [Names -> Values \cup {NoValue}]
      /\ hot \in [Keys -> BOOLEAN] /\ overtaken \in [Keys -> BOOLEAN]
      /\ elsewhere \in [Keys -> BOOLEAN]
  BY <1>0 DEF IInv, TypeOK, ServerTypeOK
<1>1. Rest \in ServingType /\ Rest.at = "rest"
  BY DEF Rest, ServingType
<1>2. /\ serving' \in [Procs -> ServingType] /\ serving'[p] = Rest
      /\ \A q \in Procs : q # p => serving'[q] = serving[q]
  BY <1>t, <1>1 DEF Reply
<1>3. serving[p].key \in Keys /\ doing[p].at = "out" /\ doing[p].call = NoCall
  BY <1>0 DEF LoadsItsKey, Creating
<1>4. LoadsItsKey' /\ CallsHaveOneKey'
  BY <1>0, <1>1, <1>2, <1>3 DEF LoadsItsKey, CallsHaveOneKey, Creating
<1> QED BY <1>2, <1>3, <1>4

LEMMA FillStep ==
  ASSUME ServerIInv, IInv', NEW p \in Procs, Fill(p)
  PROVE  ServerIInv'
<1>0. /\ IInv /\ ServerTypeOK /\ HeldIsSound /\ LoadsItsKey /\ CallsHaveOneKey
      /\ StaleOnlyIfOvertaken
  BY DEF ServerIInv
<1>t. /\ doing \in [Procs -> DoingType] /\ serving \in [Procs -> ServingType]
      /\ cache \in [Keys -> Values \cup {NoValue}] /\ redis \in [Names -> Values \cup {NoValue}]
      /\ hot \in [Keys -> BOOLEAN] /\ overtaken \in [Keys -> BOOLEAN]
      /\ elsewhere \in [Keys -> BOOLEAN]
  BY <1>0 DEF IInv, TypeOK, ServerTypeOK
<1>1. /\ UNCHANGED <<m, call, doing, redis, owner, overtaken, elsewhere>> /\ Reply(p)
      /\ serving[p].at = "fill"
  BY DEF Fill
<1>2. /\ serving' \in [Procs -> ServingType] /\ serving'[p] = Rest
      /\ \A q \in Procs : q # p => serving'[q] = serving[q]
      /\ LoadsItsKey' /\ CallsHaveOneKey'
      /\ serving[p].key \in Keys /\ doing[p].at = "out" /\ doing[p].call = NoCall
  BY <1>1, ReplyKeeps
<1>3. serving[p].val \in Values /\ Sound(serving[p].key, serving[p].val)
  BY <1>0, <1>1 DEF LoadsItsKey, HeldIsSound
<1>4. /\ cache' \in [Keys -> Values \cup {NoValue}] /\ hot' \in [Keys -> BOOLEAN]
      /\ cache'[serving[p].key] = serving[p].val
      /\ \A place \in Keys : place # serving[p].key =>
            cache'[place] = cache[place] /\ hot'[place] = hot[place]
  BY <1>t, <1>2, <1>3 DEF Fill
<1>5. ServerTypeOK'
  BY <1>0, <1>1, <1>2, <1>4, <1>t, IInv' DEF ServerTypeOK, IInv
<1>6. HeldIsSound'
  BY <1>0, <1>1, <1>2 DEF HeldIsSound, Sound, Rest
<1>7. StaleOnlyIfOvertaken'
  <2>1. ASSUME NEW place \in Keys
        PROVE  (Fresh(place) \/ overtaken[place] \/ elsewhere[place] \/ Writing(place))'
    <3>1. CASE Writing(place)
      BY <1>1, <1>2, <3>1 DEF Writing
    <3>2. CASE overtaken[place] \/ elsewhere[place]
      BY <1>1, <3>2
    \* The value it stores is what Redis has, or was overtaken on the way.
    <3>3. CASE place = serving[p].key
      <4>1. CASE serving[p].val = redis[NameOf(place)]
        BY <1>1, <1>4, <3>3, <4>1 DEF Fresh
      <4> QED BY <1>3, <3>2, <3>3, <4>1, ServerAssumption DEF Sound
    <3>4. CASE Fresh(place) /\ place # serving[p].key
      BY <1>1, <1>4, <3>4 DEF Fresh
    <3> QED BY <1>0, <3>1, <3>2, <3>3, <3>4 DEF StaleOnlyIfOvertaken
  <2> QED BY <2>1 DEF StaleOnlyIfOvertaken
<1> QED BY IInv', <1>2, <1>5, <1>6, <1>7 DEF ServerIInv

LEMMA WriteRedisStep ==
  ASSUME ServerIInv, IInv', NEW p \in Procs, WriteRedis(p)
  PROVE  ServerIInv'
<1>0. /\ IInv /\ ServerTypeOK /\ HeldIsSound /\ LoadsItsKey /\ CallsHaveOneKey
      /\ StaleOnlyIfOvertaken
  BY DEF ServerIInv
<1>t. /\ doing \in [Procs -> DoingType] /\ serving \in [Procs -> ServingType]
      /\ cache \in [Keys -> Values \cup {NoValue}] /\ redis \in [Names -> Values \cup {NoValue}]
      /\ hot \in [Keys -> BOOLEAN] /\ overtaken \in [Keys -> BOOLEAN]
      /\ elsewhere \in [Keys -> BOOLEAN]
  BY <1>0 DEF IInv, TypeOK, ServerTypeOK
<1> DEFINE here == serving[p].key
           Old(place) == NameOf(place) = NameOf(here) /\ redis' # redis
<1>1. UNCHANGED <<m, call, doing, owner, cache, hot>>
  BY DEF WriteRedis
<1>2. /\ serving[p].at = "redis" /\ here \in Keys /\ doing[p].at = "out"
      /\ doing[p].call = NoCall /\ serving[p].val \in Values \cup {NoValue}
  BY <1>0, <1>t DEF WriteRedis, LoadsItsKey, Creating, ServingType
<1>3. /\ serving' = [serving EXCEPT ![p] = [serving[p] EXCEPT !.at = "drop"]]
      /\ [serving[p] EXCEPT !.at = "drop"] \in ServingType
      /\ serving'[p].at = "drop" /\ serving'[p].key = here
      /\ \A q \in Procs : q # p => serving'[q] = serving[q]
  BY <1>t DEF WriteRedis, ServingType
<1>4. redis' = [redis EXCEPT ![NameOf(here)] = serving[p].val] \/ redis' = redis
  BY DEF WriteRedis, RedisPut
<1>5. NameOf(here) \in Names
  BY <1>2, Places
<1>6. /\ redis' \in [Names -> Values \cup {NoValue}]
      /\ \A name \in Names : name # NameOf(here) => redis'[name] = redis[name]
  BY <1>2, <1>4, <1>5, <1>t
<1>7. /\ overtaken' = [place \in Keys |-> overtaken[place] \/ (Old(place) /\ Held(place))]
      /\ elsewhere' = [place \in Keys |->
                         \/ elsewhere[place]
                         \/ /\ place # here /\ Old(place)
                            /\ cache[place] # NoValue \/ Held(place)]
  BY DEF WriteRedis
<1> HIDE DEF here, Old
<1>8. overtaken' \in [Keys -> BOOLEAN] /\ elsewhere' \in [Keys -> BOOLEAN]
  <2>1. \A place \in Keys : (overtaken[place] \/ (Old(place) /\ Held(place))) \in BOOLEAN
    BY <1>t DEF Old, Held, Holding
  <2>2. \A place \in Keys :
          (\/ elsewhere[place]
           \/ /\ place # here /\ Old(place)
              /\ cache[place] # NoValue \/ Held(place)) \in BOOLEAN
    BY <1>t DEF Old
  <2> QED BY <1>7, <2>1, <2>2
<1>9. ASSUME NEW place \in Keys
       PROVE  /\ overtaken[place] => overtaken'[place]
              /\ elsewhere[place] => elsewhere'[place]
              /\ Old(place) /\ Held(place) => overtaken'[place]
              /\ place # here /\ Old(place) /\ cache[place] # NoValue => elsewhere'[place]
  <2>1. overtaken'[place] = (overtaken[place] \/ (Old(place) /\ Held(place)))
    BY <1>7
  <2>2. elsewhere'[place] = (\/ elsewhere[place]
                             \/ /\ place # here /\ Old(place)
                                /\ cache[place] # NoValue \/ Held(place))
    BY <1>7
  <2> QED BY <2>1, <2>2
<1>10. \A place \in Keys : ~ Old(place) => redis'[NameOf(place)] = redis[NameOf(place)]
  BY <1>6, Places DEF Old
<1>11. ServerTypeOK'
  BY <1>0, <1>1, <1>3, <1>6, <1>8, <1>t, IInv' DEF ServerTypeOK, IInv
<1>12. LoadsItsKey' /\ CallsHaveOneKey'
  BY <1>0, <1>1, <1>2, <1>3 DEF LoadsItsKey, CallsHaveOneKey, here
\* What is held while Redis changes under it is seen to be overtaken.
<1>13. \A place \in Keys : Held(place) => \/ overtaken'[place]
                                         \/ redis'[NameOf(place)] = redis[NameOf(place)]
  BY <1>9, <1>10
<1>14. HeldIsSound'
  <2>1. ASSUME NEW q \in Procs, q # p, Holding(q, serving[q].key), NEW val,
               Sound(serving[q].key, val)
        PROVE  \/ val \in {Failed, redis'[NameOf(serving[q].key)]}
               \/ overtaken'[serving[q].key]
               \/ elsewhere'[serving[q].key]
    <3>1. Held(serving[q].key) /\ serving[q].key \in Keys
      BY <1>0, <2>1 DEF Held, Holding, LoadsItsKey, Creating
    <3>2. CASE overtaken[serving[q].key]
      BY <1>9, <3>1, <3>2
    <3>3. CASE elsewhere[serving[q].key]
      BY <1>9, <3>1, <3>3
    <3>4. CASE val \in {Failed, redis[NameOf(serving[q].key)]}
      <4>1. CASE overtaken'[serving[q].key]
        BY <4>1
      <4>2. CASE redis'[NameOf(serving[q].key)] = redis[NameOf(serving[q].key)]
        BY <3>4, <4>2
      <4> QED BY <1>13, <3>1, <4>1, <4>2
    <3> QED BY <2>1, <3>2, <3>3, <3>4 DEF Sound
  <2>2. ASSUME NEW q \in Procs
        PROVE  (/\ serving[q].at = "fill" => Sound(serving[q].key, serving[q].val)
                /\ doing[q].at = "return" => Sound(serving[q].key, doing[q].res)
                /\ doing[q].call # NoCall /\ call[doing[q].call].val # NoResult
                     => Sound(serving[q].key, call[doing[q].call].val))'
    <3>1. CASE q = p
      BY <1>1, <1>2, <1>3, <3>1
    <3>2. CASE q # p
      <4>1. serving'[q] = serving[q] /\ doing' = doing /\ call' = call
        BY <1>1, <1>3, <3>2
      <4>2. /\ serving[q].at = "fill" => Sound(serving[q].key, serving[q].val)
            /\ doing[q].at = "return" => Sound(serving[q].key, doing[q].res)
            /\ doing[q].call # NoCall /\ call[doing[q].call].val # NoResult
                 => Sound(serving[q].key, call[doing[q].call].val)
        BY <1>0 DEF HeldIsSound
      <4>3. ASSUME serving[q].at = "fill"
            PROVE  Sound(serving[q].key, serving[q].val)'
        BY <2>1, <3>2, <4>1, <4>2, <4>3 DEF Holding, Sound
      <4>4. ASSUME doing[q].at = "return"
            PROVE  Sound(serving[q].key, doing[q].res)'
        BY <2>1, <3>2, <4>1, <4>2, <4>4 DEF Holding, Sound
      <4>5. ASSUME doing[q].call # NoCall, call[doing[q].call].val # NoResult
            PROVE  Sound(serving[q].key, call[doing[q].call].val)'
        BY <2>1, <3>2, <4>1, <4>2, <4>5 DEF Holding, Sound
      <4> QED BY <4>1, <4>3, <4>4, <4>5
    <3> QED BY <3>1, <3>2
  <2> QED BY <2>2 DEF HeldIsSound
<1>15. StaleOnlyIfOvertaken'
  <2>1. ASSUME NEW place \in Keys
        PROVE  (Fresh(place) \/ overtaken[place] \/ elsewhere[place] \/ Writing(place))'
    <3>1. CASE place = here
      BY <1>3, <3>1 DEF Writing
    <3>2. CASE place # here /\ Old(place)
      <4>1. CASE cache[place] = NoValue
        BY <1>1, <4>1 DEF Fresh
      <4>2. CASE cache[place] # NoValue
        BY <1>9, <3>2, <4>2
      <4> QED BY <4>1, <4>2
    <3>3. CASE ~ Old(place)
      <4>1. CASE Writing(place)
        BY <1>2, <1>3, <4>1 DEF Writing
      <4>2. CASE Fresh(place)
        BY <1>1, <1>10, <3>3, <4>2 DEF Fresh
      <4>3. CASE overtaken[place]
        BY <1>9, <4>3
      <4>4. CASE elsewhere[place]
        BY <1>9, <4>4
      <4> QED BY <1>0, <4>1, <4>2, <4>3, <4>4 DEF StaleOnlyIfOvertaken
    <3> QED BY <3>1, <3>2, <3>3
  <2> QED BY <2>1 DEF StaleOnlyIfOvertaken
<1> QED BY IInv', <1>11, <1>12, <1>14, <1>15 DEF ServerIInv

\* The histories of a place are forgotten with its entry, unless a value read
\* before is still held.
LEMMA EmptiedKeeps ==
  ASSUME ServerIInv, NEW place \in Keys, Emptied(place),
         UNCHANGED <<m, call, doing, redis>>,
         \A q \in Procs : serving'[q] = serving[q] \/ (serving[q].at = "drop" /\ serving'[q] = Rest),
         \A other \in Keys \ {place} : Writing(other) => Writing(other)'
  PROVE  /\ cache' \in [Keys -> Values \cup {NoValue}]
         /\ {hot', overtaken', elsewhere'} \subseteq [Keys -> BOOLEAN]
         /\ HeldIsSound' /\ StaleOnlyIfOvertaken'
<1>0. /\ IInv /\ ServerTypeOK /\ HeldIsSound /\ LoadsItsKey /\ CallsHaveOneKey
      /\ StaleOnlyIfOvertaken
  BY DEF ServerIInv
<1>t. /\ cache \in [Keys -> Values \cup {NoValue}] /\ hot \in [Keys -> BOOLEAN]
      /\ overtaken \in [Keys -> BOOLEAN] /\ elsewhere \in [Keys -> BOOLEAN]
  BY <1>0 DEF ServerTypeOK
<1>1. /\ cache' \in [Keys -> Values \cup {NoValue}] /\ hot' \in [Keys -> BOOLEAN]
      /\ cache'[place] = NoValue
      /\ \A other \in Keys : other # place => /\ cache'[other] = cache[other]
                                              /\ hot'[other] = hot[other]
  BY <1>t DEF Emptied
<1>2. overtaken' \in [Keys -> BOOLEAN] /\ elsewhere' \in [Keys -> BOOLEAN]
  <2>1. (overtaken[place] /\ Held(place)) \in BOOLEAN /\ (elsewhere[place] /\ Held(place)) \in BOOLEAN
    BY <1>t DEF Held
  <2> QED BY <1>t, <2>1 DEF Emptied
<1>3. ASSUME NEW other \in Keys, other # place \/ Held(place)
      PROVE  overtaken'[other] = overtaken[other] /\ elsewhere'[other] = elsewhere[other]
  <2>1. CASE other # place
    BY <1>t, <2>1 DEF Emptied
  <2>2. CASE other = place
    <3>1. overtaken'[place] = (overtaken[place] /\ Held(place))
          /\ elsewhere'[place] = (elsewhere[place] /\ Held(place))
      BY <1>t DEF Emptied
    <3>2. overtaken[place] \in BOOLEAN /\ elsewhere[place] \in BOOLEAN
      BY <1>t
    <3> QED BY <1>3, <2>2, <3>1, <3>2
  <2> QED BY <2>1, <2>2
<1>4. HeldIsSound'
  <2>1. ASSUME NEW q \in Procs, Holding(q, serving[q].key), serving'[q] = serving[q]
        PROVE  /\ overtaken'[serving'[q].key] = overtaken[serving[q].key]
               /\ elsewhere'[serving'[q].key] = elsewhere[serving[q].key]
    <3>1. Held(serving[q].key) /\ serving[q].key \in Keys
      BY <1>0, <2>1 DEF Held, Holding, LoadsItsKey, Creating
    <3> QED BY <1>3, <2>1, <3>1
  <2>2. ASSUME NEW q \in Procs
        PROVE  (/\ serving[q].at = "fill" => Sound(serving[q].key, serving[q].val)
                /\ doing[q].at = "return" => Sound(serving[q].key, doing[q].res)
                /\ doing[q].call # NoCall /\ call[doing[q].call].val # NoResult
                     => Sound(serving[q].key, call[doing[q].call].val))'
    <3>1. CASE serving'[q] = serving[q] /\ Holding(q, serving[q].key)
      BY <1>0, <2>1, <3>1 DEF HeldIsSound, Sound
    <3>2. CASE serving'[q] = serving[q] /\ ~ Holding(q, serving[q].key)
      BY <3>2 DEF Holding
    <3>3. CASE serving[q].at = "drop" /\ serving'[q] = Rest
      <4>1. doing[q].at = "out" /\ doing[q].call = NoCall
        BY <1>0, <3>3 DEF LoadsItsKey, Creating
      <4> QED BY <3>3, <4>1 DEF Rest
    <3> QED BY <3>1, <3>2, <3>3
  <2> QED BY <2>2 DEF HeldIsSound
<1>5. StaleOnlyIfOvertaken'
  <2>1. ASSUME NEW other \in Keys
        PROVE  (Fresh(other) \/ overtaken[other] \/ elsewhere[other] \/ Writing(other))'
    <3>1. CASE other = place
      BY <1>1, <3>1 DEF Fresh
    <3>2. CASE other # place
      <4>1. CASE Fresh(other)
        BY <1>1, <3>2, <4>1 DEF Fresh
      <4>2. CASE overtaken[other] \/ elsewhere[other]
        BY <1>3, <3>2, <4>2
      <4>3. CASE Writing(other)
        BY <3>2, <4>3
      <4> QED BY <1>0, <4>1, <4>2, <4>3 DEF StaleOnlyIfOvertaken
    <3> QED BY <3>1, <3>2
  <2> QED BY <2>1 DEF StaleOnlyIfOvertaken
<1> QED BY <1>1, <1>2, <1>4, <1>5

LEMMA DropCachedStep ==
  ASSUME ServerIInv, IInv', NEW p \in Procs, DropCached(p)
  PROVE  ServerIInv'
<1>0. ServerTypeOK
  BY DEF ServerIInv
<1>1. /\ UNCHANGED <<m, call, doing, redis, owner>> /\ Reply(p)
      /\ serving[p].at = "drop" /\ Emptied(serving[p].key)
  BY DEF DropCached
<1>2. /\ serving' \in [Procs -> ServingType] /\ serving'[p] = Rest
      /\ \A q \in Procs : q # p => serving'[q] = serving[q]
      /\ LoadsItsKey' /\ CallsHaveOneKey' /\ serving[p].key \in Keys
  BY <1>1, ReplyKeeps
<1>3. ASSUME NEW other \in Keys \ {serving[p].key}, Writing(other) PROVE Writing(other)'
  BY <1>2, <1>3 DEF Writing
<1>4. /\ cache' \in [Keys -> Values \cup {NoValue}]
      /\ {hot', overtaken', elsewhere'} \subseteq [Keys -> BOOLEAN]
      /\ HeldIsSound' /\ StaleOnlyIfOvertaken'
  BY <1>1, <1>2, <1>3, EmptiedKeeps
<1>5. ServerTypeOK'
  BY <1>0, <1>1, <1>2, <1>4, IInv' DEF ServerTypeOK, IInv
<1> QED BY IInv', <1>2, <1>4, <1>5 DEF ServerIInv

LEMMA EvictStep ==
  ASSUME ServerIInv, IInv', NEW place \in Keys, Evict(place)
  PROVE  ServerIInv'
<1>0. ServerTypeOK /\ LoadsItsKey /\ CallsHaveOneKey
  BY DEF ServerIInv
<1>1. UNCHANGED <<m, call, doing, redis, owner, serving>> /\ Emptied(place)
  BY DEF Evict
<1>2. \A other \in Keys \ {place} : Writing(other) => Writing(other)'
  BY <1>1 DEF Writing
<1>3. /\ cache' \in [Keys -> Values \cup {NoValue}]
      /\ {hot', overtaken', elsewhere'} \subseteq [Keys -> BOOLEAN]
      /\ HeldIsSound' /\ StaleOnlyIfOvertaken'
  BY <1>1, <1>2, EmptiedKeeps
<1>4. ServerTypeOK' /\ LoadsItsKey' /\ CallsHaveOneKey'
  BY <1>0, <1>1, <1>3, IInv' DEF ServerTypeOK, IInv, LoadsItsKey, CallsHaveOneKey
<1> QED BY IInv', <1>3, <1>4 DEF ServerIInv

\* set_hot, a change of a ring, and a step of something else.
LEMMA OutsideStep ==
  ASSUME ServerIInv, IInv',
         \/ \E place \in HotPlaces, val \in Values : SetToCache(place, val)
         \/ \E place \in Keys, node \in Owners : RingChange(place, node)
         \/ UNCHANGED vars
  PROVE  ServerIInv'
<1>0. /\ IInv /\ ServerTypeOK /\ HeldIsSound /\ LoadsItsKey /\ CallsHaveOneKey
      /\ StaleOnlyIfOvertaken
  BY DEF ServerIInv
<1>1. UNCHANGED <<m, call, doing, redis, serving, overtaken, elsewhere>>
  BY DEF SetToCache, RingChange, histories, vars
<1>2. HeldIsSound' /\ LoadsItsKey' /\ CallsHaveOneKey'
  BY <1>0, <1>1 DEF HeldIsSound, Sound, LoadsItsKey, CallsHaveOneKey
<1>3. ASSUME NEW place \in HotPlaces, NEW val \in Values, SetToCache(place, val)
      PROVE  ServerTypeOK' /\ StaleOnlyIfOvertaken'
  <2>1. /\ owner' = owner /\ cache' \in [Keys -> Values \cup {NoValue}]
        /\ hot' \in [Keys -> BOOLEAN] /\ hot'[place]
        /\ \A other \in Keys : other # place => /\ cache'[other] = cache[other]
                                                /\ hot'[other] = hot[other]
    BY <1>0, <1>3, ServerAssumption DEF SetToCache, ServerTypeOK
  <2>2. ServerTypeOK'
    BY <1>0, <1>1, <2>1, IInv' DEF ServerTypeOK, IInv
  <2>3. ASSUME NEW other \in Keys
        PROVE  (Fresh(other) \/ overtaken[other] \/ elsewhere[other] \/ Writing(other))'
    <3>1. CASE other = place \/ Fresh(other)
      BY <1>1, <2>1, <3>1 DEF Fresh
    <3>2. CASE overtaken[other] \/ elsewhere[other]
      BY <1>1, <3>2
    <3>3. CASE Writing(other)
      BY <1>1, <3>3 DEF Writing
    <3> QED BY <1>0, <3>1, <3>2, <3>3 DEF StaleOnlyIfOvertaken
  <2> QED BY <2>2, <2>3 DEF StaleOnlyIfOvertaken
<1>4. ASSUME NEW place \in Keys, NEW node \in Owners, RingChange(place, node)
      PROVE  ServerTypeOK' /\ StaleOnlyIfOvertaken'
  <2>1. owner' \in [Keys -> Owners] /\ UNCHANGED <<cache, hot>>
    BY <1>0, <1>4 DEF RingChange, ServerTypeOK, histories
  <2> QED BY <1>0, <1>1, <2>1, IInv'
          DEF ServerTypeOK, IInv, StaleOnlyIfOvertaken, Fresh, Writing
<1>5. ASSUME UNCHANGED vars PROVE ServerTypeOK' /\ StaleOnlyIfOvertaken'
  BY <1>0, <1>5, IInv' DEF vars, ServerTypeOK, IInv, StaleOnlyIfOvertaken, Fresh, Writing
<1> QED BY IInv', <1>2, <1>3, <1>4, <1>5 DEF ServerIInv

\* The steps of QuietStep: a request that starts, is picked, forwarded, refused,
\* or answered from the store.
LEMMA MovingStep ==
  ASSUME ServerIInv, IInv', NEW p \in Procs,
         \/ \E place \in Keys : \/ GetStart(p, place) \/ DeleteStart(p, place)
                               \/ \E val \in Values : SetStart(p, place, val)
         \/ PickFails(p) \/ PickSelf(p) \/ Forward(p) \/ ForwardFails(p) \/ GetHit(p)
  PROVE  ServerIInv'
<1>0. ServerTypeOK /\ LoadsItsKey
  BY DEF ServerIInv
<1>t. serving \in [Procs -> ServingType] /\ owner \in [Keys -> Owners]
  BY <1>0 DEF ServerTypeOK
<1>1. ASSUME NEW place \in Keys, NEW req \in {"get", "set", "delete"},
             NEW val \in Values \cup {NoValue}, Start(p, Request(req, place, val))
      PROVE  ServerIInv'
  <2> DEFINE next == Request(req, place, val)
  <2>1. next \in ServingType /\ next.at = "pick" /\ next.key \in Keys
    BY DEF Request, ServingType
  <2>2. serving[p].at = "rest" /\ serving' = [serving EXCEPT ![p] = next]
        /\ UNCHANGED <<m, call, doing, redis, owner, cache, histories>>
    BY <1>1 DEF Start, Rest
  <2> HIDE DEF next
  <2> QED BY <2>1, <2>2, QuietStep
<1>2. ASSUME Reply(p), serving[p].at \in {"pick", "cache"},
             UNCHANGED <<m, call, doing, redis, owner, cache, histories>>
      PROVE  ServerIInv'
  <2>1. Rest \in ServingType /\ Rest.at = "rest"
    BY DEF Rest, ServingType
  <2> QED BY <1>2, <2>1, QuietStep DEF Reply
<1>3. ASSUME PickSelf(p) PROVE ServerIInv'
  <2> DEFINE next == [serving[p] EXCEPT !.at = IF serving[p].req = "get" THEN "cache" ELSE "redis"]
  <2>1. next \in ServingType /\ next.at \in {"cache", "redis"} /\ next.key = serving[p].key
    BY <1>t DEF ServingType
  <2>2. serving[p].at = "pick" /\ serving[p].key \in Keys
        /\ UNCHANGED <<m, call, doing, redis, owner, cache, histories>>
    BY <1>0, <1>3 DEF PickSelf, LoadsItsKey
  <2>3. serving' = [serving EXCEPT ![p] = next]
    BY <1>t, <1>3 DEF PickSelf
  <2> HIDE DEF next
  <2> QED BY <2>1, <2>2, <2>3, QuietStep
<1>4. ASSUME Forward(p) PROVE ServerIInv'
  <2> DEFINE there == <<owner[serving[p].key], NameOf(serving[p].key)>>
             next == [serving[p] EXCEPT !.key = there]
  <2>1. serving[p].at = "pick" /\ serving[p].key \in Keys
        /\ UNCHANGED <<m, call, doing, redis, owner, cache, histories>>
    BY <1>0, <1>4 DEF Forward, LoadsItsKey
  <2>2. owner[serving[p].key] \in Nodes
    BY <1>t, <1>4, <2>1, ServerAssumption DEF Forward
  <2>3. there \in Keys
    BY <2>1, <2>2, Places
  <2>4. serving' = [serving EXCEPT ![p] = next]
    BY <1>t, <1>4 DEF Forward
  <2> HIDE DEF there
  <2>5. next \in ServingType /\ next.at = "pick" /\ next.key \in Keys
    BY <1>t, <2>1, <2>3 DEF ServingType
  <2> HIDE DEF next
  <2> QED BY <2>1, <2>4, <2>5, QuietStep
<1>5. ASSUME PickFails(p) \/ ForwardFails(p) \/ GetHit(p) PROVE ServerIInv'
  BY <1>2, <1>5 DEF PickFails, ForwardFails, GetHit
<1>6. ASSUME NEW place \in Keys, GetStart(p, place) \/ DeleteStart(p, place) PROVE ServerIInv'
  BY <1>1, <1>6 DEF GetStart, DeleteStart
<1>7. ASSUME NEW place \in Keys, NEW val \in Values, SetStart(p, place, val) PROVE ServerIInv'
  BY <1>1, <1>7 DEF SetStart
<1> QED BY <1>3, <1>4, <1>5, <1>6, <1>7

LEMMA NextServerIInv == ServerIInv /\ [NextStep]_vars => ServerIInv'
<1> SUFFICES ASSUME ServerIInv, [NextStep]_vars PROVE ServerIInv'
  OBVIOUS
<1>1. IInv'
  BY StepIsDoStep, NextIInv DEF ServerIInv
<1>2. ASSUME NEW p \in Procs, Serve(p) PROVE ServerIInv'
  BY <1>1, <1>2, MovingStep, GetMissStep, LoadingStep, ReadRedisStep, ReturnStep, FillStep,
     WriteRedisStep, DropCachedStep
  DEF Serve
<1> QED BY <1>1, <1>2, MovingStep, EvictStep, OutsideStep DEF NextStep

(* The inductive invariant of the handlers (server.go, lines 100-164).        *)
THEOREM ServerIInvHolds == ServerSpec => []ServerIInv
BY InitServerIInv, NextServerIInv, PTL DEF ServerSpec

(* The types of the handlers, the group they use and the histories, for any   *)
(* number of nodes, requests and keys (server.go, lines 100-164).             *)
THEOREM ServerTypeCorrect == ServerSpec => []ServerTypeOK
<1>1. ServerIInv => ServerTypeOK
  BY DEF ServerIInv
<1> QED BY <1>1, ServerIInvHolds, PTL

(* However many nodes, requests and failures there are, a store differs from  *)
(* Redis only after set_hot, between a write and its cache.Delete, after an   *)
(* overtaken load, or after a write by another node (server.go, 100-164).     *)
THEOREM StaleOnlyIfOvertakenHolds == ServerSpec => []StaleOnlyIfOvertaken
<1>1. ServerIInv => StaleOnlyIfOvertaken
  BY DEF ServerIInv
<1> QED BY <1>1, ServerIInvHolds, PTL

(* In a handler, too, no finished call stays in the map and no caller is left *)
(* waiting: the theorems of the group hold of the server that uses it.        *)
THEOREM GroupServes == ServerSpec => [](NoStaleEntry /\ NoLostWaiter)
<1>1. ServerIInv => NoStaleEntry /\ NoLostWaiter
  BY DEF ServerIInv, IInv
<1> QED BY <1>1, ServerIInvHolds, PTL
=============================================================================
