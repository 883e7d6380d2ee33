----------------------------- MODULE Singleflight -----------------------------
(* Group.Do of internal/singleflight: concurrent callers of one key share one *)
(* execution of fn.  Load, Store and Delete on the sync.Map are atomic; Do    *)
(* takes no lock across them, so each is a step of its own.                   *)
(*                                                                            *)
(* A call object lives as long as the map or a caller refers to it: Calls are *)
(* the objects, and a new one is any object nothing refers to.  With as many  *)
(* objects as callers there is always one (NoStaleEntry: an object in the map *)
(* is also referred to by its creator).                                       *)
EXTENDS Naturals

CONSTANTS Procs,        \* the goroutines that call Do
          Keys,
          Calls,        \* the call objects
          Results,      \* what fn may return, its error included
          NoKey, NoCall, NoResult

ASSUME NoCallAssumption == NoCall \notin Calls

VARIABLES m,            \* the sync.Map: key -> call object, or NoCall
          call,         \* call object -> [done, val]
          doing         \* goroutine -> where it is in Do

sfvars == <<m, call, doing>>

Out == [at |-> "out", key |-> NoKey, call |-> NoCall, res |-> NoResult]

SFInit ==
  /\ m = [key \in Keys |-> NoCall]
  /\ call = [c \in Calls |-> [done |-> FALSE, val |-> NoResult]]
  /\ doing = [p \in Procs |-> Out]

\* A goroutine has created the call object it refers to and not removed it yet.
Creating == {"fn", "finish", "remove"}

Unreferenced(c) ==
  /\ \A key \in Keys : m[key] # c
  /\ \A p \in Procs : doing[p].call # c

-----------------------------------------------------------------------------
(* Faulty variants of the steps below, each the shape of a plausible slip:    *)
(* the runs use them to show that the properties can fail.                    *)

\* wg.Add(1) forgotten: wg.Wait does not block.
DoWaitUnblocked(p) ==
  /\ doing[p].at = "wait"
  /\ doing' = [doing EXCEPT ![p] = [at |-> "return", key |-> doing[p].key, call |-> NoCall,
                                    res |-> call[doing[p].call].val]]
  /\ UNCHANGED <<m, call>>

\* m.Delete forgotten.
DoRemoveNothing(p) ==
  /\ doing[p].at = "remove"
  /\ doing' = [doing EXCEPT ![p] = [at |-> "return", key |-> doing[p].key, call |-> NoCall,
                                    res |-> call[doing[p].call].val]]
  /\ UNCHANGED <<m, call>>

\* An early return after fn, before wg.Done.
DoFinishWithoutDone(p) ==
  /\ doing[p].at = "finish"
  /\ doing' = [doing EXCEPT ![p].at = "remove"]
  /\ UNCHANGED <<m, call>>

-----------------------------------------------------------------------------
DoEnter(p, key) ==
  /\ doing[p].at = "out"
  /\ doing' = [doing EXCEPT ![p] = [Out EXCEPT !.at = "load", !.key = key]]
  /\ UNCHANGED <<m, call>>

\* m.Load finds a call: the caller waits for it.
DoJoin(p) ==
  /\ doing[p].at = "load"
  /\ m[doing[p].key] # NoCall
  /\ doing' = [doing EXCEPT ![p].at = "wait", ![p].call = m[doing[p].key]]
  /\ UNCHANGED <<m, call>>

\* m.Load finds none.
DoLead(p) ==
  /\ doing[p].at = "load"
  /\ m[doing[p].key] = NoCall
  /\ doing' = [doing EXCEPT ![p].at = "store"]
  /\ UNCHANGED <<m, call>>

\* A call object with wg.Add(1) is stored, whatever the map holds by now.
DoStore(p) ==
  /\ doing[p].at = "store"
  /\ \E c \in Calls :
       /\ Unreferenced(c)
       /\ call' = [call EXCEPT ![c] = [done |-> FALSE, val |-> NoResult]]
       /\ m' = [m EXCEPT ![doing[p].key] = c]
       /\ doing' = [doing EXCEPT ![p].at = "fn", ![p].call = c]

\* fn has returned; its result is kept in the call object.
DoFnReturns(p, res) ==
  /\ doing[p].at = "fn"
  /\ call' = [call EXCEPT ![doing[p].call].val = res]
  /\ doing' = [doing EXCEPT ![p].at = "finish"]
  /\ UNCHANGED m

\* wg.Done releases the callers that wait.
DoFinish(p) ==
  /\ doing[p].at = "finish"
  /\ call' = [call EXCEPT ![doing[p].call].done = TRUE]
  /\ doing' = [doing EXCEPT ![p].at = "remove"]
  /\ UNCHANGED m

\* m.Delete(key), whichever call the map holds for key.
DoRemove(p) ==
  /\ doing[p].at = "remove"
  /\ m' = [m EXCEPT ![doing[p].key] = NoCall]
  /\ doing' = [doing EXCEPT ![p] = [at |-> "return", key |-> doing[p].key, call |-> NoCall,
                                    res |-> call[doing[p].call].val]]
  /\ UNCHANGED call

\* wg.Wait returns, and the caller reads the result of the call it joined.
DoWait(p) ==
  /\ doing[p].at = "wait"
  /\ call[doing[p].call].done
  /\ doing' = [doing EXCEPT ![p] = [at |-> "return", key |-> doing[p].key, call |-> NoCall,
                                    res |-> call[doing[p].call].val]]
  /\ UNCHANGED <<m, call>>

DoReturn(p) ==
  /\ doing[p].at = "return"
  /\ doing' = [doing EXCEPT ![p] = Out]
  /\ UNCHANGED <<m, call>>

DoStep(p) ==
  \/ DoJoin(p) \/ DoLead(p) \/ DoStore(p) \/ DoFinish(p) \/ DoRemove(p) \/ DoWait(p)

Next ==
  \E p \in Procs :
    \/ \E key \in Keys : DoEnter(p, key)
    \/ DoStep(p)
    \/ \E res \in Results : DoFnReturns(p, res)
    \/ DoReturn(p)

Spec == SFInit /\ [][Next]_sfvars

(* A goroutine inside Do keeps running, and fn (a read from Redis) returns.   *)
Fairness ==
  \A p \in Procs :
    /\ WF_sfvars(DoStep(p))
    /\ WF_sfvars(\E res \in Results : DoFnReturns(p, res))
    /\ WF_sfvars(DoReturn(p))

FairSpec == Spec /\ Fairness
-----------------------------------------------------------------------------
CallType == [done : BOOLEAN, val : Results \cup {NoResult}]

DoingType == [at : {"out", "load", "store", "fn", "finish", "remove", "wait", "return"},
              key : Keys \cup {NoKey}, call : Calls \cup {NoCall},
              res : Results \cup {NoResult}]

\* Do never returns without a result of fn.
TypeOK ==
  /\ m \in [Keys -> Calls \cup {NoCall}]
  /\ call \in [Calls -> CallType]
  /\ doing \in [Procs -> DoingType]
  /\ \A p \in Procs : doing[p].at = "return" => doing[p].res \in Results

(* Whatever the order of the unguarded Load, Store and Delete of racing       *)
(* callers, a call in the map belongs to a caller of that key that has yet to *)
(* execute its Delete: no finished call stays behind, to answer every later   *)
(* Do of the key with its old result (lines 22-38).                           *)
NoStaleEntry ==
  \A key \in Keys : m[key] # NoCall =>
    \E p \in Procs : /\ doing[p].at \in Creating
                     /\ doing[p].key = key
                     /\ doing[p].call = m[key]

(* A caller that waits has a result coming: its call is done, or the caller   *)
(* that created it is still before its wg.Done, even when another caller has  *)
(* replaced or removed the map entry meanwhile (lines 24, 31, 38).            *)
NoLostWaiter ==
  \A p \in Procs : doing[p].at = "wait" =>
    \/ call[doing[p].call].done
    \/ \E q \in Procs : doing[q].at \in {"fn", "finish"} /\ doing[q].call = doing[p].call

(* What the two invariants above rest on: a caller that creates or waits for  *)
(* a call holds one, its key is a key, a call that is about to be removed is  *)
(* done, and a call that is done has its result (lines 30-38).                *)
CallsHeld ==
  \A p \in Procs :
    /\ doing[p].at \in Creating \cup {"wait"} => doing[p].call \in Calls
    /\ doing[p].at # "out" => doing[p].key \in Keys
    /\ doing[p].at = "remove" => call[doing[p].call].done
    /\ doing[p].at = "finish" => call[doing[p].call].val \in Results

DoneHasResult == \A c \in Calls : call[c].done => call[c].val \in Results

IInv == TypeOK /\ CallsHeld /\ DoneHasResult /\ NoStaleEntry /\ NoLostWaiter

(* Every Do returns (lines 20-41).                                            *)
EveryDoReturns == \A p \in Procs : doing[p].at # "out" ~> doing[p].at = "out"
=============================================================================
