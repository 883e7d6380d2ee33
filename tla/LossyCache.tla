------------------------------ MODULE LossyCache ------------------------------
(* What lru2Store promises to a caller of Get, Set and Delete: a map that may *)
(* forget, but that never answers with anything other than what was last set. *)
(* A put or a read pushes out at most one other key; Delete removes its key   *)
(* and nothing else; time and Clear only remove.                              *)

CONSTANTS Keys, Values, None

VARIABLES stored,     \* the value a Get would return, or None
          did         \* the call that took effect in the last step, and its result

vars == <<stored, did>>

Init == stored = [key \in Keys |-> None] /\ did = None

\* Every key in keys keeps its value or is forgotten.
KeepOrForget(keys) == \A key \in keys : stored'[key] \in {stored[key], None}

\* At most one readable key in keys is forgotten, and nothing else changes there.
ForgetAtMostOne(keys) ==
  /\ KeepOrForget(keys)
  /\ \A first, second \in keys :
       stored'[first] # stored[first] /\ stored'[second] # stored[second] => first = second

Get(key) ==
  /\ did' = [call |-> "get", k |-> key, v |-> stored[key]]
  /\ stored'[key] = stored[key]
  /\ ForgetAtMostOne(Keys \ {key})

\* val = None: the put takes effect after its expiry time, and key answers a miss.
Set(key, val) ==
  /\ did' = [call |-> "set", k |-> key, v |-> val]
  /\ stored'[key] = val
  /\ ForgetAtMostOne(Keys \ {key})

\* Delete answers TRUE at least when there was something to read.
Delete(key) ==
  /\ \E found \in BOOLEAN : /\ did' = [call |-> "delete", k |-> key, v |-> found]
                            /\ stored[key] # None => found
  /\ stored' = [stored EXCEPT ![key] = None]

\* Time passes, or Clear or the cleanup deletes.
Forget ==
  /\ did' = None
  /\ KeepOrForget(Keys)

Next ==
  \/ \E key \in Keys : \/ Get(key)
                       \/ \E val \in Values \cup {None} : Set(key, val)
                       \/ Delete(key)
  \/ Forget

Spec == Init /\ [][Next]_vars
=============================================================================
