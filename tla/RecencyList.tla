----------------------------- MODULE RecencyList -----------------------------
(* The abstract specification of one level of a bucket: a bounded sequence of *)
(* nodes, most recently used first, with the results its operations return.   *)
(* LRU2Layer, which has the code's arrays, is checked to implement it.        *)
EXTENDS Recency

CONSTANTS Keys,       \* the keys of the bucket
          Values,     \* the values stored
          Expiries,   \* the expiry times a put may carry, 0 included
          Cap,        \* the capacity of the level
          NoKey,      \* the key of an empty node
          NoValue     \* the value of an empty node

VARIABLES order,      \* the nodes, head first
          ret         \* what the last operation returned

vars == <<order, ret>>

NoNode == [k |-> NoKey, v |-> NoValue, expireAt |-> 0]

Returned(status, nd) == [status |-> status, node |-> nd]

Init == order = <<>> /\ ret = Returned(0, NoNode)

\* The node a put hands to the eviction callback, or none.
Reported(key) ==
  IF Displaced(order, Cap, key) = {} THEN NoNode
  ELSE CHOOSE nd \in Displaced(order, Cap, key) : TRUE

Put(key, val, expireAt) ==
  /\ order' = PutIn(order, Cap, [k |-> key, v |-> val, expireAt |-> expireAt])
  /\ ret' = Returned(IF Holds(order, key) THEN 0 ELSE 1, Reported(key))

Get(key) ==
  /\ order' = Touch(order, key)
  /\ ret' = IF Holds(order, key) THEN Returned(1, NodeOf(order, key))
                                 ELSE Returned(0, NoNode)

Del(key) ==
  /\ order' = DelIn(order, key)
  /\ ret' = IF Live(order, key) THEN Returned(1, NodeOf(order, key))
                                ELSE Returned(0, NoNode)

Next ==
  \E key \in Keys :
    \/ \E val \in Values, expireAt \in Expiries : Put(key, val, expireAt)
    \/ Get(key)
    \/ Del(key)

Spec == Init /\ [][Next]_vars
=============================================================================
