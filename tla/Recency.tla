------------------------------- MODULE Recency -------------------------------
(* What one level of one bucket of lru2Store (the type `cache` of             *)
(* pkg/store/lru2.go) promises: its nodes in recency order, the head first,   *)
(* as a sequence.  A node is [k, v, expireAt]; expireAt = 0 marks a node      *)
(* that is logically deleted but still occupies its slot.  LRU2Layer models   *)
(* the arrays and the linked list that implement these operators.             *)
EXTENDS Naturals, Sequences, SequencesExt

Holds(order, key) == \E i \in DOMAIN order : order[i].k = key

Position(order, key) == CHOOSE i \in DOMAIN order : order[i].k = key

NodeOf(order, key) == order[Position(order, key)]

Live(order, key) == Holds(order, key) /\ NodeOf(order, key).expireAt > 0

\* The keys that a walk from head to tail collects, of the nodes in a set.
Collected(order, nodes) ==
  LET keys[i \in 0..Len(order)] ==
        IF i = 0 THEN <<>>
        ELSE IF order[i] \in nodes THEN Append(keys[i-1], order[i].k) ELSE keys[i-1]
  IN keys[Len(order)]

\* The nodes walk visits.
Walked(order) == {nd \in ToSet(order) : nd.expireAt > 0}

\* The other nodes, in order, when the node of key is taken out.
Without(order, key) == RemoveAt(order, Position(order, key))

\* Two faulty variants, each the shape of a plausible slip, which the runs use
\* to show that the properties can fail: a slot too many, and a deleted node
\* that is not moved.
PutInOneMore(order, cap, nd) ==
  CASE Holds(order, nd.k)                      -> <<nd>> \o Without(order, nd.k)
    [] ~Holds(order, nd.k) /\ Len(order) > cap -> <<nd>> \o Front(order)
    [] OTHER                                   -> <<nd>> \o order

DelInPlace(order, key) ==
  IF Live(order, key) THEN [order EXCEPT ![Position(order, key)].expireAt = 0]
                      ELSE order

\* put: an existing key is rewritten and becomes the head; a new key takes a
\* free slot, or else the slot of the tail node.
PutIn(order, cap, nd) ==
  CASE Holds(order, nd.k)                      -> <<nd>> \o Without(order, nd.k)
    [] ~Holds(order, nd.k) /\ Len(order) = cap -> <<nd>> \o Front(order)
    [] OTHER                                   -> <<nd>> \o order

\* The node a put of key pushes out of a full level, when it is still live:
\* the one put reports to its callback and SetWithExpiration moves to level 2.
Displaced(order, cap, key) ==
  {nd \in {order[i] : i \in {Len(order)} \ {0}} :
     ~Holds(order, key) /\ Len(order) = cap /\ nd.expireAt > 0}

\* get: a hit becomes the head, whether it is live or not.
Touch(order, key) ==
  IF Holds(order, key) THEN <<NodeOf(order, key)>> \o Without(order, key)
                       ELSE order

\* del: a live node is marked deleted and becomes the tail.
DelIn(order, key) ==
  IF Live(order, key)
  THEN Append(Without(order, key), [NodeOf(order, key) EXCEPT !.expireAt = 0])
  ELSE order
=============================================================================
