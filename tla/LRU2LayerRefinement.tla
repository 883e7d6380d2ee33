------------------------- MODULE LRU2LayerRefinement -------------------------
(* The arrays of LRU2Layer implement the recency sequence of RecencyList:     *)
(* the sequence is what a walk of the linked list from the head visits.       *)
EXTENDS LRU2Layer, Sequences

\* The j-th slot of the walk.
Visited[j \in 1..Cap] == IF j = 1 THEN dlnk[0][N] ELSE dlnk[Visited[j - 1]][N]

(* A walk from the head reaches every slot in use exactly once and stops at   *)
(* the tail: no operation leaves a slot outside the list, where walk (and so  *)
(* Len, Clear and the cleanup loop) would miss it, or a cycle, where walk     *)
(* would not end (lines 510-516).                                             *)
WalkSpansSlots ==
  /\ {Visited[j] : j \in 1..last} = 1..last
  /\ last > 0 => Visited[last] = dlnk[0][P] /\ dlnk[dlnk[0][P]][N] = 0

Order == [j \in 1..last |-> m[Visited[j]]]

Abstract == INSTANCE RecencyList WITH order <- Order

(* Every put, get and del of the arrays is one on the recency sequence: the   *)
(* node that is displaced is the least recently used one, a deleted node is   *)
(* the next to be reused, and the returned nodes are the same.                *)
ImplementsRecencyList == Abstract!Spec
=============================================================================
