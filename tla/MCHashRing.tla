------------------------------ MODULE MCHashRing ------------------------------
(* Instances of HashRing: where the virtual nodes lie, and the rings of other *)
(* leaders.                                                                   *)
EXTENDS HashRing, TLC

CONSTANTS a1, a2, a3

\* Three nodes whose virtual nodes interleave on the ring, all distinct.
Interleaved == (a1 :> (0 :> 1 @@ 1 :> 4)) @@ (a2 :> (0 :> 3 @@ 1 :> 6)) @@ (a3 :> (0 :> 5 @@ 1 :> 2))

\* A ring of all nodes with more virtual nodes, and one that is torn: a1 has
\* left its owners, not its keys.
More == a1 :> 2 @@ a2 :> 2 @@ a3 :> 1
Less == a1 :> 0 @@ a2 :> 1 @@ a3 :> 2
Published == {[keys |-> KeysOf(More), owners |-> OwnersOf(More)],
              [keys |-> KeysOf([Less EXCEPT ![a1] = 1]), owners |-> OwnersOf(Less)]}
=============================================================================
