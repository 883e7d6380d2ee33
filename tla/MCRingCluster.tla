---------------------------- MODULE MCRingCluster ----------------------------
(* An instance of RingCluster: two nodes of one or two virtual nodes each.    *)
EXTENDS RingCluster, TLC

CONSTANTS a1, a2

Interleaved == (a1 :> (0 :> 1 @@ 1 :> 3)) @@ (a2 :> (0 :> 2 @@ 1 :> 4))
=============================================================================
