------------------------------ MODULE MCLRUCache ------------------------------
(* An instance of LRUCache: a small value and a large one.                    *)
EXTENDS LRUCache, TLC

CONSTANTS small, large

Sizes == (small :> 1 @@ large :> 2)
=============================================================================
