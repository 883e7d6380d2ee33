----------------------------- MODULE MCLRU2Layer -----------------------------
(* One level with room for 3 of 4 keys: every operation meets an empty, a     *)
(* partly filled and a full level, live and deleted nodes at each position.   *)
EXTENDS LRU2LayerRefinement

=============================================================================
