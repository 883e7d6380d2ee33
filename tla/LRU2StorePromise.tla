--------------------------- MODULE LRU2StorePromise ---------------------------
(* lru2Store, as its callers see it, is a LossyCache.                         *)
EXTENDS LRU2Store

Promise == INSTANCE LossyCache WITH stored <- [key \in Keys |-> Readable(key)]

(* Get answers what was last set for the key, or a miss: no copy left in the  *)
(* second level comes back after a Set, a Delete, an expiry, an eviction or a *)
(* cleanup; a Set or a Get pushes out at most one other key, and a Delete     *)
(* none (lines 102-215, 600-637).                                             *)
IsLossyCache == Promise!Spec
=============================================================================
