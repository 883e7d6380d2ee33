--------------------------- MODULE LRU2StoreClaims ---------------------------
(* What comments and tests of pkg/store say of lru2Store and the code does    *)
(* not do: the run ClaimCleanup finds it violated.                            *)
EXTENDS LRU2Store

(* "Periodically clean expired items" (lines 593-599), and the cleanup test   *)
(* expects a key that has not expired to stay.  The loop collects a key whose *)
(* copy in level 2 has expired and deletes the key from both levels, the      *)
(* newer value in level 1 included.                                           *)
CleanupRemovesOnlyExpired ==
  [][CleanupBucket => \A key \in Keys : Readable(key)' = Readable(key)]_vars
=============================================================================
