----------------------------- MODULE MCLRU2Store -----------------------------
(* Instances of LRU2Store: which keys share a bucket.                         *)
EXTENDS LRU2StorePromise, LRU2StoreClaims

OneBucket == [key \in Keys |-> 1]

\* The keys share the last bucket: Clear and the cleanup pass others before it.
LastBucket == [key \in Keys |-> Buckets]

\* Sound where all keys share a bucket, for properties of states and steps.
Symmetry == Permutations(Keys) \cup Permutations(Values) \cup Permutations(Clients)
=============================================================================
