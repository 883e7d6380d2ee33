----------------------------- MODULE MCCacheServer -----------------------------
(* Requests on one key: three at one node (a Get that loads, one that joins   *)
(* it, and a writer), or one at a time at three nodes whose rings change.     *)
EXTENDS CacheServer, TLC

MCResults == Values \cup {Failed}
MCPlaces == Nodes \X Names
NoPlaces == {}

\* Sound for the safety runs: no property names a goroutine, object or value.
Symmetry == Permutations(Procs) \cup Permutations(Calls) \cup Permutations(Values)
=============================================================================
