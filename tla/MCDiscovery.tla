------------------------------ MODULE MCDiscovery ------------------------------
(* An instance of Discovery: the picker of one node, and another node that    *)
(* may come back while etcd still holds the lease of its earlier life.        *)
EXTENDS Discovery, TLC

CONSTANTS self, other

LeasesOf == (self :> 1 @@ other :> 2)
=============================================================================
