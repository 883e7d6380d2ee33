---------------------------- MODULE MCSingleflight ----------------------------
(* Three callers of Do on one key, enough for a caller whose call object      *)
(* another caller replaced while a third waits for it.  Keys do not interact. *)
EXTENDS Singleflight
=============================================================================
