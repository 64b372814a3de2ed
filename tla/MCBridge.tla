------------------------------ MODULE MCBridge ------------------------------
(* Instance of Bridge for TLC: two launches, the second by a device link,  *)
(* and symmetric slots for probes.                                         *)
EXTENDS Bridge
=============================================================================
