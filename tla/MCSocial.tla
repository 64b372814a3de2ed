------------------------------ MODULE MCSocial ------------------------------
(* Instances of Social for TLC. *)
EXTENDS Social
=============================================================================
