------------------------------ MODULE MCInvite ------------------------------
(* Instances of Invite for TLC. *)
EXTENDS Invite
CONSTANTS alice, bob, carol
MCQueues == [p \in Peers |-> CASE p = carol -> 1 [] p = bob -> 2 [] OTHER -> 3]
SameMode == {<<"regular", "regular">>, <<"anonymous", "anonymous">>}
MixedMode == {<<"regular", "anonymous">>}
AnonymousMode == {<<"anonymous", "anonymous">>}
=============================================================================
