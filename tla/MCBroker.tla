------------------------------ MODULE MCBroker ------------------------------
(* Instances of Broker for TLC: a consumer that does not want to hear what *)
(* it sent itself.                                                         *)
EXTENDS Broker

CONSTANTS me, peer
MCSkipOf == [c \in Consumers |-> me]
=============================================================================
