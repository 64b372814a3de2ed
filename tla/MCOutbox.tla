------------------------------ MODULE MCOutbox ------------------------------
(* Instances of Outbox for TLC: three wires, two to a peer on another      *)
(* runtime and one to the same runtime.                                    *)
EXTENDS Outbox, TLC

CONSTANTS m1, m2, m3, far, near
MCMsgs == {m1, m2, m3}
MCTopics == {far, near}
MCTopicOf == m1 :> far @@ m2 :> far @@ m3 :> near
MCRemote == {far}
=============================================================================
