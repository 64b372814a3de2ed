------------------------------ MODULE MCGroups ------------------------------
(* Instances of Groups for TLC.  The first peer has met everybody, the     *)
(* others know only the first one; the second keeps an old record of the   *)
(* third that has no keys.                                                 *)
EXTENDS Groups

CONSTANTS ann, bob, cat
MCInitContacts ==
    [p \in Peers |-> [q \in Peers |->
        IF p # q /\ ann \in {p, q} THEN Paired
        ELSE IF p = bob /\ q = cat THEN Legacy ELSE NoContact]]
=============================================================================
