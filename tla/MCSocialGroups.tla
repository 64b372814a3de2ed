--------------------------- MODULE MCSocialGroups ---------------------------
(* Two users who know and follow each other; no copy fails.                *)
EXTENDS SocialGroups

CONSTANTS u1, u2

MCUsers == {u1, u2}
MCOthers == [u \in MCUsers |-> MCUsers \ {u}]
=============================================================================
