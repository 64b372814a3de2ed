------------------------------ MODULE Channel -------------------------------
(***************************************************************************)
(* What publish_wire and the draining loop promise the layers above them,  *)
(* whatever happens to single fragments: a channel of whole wires that may *)
(* lose, delay, reorder and repeat them, and nothing else.  Module Frag    *)
(* implements it.                                                          *)
(***************************************************************************)
EXTENDS Sequences

CONSTANTS Wires,   \* the wires that may be published
          Ids,     \* one for every call of publish_wire
          NoWire

VARIABLES posted,   \* posted[a]: the wire call a was given, or NoWire
          verdict,  \* verdict[a]: "idle", "open", or what the call answered
          whole,    \* whole[a]: the network holds all of the wire
          handed    \* handed[a]: what receive_v2_wire was handed out of a

vars == <<posted, verdict, whole, handed>>

Init ==
    /\ posted  = [a \in Ids |-> NoWire]
    /\ verdict = [a \in Ids |-> "idle"]
    /\ whole   = [a \in Ids |-> FALSE]
    /\ handed  = [a \in Ids |-> <<>>]

Post(a, w) ==
    /\ verdict[a] = "idle"
    /\ posted'  = [posted EXCEPT ![a] = w]
    /\ verdict' = [verdict EXCEPT ![a] = "open"]
    /\ UNCHANGED <<whole, handed>>

\* publish_wire answers true only when all of the wire is out.
Confirm(a) ==
    /\ verdict[a] = "open"
    /\ verdict' = [verdict EXCEPT ![a] = "ok"]
    /\ whole'   = [whole EXCEPT ![a] = TRUE]
    /\ UNCHANGED <<posted, handed>>

\* It answers false when a part may be missing; the wire may be out all the same.
GiveUp(a) ==
    /\ verdict[a] = "open"
    /\ verdict' = [verdict EXCEPT ![a] = "failed"]
    /\ \E out \in BOOLEAN : whole' = [whole EXCEPT ![a] = out]
    /\ UNCHANGED <<posted, handed>>

Deliver(a) ==
    /\ whole[a]
    /\ handed' = [handed EXCEPT ![a] = Append(@, posted[a])]
    /\ UNCHANGED <<posted, verdict, whole>>

Next ==
    \E a \in Ids :
        \/ \E w \in Wires : Post(a, w)
        \/ Confirm(a) \/ GiveUp(a) \/ Deliver(a)

Spec == Init /\ [][Next]_vars
=============================================================================
