------------------------------- MODULE MCFrag -------------------------------
(* Instance of Frag for TLC: a wire that fits in one message and one of    *)
(* three fragments whose last chunk is short.                              *)
EXTENDS Frag

MCWires == {<<"x", "y">>, <<"p", "q", "r", "s", "t">>}
Symmetry == Permutations(Ids)

\* fragment() then join is the identity around every chunk boundary, and no
\* content is longer than a chunk.
ASSUME BoundaryLengths ==
    \A len \in 1..4 * CHUNK_BYTES + 1 :
        LET w == [k \in 1..len |-> k]
        IN  /\ JoinParts(WholeParts(w), FragCount(w)) = w
            /\ \A i \in Indices(w) : Len(Content(w, i)) \in 1..CHUNK_BYTES
=============================================================================
