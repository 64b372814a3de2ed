------------------------------- MODULE Lists --------------------------------
(* Operations on lists that several components use.                        *)
EXTENDS Integers, Sequences

\* Vec::retain and Iterator::filter: the elements of s that are in S, in order.
Retained(s, S) ==
    LET upTo[i \in 0..Len(s)] ==
            IF i = 0 THEN <<>>
            ELSE IF s[i] \in S THEN Append(upTo[i - 1], s[i]) ELSE upTo[i - 1]
    IN  upTo[Len(s)]
=============================================================================
