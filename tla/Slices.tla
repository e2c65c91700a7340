------------------------------- MODULE Slices -------------------------------
(* The loops over a slice that the modules share.                             *)
EXTENDS Naturals, Sequences

\* All but the last element.
Front(s) == SubSeq(s, 1, Len(s) - 1)

\* The result of a loop that starts from base and applies op to what it has and
\* to each element in turn.
FoldLeft(op(_, _), base, s) ==
    LET result[i \in 0..Len(s)] == IF i = 0 THEN base ELSE op(result[i - 1], s[i])
    IN  result[Len(s)]
=============================================================================
