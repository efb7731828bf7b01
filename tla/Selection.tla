------------------------------ MODULE Selection ------------------------------
(* The loops that build one sequence from some elements of another, as a        *)
(* recursive function: the standard SelectSeq gives the provers nothing to      *)
(* expand.                                                                      *)
EXTENDS Naturals, Sequences

\* The elements of s at some positions, in their order.
Selected(s, positions) ==
  LET kept[n \in 0..Len(s)] ==
        IF n = 0 THEN <<>>
        ELSE IF n \in positions THEN Append(kept[n - 1], s[n])
        ELSE kept[n - 1]
  IN  kept[Len(s)]
=============================================================================
