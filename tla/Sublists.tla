------------------------------ MODULE Sublists ------------------------------
(***************************************************************************)
(* The members of a list that are in a set, in their order: SelectSeq,     *)
(* which the provers do not know, with a set for its test.                 *)
(***************************************************************************)
EXTENDS Naturals, Sequences

Select(seq, S) ==
  LET kept[n \in 0 .. Len(seq)] ==
        IF n = 0 THEN <<>>
        ELSE IF seq[n] \in S THEN Append(kept[n - 1], seq[n]) ELSE kept[n - 1]
  IN  kept[Len(seq)]
=============================================================================
