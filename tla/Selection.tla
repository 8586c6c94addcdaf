------------------------------ MODULE Selection -------------------------------
(***************************************************************************)
(* filter() over a list.                                                   *)
(***************************************************************************)
EXTENDS SequencesExt

\* What is left of s when only the elements in wanted stay, in their order.
Only(s, wanted) ==
    FoldLeft(LAMBDA kept, x : IF x \in wanted THEN Append(kept, x) ELSE kept, <<>>, s)
===============================================================================
