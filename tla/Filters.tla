------------------------------- MODULE Filters -------------------------------
(***************************************************************************)
(* What Vec::retain and VecDeque::retain leave of a list: the elements in  *)
(* T, in their order.  Written with a recursive function so that facts     *)
(* about it can be proved (FiltersProofs).                                 *)
(***************************************************************************)
EXTENDS Naturals, Sequences

retain(s, T) ==
  LET kept[n \in 0 .. Len(s)] ==
        IF n = 0 THEN <<>>
        ELSE IF s[n] \in T THEN Append(kept[n - 1], s[n]) ELSE kept[n - 1]
  IN kept[Len(s)]
=============================================================================
