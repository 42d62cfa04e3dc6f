----------------------------- MODULE Selections -----------------------------
(***************************************************************************)
(* SelectSeq with the places of the items to keep in place of a test: a    *)
(* recursive function whose properties can be proved (the provers know no  *)
(* definition of SelectSeq).                                               *)
(***************************************************************************)
EXTENDS Naturals, Sequences

\* The items of s at these places, in their order.
Selected(s, places) ==
  LET upTo[i \in 0 .. Len(s)] ==
        IF i = 0 THEN <<>>
        ELSE IF i \in places THEN Append(upTo[i - 1], s[i]) ELSE upTo[i - 1]
  IN upTo[Len(s)]
=============================================================================
