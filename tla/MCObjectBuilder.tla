--------------------------- MODULE MCObjectBuilder ---------------------------
(***************************************************************************)
(* ObjectBuilder on small instances.                                       *)
(***************************************************************************)
EXTENDS ObjectBuilder

\* Both names, the second first; the first without a value, the second twice.
MCFields ==
  LET m(k, v) == [key |-> k, value |-> v]
      v == CHOOSE v \in Val : TRUE
  IN {<<m(2, v), m(1, v)>>, <<m(1, Undefined), m(2, v), m(2, v)>>}

===============================================================================
