----------------------------- MODULE MCValueOps -----------------------------
(* A small instance: numbers in pairs that Order does not tell apart, arrays *)
(* of them in no order, objects with objects in them; of 3 bits, so that 5   *)
(* and 7 are unsigned numbers that no signed one is equal to.                *)
EXTENDS ValueOps

N(n) == Number("unsigned", n)
M(k, v) == WithKey(k, v)
O(s) == Object(s)

MCItem == {N(0), N(1), N(2)}
Class(v) == IF v.type = "number" THEN v.n \div 2 ELSE 9
MCOrder(x, y) == Sign(Class(x), Class(y))

MCArrays == {Array(<<>>), Array(<<N(2), N(1), N(0)>>), Array(<<N(1), N(2), N(1)>>)}
MCObjects ==
  {O(<<>>), O(<<M(1, N(0))>>), O(<<M(2, N(0))>>), O(<<M(1, N(1)), M(2, O(<<M(1, N(0))>>))>>),
   O(<<M(2, O(<<M(1, N(1)), M(3, N(0))>>))>>),
   O(<<M(2, O(<<>>)), M(3, Array(<<N(1), N(0)>>))>>),
   O(<<M(1, Number("signed", -1))>>), O(<<M(1, N(7))>>)}
MCOthers ==
  {Undefined, Null, Boolean(FALSE), Boolean(TRUE), N(1), N(5), N(7),
   Number("signed", -1), Number("signed", 1), Number("real", 1), Number("real", 6), String(<<>>), String(<<1>>), String(<<1, 1>>), String(<<2>>),
   String(<<2, 1, 2>>)}
MCDocs == MCArrays \cup MCObjects \cup MCOthers

MCFields ==
  {<<>>, <<M(1, N(2))>>, <<M(2, Undefined)>>, <<M(3, N(2)), M(1, Undefined)>>,
   <<M(2, N(2)), M(3, Undefined), M(1, N(2))>>}
MCPaths ==
  {<<>>, <<Name(1)>>, <<Name(2), Name(1)>>, <<Name(2), Name(3)>>, <<Index(0)>>,
   <<Name(3), Index(0)>>, <<Name(3), Index(1)>>, <<Index(1), Name(1)>>, <<Index(2)>>}
MCPosition == -4 .. 4
=============================================================================
