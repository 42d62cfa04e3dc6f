----------------------------- MODULE MCEditors -----------------------------
(* Arrays and objects in each other, and a document that is not there yet. *)
EXTENDS Editors

N(n) == Number("unsigned", n)
M(k, v) == WithKey(k, v)

MCDocs == {Undefined, Array(<<N(0), Array(<<N(0)>>)>>),
           Object(<<M(1, Array(<<N(0)>>)), M(2, Object(<<M(1, N(0))>>))>>)}
MCItem == {N(1)}
=============================================================================
