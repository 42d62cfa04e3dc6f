------------------------------ MODULE ItemStream ------------------------------
(***************************************************************************)
(* What BinarySerializer and BinaryParser promise together: the items of   *)
(* the documents arrive in the order they were written, each with the name *)
(* and the size it was written with.  A connection that breaks loses what  *)
(* was on its way, from the end or altogether, and nothing else.           *)
(***************************************************************************)
EXTENDS Naturals, Sequences

CONSTANT Item

VARIABLES
  transit,  \* the items written and not read yet
  got       \* the item read last

ivars == <<transit, got>>

IInit == transit = <<>> /\ got \in Item

Write(item) == transit' = Append(transit, item) /\ UNCHANGED got
Read == transit # <<>> /\ got' = Head(transit) /\ transit' = Tail(transit)
Lose == transit' = <<>> /\ UNCHANGED got

INext == Read \/ Lose \/ \E item \in Item : Write(item)

ISpec == IInit /\ [][INext]_ivars

\* The same with a connection that never breaks.
LosslessSpec == IInit /\ [][Read \/ \E item \in Item : Write(item)]_ivars
=============================================================================
