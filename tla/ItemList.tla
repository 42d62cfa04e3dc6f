------------------------------ MODULE ItemList ------------------------------
(***************************************************************************)
(* What the methods of a container in a variable promise: a list of items  *)
(* that grows and shrinks at its ends, or is cut.                          *)
(***************************************************************************)
EXTENDS Integers, Sequences, SequencesExt

CONSTANTS Lists, Item, None

VARIABLES
  items,      \* of the container
  returned    \* by the last method: a count, an item, the rest, or None
vars == <<items, returned>>

Init == items \in Lists /\ returned = None

PushBack(x) == items' = Append(items, x) /\ returned' = [count |-> Len(items')]
PushFront(x) == items' = <<x>> \o items /\ returned' = [count |-> Len(items')]
PopBack ==
  \/ items = <<>> /\ items' = items /\ returned' = None
  \/ items # <<>> /\ items' = Front(items) /\ returned' = [item |-> Last(items)]
PopFront ==
  \/ items = <<>> /\ items' = items /\ returned' = None
  \/ items # <<>> /\ items' = Tail(items) /\ returned' = [item |-> Head(items)]

\* One of the two parts is kept, the other returned.
Cut(n) ==
  LET left == SubSeq(items, 1, n)
      right == SubSeq(items, n + 1, Len(items))
  IN \/ items' = left /\ returned' = [rest |-> right]
     \/ items' = right /\ returned' = [rest |-> left]

\* A slice takes the place of the list.
Keep(first, last) == items' = SubSeq(items, first, last) /\ returned' = None

Next ==
  \/ PopBack \/ PopFront
  \/ \E x \in Item : PushBack(x) \/ PushFront(x)
  \/ \E n \in 0 .. Len(items) : Cut(n)
  \/ \E first \in 1 .. Len(items) + 1, last \in 0 .. Len(items) : Keep(first, last)
Spec == Init /\ [][Next]_vars
=============================================================================
