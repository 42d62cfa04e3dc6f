------------------------------ MODULE Editors ------------------------------
(***************************************************************************)
(* Editors of containers (src/src/imtjson array.cpp, object.cpp, edit.h)   *)
(* and references to what is in them (valueref.cpp).  An Array copies the  *)
(* items of a value and has a flag that says whether they changed; an      *)
(* Object collects changes over a value (ObjectBuilder has the details).   *)
(* object() and array() open an editor for one item of another; its        *)
(* destructor stores what it made there, if there are changes.  Editors    *)
(* are on a stack, the one opened last on top: C++ destroys them from      *)
(* there.                                                                  *)
(*                                                                         *)
(* meant is history: the value that would be there if each call edited it  *)
(* in place.  Op_Slip before Op is Op with one slip.                       *)
(***************************************************************************)
EXTENDS Values

CONSTANTS
  Docs,       \* values that the outermost editor is made of
  Item,       \* what is put into containers
  Names,      \* the names used
  MaxItems,   \* bound: items of an Array
  MaxDepth,   \* bound: editors open at the same time
  MaxCalls    \* bound: calls of one program

VARIABLES
  stack,
  ref,        \* a ValueRef: whose item it is, which one, and its copy of it
  meant,
  calls       \* how many there were
vars == <<stack, ref, meant, calls>>

NoRef == [editor |-> 0]

\* slot is the place in the editor below, an element of a path.  forgot is
\* history: the editor has changed, and does not know it.
ArrayOf(v, slot) ==
  [kind |-> "array", base |-> v, items |-> Items(v), dirty |-> FALSE,
   slot |-> slot, forgot |-> FALSE, committed |-> FALSE]
ObjectOf(v, slot) ==
  [kind |-> "object", base |-> v, changes |-> <<>>,
   slot |-> slot, forgot |-> FALSE, committed |-> FALSE]
Editor(kind, v, slot) == IF kind = "array" THEN ArrayOf(v, slot) ELSE ObjectOf(v, slot)

Dirty(e) == IF e.kind = "array" THEN e.dirty ELSE e.changes # <<>>
Contents(e) == IF e.kind = "array" THEN Array(e.items) ELSE Edited(e.base, e.changes)
Slots(e) ==
  IF e.kind = "array" THEN {Index(i - 1) : i \in DOMAIN e.items} ELSE {Name(k) : k \in Names}

\* operator[]: of the changes to an object the last one.
Lookup(e, slot) ==
  IF e.kind = "array" THEN e.items[slot.key + 1]
  ELSE LET at == SelectInSeq(e.changes, LAMBDA m : m.key = slot.key)
       IN IF at # 0 THEN e.changes[at] ELSE Member(e.base, slot.key)

SetItem(e, i, v) == [e EXCEPT !.items[i + 1] = v, !.dirty = TRUE]
SetMember(e, m) == [e EXCEPT !.changes = SortedMembers(Append(@, m))]
Put(e, slot, v) ==
  IF e.kind = "array" THEN SetItem(e, slot.key, v) ELSE SetMember(e, WithKey(slot.key, v))

\* insert of many, and resize, say whether they changed something.
Inserted(e, i, n, v) ==
  [e EXCEPT !.items = SubSeq(@, 1, i) \o [j \in 1 .. n |-> v] \o SubSeq(@, i + 1, Len(@)),
            !.dirty = n > 0]
Resized(e, n) ==
  [e EXCEPT !.items = [i \in 1 .. n |-> IF i <= Len(@) THEN @[i] ELSE Undefined],
            !.dirty = n # Len(e.items)]
Pushed(e, v) == [e EXCEPT !.items = Append(@, v), !.dirty = TRUE]
Extended(e, s) == [e EXCEPT !.items = @ \o s, !.dirty = TRUE]
Erased(e, i) == [e EXCEPT !.items = RemoveAt(@, i + 1), !.dirty = TRUE]
Popped(e) == [e EXCEPT !.items = Front(@), !.dirty = TRUE]

\* revert: an Array copies the items again, which counts as a change.
Reverted(e) ==
  IF e.kind = "array" THEN [e EXCEPT !.items = Items(e.base), !.dirty = TRUE]
  ELSE [e EXCEPT !.changes = <<>>]
Cleared(e) ==
  IF e.kind = "array" THEN [e EXCEPT !.base = ByType("array"), !.items = <<>>]
  ELSE [e EXCEPT !.base = ByType("object"), !.changes = <<>>]

\* The destructor of the editor on top.
Stored(s) ==
  LET e == Last(s) IN [Front(s) EXCEPT ![Len(s) - 1] = Put(@, e.slot, Contents(e))]
Destroyed(s) == IF Dirty(Last(s)) THEN Stored(s) ELSE Front(s)

Top == Len(stack)
Path(i) == [j \in 1 .. i - 1 |-> stack[j + 1].slot]

Init ==
  /\ \E v \in Docs, kind \in {"array", "object"} :
       stack = <<Editor(kind, v, Index(0))>> /\ meant = Contents(stack[1])
  /\ ref = NoRef /\ calls = 0

-----------------------------------------------------------------------------
(* Calls of the editor on top.  After commit() an editor is only destroyed.  *)

\* What the editor shows is what it is meant to leave.
Edit(e) ==
  /\ ~stack[Top].committed
  /\ stack' = [stack EXCEPT ![Top] = e]
  /\ meant' = ReplaceByPath(meant, Path(Top), Contents(e))
  /\ UNCHANGED ref
EditForgetting(e) == Edit([e EXCEPT !.forgot = TRUE])

OnArray(room) == stack[Top].kind = "array" /\ Len(stack[Top].items) + room <= MaxItems

\* The flag of an insertion of nothing forgets changes made before.
Insert(i, n, v) ==
  /\ OnArray(n) /\ i <= Len(stack[Top].items)
  /\ LET e == Inserted(stack[Top], i, n, v)
     IN IF n = 0 THEN EditForgetting(e) ELSE Edit(e)
Resize(n) ==
  /\ OnArray(0)
  /\ LET e == Resized(stack[Top], n)
     IN IF n = Len(stack[Top].items) THEN EditForgetting(e) ELSE Edit(e)
PushBack(v) == OnArray(1) /\ Edit(Pushed(stack[Top], v))
AppendItems(v) == OnArray(Size(v)) /\ Edit(Extended(stack[Top], Items(v)))
Erase(i) == OnArray(0) /\ i < Len(stack[Top].items) /\ Edit(Erased(stack[Top], i))
PopBack == OnArray(0) /\ stack[Top].items # <<>> /\ Edit(Popped(stack[Top]))
Revert ==
  LET e == Reverted(stack[Top])
  IN IF e.kind = "array" THEN Edit(e) ELSE EditForgetting(e)
\* That an editor was cleared is no change to be stored.
Clear == EditForgetting(Cleared(stack[Top]))

-----------------------------------------------------------------------------
(* Calls of any editor: not of the item that is being edited above *)

Free(i, slot) == slot \in Slots(stack[i]) /\ (i < Top => slot # stack[i + 1].slot)

Set(i, slot, v) ==
  /\ Free(i, slot) /\ ~stack[i].committed
  /\ stack' = [stack EXCEPT ![i] = Put(@, slot, v)]
  /\ meant' = ReplaceByPath(meant, Append(Path(i), slot), v)
  /\ UNCHANGED ref

Opens(s, kind, slot) ==
  /\ Top < MaxDepth /\ ~stack[Top].committed
  /\ stack' = Append(s, Editor(kind, Lookup(s[Top], slot), slot))
Open(kind, slot) ==
  /\ slot \in Slots(stack[Top]) /\ Opens(stack, kind, slot)
  /\ UNCHANGED <<ref, meant>>
AppendOpen(kind) ==
  /\ OnArray(1)
  /\ LET e == Pushed(stack[Top], Undefined)
     IN /\ Opens([stack EXCEPT ![Top] = e], kind, Index(Len(stack[Top].items)))
        /\ meant' = ReplaceByPath(meant, Path(Top), Contents(e))
  /\ UNCHANGED ref

\* What the outermost editor makes when all have been destroyed, if they store
\* what they forgot, too.
RECURSIVE Expected(_)
Expected(s) ==
  IF Len(s) = 1 THEN Contents(s[1])
  ELSE Expected(IF Last(s).forgot THEN Stored(s) ELSE Destroyed(s))

\* A reference goes before the editor it refers to.  What an editor does not
\* know of is lost, and not expected any more.
Close ==
  /\ Top > 1 /\ ref.editor # Top
  /\ stack' = Destroyed(stack)
  /\ meant' = IF Dirty(stack[Top]) \/ ~stack[Top].forgot THEN meant ELSE Expected(stack')
  /\ UNCHANGED ref
\* commit: stores and reverts; that leaves an Array dirty, and its destructor
\* stores the old items.
Commit ==
  /\ Top > 1 /\ Dirty(stack[Top]) /\ ~stack[Top].committed
  /\ stack' = Append(Destroyed(stack),
                    [Reverted(stack[Top]) EXCEPT !.committed = TRUE, !.forgot = FALSE])
  /\ meant' = IF stack[Top].kind = "array" THEN Expected(stack') ELSE meant
  /\ UNCHANGED ref

-----------------------------------------------------------------------------
(* ValueRef *)

\* getValueOrName: what is not there yet has the name, too.
ValueOrName_Bare(v, slot) == v
ValueOrName(v, slot) == IF slot.name THEN WithKey(slot.key, v) ELSE v
Copied(i, slot) == ValueOrName(Lookup(stack[i], slot), slot)

MakeRef(i, slot) ==
  /\ ref = NoRef /\ slot \in Slots(stack[i])
  /\ ref' = [editor |-> i, slot |-> slot, copy |-> Copied(i, slot)]
  /\ UNCHANGED <<stack, meant>>
Sync ==
  /\ ref # NoRef /\ ref.slot \in Slots(stack[ref.editor])
  /\ ref' = [ref EXCEPT !.copy = Copied(ref.editor, ref.slot)]
  /\ UNCHANGED <<stack, meant>>
\* A member is set under the name of the copy.
Assign(v) ==
  /\ ref # NoRef /\ Free(ref.editor, ref.slot) /\ ~stack[ref.editor].committed
  /\ LET new == IF ref.slot.name THEN WithKey(ref.copy.key, v) ELSE v
     IN /\ ref' = [ref EXCEPT !.copy = new]
        /\ stack' = [stack EXCEPT ![ref.editor] =
                       IF ref.slot.name THEN SetMember(@, new)
                       ELSE SetItem(@, ref.slot.key, v)]
  /\ meant' = ReplaceByPath(meant, Append(Path(ref.editor), ref.slot), v)
DropRef ==
  /\ ref # NoRef /\ ref' = NoRef
  /\ UNCHANGED <<stack, meant>>

Call ==
  \/ PopBack \/ Revert \/ Clear \/ Close \/ Commit \/ Sync \/ DropRef
  \/ \E v \in Item : PushBack(v) \/ AppendItems(v) \/ Assign(v)
  \/ \E i \in 0 .. MaxItems, v \in Item, n \in 0 .. 2 : Insert(i, n, v)
  \/ \E i \in 0 .. MaxItems : Erase(i) \/ Resize(i)
  \/ \E i \in DOMAIN stack : \E slot \in Slots(stack[i]) :
       MakeRef(i, slot) \/ \E v \in Item \cup {Undefined} : Set(i, slot, v)
  \/ \E slot \in Slots(stack[Top]), kind \in {"array", "object"} : Open(kind, slot)
  \/ \E kind \in {"array", "object"} : AppendOpen(kind)
Next == calls < MaxCalls /\ Call /\ calls' = calls + 1
Spec == Init /\ [][Next]_vars

-----------------------------------------------------------------------------
(* Property *)

\* However calls of nested editors, of the editors around them and of references
\* to their items follow each other: when the editors have been destroyed, the
\* outermost one makes the value that editing in place would have given.  Only
\* clear, an insertion of nothing, a resize to the same size and the commit of
\* an Array make an editor forget.
EditsArrive == LET made == Expected(stack) IN Equal(made, meant)
=============================================================================
