------------------------------ MODULE ArrayOps ------------------------------
(***************************************************************************)
(* A program that has a value in a variable, doc, and uses it as an array. *)
(* A method that changes the variable is an action that changes doc; one   *)
(* that computes something is a question with an answer.  The operators of *)
(* Containers and Ordered are what the methods compute; the properties     *)
(* compare them with what they stand for.  PathOps and ValueOps have the   *)
(* other methods.                                                          *)
(***************************************************************************)
EXTENDS Containers, Ordered

CONSTANTS
  Docs,        \* values that programs start with
  Item,        \* what they put into arrays
  Position,    \* the positions they use, some of them negative
  MaxItems     \* bound: items of an array in doc

VARIABLES doc, returned, question, answer
vars == <<doc, returned, question, answer>>

None == [none |-> "none"]
NoQuestion == [op |-> "none"]
Init == doc \in Docs /\ returned = None /\ question = NoQuestion /\ answer = <<>>

Change(r) ==
  /\ question = NoQuestion
  /\ doc' = r[1] /\ returned' = r[2]
  /\ UNCHANGED <<question, answer>>
Ask(q, a) ==
  /\ question = NoQuestion
  /\ question' = q /\ answer' = a
  /\ UNCHANGED <<doc, returned>>
\* The program goes on.
Forget ==
  /\ question # NoQuestion
  /\ question' = NoQuestion /\ answer' = <<>>
  /\ UNCHANGED <<doc, returned>>
IsArray(v) == v.type = "array"

\* What is returned: how many items there are, an item, or the other part.
Count(n) == [count |-> n]
Taken(v) == IF Defined(v) THEN [item |-> v] ELSE None
Rest(s) == [rest |-> s]

\* Arrays hold items that have a value, all of them in their storage, and Order
\* puts items in an order in which some may be equal, as sort requires of it.
Storage(v) == IF IsView(v) THEN v.parent ELSE v.items
Known == Item \cup UNION {ToSet(Storage(v)) : v \in {w \in Docs : IsArray(w)}}
WellMade(v) ==
  /\ Storage(v) \in Seq(Known)
  /\ IsView(v) => /\ v.start \in Nat /\ v.len \in Nat \ {0}
                  /\ v.start + v.len <= Len(v.parent)
ASSUME ArrayAssumption ==
  /\ MaxItems \in Nat /\ Position \subseteq Int
  /\ \A v \in Docs : IsArray(v) => WellMade(v)
  /\ \A x \in Known : Defined(x)
ASSUME OrderAssumption ==
  \A x, y \in Known :
    /\ Order(x, y) \in Int
    /\ Order(x, y) < 0 <=> Order(y, x) > 0
    /\ \A z \in Known : Order(x, y) <= 0 /\ Order(y, z) <= 0 => Order(x, z) <= 0

-----------------------------------------------------------------------------
(* Methods that change the variable *)

PushItem(x) ==
  /\ IsArray(doc) /\ Size(doc) < MaxItems
  /\ LET r == Push(doc, x) IN Change(<<r[1], Count(r[2])>>)
UnshiftItem(x) ==
  /\ IsArray(doc) /\ Size(doc) < MaxItems
  /\ LET r == Unshift(doc, x) IN Change(<<r[1], Count(r[2])>>)

PopItem == IsArray(doc) /\ LET r == Pop(doc) IN Change(<<r[1], Taken(r[2])>>)
ShiftItem == IsArray(doc) /\ LET r == Shift(doc) IN Change(<<r[1], Taken(r[2])>>)

\* The program keeps one part of the two.
SplitDoc(pos) ==
  /\ IsArray(doc)
  /\ LET parts == SplitAt(doc, pos)
     IN \/ Change(<<parts[1], Rest(Items(parts[2]))>>)
        \/ Change(<<parts[2], Rest(Items(parts[1]))>>)

SliceDoc(start, end) == IsArray(doc) /\ Change(<<SliceTo(doc, start, end), None>>)

-----------------------------------------------------------------------------
(* Methods that compute something *)

SortDoc ==
  LET s == Sort(Items(doc))
  IN /\ IsArray(doc)
     /\ Ask([op |-> "sort"],
            [sorted |-> s, uniq |-> Uniq(s), groups |-> Group(s),
             runs |-> Split(Items(doc)), reversed |-> Reversed(doc)])

SearchDoc(x) ==
  LET s == Sort(Items(doc))
  IN /\ IsArray(doc)
     /\ Ask([op |-> "search", item |-> x],
            [at |-> FindItem(s, x), lower |-> LowerBound(s, x),
             upper |-> UpperBound(s, x), range |-> EqualRange(s, x),
             first |-> FindIndex(doc, LAMBDA y : Order(y, x) = 0),
             last |-> FindIndexBack(doc, LAMBDA y : Order(y, x) = 0),
             like |-> Items(Filter(doc, LAMBDA y : Order(y, x) = 0))])

Combine(v, sides) ==
  /\ IsArray(doc) /\ IsArray(v)
  /\ Ask([op |-> "combine", other |-> v, sides |-> sides],
         Comm(Sort(Items(doc)), Sort(Items(v)), sides))

ArrayNext ==
  \/ Forget \/ PopItem \/ ShiftItem \/ SortDoc
  \/ \E x \in Item : PushItem(x) \/ UnshiftItem(x) \/ SearchDoc(x)
  \/ \E pos \in Position : SplitDoc(pos)
  \/ \E start, end \in Position : SliceDoc(start, end)
  \/ \E v \in Docs, sides \in SUBSET {"left", "right", "both"} : Combine(v, sides)

\* Whatever else a program does: it asks something else of its variable, or the
\* variable holds no array, and holds none after it.
Elsewhere ==
  /\ question = NoQuestion
  /\ \/ UNCHANGED <<doc, returned>> /\ question'.op \notin {"sort", "search", "combine"}
     \/ ~IsArray(doc) /\ ~IsArray(doc') /\ UNCHANGED <<question, answer>>
ArraySpec == Init /\ [][ArrayNext \/ Elsewhere]_vars

-----------------------------------------------------------------------------
(* Properties *)

\* A container behaves as the list of its items whatever it is made of: push,
\* pop, shift, unshift, splitAt and slice change a view made by splitAt, or a
\* view of a view, as they change an array, and return what they took out.
Lists == INSTANCE ItemList
  WITH Lists <- {IF IsArray(v) THEN Items(v) ELSE <<>> : v \in Docs},
       items <- IF IsArray(doc) THEN Items(doc) ELSE <<>>,
       returned <- IF IsArray(doc) THEN returned ELSE None
Implements == Lists!Spec

\* The positions of the items that are equal to x in the order, from 1, and
\* those items.
Places(s, x) == {i \in DOMAIN s : Order(s[i], x) = 0}
Like(s, x) == Selected(s, Places(s, x))
FirstOf(s) == IF s = <<>> THEN <<>> ELSE <<Head(s)>>
Ascending(s) == \A i, j \in DOMAIN s : i < j => Order(s[i], s[j]) <= 0
Distinct(s) == \A i, j \in DOMAIN s : i < j => Order(s[i], s[j]) < 0
AllOf(s, t) == \A i \in DOMAIN s : \E j \in DOMAIN t : s[i] = t[j]

\* The answers a for the array v.
SortRight(v, a) ==
  /\ Ascending(a.sorted)
  /\ \A x \in Known : Like(a.sorted, x) = Like(Items(v), x)
  /\ Distinct(a.uniq) /\ AllOf(a.uniq, a.sorted)
  /\ \A x \in Known : Like(a.uniq, x) = FirstOf(Like(a.sorted, x))
  /\ FlattenSeq(a.groups) = a.sorted
  /\ [i \in DOMAIN a.groups |-> Head(a.groups[i])] = a.uniq
  /\ FlattenSeq(a.runs) = Items(v)
  /\ \A i \in DOMAIN a.runs : a.runs[i] # <<>> => Like(a.runs[i], Head(a.runs[i])) = a.runs[i]
  /\ Items(a.reversed) = Reverse(Items(v))

\* Positions that are answered count from 0.
SearchRight(v, x, a) ==
  LET s == Sort(Items(v))
      at == Places(s, x)
      here == Places(Items(v), x)
  IN /\ at = {} <=> here = {}
     /\ IF at = {}
        THEN /\ a.at = Len(s) /\ a.range = <<Len(s), Len(s)>>
             /\ a.first = -1 /\ a.last = -1
        ELSE /\ a.at + 1 \in at /\ a.range = <<Min(at) - 1, Max(at)>>
             /\ a.first = Min(here) - 1 /\ a.last = Max(here) - 1
     /\ <<a.lower, a.upper>> = a.range
     /\ a.like = Like(Items(v), x)

CombineRight(v, w, sides, a) ==
  /\ Ascending(a)
  /\ \A x \in Known :
       LET l == Like(Items(v), x)
           r == Like(Items(w), x)
           n == Min({Len(l), Len(r)})
           part(side, s) == IF side \in sides THEN s ELSE <<>>
       IN Like(a, x) = part("both", SubSeq(r, 1, n))
                       \o part("left", SubSeq(l, n + 1, Len(l)))
                       \o part("right", SubSeq(r, n + 1, Len(r)))

\* sort is stable and loses nothing, uniq keeps the first of equal items and
\* group makes one group of them, the bisection finds an item wherever it is and
\* the bounds enclose all that are equal to it, and merge, intersection,
\* complement and symdiff pair off equal items, one of each side.
OrderedRight ==
  /\ question.op = "sort" => SortRight(doc, answer)
  /\ question.op = "search" => SearchRight(doc, question.item, answer)
  /\ question.op = "combine" => CombineRight(doc, question.other, question.sides, answer)
=============================================================================
