----------------------------- MODULE Containers -----------------------------
(***************************************************************************)
(* Values, the containers among them, and the methods of json::Value that  *)
(* take a container apart or put one together (src/src/imtjson/value.cpp,  *)
(* value.h, operations.h and the classes of values behind them).  Values   *)
(* are immutable: a method that changes a variable gives it another value, *)
(* and an operator here gives that value.                                  *)
(*                                                                         *)
(* A value is a record of its type, its key (the name it is bound to, 0    *)
(* when it is not a member) and its content.  Keys are numbers, in their   *)
(* order.  An array made by splitAt is a view of its parent: items of the  *)
(* parent, where it starts, and its length.  Positions count from 0 as in  *)
(* the code, sequences of TLA+ from 1.                                     *)
(***************************************************************************)
EXTENDS Integers, Sequences, SequencesExt, FiniteSetsExt, Selections

Undefined == [type |-> "undefined", key |-> 0]
Null == [type |-> "null", key |-> 0]
Boolean(b) == [type |-> "boolean", key |-> 0, bool |-> b]
Number(k, n) == [type |-> "number", key |-> 0, kind |-> k, n |-> n]
String(s) == [type |-> "string", key |-> 0, chars |-> s]
Array(s) == [type |-> "array", key |-> 0, items |-> s]
Object(s) == [type |-> "object", key |-> 0, items |-> s]
SubArray(s, start, len) ==
  [type |-> "array", key |-> 0, parent |-> s, start |-> start, len |-> len]

Defined(v) == v.type # "undefined"
IsView(v) == "parent" \in DOMAIN v

\* A value with a name: a proxy around the value without one.
WithKey(k, v) == [v EXCEPT !.key = k]
StripKey(v) == WithKey(0, v)

\* Values that are not containers have no items.
Size(v) ==
  CASE IsView(v) -> v.len
    [] ~IsView(v) /\ v.type \in {"array", "object"} -> Len(v.items)
    [] OTHER -> 0

\* A view does not compare the position with its own length.
ItemAt(v, i) ==
  LET s == IF IsView(v) THEN v.parent ELSE IF Size(v) > 0 THEN v.items ELSE <<>>
      p == IF IsView(v) THEN v.start + i ELSE i
  IN IF p < Len(s) THEN s[p + 1] ELSE Undefined

\* What an iteration from begin() to end() sees.
Items(v) == [i \in 1 .. Size(v) |-> ItemAt(v, i - 1)]

-----------------------------------------------------------------------------
(* Making containers *)

\* Members of an object: by name, and of those with one name the last.
Entered(r, m) ==
  Selected(r, {i \in DOMAIN r : r[i].key < m.key}) \o <<m>>
    \o Selected(r, {i \in DOMAIN r : r[i].key > m.key})
SortedMembers(s) ==
  LET sorted[n \in 0 .. Len(s)] ==
        IF n = 0 THEN <<>> ELSE Entered(sorted[n - 1], s[n])
  IN sorted[Len(s)]

\* The value a type alone stands for.
ByType(type) ==
  CASE type = "null" -> Null
    [] type = "boolean" -> Boolean(FALSE)
    [] type = "number" -> Number("unsigned", 0)
    [] type = "string" -> String(<<>>)
    [] type = "array" -> Array(<<>>)
    [] type = "object" -> Object(<<>>)
    [] OTHER -> Undefined

\* Value(type, begin, end): items without a value are skipped; the type says
\* which builder takes the rest.
Together(s) == FlattenSeq([i \in DOMAIN s |-> s[i].chars])
Build(type, s) ==
  LET kept == Selected(s, {i \in DOMAIN s : Defined(s[i])})
  IN CASE type = "object" -> Object(SortedMembers(kept))
       [] type = "array" -> Array(kept)
       [] type = "string" -> String(Together(kept))
       [] OTHER -> ByType(type)

-----------------------------------------------------------------------------
(* Parts of a value *)

\* A view of a view is one of the first parent.
Within_Own(start) == 0
Within(start) == start
View(v, start, len) ==
  IF IsView(v) THEN SubArray(v.parent, start + Within(v.start), len)
  ELSE SubArray(Items(v), start, len)

\* A string has its own splitAt: it answers 0 the other way round, and says
\* undefined where there is nothing.  Negative positions count from the end.
SplitAt(v, pos) ==
  LET sz == IF v.type = "string" THEN Len(v.chars) ELSE Size(v)
      at == IF pos < 0 /\ sz + pos > 0 THEN sz + pos ELSE pos
      none == IF v.type = "string" THEN Undefined ELSE ByType("array")
      part(start, len) ==
        IF v.type = "string" THEN String(SubSeq(v.chars, start + 1, start + len))
        ELSE View(v, start, len)
  IN CASE at > 0 /\ at < sz -> <<part(0, at), part(at, sz - at)>>
       [] at > 0 /\ at >= sz -> <<v, none>>
       [] at = 0 /\ v.type = "string" -> <<v, none>>
       [] OTHER -> <<none, v>>

\* A start that counts from the end takes everything that follows, whatever
\* the end is.
SliceTo(v, start, end) ==
  LET sz == Size(v)
      from == IF start < 0 THEN sz + start ELSE start
      to == CASE start < 0 -> sz
              [] start >= 0 /\ end < 0 -> sz + end
              [] OTHER -> end
  IN IF sz = 0 \/ from >= to \/ from >= sz THEN ByType("array")
     ELSE IF start < 0 /\ from <= 0 THEN v
     ELSE Build(IF v.type = "object" THEN "object" ELSE "array",
                SubSeq(Items(v), from + 1, Min({to, sz})))
Slice(v, start) == SliceTo(v, start, Size(v))

\* findIndex, rfindIndex, filter with a function of the item; -1 stands for
\* npos.
FindIndex(v, Test(_)) ==
  SelectInSeq(Items(v), Test) - 1
FindIndexBack(v, Test(_)) ==
  SelectLastInSeq(Items(v), Test) - 1
Filter(v, Test(_)) ==
  Build(IF v.type = "object" THEN "object" ELSE "array",
        Selected(Items(v), {i \in DOMAIN Items(v) : Test(Items(v)[i])}))

Reversed(v) == Array(Reverse(Items(v)))

-----------------------------------------------------------------------------
(* Queues: what a method leaves in the variable, and what it returns *)

Shift(v) ==
  CASE v.type = "string" ->
         LET n == Min({1, Len(v.chars)})
         IN <<String(SubSeq(v.chars, n + 1, Len(v.chars))), String(SubSeq(v.chars, 1, n))>>
    [] v.type \in {"array", "object"} -> <<Slice(v, 1), ItemAt(v, 0)>>
    [] OTHER -> <<Undefined, v>>

Unshift(v, x) ==
  LET s == <<x>> \o Items(v) IN <<Array(s), Len(s)>>

Push(v, x) ==
  LET s == Append(Items(v), x) IN <<Array(s), Len(s)>>

Pop(v) ==
  IF Size(v) = 0 THEN <<v, Undefined>>
  ELSE <<Array(Front(Items(v))), Last(Items(v))>>
=============================================================================
