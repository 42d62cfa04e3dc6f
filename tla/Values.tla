------------------------------- MODULE Values -------------------------------
(***************************************************************************)
(* What json::Value computes from values (src/src/imtjson/value.cpp,       *)
(* operations.h, path.cpp and the classes of values): members, equality    *)
(* and order, changes, differences and paths.                              *)
(***************************************************************************)
EXTENDS Containers, Paths

CONSTANTS Width          \* bits of Int and UInt

ASSUME ValuesAssumption == Width \in Nat \ {0}

-----------------------------------------------------------------------------
(* Equality and order *)

\* Names of items count in objects only.  Undefined is equal to itself.
RECURSIVE Equal(_, _)
Equal(a, b) ==
  /\ a.type = b.type
  /\ CASE a.type = "boolean" -> a.bool = b.bool
       [] a.type = "number" -> a.n = b.n
       [] a.type = "string" -> a.chars = b.chars
       [] a.type \in {"array", "object"} ->
            /\ Size(a) = Size(b)
            /\ \A i \in 0 .. Size(a) - 1 :
                 /\ a.type = "object" => ItemAt(a, i).key = ItemAt(b, i).key
                 /\ Equal(ItemAt(a, i), ItemAt(b, i))
       [] OTHER -> TRUE

Rank(t) == CASE t = "null" -> 0 [] t = "boolean" -> 1 [] t = "number" -> 2
             [] t = "string" -> 3 [] t = "array" -> 4 [] t = "object" -> 5
             [] OTHER -> 6

\* getInt() of an integer: the same bits, with a sign.
AsInt(n) == IF n >= 2 ^ (Width - 1) THEN n - 2 ^ Width ELSE n

CompareNumbers(a, b) ==
  CASE {a.kind, b.kind} = {"unsigned"} -> Sign(a.n, b.n)
    [] {a.kind, b.kind} \subseteq {"unsigned", "signed"} -> Sign(AsInt(a.n), AsInt(b.n))
    [] OTHER -> Sign(a.n, b.n)

ByName(v, x, y) == IF v.type = "object" THEN Sign(x.key, y.key) ELSE 0

\* Containers and strings compare like words in a dictionary.
RECURSIVE Compare(_, _)
Compare(a, b) ==
  IF a.type # b.type THEN Sign(Rank(a.type), Rank(b.type))
  ELSE LET word(v) == IF v.type = "string" THEN v.chars ELSE Items(v)
           pair(x, y) == CASE a.type = "string" -> Sign(x, y)
                           [] ByName(a, x, y) # 0 -> ByName(a, x, y)
                           [] OTHER -> Compare(x, y)
           c(i) == pair(word(a)[i], word(b)[i])
           apart == {i \in 1 .. Min({Len(word(a)), Len(word(b))}) : c(i) # 0}
       IN CASE a.type = "boolean" -> Sign(IF a.bool THEN 1 ELSE 0, IF b.bool THEN 1 ELSE 0)
            [] a.type = "number" -> CompareNumbers(a, b)
            [] a.type \in {"string", "array", "object"} ->
                 IF apart = {} THEN Sign(Len(word(a)), Len(word(b))) ELSE c(Min(apart))
            [] OTHER -> 0

-----------------------------------------------------------------------------
(* Changes *)

\* Two sorted runs in one pass, without an Object.  Of two fields with one name
\* the first takes the place of the member, and the second is a member too.
RECURSIVE JoinedRuns(_, _)
JoinedRuns(s, fields) ==
  LET value(f) == IF Defined(f) THEN <<f>> ELSE <<>>
  IN CASE fields = <<>> -> s
       [] s = <<>> -> SelectSeq(fields, Defined)
       [] Head(s).key < Head(fields).key -> <<Head(s)>> \o JoinedRuns(Tail(s), fields)
       [] Head(s).key > Head(fields).key ->
            value(Head(fields)) \o JoinedRuns(s, Tail(fields))
       [] OTHER -> value(Head(fields)) \o JoinedRuns(Tail(s), Tail(fields))

\* setItems
SetItems(s, fields) == JoinedRuns(s, SortSeq(fields, LAMBDA f, g : f.key < g.key))

\* indexOf, lastIndexOf: -1 stands for npos.
IndexOf(v, x, start) ==
  LET at == {i \in start .. Size(v) - 1 : Equal(ItemAt(v, i), x)}
  IN IF at = {} THEN -1 ELSE Min(at)
LastIndexOf(v, x, start) ==
  LET at == {i \in 0 .. Min({start, Size(v)}) - 1 : Equal(ItemAt(v, i), x)}
  IN IF at = {} THEN -1 ELSE Max(at)

\* map: an item of an object keeps its name, unless the function gives one.
Map(v, Fn(_), type) ==
  LET image(x) == LET r == Fn(x)
                  IN IF type = "object" /\ r.key = 0 THEN WithKey(x.key, r) ELSE r
      images == [i \in DOMAIN Items(v) |-> image(Items(v)[i])]
  IN IF type \in {"array", "object"} THEN Build(type, images) ELSE ByType("array")

-----------------------------------------------------------------------------
(* Merge and difference *)

\* The first x in s at or after start, then before it; -1 when there is none.
FindInArray(s, x, start) ==
  LET at == {i \in 0 .. Len(s) - 1 : Equal(s[i + 1], x)}
      from == {i \in at : i >= start}
  IN CASE from # {} -> Min(from)
       [] from = {} /\ at # {} -> Min(at)
       [] OTHER -> -1

\* What follows an undefined item in an array merged to another are pairs: an
\* item to find, and what to insert before it; undefined there removes it.
RECURSIVE Patched(_, _, _)
Patched(s, pairs, start) ==
  IF Len(pairs) < 2 THEN s
  ELSE LET pos == FindInArray(s, pairs[1], start)
           new == pairs[2]
           rest == SubSeq(pairs, 3, Len(pairs))
       IN CASE pos >= 0 /\ Defined(new) ->
                 Patched(InsertAt(s, pos + 1, new), rest, pos + 1)
            [] pos >= 0 /\ ~Defined(new) -> Patched(RemoveAt(s, pos + 1), rest, start)
            [] pos < 0 /\ Defined(new) -> Patched(Append(s, new), rest, start)
            [] OTHER -> Patched(s, rest, start)
MergeArrays(s, other) ==
  LET mark == SelectInSeq(other, LAMBDA x : ~Defined(x))
  IN IF mark = 0 THEN s \o other
     ELSE Patched(s \o SubSeq(other, 1, mark - 1),
                  SubSeq(other, mark + 1, Len(other)), 0)

\* The two runs of members of a and b in one pass; those in both by Both.
Named(s, k) == s[SelectInSeq(s, LAMBDA m : m.key = k)]
Zipped(s, t, Left(_), Right(_), Both(_, _)) ==
  LET keys(u) == {u[i].key : i \in DOMAIN u}
      names == SetToSortSeq(keys(s) \cup keys(t), <)
      step(k) == CASE k \notin keys(t) -> Left(Named(s, k))
                   [] k \notin keys(s) -> Right(Named(t, k))
                   [] OTHER -> Both(Named(s, k), Named(t, k))
  IN FlattenSeq([n \in DOMAIN names |-> step(names[n])])

\* Members without a value go when the Object is committed.
RECURSIVE Merge(_, _)
Merge(a, b) ==
  LET both(x, y) == IF x.type = "object" /\ y.type = "object"
                    THEN <<WithKey(x.key, Merge(x, y))>> ELSE <<y>>
      one(x) == <<x>>
  IN IF a.type # b.type THEN Undefined
     ELSE CASE a.type = "boolean" -> Boolean(a.bool # b.bool)
            [] a.type = "number" -> Number("real", a.n + b.n)
            [] a.type = "string" -> String(a.chars \o b.chars)
            [] a.type = "array" -> Array(MergeArrays(Items(a), Items(b)))
            [] a.type = "object" ->
                 Edited(ByType("object"), Zipped(Items(a), Items(b), one, one, both))
            [] OTHER -> b

Diverges == [type |-> "diverges", key |-> 0]

\* The two loops over what is left count the wrong position and never end.
\* The items collected are handed on without those that are undefined.
RECURSIVE DiffArrays(_, _, _, _, _)
DiffArrays(a, b, t, o, diff) ==
  LET x == ItemAt(a, t)
      y == ItemAt(b, o)
  IN IF t < Size(a) /\ o < Size(b)
     THEN CASE Equal(x, y) -> DiffArrays(a, b, t + 1, o + 1, diff)
            [] ~Equal(x, y) /\ t + 1 < Size(a) /\ Equal(ItemAt(a, t + 1), y) ->
                 DiffArrays(a, b, t + 1, o, diff \o <<x, Undefined>>)
            [] OTHER ->
                 IF Equal(x, ItemAt(b, o + 1))
                 THEN DiffArrays(a, b, t, o + 1, diff \o <<x, y>>)
                 ELSE DiffArrays(a, b, t + 1, o + 1, diff \o <<x, y, x, Undefined>>)
     ELSE IF t < Size(a) \/ o < Size(b) THEN Diverges
     ELSE Build("array", IF diff = <<>> THEN <<>> ELSE <<Undefined>> \o diff)

DiffStrings(s, t) ==
  LET n == Len(s) - Len(t)
  IN IF n >= 0 /\ SubSeq(s, n + 1, Len(s)) = t THEN SubSeq(s, 1, n) ELSE s

\* An object with the changes from a to b; a name that goes has no value.
Nested_Unnamed(k, d) == IF Size(d) = 0 THEN <<>> ELSE <<d>>
Nested(k, d) == IF Size(d) = 0 THEN <<>> ELSE <<WithKey(k, d)>>

RECURSIVE Diff(_, _)
Diff(a, b) ==
  LET gone(x) == <<WithKey(x.key, Undefined)>>
      new(y) == <<y>>
      both(x, y) ==
        CASE x.type = "object" /\ y.type = "object" ->
               Nested(x.key, Diff(x, y))
          [] ~(x.type = "object" /\ y.type = "object") /\ ~Equal(x, y) -> <<y>>
          [] OTHER -> <<>>
  IN IF a.type # b.type THEN Undefined
     ELSE CASE a.type = "boolean" -> Boolean(a.bool # b.bool)
            [] a.type = "number" -> Number("real", a.n - b.n)
            [] a.type = "string" -> String(DiffStrings(a.chars, b.chars))
            [] a.type = "array" -> DiffArrays(a, b, 0, 0, <<>>)
            [] a.type = "object" -> Object(Zipped(Items(a), Items(b), gone, new, both))
            [] OTHER -> b

\* Object::createDiff.  A nested difference is set without its name.
RECURSIVE CreateDiff(_, _, _)
CreateDiff(a, b, depth) ==
  LET gone(x) == <<WithKey(x.key, Undefined)>>
      new(y) == <<y>>
      both(x, y) ==
        CASE depth > 0 /\ x.type = "object" /\ y.type = "object" ->
               <<CreateDiff(x, y, depth - 1)>>
          [] OTHER -> IF Equal(x, y) THEN <<>> ELSE <<y>>
  IN Object(SortedMembers(Zipped(Items(a), Items(b), gone, new, both)))
=============================================================================
