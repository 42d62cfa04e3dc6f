------------------------------- MODULE Paths -------------------------------
(***************************************************************************)
(* Members of objects, changes of them, and paths: sequences of names and  *)
(* positions from the root (src/src/imtjson/path.cpp, and what value.cpp   *)
(* and objectValue.cpp do with a name).  Recursion is over the place in    *)
(* the path.                                                               *)
(***************************************************************************)
EXTENDS Containers

Sign(x, y) == IF x < y THEN -1 ELSE IF x > y THEN 1 ELSE 0

\* Bisection among the members of an object.
FindSorted(s, k) ==
  LET found[r \in (0 .. Len(s)) \X (0 .. Len(s))] ==
        LET m == (r[1] + r[2]) \div 2
        IN IF r[1] >= r[2] THEN Undefined
           ELSE CASE k > s[m + 1].key -> found[<<m + 1, r[2]>>]
                  [] k < s[m + 1].key -> found[<<r[1], m>>]
                  [] OTHER -> s[m + 1]
  IN found[<<0, Len(s)>>]
Member(v, k) == IF v.type = "object" THEN FindSorted(v.items, k) ELSE Undefined

\* An Object over a value, after set() with each of s in turn: Object::commit.
Edited(v, s) ==
  LET changes == SortedMembers(s)
      names == {changes[i].key : i \in DOMAIN changes}
      base == IF v.type = "object" THEN v.items ELSE <<>>
  IN IF changes = <<>> THEN v
     ELSE Build("object",
                Selected(base, {i \in DOMAIN base : base[i].key \notin names}) \o changes)

-----------------------------------------------------------------------------
(* Paths *)

Name(k) == [name |-> TRUE, key |-> k]
Index(i) == [name |-> FALSE, key |-> i]

Step(v, e) == IF e.name THEN Member(v, e.key) ELSE ItemAt(v, e.key)
AtPath(v, path) ==
  LET at[i \in 0 .. Len(path)] == IF i = 0 THEN v ELSE Step(at[i - 1], path[i])
  IN at[Len(path)]

\* A container on the way becomes of the type that the path asks for; an array
\* grows to the position.
Grown_Short(v, i) == Max({Size(v), i})
Grown(v, i) == Max({Size(v), i + 1})
Replaced(v, e, new) ==
  IF e.name THEN Edited(v, <<WithKey(e.key, new)>>)
  ELSE Array([i \in 1 .. Grown(v, e.key) |->
               IF i = e.key + 1 THEN new ELSE ItemAt(v, i - 1)])

\* Each container on the way, from the end of the path, with the one after it.
ReplaceByPath(v, path, x) ==
  LET new[i \in 0 .. Len(path)] ==
        IF i = Len(path) THEN x
        ELSE Replaced(AtPath(v, SubSeq(path, 1, i)), path[i + 1], new[i + 1])
  IN new[0]

\* Paths compare from the leaf to the root; positions come before names.
CompareElements(x, y) ==
  IF x.name # y.name THEN IF x.name THEN 1 ELSE -1 ELSE Sign(x.key, y.key)
ComparePaths(p, q) ==
  LET apart == {n \in 0 .. Min({Len(p), Len(q)}) - 1 : p[Len(p) - n] # q[Len(q) - n]}
  IN IF apart = {} THEN Sign(Len(p), Len(q))
     ELSE CompareElements(p[Len(p) - Min(apart)], q[Len(q) - Min(apart)])
=============================================================================
