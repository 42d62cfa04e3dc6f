------------------------------- MODULE Ordered -------------------------------
(***************************************************************************)
(* Ordered containers (class Ordered and Value::split of                   *)
(* src/src/imtjson/operations.h): sequences of items sorted by a function, *)
(* what is found in them and what is made of them.  The loops are          *)
(* recursive functions of the position.                                    *)
(***************************************************************************)
EXTENDS Integers, Sequences, SequencesExt, FiniteSetsExt, Selections

CONSTANTS Order(_, _)     \* the function containers are sorted by

\* std::stable_sort: each item goes before the first that is greater.
SortedIn(r, x) ==
  InsertAt(r, Min({i \in DOMAIN r : Order(r[i], x) > 0} \cup {Len(r) + 1}), x)
Sort(s) ==
  LET sorted[n \in 0 .. Len(s)] ==
        IF n = 0 THEN <<>> ELSE SortedIn(sorted[n - 1], s[n])
  IN sorted[Len(s)]

-----------------------------------------------------------------------------
(* Finding *)

\* The position of an item equal to x, or the end.
Middle(l, h) == (l + h) \div 2
FindItem(s, x) ==
  LET found[r \in (0 .. Len(s)) \X (0 .. Len(s))] ==
        LET m == Middle(r[1], r[2])
        IN IF r[1] >= r[2] THEN Len(s)
           ELSE CASE Order(x, s[m + 1]) < 0 -> found[<<r[1], m>>]
                  [] Order(x, s[m + 1]) > 0 -> found[<<m + 1, r[2]>>]
                  [] OTHER -> m
  IN found[<<0, Len(s)>>]

\* Back from position i while the item before is equal to x.
StepBack(s, x, i) == Max({j \in 0 .. i : j = 0 \/ Order(s[j], x) # 0})
LowerBound(s, x) ==
  LET at == FindItem(s, x) IN IF at = Len(s) THEN at ELSE StepBack(s, x, at)

\* On from position i until the item there is not equal to x, or the end.
StepOn(s, x, i) ==
  Min({j \in i + 1 .. Len(s) - 1 : Order(s[j + 1], x) # 0} \cup {Len(s)})
UpperBound(s, x) == StepOn(s, x, FindItem(s, x))

EqualRange(s, x) ==
  LET first == StepBack(s, x, FindItem(s, x)) IN <<first, StepOn(s, x, first)>>

-----------------------------------------------------------------------------
(* Making other containers *)

\* Of equal items the first.
Uniq_Last(s) ==
  LET uniq[n \in 0 .. Len(s)] ==
        IF n = 0 THEN <<>>
        ELSE LET r == uniq[n - 1]
             IN IF r # <<>> /\ Order(Last(r), s[n]) = 0
                THEN Append(Front(r), s[n]) ELSE Append(r, s[n])
  IN uniq[Len(s)]
Uniq(s) ==
  LET uniq[n \in 0 .. Len(s)] ==
        IF n = 0 THEN <<>>
        ELSE LET r == uniq[n - 1]
             IN IF r # <<>> /\ Order(Last(r), s[n]) = 0 THEN r ELSE Append(r, s[n])
  IN uniq[Len(s)]

\* merge, complement, intersection, symdiff: sides is what to keep of the items
\* in the left container only, in the right one only, and in both.
Comm(s, t, sides) ==
  LET kept(side, u) == IF side \in sides THEN u ELSE <<>>
      comm[p \in (1 .. Len(s) + 1) \X (1 .. Len(t) + 1)] ==
        LET i == p[1]
            j == p[2]
            c == Order(s[i], t[j])
        IN CASE i > Len(s) -> kept("right", SubSeq(t, j, Len(t)))
             [] i <= Len(s) /\ j > Len(t) -> kept("left", SubSeq(s, i, Len(s)))
             [] OTHER ->
                  CASE c < 0 -> kept("left", <<s[i]>>) \o comm[<<i + 1, j>>]
                    [] c > 0 -> kept("right", <<t[j]>>) \o comm[<<i, j + 1>>]
                    [] OTHER -> kept("both", <<t[j]>>) \o comm[<<i + 1, j + 1>>]
  IN comm[<<1, 1>>]

\* The runs of equal items: each is compared with the first item of the last
\* run that is among those that comparisons start at.
Joins(run, x, heads) ==
  LET d == Selected(run, {i \in DOMAIN run : run[i] \in heads})
  IN d = <<>> \/ Order(Head(d), x) = 0
Runs(s, heads) ==
  LET runs[n \in 0 .. Len(s)] ==
        IF n = 0 THEN <<>>
        ELSE LET r == runs[n - 1]
             IN IF r # <<>> /\ Joins(Last(r), s[n], heads)
                THEN Append(Front(r), Append(Last(r), s[n])) ELSE Append(r, <<s[n]>>)
  IN runs[Len(s)]
Group(s) == Runs(s, ToSet(s))

\* Value::split lets an item without a value start no comparison, and makes one
\* run of no items from an empty container.
Split(s) ==
  IF s = <<>> THEN <<<<>>>> ELSE Runs(s, {x \in ToSet(s) : x.type # "undefined"})
=============================================================================
