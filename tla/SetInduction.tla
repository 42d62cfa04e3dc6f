----------------------------- MODULE SetInduction -----------------------------
(***************************************************************************)
(* Induction over the natural numbers, stated for sets: every set of       *)
(* naturals has a least element, and one that holds 0 and is closed under  *)
(* successor is everything.  Proved from the well-founded order on Nat.    *)
(* From it, that recursion over a measure defines a function, and what     *)
(* Selected returns.                                                       *)
(***************************************************************************)
EXTENDS Integers, Selections, WellFoundedInduction, TLAPS

Less == OpToRel(<, Nat)

\* The relation is the order on the numbers.
LEMMA LessIs == \A a, b \in Nat : <<a, b>> \in Less <=> a < b
  BY DEF Less, OpToRel

\* It is well-founded.
LEMMA LessWellFounded == IsWellFoundedOn(Less, Nat)
  BY NatLessThanWellFounded DEF Less

\* A set of naturals that is not empty has a least element.
LEMMA Least ==
  ASSUME NEW T, T \subseteq Nat, T # {}
  PROVE  \E x \in T : \A y \in T : x <= y
<1>1. PICK x \in T : \A y \in T : <<y, x>> \notin Less
  BY LessWellFounded, WFMin
<1>2. ASSUME NEW y \in T PROVE x <= y
  <2>1. x \in Nat /\ y \in Nat
    OBVIOUS
  <2>2. ~(y < x)
    BY <1>1, <2>1, LessIs
  <2>3. QED
    BY <2>1, <2>2
<1>3. QED
  BY <1>2

\* A set that holds 0, and with n also n + 1, holds every natural number.
LEMMA Induction ==
  ASSUME NEW T, 0 \in T, \A n \in Nat : n \in T => n + 1 \in T
  PROVE  Nat \subseteq T
<1> SUFFICES ASSUME NEW n \in Nat, n \notin T PROVE FALSE
  OBVIOUS
<1>1. Nat \ T \subseteq Nat /\ Nat \ T # {}
  OBVIOUS
<1>2. PICK x \in Nat \ T : \A y \in Nat \ T : x <= y
  BY <1>1, Least
<1>3. x # 0 /\ x - 1 \in Nat /\ x - 1 \notin T
  OBVIOUS
<1>4. QED
  BY <1>2, <1>3

-----------------------------------------------------------------------------
(* Recursion *)

\* f takes these steps from x as far as n.
Follows(f, n, x, step) ==
  f[0] = x /\ \A i \in 0 .. n - 1 : f[i + 1] = step[<<i, f[i]>>]

\* Two functions that take the same steps agree.
LEMMA FollowsUnique ==
  ASSUME NEW x, NEW step, NEW f, NEW g, NEW m \in Nat, NEW n \in Nat,
         Follows(f, m, x, step), Follows(g, n, x, step)
  PROVE  \A i \in Nat : i <= m /\ i <= n => f[i] = g[i]
<1> DEFINE T == {i \in Nat : i <= m /\ i <= n => f[i] = g[i]}
<1>1. 0 \in T
  BY DEF Follows
<1>2. ASSUME NEW i \in Nat, i \in T PROVE i + 1 \in T
  <2>1. CASE i + 1 <= m /\ i + 1 <= n
    <3>1. i \in 0 .. m - 1 /\ i \in 0 .. n - 1
      BY <2>1
    <3>2. f[i + 1] = step[<<i, f[i]>>] /\ g[i + 1] = step[<<i, g[i]>>]
      BY <3>1 DEF Follows
    <3>3. f[i] = g[i]
      BY <3>1, <1>2
    <3>4. QED
      BY <3>2, <3>3
  <2>2. QED
    BY <2>1
<1>3. Nat \subseteq T
  <2> HIDE DEF T
  <2>1. QED
    BY <1>1, <1>2, Induction
<1>4. QED
  BY <1>3

\* There is one as far as any n.
LEMMA FollowsExists ==
  ASSUME NEW S, NEW x \in S, NEW step \in [Nat \X S -> S]
  PROVE  \A n \in Nat : \E f \in [0 .. n -> S] : Follows(f, n, x, step)
<1> DEFINE T == {n \in Nat : \E f \in [0 .. n -> S] : Follows(f, n, x, step)}
<1>1. 0 \in T
  <2>1. [i \in 0 .. 0 |-> x] \in [0 .. 0 -> S] /\ Follows([i \in 0 .. 0 |-> x], 0, x, step)
    BY DEF Follows
  <2>2. QED
    BY <2>1
<1>2. ASSUME NEW n \in Nat, n \in T PROVE n + 1 \in T
  <2>1. PICK f \in [0 .. n -> S] : Follows(f, n, x, step)
    BY <1>2
  <2>2. f[n] \in S /\ step[<<n, f[n]>>] \in S
    BY <2>1
  <2> DEFINE g == [i \in 0 .. n + 1 |-> IF i = n + 1 THEN step[<<n, f[n]>>] ELSE f[i]]
  <2>3. g \in [0 .. n + 1 -> S]
    BY <2>2
  <2>4. Follows(g, n + 1, x, step)
    <3>1. g[0] = x
      BY <2>1 DEF Follows
    <3>2. ASSUME NEW i \in 0 .. n PROVE g[i + 1] = step[<<i, g[i]>>]
      <4>1. CASE i = n
        <5>1. g[n + 1] = step[<<n, f[n]>>] /\ g[n] = f[n]
          OBVIOUS
        <5> HIDE DEF g
        <5>2. QED
          BY <4>1, <5>1
      <4>2. CASE i < n
        <5>1. i \in 0 .. n - 1 /\ g[i + 1] = f[i + 1] /\ g[i] = f[i]
          BY <4>2
        <5>2. QED
          BY <5>1, <2>1 DEF Follows
      <4>3. QED
        BY <4>1, <4>2
    <3> HIDE DEF g
    <3>3. (n + 1) - 1 = n
      OBVIOUS
    <3>4. QED
      BY <3>1, <3>2, <3>3 DEF Follows
  <2> HIDE DEF g
  <2>5. QED
    BY <2>3, <2>4
<1>3. Nat \subseteq T
  <2> HIDE DEF T
  <2>1. QED
    BY <1>1, <1>2, Induction
<1>4. QED
  BY <1>3

\* f does what rule says wherever the measure is below n.
Obeys(f, D, rule, measure, n) == \A d \in D : measure[d] < n => f[d] = rule[<<d, f>>]

\* The rule looks only where the measure is smaller.
LooksBelow(D, V, rule, measure) ==
  \A d \in D : \A f, g \in [D -> V] :
    (\A e \in D : measure[e] < measure[d] => f[e] = g[e])
      => rule[<<d, f>>] = rule[<<d, g>>]

\* f is a function that does what rule says everywhere.
IsFixed(f, D, V, rule) == f \in [D -> V] /\ \A d \in D : f[d] = rule[<<d, f>>]

\* What it takes for there to be one.
IsRule(rule, D, V, measure, bound) ==
  /\ V # {} /\ rule \in [D \X [D -> V] -> V] /\ LooksBelow(D, V, rule, measure)
  /\ bound \in Nat /\ measure \in [D -> 0 .. bound - 1]

\* Such a rule defines a function.
LEMMA RecursionOver ==
  ASSUME NEW D, NEW V, NEW rule, NEW measure, NEW bound, IsRule(rule, D, V, measure, bound)
  PROVE  \E f : IsFixed(f, D, V, rule)
<1>0. /\ \E v : v \in V
      /\ rule \in [D \X [D -> V] -> V] /\ LooksBelow(D, V, rule, measure)
      /\ bound \in Nat /\ measure \in [D -> Nat] /\ \A d \in D : measure[d] < bound
  BY DEF IsRule
<1> DEFINE T == {n \in Nat : \E f \in [D -> V] : Obeys(f, D, rule, measure, n)}
<1>1. 0 \in T
  <2>0. PICK v \in V : TRUE
    BY <1>0
  <2>1. [d \in D |-> v] \in [D -> V] /\ Obeys([d \in D |-> v], D, rule, measure, 0)
    BY <1>0, <2>0 DEF Obeys
  <2>2. QED
    BY <2>1
<1>2. ASSUME NEW n \in Nat, n \in T PROVE n + 1 \in T
  <2>1. PICK f \in [D -> V] : Obeys(f, D, rule, measure, n)
    BY <1>2
  <2> DEFINE g == [d \in D |-> IF measure[d] = n THEN rule[<<d, f>>] ELSE f[d]]
  <2>2. g \in [D -> V]
    <3>1. \A d \in D : rule[<<d, f>>] \in V
      BY <1>0
    <3>2. QED
      BY <3>1
  <2>3. \A d \in D : g[d] = IF measure[d] = n THEN rule[<<d, f>>] ELSE f[d]
    OBVIOUS
  <2> HIDE DEF g
  <2>4. ASSUME NEW d \in D, measure[d] < n + 1
        PROVE  g[d] = rule[<<d, g>>]
    <3>1. \A e \in D : measure[e] < measure[d] => g[e] = f[e]
      <4> SUFFICES ASSUME NEW e \in D, measure[e] < measure[d] PROVE g[e] = f[e]
        OBVIOUS
      <4>1. measure[e] \in Nat /\ measure[d] \in Nat
        BY <1>0
      <4>2. measure[e] # n
        BY <4>1, <2>4
      <4>3. QED
        BY <4>2, <2>3
    <3>2. rule[<<d, g>>] = rule[<<d, f>>]
      BY <1>0, <2>2, <3>1 DEF LooksBelow
    <3>3. CASE measure[d] = n
      BY <3>2, <3>3, <2>3
    <3>4. CASE measure[d] # n
      <4>1. measure[d] < n
        <5>1. measure[d] \in Nat
          BY <1>0
        <5>2. QED
          BY <5>1, <2>4, <3>4
      <4>2. f[d] = rule[<<d, f>>]
        BY <4>1, <2>1 DEF Obeys
      <4>3. QED
        BY <4>2, <3>2, <3>4, <2>3
    <3>5. QED
      BY <3>3, <3>4
  <2>5. Obeys(g, D, rule, measure, n + 1)
    BY <2>4 DEF Obeys
  <2>6. QED
    BY <2>2, <2>5
<1>3. Nat \subseteq T
  <2> HIDE DEF T
  <2>1. QED
    BY <1>1, <1>2, Induction
<1>4. PICK f \in [D -> V] : Obeys(f, D, rule, measure, bound)
  BY <1>0, <1>3
<1>5. QED
  BY <1>0, <1>4 DEF Obeys, IsFixed

\* f starts at the ends, and follows a step from what is below everywhere else.
Descends(f, n, ends, first, below, step) ==
  \A q \in 0 .. n - 1 : f[q] = IF q \in ends THEN first[q] ELSE step[<<q, f[below[q]]>>]

\* What it takes: what is below is smaller, and the steps stay in V.
IsDescent(n, V, ends, first, below, step) ==
  /\ n \in Nat /\ V # {}
  /\ \A q \in 0 .. n - 1 : q \in ends => first[q] \in V
  /\ \A q \in 0 .. n - 1 : q \notin ends => /\ below[q] \in 0 .. q - 1
                                           /\ \A v \in V : step[<<q, v>>] \in V

\* There is such a function.
LEMMA DescentExists ==
  ASSUME NEW n, NEW V, NEW ends, NEW first, NEW below, NEW step,
         IsDescent(n, V, ends, first, below, step)
  PROVE  \E f \in [0 .. n - 1 -> V] : Descends(f, n, ends, first, below, step)
<1> DEFINE D == 0 .. n - 1
           At(q, f) == IF q \in ends THEN first[q] ELSE step[<<q, f[below[q]]>>]
           rule == [x \in D \X [D -> V] |-> At(x[1], x[2])]
           measure == [q \in D |-> q]
<1>1. n \in Nat /\ V # {}
  BY DEF IsDescent
<1>2. ASSUME NEW q \in D, NEW f \in [D -> V] PROVE rule[<<q, f>>] = At(q, f) /\ At(q, f) \in V
  <2>1. rule[<<q, f>>] = At(q, f)
    OBVIOUS
  <2>2. CASE q \in ends
    BY <2>1, <2>2 DEF IsDescent
  <2>3. CASE q \notin ends
    <3>1. below[q] \in D
      BY <2>3, <1>1 DEF IsDescent
    <3>2. f[below[q]] \in V
      BY <3>1
    <3>3. QED
      BY <2>1, <2>3, <3>2 DEF IsDescent
  <2>4. QED
    BY <2>2, <2>3
<1>3. rule \in [D \X [D -> V] -> V]
  BY <1>2
<1>4. ASSUME NEW q \in D, NEW f \in [D -> V], NEW g \in [D -> V],
             \A e \in D : measure[e] < measure[q] => f[e] = g[e]
      PROVE  rule[<<q, f>>] = rule[<<q, g>>]
  <2>1. CASE q \in ends
    BY <2>1, <1>2
  <2>2. CASE q \notin ends
    <3>1. below[q] \in D /\ below[q] < q
      BY <2>2, <1>1 DEF IsDescent
    <3>2. f[below[q]] = g[below[q]]
      BY <3>1, <1>4
    <3>3. QED
      BY <3>2, <1>2
  <2>3. QED
    BY <2>1, <2>2
<1>5. measure \in [D -> 0 .. n - 1]
  OBVIOUS
<1> HIDE DEF rule, measure
<1>6. IsRule(rule, D, V, measure, n)
  BY <1>1, <1>3, <1>4, <1>5 DEF IsRule, LooksBelow
<1>7. PICK f : IsFixed(f, D, V, rule)
  BY <1>6, RecursionOver
<1>8. f \in [D -> V] /\ \A q \in D : f[q] = At(q, f)
  BY <1>2, <1>7 DEF IsFixed
<1>9. QED
  BY <1>8 DEF Descends

-----------------------------------------------------------------------------
(* Selections *)

\* f is the selection of each beginning of s.
Selects(f, s, places) ==
  /\ f[0] = <<>>
  /\ \A i \in 1 .. Len(s) :
       f[i] = IF i \in places THEN Append(f[i - 1], s[i]) ELSE f[i - 1]

\* There is such a function, and it ends with Selected.
LEMMA SelectedIs ==
  ASSUME NEW S, NEW s \in Seq(S), NEW places
  PROVE  \E f \in [0 .. Len(s) -> Seq(S)] :
           Selects(f, s, places) /\ Selected(s, places) = f[Len(s)]
<1> DEFINE upTo == CHOOSE upTo : upTo = [i \in 0 .. Len(s) |->
             IF i = 0 THEN <<>>
             ELSE IF i \in places THEN Append(upTo[i - 1], s[i]) ELSE upTo[i - 1]]
<1>1. Selected(s, places) = upTo[Len(s)]
  BY DEF Selected
<1>2. PICK n \in Nat : n = Len(s)
  OBVIOUS
<1>3. \E g \in [0 .. n -> Seq(S)] : Selects(g, s, places)
  <2> DEFINE step == [p \in Nat \X Seq(S) |->
                        IF p[1] + 1 \in places /\ p[1] < n THEN Append(p[2], s[p[1] + 1]) ELSE p[2]]
  <2>1. step \in [Nat \X Seq(S) -> Seq(S)]
    <3> SUFFICES ASSUME NEW i \in Nat, NEW t \in Seq(S)
                 PROVE  (IF i + 1 \in places /\ i < n THEN Append(t, s[i + 1]) ELSE t) \in Seq(S)
      OBVIOUS
    <3>1. i < n => s[i + 1] \in S
      BY <1>2
    <3>2. QED
      BY <3>1
  <2>2. ASSUME NEW i \in Nat, NEW t \in Seq(S)
        PROVE  step[<<i, t>>] = IF i + 1 \in places /\ i < n THEN Append(t, s[i + 1]) ELSE t
    OBVIOUS
  <2> HIDE DEF step
  <2>3. <<>> \in Seq(S)
    OBVIOUS
  <2>4. PICK g \in [0 .. n -> Seq(S)] : Follows(g, n, <<>>, step)
    BY <2>1, <2>3, FollowsExists
  <2>5. ASSUME NEW i \in 1 .. n
        PROVE  g[i] = IF i \in places THEN Append(g[i - 1], s[i]) ELSE g[i - 1]
    <3>1. PICK j \in 0 .. n - 1 : i = j + 1
      BY <2>5
    <3>2. g[j + 1] = step[<<j, g[j]>>] /\ j \in Nat /\ j < n
      BY <2>4, <3>1 DEF Follows
    <3>3. g[j] \in Seq(S)
      BY <2>4, <3>1
    <3>4. i - 1 = j
      BY <3>1
    <3>5. QED
      BY <3>1, <3>2, <3>3, <3>4, <2>2
  <2>6. Selects(g, s, places)
    BY <2>4, <2>5, <1>2 DEF Selects, Follows
  <2>7. QED
    BY <2>6
<1>4. PICK g \in [0 .. n -> Seq(S)] : Selects(g, s, places)
  BY <1>3
<1>5. g = [i \in 0 .. Len(s) |->
             IF i = 0 THEN <<>>
             ELSE IF i \in places THEN Append(g[i - 1], s[i]) ELSE g[i - 1]]
  <2>1. ASSUME NEW i \in 0 .. n
        PROVE  g[i] = IF i = 0 THEN <<>>
                      ELSE IF i \in places THEN Append(g[i - 1], s[i]) ELSE g[i - 1]
    <3>1. i = 0 \/ i \in 1 .. Len(s)
      BY <1>2
    <3>2. QED
      BY <3>1, <1>4 DEF Selects
  <2>2. g = [i \in 0 .. n |-> g[i]]
    BY <1>4
  <2>3. QED
    BY <2>1, <2>2, <1>2
<1>6. upTo = [i \in 0 .. Len(s) |->
             IF i = 0 THEN <<>>
             ELSE IF i \in places THEN Append(upTo[i - 1], s[i]) ELSE upTo[i - 1]]
  BY <1>5
<1> HIDE DEF upTo
<1>7. ASSUME NEW i \in 0 .. n
      PROVE  upTo[i] = IF i = 0 THEN <<>>
                       ELSE IF i \in places THEN Append(upTo[i - 1], s[i]) ELSE upTo[i - 1]
  BY <1>2, <1>6
<1>8. Selects(upTo, s, places)
  <2>1. upTo[0] = <<>>
    BY <1>7
  <2>2. ASSUME NEW i \in 1 .. n
        PROVE upTo[i] = IF i \in places THEN Append(upTo[i - 1], s[i]) ELSE upTo[i - 1]
    <3>1. i \in 0 .. n /\ i # 0
      OBVIOUS
    <3>2. QED
      BY <3>1, <1>7
  <2>3. QED
    BY <2>1, <2>2, <1>2 DEF Selects
<1>9. upTo \in [0 .. n -> Seq(S)]
  <2>1. upTo = g
    <3> DEFINE T == {i \in Nat : i <= n => upTo[i] = g[i]}
    <3>1. 0 \in T
      BY <1>8, <1>4 DEF Selects
    <3>2. ASSUME NEW i \in Nat, i \in T PROVE i + 1 \in T
      <4>1. CASE i + 1 <= n
        <5>1. i + 1 \in 1 .. Len(s) /\ (i + 1) - 1 = i /\ upTo[i] = g[i]
          BY <4>1, <3>2, <1>2
        <5>2. upTo[i + 1] = IF i + 1 \in places THEN Append(upTo[i], s[i + 1]) ELSE upTo[i]
          BY <5>1, <1>8 DEF Selects
        <5>3. g[i + 1] = IF i + 1 \in places THEN Append(g[i], s[i + 1]) ELSE g[i]
          BY <5>1, <1>4 DEF Selects
        <5>4. QED
          BY <5>1, <5>2, <5>3
      <4>2. QED
        BY <4>1
    <3>3. Nat \subseteq T
      <4> HIDE DEF T
      <4>1. QED
        BY <3>1, <3>2, Induction
    <3>4. \A i \in 0 .. n : upTo[i] = g[i]
      BY <3>3
    <3>5. QED
      BY <3>4, <1>6, <1>2
  <2>2. QED
    BY <2>1
<1>10. QED
  BY <1>1, <1>2, <1>8, <1>9

\* What is selected depends on the items and the places up to there.
LEMMA SelectsSame ==
  ASSUME NEW n \in Nat, NEW s, NEW t, NEW p, NEW q, NEW f, NEW g,
         Selects(f, s, p), Selects(g, t, q), Len(s) \in Nat, Len(t) \in Nat,
         n <= Len(s), n <= Len(t),
         \A i \in 1 .. n : s[i] = t[i] /\ (i \in p <=> i \in q)
  PROVE  f[n] = g[n]
<1> DEFINE T == {i \in Nat : i <= n => f[i] = g[i]}
<1>1. 0 \in T
  BY DEF Selects
<1>2. ASSUME NEW i \in Nat, i \in T PROVE i + 1 \in T
  <2>1. CASE i + 1 <= n
    <3>1. i + 1 \in 1 .. Len(s) /\ i + 1 \in 1 .. Len(t) /\ (i + 1) - 1 = i
          /\ f[i] = g[i] /\ i + 1 \in 1 .. n
      BY <2>1, <1>2
    <3>2. /\ f[i + 1] = IF i + 1 \in p THEN Append(f[i], s[i + 1]) ELSE f[i]
          /\ g[i + 1] = IF i + 1 \in q THEN Append(g[i], t[i + 1]) ELSE g[i]
      BY <3>1 DEF Selects
    <3>3. QED
      BY <3>1, <3>2
  <2>2. QED
    BY <2>1
<1>3. Nat \subseteq T
  <2> HIDE DEF T
  <2>1. QED
    BY <1>1, <1>2, Induction
<1>4. QED
  BY <1>3

\* A selection is a sequence of the same items.
LEMMA SelectedType ==
  ASSUME NEW S, NEW s \in Seq(S), NEW places
  PROVE  Selected(s, places) \in Seq(S)
<1>1. PICK f \in [0 .. Len(s) -> Seq(S)] : Selected(s, places) = f[Len(s)]
  BY SelectedIs
<1>2. Len(s) \in 0 .. Len(s)
  OBVIOUS
<1>3. QED
  BY <1>1, <1>2

\* Nothing to select from.
LEMMA SelectedEmpty == \A places : Selected(<<>>, places) = <<>>
<1> SUFFICES ASSUME NEW places PROVE Selected(<<>>, places) = <<>>
  OBVIOUS
<1>1. PICK s \in Seq({0}) : s = <<>>
  <2>1. <<>> \in Seq({0})
    OBVIOUS
  <2>2. QED
    BY <2>1
<1>2. PICK f \in [0 .. Len(s) -> Seq({0})] :
        Selects(f, s, places) /\ Selected(s, places) = f[Len(s)]
  BY SelectedIs
<1>3. Len(s) = 0
  BY <1>1
<1>4. QED
  BY <1>1, <1>2, <1>3 DEF Selects

\* One item more at the end.
LEMMA SelectedAppend ==
  ASSUME NEW S, NEW s \in Seq(S), NEW x \in S, NEW p, NEW q,
         \A i \in 1 .. Len(s) : i \in p <=> i \in q
  PROVE  Selected(Append(s, x), q) =
           IF Len(s) + 1 \in q THEN Append(Selected(s, p), x) ELSE Selected(s, p)
<1>1. PICK n \in Nat : n = Len(s)
  OBVIOUS
<1>2. PICK t \in Seq(S) : t = Append(s, x)
  <2>1. Append(s, x) \in Seq(S)
    OBVIOUS
  <2>2. QED
    BY <2>1
<1>3. Len(t) = n + 1 /\ t[n + 1] = x /\ \A i \in 1 .. n : s[i] = t[i]
  BY <1>1, <1>2
<1>4. PICK f \in [0 .. Len(s) -> Seq(S)] : Selects(f, s, p) /\ Selected(s, p) = f[Len(s)]
  BY SelectedIs
<1>5. PICK g \in [0 .. Len(t) -> Seq(S)] : Selects(g, t, q) /\ Selected(t, q) = g[Len(t)]
  BY SelectedIs
<1>6. f[n] = g[n]
  BY <1>1, <1>3, <1>4, <1>5, SelectsSame
<1>7. g[n + 1] = IF n + 1 \in q THEN Append(g[n], x) ELSE g[n]
  <2>1. n + 1 \in 1 .. Len(t) /\ (n + 1) - 1 = n
    BY <1>3
  <2>2. QED
    BY <2>1, <1>3, <1>5 DEF Selects
<1>8. QED
  BY <1>1, <1>2, <1>3, <1>4, <1>5, <1>6, <1>7

\* The first item of a sequence stays first.
LEMMA TailOfAppend ==
  ASSUME NEW S, NEW s \in Seq(S), s # <<>>, NEW x \in S
  PROVE  /\ Append(s, x) # <<>> /\ Append(s, x)[1] = s[1]
         /\ Tail(Append(s, x)) = Append(Tail(s), x)
OBVIOUS

\* The first item taken away.
LEMMA SelectedTail ==
  ASSUME NEW S, NEW s \in Seq(S), s # <<>>, NEW p, NEW q,
         \A i \in 1 .. Len(s) - 1 : i \in q <=> i + 1 \in p
  PROVE  IF 1 \in p
         THEN /\ Selected(s, p) # <<>> /\ Selected(s, p)[1] = s[1]
              /\ Tail(Selected(s, p)) = Selected(Tail(s), q)
         ELSE Selected(s, p) = Selected(Tail(s), q)
<1>1. PICK n \in Nat : Len(s) = n + 1
  <2>1. Len(s) \in Nat /\ Len(s) # 0
    OBVIOUS
  <2>2. Len(s) - 1 \in Nat /\ Len(s) = (Len(s) - 1) + 1
    BY <2>1
  <2>3. QED
    BY <2>2
<1>2. PICK t \in Seq(S) : t = Tail(s)
  <2>1. Tail(s) \in Seq(S)
    OBVIOUS
  <2>2. QED
    BY <2>1
<1>3. Len(t) = n /\ \A i \in 1 .. n : t[i] = s[i + 1]
  BY <1>1, <1>2
<1>4. PICK f \in [0 .. Len(s) -> Seq(S)] : Selects(f, s, p) /\ Selected(s, p) = f[Len(s)]
  BY SelectedIs
<1>5. PICK g \in [0 .. Len(t) -> Seq(S)] : Selects(g, t, q) /\ Selected(t, q) = g[Len(t)]
  BY SelectedIs
<1>6. f[0] = <<>> /\ g[0] = <<>> /\ s[1] \in S
  BY <1>1, <1>4, <1>5 DEF Selects
<1>7. f[1] = IF 1 \in p THEN <<s[1]>> ELSE <<>>
  <2>1. 1 \in 1 .. Len(s) /\ 1 - 1 = 0
    BY <1>1
  <2>2. f[1] = IF 1 \in p THEN Append(f[0], s[1]) ELSE f[0]
    BY <2>1, <1>4 DEF Selects
  <2>3. QED
    BY <2>2, <1>6
<1>8. ASSUME NEW i \in Nat, i + 1 <= n
      PROVE  /\ f[i + 1] \in Seq(S) /\ g[i] \in Seq(S) /\ t[i + 1] \in S
             /\ f[(i + 1) + 1] = IF i + 1 \in q THEN Append(f[i + 1], t[i + 1]) ELSE f[i + 1]
             /\ g[i + 1] = IF i + 1 \in q THEN Append(g[i], t[i + 1]) ELSE g[i]
  <2>1. /\ i + 1 \in 0 .. Len(s) /\ (i + 1) + 1 \in 1 .. Len(s) /\ ((i + 1) + 1) - 1 = i + 1
        /\ i \in 0 .. Len(t) /\ i + 1 \in 1 .. Len(t) /\ (i + 1) - 1 = i
    BY <1>8, <1>1, <1>3
  <2>2. /\ f[(i + 1) + 1] = IF (i + 1) + 1 \in p THEN Append(f[i + 1], s[(i + 1) + 1]) ELSE f[i + 1]
        /\ g[i + 1] = IF i + 1 \in q THEN Append(g[i], t[i + 1]) ELSE g[i]
    BY <2>1, <1>4, <1>5 DEF Selects
  <2>3. t[i + 1] = s[(i + 1) + 1] /\ t[i + 1] \in S
    BY <2>1, <1>3
  <2>4. i + 1 \in q <=> (i + 1) + 1 \in p
    BY <2>1, <1>1, <1>3
  <2>5. f[i + 1] \in Seq(S) /\ g[i] \in Seq(S)
    BY <2>1, <1>4, <1>5
  <2>6. QED
    BY <2>2, <2>3, <2>4, <2>5
<1>9. Selected(s, p) = f[n + 1] /\ Selected(Tail(s), q) = g[n]
  BY <1>1, <1>2, <1>3, <1>4, <1>5
<1>10. CASE 1 \in p
  <2> DEFINE T == {i \in Nat : i <= n => f[i + 1] # <<>> /\ f[i + 1][1] = s[1] /\ Tail(f[i + 1]) = g[i]}
  <2>1. 0 \in T
    <3>1. PICK a \in S : a = s[1]
      BY <1>6
    <3>2. <<a>> # <<>> /\ <<a>>[1] = a /\ Tail(<<a>>) = <<>>
      OBVIOUS
    <3>3. f[0 + 1] = <<a>>
      BY <3>1, <1>7, <1>10
    <3>4. f[0 + 1] # <<>> /\ f[0 + 1][1] = s[1] /\ Tail(f[0 + 1]) = g[0]
      BY <3>1, <3>2, <3>3, <1>6
    <3>5. QED
      BY <3>4
  <2>2. ASSUME NEW i \in Nat, i \in T PROVE i + 1 \in T
    <3>1. CASE i + 1 <= n
      <4>1. f[i + 1] # <<>> /\ f[i + 1][1] = s[1] /\ Tail(f[i + 1]) = g[i]
        BY <3>1, <2>2
      <4>2. PICK u \in Seq(S) : u = f[i + 1]
        BY <3>1, <1>8
      <4>3. PICK x \in S : x = t[i + 1]
        BY <3>1, <1>8
      <4>4. /\ Append(u, x) # <<>> /\ Append(u, x)[1] = u[1]
            /\ Tail(Append(u, x)) = Append(Tail(u), x)
        <5>1. u # <<>>
          BY <4>1, <4>2
        <5>2. QED
          BY <5>1, TailOfAppend
      <4>5. /\ f[(i + 1) + 1] = IF i + 1 \in q THEN Append(u, x) ELSE u
            /\ g[i + 1] = IF i + 1 \in q THEN Append(Tail(u), x) ELSE Tail(u)
        BY <3>1, <4>1, <4>2, <4>3, <1>8
      <4>6. f[(i + 1) + 1] # <<>> /\ f[(i + 1) + 1][1] = s[1] /\ Tail(f[(i + 1) + 1]) = g[i + 1]
        BY <4>1, <4>2, <4>4, <4>5
      <4>7. QED
        BY <4>6
    <3>2. QED
      BY <3>1
  <2>3. Nat \subseteq T
    <3> HIDE DEF T
    <3>1. QED
      BY <2>1, <2>2, Induction
  <2>4. f[n + 1] # <<>> /\ f[n + 1][1] = s[1] /\ Tail(f[n + 1]) = g[n]
    BY <2>3
  <2>5. QED
    BY <2>4, <1>9, <1>10
<1>11. CASE 1 \notin p
  <2> DEFINE T == {i \in Nat : i <= n => f[i + 1] = g[i]}
  <2>1. 0 \in T
    BY <1>6, <1>7, <1>11
  <2>2. ASSUME NEW i \in Nat, i \in T PROVE i + 1 \in T
    <3>1. CASE i + 1 <= n
      <4>1. f[i + 1] = g[i]
        BY <3>1, <2>2
      <4>2. f[(i + 1) + 1] = g[i + 1]
        <5>1. /\ f[(i + 1) + 1] = IF i + 1 \in q THEN Append(f[i + 1], t[i + 1]) ELSE f[i + 1]
              /\ g[i + 1] = IF i + 1 \in q THEN Append(g[i], t[i + 1]) ELSE g[i]
          BY <3>1, <1>8
        <5>2. QED
          BY <4>1, <5>1
      <4>3. QED
        BY <4>2
    <3>2. QED
      BY <3>1
  <2>3. Nat \subseteq T
    <3> HIDE DEF T
    <3>1. QED
      BY <2>1, <2>2, Induction
  <2>4. f[n + 1] = g[n]
    BY <2>3
  <2>5. QED
    BY <2>4, <1>9, <1>11
<1>12. QED
  BY <1>10, <1>11

\* g says where each item of a selection comes from.
Placed(g, t, s, n, places) ==
  /\ g \in [1 .. Len(t) -> 1 .. n]
  /\ \A i, j \in 1 .. Len(t) : i < j => g[i] < g[j]
  /\ \A i \in 1 .. Len(t) : t[i] = s[g[i]] /\ g[i] \in places
  /\ \A p \in 1 .. n : p \in places => \E i \in 1 .. Len(t) : g[i] = p

\* One item more.
LEMMA PlacedAppend ==
  ASSUME NEW S, NEW t \in Seq(S), NEW s \in Seq(S), NEW n \in Nat, n + 1 <= Len(s),
         NEW places, n + 1 \in places, NEW g, Placed(g, t, s, n, places)
  PROVE  \E h : Placed(h, Append(t, s[n + 1]), s, n + 1, places)
<1>1. PICK m \in Nat : m = Len(t)
  OBVIOUS
<1>2. PICK x \in S : x = s[n + 1]
  <2>1. n + 1 \in 1 .. Len(s)
    OBVIOUS
  <2>2. QED
    BY <2>1
<1>3. PICK u \in Seq(S) : u = Append(t, x)
  <2>1. Append(t, x) \in Seq(S)
    OBVIOUS
  <2>2. QED
    BY <2>1
<1>4. Len(u) = m + 1 /\ u[m + 1] = x /\ \A i \in 1 .. m : u[i] = t[i]
  BY <1>1, <1>3
<1> DEFINE h == [i \in 1 .. m + 1 |-> IF i = m + 1 THEN n + 1 ELSE g[i]]
<1>5. h[m + 1] = n + 1 /\ \A i \in 1 .. m : h[i] = g[i]
  BY <1>1
<1>6. \A i \in 1 .. m : g[i] \in 1 .. n
  BY <1>1 DEF Placed
<1>7. h \in [1 .. m + 1 -> 1 .. n + 1]
  BY <1>6
<1> HIDE DEF h
<1>8. ASSUME NEW i \in 1 .. m + 1, NEW j \in 1 .. m + 1, i < j
      PROVE  h[i] < h[j]
  <2>1. i \in 1 .. m /\ h[i] = g[i] /\ g[i] \in 1 .. n
    BY <1>5, <1>6, <1>8
  <2>2. CASE j = m + 1
    BY <2>1, <2>2, <1>5
  <2>3. CASE j # m + 1
    <3>1. j \in 1 .. m /\ h[j] = g[j]
      BY <2>3, <1>5
    <3>2. g[i] < g[j]
      BY <2>1, <3>1, <1>1, <1>8 DEF Placed
    <3>3. QED
      BY <2>1, <3>1, <3>2
  <2>4. QED
    BY <2>2, <2>3
<1>9. ASSUME NEW i \in 1 .. m + 1
      PROVE  u[i] = s[h[i]] /\ h[i] \in places
  <2>1. CASE i = m + 1
    BY <2>1, <1>2, <1>4, <1>5
  <2>2. CASE i # m + 1
    <3>1. i \in 1 .. m /\ h[i] = g[i] /\ u[i] = t[i]
      BY <2>2, <1>4, <1>5
    <3>2. t[i] = s[g[i]] /\ g[i] \in places
      BY <3>1, <1>1 DEF Placed
    <3>3. QED
      BY <3>1, <3>2
  <2>3. QED
    BY <2>1, <2>2
<1>10. ASSUME NEW p \in 1 .. n + 1, p \in places
       PROVE  \E i \in 1 .. m + 1 : h[i] = p
  <2>1. CASE p = n + 1
    <3>1. m + 1 \in 1 .. m + 1
      OBVIOUS
    <3>2. QED
      BY <2>1, <3>1, <1>5
  <2>2. CASE p # n + 1
    <3>1. p \in 1 .. n
      BY <2>2
    <3>2. PICK i \in 1 .. m : g[i] = p
      BY <3>1, <1>1, <1>10 DEF Placed
    <3>3. i \in 1 .. m + 1 /\ h[i] = p
      BY <3>2, <1>5
    <3>4. QED
      BY <3>3
  <2>3. QED
    BY <2>1, <2>2
<1>11. Placed(h, u, s, n + 1, places)
  BY <1>4, <1>7, <1>8, <1>9, <1>10 DEF Placed
<1>12. QED
  BY <1>2, <1>3, <1>11

\* A selection has the items at the places, in their order, and no others.
LEMMA SelectedPlaces ==
  ASSUME NEW S, NEW s \in Seq(S), NEW places
  PROVE  \E g : Placed(g, Selected(s, places), s, Len(s), places)
<1>1. PICK f \in [0 .. Len(s) -> Seq(S)] :
        Selects(f, s, places) /\ Selected(s, places) = f[Len(s)]
  BY SelectedIs
<1> DEFINE T == {n \in Nat : n <= Len(s) => \E g : Placed(g, f[n], s, n, places)}
<1>2. 0 \in T
  <2>1. PICK none \in Seq(S) : none = <<>>
    <3>1. <<>> \in Seq(S)
      OBVIOUS
    <3>2. QED
      BY <3>1
  <2>2. Len(none) = 0 /\ f[0] = none
    BY <2>1, <1>1 DEF Selects
  <2>3. Placed([i \in 1 .. 0 |-> i], none, s, 0, places)
    BY <2>2 DEF Placed
  <2>4. QED
    BY <2>2, <2>3
<1>3. ASSUME NEW n \in Nat, n \in T PROVE n + 1 \in T
  <2>1. CASE n + 1 <= Len(s)
    <3>1. n + 1 \in 1 .. Len(s) /\ (n + 1) - 1 = n /\ n <= Len(s)
      BY <2>1
    <3>2. PICK g : Placed(g, f[n], s, n, places)
      BY <3>1, <1>3
    <3>3. PICK t \in Seq(S) : t = f[n]
      BY <3>1, <1>1
    <3>4. f[n + 1] = IF n + 1 \in places THEN Append(t, s[n + 1]) ELSE t
      BY <3>1, <3>3, <1>1 DEF Selects
    <3>5. CASE n + 1 \in places
      <4>1. \E h : Placed(h, Append(t, s[n + 1]), s, n + 1, places)
        BY <2>1, <3>2, <3>3, <3>5, PlacedAppend
      <4>2. f[n + 1] = Append(t, s[n + 1])
        BY <3>4, <3>5
      <4>3. \E h : Placed(h, f[n + 1], s, n + 1, places)
        BY <4>1, <4>2
      <4>4. QED
        BY <4>3
    <3>6. CASE n + 1 \notin places
      <4>1. Placed(g, t, s, n + 1, places)
        <5>1. g \in [1 .. Len(t) -> 1 .. n + 1]
          BY <3>2, <3>3 DEF Placed
        <5>2. \A p \in 1 .. n + 1 : p \in places => p \in 1 .. n
          BY <3>6
        <5>3. QED
          BY <5>1, <5>2, <3>2, <3>3 DEF Placed
      <4>2. f[n + 1] = t
        BY <3>4, <3>6
      <4>3. \E h : Placed(h, f[n + 1], s, n + 1, places)
        BY <4>1, <4>2
      <4>4. QED
        BY <4>3
    <3>7. QED
      BY <3>5, <3>6
  <2>2. QED
    BY <2>1
<1>4. Nat \subseteq T
  <2> HIDE DEF T
  <2>1. QED
    BY <1>2, <1>3, Induction
<1>5. Len(s) \in T
  BY <1>4
<1>6. QED
  BY <1>1, <1>5
=============================================================================
