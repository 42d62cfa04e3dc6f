--------------------------- MODULE ValueOpsProofs ---------------------------
(***************************************************************************)
(* Theorems about ArrayOps and PathOps, for any documents, items and paths *)
(* and any order of the items.                                             *)
(*                                                                         *)
(* First what the operators of Ordered compute, each from the recursion    *)
(* that defines it: what is like an item (Like) is followed through sort,  *)
(* uniq, the runs, the bisection and comm.  Then what the methods leave of *)
(* the items of an array or of a view, and the theorems about programs     *)
(* that use arrays.  Then members of objects (how they are put in order,   *)
(* how one is found by bisection, what a change leaves of the others), a   *)
(* path as a chain of values, what replaceByPath makes of each of them,    *)
(* and the theorem about programs that use paths.                          *)
(***************************************************************************)
EXTENDS PathOps, SetInduction, SequenceTheorems, TLAPS

-----------------------------------------------------------------------------
(* Numbers and sequences *)

\* The least number of a set is in it.
LEMMA MinIs ==
  ASSUME NEW T, T \subseteq Nat, T # {}
  PROVE  Min(T) \in T /\ \A y \in T : Min(T) <= y
BY Least DEF Min

\* The greatest number of a set of places is in it.
LEMMA MaxIs ==
  ASSUME NEW n \in Nat, NEW T, T \subseteq 0 .. n, T # {}
  PROVE  Max(T) \in T /\ \A y \in T : y <= Max(T)
<1> DEFINE U == {n - y : y \in T}
<1>1. U \subseteq Nat /\ U # {}
  <2>1. ASSUME NEW y \in T PROVE n - y \in Nat
    <3>1. y \in 0 .. n
      OBVIOUS
    <3>2. QED
      BY <3>1
  <2>2. QED
    BY <2>1
<1>2. PICK u \in U : \A z \in U : u <= z
  BY <1>1, Least
<1>3. PICK x \in T : u = n - x
  BY <1>2
<1>4. \A y \in T : x >= y
  <2> SUFFICES ASSUME NEW y \in T PROVE x >= y
    OBVIOUS
  <2>1. x \in 0 .. n /\ y \in 0 .. n /\ n - x <= n - y
    BY <1>2, <1>3
  <2>2. QED
    BY <2>1
<1>5. Max(T) \in T /\ \A y \in T : Max(T) >= y
  BY <1>4 DEF Max
<1>6. QED
  <2> SUFFICES ASSUME NEW y \in T PROVE y <= Max(T)
    BY <1>5
  <2>1. Max(T) \in 0 .. n /\ y \in 0 .. n /\ Max(T) >= y
    BY <1>5
  <2>2. QED
    BY <2>1

\* A number is the least of a set when it is in it and not above any other.
LEMMA MinUnique ==
  ASSUME NEW T, T \subseteq Int, NEW x \in T, \A y \in T : x <= y
  PROVE  Min(T) = x
<1>1. Min(T) \in T /\ \A y \in T : Min(T) <= y
  BY DEF Min
<1>2. Min(T) <= x /\ x <= Min(T) /\ x \in Int /\ Min(T) \in Int
  BY <1>1
<1>3. QED
  BY <1>2

\* And the greatest when it is not below any other.
LEMMA MaxUnique ==
  ASSUME NEW T, T \subseteq Int, NEW x \in T, \A y \in T : y <= x
  PROVE  Max(T) = x
<1>1. Max(T) \in T /\ \A y \in T : Max(T) >= y
  <2>1. \A y \in T : x >= y
    <3> SUFFICES ASSUME NEW y \in T PROVE x >= y
      OBVIOUS
    <3>1. y <= x /\ x \in Int /\ y \in Int
      OBVIOUS
    <3>2. QED
      BY <3>1
  <2>2. QED
    BY <2>1 DEF Max
<1>2. Max(T) >= x /\ Max(T) <= x /\ x \in Int /\ Max(T) \in Int
  BY <1>1
<1>3. QED
  BY <1>2

\* A set that holds the empty sequence, and with each sequence those that have
\* one item more, holds every sequence.
LEMMA SeqInduction ==
  ASSUME NEW S, NEW T, <<>> \in T, \A s \in Seq(S), x \in S : s \in T => Append(s, x) \in T
  PROVE  Seq(S) \subseteq T
<1> DEFINE U == {n \in Nat : \A s \in Seq(S) : Len(s) = n => s \in T}
<1>1. 0 \in U
  BY EmptySeq
<1>2. ASSUME NEW n \in Nat, n \in U PROVE n + 1 \in U
  <2> SUFFICES ASSUME NEW s \in Seq(S), Len(s) = n + 1 PROVE s \in T
    OBVIOUS
  <2>1. s # <<>>
    BY EmptySeq
  <2>2. PICK r \in Seq(S), x \in S : s = Append(r, x)
    BY <2>1, SequenceEmptyOrAppend
  <2>3. Len(r) \in Nat /\ Len(s) = Len(r) + 1
    BY <2>2, AppendProperties, LenProperties
  <2>4. Len(r) = n
    BY <2>3
  <2>5. r \in T
    BY <2>4, <1>2
  <2>6. QED
    BY <2>2, <2>5
<1>3. Nat \subseteq U
  <2> HIDE DEF U
  <2>1. QED
    BY <1>1, <1>2, Induction
<1>4. \A s \in Seq(S) : Len(s) \in Nat
  BY LenProperties
<1>5. QED
  BY <1>3, <1>4

\* The last item put at the end of the others.
LEMMA FrontLast ==
  ASSUME NEW S, NEW s \in Seq(S), s # <<>>
  PROVE  /\ Front(s) \in Seq(S) /\ Last(s) \in S /\ s = Append(Front(s), Last(s))
         /\ Len(Front(s)) = Len(s) - 1 /\ Len(s) \in Nat \ {0}
         /\ \A i \in 1 .. Len(s) - 1 : Front(s)[i] = s[i]
<1>1. PICK r \in Seq(S), x \in S : s = Append(r, x)
  BY SequenceEmptyOrAppend
<1>2. /\ Len(s) = Len(r) + 1 /\ s[Len(r) + 1] = x /\ Len(r) \in Nat
      /\ \A i \in 1 .. Len(r) : s[i] = r[i]
  BY <1>1, AppendProperties, LenProperties
<1>3. Last(s) = x
  BY <1>2 DEF Last
<1>4. Front(s) = r
  <2>1. \A i \in 1 .. Len(s) - 1 : s[i] \in S
    BY <1>2, ElementOfSeq
  <2>2. /\ SubSeq(s, 1, Len(s) - 1) \in Seq(S)
        /\ Len(SubSeq(s, 1, Len(s) - 1)) = Len(r)
        /\ \A i \in 1 .. Len(r) : SubSeq(s, 1, Len(s) - 1)[i] = r[i]
    <3>1. /\ SubSeq(s, 1, Len(s) - 1) \in Seq(S)
          /\ Len(SubSeq(s, 1, Len(s) - 1)) =
               IF 1 <= Len(s) - 1 THEN Len(s) - 1 - 1 + 1 ELSE 0
          /\ \A i \in 1 .. Len(s) - 1 - 1 + 1 : SubSeq(s, 1, Len(s) - 1)[i] = s[1 + i - 1]
      BY <1>2, <2>1, SubSeqProperties
    <3>2. QED
      BY <3>1, <1>2
  <2>3. QED
    BY <2>2, SeqEqual DEF Front
<1>5. QED
  BY <1>1, <1>2, <1>3, <1>4

\* A beginning of a sequence, and the next item.
LEMMA PrefixAppend ==
  ASSUME NEW S, NEW s \in Seq(S), NEW n \in Nat, n + 1 <= Len(s)
  PROVE  /\ SubSeq(s, 1, n) \in Seq(S) /\ s[n + 1] \in S
         /\ SubSeq(s, 1, n + 1) = Append(SubSeq(s, 1, n), s[n + 1])
<1>1. s[n + 1] \in S
  BY ElementOfSeq, LenProperties
<1>2. \A i \in 1 .. n : s[i] \in S
  BY ElementOfSeq, LenProperties
<1>3. SubSeq(s, 1, n) \in Seq(S)
  BY <1>2, SubSeqProperties
<1>4. 1 \in 1 .. Len(s) /\ n + 1 \in 1 .. Len(s) /\ (n + 1) - 1 = n
  BY LenProperties
<1>5. SubSeq(s, 1, n + 1) = SubSeq(s, 1, (n + 1) - 1) \o <<s[n + 1]>>
  BY <1>4, SubSeqRecursiveSecond
<1>6. QED
  BY <1>1, <1>3, <1>4, <1>5, AppendIsConcat

-----------------------------------------------------------------------------
(* The order, and what is like an item in it *)

\* The order of three items.
LEMMA OrderIs ==
  ASSUME NEW x \in Known, NEW y \in Known, NEW z \in Known
  PROVE  /\ Order(x, y) \in Int /\ Order(y, x) \in Int /\ Order(x, x) = 0
         /\ Order(x, y) = 0 <=> Order(y, x) = 0
         /\ Order(x, y) < 0 <=> Order(y, x) > 0
         /\ Order(x, y) <= 0 /\ Order(y, z) <= 0 => Order(x, z) <= 0
         /\ Order(x, y) < 0 /\ Order(y, z) <= 0 => Order(x, z) < 0
         /\ Order(x, y) <= 0 /\ Order(y, z) < 0 => Order(x, z) < 0
         /\ Order(x, y) = 0 => /\ Order(x, z) = 0 <=> Order(y, z) = 0
                               /\ Order(x, z) < 0 <=> Order(y, z) < 0
                               /\ Order(x, z) > 0 <=> Order(y, z) > 0
<1>1. \A a, b \in Known :
        /\ Order(a, b) \in Int /\ Order(b, a) \in Int
        /\ Order(a, b) < 0 <=> Order(b, a) > 0
        /\ Order(b, a) < 0 <=> Order(a, b) > 0
  BY OrderAssumption
<1>2. \A a, b, c \in Known : Order(a, b) <= 0 /\ Order(b, c) <= 0 => Order(a, c) <= 0
  BY OrderAssumption
<1>3. Order(x, x) = 0
  BY <1>1
<1>4. Order(x, y) = 0 <=> Order(y, x) = 0
  BY <1>1
<1>5. Order(x, y) < 0 /\ Order(y, z) <= 0 => Order(x, z) < 0
  <2> SUFFICES ASSUME Order(x, y) < 0, Order(y, z) <= 0, ~(Order(x, z) < 0) PROVE FALSE
    OBVIOUS
  <2>1. Order(z, x) <= 0
    BY <1>1
  <2>2. Order(y, x) <= 0
    BY <1>2, <2>1
  <2>3. QED
    BY <1>1, <2>2
<1>6. Order(x, y) <= 0 /\ Order(y, z) < 0 => Order(x, z) < 0
  <2> SUFFICES ASSUME Order(x, y) <= 0, Order(y, z) < 0, ~(Order(x, z) < 0) PROVE FALSE
    OBVIOUS
  <2>1. Order(z, x) <= 0
    BY <1>1
  <2>2. Order(z, y) <= 0
    BY <1>2, <2>1
  <2>3. QED
    BY <1>1, <2>2
<1>7. ASSUME Order(x, y) = 0
      PROVE  /\ Order(x, z) <= 0 <=> Order(y, z) <= 0
             /\ Order(z, x) <= 0 <=> Order(z, y) <= 0
  <2>1. Order(x, y) <= 0 /\ Order(y, x) <= 0
    BY <1>4, <1>7, <1>1
  <2>2. QED
    BY <2>1, <1>2
<1>8. ASSUME Order(x, y) = 0
      PROVE  /\ Order(x, z) = 0 <=> Order(y, z) = 0
             /\ Order(x, z) < 0 <=> Order(y, z) < 0
             /\ Order(x, z) > 0 <=> Order(y, z) > 0
  <2>1. Order(x, z) \in Int /\ Order(z, x) \in Int /\ (Order(x, z) < 0 <=> Order(z, x) > 0)
        /\ (Order(z, x) < 0 <=> Order(x, z) > 0)
    BY <1>1
  <2>2. Order(y, z) \in Int /\ Order(z, y) \in Int /\ (Order(y, z) < 0 <=> Order(z, y) > 0)
        /\ (Order(z, y) < 0 <=> Order(y, z) > 0)
    BY <1>1
  <2>3. (Order(x, z) <= 0 <=> Order(y, z) <= 0) /\ (Order(z, x) <= 0 <=> Order(z, y) <= 0)
    BY <1>7, <1>8
  <2>4. QED
    BY <2>1, <2>2, <2>3
<1>9. QED
  BY <1>1, <1>2, <1>3, <1>4, <1>5, <1>6, <1>8

\* What is like an item is a sequence of items.
LEMMA LikeType ==
  ASSUME NEW s \in Seq(Known), NEW x \in Known
  PROVE  Like(s, x) \in Seq(Known)
BY SelectedType DEF Like

\* Nothing is like it in the empty sequence.
LEMMA LikeEmpty == \A x \in Known : Like(<<>>, x) = <<>>
BY SelectedEmpty DEF Like

\* One item more.
LEMMA LikeAppend ==
  ASSUME NEW s \in Seq(Known), NEW y \in Known, NEW x \in Known
  PROVE  Like(Append(s, y), x) = IF Order(y, x) = 0 THEN Append(Like(s, x), y) ELSE Like(s, x)
<1>1. /\ Append(s, y) \in Seq(Known) /\ Len(Append(s, y)) = Len(s) + 1 /\ Len(s) \in Nat
      /\ Append(s, y)[Len(s) + 1] = y /\ DOMAIN s = 1 .. Len(s)
      /\ DOMAIN Append(s, y) = 1 .. Len(s) + 1
      /\ \A i \in 1 .. Len(s) : Append(s, y)[i] = s[i]
  BY AppendProperties, LenProperties
<1>2. \A i \in 1 .. Len(s) : i \in Places(s, x) <=> i \in Places(Append(s, y), x)
  BY <1>1 DEF Places
<1>3. Len(s) + 1 \in Places(Append(s, y), x) <=> Order(y, x) = 0
  BY <1>1 DEF Places
<1>4. Selected(Append(s, y), Places(Append(s, y), x)) =
        IF Len(s) + 1 \in Places(Append(s, y), x)
        THEN Append(Selected(s, Places(s, x)), y) ELSE Selected(s, Places(s, x))
  BY <1>2, SelectedAppend
<1>5. QED
  BY <1>3, <1>4 DEF Like

\* Of one sequence behind another.
LEMMA LikeConcat ==
  ASSUME NEW s \in Seq(Known), NEW t \in Seq(Known), NEW x \in Known
  PROVE  Like(s \o t, x) = Like(s, x) \o Like(t, x)
<1> DEFINE T == {u \in Seq(Known) : Like(s \o u, x) = Like(s, x) \o Like(u, x)}
<1>1. <<>> \in T
  <2>1. Like(s, x) \in Seq(Known) /\ <<>> \in Seq(Known)
    BY LikeType, EmptySeq
  <2>2. s \o <<>> = s /\ Like(s, x) \o <<>> = Like(s, x)
    BY <2>1, ConcatEmptySeq
  <2>3. QED
    BY <2>1, <2>2, LikeEmpty
<1>2. ASSUME NEW u \in Seq(Known), NEW y \in Known, u \in T PROVE Append(u, y) \in T
  <2>1. s \o u \in Seq(Known) /\ Append(u, y) \in Seq(Known)
    BY ConcatProperties, AppendProperties
  <2>2. <<y>> \in Seq(Known) /\ Append(u, y) = u \o <<y>>
        /\ Append(s \o u, y) = (s \o u) \o <<y>>
    BY <2>1, AppendIsConcat
  <2>3. s \o Append(u, y) = Append(s \o u, y)
    BY <2>2, ConcatAssociative
  <2>4. Like(s, x) \in Seq(Known) /\ Like(u, x) \in Seq(Known)
        /\ Like(s, x) \o Like(u, x) \in Seq(Known)
    BY LikeType, ConcatProperties
  <2>5. Append(Like(s, x) \o Like(u, x), y) = (Like(s, x) \o Like(u, x)) \o <<y>>
        /\ Append(Like(u, x), y) = Like(u, x) \o <<y>>
    BY <2>4, AppendIsConcat
  <2>6. Append(Like(s, x) \o Like(u, x), y) = Like(s, x) \o Append(Like(u, x), y)
    <3>1. PICK p \in Seq(Known), q \in Seq(Known), e \in Seq(Known) :
            p = Like(s, x) /\ q = Like(u, x) /\ e = <<y>>
      BY <2>2, <2>4
    <3>2. (p \o q) \o e = p \o (q \o e)
      BY SMTT(30), <3>1, ConcatAssociative
    <3>3. QED
      BY <2>5, <3>1, <3>2
  <2>7. Like(Append(s \o u, y), x) =
          IF Order(y, x) = 0 THEN Append(Like(s \o u, x), y) ELSE Like(s \o u, x)
    BY <2>1, LikeAppend
  <2>8. Like(Append(u, y), x) =
          IF Order(y, x) = 0 THEN Append(Like(u, x), y) ELSE Like(u, x)
    BY LikeAppend
  <2>9. QED
    BY <1>2, <2>1, <2>3, <2>6, <2>7, <2>8
<1>3. Seq(Known) \subseteq T
  <2> HIDE DEF T
  <2>1. QED
    BY <1>1, <1>2, SeqInduction
<1>4. QED
  BY <1>3

\* Of one item.
LEMMA LikeOne ==
  ASSUME NEW y \in Known, NEW x \in Known
  PROVE  Like(<<y>>, x) = IF Order(y, x) = 0 THEN <<y>> ELSE <<>>
<1>1. <<>> \in Seq(Known) /\ Append(<<>>, y) = <<y>>
  BY EmptySeq
<1>2. Like(Append(<<>>, y), x) =
        IF Order(y, x) = 0 THEN Append(Like(<<>>, x), y) ELSE Like(<<>>, x)
  BY <1>1, LikeAppend
<1>3. QED
  BY <1>1, <1>2, LikeEmpty

\* There is something like x exactly when there is a place of one.
LEMMA LikeNone ==
  ASSUME NEW s \in Seq(Known), NEW x \in Known
  PROVE  Like(s, x) = <<>> <=> Places(s, x) = {}
<1> DEFINE T == {u \in Seq(Known) : Like(u, x) = <<>> <=> Places(u, x) = {}}
<1>1. <<>> \in T
  BY EmptySeq, LikeEmpty DEF Places
<1>2. ASSUME NEW u \in Seq(Known), NEW y \in Known, u \in T PROVE Append(u, y) \in T
  <2>1. /\ Append(u, y) \in Seq(Known) /\ Len(Append(u, y)) = Len(u) + 1 /\ Len(u) \in Nat
        /\ Append(u, y)[Len(u) + 1] = y /\ DOMAIN u = 1 .. Len(u)
        /\ DOMAIN Append(u, y) = 1 .. Len(u) + 1
        /\ \A i \in 1 .. Len(u) : Append(u, y)[i] = u[i]
    BY AppendProperties, LenProperties
  <2>2. Like(Append(u, y), x) =
          IF Order(y, x) = 0 THEN Append(Like(u, x), y) ELSE Like(u, x)
    BY LikeAppend
  <2>3. CASE Order(y, x) = 0
    <3>1. Len(u) + 1 \in Places(Append(u, y), x)
      BY <2>1, <2>3 DEF Places
    <3>2. Like(u, x) \in Seq(Known)
      BY LikeType
    <3>3. Append(Like(u, x), y) # <<>>
      BY <3>2, AppendProperties
    <3>4. QED
      BY <2>1, <2>2, <2>3, <3>1, <3>3
  <2>4. CASE Order(y, x) # 0
    <3>1. Places(Append(u, y), x) = Places(u, x)
      BY <2>1, <2>4 DEF Places
    <3>2. QED
      BY <1>2, <2>1, <2>2, <2>4, <3>1
  <2>5. QED
    BY <2>3, <2>4
<1>3. Seq(Known) \subseteq T
  <2> HIDE DEF T
  <2>1. QED
    BY <1>1, <1>2, SeqInduction
<1>4. QED
  BY <1>3

\* All of a sequence is like x when every item is.
LEMMA LikeAll ==
  ASSUME NEW s \in Seq(Known), NEW x \in Known, \A i \in DOMAIN s : Order(s[i], x) = 0
  PROVE  Like(s, x) = s
<1> DEFINE T == {u \in Seq(Known) : (\A i \in DOMAIN u : Order(u[i], x) = 0) => Like(u, x) = u}
<1>1. <<>> \in T
  BY EmptySeq, LikeEmpty
<1>2. ASSUME NEW u \in Seq(Known), NEW y \in Known, u \in T PROVE Append(u, y) \in T
  <2>1. /\ Append(u, y) \in Seq(Known) /\ Len(u) \in Nat
        /\ Append(u, y)[Len(u) + 1] = y /\ DOMAIN u = 1 .. Len(u)
        /\ DOMAIN Append(u, y) = 1 .. Len(u) + 1
        /\ \A i \in 1 .. Len(u) : Append(u, y)[i] = u[i]
    BY AppendProperties, LenProperties
  <2>2. Like(Append(u, y), x) =
          IF Order(y, x) = 0 THEN Append(Like(u, x), y) ELSE Like(u, x)
    BY LikeAppend
  <2>3. ASSUME \A i \in DOMAIN Append(u, y) : Order(Append(u, y)[i], x) = 0
        PROVE  Like(Append(u, y), x) = Append(u, y)
    <3>1. Order(y, x) = 0
      BY <2>1, <2>3
    <3>2. \A i \in DOMAIN u : Order(u[i], x) = 0
      BY <2>1, <2>3
    <3>3. QED
      BY <1>2, <2>2, <3>1, <3>2
  <2>4. QED
    BY <2>1, <2>3
<1>3. Seq(Known) \subseteq T
  <2> HIDE DEF T
  <2>1. QED
    BY <1>1, <1>2, SeqInduction
<1>4. QED
  BY <1>3

-----------------------------------------------------------------------------
(* Recursion over the positions *)

\* f begins with x and takes a step at each position up to n.
Loops(f, n, x, step) == f[0] = x /\ \A i \in 1 .. n : f[i] = step[<<i, f[i - 1]>>]

\* A step that takes an item at a time defines a function of the positions.
LEMMA LoopExists ==
  ASSUME NEW n \in Nat, NEW V, NEW x \in V, NEW step \in [(1 .. n) \X V -> V]
  PROVE  \E f \in [0 .. n -> V] : Loops(f, n, x, step)
<1> DEFINE next == [p \in Nat \X V |-> IF p[1] + 1 \in 1 .. n THEN step[<<p[1] + 1, p[2]>>] ELSE x]
<1>1. next \in [Nat \X V -> V]
  <2> SUFFICES ASSUME NEW i \in Nat, NEW v \in V
               PROVE  (IF i + 1 \in 1 .. n THEN step[<<i + 1, v>>] ELSE x) \in V
    OBVIOUS
  <2>1. i + 1 \in 1 .. n => step[<<i + 1, v>>] \in V
    OBVIOUS
  <2>2. QED
    BY <2>1
<1>2. \A i \in Nat, v \in V : i + 1 \in 1 .. n => next[<<i, v>>] = step[<<i + 1, v>>]
  OBVIOUS
<1> HIDE DEF next
<1>3. PICK f \in [0 .. n -> V] : Follows(f, n, x, next)
  BY <1>1, FollowsExists
<1>4. ASSUME NEW i \in 1 .. n PROVE f[i] = step[<<i, f[i - 1]>>]
  <2>1. PICK j \in 0 .. n - 1 : i = j + 1
    OBVIOUS
  <2>2. f[j + 1] = next[<<j, f[j]>>] /\ f[j] \in V /\ j \in Nat /\ j + 1 \in 1 .. n
    BY <1>3, <2>1 DEF Follows
  <2>3. i - 1 = j
    BY <2>1
  <2>4. QED
    BY <2>1, <2>2, <2>3, <1>2
<1>5. f[0] = x
  BY <1>3 DEF Follows
<1>6. QED
  BY <1>3, <1>4, <1>5 DEF Loops

-----------------------------------------------------------------------------
(* Sort *)

\* No item of u comes behind one of v.
Below(u, v) == \A i \in DOMAIN u, j \in DOMAIN v : Order(u[i], v[j]) <= 0

\* Two sequences in order, one below the other.
LEMMA AscendingConcat ==
  ASSUME NEW u \in Seq(Known), NEW v \in Seq(Known)
  PROVE  Ascending(u \o v) <=> Ascending(u) /\ Ascending(v) /\ Below(u, v)
<1>1. PICK m \in Nat, n \in Nat : m = Len(u) /\ n = Len(v)
  BY LenProperties
<1>2. /\ DOMAIN u = 1 .. m /\ DOMAIN v = 1 .. n /\ DOMAIN (u \o v) = 1 .. m + n
      /\ \A i \in 1 .. m + n : (u \o v)[i] = IF i <= m THEN u[i] ELSE v[i - m]
  BY <1>1, LenProperties, ConcatProperties
<1>3. ASSUME Ascending(u \o v) PROVE Ascending(u) /\ Ascending(v) /\ Below(u, v)
  <2>1. ASSUME NEW i \in 1 .. m, NEW j \in 1 .. m, i < j PROVE Order(u[i], u[j]) <= 0
    <3>1. i \in 1 .. m + n /\ j \in 1 .. m + n /\ (u \o v)[i] = u[i] /\ (u \o v)[j] = u[j]
      BY <1>2
    <3>2. QED
      BY <1>2, <1>3, <2>1, <3>1 DEF Ascending
  <2>2. ASSUME NEW i \in 1 .. n, NEW j \in 1 .. n, i < j PROVE Order(v[i], v[j]) <= 0
    <3>1. m + i \in 1 .. m + n /\ m + j \in 1 .. m + n /\ m + i < m + j
          /\ (u \o v)[m + i] = v[i] /\ (u \o v)[m + j] = v[j]
      <4>1. ASSUME NEW k \in 1 .. n PROVE m + k \in 1 .. m + n /\ (u \o v)[m + k] = v[k]
        <5>1. m + k \in 1 .. m + n /\ ~(m + k <= m) /\ (m + k) - m = k
          OBVIOUS
        <5>2. QED
          BY <5>1, <1>2
      <4>2. m + i < m + j
        BY <2>2
      <4>3. QED
        BY <4>1, <4>2
    <3>2. QED
      BY <1>2, <1>3, <3>1 DEF Ascending
  <2>3. ASSUME NEW i \in 1 .. m, NEW j \in 1 .. n PROVE Order(u[i], v[j]) <= 0
    <3>1. i \in 1 .. m + n /\ m + j \in 1 .. m + n /\ i < m + j /\ ~(m + j <= m)
          /\ (m + j) - m = j
      OBVIOUS
    <3>2. (u \o v)[i] = u[i] /\ (u \o v)[m + j] = v[j]
      BY <1>2, <3>1
    <3>3. QED
      BY <1>2, <1>3, <3>1, <3>2 DEF Ascending
  <2>4. QED
    BY <1>2, <2>1, <2>2, <2>3 DEF Ascending, Below
<1>4. ASSUME Ascending(u), Ascending(v), Below(u, v) PROVE Ascending(u \o v)
  <2> SUFFICES ASSUME NEW i \in 1 .. m + n, NEW j \in 1 .. m + n, i < j
               PROVE  Order((u \o v)[i], (u \o v)[j]) <= 0
    BY <1>2 DEF Ascending
  <2>1. CASE j <= m
    <3>1. i \in 1 .. m /\ j \in 1 .. m /\ i <= m
      BY <2>1
    <3>2. (u \o v)[i] = u[i] /\ (u \o v)[j] = u[j]
      BY <1>2, <3>1, <2>1
    <3>3. QED
      BY <1>2, <1>4, <3>1, <3>2 DEF Ascending
  <2>2. CASE ~(j <= m) /\ i <= m
    <3>1. i \in 1 .. m /\ j - m \in 1 .. n
      BY <2>2
    <3>2. (u \o v)[i] = u[i] /\ (u \o v)[j] = v[j - m]
      BY <1>2, <2>2
    <3>3. QED
      BY <1>2, <1>4, <3>1, <3>2 DEF Below
  <2>3. CASE ~(i <= m)
    <3>1. i - m \in 1 .. n /\ j - m \in 1 .. n /\ i - m < j - m /\ ~(j <= m)
      BY <2>3
    <3>2. (u \o v)[i] = v[i - m] /\ (u \o v)[j] = v[j - m]
      BY <1>2, <2>3, <3>1
    <3>3. QED
      BY <1>2, <1>4, <3>1, <3>2 DEF Ascending
  <2>4. QED
    BY <2>1, <2>2, <2>3
<1>5. QED
  BY <1>3, <1>4

\* One sequence is below two, and two below one, when they are below each.
LEMMA BelowConcat ==
  ASSUME NEW u \in Seq(Known), NEW v \in Seq(Known), NEW w \in Seq(Known)
  PROVE  /\ Below(u \o v, w) <=> Below(u, w) /\ Below(v, w)
         /\ Below(w, u \o v) <=> Below(w, u) /\ Below(w, v)
<1>1. PICK m \in Nat, n \in Nat : m = Len(u) /\ n = Len(v)
  BY LenProperties
<1>2. /\ DOMAIN u = 1 .. m /\ DOMAIN v = 1 .. n /\ DOMAIN (u \o v) = 1 .. m + n
      /\ \A i \in 1 .. m + n : (u \o v)[i] = IF i <= m THEN u[i] ELSE v[i - m]
  BY <1>1, LenProperties, ConcatProperties
<1>3. \A i \in 1 .. m : i \in 1 .. m + n /\ (u \o v)[i] = u[i]
  BY <1>2
<1>4. ASSUME NEW i \in 1 .. n PROVE m + i \in 1 .. m + n /\ (u \o v)[m + i] = v[i]
  <2>1. m + i \in 1 .. m + n /\ ~(m + i <= m) /\ (m + i) - m = i
    OBVIOUS
  <2>2. QED
    BY <2>1, <1>2
<1>5. ASSUME NEW k \in 1 .. m + n
      PROVE  \/ k \in 1 .. m /\ (u \o v)[k] = u[k]
             \/ k - m \in 1 .. n /\ (u \o v)[k] = v[k - m]
  <2>1. (k \in 1 .. m /\ k <= m) \/ (k - m \in 1 .. n /\ ~(k <= m))
    OBVIOUS
  <2>2. QED
    BY <2>1, <1>2
<1>6. Below(u \o v, w) <=> Below(u, w) /\ Below(v, w)
  BY <1>2, <1>3, <1>4, <1>5 DEF Below
<1>7. Below(w, u \o v) <=> Below(w, u) /\ Below(w, v)
  BY <1>2, <1>3, <1>4, <1>5 DEF Below
<1>8. QED
  BY <1>6, <1>7

\* An item alone is in order.
LEMMA AscendingOne == \A x \in Known : Ascending(<<x>>)
<1> SUFFICES ASSUME NEW x \in Known PROVE Ascending(<<x>>)
  OBVIOUS
<1>1. DOMAIN <<x>> = {1}
  OBVIOUS
<1>2. QED
  BY <1>1 DEF Ascending

\* Where sort puts an item: behind those that are not greater and, in a sequence
\* that is in order, before those that are.
LEMMA SortedInIs ==
  ASSUME NEW r \in Seq(Known), NEW x \in Known
  PROVE  \E a \in Seq(Known), b \in Seq(Known) :
           /\ r = a \o b /\ SortedIn(r, x) = (a \o <<x>>) \o b
           /\ \A i \in DOMAIN a : Order(a[i], x) <= 0
           /\ Ascending(r) => \A i \in DOMAIN b : Order(b[i], x) > 0
<1>1. PICK n \in Nat : n = Len(r) /\ DOMAIN r = 1 .. n
  BY LenProperties
<1> DEFINE T == {i \in DOMAIN r : Order(r[i], x) > 0} \cup {Len(r) + 1}
<1>2. T \subseteq Nat /\ T # {} /\ T \subseteq 1 .. n + 1
  BY <1>1
<1>3. PICK p \in 1 .. n + 1 : p = Min(T) /\ p \in T /\ \A i \in T : p <= i
  <2> HIDE DEF T
  <2>1. Min(T) \in T /\ \A i \in T : Min(T) <= i
    BY <1>2, MinIs
  <2>2. QED
    BY <2>1, <1>2
<1>4. PICK a, b : a = SubSeq(r, 1, p - 1) /\ b = SubSeq(r, p, Len(r))
  OBVIOUS
<1>5. SortedIn(r, x) = (a \o <<x>>) \o b
  BY <1>3, <1>4 DEF SortedIn, InsertAt
<1>6. \A i \in 1 .. n : r[i] \in Known
  BY <1>1, ElementOfSeq
<1>7. /\ a \in Seq(Known) /\ Len(a) = p - 1
      /\ \A i \in 1 .. p - 1 : a[i] = r[i]
  <2>1. p - 1 \in Int /\ 1 \in Int /\ \A i \in 1 .. p - 1 : r[i] \in Known
    BY <1>6
  <2>2. /\ SubSeq(r, 1, p - 1) \in Seq(Known)
        /\ Len(SubSeq(r, 1, p - 1)) = IF 1 <= p - 1 THEN p - 1 - 1 + 1 ELSE 0
        /\ \A i \in 1 .. p - 1 - 1 + 1 : SubSeq(r, 1, p - 1)[i] = r[1 + i - 1]
    BY <2>1, SubSeqProperties
  <2>3. QED
    BY <1>4, <2>2
<1>8. /\ b \in Seq(Known) /\ Len(b) = n + 1 - p
      /\ \A i \in 1 .. n + 1 - p : b[i] = r[p - 1 + i]
  <2>1. p \in Int /\ n \in Int /\ \A i \in p .. n : r[i] \in Known
    BY <1>6
  <2>2. /\ SubSeq(r, p, n) \in Seq(Known)
        /\ Len(SubSeq(r, p, n)) = IF p <= n THEN n - p + 1 ELSE 0
        /\ \A i \in 1 .. n - p + 1 : SubSeq(r, p, n)[i] = r[p + i - 1]
    BY <2>1, SubSeqProperties
  <2>3. QED
    BY <1>1, <1>4, <2>2
<1>9. r = a \o b
  <2>1. 1 \in 1 .. Len(r) + 1 /\ p - 1 \in 1 - 1 .. Len(r) /\ Len(r) \in p - 1 .. Len(r)
        /\ (p - 1) + 1 = p
    BY <1>1
  <2>2. SubSeq(r, 1, p - 1) \o SubSeq(r, (p - 1) + 1, Len(r)) = SubSeq(r, 1, Len(r))
    BY <2>1, ConcatAdjacentSubSeq
  <2>3. QED
    BY <2>1, <2>2, <1>4, SubSeqFull
<1>10. ASSUME NEW i \in DOMAIN a PROVE Order(a[i], x) <= 0
  <2>1. i \in 1 .. p - 1 /\ i \in 1 .. n
    BY <1>7, LenProperties
  <2>2. ~(p <= i)
    BY <2>1
  <2>3. i \notin T
    BY <2>2, <1>3
  <2>4. ~(Order(r[i], x) > 0)
    BY <2>3, <2>1, <1>1
  <2>5. Order(r[i], x) \in Int
    BY <2>1, <1>6, OrderIs
  <2>6. QED
    BY <2>1, <2>4, <2>5, <1>7
<1>11. ASSUME Ascending(r), NEW i \in DOMAIN b PROVE Order(b[i], x) > 0
  <2>1. i \in 1 .. n + 1 - p /\ b[i] = r[p - 1 + i]
    BY <1>8, LenProperties
  <2>2. PICK j \in 1 .. n : j = p - 1 + i /\ p <= j /\ p \in 1 .. n
    BY <2>1
  <2>3. p # Len(r) + 1 /\ Order(r[p], x) > 0
    BY <1>1, <1>3, <2>2
  <2>4. Order(r[p], r[j]) <= 0
    <3>1. CASE p = j
      BY <3>1, <1>6, OrderIs
    <3>2. CASE p < j
      BY <3>2, <2>2, <1>1, <1>11 DEF Ascending
    <3>3. QED
      BY <3>1, <3>2, <2>2
  <2>5. r[p] \in Known /\ r[j] \in Known
    BY <2>2, <1>6
  <2>6. Order(x, r[p]) < 0
    BY <2>3, <2>5, OrderIs
  <2>7. Order(x, r[j]) < 0
    BY <2>4, <2>5, <2>6, OrderIs
  <2>8. QED
    BY <2>1, <2>2, <2>5, <2>7, OrderIs
<1>12. QED
  BY <1>5, <1>7, <1>8, <1>9, <1>10, <1>11

\* sort, item by item.
LEMMA SortIs ==
  ASSUME NEW s \in Seq(Known)
  PROVE  \E f : /\ f[0] = <<>> /\ \A i \in 1 .. Len(s) : f[i] = SortedIn(f[i - 1], s[i])
                /\ Sort(s) = f[Len(s)]
<1>1. PICK n \in Nat : n = Len(s)
  BY LenProperties
<1> DEFINE sorted == CHOOSE sorted : sorted = [i \in 0 .. Len(s) |->
             IF i = 0 THEN <<>> ELSE SortedIn(sorted[i - 1], s[i])]
           step == [p \in (1 .. n) \X Seq(Known) |-> SortedIn(p[2], s[p[1]])]
<1>2. Sort(s) = sorted[Len(s)]
  BY DEF Sort
<1>3. step \in [(1 .. n) \X Seq(Known) -> Seq(Known)]
  <2> SUFFICES ASSUME NEW i \in 1 .. n, NEW r \in Seq(Known) PROVE SortedIn(r, s[i]) \in Seq(Known)
    OBVIOUS
  <2>1. s[i] \in Known
    BY <1>1, ElementOfSeq
  <2>2. PICK a \in Seq(Known), b \in Seq(Known) :
          /\ r = a \o b /\ SortedIn(r, s[i]) = (a \o <<s[i]>>) \o b
          /\ \A k \in DOMAIN a : Order(a[k], s[i]) <= 0
          /\ Ascending(r) => \A k \in DOMAIN b : Order(b[k], s[i]) > 0
    BY <2>1, SortedInIs
  <2>3. <<s[i]>> \in Seq(Known)
    BY <2>1
  <2>4. a \o <<s[i]>> \in Seq(Known)
    BY <2>3, ConcatProperties
  <2>5. QED
    BY <2>2, <2>4, ConcatProperties
<1>4. \A i \in 1 .. n, r \in Seq(Known) : step[<<i, r>>] = SortedIn(r, s[i])
  OBVIOUS
<1> HIDE DEF step, sorted
<1>5. <<>> \in Seq(Known)
  BY EmptySeq
<1>6. PICK f \in [0 .. n -> Seq(Known)] : Loops(f, n, <<>>, step)
  BY <1>3, <1>5, LoopExists
<1>7. f = [i \in 0 .. Len(s) |-> IF i = 0 THEN <<>> ELSE SortedIn(f[i - 1], s[i])]
  <2>1. ASSUME NEW i \in 0 .. n
        PROVE  f[i] = IF i = 0 THEN <<>> ELSE SortedIn(f[i - 1], s[i])
    <3>1. i # 0 => i \in 1 .. n /\ i - 1 \in 0 .. n
      OBVIOUS
    <3>2. i # 0 => f[i - 1] \in Seq(Known)
      BY <3>1, <1>6
    <3>3. QED
      BY <3>1, <3>2, <1>4, <1>6 DEF Loops
  <2>2. f = [i \in 0 .. n |-> f[i]]
    BY <1>6
  <2>3. QED
    BY <2>1, <2>2, <1>1
<1>8. sorted = [i \in 0 .. Len(s) |-> IF i = 0 THEN <<>> ELSE SortedIn(sorted[i - 1], s[i])]
  BY <1>7 DEF sorted
<1>9. \A i \in 0 .. n : sorted[i] = IF i = 0 THEN <<>> ELSE SortedIn(sorted[i - 1], s[i])
  BY <1>1, <1>8
<1>10. sorted[0] = <<>> /\ \A i \in 1 .. Len(s) : sorted[i] = SortedIn(sorted[i - 1], s[i])
  BY <1>1, <1>9
<1>11. QED
  BY <1>2, <1>10

\* What is like x when an item is put where sort puts it.
LEMMA SortedInLike ==
  ASSUME NEW r \in Seq(Known), NEW y \in Known, Ascending(r), NEW x \in Known
  PROVE  /\ SortedIn(r, y) \in Seq(Known) /\ Ascending(SortedIn(r, y))
         /\ Like(SortedIn(r, y), x) = IF Order(y, x) = 0 THEN Append(Like(r, x), y) ELSE Like(r, x)
<1>1. PICK a \in Seq(Known), b \in Seq(Known) :
        /\ r = a \o b /\ SortedIn(r, y) = (a \o <<y>>) \o b
        /\ \A i \in DOMAIN a : Order(a[i], y) <= 0
        /\ \A i \in DOMAIN b : Order(b[i], y) > 0
  BY SortedInIs
<1>2. <<y>> \in Seq(Known) /\ DOMAIN <<y>> = {1}
  OBVIOUS
<1>3. a \o <<y>> \in Seq(Known)
  BY <1>2, ConcatProperties
<1>4. SortedIn(r, y) \in Seq(Known)
  BY <1>1, <1>3, ConcatProperties
<1>5. /\ \A i \in DOMAIN a : a[i] \in Known
      /\ \A i \in DOMAIN b : b[i] \in Known
  BY ElementOfSeq, LenProperties
<1>6. Ascending(a) /\ Ascending(b) /\ Below(a, b)
  BY <1>1, AscendingConcat
<1>7. Below(a, <<y>>) /\ Below(<<y>>, b)
  <2>1. Below(a, <<y>>)
    BY <1>1, <1>2 DEF Below
  <2>2. \A i \in DOMAIN b : Order(y, b[i]) < 0
    BY <1>1, <1>5, OrderIs
  <2>3. \A i \in DOMAIN b : Order(y, b[i]) <= 0
    BY <2>2, <1>5, OrderIs
  <2>4. QED
    BY <2>1, <2>3, <1>2 DEF Below
<1>8. Ascending(SortedIn(r, y))
  <2>1. Ascending(a \o <<y>>)
    BY <1>2, <1>6, <1>7, AscendingOne, AscendingConcat
  <2>2. Below(a \o <<y>>, b)
    BY <1>2, <1>6, <1>7, BelowConcat
  <2>3. Ascending((a \o <<y>>) \o b)
    BY <1>3, <1>6, <2>1, <2>2, AscendingConcat
  <2>4. QED
    BY <1>1, <2>3
<1>9. PICK la \in Seq(Known), lb \in Seq(Known) : la = Like(a, x) /\ lb = Like(b, x)
  BY LikeType
<1>10. \A u, v \in Seq(Known) : Like(u \o v, x) = Like(u, x) \o Like(v, x)
  BY ZenonT(60), LikeConcat
<1>11. /\ Like(r, x) = la \o lb
       /\ Like(SortedIn(r, y), x) = (la \o Like(<<y>>, x)) \o lb
  <2>1. Like(a \o b, x) = la \o lb
    BY <1>1, <1>9, <1>10
  <2>2. Like((a \o <<y>>) \o b, x) = Like(a \o <<y>>, x) \o lb
    BY <1>3, <1>9, <1>10
  <2>3. Like(a \o <<y>>, x) = la \o Like(<<y>>, x)
    BY <1>2, <1>9, <1>10
  <2>4. QED
    BY <2>1, <2>2, <2>3, <1>1
<1>12. CASE Order(y, x) = 0
  <2>1. ASSUME NEW i \in DOMAIN b PROVE Order(b[i], x) # 0
    <3>1. Order(b[i], y) > 0 /\ b[i] \in Known
      BY <1>1, <1>5
    <3>2. Order(y, b[i]) < 0 <=> Order(b[i], y) > 0
      BY <3>1, OrderIs
    <3>3. Order(x, y) = 0
      BY <1>12, OrderIs
    <3>4. Order(x, b[i]) < 0
      BY <3>1, <3>2, <3>3, OrderIs
    <3>5. Order(b[i], x) > 0
      BY <3>1, <3>4, OrderIs
    <3>6. QED
      BY <3>5
  <2>2. lb = <<>>
    BY <2>1, <1>9, LikeNone DEF Places
  <2>3. la \o <<y>> \in Seq(Known) /\ la \o <<>> = la
        /\ (la \o <<y>>) \o <<>> = la \o <<y>>
    BY <1>2, ConcatProperties, ConcatEmptySeq
  <2>4. Append(la, y) = la \o <<y>>
    BY AppendIsConcat
  <2>5. Like(<<y>>, x) = <<y>>
    BY <1>12, LikeOne
  <2>6. QED
    BY <1>4, <1>8, <1>11, <1>12, <2>2, <2>3, <2>4, <2>5
<1>13. CASE Order(y, x) # 0
  <2>1. Like(<<y>>, x) = <<>>
    BY <1>13, LikeOne
  <2>2. la \o <<>> = la
    BY ConcatEmptySeq
  <2>3. QED
    BY <1>4, <1>8, <1>11, <1>13, <2>1, <2>2
<1>14. QED
  BY <1>12, <1>13

\* sort puts items in order and is stable: what is like any item is what it was,
\* in the order it was in.
LEMMA Sorts ==
  ASSUME NEW s \in Seq(Known)
  PROVE  /\ Sort(s) \in Seq(Known) /\ Ascending(Sort(s))
         /\ \A x \in Known : Like(Sort(s), x) = Like(s, x)
<1>1. PICK f : /\ f[0] = <<>> /\ \A i \in 1 .. Len(s) : f[i] = SortedIn(f[i - 1], s[i])
               /\ Sort(s) = f[Len(s)]
  BY SortIs
<1>2. PICK m \in Nat : m = Len(s)
  BY LenProperties
<1> DEFINE Right(n) == /\ f[n] \in Seq(Known) /\ Ascending(f[n])
                       /\ \A x \in Known : Like(f[n], x) = Like(SubSeq(s, 1, n), x)
           T == {n \in Nat : n <= m => Right(n)}
<1>3. 0 \in T
  <2>1. SubSeq(s, 1, 0) = <<>>
    BY SubSeqEmpty
  <2>2. <<>> \in Seq(Known) /\ DOMAIN <<>> = {}
    BY EmptySeq
  <2>3. Ascending(<<>>)
    BY <2>2 DEF Ascending
  <2>4. QED
    BY <1>1, <2>1, <2>2, <2>3
<1>4. ASSUME NEW n \in Nat, n \in T PROVE n + 1 \in T
  <2> SUFFICES ASSUME n + 1 <= m PROVE Right(n + 1)
    OBVIOUS
  <2>1. Right(n)
    BY <1>4
  <2>2. /\ SubSeq(s, 1, n) \in Seq(Known) /\ s[n + 1] \in Known
        /\ SubSeq(s, 1, n + 1) = Append(SubSeq(s, 1, n), s[n + 1])
    BY <1>2, PrefixAppend
  <2>3. f[n + 1] = SortedIn(f[n], s[n + 1])
    <3>1. n + 1 \in 1 .. Len(s) /\ (n + 1) - 1 = n
      BY <1>2
    <3>2. QED
      BY <3>1, <1>1
  <2>4. ASSUME NEW x \in Known
        PROVE  /\ f[n + 1] \in Seq(Known) /\ Ascending(f[n + 1])
               /\ Like(f[n + 1], x) = Like(SubSeq(s, 1, n + 1), x)
    <3>1. /\ SortedIn(f[n], s[n + 1]) \in Seq(Known) /\ Ascending(SortedIn(f[n], s[n + 1]))
          /\ Like(SortedIn(f[n], s[n + 1]), x) =
               IF Order(s[n + 1], x) = 0 THEN Append(Like(f[n], x), s[n + 1]) ELSE Like(f[n], x)
      BY <2>1, <2>2, SortedInLike
    <3>2. Like(Append(SubSeq(s, 1, n), s[n + 1]), x) =
            IF Order(s[n + 1], x) = 0 THEN Append(Like(SubSeq(s, 1, n), x), s[n + 1])
            ELSE Like(SubSeq(s, 1, n), x)
      BY <2>2, LikeAppend
    <3>3. QED
      BY <2>1, <2>2, <2>3, <3>1, <3>2
  <2>5. QED
    BY <2>2, <2>4
<1>5. Nat \subseteq T
  <2> HIDE DEF T
  <2>1. QED
    BY <1>3, <1>4, Induction
<1>6. Right(m)
  BY <1>5
<1>7. SubSeq(s, 1, m) = s
  BY <1>2, SubSeqFull
<1>8. QED
  BY <1>1, <1>2, <1>6, <1>7

-----------------------------------------------------------------------------
(* Uniq *)

\* What uniq does with the next item.
Kept(r, x) == IF r # <<>> /\ Order(Last(r), x) = 0 THEN r ELSE Append(r, x)

\* uniq, item by item.
LEMMA UniqIs ==
  ASSUME NEW s \in Seq(Known)
  PROVE  \E f : /\ f[0] = <<>> /\ \A i \in 1 .. Len(s) : f[i] = Kept(f[i - 1], s[i])
                /\ Uniq(s) = f[Len(s)]
<1>1. PICK n \in Nat : n = Len(s)
  BY LenProperties
<1> DEFINE uniq == CHOOSE uniq : uniq = [i \in 0 .. Len(s) |->
             IF i = 0 THEN <<>>
             ELSE LET r == uniq[i - 1]
                  IN IF r # <<>> /\ Order(Last(r), s[i]) = 0 THEN r ELSE Append(r, s[i])]
           step == [p \in (1 .. n) \X Seq(Known) |-> Kept(p[2], s[p[1]])]
<1>2. Uniq(s) = uniq[Len(s)]
  BY DEF Uniq
<1>3. step \in [(1 .. n) \X Seq(Known) -> Seq(Known)]
  <2> SUFFICES ASSUME NEW i \in 1 .. n, NEW r \in Seq(Known) PROVE Kept(r, s[i]) \in Seq(Known)
    OBVIOUS
  <2>1. s[i] \in Known
    BY <1>1, ElementOfSeq
  <2>2. Append(r, s[i]) \in Seq(Known)
    BY <2>1, AppendProperties
  <2>3. QED
    BY <2>2 DEF Kept
<1>4. \A i \in 1 .. n, r \in Seq(Known) : step[<<i, r>>] = Kept(r, s[i])
  OBVIOUS
<1> HIDE DEF step, uniq
<1>5. <<>> \in Seq(Known)
  BY EmptySeq
<1>6. PICK f \in [0 .. n -> Seq(Known)] : Loops(f, n, <<>>, step)
  BY <1>3, <1>5, LoopExists
<1>7. f = [i \in 0 .. Len(s) |-> IF i = 0 THEN <<>> ELSE Kept(f[i - 1], s[i])]
  <2>1. ASSUME NEW i \in 0 .. n
        PROVE  f[i] = IF i = 0 THEN <<>> ELSE Kept(f[i - 1], s[i])
    <3>1. i # 0 => i \in 1 .. n /\ i - 1 \in 0 .. n
      OBVIOUS
    <3>2. i # 0 => f[i - 1] \in Seq(Known)
      BY <3>1, <1>6
    <3>3. QED
      BY <3>1, <3>2, <1>4, <1>6 DEF Loops
  <2>2. f = [i \in 0 .. n |-> f[i]]
    BY <1>6
  <2>3. QED
    BY <2>1, <2>2, <1>1
<1>8. uniq = [i \in 0 .. Len(s) |-> IF i = 0 THEN <<>> ELSE Kept(uniq[i - 1], s[i])]
  BY <1>7 DEF uniq, Kept
<1>9. \A i \in 0 .. n : uniq[i] = IF i = 0 THEN <<>> ELSE Kept(uniq[i - 1], s[i])
  BY <1>1, <1>8
<1>10. uniq[0] = <<>> /\ \A i \in 1 .. Len(s) : uniq[i] = Kept(uniq[i - 1], s[i])
  BY <1>1, <1>9
<1>11. QED
  BY <1>2, <1>10

\* r is what uniq makes of p.
Uniqued(r, p) ==
  /\ r \in Seq(Known) /\ Distinct(r) /\ AllOf(r, p)
  /\ p = <<>> => r = <<>>
  /\ p # <<>> => r # <<>> /\ Order(Last(r), Last(p)) = 0
  /\ \A x \in Known : Like(r, x) = FirstOf(Like(p, x))

\* It is so of nothing.
LEMMA UniquedEmpty == Uniqued(<<>>, <<>>)
<1>1. <<>> \in Seq(Known) /\ DOMAIN <<>> = {}
  BY EmptySeq
<1>2. QED
  BY <1>1, LikeEmpty DEF Uniqued, Distinct, AllOf, FirstOf

\* And it stays so when an item is appended that is not less than the last.
LEMMA UniquedAppend ==
  ASSUME NEW r, NEW p \in Seq(Known), NEW y \in Known, Uniqued(r, p), Ascending(Append(p, y))
  PROVE  Uniqued(Kept(r, y), Append(p, y))
<1>1. r \in Seq(Known)
  BY DEF Uniqued
<1>2. PICK m \in Nat, n \in Nat : m = Len(r) /\ n = Len(p) /\ DOMAIN r = 1 .. m /\ DOMAIN p = 1 .. n
  BY <1>1, LenProperties
<1>3. PICK q \in Seq(Known) : q = Append(p, y)
  BY AppendProperties
<1>4. /\ q # <<>> /\ Len(q) = n + 1 /\ q[n + 1] = y /\ DOMAIN q = 1 .. n + 1
      /\ \A i \in 1 .. n : q[i] = p[i]
  BY <1>2, <1>3, AppendProperties, LenProperties
<1>5. Last(q) = y
  BY <1>4 DEF Last
<1>6. AllOf(r, q)
  <2>1. \A i \in DOMAIN r : \E j \in 1 .. n : r[i] = p[j]
    BY <1>2 DEF Uniqued, AllOf
  <2>2. QED
    BY <2>1, <1>4 DEF AllOf
<1>7. \A i \in 1 .. m : r[i] \in Known
  BY <1>1, <1>2, ElementOfSeq
<1>8. ASSUME NEW x \in Known
      PROVE  /\ Like(q, x) = IF Order(y, x) = 0 THEN Append(Like(p, x), y) ELSE Like(p, x)
             /\ Like(r, x) = FirstOf(Like(p, x))
             /\ Like(p, x) \in Seq(Known) /\ Like(r, x) \in Seq(Known)
  <2>1. Like(Append(p, y), x) = IF Order(y, x) = 0 THEN Append(Like(p, x), y) ELSE Like(p, x)
    BY LikeAppend
  <2>2. Like(p, x) \in Seq(Known) /\ Like(r, x) \in Seq(Known)
    BY <1>1, LikeType
  <2>3. Like(r, x) = FirstOf(Like(p, x))
    BY DEF Uniqued
  <2>4. QED
    BY <2>1, <2>2, <2>3, <1>3
<1>9. CASE r # <<>> /\ Order(Last(r), y) = 0
  <2>1. Kept(r, y) = r
    BY <1>9 DEF Kept
  <2>2. m \in 1 .. m /\ Last(r) = r[m]
    BY <1>1, <1>2, <1>9, EmptySeq DEF Last
  <2>3. ASSUME NEW x \in Known PROVE Like(r, x) = FirstOf(Like(q, x))
    <3>1. CASE Order(y, x) = 0
      <4>1. Order(r[m], x) = 0
        BY <2>2, <1>7, <1>9, <3>1, OrderIs
      <4>2. m \in Places(r, x)
        BY <4>1, <2>2, <1>2 DEF Places
      <4>3. Like(r, x) # <<>>
        BY <4>2, <1>1, LikeNone
      <4>4. Like(p, x) # <<>>
        BY <4>3, <1>8 DEF FirstOf
      <4>5. /\ Append(Like(p, x), y) # <<>>
            /\ Head(Append(Like(p, x), y)) = Head(Like(p, x))
        <5>1. PICK l \in Seq(Known) : l = Like(p, x) /\ l # <<>>
          BY <4>4, <1>8
        <5>2. Append(l, y) # <<>> /\ Head(Append(l, y)) = Head(l)
          BY <5>1, AppendProperties, HeadTailAppend
        <5>3. QED
          BY <5>1, <5>2
      <4>6. QED
        BY <3>1, <4>4, <4>5, <1>8 DEF FirstOf
    <3>2. CASE Order(y, x) # 0
      BY <3>2, <1>8
    <3>3. QED
      BY <3>1, <3>2
  <2>4. Distinct(r)
    BY DEF Uniqued
  <2>5. QED
    BY <1>1, <1>3, <1>4, <1>5, <1>6, <1>9, <2>1, <2>3, <2>4 DEF Uniqued
<1>10. CASE ~(r # <<>> /\ Order(Last(r), y) = 0)
  <2>1. PICK t \in Seq(Known) : t = Append(r, y) /\ t = Kept(r, y)
    BY <1>1, <1>10, AppendProperties DEF Kept
  <2>2. /\ t # <<>> /\ Len(t) = m + 1 /\ t[m + 1] = y /\ DOMAIN t = 1 .. m + 1
        /\ \A i \in 1 .. m : t[i] = r[i]
    <3>1. /\ Append(r, y) # <<>> /\ Len(Append(r, y)) = Len(r) + 1
          /\ Append(r, y)[Len(r) + 1] = y
          /\ \A i \in 1 .. Len(r) : Append(r, y)[i] = r[i]
      BY <1>1, AppendProperties
    <3>2. DOMAIN t = 1 .. Len(t)
      BY LenProperties
    <3>3. QED
      BY <1>2, <2>1, <3>1, <3>2
  <2>3. Last(t) = y /\ Order(y, y) = 0
    BY <2>2, OrderIs DEF Last
  <2>4. ASSUME NEW i \in 1 .. m PROVE Order(r[i], y) < 0
    <3>1. r # <<>> /\ m \in 1 .. m /\ Last(r) = r[m]
      BY <1>1, <1>2, <2>4, EmptySeq DEF Last
    <3>2. p # <<>>
      BY <3>1 DEF Uniqued
    <3>3. n \in 1 .. n /\ Last(p) = p[n] /\ Order(r[m], p[n]) = 0
      BY <1>2, <3>1, <3>2, EmptySeq DEF Last, Uniqued
    <3>4. p[n] \in Known
      BY <1>2, <3>3, ElementOfSeq
    <3>5. Order(p[n], y) <= 0
      <4>1. n \in 1 .. n + 1 /\ n + 1 \in 1 .. n + 1 /\ n < n + 1
        BY <3>3
      <4>2. Ascending(q)
        BY <1>3
      <4>3. Order(q[n], q[n + 1]) <= 0
        BY <4>1, <4>2, <1>4 DEF Ascending
      <4>4. QED
        BY <4>3, <3>3, <1>4
    <3>6. Order(r[m], y) <= 0 /\ Order(r[m], y) # 0 /\ Order(r[m], y) \in Int
      BY SMTT(30), <3>1, <3>3, <3>4, <3>5, <1>7, <1>10, OrderIs
    <3>7. Order(r[m], y) < 0
      BY <3>6
    <3>8. CASE i = m
      BY <3>7, <3>8
    <3>9. CASE i # m
      <4>1. i < m /\ Distinct(r)
        BY <3>9, <2>4 DEF Uniqued
      <4>2. Order(r[i], r[m]) < 0
        BY <4>1, <3>1, <1>2 DEF Distinct
      <4>3. r[i] \in Known /\ r[m] \in Known /\ Order(r[m], y) <= 0
        BY <3>1, <3>6, <1>7
      <4>4. QED
        BY <4>2, <4>3, OrderIs
    <3>10. QED
      BY <3>8, <3>9
  <2>5. Distinct(t)
    <3> SUFFICES ASSUME NEW i \in 1 .. m + 1, NEW j \in 1 .. m + 1, i < j
                 PROVE  Order(t[i], t[j]) < 0
      BY <2>2 DEF Distinct
    <3>1. CASE j = m + 1
      <4>1. i \in 1 .. m
        BY <3>1
      <4>2. QED
        BY <3>1, <4>1, <2>2, <2>4
    <3>2. CASE j # m + 1
      <4>1. i \in 1 .. m /\ j \in 1 .. m /\ Distinct(r)
        BY <3>2 DEF Uniqued
      <4>2. Order(r[i], r[j]) < 0
        BY <4>1, <1>2 DEF Distinct
      <4>3. QED
        BY <4>1, <4>2, <2>2
    <3>3. QED
      BY <3>1, <3>2
  <2>6. AllOf(t, q)
    <3> SUFFICES ASSUME NEW i \in 1 .. m + 1 PROVE \E j \in 1 .. n + 1 : t[i] = q[j]
      BY <2>2, <1>4 DEF AllOf
    <3>1. CASE i = m + 1
      <4>1. n + 1 \in 1 .. n + 1
        OBVIOUS
      <4>2. QED
        BY <3>1, <4>1, <2>2, <1>4
    <3>2. CASE i # m + 1
      <4>1. i \in 1 .. m
        BY <3>2
      <4>2. QED
        BY <4>1, <2>2, <1>2, <1>4, <1>6 DEF AllOf
    <3>3. QED
      BY <3>1, <3>2
  <2>7. ASSUME NEW x \in Known PROVE Like(t, x) = FirstOf(Like(q, x))
    <3>1. Like(Append(r, y), x) = IF Order(y, x) = 0 THEN Append(Like(r, x), y) ELSE Like(r, x)
      BY <1>1, LikeAppend
    <3>2. CASE Order(y, x) = 0
      <4>1. ASSUME NEW i \in 1 .. m PROVE Order(r[i], x) # 0
        <5>1. Order(r[i], y) < 0 /\ r[i] \in Known /\ Order(y, x) <= 0
          BY <2>4, <1>7, <3>2
        <5>2. Order(r[i], x) < 0
          BY <5>1, OrderIs
        <5>3. QED
          BY <5>2
      <4>2. Like(r, x) = <<>>
        BY <4>1, <1>1, <1>2, LikeNone DEF Places
      <4>3. Like(p, x) = <<>>
        <5>1. \A h : <<h>> # <<>>
          OBVIOUS
        <5>2. FirstOf(Like(p, x)) = <<>>
          BY <4>2, <1>8
        <5>3. QED
          BY <5>1, <5>2 DEF FirstOf
      <4>4. Append(<<>>, y) = <<y>> /\ <<y>> # <<>> /\ Head(<<y>>) = y
        OBVIOUS
      <4>5. Like(t, x) = <<y>> /\ Like(q, x) = <<y>>
        BY <2>1, <3>1, <3>2, <4>2, <4>3, <4>4, <1>8
      <4>6. QED
        BY <4>4, <4>5 DEF FirstOf
    <3>3. CASE Order(y, x) # 0
      BY <3>1, <3>3, <2>1, <1>8
    <3>4. QED
      BY <3>2, <3>3
  <2>8. QED
    BY <1>3, <1>4, <1>5, <2>1, <2>2, <2>3, <2>5, <2>6, <2>7 DEF Uniqued
<1>11. QED
  BY <1>9, <1>10

\* A beginning of a sequence in order is in order.
LEMMA AscendingPrefix ==
  ASSUME NEW s \in Seq(Known), Ascending(s), NEW n \in Nat, n <= Len(s)
  PROVE  Ascending(SubSeq(s, 1, n))
<1>1. PICK m \in Nat : m = Len(s) /\ DOMAIN s = 1 .. m
  BY LenProperties
<1>2. \A i \in 1 .. n : s[i] \in Known
  BY <1>1, ElementOfSeq
<1>3. /\ SubSeq(s, 1, n) \in Seq(Known)
      /\ Len(SubSeq(s, 1, n)) = IF 1 <= n THEN n - 1 + 1 ELSE 0
      /\ \A i \in 1 .. n - 1 + 1 : SubSeq(s, 1, n)[i] = s[1 + i - 1]
  BY <1>2, SubSeqProperties
<1>4. DOMAIN SubSeq(s, 1, n) = 1 .. n /\ \A i \in 1 .. n : SubSeq(s, 1, n)[i] = s[i]
  BY <1>3, LenProperties
<1>5. ASSUME NEW i \in 1 .. n, NEW j \in 1 .. n, i < j PROVE Order(s[i], s[j]) <= 0
  <2>1. i \in 1 .. m /\ j \in 1 .. m
    BY <1>1
  <2>2. QED
    BY <2>1, <1>1, <1>5 DEF Ascending
<1>6. QED
  BY <1>4, <1>5 DEF Ascending

\* Of a sequence in order, uniq keeps the first of equal items, and those only.
LEMMA Uniqs ==
  ASSUME NEW s \in Seq(Known), Ascending(s)
  PROVE  Uniqued(Uniq(s), s)
<1>1. PICK f : /\ f[0] = <<>> /\ \A i \in 1 .. Len(s) : f[i] = Kept(f[i - 1], s[i])
               /\ Uniq(s) = f[Len(s)]
  BY UniqIs
<1>2. PICK m \in Nat : m = Len(s)
  BY LenProperties
<1> DEFINE T == {n \in Nat : n <= m => Uniqued(f[n], SubSeq(s, 1, n))}
<1>3. 0 \in T
  <2>1. SubSeq(s, 1, 0) = <<>>
    BY SubSeqEmpty
  <2>2. QED
    BY <1>1, <2>1, UniquedEmpty
<1>4. ASSUME NEW n \in Nat, n \in T PROVE n + 1 \in T
  <2> SUFFICES ASSUME n + 1 <= m PROVE Uniqued(f[n + 1], SubSeq(s, 1, n + 1))
    OBVIOUS
  <2>1. Uniqued(f[n], SubSeq(s, 1, n))
    BY <1>4
  <2>2. /\ SubSeq(s, 1, n) \in Seq(Known) /\ s[n + 1] \in Known
        /\ SubSeq(s, 1, n + 1) = Append(SubSeq(s, 1, n), s[n + 1])
    BY <1>2, PrefixAppend
  <2>3. Ascending(Append(SubSeq(s, 1, n), s[n + 1]))
    <3>1. n + 1 \in Nat /\ n + 1 <= Len(s)
      BY <1>2
    <3>2. Ascending(SubSeq(s, 1, n + 1))
      BY <3>1, AscendingPrefix
    <3>3. QED
      BY <2>2, <3>2
  <2>4. f[n + 1] = Kept(f[n], s[n + 1])
    <3>1. n + 1 \in 1 .. Len(s) /\ (n + 1) - 1 = n
      BY <1>2
    <3>2. QED
      BY <3>1, <1>1
  <2>5. Uniqued(Kept(f[n], s[n + 1]), Append(SubSeq(s, 1, n), s[n + 1]))
    BY <2>1, <2>2, <2>3, UniquedAppend
  <2>6. QED
    BY <2>2, <2>4, <2>5
<1>5. Nat \subseteq T
  <2> HIDE DEF T
  <2>1. QED
    BY <1>3, <1>4, Induction
<1>6. Uniqued(f[m], SubSeq(s, 1, m))
  BY <1>5
<1>7. SubSeq(s, 1, m) = s
  BY <1>2, SubSeqFull
<1>8. QED
  BY <1>1, <1>2, <1>6, <1>7

-----------------------------------------------------------------------------
(* Sequences of sequences *)

\* FlattenSeq, sequence by sequence.
LEMMA FlattenIs ==
  ASSUME NEW S, NEW ss \in Seq(Seq(S)), ss # <<>>
  PROVE  \E f : /\ f[1] = ss[1] /\ \A i \in 1 .. Len(ss) : i # 1 => f[i] = f[i - 1] \o ss[i]
                /\ FlattenSeq(ss) = f[Len(ss)] /\ \A i \in 1 .. Len(ss) : f[i] \in Seq(S)
<1>1. PICK n \in Nat : n = Len(ss) /\ n # 0
  BY EmptySeq
<1>2. \A i \in 1 .. n : ss[i] \in Seq(S)
  BY <1>1, ElementOfSeq
<1> DEFINE flatten == CHOOSE flatten : flatten = [i \in 1 .. Len(ss) |->
             IF i = 1 THEN ss[i] ELSE flatten[i - 1] \o ss[i]]
           step == [p \in (1 .. n) \X Seq(S) |-> p[2] \o ss[p[1]]]
<1>3. FlattenSeq(ss) = flatten[Len(ss)]
  BY <1>1 DEF FlattenSeq
<1>4. step \in [(1 .. n) \X Seq(S) -> Seq(S)]
  <2> SUFFICES ASSUME NEW i \in 1 .. n, NEW r \in Seq(S) PROVE r \o ss[i] \in Seq(S)
    OBVIOUS
  <2>1. QED
    BY <1>2, ConcatProperties
<1>5. \A i \in 1 .. n, r \in Seq(S) : step[<<i, r>>] = r \o ss[i]
  OBVIOUS
<1> HIDE DEF step, flatten
<1>6. <<>> \in Seq(S)
  BY EmptySeq
<1>7. PICK g \in [0 .. n -> Seq(S)] : Loops(g, n, <<>>, step)
  BY <1>4, <1>6, LoopExists
<1>8. ASSUME NEW i \in 1 .. n PROVE g[i] = g[i - 1] \o ss[i] /\ g[i] \in Seq(S)
  <2>1. i - 1 \in 0 .. n /\ i \in 0 .. n
    OBVIOUS
  <2>2. g[i - 1] \in Seq(S) /\ g[i] \in Seq(S)
    BY <2>1, <1>7
  <2>3. g[i] = step[<<i, g[i - 1]>>]
    BY <1>7 DEF Loops
  <2>4. QED
    BY <2>2, <2>3, <1>5
<1>9. g[1] = ss[1]
  <2>1. 1 \in 1 .. n /\ 1 - 1 = 0
    BY <1>1
  <2>2. g[1] = <<>> \o ss[1]
    BY <2>1, <1>7, <1>8 DEF Loops
  <2>3. <<>> \o ss[1] = ss[1]
    BY <2>1, <1>2, ConcatEmptySeq
  <2>4. QED
    BY <2>2, <2>3
<1> DEFINE f == [i \in 1 .. n |-> g[i]]
<1>10. \A i \in 1 .. n : f[i] = g[i]
  OBVIOUS
<1>11. f = [i \in 1 .. Len(ss) |-> IF i = 1 THEN ss[i] ELSE f[i - 1] \o ss[i]]
  <2>1. ASSUME NEW i \in 1 .. n PROVE g[i] = IF i = 1 THEN ss[i] ELSE f[i - 1] \o ss[i]
    <3>1. CASE i = 1
      BY <3>1, <1>9
    <3>2. CASE i # 1
      <4>1. i - 1 \in 1 .. n
        BY <3>2
      <4>2. f[i - 1] = g[i - 1]
        BY <4>1
      <4>3. QED
        BY <3>2, <4>2, <1>8
    <3>3. QED
      BY <3>1, <3>2
  <2> HIDE DEF f
  <2>2. f = [i \in 1 .. n |-> g[i]]
    BY DEF f
  <2>3. QED
    BY <2>1, <2>2, <1>1
<1> HIDE DEF f
<1>12. flatten = [i \in 1 .. Len(ss) |-> IF i = 1 THEN ss[i] ELSE flatten[i - 1] \o ss[i]]
  BY <1>11 DEF flatten
<1>13. \A i \in 1 .. n : flatten[i] = IF i = 1 THEN ss[i] ELSE flatten[i - 1] \o ss[i]
  BY <1>1, <1>12
<1>14. flatten[1] = ss[1] /\ \A i \in 1 .. n : i # 1 => flatten[i] = flatten[i - 1] \o ss[i]
  <2>1. 1 \in 1 .. n
    BY <1>1
  <2>2. QED
    BY <2>1, <1>13
<1>15. \A i \in 1 .. n : flatten[i] \in Seq(S)
  <2> DEFINE T == {i \in Nat : i + 1 <= n => flatten[i + 1] \in Seq(S)}
  <2>1. 0 \in T
    <3>1. 1 \in 1 .. n
      BY <1>1
    <3>2. flatten[1] \in Seq(S)
      BY <3>1, <1>2, <1>14
    <3>3. QED
      BY <3>2
  <2>2. ASSUME NEW i \in Nat, i \in T PROVE i + 1 \in T
    <3> SUFFICES ASSUME (i + 1) + 1 <= n PROVE flatten[(i + 1) + 1] \in Seq(S)
      OBVIOUS
    <3>1. PICK j \in 1 .. n : j = (i + 1) + 1 /\ j - 1 = i + 1 /\ j # 1 /\ i + 1 <= n
      OBVIOUS
    <3>2. flatten[j - 1] \in Seq(S) /\ ss[j] \in Seq(S)
      BY <2>2, <3>1, <1>2
    <3>3. flatten[j] = flatten[j - 1] \o ss[j]
      BY <3>1, <1>14
    <3>4. QED
      BY <3>1, <3>2, <3>3, ConcatProperties
  <2>3. Nat \subseteq T
    <3> HIDE DEF T
    <3>1. QED
      BY <2>1, <2>2, Induction
  <2>4. ASSUME NEW i \in 1 .. n PROVE flatten[i] \in Seq(S)
    <3>1. PICK j \in Nat : j = i - 1 /\ j + 1 = i /\ j + 1 <= n
      OBVIOUS
    <3>2. QED
      BY <3>1, <2>3
  <2>5. QED
    BY <2>4
<1>16. QED
  BY <1>1, <1>3, <1>14, <1>15

\* No sequences are flattened to nothing, and what one more adds comes behind.
LEMMA FlattenAppend ==
  ASSUME NEW S, NEW ss \in Seq(Seq(S)), NEW t \in Seq(S)
  PROVE  /\ FlattenSeq(ss) \in Seq(S) /\ (ss = <<>> => FlattenSeq(ss) = <<>>)
         /\ FlattenSeq(Append(ss, t)) = FlattenSeq(ss) \o t
<1>1. PICK n \in Nat : n = Len(ss)
  BY LenProperties
<1>2. PICK tt \in Seq(Seq(S)) : tt = Append(ss, t)
  BY AppendProperties
<1>3. /\ tt # <<>> /\ Len(tt) = n + 1 /\ tt[n + 1] = t
      /\ \A i \in 1 .. n : tt[i] = ss[i]
  BY <1>1, <1>2, AppendProperties
<1>4. PICK g : /\ g[1] = tt[1] /\ \A i \in 1 .. Len(tt) : i # 1 => g[i] = g[i - 1] \o tt[i]
               /\ FlattenSeq(tt) = g[Len(tt)]
  <2>1. tt # <<>>
    BY <1>3
  <2>2. \E g : /\ g[1] = tt[1] /\ \A i \in 1 .. Len(tt) : i # 1 => g[i] = g[i - 1] \o tt[i]
               /\ FlattenSeq(tt) = g[Len(tt)] /\ \A i \in 1 .. Len(tt) : g[i] \in Seq(S)
    BY <2>1, FlattenIs
  <2>3. QED
    BY <2>2
<1>5. CASE ss = <<>>
  <2>1. n = 0
    BY <1>1, <1>5, EmptySeq
  <2>2. FlattenSeq(ss) = <<>>
    BY <2>1, <1>1, <1>5 DEF FlattenSeq
  <2>3. FlattenSeq(tt) = t
    BY <2>1, <1>3, <1>4
  <2>4. <<>> \o t = t /\ <<>> \in Seq(S)
    BY ConcatEmptySeq, EmptySeq
  <2>5. QED
    BY <1>2, <2>2, <2>3, <2>4
<1>6. CASE ss # <<>>
  <2>1. PICK f : /\ f[1] = ss[1] /\ \A i \in 1 .. Len(ss) : i # 1 => f[i] = f[i - 1] \o ss[i]
                 /\ FlattenSeq(ss) = f[Len(ss)] /\ \A i \in 1 .. Len(ss) : f[i] \in Seq(S)
    BY <1>6, FlattenIs
  <2>2. n # 0 /\ n \in 1 .. n
    BY <1>1, <1>6, EmptySeq
  <2>3. FlattenSeq(ss) \in Seq(S)
    BY <2>1, <2>2, <1>1
  <2> DEFINE T == {i \in Nat : i + 1 <= n => f[i + 1] = g[i + 1]}
  <2>4. 0 \in T
    <3>1. 1 \in 1 .. n
      BY <2>2
    <3>2. QED
      BY <3>1, <2>1, <1>3, <1>4
  <2>5. ASSUME NEW i \in Nat, i \in T PROVE i + 1 \in T
    <3> SUFFICES ASSUME (i + 1) + 1 <= n PROVE f[(i + 1) + 1] = g[(i + 1) + 1]
      OBVIOUS
    <3>1. PICK j \in 1 .. n : j = (i + 1) + 1 /\ j - 1 = i + 1 /\ j # 1 /\ i + 1 <= n
      OBVIOUS
    <3>2. f[j - 1] = g[j - 1]
      BY <2>5, <3>1
    <3>3. j \in 1 .. Len(ss) /\ j \in 1 .. Len(tt)
      BY <3>1, <1>1, <1>3
    <3>4. f[j] = f[j - 1] \o ss[j]
      BY <3>1, <3>3, <2>1
    <3>5. g[j] = g[j - 1] \o tt[j] /\ tt[j] = ss[j]
      BY <3>1, <3>3, <1>3, <1>4
    <3>6. QED
      BY <3>1, <3>2, <3>4, <3>5
  <2>6. Nat \subseteq T
    <3> HIDE DEF T
    <3>1. QED
      BY <2>4, <2>5, Induction
  <2>7. f[n] = g[n]
    <3>1. PICK j \in Nat : j + 1 = n
      BY <2>2
    <3>2. QED
      BY <3>1, <2>6
  <2>8. g[n + 1] = g[n] \o t
    <3>1. n + 1 \in 1 .. Len(tt) /\ n + 1 # 1 /\ (n + 1) - 1 = n
      BY <2>2, <1>3
    <3>2. g[n + 1] = g[(n + 1) - 1] \o tt[n + 1]
      BY <3>1, <1>4
    <3>3. QED
      BY <3>1, <3>2, <1>3
  <2>9. FlattenSeq(tt) = FlattenSeq(ss) \o t
    BY <2>1, <2>7, <2>8, <1>1, <1>3, <1>4
  <2>10. QED
    BY <1>2, <1>6, <2>3, <2>9
<1>7. QED
  BY <1>5, <1>6

-----------------------------------------------------------------------------
(* The runs of equal items *)

\* Everything is selected.
LEMMA SelectedAll ==
  ASSUME NEW S, NEW s \in Seq(S), NEW places, \A i \in 1 .. Len(s) : i \in places
  PROVE  Selected(s, places) = s
<1> DEFINE T == {u \in Seq(S) : \A q : (\A i \in 1 .. Len(u) : i \in q) => Selected(u, q) = u}
<1>1. <<>> \in T
  BY EmptySeq, SelectedEmpty
<1>2. ASSUME NEW u \in Seq(S), NEW y \in S, u \in T PROVE Append(u, y) \in T
  <2>1. Append(u, y) \in Seq(S) /\ Len(Append(u, y)) = Len(u) + 1 /\ Len(u) \in Nat
    BY AppendProperties, LenProperties
  <2>2. ASSUME NEW q, \A i \in 1 .. Len(Append(u, y)) : i \in q
        PROVE  Selected(Append(u, y), q) = Append(u, y)
    <3>1. Len(u) + 1 \in q /\ \A i \in 1 .. Len(u) : i \in q
      BY <2>1, <2>2
    <3>2. Selected(u, q) = u
      BY <3>1, <1>2
    <3>3. Selected(Append(u, y), q) =
            IF Len(u) + 1 \in q THEN Append(Selected(u, q), y) ELSE Selected(u, q)
      BY SelectedAppend
    <3>4. QED
      BY <3>1, <3>2, <3>3
  <2>3. QED
    BY <2>1, <2>2
<1>3. Seq(S) \subseteq T
  <2> HIDE DEF T
  <2>1. QED
    BY <1>1, <1>2, SeqInduction
<1>4. QED
  BY <1>3

\* What the runs do with the next item.
Joined(r, x, heads) ==
  IF r # <<>> /\ Joins(Last(r), x, heads)
  THEN Append(Front(r), Append(Last(r), x)) ELSE Append(r, <<x>>)

\* They stay sequences of items.
LEMMA JoinedType ==
  ASSUME NEW r \in Seq(Seq(Known)), NEW x \in Known, NEW heads
  PROVE  Joined(r, x, heads) \in Seq(Seq(Known))
<1>1. CASE r # <<>> /\ Joins(Last(r), x, heads)
  <2>1. Front(r) \in Seq(Seq(Known)) /\ Last(r) \in Seq(Known)
    BY <1>1, FrontLast
  <2>2. Append(Last(r), x) \in Seq(Known)
    BY <2>1, AppendProperties
  <2>3. Append(Front(r), Append(Last(r), x)) \in Seq(Seq(Known))
    BY <2>1, <2>2, AppendProperties
  <2>4. QED
    BY <1>1, <2>3 DEF Joined
<1>2. CASE ~(r # <<>> /\ Joins(Last(r), x, heads))
  <2>1. <<x>> \in Seq(Known)
    OBVIOUS
  <2>2. Append(r, <<x>>) \in Seq(Seq(Known))
    BY <2>1, AppendProperties
  <2>3. QED
    BY <1>2, <2>2 DEF Joined
<1>3. QED
  BY <1>1, <1>2

\* The runs, item by item.
LEMMA RunsIs ==
  ASSUME NEW s \in Seq(Known), NEW heads
  PROVE  \E f : /\ f[0] = <<>> /\ \A i \in 1 .. Len(s) : f[i] = Joined(f[i - 1], s[i], heads)
                /\ Runs(s, heads) = f[Len(s)]
<1>1. PICK n \in Nat : n = Len(s)
  BY LenProperties
<1> DEFINE runs == CHOOSE runs : runs = [i \in 0 .. Len(s) |->
             IF i = 0 THEN <<>>
             ELSE LET r == runs[i - 1]
                  IN IF r # <<>> /\ Joins(Last(r), s[i], heads)
                     THEN Append(Front(r), Append(Last(r), s[i])) ELSE Append(r, <<s[i]>>)]
           V == Seq(Seq(Known))
           step == [p \in (1 .. n) \X V |-> Joined(p[2], s[p[1]], heads)]
<1>2. Runs(s, heads) = runs[Len(s)]
  BY DEF Runs
<1>3. \A i \in 1 .. n : s[i] \in Known
  BY <1>1, ElementOfSeq
<1>4. \A i \in 1 .. n, r \in V : Joined(r, s[i], heads) \in V
  BY <1>3, JoinedType
<1>5. <<>> \in V
  BY EmptySeq
<1> HIDE DEF runs, V
<1>6. step \in [(1 .. n) \X V -> V]
  BY <1>4
<1>7. \A i \in 1 .. n, r \in V : step[<<i, r>>] = Joined(r, s[i], heads)
  OBVIOUS
<1> HIDE DEF step
<1>8. PICK f \in [0 .. n -> V] : Loops(f, n, <<>>, step)
  BY <1>5, <1>6, LoopExists
<1>9. f = [i \in 0 .. Len(s) |-> IF i = 0 THEN <<>> ELSE Joined(f[i - 1], s[i], heads)]
  <2>1. ASSUME NEW i \in 0 .. n
        PROVE  f[i] = IF i = 0 THEN <<>> ELSE Joined(f[i - 1], s[i], heads)
    <3>1. i # 0 => i \in 1 .. n /\ i - 1 \in 0 .. n
      OBVIOUS
    <3>2. i # 0 => f[i - 1] \in V
      BY <3>1, <1>8
    <3>3. QED
      BY <3>1, <3>2, <1>7, <1>8 DEF Loops
  <2>2. f = [i \in 0 .. n |-> f[i]]
    BY <1>8
  <2>3. QED
    BY <2>1, <2>2, <1>1
<1>10. runs = [i \in 0 .. Len(s) |-> IF i = 0 THEN <<>> ELSE Joined(runs[i - 1], s[i], heads)]
  BY <1>9 DEF runs, Joined
<1>11. \A i \in 0 .. n : runs[i] = IF i = 0 THEN <<>> ELSE Joined(runs[i - 1], s[i], heads)
  BY <1>1, <1>10
<1>12. runs[0] = <<>> /\ \A i \in 1 .. Len(s) : runs[i] = Joined(runs[i - 1], s[i], heads)
  BY <1>1, <1>11
<1>13. QED
  BY <1>2, <1>12

\* A run of equal items, the first of them h, all of them in heads.
Run(r, h, heads) ==
  /\ r \in Seq(Known) /\ r # <<>> /\ Head(r) = h /\ h \in Known
  /\ \A j \in 1 .. Len(r) : r[j] \in heads /\ Order(r[j], h) = 0

\* One item is a run.
LEMMA RunOne ==
  ASSUME NEW x \in Known, NEW heads, x \in heads
  PROVE  Run(<<x>>, x, heads)
<1>1. PICK r \in Seq(Known) : r = <<x>>
  <2>1. <<x>> \in Seq(Known)
    OBVIOUS
  <2>2. QED
    BY <2>1
<1>2. r # <<>> /\ Head(r) = x /\ Len(r) = 1 /\ r[1] = x
  BY <1>1
<1>3. Order(x, x) = 0
  BY OrderIs
<1>4. \A j \in 1 .. Len(r) : j = 1
  BY <1>2
<1>5. QED
  BY <1>1, <1>2, <1>3, <1>4 DEF Run

\* An item is compared with the first of a run.
LEMMA RunJoins ==
  ASSUME NEW r, NEW h \in Known, NEW heads, Run(r, h, heads), NEW x \in Known
  PROVE  Joins(r, x, heads) <=> Order(h, x) = 0
<1>1. r \in Seq(Known) /\ r # <<>> /\ Head(r) = h
  BY DEF Run
<1>2. DOMAIN r = 1 .. Len(r)
  BY <1>1, LenProperties
<1>3. \A i \in 1 .. Len(r) : i \in {j \in DOMAIN r : r[j] \in heads}
  BY <1>2 DEF Run
<1>4. Selected(r, {j \in DOMAIN r : r[j] \in heads}) = r
  BY <1>1, <1>3, SelectedAll
<1>5. QED
  BY <1>1, <1>4 DEF Joins

\* And a run stays one when an equal item joins it.
LEMMA RunAppend ==
  ASSUME NEW r, NEW h \in Known, NEW heads, Run(r, h, heads),
         NEW x \in Known, x \in heads, Order(h, x) = 0
  PROVE  Run(Append(r, x), h, heads)
<1>1. r \in Seq(Known) /\ r # <<>> /\ Head(r) = h
  BY DEF Run
<1>2. PICK n \in Nat : n = Len(r)
  BY <1>1, LenProperties
<1>3. PICK t \in Seq(Known) : t = Append(r, x)
  BY <1>1, AppendProperties
<1>4. t # <<>> /\ Len(t) = n + 1 /\ t[n + 1] = x /\ \A i \in 1 .. n : t[i] = r[i]
  BY <1>1, <1>2, <1>3, AppendProperties
<1>5. Head(t) = h
  <2>1. Head(Append(r, x)) = IF r = <<>> THEN x ELSE Head(r)
    BY <1>1, HeadTailAppend
  <2>2. QED
    BY <2>1, <1>1, <1>3
<1>6. ASSUME NEW j \in 1 .. n + 1 PROVE t[j] \in heads /\ Order(t[j], h) = 0
  <2>1. CASE j = n + 1
    <3>1. Order(x, h) = 0
      BY OrderIs
    <3>2. QED
      BY <2>1, <3>1, <1>4
  <2>2. CASE j # n + 1
    <3>1. j \in 1 .. n
      BY <2>2
    <3>2. QED
      BY <3>1, <1>2, <1>4 DEF Run
  <2>3. QED
    BY <2>1, <2>2
<1>7. QED
  BY <1>3, <1>4, <1>5, <1>6 DEF Run

\* g are the runs of p, and u the first items of them.
Grouped(g, u, p, heads) ==
  /\ g \in Seq(Seq(Known)) /\ u \in Seq(Known) /\ Len(g) = Len(u)
  /\ \A i \in 1 .. Len(u) : Run(g[i], u[i], heads)
  /\ FlattenSeq(g) = p

\* The last run, and the last of the first items.
LEMMA GroupedLast ==
  ASSUME NEW g, NEW u, NEW p, NEW heads, Grouped(g, u, p, heads)
  PROVE  /\ g = <<>> <=> u = <<>>
         /\ u # <<>> => Run(Last(g), Last(u), heads) /\ Last(u) \in Known
<1>1. g \in Seq(Seq(Known)) /\ u \in Seq(Known) /\ Len(g) = Len(u)
  BY DEF Grouped
<1>2. g = <<>> <=> u = <<>>
  BY <1>1, EmptySeq
<1>3. ASSUME u # <<>> PROVE Run(Last(g), Last(u), heads) /\ Last(u) \in Known
  <2>1. PICK n \in Nat : n = Len(u) /\ n \in 1 .. n
    BY <1>1, <1>3, EmptySeq
  <2>2. Run(g[n], u[n], heads)
    BY <2>1 DEF Grouped
  <2>3. QED
    BY <2>1, <2>2, <1>1, ElementOfSeq DEF Last
<1>4. QED
  BY <1>2, <1>3

\* An item that joins the last run.
LEMMA GroupedJoin ==
  ASSUME NEW g, NEW u, NEW p \in Seq(Known), NEW heads, Grouped(g, u, p, heads),
         u # <<>>, NEW x \in Known, x \in heads, Order(Last(u), x) = 0
  PROVE  Grouped(Append(Front(g), Append(Last(g), x)), u, Append(p, x), heads)
<1>1. g \in Seq(Seq(Known)) /\ u \in Seq(Known) /\ Len(g) = Len(u) /\ g # <<>>
      /\ FlattenSeq(g) = p
  BY GroupedLast DEF Grouped
<1>2. PICK n \in Nat : n = Len(u) /\ n # 0
  BY <1>1, EmptySeq
<1>3. PICK f \in Seq(Seq(Known)), l \in Seq(Known) : f = Front(g) /\ l = Last(g)
  BY <1>1, FrontLast
<1>4. /\ g = Append(f, l) /\ Len(f) = n - 1
      /\ \A i \in 1 .. n - 1 : f[i] = g[i]
  BY <1>1, <1>2, <1>3, FrontLast
<1>5. Last(u) \in Known /\ Run(l, Last(u), heads) /\ Last(u) = u[n]
  BY <1>2, <1>3, GroupedLast DEF Last
<1>6. Run(Append(l, x), u[n], heads)
  BY <1>5, RunAppend
<1>7. PICK m \in Seq(Known) : m = Append(l, x)
  BY AppendProperties
<1>8. PICK t \in Seq(Seq(Known)) : t = Append(f, m)
  BY AppendProperties
<1>9. Len(t) = n /\ t[n] = m /\ \A i \in 1 .. n - 1 : t[i] = f[i]
  BY <1>2, <1>4, <1>8, AppendProperties
<1>10. \A i \in 1 .. n : Run(t[i], u[i], heads)
  <2> SUFFICES ASSUME NEW i \in 1 .. n PROVE Run(t[i], u[i], heads)
    OBVIOUS
  <2>1. CASE i = n
    BY <2>1, <1>6, <1>7, <1>9
  <2>2. CASE i # n
    <3>1. i \in 1 .. n - 1
      BY <2>2
    <3>2. QED
      BY <3>1, <1>2, <1>4, <1>9 DEF Grouped
  <2>3. QED
    BY <2>1, <2>2
<1>11. FlattenSeq(t) = Append(p, x)
  <2>1. /\ FlattenSeq(f) \in Seq(Known)
        /\ FlattenSeq(Append(f, l)) = FlattenSeq(f) \o l
        /\ FlattenSeq(Append(f, m)) = FlattenSeq(f) \o m
    BY FlattenAppend
  <2>2. <<x>> \in Seq(Known) /\ m = l \o <<x>> /\ Append(p, x) = p \o <<x>>
    BY <1>7, AppendIsConcat
  <2>3. PICK a \in Seq(Known) : a = FlattenSeq(f)
    BY <2>1
  <2>4. (a \o l) \o <<x>> = a \o (l \o <<x>>)
    BY SMTT(30), <2>2, ConcatAssociative
  <2>5. QED
    BY <2>1, <2>2, <2>3, <2>4, <1>1, <1>4, <1>8
<1>12. Grouped(t, u, Append(p, x), heads)
  BY <1>1, <1>2, <1>9, <1>10, <1>11 DEF Grouped
<1>13. QED
  BY <1>3, <1>7, <1>8, <1>12

\* An item that starts a run.
LEMMA GroupedStart ==
  ASSUME NEW g, NEW u, NEW p \in Seq(Known), NEW heads, Grouped(g, u, p, heads),
         NEW x \in Known, x \in heads
  PROVE  Grouped(Append(g, <<x>>), Append(u, x), Append(p, x), heads)
<1>1. g \in Seq(Seq(Known)) /\ u \in Seq(Known) /\ Len(g) = Len(u) /\ FlattenSeq(g) = p
  BY DEF Grouped
<1>2. PICK n \in Nat : n = Len(u)
  BY <1>1, LenProperties
<1>3. PICK e \in Seq(Known) : e = <<x>>
  <2>1. <<x>> \in Seq(Known)
    OBVIOUS
  <2>2. QED
    BY <2>1
<1>4. PICK t \in Seq(Seq(Known)), v \in Seq(Known) : t = Append(g, e) /\ v = Append(u, x)
  BY <1>1, AppendProperties
<1>5. Len(t) = n + 1 /\ t[n + 1] = e /\ \A i \in 1 .. n : t[i] = g[i]
  BY <1>1, <1>2, <1>4, AppendProperties
<1>6. Len(v) = n + 1 /\ v[n + 1] = x /\ \A i \in 1 .. n : v[i] = u[i]
  BY <1>1, <1>2, <1>4, AppendProperties
<1>7. Run(e, x, heads)
  BY <1>3, RunOne
<1>8. ASSUME NEW i \in 1 .. n + 1 PROVE Run(t[i], v[i], heads)
  <2>1. CASE i = n + 1
    BY <2>1, <1>5, <1>6, <1>7
  <2>2. CASE i # n + 1
    <3>1. i \in 1 .. n
      BY <2>2
    <3>2. Run(g[i], u[i], heads)
      BY <3>1, <1>2 DEF Grouped
    <3>3. QED
      BY <3>1, <3>2, <1>5, <1>6
  <2>3. QED
    BY <2>1, <2>2
<1>9. FlattenSeq(Append(g, e)) = FlattenSeq(g) \o e
  BY <1>1, FlattenAppend
<1>10. Append(p, x) = p \o <<x>>
  BY AppendIsConcat
<1>11. Grouped(t, v, Append(p, x), heads)
  BY <1>1, <1>3, <1>4, <1>5, <1>6, <1>8, <1>9, <1>10 DEF Grouped
<1>12. QED
  BY <1>3, <1>4, <1>11

\* The runs of a sequence, each of which starts with an item that uniq keeps.
LEMMA Groups ==
  ASSUME NEW s \in Seq(Known), NEW heads, heads = ToSet(s)
  PROVE  Grouped(Runs(s, heads), Uniq(s), s, heads)
<1>1. PICK f : /\ f[0] = <<>> /\ \A i \in 1 .. Len(s) : f[i] = Joined(f[i - 1], s[i], heads)
               /\ Runs(s, heads) = f[Len(s)]
  BY RunsIs
<1>2. PICK h : /\ h[0] = <<>> /\ \A i \in 1 .. Len(s) : h[i] = Kept(h[i - 1], s[i])
               /\ Uniq(s) = h[Len(s)]
  BY UniqIs
<1>3. PICK m \in Nat : m = Len(s) /\ DOMAIN s = 1 .. m
  BY LenProperties
<1> DEFINE T == {n \in Nat : n <= m => Grouped(f[n], h[n], SubSeq(s, 1, n), heads)}
<1>4. 0 \in T
  <2>1. SubSeq(s, 1, 0) = <<>>
    BY SubSeqEmpty
  <2>2. PICK g \in Seq(Seq(Known)), u \in Seq(Known) : g = <<>> /\ u = <<>>
    BY EmptySeq
  <2>3. Len(g) = 0 /\ Len(u) = 0
    BY <2>2
  <2>4. FlattenSeq(g) = <<>>
    <3>1. <<>> \in Seq(Known)
      BY EmptySeq
    <3>2. QED
      BY <2>2, <3>1, FlattenAppend
  <2>5. Grouped(g, u, <<>>, heads)
    BY <2>2, <2>3, <2>4 DEF Grouped
  <2>6. QED
    BY <2>1, <2>2, <2>5, <1>1, <1>2
<1>5. ASSUME NEW n \in Nat, n \in T PROVE n + 1 \in T
  <2> SUFFICES ASSUME n + 1 <= m PROVE Grouped(f[n + 1], h[n + 1], SubSeq(s, 1, n + 1), heads)
    OBVIOUS
  <2>1. Grouped(f[n], h[n], SubSeq(s, 1, n), heads)
    BY <1>5
  <2>2. /\ SubSeq(s, 1, n) \in Seq(Known) /\ s[n + 1] \in Known
        /\ SubSeq(s, 1, n + 1) = Append(SubSeq(s, 1, n), s[n + 1])
    BY <1>3, PrefixAppend
  <2>3. s[n + 1] \in heads
    <3>1. n + 1 \in DOMAIN s
      BY <1>3
    <3>2. QED
      BY <3>1 DEF ToSet
  <2>4. f[n + 1] = Joined(f[n], s[n + 1], heads) /\ h[n + 1] = Kept(h[n], s[n + 1])
    <3>1. n + 1 \in 1 .. Len(s) /\ (n + 1) - 1 = n
      BY <1>3
    <3>2. QED
      BY <3>1, <1>1, <1>2
  <2>5. /\ f[n] = <<>> <=> h[n] = <<>>
        /\ h[n] # <<>> => Run(Last(f[n]), Last(h[n]), heads) /\ Last(h[n]) \in Known
    BY <2>1, GroupedLast
  <2>6. h[n] # <<>> => (Joins(Last(f[n]), s[n + 1], heads) <=> Order(Last(h[n]), s[n + 1]) = 0)
    BY <2>2, <2>5, RunJoins
  <2>7. CASE h[n] # <<>> /\ Order(Last(h[n]), s[n + 1]) = 0
    <3>1. Grouped(Append(Front(f[n]), Append(Last(f[n]), s[n + 1])), h[n],
                  Append(SubSeq(s, 1, n), s[n + 1]), heads)
      BY <2>1, <2>2, <2>3, <2>7, GroupedJoin
    <3>2. QED
      BY <2>2, <2>4, <2>5, <2>6, <2>7, <3>1 DEF Joined, Kept
  <2>8. CASE ~(h[n] # <<>> /\ Order(Last(h[n]), s[n + 1]) = 0)
    <3>1. Grouped(Append(f[n], <<s[n + 1]>>), Append(h[n], s[n + 1]),
                  Append(SubSeq(s, 1, n), s[n + 1]), heads)
      BY <2>1, <2>2, <2>3, GroupedStart
    <3>2. QED
      BY <2>2, <2>4, <2>5, <2>6, <2>8, <3>1 DEF Joined, Kept
  <2>9. QED
    BY <2>7, <2>8
<1>6. Nat \subseteq T
  <2> HIDE DEF T
  <2>1. QED
    BY <1>4, <1>5, Induction
<1>7. Grouped(f[m], h[m], SubSeq(s, 1, m), heads)
  BY <1>6
<1>8. SubSeq(s, 1, m) = s
  BY <1>3, SubSeqFull
<1>9. QED
  BY <1>1, <1>2, <1>3, <1>7, <1>8

\* What group answers: runs that are the sequence, and start with what uniq
\* keeps.
LEMMA GroupRight ==
  ASSUME NEW s \in Seq(Known)
  PROVE  /\ FlattenSeq(Group(s)) = s
         /\ [i \in DOMAIN Group(s) |-> Head(Group(s)[i])] = Uniq(s)
<1>1. PICK g, u : g = Group(s) /\ u = Uniq(s) /\ Grouped(g, u, s, ToSet(s))
  BY Groups DEF Group
<1>2. /\ g \in Seq(Seq(Known)) /\ u \in Seq(Known) /\ Len(g) = Len(u) /\ FlattenSeq(g) = s
      /\ \A i \in 1 .. Len(u) : Head(g[i]) = u[i]
  BY <1>1 DEF Grouped, Run
<1>3. DOMAIN g = 1 .. Len(u) /\ DOMAIN u = 1 .. Len(u) /\ u = [i \in 1 .. Len(u) |-> u[i]]
  BY <1>2, LenProperties
<1>4. [i \in DOMAIN g |-> Head(g[i])] = u
  BY <1>2, <1>3
<1>5. QED
  BY <1>1, <1>2, <1>4

\* What split answers: the sequence in runs of equal items.
LEMMA SplitRight ==
  ASSUME NEW s \in Seq(Known)
  PROVE  /\ FlattenSeq(Split(s)) = s
         /\ \A i \in DOMAIN Split(s) : Split(s)[i] # <<>> =>
                Split(s)[i] \in Seq(Known) /\ Like(Split(s)[i], Head(Split(s)[i])) = Split(s)[i]
<1>1. CASE s = <<>>
  <2>1. PICK e \in Seq(Known), ss \in Seq(Seq(Known)) : e = <<>> /\ ss = <<>>
    BY EmptySeq
  <2>2. FlattenSeq(Append(ss, e)) = FlattenSeq(ss) \o e /\ FlattenSeq(ss) = <<>>
    BY <2>1, FlattenAppend
  <2>3. <<>> \o e = e
    BY ConcatEmptySeq
  <2>4. PICK t \in Seq(Seq(Known)) : t = Append(ss, e) /\ Split(s) = t
    <3>1. Append(ss, e) \in Seq(Seq(Known))
      BY AppendProperties
    <3>2. Append(ss, e) = <<e>>
      BY <2>1
    <3>3. QED
      BY <3>1, <3>2, <2>1, <1>1 DEF Split
  <2>5. Len(t) = 1 /\ t[1] = e /\ DOMAIN t = 1 .. 1
    <3>1. Len(Append(ss, e)) = Len(ss) + 1 /\ Append(ss, e)[Len(ss) + 1] = e
      BY AppendProperties
    <3>2. Len(ss) = 0
      BY <2>1, EmptySeq
    <3>3. DOMAIN t = 1 .. Len(t)
      BY LenProperties
    <3>4. QED
      BY <2>4, <3>1, <3>2, <3>3
  <2>6. \A i \in DOMAIN t : t[i] = <<>>
    BY <2>1, <2>5
  <2>7. FlattenSeq(t) = s
    BY <1>1, <2>1, <2>2, <2>3, <2>4
  <2>8. QED
    BY <2>4, <2>6, <2>7
<1>2. CASE s # <<>>
  <2>1. {x \in ToSet(s) : x.type # "undefined"} = ToSet(s)
    <3> SUFFICES ASSUME NEW i \in DOMAIN s PROVE s[i].type # "undefined"
      BY DEF ToSet
    <3>1. s[i] \in Known
      BY LenProperties, ElementOfSeq
    <3>2. QED
      BY <3>1, ArrayAssumption DEF Defined
  <2>2. PICK g, u : g = Split(s) /\ Grouped(g, u, s, ToSet(s))
    BY <1>2, <2>1, Groups DEF Split
  <2>3. /\ g \in Seq(Seq(Known)) /\ Len(g) = Len(u) /\ FlattenSeq(g) = s
        /\ \A i \in 1 .. Len(u) : Run(g[i], u[i], ToSet(s))
    BY <2>2 DEF Grouped
  <2>4. DOMAIN g = 1 .. Len(u)
    BY <2>3, LenProperties
  <2>5. ASSUME NEW i \in DOMAIN g
        PROVE  g[i] \in Seq(Known) /\ Like(g[i], Head(g[i])) = g[i]
    <3>1. Run(g[i], u[i], ToSet(s))
      BY <2>3, <2>4
    <3>2. /\ g[i] \in Seq(Known) /\ Head(g[i]) = u[i] /\ u[i] \in Known
          /\ \A j \in 1 .. Len(g[i]) : Order(g[i][j], u[i]) = 0
      BY <3>1 DEF Run
    <3>3. DOMAIN g[i] = 1 .. Len(g[i])
      BY <3>2, LenProperties
    <3>4. Like(g[i], u[i]) = g[i]
      BY <3>2, <3>3, LikeAll
    <3>5. QED
      BY <3>2, <3>4
  <2>6. QED
    BY <2>2, <2>3, <2>5
<1>3. QED
  BY <1>1, <1>2

-----------------------------------------------------------------------------
(* Bisection, and the bounds *)

\* The middle of a range is in it.
LEMMA MiddleIs ==
  ASSUME NEW l \in Nat, NEW h \in Nat, l < h
  PROVE  Middle(l, h) \in Nat /\ l <= Middle(l, h) /\ Middle(l, h) < h
BY DEF Middle

\* A step of the bisection between l and h; f has the results of shorter ranges.
FindStep(s, x, l, h, f) ==
  IF l >= h THEN Len(s)
  ELSE IF Order(x, s[Middle(l, h) + 1]) < 0 THEN f[<<l, Middle(l, h)>>]
  ELSE IF Order(x, s[Middle(l, h) + 1]) > 0 THEN f[<<Middle(l, h) + 1, h>>]
  ELSE Middle(l, h)

IsFound(found, s, x) ==
  found = [r \in (0 .. Len(s)) \X (0 .. Len(s)) |->
             LET m == Middle(r[1], r[2])
             IN IF r[1] >= r[2] THEN Len(s)
                ELSE CASE Order(x, s[m + 1]) < 0 -> found[<<r[1], m>>]
                       [] Order(x, s[m + 1]) > 0 -> found[<<m + 1, r[2]>>]
                       [] OTHER -> m]

Ranges(n) == (0 .. n) \X (0 .. n)

\* A range is a pair of its ends.
LEMMA RangeIs ==
  ASSUME NEW n \in Nat, NEW p \in Ranges(n)
  PROVE  p = <<p[1], p[2]>> /\ p[1] \in 0 .. n /\ p[2] \in 0 .. n
BY DEF Ranges

\* The bisection is these steps.
LEMMA FindIs ==
  ASSUME NEW s \in Seq(Known), NEW x \in Known
  PROVE  \E f :
           /\ \A l \in 0 .. Len(s), h \in 0 .. Len(s) : f[<<l, h>>] = FindStep(s, x, l, h, f)
           /\ FindItem(s, x) = f[<<0, Len(s)>>]
<1>1. PICK n \in Nat : n = Len(s)
  BY LenProperties
<1> DEFINE D == Ranges(n)
           measure == [p \in D |-> n + p[2] - p[1]]
           rule == [q \in D \X [D -> Nat] |-> FindStep(s, x, q[1][1], q[1][2], q[2])]
<1>2. ASSUME NEW l \in 0 .. n, NEW h \in 0 .. n
      PROVE  <<l, h>> \in D /\ measure[<<l, h>>] = n + h - l
  BY DEF Ranges
<1>3. measure \in [D -> 0 .. 2 * n + 1 - 1]
  <2>1. ASSUME NEW p \in D PROVE n + p[2] - p[1] \in 0 .. 2 * n + 1 - 1
    BY SMTT(30), RangeIs
  <2>2. QED
    BY <2>1
<1>4. ASSUME NEW p \in D, NEW f \in [D -> Nat]
      PROVE  rule[<<p, f>>] = FindStep(s, x, p[1], p[2], f)
  OBVIOUS
<1>5. ASSUME NEW l \in 0 .. n, NEW h \in 0 .. n, ~(l >= h)
      PROVE  /\ <<Middle(l, h) + 1, h>> \in D /\ <<l, Middle(l, h)>> \in D
             /\ Middle(l, h) \in Nat
             /\ measure[<<Middle(l, h) + 1, h>>] < n + h - l
             /\ measure[<<l, Middle(l, h)>>] < n + h - l
  <2>1. PICK m \in Nat : m = Middle(l, h) /\ l <= m /\ m < h
    BY <1>5, MiddleIs
  <2>2. m \in 0 .. n /\ m + 1 \in 0 .. n
    BY <2>1
  <2>3. n + h - (m + 1) < n + h - l /\ n + m - l < n + h - l
    BY <2>1
  <2> HIDE DEF D, measure
  <2>4. <<m + 1, h>> \in D /\ measure[<<m + 1, h>>] = n + h - (m + 1)
    BY <2>2, <1>2
  <2>5. <<l, m>> \in D /\ measure[<<l, m>>] = n + m - l
    BY <2>2, <1>2
  <2>6. QED
    BY <2>1, <2>3, <2>4, <2>5
<1>6. rule \in [D \X [D -> Nat] -> Nat]
  <2>1. ASSUME NEW p \in D, NEW f \in [D -> Nat]
        PROVE  FindStep(s, x, p[1], p[2], f) \in Nat
    <3>1. p[1] \in 0 .. n /\ p[2] \in 0 .. n
      BY RangeIs
    <3>2. CASE p[1] >= p[2]
      BY <3>2, <1>1 DEF FindStep
    <3>3. CASE ~(p[1] >= p[2])
      <4> HIDE DEF D
      <4>1. f[<<Middle(p[1], p[2]) + 1, p[2]>>] \in Nat
        BY <3>1, <3>3, <1>5
      <4>2. f[<<p[1], Middle(p[1], p[2])>>] \in Nat
        BY <3>1, <3>3, <1>5
      <4>3. Middle(p[1], p[2]) \in Nat
        BY <3>1, <3>3, <1>5
      <4>4. QED
        BY <4>1, <4>2, <4>3, <3>3 DEF FindStep
    <3>4. QED
      BY <3>2, <3>3
  <2>2. QED
    BY <2>1
<1>7. ASSUME NEW p \in D, NEW f \in [D -> Nat], NEW g \in [D -> Nat],
             \A e \in D : measure[e] < measure[p] => f[e] = g[e]
      PROVE  rule[<<p, f>>] = rule[<<p, g>>]
  <2>1. PICK l \in 0 .. n, h \in 0 .. n : l = p[1] /\ h = p[2]
    BY RangeIs
  <2>2. p = <<l, h>> /\ measure[p] = n + h - l
    BY <2>1, <1>2, RangeIs
  <2>3. ASSUME ~(l >= h)
        PROVE  /\ f[<<Middle(l, h) + 1, h>>] = g[<<Middle(l, h) + 1, h>>]
               /\ f[<<l, Middle(l, h)>>] = g[<<l, Middle(l, h)>>]
    <3> HIDE DEF D, measure
    <3>1. QED
      BY <2>2, <2>3, <1>5, <1>7
  <2>4. FindStep(s, x, l, h, f) = FindStep(s, x, l, h, g)
    BY <2>3 DEF FindStep
  <2>5. QED
    BY <2>1, <2>4, <1>4
<1> HIDE DEF measure, rule, D
<1>8. PICK f : IsFixed(f, D, Nat, rule)
  <2>1. LooksBelow(D, Nat, rule, measure)
    BY <1>7 DEF LooksBelow
  <2>2. 2 * n + 1 \in Nat
    OBVIOUS
  <2>3. IsRule(rule, D, Nat, measure, 2 * n + 1)
    BY <2>1, <2>2, <1>3, <1>6 DEF IsRule
  <2>4. QED
    BY <2>3, RecursionOver
<1> DEFINE found == CHOOSE found : IsFound(found, s, x)
<1>9. FindItem(s, x) = found[<<0, Len(s)>>]
  BY DEF FindItem, IsFound
<1>10. \A g : IsFound(g, s, x) <=> g = [p \in D |-> FindStep(s, x, p[1], p[2], g)]
  <2> SUFFICES ASSUME NEW g
               PROVE  IsFound(g, s, x) <=> g = [p \in D |-> FindStep(s, x, p[1], p[2], g)]
    OBVIOUS
  <2> DEFINE StepAt(p) ==
        LET m == Middle(p[1], p[2])
        IN IF p[1] >= p[2] THEN Len(s)
           ELSE CASE Order(x, s[m + 1]) < 0 -> g[<<p[1], m>>]
                  [] Order(x, s[m + 1]) > 0 -> g[<<m + 1, p[2]>>]
                  [] OTHER -> m
  <2>1. IsFound(g, s, x) <=> g = [p \in D |-> StepAt(p)]
    BY <1>1 DEF IsFound, Ranges, D
  <2>2. ASSUME NEW p \in D PROVE StepAt(p) = FindStep(s, x, p[1], p[2], g)
    <3>1. PICK l \in 0 .. n, h \in 0 .. n : l = p[1] /\ h = p[2]
      BY RangeIs DEF D
    <3>2. CASE l >= h
      BY <3>1, <3>2 DEF FindStep
    <3>3. CASE ~(l >= h)
      <4>1. PICK m \in Nat : m = Middle(l, h) /\ m < h
        BY <3>3, MiddleIs
      <4>2. Order(x, s[m + 1]) \in Int
        <5>1. m + 1 \in 1 .. n
          BY <4>1
        <5>2. s[m + 1] \in Known
          BY <5>1, <1>1, ElementOfSeq
        <5>3. QED
          BY <5>2, OrderIs
      <4>3. QED
        BY <3>1, <3>3, <4>1, <4>2 DEF FindStep
    <3>4. QED
      BY <3>2, <3>3
  <2> HIDE DEF StepAt
  <2>3. QED
    BY <2>1, <2>2
<1>11. f = [p \in D |-> FindStep(s, x, p[1], p[2], f)]
  BY <1>4, <1>8 DEF IsFixed
<1>12. found = [p \in D |-> FindStep(s, x, p[1], p[2], found)]
  BY <1>10, <1>11
<1> HIDE DEF found
<1>13. \A p \in D : found[p] = FindStep(s, x, p[1], p[2], found)
  BY <1>12
<1>14. ASSUME NEW l \in 0 .. n, NEW h \in 0 .. n
       PROVE  found[<<l, h>>] = FindStep(s, x, l, h, found)
  BY <1>2, <1>13
<1>15. QED
  BY <1>1, <1>9, <1>14

\* The position of an item equal to x, or the end when there is none.
IsAt(a, s, x) ==
  /\ a \in 0 .. Len(s)
  /\ a = Len(s) => Places(s, x) = {}
  /\ a # Len(s) => a + 1 \in Places(s, x)

\* In a sequence in order, the bisection finds an item equal to x wherever it is.
LEMMA Finds ==
  ASSUME NEW s \in Seq(Known), Ascending(s), NEW x \in Known
  PROVE  IsAt(FindItem(s, x), s, x)
<1>1. PICK f :
        /\ \A l \in 0 .. Len(s), h \in 0 .. Len(s) : f[<<l, h>>] = FindStep(s, x, l, h, f)
        /\ FindItem(s, x) = f[<<0, Len(s)>>]
  BY FindIs
<1>2. PICK n \in Nat : n = Len(s) /\ DOMAIN s = 1 .. n
  BY LenProperties
<1>3. \A i \in 1 .. n : s[i] \in Known
  BY <1>2, ElementOfSeq
<1>4. ASSUME NEW i \in 1 .. n, NEW j \in 1 .. n, i <= j PROVE Order(s[i], s[j]) <= 0
  <2>1. CASE i = j
    BY <2>1, <1>3, OrderIs
  <2>2. CASE i # j
    <3>1. i < j
      BY <1>4, <2>2
    <3>2. QED
      BY <3>1, <1>2 DEF Ascending
  <2>3. QED
    BY <2>1, <2>2
<1> DEFINE Right(l, h) ==
      /\ f[<<l, h>>] \in 0 .. n
      /\ f[<<l, h>>] = n => \A i \in 1 .. n : l < i /\ i <= h => Order(s[i], x) # 0
      /\ f[<<l, h>>] # n => Order(s[f[<<l, h>>] + 1], x) = 0
    T == {c \in Nat : \A l \in 0 .. n, h \in 0 .. n : n + h - l < c => Right(l, h)}
<1>5. 0 \in T
  OBVIOUS
<1>6. ASSUME NEW c \in Nat, c \in T PROVE c + 1 \in T
  <2>1. ASSUME NEW l \in 0 .. n, NEW h \in 0 .. n, n + h - l < c + 1 PROVE Right(l, h)
    <3>1. f[<<l, h>>] = FindStep(s, x, l, h, f)
      BY <1>1, <1>2
    <3>2. CASE l >= h
      <4>1. f[<<l, h>>] = n
        BY <3>1, <3>2, <1>2 DEF FindStep
      <4>2. \A i \in 1 .. n : ~(l < i /\ i <= h)
        BY <3>2
      <4>3. QED
        BY <4>1, <4>2
    <3>3. CASE ~(l >= h)
      <4>1. PICK m \in Nat : m = Middle(l, h) /\ l <= m /\ m < h
        BY SMTT(30), <3>3, MiddleIs
      <4>2. m \in 0 .. n /\ m + 1 \in 1 .. n /\ m + 1 \in 0 .. n /\ m # n
        BY <4>1
      <4>3. PICK y \in Known : y = s[m + 1]
        BY <4>2, <1>3
      <4>4. Order(x, y) \in Int
        BY OrderIs
      <4>5. Right(m + 1, h)
        <5>1. n + h - (m + 1) < c
          BY <4>1, <2>1
        <5>2. QED
          BY <5>1, <4>2, <1>6
      <4>6. Right(l, m)
        <5>1. n + m - l < c
          BY <4>1, <2>1
        <5>2. QED
          BY <5>1, <4>2, <1>6
      <4>7. CASE Order(x, y) > 0
        <5>1. f[<<l, h>>] = f[<<m + 1, h>>]
          BY <3>1, <3>3, <4>1, <4>3, <4>4, <4>7 DEF FindStep
        <5>2. ASSUME NEW i \in 1 .. n, i <= m + 1 PROVE Order(s[i], x) # 0
          <6>1. Order(s[i], y) <= 0 /\ s[i] \in Known
            BY <4>2, <4>3, <5>2, <1>3, <1>4
          <6>2. Order(y, x) < 0
            BY <4>7, OrderIs
          <6>3. Order(s[i], x) < 0
            BY <6>1, <6>2, OrderIs
          <6>4. QED
            BY <6>3
        <5>3. \A i \in 1 .. n : i <= m + 1 \/ m + 1 < i
          BY <4>1
        <5>4. QED
          BY <5>1, <5>2, <5>3, <4>5
      <4>8. CASE Order(x, y) < 0
        <5>1. f[<<l, h>>] = f[<<l, m>>]
          BY <3>1, <3>3, <4>1, <4>3, <4>8 DEF FindStep
        <5>2. ASSUME NEW i \in 1 .. n, ~(i <= m) PROVE Order(s[i], x) # 0
          <6>1. m + 1 <= i
            BY <5>2, <4>1
          <6>2. Order(y, s[i]) <= 0 /\ s[i] \in Known
            BY <4>2, <4>3, <6>1, <1>3, <1>4
          <6>3. Order(x, s[i]) < 0
            BY <6>2, <4>8, OrderIs
          <6>4. Order(s[i], x) > 0
            BY <6>2, <6>3, OrderIs
          <6>5. QED
            BY <6>4
        <5>3. QED
          BY <5>1, <5>2, <4>6
      <4>9. CASE Order(x, y) = 0
        <5>1. f[<<l, h>>] = m
          BY <3>1, <3>3, <4>1, <4>3, <4>9 DEF FindStep
        <5>2. Order(y, x) = 0
          BY <4>9, OrderIs
        <5>3. QED
          BY <5>1, <5>2, <4>2, <4>3
      <4>10. QED
        BY <4>4, <4>7, <4>8, <4>9
    <3>4. QED
      BY <3>2, <3>3
  <2>2. QED
    BY <2>1
<1>7. Nat \subseteq T
  <2> HIDE DEF T
  <2>1. QED
    BY <1>5, <1>6, Induction
<1>8. Right(0, n)
  <2>1. 2 * n + 1 \in Nat /\ n + n - 0 < 2 * n + 1 /\ 0 \in 0 .. n /\ n \in 0 .. n
    OBVIOUS
  <2>2. 2 * n + 1 \in T
    BY <2>1, <1>7
  <2>3. QED
    BY <2>1, <2>2
<1>9. PICK a : a = FindItem(s, x) /\ a = f[<<0, n>>]
  BY <1>1, <1>2
<1>10. a = n => Places(s, x) = {}
  <2>1. \A i \in 1 .. n : 0 < i /\ i <= n
    OBVIOUS
  <2>2. QED
    BY <2>1, <1>2, <1>8, <1>9 DEF Places
<1>11. a # n => a + 1 \in Places(s, x)
  <2>1. a \in 0 .. n /\ (a # n => a + 1 \in 1 .. n)
    BY <1>8, <1>9
  <2>2. QED
    BY <2>1, <1>2, <1>8, <1>9 DEF Places
<1>12. QED
  BY <1>2, <1>8, <1>9, <1>10, <1>11 DEF IsAt

\* Equal items of a sequence in order are next to each other.
LEMMA PlacesTogether ==
  ASSUME NEW s \in Seq(Known), Ascending(s), NEW x \in Known,
         NEW i \in Places(s, x), NEW k \in Places(s, x), NEW j \in Int, i <= j, j <= k
  PROVE  j \in Places(s, x)
<1>1. PICK n \in Nat : n = Len(s) /\ DOMAIN s = 1 .. n
  BY LenProperties
<1>2. i \in 1 .. n /\ k \in 1 .. n /\ Order(s[i], x) = 0 /\ Order(s[k], x) = 0
  BY <1>1 DEF Places
<1>3. j \in 1 .. n
  BY <1>2
<1>4. s[i] \in Known /\ s[j] \in Known /\ s[k] \in Known
  BY <1>1, <1>2, <1>3, ElementOfSeq
<1>5. CASE i = j \/ j = k
  BY <1>5
<1>6. CASE i < j /\ j < k
  <2>1. Order(s[i], s[j]) <= 0 /\ Order(s[j], s[k]) <= 0
    BY <1>1, <1>2, <1>3, <1>6 DEF Ascending
  <2>2. Order(s[j], x) <= 0
    <3>1. Order(s[k], x) <= 0
      BY <1>2
    <3>2. QED
      BY <2>1, <3>1, <1>4, OrderIs
  <2>3. Order(x, s[j]) <= 0
    <3>1. \A y \in Known : Order(y, x) = 0 => Order(x, y) = 0
      BY OrderIs
    <3>2. Order(x, s[i]) <= 0
      BY <3>1, <1>2, <1>4
    <3>3. QED
      BY <2>1, <3>2, <1>4, OrderIs
  <2>4. Order(s[j], x) = 0
    <3>1. \A y \in Known : Order(y, x) \in Int /\ (Order(y, x) < 0 <=> Order(x, y) > 0)
                           /\ Order(x, y) \in Int
      BY OrderIs
    <3>2. QED
      BY <3>1, <2>2, <2>3, <1>4
  <2>5. QED
    BY <2>4, <1>1, <1>3 DEF Places
<1>7. QED
  <2>1. i = j \/ j = k \/ (i < j /\ j < k)
    BY <1>2, <1>3
  <2>2. QED
    BY <2>1, <1>5, <1>6

\* The least and the greatest place.
LEMMA PlacesEnds ==
  ASSUME NEW s \in Seq(Known), NEW x, Places(s, x) # {}
  PROVE  /\ Min(Places(s, x)) \in Places(s, x) /\ Max(Places(s, x)) \in Places(s, x)
         /\ \A i \in Places(s, x) : Min(Places(s, x)) <= i /\ i <= Max(Places(s, x))
         /\ Places(s, x) \subseteq 1 .. Len(s)
<1>1. PICK n \in Nat : n = Len(s) /\ DOMAIN s = 1 .. n
  BY LenProperties
<1>2. Places(s, x) \subseteq 1 .. n
  BY <1>1 DEF Places
<1>3. Places(s, x) \subseteq Nat /\ Places(s, x) \subseteq 0 .. n
  BY <1>2
<1>4. QED
  BY <1>1, <1>2, <1>3, MinIs, MaxIs

\* Back from an item equal to x: to the first.
LEMMA StepBackIs ==
  ASSUME NEW s \in Seq(Known), Ascending(s), NEW x \in Known,
         NEW p \in Nat, p + 1 \in Places(s, x)
  PROVE  StepBack(s, x, p) = Min(Places(s, x)) - 1
<1>1. PICK n \in Nat : n = Len(s) /\ DOMAIN s = 1 .. n
  BY LenProperties
<1>2. PICK a \in Places(s, x) : /\ a = Min(Places(s, x)) /\ \A i \in Places(s, x) : a <= i
                               /\ Places(s, x) \subseteq 1 .. n
  BY <1>1, PlacesEnds
<1>3. a \in 1 .. n /\ a <= p + 1
  BY <1>2
<1> DEFINE T == {j \in 0 .. p : j = 0 \/ Order(s[j], x) # 0}
<1>4. a - 1 \in T
  <2>1. a - 1 \in 0 .. p
    BY <1>3
  <2>2. CASE a - 1 = 0
    BY <2>1, <2>2
  <2>3. CASE a - 1 # 0
    <3>1. a - 1 \notin Places(s, x)
      BY <1>2, <1>3
    <3>2. a - 1 \in DOMAIN s
      BY <2>3, <1>1, <1>3
    <3>3. Order(s[a - 1], x) # 0
      BY <3>1, <3>2 DEF Places
    <3>4. QED
      BY <2>1, <3>3
  <2>4. QED
    BY <2>2, <2>3
<1>5. ASSUME NEW j \in T PROVE j <= a - 1
  <2> SUFFICES ASSUME ~(j <= a - 1) PROVE FALSE
    OBVIOUS
  <2>1. j \in Int /\ a <= j /\ j <= p + 1 /\ j # 0
    BY <1>3
  <2>2. j \in Places(s, x)
    BY <2>1, PlacesTogether
  <2>3. QED
    BY <2>1, <2>2 DEF Places
<1>6. T \subseteq Int
  OBVIOUS
<1>7. StepBack(s, x, p) = Max(T)
  BY DEF StepBack
<1> HIDE DEF T
<1>8. Max(T) = a - 1
  BY <1>4, <1>5, <1>6, MaxUnique
<1>9. QED
  BY <1>2, <1>7, <1>8

\* On from an item equal to x: behind the last.
LEMMA StepOnIs ==
  ASSUME NEW s \in Seq(Known), Ascending(s), NEW x \in Known,
         NEW p \in Nat, p + 1 \in Places(s, x)
  PROVE  StepOn(s, x, p) = Max(Places(s, x))
<1>1. PICK n \in Nat : n = Len(s) /\ DOMAIN s = 1 .. n
  BY LenProperties
<1>2. PICK b \in Places(s, x) : /\ b = Max(Places(s, x)) /\ \A i \in Places(s, x) : i <= b
                               /\ Places(s, x) \subseteq 1 .. n
  BY <1>1, PlacesEnds
<1>3. b \in 1 .. n /\ p + 1 <= b
  BY <1>2
<1> DEFINE T == {j \in p + 1 .. Len(s) - 1 : Order(s[j + 1], x) # 0} \cup {Len(s)}
<1>4. b \in T
  <2>1. CASE b = n
    BY <2>1, <1>1
  <2>2. CASE b # n
    <3>1. b + 1 \notin Places(s, x)
      BY <1>2, <1>3
    <3>2. b + 1 \in DOMAIN s /\ b \in p + 1 .. Len(s) - 1
      BY <2>2, <1>1, <1>3
    <3>3. Order(s[b + 1], x) # 0
      BY <3>1, <3>2 DEF Places
    <3>4. QED
      BY <3>2, <3>3
  <2>3. QED
    BY <2>1, <2>2
<1>5. ASSUME NEW j \in T PROVE b <= j
  <2>1. CASE j = Len(s)
    BY <2>1, <1>1, <1>3
  <2>2. CASE j \in p + 1 .. Len(s) - 1 /\ Order(s[j + 1], x) # 0
    <3> SUFFICES ASSUME ~(b <= j) PROVE FALSE
      OBVIOUS
    <3>1. j + 1 \in Int /\ p + 1 <= j + 1 /\ j + 1 <= b
      BY <2>2, <1>1, <1>3
    <3>2. j + 1 \in Places(s, x)
      BY <3>1, PlacesTogether
    <3>3. QED
      BY <2>2, <3>2 DEF Places
  <2>3. QED
    BY <2>1, <2>2
<1>6. T \subseteq Int
  BY <1>1
<1>7. StepOn(s, x, p) = Min(T)
  BY DEF StepOn
<1> HIDE DEF T
<1>8. Min(T) = b
  BY <1>4, <1>5, <1>6, MinUnique
<1>9. QED
  BY <1>2, <1>7, <1>8

\* Where nothing is equal to x, the bounds are at the end.
LEMMA StepsAtEnd ==
  ASSUME NEW s \in Seq(Known), NEW x, Places(s, x) = {}
  PROVE  StepBack(s, x, Len(s)) = Len(s) /\ StepOn(s, x, Len(s)) = Len(s)
<1>1. PICK n \in Nat : n = Len(s) /\ DOMAIN s = 1 .. n
  BY LenProperties
<1> DEFINE T == {j \in 0 .. n : j = 0 \/ Order(s[j], x) # 0}
           U == {j \in n + 1 .. n - 1 : Order(s[j + 1], x) # 0} \cup {n}
<1>2. n \in T
  <2>1. CASE n = 0
    BY <2>1
  <2>2. CASE n # 0
    <3>1. n \in DOMAIN s
      BY <2>2, <1>1
    <3>2. QED
      BY <3>1 DEF Places
  <2>3. QED
    BY <2>1, <2>2
<1>3. T \subseteq Int /\ \A j \in T : j <= n
  OBVIOUS
<1>4. U = {n}
  OBVIOUS
<1>5. StepBack(s, x, Len(s)) = Max(T) /\ StepOn(s, x, Len(s)) = Min(U)
  BY <1>1 DEF StepBack, StepOn
<1> HIDE DEF T, U
<1>6. Max(T) = n
  BY <1>2, <1>3, MaxUnique
<1>7. Min(U) = n
  <2>1. U \subseteq Int /\ n \in U /\ \A j \in U : n <= j
    BY <1>4
  <2>2. QED
    BY <2>1, MinUnique
<1>8. QED
  BY <1>1, <1>5, <1>6, <1>7

\* The bounds enclose the items equal to x.
LEMMA Bounds ==
  ASSUME NEW s \in Seq(Known), Ascending(s), NEW x \in Known
  PROVE  /\ IF Places(s, x) = {}
            THEN FindItem(s, x) = Len(s) /\ EqualRange(s, x) = <<Len(s), Len(s)>>
            ELSE /\ FindItem(s, x) + 1 \in Places(s, x)
                 /\ EqualRange(s, x) = <<Min(Places(s, x)) - 1, Max(Places(s, x))>>
         /\ <<LowerBound(s, x), UpperBound(s, x)>> = EqualRange(s, x)
<1>1. PICK a : a = FindItem(s, x) /\ IsAt(a, s, x)
  BY Finds
<1>2. PICK n \in Nat : n = Len(s)
  BY LenProperties
<1>3. LowerBound(s, x) = IF a = n THEN a ELSE StepBack(s, x, a)
  BY <1>1, <1>2 DEF LowerBound
<1>4. UpperBound(s, x) = StepOn(s, x, a)
  BY <1>1 DEF UpperBound
<1>5. EqualRange(s, x) = <<StepBack(s, x, a), StepOn(s, x, StepBack(s, x, a))>>
  BY <1>1 DEF EqualRange
<1>6. CASE a = n
  <2>1. Places(s, x) = {}
    BY <1>1, <1>2, <1>6 DEF IsAt
  <2>2. StepBack(s, x, n) = n /\ StepOn(s, x, n) = n
    BY <2>1, <1>2, StepsAtEnd
  <2>3. QED
    BY <1>1, <1>2, <1>3, <1>4, <1>5, <1>6, <2>1, <2>2
<1>7. CASE a # n
  <2>1. a \in Nat /\ a + 1 \in Places(s, x)
    BY <1>1, <1>2, <1>7 DEF IsAt
  <2>2. StepBack(s, x, a) = Min(Places(s, x)) - 1 /\ StepOn(s, x, a) = Max(Places(s, x))
    BY <2>1, StepBackIs, StepOnIs
  <2>3. PICK b \in Nat : b = Min(Places(s, x)) - 1 /\ b + 1 \in Places(s, x)
    <3>1. Min(Places(s, x)) \in Places(s, x) /\ Places(s, x) \subseteq 1 .. n
      BY <2>1, <1>2, PlacesEnds
    <3>2. PICK c \in 1 .. n : c = Min(Places(s, x)) /\ c \in Places(s, x)
      BY <3>1
    <3>3. c - 1 \in Nat /\ (c - 1) + 1 = c
      OBVIOUS
    <3>4. QED
      BY <3>2, <3>3
  <2>4. StepOn(s, x, b) = Max(Places(s, x))
    BY <2>3, StepOnIs
  <2>5. Places(s, x) # {}
    BY <2>1
  <2>6. QED
    BY <1>1, <1>3, <1>4, <1>5, <1>7, <2>1, <2>2, <2>3, <2>4, <2>5
<1>8. QED
  BY <1>6, <1>7

-----------------------------------------------------------------------------
(* Two sequences in order: merge, complement, intersection and symdiff *)

\* The less of two numbers.
LEMMA MinTwo ==
  ASSUME NEW a \in Nat, NEW b \in Nat
  PROVE  Min({a, b}) = IF a <= b THEN a ELSE b
<1>1. {a, b} \subseteq Int
  OBVIOUS
<1>2. CASE a <= b
  <2>1. a \in {a, b} /\ \A y \in {a, b} : a <= y
    BY <1>2
  <2>2. Min({a, b}) = a
    BY <1>1, <2>1, MinUnique
  <2>3. QED
    BY <1>2, <2>2
<1>3. CASE ~(a <= b)
  <2>1. b \in {a, b} /\ \A y \in {a, b} : b <= y
    BY <1>3
  <2>2. Min({a, b}) = b
    BY <1>1, <2>1, MinUnique
  <2>3. QED
    BY <1>3, <2>2
<1>4. QED
  BY <1>2, <1>3

\* What is kept of a side.
Side(side, sides, u) == IF side \in sides THEN u ELSE <<>>

\* It is a sequence of items, and is taken of each part by itself.
LEMMA SideIs ==
  ASSUME NEW side, NEW sides, NEW u \in Seq(Known), NEW v \in Seq(Known)
  PROVE  /\ Side(side, sides, u) \in Seq(Known)
         /\ Side(side, sides, u \o v) = Side(side, sides, u) \o Side(side, sides, v)
         /\ Side(side, sides, <<>>) = <<>>
         /\ \A x \in Known : Like(Side(side, sides, u), x) = Side(side, sides, Like(u, x))
<1>1. PICK e \in Seq(Known) : e = <<>>
  BY EmptySeq
<1>2. e \o e = e
  BY <1>1, ConcatEmptySeq
<1>3. \A x \in Known : Like(e, x) = <<>>
  BY <1>1, LikeEmpty
<1>4. QED
  BY <1>1, <1>2, <1>3 DEF Side

\* The same, of one side.
SideOfParts(side, sides, u, v) ==
  Side(side, sides, u \o v) = Side(side, sides, u) \o Side(side, sides, v)
LEMMA SideConcat ==
  ASSUME NEW side, NEW sides, NEW u \in Seq(Known), NEW v \in Seq(Known)
  PROVE  SideOfParts(side, sides, u, v)
BY SideIs DEF SideOfParts

\* What is kept of equal items: of each pair one, and the rest of either side.
Pairs(l, r, sides) ==
  LET n == Min({Len(l), Len(r)})
  IN Side("both", sides, SubSeq(r, 1, n))
     \o Side("left", sides, SubSeq(l, n + 1, Len(l)))
     \o Side("right", sides, SubSeq(r, n + 1, Len(r)))

\* Where one side has nothing, of the other.
LEMMA PairsOfOne ==
  ASSUME NEW u \in Seq(Known), NEW sides
  PROVE  /\ Pairs(<<>>, u, sides) = Side("right", sides, u)
         /\ Pairs(u, <<>>, sides) = Side("left", sides, u)
<1>1. PICK n \in Nat : n = Len(u)
  BY LenProperties
<1>2. PICK e \in Seq(Known) : e = <<>> /\ Len(e) = 0
  BY EmptySeq
<1>3. Min({0, n}) = 0 /\ Min({n, 0}) = 0
  BY MinTwo
<1>4. SubSeq(u, 1, 0) = <<>> /\ SubSeq(e, 1, 0) = <<>> /\ SubSeq(u, 1, n) = u
  BY <1>1, SubSeqEmpty, SubSeqFull
<1>5. Side("both", sides, <<>>) = <<>> /\ Side("left", sides, <<>>) = <<>>
      /\ Side("right", sides, <<>>) = <<>>
  BY DEF Side
<1>6. PICK a \in Seq(Known), b \in Seq(Known) :
        a = Side("right", sides, u) /\ b = Side("left", sides, u)
  BY SideIs
<1>7. (e \o e) \o a = a /\ (e \o b) \o e = b
  BY <1>2, ConcatEmptySeq
<1>8. Pairs(e, u, sides) = (e \o e) \o a
  <2>1. Min({Len(e), Len(u)}) = 0
    BY <1>1, <1>2, <1>3
  <2>2. 0 + 1 = 1
    OBVIOUS
  <2>3. Pairs(e, u, sides) = (Side("both", sides, SubSeq(u, 1, 0))
                             \o Side("left", sides, SubSeq(e, 1, Len(e))))
                             \o Side("right", sides, SubSeq(u, 1, Len(u)))
    BY <2>1, <2>2, Zenon DEF Pairs
  <2>4. QED
    BY <2>3, <1>1, <1>2, <1>4, <1>5, <1>6
<1>9. Pairs(u, e, sides) = (e \o b) \o e
  <2>1. Min({Len(u), Len(e)}) = 0
    BY <1>1, <1>2, <1>3
  <2>2. 0 + 1 = 1
    OBVIOUS
  <2>3. Pairs(u, e, sides) = (Side("both", sides, SubSeq(e, 1, 0))
                             \o Side("left", sides, SubSeq(u, 1, Len(u))))
                             \o Side("right", sides, SubSeq(e, 1, Len(e)))
    BY <2>1, <2>2, Zenon DEF Pairs
  <2>4. QED
    BY <2>3, <1>1, <1>2, <1>4, <1>5, <1>6
<1>10. QED
  BY <1>2, <1>6, <1>7, <1>8, <1>9

\* Parts of a sequence with an item in front.
LEMMA PartsOfCons ==
  ASSUME NEW y \in Known, NEW u \in Seq(Known), NEW n \in Nat, n <= Len(u)
  PROVE  /\ <<y>> \o u \in Seq(Known) /\ Len(<<y>> \o u) = Len(u) + 1
         /\ SubSeq(<<y>> \o u, 1, n + 1) = <<y>> \o SubSeq(u, 1, n)
         /\ SubSeq(<<y>> \o u, (n + 1) + 1, Len(u) + 1) = SubSeq(u, n + 1, Len(u))
<1>1. PICK m \in Nat : m = Len(u)
  BY LenProperties
<1>2. PICK e \in Seq(Known) : e = <<y>> /\ Len(e) = 1 /\ e[1] = y
  <2>1. <<y>> \in Seq(Known) /\ Len(<<y>>) = 1 /\ <<y>>[1] = y
    OBVIOUS
  <2>2. QED
    BY <2>1
<1>3. PICK w \in Seq(Known) : w = e \o u /\ Len(w) = m + 1
  <2>1. e \o u \in Seq(Known) /\ Len(e \o u) = Len(e) + Len(u)
    BY <1>2, ConcatProperties
  <2>2. Len(e \o u) = m + 1
    BY <2>1, <1>1, <1>2
  <2>3. QED
    BY <2>1, <2>2
<1>4. w[1] = y /\ \A i \in 1 .. m : w[i + 1] = u[i]
  <2>1. \A i \in 1 .. m + 1 : w[i] = IF i <= 1 THEN e[i] ELSE u[i - 1]
    <3>1. \A i \in 1 .. Len(e) + Len(u) : (e \o u)[i] = IF i <= Len(e) THEN e[i] ELSE u[i - Len(e)]
      BY ConcatProperties
    <3>2. QED
      BY <3>1, <1>1, <1>2, <1>3
  <2>2. ASSUME NEW i \in 1 .. m PROVE w[i + 1] = u[i]
    <3>1. i + 1 \in 1 .. m + 1 /\ ~(i + 1 <= 1) /\ (i + 1) - 1 = i
      OBVIOUS
    <3>2. QED
      BY <3>1, <2>1
  <2>3. 1 \in 1 .. m + 1
    OBVIOUS
  <2>4. QED
    BY <2>1, <2>2, <2>3, <1>2
<1>5. (\A i \in 1 .. m + 1 : w[i] \in Known) /\ (\A i \in 1 .. m : u[i] \in Known)
  BY <1>1, <1>3, ElementOfSeq
<1>6. PICK a \in Seq(Known) :
        a = SubSeq(u, 1, n) /\ Len(a) = n /\ \A i \in 1 .. n : a[i] = u[i]
  <2>1. \A i \in 1 .. n : u[i] \in Known
    BY <1>1, <1>5
  <2>2. /\ SubSeq(u, 1, n) \in Seq(Known)
        /\ Len(SubSeq(u, 1, n)) = IF 1 <= n THEN n - 1 + 1 ELSE 0
        /\ \A i \in 1 .. n - 1 + 1 : SubSeq(u, 1, n)[i] = u[1 + i - 1]
    BY <2>1, SubSeqProperties
  <2>3. Len(SubSeq(u, 1, n)) = n /\ \A i \in 1 .. n : SubSeq(u, 1, n)[i] = u[i]
    BY <2>2
  <2>4. QED
    BY <2>2, <2>3
<1>7. PICK b \in Seq(Known) :
        b = SubSeq(w, 1, n + 1) /\ Len(b) = n + 1 /\ \A i \in 1 .. n + 1 : b[i] = w[i]
  <2>1. \A i \in 1 .. n + 1 : w[i] \in Known
    BY <1>1, <1>5
  <2>2. /\ SubSeq(w, 1, n + 1) \in Seq(Known)
        /\ Len(SubSeq(w, 1, n + 1)) = IF 1 <= n + 1 THEN (n + 1) - 1 + 1 ELSE 0
        /\ \A i \in 1 .. (n + 1) - 1 + 1 : SubSeq(w, 1, n + 1)[i] = w[1 + i - 1]
    BY <2>1, SubSeqProperties
  <2>3. Len(SubSeq(w, 1, n + 1)) = n + 1
        /\ \A i \in 1 .. n + 1 : SubSeq(w, 1, n + 1)[i] = w[i]
    BY <2>2
  <2>4. QED
    BY <2>2, <2>3
<1>8. PICK c \in Seq(Known) :
        c = e \o a /\ Len(c) = n + 1
        /\ \A i \in 1 .. n + 1 : c[i] = IF i <= 1 THEN e[i] ELSE a[i - 1]
  <2>1. /\ e \o a \in Seq(Known) /\ Len(e \o a) = Len(e) + Len(a)
        /\ \A i \in 1 .. Len(e) + Len(a) : (e \o a)[i] = IF i <= Len(e) THEN e[i] ELSE a[i - Len(e)]
    BY <1>2, <1>6, ConcatProperties
  <2>2. /\ Len(e \o a) = n + 1
        /\ \A i \in 1 .. n + 1 : (e \o a)[i] = IF i <= 1 THEN e[i] ELSE a[i - 1]
    <3>1. Len(e) = 1 /\ Len(a) = n /\ 1 + n = n + 1
      BY <1>2, <1>6
    <3>2. QED
      BY <2>1, <3>1
  <2>3. QED
    BY <2>1, <2>2
<1>9. b = c
  <2>1. ASSUME NEW i \in 1 .. n + 1 PROVE b[i] = c[i]
    <3>1. CASE i = 1
      BY <3>1, <1>2, <1>4, <1>7, <1>8
    <3>2. CASE i # 1
      <4>1. PICK k \in 1 .. n : i = k + 1 /\ i - 1 = k /\ k \in 1 .. m /\ ~(i <= 1)
        <5>1. i - 1 \in 1 .. n /\ i = (i - 1) + 1 /\ i - 1 \in 1 .. m /\ ~(i <= 1)
          BY <3>2, <1>1
        <5>2. QED
          BY <5>1
      <4>2. QED
        BY <4>1, <1>4, <1>6, <1>7, <1>8
    <3>3. QED
      BY <3>1, <3>2
  <2>2. QED
    BY <2>1, <1>7, <1>8, SeqEqual
<1>10. SubSeq(w, (n + 1) + 1, m + 1) = SubSeq(u, n + 1, m)
  <2>1. /\ \A i \in (n + 1) + 1 .. m + 1 : w[i] \in Known
        /\ \A i \in n + 1 .. m : u[i] \in Known
    BY <1>5
  <2>2. /\ SubSeq(w, (n + 1) + 1, m + 1) \in Seq(Known)
        /\ Len(SubSeq(w, (n + 1) + 1, m + 1)) =
             IF (n + 1) + 1 <= m + 1 THEN m + 1 - ((n + 1) + 1) + 1 ELSE 0
        /\ \A i \in 1 .. m + 1 - ((n + 1) + 1) + 1 :
             SubSeq(w, (n + 1) + 1, m + 1)[i] = w[(n + 1) + 1 + i - 1]
    BY <2>1, SubSeqProperties
  <2>3. /\ SubSeq(u, n + 1, m) \in Seq(Known)
        /\ Len(SubSeq(u, n + 1, m)) = IF n + 1 <= m THEN m - (n + 1) + 1 ELSE 0
        /\ \A i \in 1 .. m - (n + 1) + 1 : SubSeq(u, n + 1, m)[i] = u[n + 1 + i - 1]
    BY <2>1, SubSeqProperties
  <2>4. PICK p \in Seq(Known), q \in Seq(Known) :
          /\ p = SubSeq(w, (n + 1) + 1, m + 1) /\ q = SubSeq(u, n + 1, m)
          /\ Len(p) = m - n /\ Len(q) = m - n
          /\ \A i \in 1 .. m - n : p[i] = w[(n + i) + 1] /\ q[i] = u[n + i]
    <3>1. n <= m
      BY <1>1
    <3>2. /\ Len(SubSeq(w, (n + 1) + 1, m + 1)) = m - n /\ Len(SubSeq(u, n + 1, m)) = m - n
      BY <2>2, <2>3, <3>1
    <3>3. ASSUME NEW i \in 1 .. m - n
          PROVE  /\ SubSeq(w, (n + 1) + 1, m + 1)[i] = w[(n + i) + 1]
                 /\ SubSeq(u, n + 1, m)[i] = u[n + i]
      <4>1. (n + 1) + 1 + i - 1 = (n + i) + 1 /\ n + 1 + i - 1 = n + i
            /\ i \in 1 .. m + 1 - ((n + 1) + 1) + 1 /\ i \in 1 .. m - (n + 1) + 1
        OBVIOUS
      <4>2. QED
        BY <4>1, <2>2, <2>3
    <3>4. QED
      BY <2>2, <2>3, <3>2, <3>3
  <2>5. ASSUME NEW i \in 1 .. m - n PROVE p[i] = q[i]
    <3>1. n + i \in 1 .. m
      BY <1>1
    <3>2. QED
      BY <3>1, <2>4, <1>4
  <2>6. p = q
    BY ZenonT(60), <2>4, <2>5, SeqEqual
  <2>7. QED
    BY <2>4, <2>6
<1>11. QED
  BY <1>1, <1>2, <1>3, <1>6, <1>7, <1>8, <1>9, <1>10

\* Sequences of items put together.
LEMMA ConcatItems ==
  ASSUME NEW u \in Seq(Known), NEW v \in Seq(Known), NEW w \in Seq(Known)
  PROVE  u \o v \in Seq(Known) /\ (u \o v) \o w = u \o (v \o w)
<1>1. u \o v \in Seq(Known)
  BY ConcatProperties
<1>2. (u \o v) \o w = u \o (v \o w)
  BY SMTT(30), ConcatAssociative
<1>3. QED
  BY <1>1, <1>2

\* And four of them.
SameFour(u, v, w, x) == ((u \o v) \o w) \o x = u \o ((v \o w) \o x)
LEMMA ConcatFour ==
  ASSUME NEW u \in Seq(Known), NEW v \in Seq(Known), NEW w \in Seq(Known), NEW x \in Seq(Known)
  PROVE  SameFour(u, v, w, x)
<1>1. (u \o v) \o w = u \o (v \o w) /\ v \o w \in Seq(Known)
  BY ConcatItems
<1>2. PICK p \in Seq(Known) : p = v \o w
  BY <1>1
<1>3. (u \o p) \o x = u \o (p \o x)
  BY SMTT(30), <1>2, ConcatAssociative
<1>4. QED
  BY <1>1, <1>2, <1>3 DEF SameFour

\* What is kept of three parts, the first of them in two.
SameSides(sides, e, a, b, c) ==
  (Side("both", sides, e \o a) \o Side("left", sides, b)) \o Side("right", sides, c) =
    Side("both", sides, e)
    \o ((Side("both", sides, a) \o Side("left", sides, b)) \o Side("right", sides, c))
LEMMA SidesOfParts ==
  ASSUME NEW sides, NEW e \in Seq(Known), NEW a \in Seq(Known),
         NEW b \in Seq(Known), NEW c \in Seq(Known)
  PROVE  SameSides(sides, e, a, b, c)
<1>1. /\ Side("both", sides, e) \in Seq(Known) /\ Side("both", sides, a) \in Seq(Known)
      /\ Side("both", sides, e \o a) = Side("both", sides, e) \o Side("both", sides, a)
  BY ZenonT(60), SideIs
<1>2. Side("left", sides, b) \in Seq(Known) /\ Side("right", sides, c) \in Seq(Known)
  BY SideIs
<1>3. SameFour(Side("both", sides, e), Side("both", sides, a),
               Side("left", sides, b), Side("right", sides, c))
  BY <1>1, <1>2, ConcatFour
<1>4. QED
  BY <1>1, <1>3 DEF SameFour, SameSides

\* A pair more in front.
PairInFront(y, z, l, r, sides) ==
  Pairs(<<y>> \o l, <<z>> \o r, sides) = Side("both", sides, <<z>>) \o Pairs(l, r, sides)
LEMMA PairsStep ==
  ASSUME NEW y \in Known, NEW z \in Known, NEW l \in Seq(Known), NEW r \in Seq(Known), NEW sides
  PROVE  PairInFront(y, z, l, r, sides)
<1>1. PICK m \in Nat, k \in Nat : m = Len(l) /\ k = Len(r)
  BY LenProperties
<1>2. PICK n \in Nat : /\ n = Min({m, k}) /\ n <= m /\ n <= k /\ n + 1 = Min({m + 1, k + 1})
  <2>1. Min({m, k}) = (IF m <= k THEN m ELSE k)
        /\ Min({m + 1, k + 1}) = (IF m + 1 <= k + 1 THEN m + 1 ELSE k + 1)
    BY MinTwo
  <2>2. QED
    BY <2>1
<1>3. PICK ll \in Seq(Known), rr \in Seq(Known) :
        ll = <<y>> \o l /\ rr = <<z>> \o r /\ Len(ll) = m + 1 /\ Len(rr) = k + 1
  <2>1. <<y>> \o l \in Seq(Known) /\ Len(<<y>> \o l) = Len(l) + 1
    BY <1>1, <1>2, PartsOfCons
  <2>2. <<z>> \o r \in Seq(Known) /\ Len(<<z>> \o r) = Len(r) + 1
    BY <1>1, <1>2, PartsOfCons
  <2>3. Len(<<y>> \o l) = m + 1 /\ Len(<<z>> \o r) = k + 1
    BY <2>1, <2>2, <1>1
  <2>4. QED
    BY <2>1, <2>2, <2>3
<1>4. PICK a \in Seq(Known), e \in Seq(Known) : a = SubSeq(r, 1, n) /\ e = <<z>>
  <2>1. \A i \in 1 .. n : r[i] \in Known
    BY <1>1, <1>2, ElementOfSeq
  <2>2. SubSeq(r, 1, n) \in Seq(Known)
    BY <2>1, SubSeqProperties
  <2>3. <<z>> \in Seq(Known)
    OBVIOUS
  <2>4. QED
    BY <2>2, <2>3
<1>5. PICK b \in Seq(Known), c \in Seq(Known) :
        b = SubSeq(l, n + 1, m) /\ c = SubSeq(r, n + 1, k)
  <2>1. (\A i \in n + 1 .. m : l[i] \in Known) /\ (\A i \in n + 1 .. k : r[i] \in Known)
    BY <1>1, ElementOfSeq
  <2>2. SubSeq(l, n + 1, m) \in Seq(Known) /\ SubSeq(r, n + 1, k) \in Seq(Known)
    BY <2>1, SubSeqProperties
  <2>3. QED
    BY <2>2
<1>6. SubSeq(rr, 1, n + 1) = e \o a /\ SubSeq(rr, (n + 1) + 1, k + 1) = c
      /\ SubSeq(ll, (n + 1) + 1, m + 1) = b
  <2>1. /\ SubSeq(<<z>> \o r, 1, n + 1) = <<z>> \o SubSeq(r, 1, n)
        /\ SubSeq(<<z>> \o r, (n + 1) + 1, Len(r) + 1) = SubSeq(r, n + 1, Len(r))
    BY ZenonT(60), <1>1, <1>2, PartsOfCons
  <2>2. SubSeq(<<y>> \o l, (n + 1) + 1, Len(l) + 1) = SubSeq(l, n + 1, Len(l))
    BY ZenonT(60), <1>1, <1>2, PartsOfCons
  <2>3. QED
    BY <2>1, <2>2, <1>1, <1>3, <1>4, <1>5
<1>7. Pairs(ll, rr, sides) =
        (Side("both", sides, e \o a) \o Side("left", sides, b)) \o Side("right", sides, c)
  BY <1>2, <1>3, <1>6 DEF Pairs
<1>8. Pairs(l, r, sides) =
        (Side("both", sides, a) \o Side("left", sides, b)) \o Side("right", sides, c)
  BY <1>1, <1>2, <1>4, <1>5 DEF Pairs
<1>9. QED
  <2>1. SameSides(sides, e, a, b, c)
    BY <1>4, <1>5, SidesOfParts
  <2>2. QED
    BY <2>1, <1>3, <1>4, <1>7, <1>8 DEF SameSides, PairInFront
\* r is what is kept of p and q, that are in order.
Combined(r, p, q, sides) ==
  /\ r \in Seq(Known) /\ Ascending(r)
  /\ \A z \in Known : Below(<<z>>, p) /\ Below(<<z>>, q) => Below(<<z>>, r)
  /\ \A x \in Known : Like(r, x) = Pairs(Like(p, x), Like(q, x), sides)

\* Where one of the two is at its end, the rest of the other.
LEMMA CombinedEnd ==
  ASSUME NEW u \in Seq(Known), Ascending(u), NEW sides
  PROVE  /\ Combined(Side("right", sides, u), <<>>, u, sides)
         /\ Combined(Side("left", sides, u), u, <<>>, sides)
<1>1. PICK e \in Seq(Known) : e = <<>> /\ DOMAIN e = {}
  <2>1. <<>> \in Seq(Known)
    BY EmptySeq
  <2>2. DOMAIN <<>> = {}
    OBVIOUS
  <2>3. QED
    BY <2>1, <2>2
<1>2. Ascending(e) /\ \A z \in Known : Below(<<z>>, e)
  BY <1>1 DEF Ascending, Below
<1>3. ASSUME NEW side
      PROVE  /\ Side(side, sides, u) \in Seq(Known) /\ Ascending(Side(side, sides, u))
             /\ \A z \in Known : Below(<<z>>, u) => Below(<<z>>, Side(side, sides, u))
             /\ \A x \in Known : Like(Side(side, sides, u), x) = Side(side, sides, Like(u, x))
  <2>1. Side(side, sides, u) = u \/ Side(side, sides, u) = e
    BY <1>1 DEF Side
  <2>2. \A x \in Known : Like(Side(side, sides, u), x) = Side(side, sides, Like(u, x))
    BY SideIs
  <2>3. QED
    BY <2>1, <2>2, <1>1, <1>2
<1>4. ASSUME NEW x \in Known
      PROVE  /\ Pairs(Like(e, x), Like(u, x), sides) = Side("right", sides, Like(u, x))
             /\ Pairs(Like(u, x), Like(e, x), sides) = Side("left", sides, Like(u, x))
  <2>1. PICK l \in Seq(Known) : l = Like(u, x)
    BY LikeType
  <2>2. Like(e, x) = <<>>
    BY <1>1, LikeEmpty
  <2>3. /\ Pairs(<<>>, l, sides) = Side("right", sides, l)
        /\ Pairs(l, <<>>, sides) = Side("left", sides, l)
    BY PairsOfOne
  <2>4. QED
    BY <2>1, <2>2, <2>3
<1>5. Combined(Side("right", sides, u), e, u, sides)
  BY <1>3, <1>4 DEF Combined
<1>6. Combined(Side("left", sides, u), u, e, sides)
  BY <1>3, <1>4 DEF Combined
<1>7. QED
  BY <1>1, <1>5, <1>6

\* A sequence in order with a first item.
LEMMA FirstIs ==
  ASSUME NEW y \in Known, NEW u \in Seq(Known), Ascending(<<y>> \o u)
  PROVE  /\ <<y>> \in Seq(Known) /\ <<y>> \o u \in Seq(Known) /\ Ascending(u) /\ Below(<<y>>, u)
         /\ \A x \in Known : Order(x, y) <= 0 => Below(<<x>>, <<y>> \o u)
         /\ \A x \in Known : Below(<<x>>, <<y>> \o u) => Order(x, y) <= 0 /\ Below(<<x>>, u)
         /\ \A x \in Known : Like(<<y>> \o u, x) =
              IF Order(y, x) = 0 THEN <<y>> \o Like(u, x) ELSE Like(u, x)
<1>1. PICK e \in Seq(Known) : e = <<y>> /\ DOMAIN e = {1} /\ e[1] = y
  <2>1. <<y>> \in Seq(Known) /\ DOMAIN <<y>> = {1} /\ <<y>>[1] = y
    OBVIOUS
  <2>2. QED
    BY <2>1
<1>2. e \o u \in Seq(Known)
  BY ConcatProperties
<1>3. Ascending(u) /\ Below(e, u)
  BY <1>1, AscendingConcat
<1>4. PICK n \in Nat : n = Len(u) /\ DOMAIN u = 1 .. n /\ \A i \in 1 .. n : u[i] \in Known
  <2>1. Len(u) \in Nat /\ DOMAIN u = 1 .. Len(u) /\ \A i \in 1 .. Len(u) : u[i] \in Known
    BY LenProperties, ElementOfSeq
  <2>2. QED
    BY <2>1
<1>5. ASSUME NEW x \in Known
      PROVE  /\ Order(x, y) <= 0 => Below(<<x>>, e \o u)
             /\ Below(<<x>>, e \o u) => Order(x, y) <= 0 /\ Below(<<x>>, u)
  <2>1. PICK w \in Seq(Known) : w = <<x>> /\ DOMAIN w = {1} /\ w[1] = x
    <3>1. <<x>> \in Seq(Known) /\ DOMAIN <<x>> = {1} /\ <<x>>[1] = x
      OBVIOUS
    <3>2. QED
      BY <3>1
  <2>2. Below(w, e \o u) <=> Below(w, e) /\ Below(w, u)
    BY <1>1, <2>1, BelowConcat
  <2>3. Below(w, e) <=> Order(x, y) <= 0
    BY <1>1, <2>1 DEF Below
  <2>4. ASSUME Order(x, y) <= 0 PROVE Below(w, u)
    <3> SUFFICES ASSUME NEW i \in 1 .. n PROVE Order(x, u[i]) <= 0
      BY <1>4, <2>1 DEF Below
    <3>1. Order(y, u[i]) <= 0 /\ u[i] \in Known
      BY <1>1, <1>3, <1>4 DEF Below
    <3>2. QED
      BY <2>4, <3>1, OrderIs
  <2>5. QED
    BY <2>1, <2>2, <2>3, <2>4
<1>6. ASSUME NEW x \in Known
      PROVE  Like(e \o u, x) = IF Order(y, x) = 0 THEN <<y>> \o Like(u, x) ELSE Like(u, x)
  <2>1. Like(e \o u, x) = Like(e, x) \o Like(u, x)
    BY <1>1, LikeConcat
  <2>2. Like(e, x) = IF Order(y, x) = 0 THEN <<y>> ELSE <<>>
    BY <1>1, LikeOne
  <2>3. PICK l \in Seq(Known) : l = Like(u, x)
    BY LikeType
  <2>4. <<>> \o l = l
    BY ConcatEmptySeq
  <2>5. QED
    BY <2>1, <2>2, <2>3, <2>4
<1>7. QED
  BY <1>1, <1>2, <1>3, <1>5, <1>6

\* Nothing is like x in a sequence in order that starts behind it.
LEMMA NoneLike ==
  ASSUME NEW z \in Known, NEW u \in Seq(Known), Ascending(<<z>> \o u),
         NEW x \in Known, Order(x, z) < 0
  PROVE  Like(<<z>> \o u, x) = <<>>
<1>1. PICK w \in Seq(Known) : w = <<z>> \o u
  BY FirstIs
<1>2. Order(z, z) <= 0
  BY OrderIs
<1>3. Below(<<z>>, w)
  BY <1>1, <1>2, FirstIs
<1>4. ASSUME NEW i \in DOMAIN w PROVE Order(w[i], x) # 0
  <2>1. w[i] \in Known
    BY LenProperties, ElementOfSeq
  <2>2. Order(z, w[i]) <= 0
    <3>1. DOMAIN <<z>> = {1} /\ <<z>>[1] = z
      OBVIOUS
    <3>2. QED
      BY <3>1, <1>3 DEF Below
  <2>3. Order(x, w[i]) < 0
    BY <2>1, <2>2, OrderIs
  <2>4. Order(w[i], x) > 0
    BY <2>1, <2>3, OrderIs
  <2>5. QED
    BY <2>4
<1>5. Places(w, x) = {}
  BY <1>4 DEF Places
<1>6. Like(w, x) = <<>>
  BY <1>5, LikeNone
<1>7. QED
  BY <1>1, <1>6

\* An item in front of what is kept.
LEMMA CombinedCons ==
  ASSUME NEW y \in Known, NEW r \in Seq(Known), NEW side, NEW sides,
         Ascending(r), Below(<<y>>, r)
  PROVE  /\ Side(side, sides, <<y>>) \o r \in Seq(Known)
         /\ Ascending(Side(side, sides, <<y>>) \o r)
         /\ \A z \in Known : Order(z, y) <= 0 /\ Below(<<z>>, r) =>
                               Below(<<z>>, Side(side, sides, <<y>>) \o r)
         /\ \A x \in Known : Like(Side(side, sides, <<y>>) \o r, x) =
              IF Order(y, x) = 0 THEN Side(side, sides, <<y>>) \o Like(r, x) ELSE Like(r, x)
<1>1. PICK e \in Seq(Known) : e = <<y>> /\ DOMAIN e = {1} /\ e[1] = y
  <2>1. <<y>> \in Seq(Known) /\ DOMAIN <<y>> = {1} /\ <<y>>[1] = y
    OBVIOUS
  <2>2. QED
    BY <2>1
<1>2. PICK none \in Seq(Known) : none = <<>>
  BY EmptySeq
<1>3. CASE side \in sides
  <2>1. Side(side, sides, <<y>>) = e
    BY <1>1, <1>3 DEF Side
  <2>2. Ascending(e)
    BY <1>1, AscendingOne
  <2>3. Ascending(e \o r)
    BY <2>2, <1>1, AscendingConcat
  <2>4. ASSUME NEW z \in Known, Order(z, y) <= 0 PROVE Below(<<z>>, e \o r)
    <3>1. Ascending(<<y>> \o r)
      BY <2>3, <1>1
    <3>2. Below(<<z>>, <<y>> \o r)
      BY <2>4, <3>1, FirstIs
    <3>3. QED
      BY <3>2, <1>1
  <2>5. e \o r \in Seq(Known)
    BY <1>1, ConcatProperties
  <2>6. \A x \in Known : Like(e \o r, x) = IF Order(y, x) = 0 THEN <<y>> \o Like(r, x) ELSE Like(r, x)
    <3>1. Ascending(<<y>> \o r)
      BY <2>3, <1>1
    <3>2. QED
      BY <3>1, <1>1, FirstIs
  <2>7. QED
    BY <2>1, <2>3, <2>4, <2>5, <2>6, <1>1
<1>4. CASE side \notin sides
  <2>1. Side(side, sides, <<y>>) = none
    BY <1>2, <1>4 DEF Side
  <2>2. \A u \in Seq(Known) : none \o u = u
    BY <1>2, ConcatEmptySeq
  <2>3. \A x \in Known : Like(r, x) \in Seq(Known)
    BY LikeType
  <2>4. none \o r = r /\ \A x \in Known : none \o Like(r, x) = Like(r, x)
    BY <2>2, <2>3
  <2>5. QED
    BY <2>1, <2>4
<1>5. QED
  BY <1>3, <1>4

\* The first of the left side is the less: it is on the left side only.
LEMMA CombinedLeft ==
  ASSUME NEW y \in Known, NEW p \in Seq(Known), Ascending(<<y>> \o p),
         NEW z \in Known, NEW q \in Seq(Known), Ascending(<<z>> \o q), Order(y, z) < 0,
         NEW r, NEW sides, Combined(r, p, <<z>> \o q, sides)
  PROVE  Combined(Side("left", sides, <<y>>) \o r, <<y>> \o p, <<z>> \o q, sides)
<1>1. PICK w \in Seq(Known) : w = <<z>> \o q
  BY FirstIs
<1>2. /\ r \in Seq(Known) /\ Ascending(r)
      /\ \A x \in Known : Below(<<x>>, p) /\ Below(<<x>>, w) => Below(<<x>>, r)
      /\ \A x \in Known : Like(r, x) = Pairs(Like(p, x), Like(w, x), sides)
  BY <1>1 DEF Combined
<1>3. Below(<<y>>, r)
  <2>1. Below(<<y>>, p)
    BY FirstIs
  <2>2. Order(y, z) <= 0
    BY OrderIs
  <2>3. Below(<<y>>, w)
    BY <1>1, <2>2, FirstIs
  <2>4. QED
    BY <1>2, <2>1, <2>3
<1>4. PICK t : t = Side("left", sides, <<y>>) \o r
  OBVIOUS
<1>5. /\ t \in Seq(Known) /\ Ascending(t)
      /\ \A x \in Known : Order(x, y) <= 0 /\ Below(<<x>>, r) => Below(<<x>>, t)
      /\ \A x \in Known : Like(t, x) =
           IF Order(y, x) = 0 THEN Side("left", sides, <<y>>) \o Like(r, x) ELSE Like(r, x)
  BY SMTT(30), <1>2, <1>3, <1>4, CombinedCons
<1>6. ASSUME NEW x \in Known, Below(<<x>>, <<y>> \o p), Below(<<x>>, w) PROVE Below(<<x>>, t)
  <2>1. Order(x, y) <= 0 /\ Below(<<x>>, p)
    BY <1>6, FirstIs
  <2>2. QED
    BY <2>1, <1>2, <1>5, <1>6
<1>7. ASSUME NEW x \in Known
      PROVE  Like(t, x) = Pairs(Like(<<y>> \o p, x), Like(w, x), sides)
  <2>1. Like(<<y>> \o p, x) = IF Order(y, x) = 0 THEN <<y>> \o Like(p, x) ELSE Like(p, x)
    BY FirstIs
  <2>2. CASE Order(y, x) = 0
    <3>1. Order(x, z) < 0
      BY <2>2, OrderIs
    <3>2. Like(w, x) = <<>>
      BY <1>1, <3>1, NoneLike
    <3>3. PICK l \in Seq(Known), e \in Seq(Known) : l = Like(p, x) /\ e = <<y>>
      <4>1. Like(p, x) \in Seq(Known) /\ <<y>> \in Seq(Known)
        BY LikeType, FirstIs
      <4>2. QED
        BY <4>1
    <3>4. e \o l \in Seq(Known)
      BY <3>3, ConcatProperties
    <3>5. /\ Pairs(l, <<>>, sides) = Side("left", sides, l)
          /\ Pairs(e \o l, <<>>, sides) = Side("left", sides, e \o l)
      BY <3>3, <3>4, PairsOfOne
    <3>6. Side("left", sides, e \o l) = Side("left", sides, e) \o Side("left", sides, l)
      <4>1. SideOfParts("left", sides, e, l)
        BY <3>3, SideConcat
      <4>2. QED
        BY <4>1 DEF SideOfParts
    <3>7. QED
      BY <1>2, <1>5, <2>1, <2>2, <3>2, <3>3, <3>5, <3>6
  <2>3. CASE Order(y, x) # 0
    BY <1>2, <1>5, <2>1, <2>3
  <2>4. QED
    BY <2>2, <2>3
<1>8. Combined(t, <<y>> \o p, w, sides)
  BY <1>5, <1>6, <1>7 DEF Combined
<1>9. QED
  BY <1>1, <1>4, <1>8

\* The first of the right side is the less.
LEMMA CombinedRight ==
  ASSUME NEW y \in Known, NEW p \in Seq(Known), Ascending(<<y>> \o p),
         NEW z \in Known, NEW q \in Seq(Known), Ascending(<<z>> \o q), Order(y, z) > 0,
         NEW r, NEW sides, Combined(r, <<y>> \o p, q, sides)
  PROVE  Combined(Side("right", sides, <<z>>) \o r, <<y>> \o p, <<z>> \o q, sides)
<1>1. PICK w \in Seq(Known) : w = <<y>> \o p
  BY FirstIs
<1>2. /\ r \in Seq(Known) /\ Ascending(r)
      /\ \A x \in Known : Below(<<x>>, w) /\ Below(<<x>>, q) => Below(<<x>>, r)
      /\ \A x \in Known : Like(r, x) = Pairs(Like(w, x), Like(q, x), sides)
  BY <1>1 DEF Combined
<1>3. Order(z, y) < 0
  BY OrderIs
<1>4. Below(<<z>>, r)
  <2>1. Below(<<z>>, q)
    BY FirstIs
  <2>2. Order(z, y) <= 0
    BY <1>3, OrderIs
  <2>3. Below(<<z>>, w)
    BY <1>1, <2>2, FirstIs
  <2>4. QED
    BY <1>2, <2>1, <2>3
<1>5. PICK t : t = Side("right", sides, <<z>>) \o r
  OBVIOUS
<1>6. /\ t \in Seq(Known) /\ Ascending(t)
      /\ \A x \in Known : Order(x, z) <= 0 /\ Below(<<x>>, r) => Below(<<x>>, t)
      /\ \A x \in Known : Like(t, x) =
           IF Order(z, x) = 0 THEN Side("right", sides, <<z>>) \o Like(r, x) ELSE Like(r, x)
  BY SMTT(30), <1>2, <1>4, <1>5, CombinedCons
<1>7. ASSUME NEW x \in Known, Below(<<x>>, w), Below(<<x>>, <<z>> \o q) PROVE Below(<<x>>, t)
  <2>1. Order(x, z) <= 0 /\ Below(<<x>>, q)
    BY <1>7, FirstIs
  <2>2. QED
    BY <2>1, <1>2, <1>6, <1>7
<1>8. ASSUME NEW x \in Known
      PROVE  Like(t, x) = Pairs(Like(w, x), Like(<<z>> \o q, x), sides)
  <2>1. Like(<<z>> \o q, x) = IF Order(z, x) = 0 THEN <<z>> \o Like(q, x) ELSE Like(q, x)
    BY FirstIs
  <2>2. CASE Order(z, x) = 0
    <3>1. Order(x, y) < 0
      BY <1>3, <2>2, OrderIs
    <3>2. Like(w, x) = <<>>
      BY <1>1, <3>1, NoneLike
    <3>3. PICK l \in Seq(Known), e \in Seq(Known) : l = Like(q, x) /\ e = <<z>>
      <4>1. Like(q, x) \in Seq(Known) /\ <<z>> \in Seq(Known)
        BY LikeType, FirstIs
      <4>2. QED
        BY <4>1
    <3>4. e \o l \in Seq(Known)
      BY <3>3, ConcatProperties
    <3>5. /\ Pairs(<<>>, l, sides) = Side("right", sides, l)
          /\ Pairs(<<>>, e \o l, sides) = Side("right", sides, e \o l)
      BY <3>3, <3>4, PairsOfOne
    <3>6. Side("right", sides, e \o l) = Side("right", sides, e) \o Side("right", sides, l)
      <4>1. SideOfParts("right", sides, e, l)
        BY <3>3, SideConcat
      <4>2. QED
        BY <4>1 DEF SideOfParts
    <3>7. QED
      BY <1>2, <1>6, <2>1, <2>2, <3>2, <3>3, <3>5, <3>6
  <2>3. CASE Order(z, x) # 0
    BY <1>2, <1>6, <2>1, <2>3
  <2>4. QED
    BY <2>2, <2>3
<1>9. Combined(t, w, <<z>> \o q, sides)
  BY <1>6, <1>7, <1>8 DEF Combined
<1>10. QED
  BY <1>1, <1>5, <1>9

\* The first of both sides are equal: a pair, of which the right one is kept.
LEMMA CombinedBoth ==
  ASSUME NEW y \in Known, NEW p \in Seq(Known), Ascending(<<y>> \o p),
         NEW z \in Known, NEW q \in Seq(Known), Ascending(<<z>> \o q), Order(y, z) = 0,
         NEW r, NEW sides, Combined(r, p, q, sides)
  PROVE  Combined(Side("both", sides, <<z>>) \o r, <<y>> \o p, <<z>> \o q, sides)
<1>1. /\ r \in Seq(Known) /\ Ascending(r)
      /\ \A x \in Known : Below(<<x>>, p) /\ Below(<<x>>, q) => Below(<<x>>, r)
      /\ \A x \in Known : Like(r, x) = Pairs(Like(p, x), Like(q, x), sides)
  BY DEF Combined
<1>2. Order(z, y) <= 0 /\ \A x \in Known : Order(y, x) = 0 <=> Order(z, x) = 0
  <2>1. Order(z, y) = 0
    BY OrderIs
  <2>2. \A x \in Known : Order(y, x) = 0 <=> Order(z, x) = 0
    BY OrderIs
  <2>3. QED
    BY <2>1, <2>2
<1>3. Below(<<z>>, r)
  <2>1. Below(<<z>>, q)
    BY FirstIs
  <2>2. Below(<<z>>, <<y>> \o p)
    BY <1>2, FirstIs
  <2>3. Below(<<z>>, p)
    BY <2>2, FirstIs
  <2>4. QED
    BY <1>1, <2>1, <2>3
<1>4. PICK t : t = Side("both", sides, <<z>>) \o r
  OBVIOUS
<1>5. /\ t \in Seq(Known) /\ Ascending(t)
      /\ \A x \in Known : Order(x, z) <= 0 /\ Below(<<x>>, r) => Below(<<x>>, t)
      /\ \A x \in Known : Like(t, x) =
           IF Order(z, x) = 0 THEN Side("both", sides, <<z>>) \o Like(r, x) ELSE Like(r, x)
  BY SMTT(30), <1>1, <1>3, <1>4, CombinedCons
<1>6. ASSUME NEW x \in Known, Below(<<x>>, <<y>> \o p), Below(<<x>>, <<z>> \o q)
      PROVE  Below(<<x>>, t)
  <2>1. Below(<<x>>, p)
    BY <1>6, FirstIs
  <2>2. Order(x, z) <= 0 /\ Below(<<x>>, q)
    BY <1>6, FirstIs
  <2>3. QED
    BY <2>1, <2>2, <1>1, <1>5
<1>7. ASSUME NEW x \in Known
      PROVE  Like(t, x) = Pairs(Like(<<y>> \o p, x), Like(<<z>> \o q, x), sides)
  <2>1. Like(<<y>> \o p, x) = IF Order(y, x) = 0 THEN <<y>> \o Like(p, x) ELSE Like(p, x)
    BY FirstIs
  <2>2. Like(<<z>> \o q, x) = IF Order(z, x) = 0 THEN <<z>> \o Like(q, x) ELSE Like(q, x)
    BY FirstIs
  <2>3. CASE Order(y, x) = 0
    <3>1. PICK k \in Seq(Known), l \in Seq(Known) : k = Like(p, x) /\ l = Like(q, x)
      BY LikeType
    <3>2. Pairs(<<y>> \o k, <<z>> \o l, sides) = Side("both", sides, <<z>>) \o Pairs(k, l, sides)
      <4>1. PairInFront(y, z, k, l, sides)
        BY <3>1, PairsStep
      <4>2. QED
        BY <4>1 DEF PairInFront
    <3>3. QED
      BY <1>1, <1>2, <1>5, <2>1, <2>2, <2>3, <3>1, <3>2
  <2>4. CASE Order(y, x) # 0
    BY <1>1, <1>2, <1>5, <2>1, <2>2, <2>4
  <2>5. QED
    BY <2>3, <2>4
<1>8. Combined(t, <<y>> \o p, <<z>> \o q, sides)
  BY <1>5, <1>6, <1>7 DEF Combined
<1>9. QED
  BY <1>4, <1>8

\* A sequence from a position on.
From(s, i) == SubSeq(s, i, Len(s))

\* It is an item and the sequence from the next position on, or empty.
LEMMA FromIs ==
  ASSUME NEW s \in Seq(Known), NEW i \in 1 .. Len(s) + 1
  PROVE  /\ From(s, i) \in Seq(Known) /\ (Ascending(s) => Ascending(From(s, i)))
         /\ i > Len(s) => From(s, i) = <<>>
         /\ i <= Len(s) => s[i] \in Known /\ From(s, i) = <<s[i]>> \o From(s, i + 1)
<1>1. PICK n \in Nat : n = Len(s)
  BY LenProperties
<1>2. From(s, i) \in Seq(Known) /\ SubSeq(s, 1, i - 1) \in Seq(Known)
  <2>1. (\A k \in i .. n : s[k] \in Known) /\ (\A k \in 1 .. i - 1 : s[k] \in Known)
    BY <1>1, ElementOfSeq
  <2>2. i \in Int /\ i - 1 \in Int /\ 1 \in Int
    BY <1>1
  <2>3. SubSeq(s, i, n) \in Seq(Known)
    BY <2>1, <2>2, SubSeqProperties
  <2>4. SubSeq(s, 1, i - 1) \in Seq(Known)
    BY <2>1, <2>2, SubSeqProperties
  <2>5. QED
    BY <1>1, <2>3, <2>4 DEF From
<1>3. ASSUME Ascending(s) PROVE Ascending(From(s, i))
  <2>1. SubSeq(s, 1, i - 1) \o SubSeq(s, (i - 1) + 1, n) = SubSeq(s, 1, n)
    <3>1. 1 \in 1 .. n + 1 /\ i - 1 \in 1 - 1 .. n /\ n \in i - 1 .. n
      BY <1>1
    <3>2. QED
      BY <3>1, <1>1, ConcatAdjacentSubSeq
  <2>2. SubSeq(s, 1, n) = s /\ (i - 1) + 1 = i
    BY <1>1, SubSeqFull
  <2>3. SubSeq(s, 1, i - 1) \o From(s, i) = s
    BY <1>1, <2>1, <2>2 DEF From
  <2>4. Ascending(SubSeq(s, 1, i - 1) \o From(s, i))
    BY <1>3, <2>3
  <2>5. QED
    BY <2>4, <1>2, AscendingConcat
<1>4. ASSUME i > Len(s) PROVE From(s, i) = <<>>
  BY <1>1, <1>4, SubSeqEmpty DEF From
<1>5. ASSUME i <= Len(s) PROVE s[i] \in Known /\ From(s, i) = <<s[i]>> \o From(s, i + 1)
  <2>1. i \in 1 .. Len(s) /\ Len(s) \in i .. Len(s)
    BY <1>1, <1>5
  <2>2. QED
    BY <2>1, ElementOfSeq, SubSeqRecursiveFirst DEF From
<1>6. QED
  BY <1>2, <1>3, <1>4, <1>5

\* A step of the loop at positions i and j; f has the results further on.
CommStep(s, t, sides, i, j, f) ==
  IF i > Len(s) THEN Side("right", sides, From(t, j))
  ELSE IF j > Len(t) THEN Side("left", sides, From(s, i))
  ELSE IF Order(s[i], t[j]) < 0 THEN Side("left", sides, <<s[i]>>) \o f[<<i + 1, j>>]
  ELSE IF Order(s[i], t[j]) > 0 THEN Side("right", sides, <<t[j]>>) \o f[<<i, j + 1>>]
  ELSE Side("both", sides, <<t[j]>>) \o f[<<i + 1, j + 1>>]

IsComm(comm, s, t, sides) ==
  comm = [p \in (1 .. Len(s) + 1) \X (1 .. Len(t) + 1) |->
            LET i == p[1]
                j == p[2]
                c == Order(s[i], t[j])
            IN CASE i > Len(s) -> Side("right", sides, SubSeq(t, j, Len(t)))
                 [] i <= Len(s) /\ j > Len(t) -> Side("left", sides, SubSeq(s, i, Len(s)))
                 [] OTHER ->
                      CASE c < 0 -> Side("left", sides, <<s[i]>>) \o comm[<<i + 1, j>>]
                        [] c > 0 -> Side("right", sides, <<t[j]>>) \o comm[<<i, j + 1>>]
                        [] OTHER -> Side("both", sides, <<t[j]>>) \o comm[<<i + 1, j + 1>>]]

Steps(m, n) == (1 .. m + 1) \X (1 .. n + 1)

\* A pair of positions.
LEMMA StepsIs ==
  ASSUME NEW m \in Nat, NEW n \in Nat, NEW p \in Steps(m, n)
  PROVE  p = <<p[1], p[2]>> /\ p[1] \in 1 .. m + 1 /\ p[2] \in 1 .. n + 1
BY DEF Steps

\* One item kept in front is a sequence of items.
LEMMA SideType ==
  ASSUME NEW side, NEW sides, NEW y \in Known, NEW r \in Seq(Known)
  PROVE  Side(side, sides, <<y>>) \o r \in Seq(Known)
<1>1. <<y>> \in Seq(Known) /\ <<>> \in Seq(Known)
  OBVIOUS
<1>2. Side(side, sides, <<y>>) \in Seq(Known)
  BY <1>1 DEF Side
<1>3. QED
  BY <1>2, ConcatProperties

\* The loop is these steps.
LEMMA CommIs ==
  ASSUME NEW s \in Seq(Known), NEW t \in Seq(Known), NEW sides
  PROVE  \E f :
           /\ \A i \in 1 .. Len(s) + 1, j \in 1 .. Len(t) + 1 :
                f[<<i, j>>] = CommStep(s, t, sides, i, j, f)
           /\ Comm(s, t, sides) = f[<<1, 1>>]
<1>1. PICK m \in Nat, n \in Nat : m = Len(s) /\ n = Len(t)
  BY LenProperties
<1> DEFINE D == Steps(m, n)
           V == Seq(Known)
           measure == [p \in D |-> (m + 1 - p[1]) + (n + 1 - p[2])]
           rule == [q \in D \X [D -> V] |-> CommStep(s, t, sides, q[1][1], q[1][2], q[2])]
<1>2. ASSUME NEW i \in 1 .. m + 1, NEW j \in 1 .. n + 1
      PROVE  <<i, j>> \in D /\ measure[<<i, j>>] = (m + 1 - i) + (n + 1 - j)
  BY DEF Steps
<1>3. measure \in [D -> 0 .. (m + n + 1) - 1]
  <2>1. ASSUME NEW p \in D PROVE (m + 1 - p[1]) + (n + 1 - p[2]) \in 0 .. (m + n + 1) - 1
    BY SMTT(30), StepsIs
  <2>2. QED
    BY <2>1
<1>4. ASSUME NEW p \in D, NEW f \in [D -> V]
      PROVE  rule[<<p, f>>] = CommStep(s, t, sides, p[1], p[2], f)
  OBVIOUS
<1>5. ASSUME NEW i \in 1 .. m, NEW j \in 1 .. n
      PROVE  /\ s[i] \in Known /\ t[j] \in Known
             /\ <<i + 1, j>> \in D /\ <<i, j + 1>> \in D /\ <<i + 1, j + 1>> \in D
             /\ measure[<<i + 1, j>>] < (m + 1 - i) + (n + 1 - j)
             /\ measure[<<i, j + 1>>] < (m + 1 - i) + (n + 1 - j)
             /\ measure[<<i + 1, j + 1>>] < (m + 1 - i) + (n + 1 - j)
  <2>1. i \in 1 .. m + 1 /\ j \in 1 .. n + 1 /\ i + 1 \in 1 .. m + 1 /\ j + 1 \in 1 .. n + 1
    OBVIOUS
  <2>2. s[i] \in Known /\ t[j] \in Known
    BY <1>1, ElementOfSeq
  <2> HIDE DEF D, measure
  <2>3. /\ <<i + 1, j>> \in D
        /\ measure[<<i + 1, j>>] = (m + 1 - (i + 1)) + (n + 1 - j)
    BY <2>1, <1>2
  <2>4. /\ <<i, j + 1>> \in D
        /\ measure[<<i, j + 1>>] = (m + 1 - i) + (n + 1 - (j + 1))
    BY <2>1, <1>2
  <2>5. /\ <<i + 1, j + 1>> \in D
        /\ measure[<<i + 1, j + 1>>] = (m + 1 - (i + 1)) + (n + 1 - (j + 1))
    BY <2>1, <1>2
  <2>6. QED
    BY <2>2, <2>3, <2>4, <2>5
<1>6. rule \in [D \X [D -> V] -> V]
  <2>1. ASSUME NEW p \in D, NEW f \in [D -> V]
        PROVE  CommStep(s, t, sides, p[1], p[2], f) \in V
    <3>1. PICK i \in 1 .. m + 1, j \in 1 .. n + 1 : i = p[1] /\ j = p[2]
      BY StepsIs
    <3>2. CASE i > Len(s)
      <4>1. From(t, j) \in Seq(Known)
        BY <1>1, FromIs
      <4>2. Side("right", sides, From(t, j)) \in V
        BY <4>1, SideIs
      <4>3. QED
        BY <3>1, <3>2, <4>2 DEF CommStep
    <3>3. CASE ~(i > Len(s)) /\ j > Len(t)
      <4>1. From(s, i) \in Seq(Known)
        BY <1>1, FromIs
      <4>2. Side("left", sides, From(s, i)) \in V
        BY <4>1, SideIs
      <4>3. QED
        BY <3>1, <3>3, <4>2 DEF CommStep
    <3>4. CASE ~(i > Len(s)) /\ ~(j > Len(t))
      <4>1. i \in 1 .. m /\ j \in 1 .. n
        BY <3>4, <1>1
      <4>2. s[i] \in Known /\ t[j] \in Known
        BY <4>1, <1>5
      <4> HIDE DEF D
      <4>3. f[<<i + 1, j>>] \in V /\ f[<<i, j + 1>>] \in V /\ f[<<i + 1, j + 1>>] \in V
        BY <4>1, <1>5
      <4>4. /\ Side("left", sides, <<s[i]>>) \o f[<<i + 1, j>>] \in V
            /\ Side("right", sides, <<t[j]>>) \o f[<<i, j + 1>>] \in V
            /\ Side("both", sides, <<t[j]>>) \o f[<<i + 1, j + 1>>] \in V
        BY <4>2, <4>3, SideType
      <4> HIDE DEF V
      <4>5. CommStep(s, t, sides, i, j, f) \in V
        BY <3>4, <4>4 DEF CommStep
      <4>6. QED
        BY <3>1, <4>5
    <3>5. QED
      BY <3>2, <3>3, <3>4
  <2>2. QED
    BY <2>1
<1>7. ASSUME NEW p \in D, NEW f \in [D -> V], NEW g \in [D -> V],
             \A e \in D : measure[e] < measure[p] => f[e] = g[e]
      PROVE  rule[<<p, f>>] = rule[<<p, g>>]
  <2>1. PICK i \in 1 .. m + 1, j \in 1 .. n + 1 : i = p[1] /\ j = p[2]
    BY StepsIs
  <2>2. p = <<i, j>> /\ measure[p] = (m + 1 - i) + (n + 1 - j)
    BY <2>1, <1>2, StepsIs
  <2>3. ASSUME ~(i > Len(s)), ~(j > Len(t))
        PROVE  /\ f[<<i + 1, j>>] = g[<<i + 1, j>>] /\ f[<<i, j + 1>>] = g[<<i, j + 1>>]
               /\ f[<<i + 1, j + 1>>] = g[<<i + 1, j + 1>>]
    <3>1. i \in 1 .. m /\ j \in 1 .. n
      BY <2>3, <1>1
    <3> HIDE DEF D, measure
    <3>2. QED
      BY <3>1, <2>2, <1>5, <1>7
  <2>4. CommStep(s, t, sides, i, j, f) = CommStep(s, t, sides, i, j, g)
    BY <2>3 DEF CommStep
  <2>5. QED
    BY <2>1, <2>4, <1>4
<1>8. V # {}
  BY EmptySeq
<1> HIDE DEF measure, rule, D, V
<1>9. PICK f : IsFixed(f, D, V, rule)
  <2>1. LooksBelow(D, V, rule, measure)
    BY <1>7 DEF LooksBelow
  <2>2. m + n + 1 \in Nat
    OBVIOUS
  <2>3. IsRule(rule, D, V, measure, m + n + 1)
    BY <2>1, <2>2, <1>3, <1>6, <1>8 DEF IsRule
  <2>4. QED
    BY <2>3, RecursionOver
<1> DEFINE comm == CHOOSE comm : IsComm(comm, s, t, sides)
<1>10. Comm(s, t, sides) = comm[<<1, 1>>]
  BY DEF Comm, IsComm, Side
<1>11. ASSUME NEW g
       PROVE  IsComm(g, s, t, sides) <=> g = [p \in D |-> CommStep(s, t, sides, p[1], p[2], g)]
  <2> DEFINE StepAt(p) ==
        LET i == p[1]
            j == p[2]
            c == Order(s[i], t[j])
        IN CASE i > Len(s) -> Side("right", sides, SubSeq(t, j, Len(t)))
             [] i <= Len(s) /\ j > Len(t) -> Side("left", sides, SubSeq(s, i, Len(s)))
             [] OTHER ->
                  CASE c < 0 -> Side("left", sides, <<s[i]>>) \o g[<<i + 1, j>>]
                    [] c > 0 -> Side("right", sides, <<t[j]>>) \o g[<<i, j + 1>>]
                    [] OTHER -> Side("both", sides, <<t[j]>>) \o g[<<i + 1, j + 1>>]
  <2>1. IsComm(g, s, t, sides) <=> g = [p \in D |-> StepAt(p)]
    BY <1>1 DEF IsComm, Steps, D
  <2>2. ASSUME NEW p \in D PROVE StepAt(p) = CommStep(s, t, sides, p[1], p[2], g)
    <3>1. PICK i \in 1 .. m + 1, j \in 1 .. n + 1 : i = p[1] /\ j = p[2]
      BY StepsIs DEF D
    <3>2. CASE i > Len(s)
      BY <3>1, <3>2 DEF CommStep, From
    <3>3. CASE ~(i > Len(s)) /\ j > Len(t)
      <4>1. i <= Len(s)
        BY <3>3, <1>1
      <4>2. QED
        BY <3>1, <3>3, <4>1 DEF CommStep, From
    <3>4. CASE ~(i > Len(s)) /\ ~(j > Len(t))
      <4>1. Order(s[i], t[j]) \in Int
        <5>1. s[i] \in Known /\ t[j] \in Known
          BY <3>4, <1>1, <1>5
        <5>2. QED
          BY <5>1, OrderIs
      <4>2. ~(Order(s[i], t[j]) < 0 /\ Order(s[i], t[j]) > 0)
        BY <4>1
      <4>3. QED
        BY <3>1, <3>4, <4>2 DEF CommStep
    <3>5. QED
      BY <3>2, <3>3, <3>4
  <2> HIDE DEF StepAt
  <2>3. QED
    BY <2>1, <2>2
<1>12. f = [p \in D |-> CommStep(s, t, sides, p[1], p[2], f)]
  BY <1>4, <1>9 DEF IsFixed
<1>13. comm = [p \in D |-> CommStep(s, t, sides, p[1], p[2], comm)]
  BY <1>11, <1>12
<1> HIDE DEF comm
<1>14. \A p \in D : comm[p] = CommStep(s, t, sides, p[1], p[2], comm)
  BY <1>13
<1>15. ASSUME NEW i \in 1 .. m + 1, NEW j \in 1 .. n + 1
       PROVE  comm[<<i, j>>] = CommStep(s, t, sides, i, j, comm)
  BY <1>2, <1>14
<1>16. QED
  BY <1>1, <1>10, <1>15

\* Of two sequences in order, the loop keeps what it is to keep of each side, and
\* of equal items one pair after the other.
LEMMA Comms ==
  ASSUME NEW s \in Seq(Known), Ascending(s), NEW t \in Seq(Known), Ascending(t), NEW sides
  PROVE  Combined(Comm(s, t, sides), s, t, sides)
<1>1. PICK f :
        /\ \A i \in 1 .. Len(s) + 1, j \in 1 .. Len(t) + 1 :
             f[<<i, j>>] = CommStep(s, t, sides, i, j, f)
        /\ Comm(s, t, sides) = f[<<1, 1>>]
  BY CommIs
<1>2. PICK m \in Nat, n \in Nat : m = Len(s) /\ n = Len(t)
  BY LenProperties
<1> DEFINE Right(i, j) == Combined(f[<<i, j>>], From(s, i), From(t, j), sides)
           T == {c \in Nat : \A i \in 1 .. m + 1, j \in 1 .. n + 1 :
                               (m + 1 - i) + (n + 1 - j) < c => Right(i, j)}
<1>3. 0 \in T
  OBVIOUS
<1>4. ASSUME NEW c \in Nat, c \in T PROVE c + 1 \in T
  <2>1. ASSUME NEW i \in 1 .. m + 1, NEW j \in 1 .. n + 1,
               (m + 1 - i) + (n + 1 - j) < c + 1
        PROVE  Right(i, j)
    <3>1. f[<<i, j>>] = CommStep(s, t, sides, i, j, f)
      BY <1>1, <1>2
    <3>2. PICK p \in Seq(Known), q \in Seq(Known) :
            p = From(s, i) /\ q = From(t, j) /\ Ascending(p) /\ Ascending(q)
      BY <1>2, FromIs
    <3>3. CASE i > Len(s)
      <4>1. f[<<i, j>>] = Side("right", sides, q)
        BY <3>1, <3>2, <3>3 DEF CommStep
      <4>2. p = <<>>
        BY <3>2, <3>3, <1>2, FromIs
      <4>3. Combined(Side("right", sides, q), <<>>, q, sides)
        BY <3>2, CombinedEnd
      <4>4. QED
        BY <3>2, <4>1, <4>2, <4>3
    <3>4. CASE ~(i > Len(s)) /\ j > Len(t)
      <4>1. f[<<i, j>>] = Side("left", sides, p)
        BY <3>1, <3>2, <3>4 DEF CommStep
      <4>2. q = <<>>
        BY <3>2, <3>4, <1>2, FromIs
      <4>3. Combined(Side("left", sides, p), p, <<>>, sides)
        BY <3>2, CombinedEnd
      <4>4. QED
        BY <3>2, <4>1, <4>2, <4>3
    <3>5. CASE ~(i > Len(s)) /\ ~(j > Len(t))
      <4>1. i \in 1 .. m /\ j \in 1 .. n /\ i + 1 \in 1 .. m + 1 /\ j + 1 \in 1 .. n + 1
            /\ i <= Len(s) /\ j <= Len(t)
        BY <3>5, <1>2
      <4>2. PICK y \in Known, pp \in Seq(Known) :
              y = s[i] /\ pp = From(s, i + 1) /\ p = <<y>> \o pp
        <5>1. From(s, i + 1) \in Seq(Known)
          BY <4>1, <1>2, FromIs
        <5>2. s[i] \in Known /\ From(s, i) = <<s[i]>> \o From(s, i + 1)
          BY <4>1, <1>2, FromIs
        <5>3. QED
          BY <5>1, <5>2, <3>2
      <4>3. PICK z \in Known, qq \in Seq(Known) :
              z = t[j] /\ qq = From(t, j + 1) /\ q = <<z>> \o qq
        <5>1. From(t, j + 1) \in Seq(Known)
          BY <4>1, <1>2, FromIs
        <5>2. t[j] \in Known /\ From(t, j) = <<t[j]>> \o From(t, j + 1)
          BY <4>1, <1>2, FromIs
        <5>3. QED
          BY <5>1, <5>2, <3>2
      <4>4. Ascending(<<y>> \o pp) /\ Ascending(<<z>> \o qq) /\ Order(y, z) \in Int
        BY <3>2, <4>2, <4>3, OrderIs
      <4>5. CASE Order(y, z) < 0
        <5>1. (m + 1 - (i + 1)) + (n + 1 - j) < c
          BY <2>1
        <5>2. Right(i + 1, j)
          BY <5>1, <4>1, <1>4
        <5>3. Combined(f[<<i + 1, j>>], pp, <<z>> \o qq, sides)
          BY <5>2, <3>2, <4>2, <4>3
        <5>4. Combined(Side("left", sides, <<y>>) \o f[<<i + 1, j>>], <<y>> \o pp, <<z>> \o qq, sides)
          BY <5>3, <4>2, <4>3, <4>4, <4>5, CombinedLeft
        <5>5. f[<<i, j>>] = Side("left", sides, <<y>>) \o f[<<i + 1, j>>]
          BY <3>1, <3>5, <4>2, <4>3, <4>5 DEF CommStep
        <5>6. QED
          BY <5>4, <5>5, <3>2, <4>2, <4>3
      <4>6. CASE Order(y, z) > 0
        <5>1. (m + 1 - i) + (n + 1 - (j + 1)) < c
          BY <2>1
        <5>2. Right(i, j + 1)
          BY <5>1, <4>1, <1>4
        <5>3. Combined(f[<<i, j + 1>>], <<y>> \o pp, qq, sides)
          BY <5>2, <3>2, <4>2, <4>3
        <5>4. Combined(Side("right", sides, <<z>>) \o f[<<i, j + 1>>], <<y>> \o pp, <<z>> \o qq, sides)
          BY <5>3, <4>2, <4>3, <4>4, <4>6, CombinedRight
        <5>5. f[<<i, j>>] = Side("right", sides, <<z>>) \o f[<<i, j + 1>>]
          <6>1. ~(Order(y, z) < 0)
            BY <4>4, <4>6
          <6>2. QED
            BY <6>1, <3>1, <3>5, <4>2, <4>3, <4>6 DEF CommStep
        <5>6. QED
          BY <5>4, <5>5, <3>2, <4>2, <4>3
      <4>7. CASE Order(y, z) = 0
        <5>1. (m + 1 - (i + 1)) + (n + 1 - (j + 1)) < c
          BY <2>1
        <5>2. Right(i + 1, j + 1)
          BY <5>1, <4>1, <1>4
        <5>3. Combined(f[<<i + 1, j + 1>>], pp, qq, sides)
          BY <5>2, <4>2, <4>3
        <5>4. Combined(Side("both", sides, <<z>>) \o f[<<i + 1, j + 1>>], <<y>> \o pp, <<z>> \o qq, sides)
          BY <5>3, <4>2, <4>3, <4>4, <4>7, CombinedBoth
        <5>5. f[<<i, j>>] = Side("both", sides, <<z>>) \o f[<<i + 1, j + 1>>]
          BY SMTT(30), <3>1, <3>5, <4>2, <4>3, <4>7 DEF CommStep
        <5>6. QED
          BY <5>4, <5>5, <3>2, <4>2, <4>3
      <4>8. QED
        BY <4>4, <4>5, <4>6, <4>7
    <3>6. QED
      BY <3>3, <3>4, <3>5
  <2>2. QED
    BY <2>1
<1>5. Nat \subseteq T
  <2> HIDE DEF T
  <2>1. QED
    BY <1>3, <1>4, Induction
<1>6. Right(1, 1)
  <2>1. m + n + 1 \in Nat /\ (m + 1 - 1) + (n + 1 - 1) < m + n + 1
        /\ 1 \in 1 .. m + 1 /\ 1 \in 1 .. n + 1
    OBVIOUS
  <2>2. m + n + 1 \in T
    BY <2>1, <1>5
  <2>3. QED
    BY <2>1, <2>2
<1>7. From(s, 1) = s /\ From(t, 1) = t
  BY SubSeqFull DEF From
<1>8. QED
  BY <1>1, <1>6, <1>7

-----------------------------------------------------------------------------
(* Arrays and views of them *)

\* An array that is made well.
Good(v) == IsArray(v) /\ WellMade(v)

\* The items of an array are those of its storage, of a view a part of them.
LEMMA ItemsAre ==
  ASSUME NEW v, Good(v)
  PROVE  /\ Items(v) \in Seq(Known) /\ Size(v) \in Nat /\ Len(Items(v)) = Size(v)
         /\ \A i \in 1 .. Size(v) : Items(v)[i] = ItemAt(v, i - 1)
         /\ ~IsView(v) => v.items \in Seq(Known) /\ Items(v) = v.items
         /\ IsView(v) => /\ v.parent \in Seq(Known) /\ v.start \in Nat /\ v.len \in Nat \ {0}
                         /\ v.start + v.len <= Len(v.parent)
                         /\ Size(v) = v.len
                         /\ \A i \in 1 .. Size(v) : Items(v)[i] = v.parent[v.start + i]
<1>1. v.type = "array" /\ WellMade(v)
  BY DEF Good, IsArray
<1>2. CASE ~IsView(v)
  <2>1. PICK s \in Seq(Known) : s = v.items
    BY <1>1, <1>2 DEF WellMade, Storage
  <2>2. PICK n \in Nat : n = Len(s) /\ \A i \in 1 .. n : s[i] \in Known
    BY LenProperties, ElementOfSeq
  <2>3. Size(v) = n
    BY <1>1, <1>2, <2>1, <2>2 DEF Size
  <2>4. ASSUME NEW i \in 1 .. n PROVE ItemAt(v, i - 1) = s[i]
    <3>1. n > 0 /\ i - 1 < n /\ (i - 1) + 1 = i
      OBVIOUS
    <3>2. QED
      BY <1>2, <2>1, <2>2, <2>3, <3>1 DEF ItemAt
  <2>5. Items(v) = [i \in 1 .. n |-> s[i]]
    BY <2>3, <2>4 DEF Items
  <2>6. s = [i \in 1 .. n |-> s[i]]
    BY <2>2, LenProperties
  <2>7. Items(v) = s
    BY <2>5, <2>6
  <2>8. QED
    BY <1>2, <2>1, <2>2, <2>3, <2>4, <2>7
<1>3. CASE IsView(v)
  <2>1. PICK s \in Seq(Known) : s = v.parent
    BY <1>1, <1>3 DEF WellMade, Storage
  <2>2. PICK b \in Nat, n \in Nat \ {0} : b = v.start /\ n = v.len /\ b + n <= Len(s)
    BY <1>1, <1>3, <2>1 DEF WellMade
  <2>3. PICK m \in Nat : m = Len(s) /\ \A i \in 1 .. m : s[i] \in Known
    BY LenProperties, ElementOfSeq
  <2>4. Size(v) = n
    BY <1>3, <2>2 DEF Size
  <2>5. ASSUME NEW i \in 1 .. n PROVE ItemAt(v, i - 1) = s[b + i] /\ s[b + i] \in Known
    <3>1. b + (i - 1) < m /\ b + (i - 1) + 1 = b + i /\ b + i \in 1 .. m
      BY SMTT(30), <2>2, <2>3
    <3>2. QED
      BY <1>3, <2>1, <2>2, <2>3, <3>1 DEF ItemAt
  <2>6. Items(v) = [i \in 1 .. n |-> s[b + i]]
    BY <2>4, <2>5 DEF Items
  <2>7. [i \in 1 .. n |-> s[b + i]] \in Seq(Known)
    BY <2>5, IsASeq
  <2>8. Len(Items(v)) = n
    BY <2>6
  <2>9. \A i \in 1 .. n : Items(v)[i] = s[b + i]
    BY <2>6
  <2>10. QED
    BY <1>3, <2>1, <2>2, <2>4, <2>5, <2>6, <2>7, <2>8, <2>9
<1>4. QED
  BY <1>2, <1>3

\* An array put together of items.
LEMMA ArrayIs ==
  ASSUME NEW q \in Seq(Known)
  PROVE  Good(Array(q)) /\ Items(Array(q)) = q /\ Defined(Array(q))
<1>1. PICK v : v = Array(q)
  OBVIOUS
<1>2. v.type = "array" /\ v.items = q /\ ~IsView(v)
  BY <1>1 DEF Array, IsView
<1>3. Good(v)
  BY <1>2 DEF Good, IsArray, WellMade, Storage
<1>4. Items(v) = q
  BY <1>2, <1>3, ItemsAre
<1>5. QED
  BY <1>1, <1>2, <1>3, <1>4 DEF Defined

\* The empty one.
LEMMA NoItems == Good(ByType("array")) /\ Items(ByType("array")) = <<>>
<1>1. ByType("array") = Array(<<>>) /\ <<>> \in Seq(Known)
  BY EmptySeq DEF ByType
<1>2. QED
  BY <1>1, ArrayIs

\* A part of a sequence of items.
LEMMA PartIs ==
  ASSUME NEW s \in Seq(Known), NEW a \in Nat, NEW b \in Nat, a <= b, b <= Len(s)
  PROVE  /\ SubSeq(s, a + 1, b) \in Seq(Known) /\ Len(SubSeq(s, a + 1, b)) = b - a
         /\ \A i \in 1 .. b - a : SubSeq(s, a + 1, b)[i] = s[a + i]
<1>1. \A i \in a + 1 .. b : s[i] \in Known
  BY LenProperties, ElementOfSeq
<1>2. /\ SubSeq(s, a + 1, b) \in Seq(Known)
      /\ Len(SubSeq(s, a + 1, b)) = IF a + 1 <= b THEN b - (a + 1) + 1 ELSE 0
      /\ \A i \in 1 .. b - (a + 1) + 1 : SubSeq(s, a + 1, b)[i] = s[a + 1 + i - 1]
  BY <1>1, SubSeqProperties
<1>3. ASSUME NEW i \in 1 .. b - a PROVE SubSeq(s, a + 1, b)[i] = s[a + i]
  <2>1. i \in 1 .. b - (a + 1) + 1 /\ a + 1 + i - 1 = a + i
    OBVIOUS
  <2>2. QED
    BY <2>1, <1>2
<1>4. QED
  BY <1>2, <1>3

\* The items of a view are a part of those of the array it is made from, which
\* may be a view itself.
LEMMA ViewIs ==
  ASSUME NEW v, Good(v), NEW a \in Nat, NEW n \in Nat \ {0}, a + n <= Size(v)
  PROVE  Good(View(v, a, n)) /\ Items(View(v, a, n)) = SubSeq(Items(v), a + 1, a + n)
<1>1. PICK w : w = View(v, a, n)
  OBVIOUS
<1>2. PICK s \in Seq(Known), m \in Nat : s = Items(v) /\ m = Size(v) /\ m = Len(s)
  BY ItemsAre
<1>3. PICK t \in Seq(Known) :
        t = SubSeq(s, a + 1, a + n) /\ Len(t) = n /\ \A i \in 1 .. n : t[i] = s[a + i]
  <2>1. a <= a + n /\ a + n <= Len(s) /\ a + n \in Nat /\ (a + n) - a = n
    BY <1>2
  <2>2. /\ SubSeq(s, a + 1, a + n) \in Seq(Known) /\ Len(SubSeq(s, a + 1, a + n)) = (a + n) - a
        /\ \A i \in 1 .. (a + n) - a : SubSeq(s, a + 1, a + n)[i] = s[a + i]
    BY <2>1, PartIs
  <2>3. QED
    BY <2>1, <2>2
<1>4. PICK p \in Seq(Known), b \in Nat :
        /\ w = SubArray(p, b, n) /\ b + n <= Len(p)
        /\ \A i \in 1 .. n : p[b + i] = s[a + i]
  <2>1. CASE IsView(v)
    <3>1. /\ v.parent \in Seq(Known) /\ v.start \in Nat /\ v.len \in Nat \ {0}
          /\ v.start + v.len <= Len(v.parent) /\ Size(v) = v.len
          /\ \A i \in 1 .. Size(v) : Items(v)[i] = v.parent[v.start + i]
      BY <2>1, ItemsAre
    <3>2. PICK p \in Seq(Known), b \in Nat : p = v.parent /\ b = v.start
      BY <3>1
    <3>3. w = SubArray(p, a + b, n)
      BY <1>1, <2>1, <3>2 DEF View, Within
    <3>4. Len(p) \in Nat /\ b + m <= Len(p) /\ \A i \in 1 .. m : s[i] = p[b + i]
      BY <1>2, <3>1, <3>2, LenProperties
    <3>5. a + b \in Nat /\ (a + b) + n <= Len(p)
      BY <1>2, <3>4
    <3>6. ASSUME NEW i \in 1 .. n PROVE p[(a + b) + i] = s[a + i]
      <4>1. a + i \in 1 .. m /\ (a + b) + i = b + (a + i)
        BY <1>2
      <4>2. QED
        BY <4>1, <3>4
    <3>7. QED
      BY <3>3, <3>5, <3>6
  <2>2. CASE ~IsView(v)
    <3>1. w = SubArray(s, a, n)
      BY <1>1, <1>2, <2>2 DEF View
    <3>2. QED
      BY <3>1, <1>2
  <2>3. QED
    BY <2>1, <2>2
<1>5. w.type = "array" /\ IsView(w) /\ w.parent = p /\ w.start = b /\ w.len = n
  BY <1>4 DEF SubArray, IsView
<1>6. Good(w)
  BY <1>4, <1>5 DEF Good, IsArray, WellMade, Storage
<1>7. /\ Items(w) \in Seq(Known) /\ Len(Items(w)) = n
      /\ \A i \in 1 .. n : Items(w)[i] = p[b + i]
  BY <1>5, <1>6, ItemsAre
<1>8. \A i \in 1 .. n : Items(w)[i] = t[i]
  BY <1>3, <1>4, <1>7
<1>9. Items(w) = t
  BY <1>3, <1>7, <1>8, SeqEqual
<1>10. QED
  BY <1>1, <1>2, <1>3, <1>6, <1>9

\* Building an array of items that have a value.
LEMMA BuildIs ==
  ASSUME NEW s \in Seq(Known)
  PROVE  Build("array", s) = Array(s)
<1>1. DOMAIN s = 1 .. Len(s) /\ \A i \in 1 .. Len(s) : s[i] \in Known
  BY LenProperties, ElementOfSeq
<1>2. \A i \in 1 .. Len(s) : i \in {k \in DOMAIN s : Defined(s[k])}
  BY <1>1, ArrayAssumption
<1>3. Selected(s, {k \in DOMAIN s : Defined(s[k])}) = s
  BY <1>2, SelectedAll
<1>4. QED
  BY <1>3 DEF Build

\* splitAt cuts the items in two.
LEMMA SplitAtIs ==
  ASSUME NEW v, Good(v), NEW pos \in Int
  PROVE  \E n \in 0 .. Len(Items(v)) :
           /\ Good(SplitAt(v, pos)[1]) /\ Items(SplitAt(v, pos)[1]) = SubSeq(Items(v), 1, n)
           /\ Good(SplitAt(v, pos)[2])
           /\ Items(SplitAt(v, pos)[2]) = SubSeq(Items(v), n + 1, Len(Items(v)))
<1>1. v.type = "array"
  BY DEF Good, IsArray
<1>2. PICK s \in Seq(Known), m \in Nat : s = Items(v) /\ m = Size(v) /\ m = Len(s)
  BY ItemsAre
<1>3. PICK at \in Int : at = IF pos < 0 /\ m + pos > 0 THEN m + pos ELSE pos
  OBVIOUS
<1>4. PICK none : none = ByType("array") /\ Good(none) /\ Items(none) = <<>>
  BY NoItems
<1>5. SubSeq(s, 1, m) = s /\ SubSeq(s, m + 1, m) = <<>> /\ SubSeq(s, 1, 0) = <<>>
  BY <1>2, SubSeqFull, SubSeqEmpty
<1>6. CASE at > 0 /\ at < m
  <2>1. SplitAt(v, pos) = <<View(v, 0, at), View(v, at, m - at)>>
    BY <1>1, <1>2, <1>3, <1>6 DEF SplitAt
  <2>2. at \in Nat \ {0} /\ m - at \in Nat \ {0} /\ 0 + at <= m /\ at + (m - at) <= m
        /\ 0 + 1 = 1 /\ 0 + at = at /\ at + (m - at) = m
    BY <1>6
  <2>3. Good(View(v, 0, at)) /\ Items(View(v, 0, at)) = SubSeq(s, 0 + 1, 0 + at)
    BY <1>2, <2>2, ViewIs
  <2>4. Good(View(v, at, m - at)) /\ Items(View(v, at, m - at)) = SubSeq(s, at + 1, at + (m - at))
    BY <1>2, <2>2, ViewIs
  <2>5. at \in 0 .. m
    BY <1>6
  <2>6. QED
    BY <1>2, <2>1, <2>2, <2>3, <2>4, <2>5
<1>7. CASE at > 0 /\ ~(at < m)
  <2>1. at >= m
    BY <1>7
  <2>2. SplitAt(v, pos) = <<v, none>>
    BY <1>1, <1>2, <1>3, <1>4, <1>7, <2>1 DEF SplitAt
  <2>3. SplitAt(v, pos)[1] = v /\ SplitAt(v, pos)[2] = none
    BY <2>2
  <2>4. /\ Good(SplitAt(v, pos)[1]) /\ Items(SplitAt(v, pos)[1]) = SubSeq(s, 1, m)
        /\ Good(SplitAt(v, pos)[2]) /\ Items(SplitAt(v, pos)[2]) = SubSeq(s, m + 1, m)
    BY <1>2, <1>4, <1>5, <2>3
  <2>5. m \in 0 .. m
    OBVIOUS
  <2>6. QED
    BY <1>2, <2>4, <2>5
<1>8. CASE ~(at > 0)
  <2>1. SplitAt(v, pos) = <<none, v>>
    BY <1>1, <1>2, <1>3, <1>4, <1>8 DEF SplitAt
  <2>2. SplitAt(v, pos)[1] = none /\ SplitAt(v, pos)[2] = v
    BY <2>1
  <2>3. 0 \in 0 .. m /\ 0 + 1 = 1
    OBVIOUS
  <2>4. /\ Good(SplitAt(v, pos)[1]) /\ Items(SplitAt(v, pos)[1]) = SubSeq(s, 1, 0)
        /\ Good(SplitAt(v, pos)[2]) /\ Items(SplitAt(v, pos)[2]) = SubSeq(s, 0 + 1, m)
    BY <1>2, <1>4, <1>5, <2>2, <2>3
  <2>5. QED
    BY <1>2, <2>3, <2>4
<1>9. QED
  BY <1>6, <1>7, <1>8

\* slice leaves a part of the items.
LEMMA SliceToIs ==
  ASSUME NEW v, Good(v), NEW start \in Int, NEW end \in Int
  PROVE  \E first \in 1 .. Len(Items(v)) + 1, last \in 0 .. Len(Items(v)) :
           /\ Good(SliceTo(v, start, end))
           /\ Items(SliceTo(v, start, end)) = SubSeq(Items(v), first, last)
<1>1. v.type = "array"
  BY DEF Good, IsArray
<1>2. PICK s \in Seq(Known), m \in Nat : s = Items(v) /\ m = Size(v) /\ m = Len(s)
  BY ItemsAre
<1>3. PICK from \in Int : from = IF start < 0 THEN m + start ELSE start
  OBVIOUS
<1>4. PICK to \in Int : to = CASE start < 0 -> m
                               [] start >= 0 /\ end < 0 -> m + end
                               [] OTHER -> end
  OBVIOUS
<1>5. SliceTo(v, start, end) =
        IF m = 0 \/ from >= to \/ from >= m THEN ByType("array")
        ELSE IF start < 0 /\ from <= 0 THEN v
        ELSE Build("array", SubSeq(s, from + 1, Min({to, m})))
  BY <1>1, <1>2, <1>3, <1>4 DEF SliceTo
<1>6. CASE m = 0 \/ from >= to \/ from >= m
  <2>1. SliceTo(v, start, end) = ByType("array")
    BY <1>5, <1>6
  <2>2. SubSeq(s, 1, 0) = <<>> /\ 1 \in 1 .. m + 1 /\ 0 \in 0 .. m
    BY SubSeqEmpty
  <2>3. QED
    BY <1>2, <2>1, <2>2, NoItems
<1>7. CASE ~(m = 0 \/ from >= to \/ from >= m) /\ start < 0 /\ from <= 0
  <2>1. SliceTo(v, start, end) = v
    BY <1>5, <1>7
  <2>2. SubSeq(s, 1, m) = s /\ 1 \in 1 .. m + 1 /\ m \in 0 .. m
    BY <1>2, SubSeqFull
  <2>3. QED
    BY <1>2, <2>1, <2>2
<1>8. CASE ~(m = 0 \/ from >= to \/ from >= m) /\ ~(start < 0 /\ from <= 0)
  <2>1. from \in Nat /\ to \in Nat
    BY <1>3, <1>8
  <2>2. PICK e \in Nat : e = Min({to, m}) /\ from <= e /\ e <= m
    <3>1. Min({to, m}) = IF to <= m THEN to ELSE m
      BY <2>1, MinTwo
    <3>2. QED
      BY <3>1, <2>1, <1>8
  <2>3. SubSeq(s, from + 1, e) \in Seq(Known)
    BY <1>2, <2>1, <2>2, PartIs
  <2>4. SliceTo(v, start, end) = Array(SubSeq(s, from + 1, e))
    <3>1. SliceTo(v, start, end) = Build("array", SubSeq(s, from + 1, e))
      BY <1>5, <1>8, <2>2
    <3>2. QED
      BY <2>3, <3>1, BuildIs
  <2>5. from + 1 \in 1 .. m + 1 /\ e \in 0 .. m
    BY <1>8, <2>1, <2>2
  <2>6. QED
    BY <1>2, <2>3, <2>4, <2>5, ArrayIs
<1>9. QED
  BY <1>6, <1>7, <1>8

\* shift takes the first item away.
LEMMA ShiftIs ==
  ASSUME NEW v, Good(v)
  PROVE  /\ Good(Shift(v)[1])
         /\ IF Items(v) = <<>>
            THEN Items(Shift(v)[1]) = <<>> /\ Shift(v)[2] = Undefined
            ELSE Items(Shift(v)[1]) = Tail(Items(v)) /\ Shift(v)[2] = Head(Items(v))
<1>1. v.type = "array"
  BY DEF Good, IsArray
<1>2. PICK s \in Seq(Known), m \in Nat : s = Items(v) /\ m = Size(v) /\ m = Len(s)
  BY ItemsAre
<1>3. Shift(v) = <<SliceTo(v, 1, m), ItemAt(v, 0)>>
  BY <1>1, <1>2 DEF Shift, Slice
<1>4. SliceTo(v, 1, m) = IF m = 0 \/ 1 >= m THEN ByType("array")
                         ELSE Build("array", SubSeq(s, 1 + 1, Min({m, m})))
  <2>1. PICK one \in Int : one = 1
    OBVIOUS
  <2>2. ~(one < 0) /\ ~(m < 0) /\ one >= 0
    BY <1>2, <2>1
  <2>3. PICK from \in Int : from = IF one < 0 THEN m + one ELSE one
    BY <2>2
  <2>4. PICK to \in Int : to = CASE one < 0 -> m
                               [] one >= 0 /\ m < 0 -> m + m
                               [] OTHER -> m
    BY <1>2, <2>2
  <2>5. SliceTo(v, one, m) =
          IF m = 0 \/ from >= to \/ from >= m THEN ByType("array")
          ELSE IF one < 0 /\ from <= 0 THEN v
          ELSE Build("array", SubSeq(s, from + 1, Min({to, m})))
    BY <1>1, <1>2, <2>3, <2>4 DEF SliceTo
  <2>6. from = one /\ to = m
    BY <1>2, <2>2, <2>3, <2>4
  <2>7. QED
    BY <2>1, <2>2, <2>5, <2>6
<1>5. CASE m = 0
  <2>1. s = <<>>
    BY <1>2, <1>5, EmptySeq
  <2>2. ~IsView(v)
    BY <1>2, <1>5, ItemsAre
  <2>3. ItemAt(v, 0) = Undefined
    BY <1>2, <1>5, <2>2 DEF ItemAt
  <2>4. QED
    BY <1>2, <1>3, <1>4, <1>5, <2>1, <2>3, NoItems
<1>6. CASE m # 0
  <2>1. s # <<>> /\ 1 \in 1 .. m /\ 1 - 1 = 0
    BY <1>2, <1>6, EmptySeq
  <2>2. ItemAt(v, 0) = Head(s)
    <3>1. Items(v)[1] = ItemAt(v, 1 - 1)
      BY <1>2, <2>1, ItemsAre
    <3>2. Head(s) = s[1]
      OBVIOUS
    <3>3. QED
      BY <1>2, <2>1, <3>1, <3>2
  <2>3. Tail(s) = SubSeq(s, 2, m) /\ Tail(s) \in Seq(Known) /\ Len(Tail(s)) = m - 1
    BY <1>2, <2>1, TailIsSubSeq, HeadTailProperties
  <2>4. Good(SliceTo(v, 1, m)) /\ Items(SliceTo(v, 1, m)) = Tail(s)
    <3>1. CASE m = 1
      <4>1. Tail(s) = <<>>
        BY <2>3, <3>1, EmptySeq
      <4>2. SliceTo(v, 1, m) = ByType("array")
        BY <1>4, <3>1
      <4>3. QED
        BY <4>1, <4>2, NoItems
    <3>2. CASE m # 1
      <4>1. Min({m, m}) = m
        BY MinTwo
      <4>2. SliceTo(v, 1, m) = Build("array", SubSeq(s, 2, m))
        BY <1>4, <1>6, <3>2, <4>1
      <4>3. SliceTo(v, 1, m) = Array(Tail(s))
        BY <2>3, <4>2, BuildIs
      <4>4. QED
        BY <2>3, <4>3, ArrayIs
    <3>3. QED
      BY <3>1, <3>2
  <2>5. QED
    BY <1>2, <1>3, <2>1, <2>2, <2>4
<1>7. QED
  BY <1>5, <1>6

\* pop takes the last.
LEMMA PopIs ==
  ASSUME NEW v, Good(v)
  PROVE  /\ Good(Pop(v)[1])
         /\ IF Items(v) = <<>>
            THEN Items(Pop(v)[1]) = <<>> /\ Pop(v)[2] = Undefined
            ELSE Items(Pop(v)[1]) = Front(Items(v)) /\ Pop(v)[2] = Last(Items(v))
<1>1. PICK s \in Seq(Known), m \in Nat : s = Items(v) /\ m = Size(v) /\ m = Len(s)
  BY ItemsAre
<1>2. CASE m = 0
  <2>1. s = <<>>
    BY <1>1, <1>2, EmptySeq
  <2>2. Pop(v) = <<v, Undefined>>
    BY <1>1, <1>2 DEF Pop
  <2>3. Pop(v)[1] = v /\ Pop(v)[2] = Undefined /\ Items(v) = <<>>
    BY <1>1, <2>1, <2>2
  <2>4. Good(Pop(v)[1]) /\ Items(Pop(v)[1]) = <<>>
    BY <2>3
  <2>5. QED
    BY <2>3, <2>4
<1>3. CASE m # 0
  <2>1. s # <<>>
    BY <1>1, <1>3, EmptySeq
  <2>2. Pop(v) = <<Array(Front(s)), Last(s)>>
    BY <1>1, <1>3 DEF Pop
  <2>3. Front(s) \in Seq(Known)
    BY <2>1, FrontLast
  <2>4. Good(Array(Front(s))) /\ Items(Array(Front(s))) = Front(s)
    BY <2>3, ArrayIs
  <2>5. QED
    BY <1>1, <2>1, <2>2, <2>4
<1>4. QED
  BY <1>2, <1>3

-----------------------------------------------------------------------------
(* The answers about an array *)

\* reverse.
LEMMA ReversedIs ==
  ASSUME NEW v, Good(v)
  PROVE  Items(Reversed(v)) = Reverse(Items(v))
<1>1. PICK s \in Seq(Known), m \in Nat : s = Items(v) /\ m = Len(s)
  BY ItemsAre
<1>2. ASSUME NEW i \in 1 .. m PROVE s[(m - i) + 1] \in Known
  <2>1. (m - i) + 1 \in 1 .. Len(s)
    BY <1>1
  <2>2. QED
    BY <1>1, <2>1, ElementOfSeq
<1>3. Reverse(s) = [i \in 1 .. m |-> s[(m - i) + 1]]
  BY <1>1 DEF Reverse
<1>4. [i \in 1 .. m |-> s[(m - i) + 1]] \in Seq(Known)
  BY <1>2, IsASeq
<1>5. Reverse(s) \in Seq(Known)
  BY <1>3, <1>4
<1>6. QED
  BY <1>1, <1>5, ArrayIs DEF Reversed

\* The loops that look for an item, and the one that takes all that are equal
\* to it.
LEMMA IndexIs ==
  ASSUME NEW v, Good(v), NEW x \in Known
  PROVE  /\ FindIndex(v, LAMBDA y : Order(y, x) = 0) =
              IF Places(Items(v), x) = {} THEN -1 ELSE Min(Places(Items(v), x)) - 1
         /\ FindIndexBack(v, LAMBDA y : Order(y, x) = 0) =
              IF Places(Items(v), x) = {} THEN -1 ELSE Max(Places(Items(v), x)) - 1
         /\ Items(Filter(v, LAMBDA y : Order(y, x) = 0)) = Like(Items(v), x)
<1>1. PICK s \in Seq(Known) : s = Items(v)
  BY ItemsAre
<1>2. PICK here : here = Places(s, x)
  OBVIOUS
<1>3. {i \in 1 .. Len(s) : Order(s[i], x) = 0} = here
  BY <1>2, LenProperties DEF Places
<1>4. FindIndex(v, LAMBDA y : Order(y, x) = 0) = (IF here # {} THEN Min(here) ELSE 0) - 1
  BY <1>1, <1>3 DEF FindIndex, SelectInSeq
<1>5. FindIndexBack(v, LAMBDA y : Order(y, x) = 0) = (IF here # {} THEN Max(here) ELSE 0) - 1
  BY <1>1, <1>3 DEF FindIndexBack, SelectLastInSeq
<1>6. Items(Filter(v, LAMBDA y : Order(y, x) = 0)) = Like(s, x)
  <2>1. v.type = "array"
    BY DEF Good, IsArray
  <2>2. {i \in DOMAIN s : Order(s[i], x) = 0} = here
    BY <1>2 DEF Places
  <2>3. Filter(v, LAMBDA y : Order(y, x) = 0) = Build("array", Selected(s, here))
    BY <1>1, <2>1, <2>2 DEF Filter
  <2>4. Selected(s, here) = Like(s, x) /\ Like(s, x) \in Seq(Known)
    BY <1>2, LikeType DEF Like
  <2>5. Filter(v, LAMBDA y : Order(y, x) = 0) = Array(Like(s, x))
    BY <2>3, <2>4, BuildIs
  <2>6. QED
    BY <2>4, <2>5, ArrayIs
<1>7. CASE here = {}
  <2>1. 0 - 1 = -1
    OBVIOUS
  <2>2. QED
    BY <1>1, <1>2, <1>4, <1>5, <1>6, <1>7, <2>1
<1>8. CASE here # {}
  BY <1>1, <1>2, <1>4, <1>5, <1>6, <1>8
<1>9. QED
  BY <1>7, <1>8

\* sort, uniq, group, split and reverse are right.
LEMMA SortAnswer ==
  ASSUME NEW v, Good(v)
  PROVE  SortRight(v, [sorted |-> Sort(Items(v)), uniq |-> Uniq(Sort(Items(v))),
                       groups |-> Group(Sort(Items(v))), runs |-> Split(Items(v)),
                       reversed |-> Reversed(v)])
<1>1. PICK t \in Seq(Known) : t = Items(v)
  BY ItemsAre
<1>2. PICK s \in Seq(Known) :
        s = Sort(t) /\ Ascending(s) /\ \A x \in Known : Like(s, x) = Like(t, x)
  BY Sorts
<1>3. PICK u : u = Uniq(s) /\ Uniqued(u, s)
  BY <1>2, Uniqs
<1>4. Distinct(u) /\ AllOf(u, s) /\ \A x \in Known : Like(u, x) = FirstOf(Like(s, x))
  BY <1>3 DEF Uniqued
<1>5. PICK g : g = Group(s)
  OBVIOUS
<1>6. FlattenSeq(g) = s /\ [i \in DOMAIN g |-> Head(g[i])] = u
  BY <1>3, <1>5, GroupRight
<1>7. PICK r : r = Split(t)
  OBVIOUS
<1>8. FlattenSeq(r) = t /\ \A i \in DOMAIN r : r[i] # <<>> => Like(r[i], Head(r[i])) = r[i]
  BY <1>7, SplitRight
<1>9. PICK w : w = Reversed(v) /\ Items(w) = Reverse(t)
  BY <1>1, ReversedIs
<1>10. PICK a : a = [sorted |-> s, uniq |-> u, groups |-> g, runs |-> r, reversed |-> w]
  OBVIOUS
<1>11. a.sorted = s /\ a.uniq = u /\ a.groups = g /\ a.runs = r /\ a.reversed = w
  BY <1>10
<1>12. SortRight(v, a)
  BY <1>1, <1>2, <1>4, <1>6, <1>8, <1>9, <1>11 DEF SortRight
<1>13. QED
  BY <1>1, <1>2, <1>3, <1>5, <1>7, <1>9, <1>10, <1>12

\* Finding, the bounds, findIndex and filter are right.
LEMMA SearchAnswer ==
  ASSUME NEW v, Good(v), NEW x \in Known
  PROVE  SearchRight(v, x,
           [at |-> FindItem(Sort(Items(v)), x), lower |-> LowerBound(Sort(Items(v)), x),
            upper |-> UpperBound(Sort(Items(v)), x), range |-> EqualRange(Sort(Items(v)), x),
            first |-> FindIndex(v, LAMBDA y : Order(y, x) = 0),
            last |-> FindIndexBack(v, LAMBDA y : Order(y, x) = 0),
            like |-> Items(Filter(v, LAMBDA y : Order(y, x) = 0))])
<1>1. PICK t \in Seq(Known) : t = Items(v)
  BY ItemsAre
<1>2. PICK s \in Seq(Known) : s = Sort(t) /\ Ascending(s) /\ Like(s, x) = Like(t, x)
  BY Sorts
<1>3. PICK at, here : at = Places(s, x) /\ here = Places(t, x)
  OBVIOUS
<1>4. at = {} <=> here = {}
  BY <1>2, <1>3, LikeNone
<1>5. PICK f : f = FindIndex(v, LAMBDA y : Order(y, x) = 0)
  OBVIOUS
<1>6. PICK b : b = FindIndexBack(v, LAMBDA y : Order(y, x) = 0)
  OBVIOUS
<1>7. PICK k : k = Items(Filter(v, LAMBDA y : Order(y, x) = 0))
  OBVIOUS
<1>8. f = IF here = {} THEN -1 ELSE Min(here) - 1
  BY <1>1, <1>3, <1>5, IndexIs
<1>9. b = IF here = {} THEN -1 ELSE Max(here) - 1
  BY <1>1, <1>3, <1>6, IndexIs
<1>10. k = Like(t, x)
  BY <1>1, <1>7, IndexIs
<1>11. PICK a : a = [at |-> FindItem(s, x), lower |-> LowerBound(s, x),
                     upper |-> UpperBound(s, x), range |-> EqualRange(s, x),
                     first |-> f, last |-> b, like |-> k]
  OBVIOUS
<1>12. /\ a.at = FindItem(s, x) /\ a.lower = LowerBound(s, x) /\ a.upper = UpperBound(s, x)
       /\ a.range = EqualRange(s, x) /\ a.first = f /\ a.last = b /\ a.like = k
  BY <1>11
<1>13. /\ IF at = {}
          THEN a.at = Len(s) /\ a.range = <<Len(s), Len(s)>>
          ELSE a.at + 1 \in at /\ a.range = <<Min(at) - 1, Max(at)>>
       /\ <<a.lower, a.upper>> = a.range
  BY <1>2, <1>3, <1>12, Bounds
<1>14. IF at = {}
       THEN a.first = -1 /\ a.last = -1
       ELSE a.first = Min(here) - 1 /\ a.last = Max(here) - 1
  BY <1>4, <1>8, <1>9, <1>12
<1>15. SearchRight(v, x, a)
  BY <1>1, <1>2, <1>3, <1>4, <1>10, <1>12, <1>13, <1>14 DEF SearchRight
<1>16. QED
  BY <1>1, <1>2, <1>5, <1>6, <1>7, <1>11, <1>15

\* merge, intersection, complement and symdiff are right.
LEMMA CombineAnswer ==
  ASSUME NEW v, Good(v), NEW w, Good(w), NEW sides
  PROVE  CombineRight(v, w, sides, Comm(Sort(Items(v)), Sort(Items(w)), sides))
<1>1. PICK t \in Seq(Known), u \in Seq(Known) : t = Items(v) /\ u = Items(w)
  BY ItemsAre
<1>2. PICK p \in Seq(Known) :
        p = Sort(t) /\ Ascending(p) /\ \A x \in Known : Like(p, x) = Like(t, x)
  BY Sorts
<1>3. PICK q \in Seq(Known) :
        q = Sort(u) /\ Ascending(q) /\ \A x \in Known : Like(q, x) = Like(u, x)
  BY Sorts
<1>4. PICK a : a = Comm(p, q, sides)
  OBVIOUS
<1>5. Combined(a, p, q, sides)
  BY <1>2, <1>3, <1>4, Comms
<1>6. Ascending(a) /\ \A x \in Known : Like(a, x) = Pairs(Like(t, x), Like(u, x), sides)
  BY <1>2, <1>3, <1>5 DEF Combined
<1>7. CombineRight(v, w, sides, a)
  BY <1>1, <1>6 DEF CombineRight, Pairs, Side
<1>8. QED
  BY <1>1, <1>2, <1>3, <1>4, <1>7

-----------------------------------------------------------------------------
(* The program *)

\* What holds at every step: an array is made well, and the last answer is the
\* right one for it.
IInv == (IsArray(doc) => WellMade(doc)) /\ OrderedRight

\* The program starts with values that are made well and without an answer.
LEMMA InitInv == ASSUME Init PROVE IInv
<1>1. doc \in Docs /\ question.op = "none"
  BY DEF Init, NoQuestion
<1>2. IsArray(doc) => WellMade(doc)
  BY <1>1, ArrayAssumption
<1>3. OrderedRight
  BY <1>1 DEF OrderedRight
<1>4. QED
  BY <1>2, <1>3 DEF IInv

\* A method that changes the variable leaves an array that is made well.
LEMMA ChangeInv ==
  ASSUME NEW r, Change(r), Good(r[1])
  PROVE  IInv'
<1>1. doc' = r[1] /\ question'.op = "none"
  BY DEF Change, NoQuestion
<1>2. WellMade(doc)'
  BY <1>1 DEF Good, WellMade, Storage, IsView, Known
<1>3. OrderedRight'
  BY <1>1 DEF OrderedRight
<1>4. QED
  BY <1>2, <1>3 DEF IInv

\* A question changes nothing.
LEMMA KeptInv ==
  ASSUME IInv, doc' = doc, OrderedRight'
  PROVE  IInv'
BY DEF IInv, WellMade, Storage, IsView, IsArray, Known

\* So do the methods that add an item.
LEMMA Added ==
  ASSUME Good(doc), NEW x \in Item
  PROVE  /\ Good(Push(doc, x)[1]) /\ Items(Push(doc, x)[1]) = Append(Items(doc), x)
         /\ Push(doc, x)[2] = Len(Append(Items(doc), x))
         /\ Good(Unshift(doc, x)[1]) /\ Items(Unshift(doc, x)[1]) = <<x>> \o Items(doc)
         /\ Unshift(doc, x)[2] = Len(<<x>> \o Items(doc))
<1>1. PICK s \in Seq(Known) : s = Items(doc)
  BY ItemsAre
<1>2. x \in Known
  BY DEF Known
<1>3. PICK t : t = Append(s, x) /\ t \in Seq(Known)
  BY <1>2, AppendProperties
<1>4. PICK u : u = <<x>> \o s /\ u \in Seq(Known)
  <2>1. <<x>> \in Seq(Known)
    BY <1>2
  <2>2. <<x>> \o s \in Seq(Known)
    BY <1>2, <2>1, ConcatProperties
  <2>3. QED
    BY <2>2
<1>5. Push(doc, x) = <<Array(t), Len(t)>>
  BY <1>1, <1>3 DEF Push
<1>6. Unshift(doc, x) = <<Array(u), Len(u)>>
  BY <1>1, <1>4 DEF Unshift
<1>7. Good(Array(t)) /\ Items(Array(t)) = t /\ Good(Array(u)) /\ Items(Array(u)) = u
  BY <1>3, <1>4, ArrayIs
<1>8. /\ Push(doc, x)[1] = Array(t) /\ Push(doc, x)[2] = Len(t)
      /\ Unshift(doc, x)[1] = Array(u) /\ Unshift(doc, x)[2] = Len(u)
  BY <1>5, <1>6
<1>9. /\ Good(Push(doc, x)[1]) /\ Items(Push(doc, x)[1]) = t
      /\ Good(Unshift(doc, x)[1]) /\ Items(Unshift(doc, x)[1]) = u
  BY <1>7, <1>8
<1>10. t = Append(Items(doc), x) /\ u = <<x>> \o Items(doc)
  BY <1>1, <1>3, <1>4
<1>11. QED
  BY <1>8, <1>9, <1>10

\* Every step keeps it.
LEMMA StepInv ==
  ASSUME IInv, [ArrayNext \/ Elsewhere]_vars
  PROVE  IInv'
<1> USE DEF IInv
<1>1. IsArray(doc) => Good(doc)
  BY DEF Good
<1>2. CASE Forget
  <2>1. doc' = doc /\ question'.op = "none"
    BY <1>2 DEF Forget, NoQuestion
  <2>2. OrderedRight'
    BY <2>1 DEF OrderedRight
  <2>3. QED
    BY <2>1, <2>2, KeptInv
<1>3. CASE PopItem
  <2>1. PICK r : r = <<Pop(doc)[1], Taken(Pop(doc)[2])>>
    OBVIOUS
  <2>2. Good(doc) /\ Change(r)
    BY <1>1, <1>3, <2>1 DEF PopItem
  <2>3. Good(r[1])
    BY <2>1, <2>2, PopIs
  <2>4. QED
    BY <2>2, <2>3, ChangeInv
<1>4. CASE ShiftItem
  <2>1. PICK r : r = <<Shift(doc)[1], Taken(Shift(doc)[2])>>
    OBVIOUS
  <2>2. Good(doc) /\ Change(r)
    BY <1>1, <1>4, <2>1 DEF ShiftItem
  <2>3. Good(r[1])
    BY <2>1, <2>2, ShiftIs
  <2>4. QED
    BY <2>2, <2>3, ChangeInv
<1>5. CASE SortDoc
  <2>1. Good(doc) /\ doc' = doc /\ question' = [op |-> "sort"]
    BY <1>1, <1>5 DEF SortDoc, Ask
  <2>2. answer' = [sorted |-> Sort(Items(doc)), uniq |-> Uniq(Sort(Items(doc))),
                   groups |-> Group(Sort(Items(doc))), runs |-> Split(Items(doc)),
                   reversed |-> Reversed(doc)]
    BY <1>5 DEF SortDoc, Ask
  <2>3. SortRight(doc', answer')
    BY <2>1, <2>2, SortAnswer
  <2>4. OrderedRight'
    BY <2>1, <2>3 DEF OrderedRight
  <2>5. QED
    BY <2>1, <2>4, KeptInv
<1>6. ASSUME NEW x \in Item, PushItem(x) PROVE IInv'
  <2>1. PICK r : r = <<Push(doc, x)[1], Count(Push(doc, x)[2])>>
    OBVIOUS
  <2>2. Good(doc) /\ Change(r)
    BY <1>1, <1>6, <2>1 DEF PushItem
  <2>3. Good(r[1])
    BY <2>1, <2>2, Added
  <2>4. QED
    BY <2>2, <2>3, ChangeInv
<1>7. ASSUME NEW x \in Item, UnshiftItem(x) PROVE IInv'
  <2>1. PICK r : r = <<Unshift(doc, x)[1], Count(Unshift(doc, x)[2])>>
    OBVIOUS
  <2>2. Good(doc) /\ Change(r)
    BY <1>1, <1>7, <2>1 DEF UnshiftItem
  <2>3. Good(r[1])
    BY <2>1, <2>2, Added
  <2>4. QED
    BY <2>2, <2>3, ChangeInv
<1>8. ASSUME NEW x \in Item, SearchDoc(x) PROVE IInv'
  <2>1. Good(doc) /\ doc' = doc /\ question' = [op |-> "search", item |-> x]
    BY <1>1, <1>8 DEF SearchDoc, Ask
  <2>2. answer' =
          [at |-> FindItem(Sort(Items(doc)), x), lower |-> LowerBound(Sort(Items(doc)), x),
           upper |-> UpperBound(Sort(Items(doc)), x), range |-> EqualRange(Sort(Items(doc)), x),
           first |-> FindIndex(doc, LAMBDA y : Order(y, x) = 0),
           last |-> FindIndexBack(doc, LAMBDA y : Order(y, x) = 0),
           like |-> Items(Filter(doc, LAMBDA y : Order(y, x) = 0))]
    BY <1>8 DEF SearchDoc, Ask
  <2>3. x \in Known
    BY DEF Known
  <2>4. SearchRight(doc', x, answer')
    BY <2>1, <2>2, <2>3, SearchAnswer
  <2>5. question'.op = "search" /\ question'.item = x
    BY <2>1
  <2>6. OrderedRight'
    BY <2>4, <2>5 DEF OrderedRight
  <2>7. QED
    BY <2>1, <2>6, KeptInv
<1>9. ASSUME NEW pos \in Position, SplitDoc(pos) PROVE IInv'
  <2>1. Good(doc) /\ pos \in Int
    BY <1>1, <1>9, ArrayAssumption DEF SplitDoc
  <2>2. Good(SplitAt(doc, pos)[1]) /\ Good(SplitAt(doc, pos)[2])
    BY <2>1, SplitAtIs
  <2>3. PICK a, b : a = SplitAt(doc, pos)[1] /\ b = SplitAt(doc, pos)[2]
    OBVIOUS
  <2>4. PICK l, r : l = <<a, Rest(Items(b))>> /\ r = <<b, Rest(Items(a))>>
    OBVIOUS
  <2>5. Change(l) \/ Change(r)
    BY <1>9, <2>3, <2>4 DEF SplitDoc
  <2>6. Good(l[1]) /\ Good(r[1])
    BY <2>2, <2>3, <2>4
  <2>7. QED
    BY <2>5, <2>6, ChangeInv
<1>10. ASSUME NEW start \in Position, NEW end \in Position, SliceDoc(start, end) PROVE IInv'
  <2>1. Good(doc) /\ start \in Int /\ end \in Int
    BY <1>1, <1>10, ArrayAssumption DEF SliceDoc
  <2>2. PICK r : r = <<SliceTo(doc, start, end), None>>
    OBVIOUS
  <2>3. Change(r)
    BY <1>10, <2>2 DEF SliceDoc
  <2>4. Good(SliceTo(doc, start, end))
    BY <2>1, SliceToIs
  <2>5. QED
    BY <2>2, <2>3, <2>4, ChangeInv
<1>11. ASSUME NEW v \in Docs, NEW sides, Combine(v, sides) PROVE IInv'
  <2>1. Good(doc) /\ Good(v)
    BY <1>1, <1>11, ArrayAssumption DEF Combine, Good
  <2>2. doc' = doc /\ question' = [op |-> "combine", other |-> v, sides |-> sides]
        /\ answer' = Comm(Sort(Items(doc)), Sort(Items(v)), sides)
    BY <1>11 DEF Combine, Ask
  <2>3. CombineRight(doc', v, sides, answer')
    BY <2>1, <2>2, CombineAnswer
  <2>4. question'.op = "combine" /\ question'.other = v /\ question'.sides = sides
    BY <2>2
  <2>5. OrderedRight'
    BY <2>3, <2>4 DEF OrderedRight
  <2>6. QED
    BY <2>2, <2>5, KeptInv
<1>12. CASE Elsewhere
  <2>1. CASE UNCHANGED <<doc, returned>> /\ question'.op \notin {"sort", "search", "combine"}
    <3>1. OrderedRight'
      BY <2>1 DEF OrderedRight
    <3>2. QED
      BY <2>1, <3>1, KeptInv
  <2>2. CASE question = NoQuestion /\ ~IsArray(doc') /\ UNCHANGED <<question, answer>>
    <3>1. question'.op = "none"
      BY <2>2 DEF NoQuestion
    <3>2. OrderedRight'
      BY <3>1 DEF OrderedRight
    <3>3. ~IsArray(doc)'
      BY <2>2
    <3>4. QED
      BY <3>2, <3>3
  <2>3. QED
    BY <1>12, <2>1, <2>2 DEF Elsewhere
<1>13. CASE UNCHANGED vars
  <2>1. doc' = doc /\ question' = question /\ answer' = answer
    BY <1>13 DEF vars
  <2>2. OrderedRight'
    BY <2>1 DEF OrderedRight
  <2>3. QED
    BY <2>1, <2>2, KeptInv
<1>14. QED
  BY <1>2, <1>3, <1>4, <1>5, <1>6, <1>7, <1>8, <1>9, <1>10, <1>11, <1>12, <1>13 DEF ArrayNext

\* IInv is an invariant.
THEOREM Invariant == ArraySpec => []IInv
<1>1. Init => IInv
  BY InitInv
<1>2. IInv /\ [ArrayNext \/ Elsewhere]_vars => IInv'
  BY StepInv
<1>3. QED
  BY <1>1, <1>2, PTL DEF ArraySpec

\* Whatever arrays a program starts with and whatever it does with them, an
\* array that is a view lies inside its parent (the offset arithmetic of
\* SubArray): no step leaves a view that reaches beyond.
THEOREM ArraysWellMade == ArraySpec => [](IsArray(doc) => WellMade(doc))
<1>1. IInv => (IsArray(doc) => WellMade(doc))
  BY DEF IInv
<1>2. QED
  BY <1>1, Invariant, PTL

\* For every order of the items, total or with items that are equal in it, and
\* arrays of any length: sort is stable, uniq keeps the first of equal items,
\* group and split cut runs of them, the bisection of Ordered finds an item if
\* there is one, the bounds enclose all that are equal, and merge, intersection,
\* complement and symdiff pair equal items off.
THEOREM OrderedIsRight == ArraySpec => []OrderedRight
<1>1. IInv => OrderedRight
  BY DEF IInv
<1>2. QED
  BY <1>1, Invariant, PTL

-----------------------------------------------------------------------------
(* Arrays and views of them are lists *)

\* A change of an array to an array, as the list sees it.
LEMMA ChangeSeen ==
  ASSUME Good(doc), NEW r, Change(r), Good(r[1])
  PROVE  /\ (IF IsArray(doc) THEN Items(doc) ELSE <<>>) = Items(doc)
         /\ (IF IsArray(doc') THEN Items(doc') ELSE <<>>) = Items(r[1])
         /\ (IF IsArray(doc') THEN returned' ELSE None) = r[2]
<1>1. doc' = r[1] /\ returned' = r[2]
  BY DEF Change
<1>2. IsArray(doc) /\ IsArray(r[1])
  BY DEF Good
<1>3. QED
  BY <1>1, <1>2

\* A step of the program is one of the list, or the list does not change.
LEMMA StepImplements ==
  ASSUME IInv, [ArrayNext \/ Elsewhere]_vars
  PROVE  [Lists!Next]_(Lists!vars)
<1> DEFINE items == IF IsArray(doc) THEN Items(doc) ELSE <<>>
           result == IF IsArray(doc) THEN returned ELSE None
<1>1. IsArray(doc) => Good(doc)
  BY DEF IInv, Good
<1>2. ASSUME doc' = doc, returned' = returned PROVE UNCHANGED Lists!vars
  BY <1>2 DEF Lists!vars
<1>3. CASE PopItem
  <2>1. PICK r : r = <<Pop(doc)[1], Taken(Pop(doc)[2])>>
    OBVIOUS
  <2>2. Good(doc) /\ Change(r)
    BY <1>1, <1>3, <2>1 DEF PopItem
  <2>3. Good(r[1])
    BY <2>1, <2>2, PopIs
  <2>4. items = Items(doc) /\ items' = Items(r[1]) /\ result' = r[2]
    BY <2>2, <2>3, ChangeSeen
  <2>5. PICK s \in Seq(Known) : s = Items(doc)
    BY <2>2, ItemsAre
  <2>6. CASE s = <<>>
    <3>1. Items(r[1]) = <<>> /\ r[2] = Taken(Undefined)
      BY <2>1, <2>2, <2>5, <2>6, PopIs
    <3>2. Taken(Undefined) = None
      BY DEF Taken, Defined, Undefined
    <3>3. items = <<>> /\ items' = items /\ result' = None
      BY <2>4, <2>5, <2>6, <3>1, <3>2
    <3>4. Lists!PopBack
      BY <3>3 DEF Lists!PopBack
    <3>5. QED
      BY <3>4 DEF Lists!Next
  <2>7. CASE s # <<>>
    <3>1. Items(r[1]) = Front(s) /\ r[2] = Taken(Last(s))
      BY <2>1, <2>2, <2>5, <2>7, PopIs
    <3>2. Last(s) \in Known
      BY <2>7, FrontLast
    <3>3. Taken(Last(s)) = [item |-> Last(s)]
      BY <3>2, ArrayAssumption DEF Taken
    <3>4. items # <<>> /\ items' = Front(items) /\ result' = [item |-> Last(items)]
      BY <2>4, <2>5, <2>7, <3>1, <3>3
    <3>5. Lists!PopBack
      BY <3>4 DEF Lists!PopBack, Lists!Front, Front, Lists!Last, Last
    <3>6. QED
      BY <3>5 DEF Lists!Next
  <2>8. QED
    BY <2>6, <2>7
<1>4. CASE ShiftItem
  <2>1. PICK r : r = <<Shift(doc)[1], Taken(Shift(doc)[2])>>
    OBVIOUS
  <2>2. Good(doc) /\ Change(r)
    BY <1>1, <1>4, <2>1 DEF ShiftItem
  <2>3. Good(r[1])
    BY <2>1, <2>2, ShiftIs
  <2>4. items = Items(doc) /\ items' = Items(r[1]) /\ result' = r[2]
    BY <2>2, <2>3, ChangeSeen
  <2>5. PICK s \in Seq(Known) : s = Items(doc)
    BY <2>2, ItemsAre
  <2>6. CASE s = <<>>
    <3>1. Items(r[1]) = <<>> /\ r[2] = Taken(Undefined)
      BY <2>1, <2>2, <2>5, <2>6, ShiftIs
    <3>2. Taken(Undefined) = None
      BY DEF Taken, Defined, Undefined
    <3>3. items = <<>> /\ items' = items /\ result' = None
      BY <2>4, <2>5, <2>6, <3>1, <3>2
    <3>4. Lists!PopFront
      BY <3>3 DEF Lists!PopFront
    <3>5. QED
      BY <3>4 DEF Lists!Next
  <2>7. CASE s # <<>>
    <3>1. Items(r[1]) = Tail(s) /\ r[2] = Taken(Head(s))
      BY <2>1, <2>2, <2>5, <2>7, ShiftIs
    <3>2. Head(s) \in Known
      BY <2>7, HeadTailProperties
    <3>3. Taken(Head(s)) = [item |-> Head(s)]
      BY <3>2, ArrayAssumption DEF Taken
    <3>4. items # <<>> /\ items' = Tail(items) /\ result' = [item |-> Head(items)]
      BY <2>4, <2>5, <2>7, <3>1, <3>3
    <3>5. Lists!PopFront
      BY <3>4 DEF Lists!PopFront
    <3>6. QED
      BY <3>5 DEF Lists!Next
  <2>8. QED
    BY <2>6, <2>7
<1>5. ASSUME NEW x \in Item, PushItem(x) PROVE Lists!Next
  <2>1. PICK r : r = <<Push(doc, x)[1], Count(Push(doc, x)[2])>>
    OBVIOUS
  <2>2. Good(doc) /\ Change(r)
    BY <1>1, <1>5, <2>1 DEF PushItem
  <2>3. Good(r[1]) /\ Items(r[1]) = Append(Items(doc), x) /\ r[2] = Count(Len(Append(Items(doc), x)))
    BY <2>1, <2>2, Added
  <2>4. items = Items(doc) /\ items' = Items(r[1]) /\ result' = r[2]
    BY <2>2, <2>3, ChangeSeen
  <2>5. items' = Append(items, x) /\ result' = [count |-> Len(items')]
    BY <2>3, <2>4 DEF Count
  <2>6. Lists!PushBack(x)
    BY <2>5 DEF Lists!PushBack
  <2>7. QED
    BY <2>6 DEF Lists!Next
<1>6. ASSUME NEW x \in Item, UnshiftItem(x) PROVE Lists!Next
  <2>1. PICK r : r = <<Unshift(doc, x)[1], Count(Unshift(doc, x)[2])>>
    OBVIOUS
  <2>2. Good(doc) /\ Change(r)
    BY <1>1, <1>6, <2>1 DEF UnshiftItem
  <2>3. Good(r[1]) /\ Items(r[1]) = <<x>> \o Items(doc) /\ r[2] = Count(Len(<<x>> \o Items(doc)))
    BY <2>1, <2>2, Added
  <2>4. items = Items(doc) /\ items' = Items(r[1]) /\ result' = r[2]
    BY <2>2, <2>3, ChangeSeen
  <2>5. items' = <<x>> \o items /\ result' = [count |-> Len(items')]
    BY <2>3, <2>4 DEF Count
  <2>6. Lists!PushFront(x)
    BY <2>5 DEF Lists!PushFront
  <2>7. QED
    BY <2>6 DEF Lists!Next
<1>7. ASSUME NEW pos \in Position, SplitDoc(pos) PROVE Lists!Next
  <2>1. Good(doc) /\ pos \in Int
    BY <1>1, <1>7, ArrayAssumption DEF SplitDoc
  <2>2. PICK a, b : a = SplitAt(doc, pos)[1] /\ b = SplitAt(doc, pos)[2]
    OBVIOUS
  <2>3. PICK n \in 0 .. Len(Items(doc)) :
          /\ Good(a) /\ Items(a) = SubSeq(Items(doc), 1, n)
          /\ Good(b) /\ Items(b) = SubSeq(Items(doc), n + 1, Len(Items(doc)))
    <3>1. PICK n \in 0 .. Len(Items(doc)) :
            /\ Good(SplitAt(doc, pos)[1])
            /\ Items(SplitAt(doc, pos)[1]) = SubSeq(Items(doc), 1, n)
            /\ Good(SplitAt(doc, pos)[2])
            /\ Items(SplitAt(doc, pos)[2]) = SubSeq(Items(doc), n + 1, Len(Items(doc)))
      BY <2>1, SplitAtIs
    <3>2. QED
      BY <2>2, <3>1
  <2>4. PICK l, r : l = <<a, Rest(Items(b))>> /\ r = <<b, Rest(Items(a))>>
    OBVIOUS
  <2>5. Change(l) \/ Change(r)
    BY <1>7, <2>2, <2>4 DEF SplitDoc
  <2>6. items = Items(doc)
    BY <2>1 DEF Good
  <2>7. ASSUME Change(l) PROVE Lists!Cut(n)
    <3>1. l[1] = a /\ l[2] = Rest(Items(b)) /\ Good(l[1])
      BY <2>3, <2>4
    <3>2. items' = Items(l[1]) /\ result' = l[2]
      BY <2>1, <2>7, <3>1, ChangeSeen
    <3>3. items' = SubSeq(items, 1, n)
      BY <2>3, <2>6, <3>1, <3>2
    <3>4. result' = [rest |-> SubSeq(items, n + 1, Len(items))]
      BY <2>3, <2>6, <3>1, <3>2 DEF Rest
    <3>5. QED
      BY <3>3, <3>4 DEF Lists!Cut
  <2>8. ASSUME Change(r) PROVE Lists!Cut(n)
    <3>1. r[1] = b /\ r[2] = Rest(Items(a)) /\ Good(r[1])
      BY <2>3, <2>4
    <3>2. items' = Items(r[1]) /\ result' = r[2]
      BY <2>1, <2>8, <3>1, ChangeSeen
    <3>3. items' = SubSeq(items, n + 1, Len(items))
      BY <2>3, <2>6, <3>1, <3>2
    <3>4. result' = [rest |-> SubSeq(items, 1, n)]
      BY <2>3, <2>6, <3>1, <3>2 DEF Rest
    <3>5. QED
      BY <3>3, <3>4 DEF Lists!Cut
  <2>9. Lists!Cut(n)
    BY <2>5, <2>7, <2>8
  <2>10. n \in 0 .. Len(items)
    BY <2>3, <2>6
  <2>11. QED
    BY <2>9, <2>10 DEF Lists!Next
<1>8. ASSUME NEW start \in Position, NEW end \in Position, SliceDoc(start, end) PROVE Lists!Next
  <2>1. Good(doc) /\ start \in Int /\ end \in Int
    BY <1>1, <1>8, ArrayAssumption DEF SliceDoc
  <2>2. PICK r : r = <<SliceTo(doc, start, end), None>>
    OBVIOUS
  <2>3. Change(r)
    BY <1>8, <2>2 DEF SliceDoc
  <2>4. PICK first \in 1 .. Len(Items(doc)) + 1, last \in 0 .. Len(Items(doc)) :
          Good(SliceTo(doc, start, end))
          /\ Items(SliceTo(doc, start, end)) = SubSeq(Items(doc), first, last)
    BY <2>1, SliceToIs
  <2>5. Good(r[1]) /\ Items(r[1]) = SubSeq(Items(doc), first, last) /\ r[2] = None
    BY <2>2, <2>4
  <2>6. items = Items(doc) /\ items' = Items(r[1]) /\ result' = r[2]
    BY <2>1, <2>3, <2>5, ChangeSeen
  <2>7. items' = SubSeq(items, first, last) /\ result' = None
    BY <2>5, <2>6
  <2>8. first \in 1 .. Len(items) + 1 /\ last \in 0 .. Len(items)
    BY <2>4, <2>6
  <2>9. Lists!Keep(first, last)
    BY <2>7 DEF Lists!Keep
  <2>10. QED
    BY <2>8, <2>9 DEF Lists!Next
<1>9. CASE Elsewhere
  <2>1. CASE UNCHANGED <<doc, returned>>
    BY <1>2, <2>1
  <2>2. CASE ~IsArray(doc) /\ ~IsArray(doc')
    BY <2>2 DEF Lists!vars
  <2>3. QED
    BY <1>9, <2>1, <2>2 DEF Elsewhere
<1>10. CASE Forget
  BY <1>2, <1>10 DEF Forget
<1>11. CASE SortDoc
  BY <1>2, <1>11 DEF SortDoc, Ask
<1>12. ASSUME NEW x \in Item, SearchDoc(x) PROVE UNCHANGED Lists!vars
  BY <1>2, <1>12 DEF SearchDoc, Ask
<1>13. ASSUME NEW v \in Docs, NEW sides, Combine(v, sides) PROVE UNCHANGED Lists!vars
  BY <1>2, <1>13 DEF Combine, Ask
<1>14. CASE UNCHANGED vars
  BY <1>2, <1>14 DEF vars
<1>15. QED
  BY <1>3, <1>4, <1>5, <1>6, <1>7, <1>8, <1>9, <1>10, <1>11, <1>12, <1>13, <1>14 DEF ArrayNext

\* Whatever an array is made of, a vector, a part that splitAt has cut off, or a
\* part of such a part, the methods of a container show the list of its items
\* and nothing else: push, pop, shift, unshift, splitAt and slice change it as
\* they change a list and return what they take out.
THEOREM ArraysAreLists == ArraySpec => Implements
<1>1. Init => Lists!Init
  <2> SUFFICES ASSUME Init PROVE Lists!Init
    OBVIOUS
  <2>1. doc \in Docs /\ returned = None
    BY DEF Init
  <2>2. QED
    BY <2>1 DEF Lists!Init
<1>2. IInv /\ [ArrayNext \/ Elsewhere]_vars => [Lists!Next]_(Lists!vars)
  BY StepImplements
<1>3. QED
  BY <1>1, <1>2, Invariant, PTL DEF ArraySpec, Implements, Lists!Spec

-----------------------------------------------------------------------------
(* Members in the order of their names *)

InOrder(s) == \A i, j \in DOMAIN s : i < j => s[i].key < s[j].key
Has(s, y) == \E i \in DOMAIN s : s[i] = y
Named(M) == \A y \in M : y.key \in Int

\* What is in two sequences put together.
LEMMA HasConcat ==
  ASSUME NEW M, NEW u \in Seq(M), NEW w \in Seq(M), NEW y
  PROVE  Has(u \o w, y) <=> Has(u, y) \/ Has(w, y)
<1>1. PICK m \in Nat, n \in Nat :
        m = Len(u) /\ n = Len(w) /\ DOMAIN u = 1 .. m /\ DOMAIN w = 1 .. n
  BY LenProperties
<1>2. PICK c \in Seq(M) :
        /\ c = u \o w /\ Len(c) = m + n
        /\ \A i \in 1 .. m + n : c[i] = IF i <= m THEN u[i] ELSE w[i - m]
  <2>1. /\ u \o w \in Seq(M) /\ Len(u \o w) = Len(u) + Len(w)
        /\ \A i \in 1 .. Len(u) + Len(w) :
             (u \o w)[i] = IF i <= Len(u) THEN u[i] ELSE w[i - Len(u)]
    BY Zenon, ConcatProperties
  <2>2. PICK c : c = u \o w
    OBVIOUS
  <2>3. QED
    BY <2>1, <2>2, <1>1
<1>3. DOMAIN c = 1 .. m + n
  BY <1>2, LenProperties
<1>4. ASSUME NEW i \in 1 .. m PROVE c[i] = u[i] /\ i \in 1 .. m + n
  BY <1>2
<1>5. ASSUME NEW i \in 1 .. n PROVE c[m + i] = w[i] /\ m + i \in 1 .. m + n
  <2>1. m + i \in 1 .. m + n /\ ~(m + i <= m) /\ (m + i) - m = i
    OBVIOUS
  <2>2. QED
    BY <2>1, <1>2
<1>6. ASSUME NEW i \in 1 .. m + n, ~(i <= m) PROVE i - m \in 1 .. n /\ c[i] = w[i - m]
  BY <1>1, <1>2, <1>6
<1>7. \A i \in 1 .. m + n : i <= m => i \in 1 .. m
  OBVIOUS
<1>8. QED
  <2>1. Has(u, y) \/ Has(w, y) => Has(c, y)
    BY <1>1, <1>3, <1>4, <1>5 DEF Has
  <2>2. ASSUME NEW i \in 1 .. m + n, c[i] = y PROVE Has(u, y) \/ Has(w, y)
    <3>1. CASE i <= m
      BY <3>1, <2>2, <1>1, <1>4, <1>7 DEF Has
    <3>2. CASE ~(i <= m)
      BY <3>2, <2>2, <1>1, <1>6 DEF Has
    <3>3. QED
      BY <3>1, <3>2
  <2>3. QED
    BY <2>1, <2>2, <1>2, <1>3 DEF Has

\* Two sequences in order, the names of one below those of the other.
LEMMA InOrderConcat ==
  ASSUME NEW M, Named(M), NEW u \in Seq(M), NEW w \in Seq(M), InOrder(u), InOrder(w),
         \A i \in DOMAIN u, j \in DOMAIN w : u[i].key < w[j].key
  PROVE  InOrder(u \o w)
<1>1. PICK m \in Nat, n \in Nat :
        m = Len(u) /\ n = Len(w) /\ DOMAIN u = 1 .. m /\ DOMAIN w = 1 .. n
  BY LenProperties
<1>2. PICK c \in Seq(M) :
        /\ c = u \o w /\ Len(c) = m + n
        /\ \A i \in 1 .. m + n : c[i] = IF i <= m THEN u[i] ELSE w[i - m]
  <2>1. /\ u \o w \in Seq(M) /\ Len(u \o w) = Len(u) + Len(w)
        /\ \A i \in 1 .. Len(u) + Len(w) :
             (u \o w)[i] = IF i <= Len(u) THEN u[i] ELSE w[i - Len(u)]
    BY Zenon, ConcatProperties
  <2>2. PICK c : c = u \o w
    OBVIOUS
  <2>3. QED
    BY <2>1, <2>2, <1>1
<1>3. DOMAIN c = 1 .. m + n
  BY <1>2, LenProperties
<1>4. ASSUME NEW i \in 1 .. m + n, NEW j \in 1 .. m + n, i < j
      PROVE  c[i].key < c[j].key
  <2>1. CASE j <= m
    <3>1. i \in 1 .. m /\ j \in 1 .. m /\ c[i] = u[i] /\ c[j] = u[j]
      BY <2>1, <1>1, <1>2, <1>4
    <3>2. QED
      BY <3>1, <1>1, <1>4 DEF InOrder
  <2>2. CASE i <= m /\ ~(j <= m)
    <3>1. i \in 1 .. m /\ j - m \in 1 .. n /\ c[i] = u[i] /\ c[j] = w[j - m]
      BY <2>2, <1>1, <1>2
    <3>2. QED
      BY <3>1, <1>1
  <2>3. CASE ~(i <= m)
    <3>1. /\ i - m \in 1 .. n /\ j - m \in 1 .. n /\ i - m < j - m
          /\ c[i] = w[i - m] /\ c[j] = w[j - m]
      BY <2>3, <1>1, <1>2, <1>4
    <3>2. QED
      BY <3>1, <1>1 DEF InOrder
  <2>4. QED
    BY <2>1, <2>2, <2>3
<1>5. QED
  BY <1>2, <1>3, <1>4 DEF InOrder

\* A selection of members: in order as they were, those at the places.
DifferentNames(s) == \A i, j \in DOMAIN s : i # j => s[i].key # s[j].key
LEMMA SelectedMembers ==
  ASSUME NEW M, NEW s \in Seq(M), NEW places
  PROVE  /\ Selected(s, places) \in Seq(M)
         /\ \A i \in DOMAIN Selected(s, places) :
              \E p \in DOMAIN s : p \in places /\ Selected(s, places)[i] = s[p]
         /\ \A p \in DOMAIN s : p \in places => Has(Selected(s, places), s[p])
         /\ InOrder(s) => InOrder(Selected(s, places))
         /\ DifferentNames(s) => DifferentNames(Selected(s, places))
<1>1. PICK t \in Seq(M) : t = Selected(s, places)
  BY SelectedType
<1>2. PICK g : Placed(g, t, s, Len(s), places)
  BY <1>1, SelectedPlaces
<1>3. DOMAIN s = 1 .. Len(s) /\ DOMAIN t = 1 .. Len(t)
  BY LenProperties
<1>4. \A i \in DOMAIN t : g[i] \in DOMAIN s /\ g[i] \in places /\ t[i] = s[g[i]]
  BY <1>2, <1>3 DEF Placed
<1>5. \A p \in DOMAIN s : p \in places => \E i \in DOMAIN t : t[i] = s[p]
  <2> SUFFICES ASSUME NEW p \in DOMAIN s, p \in places PROVE \E i \in DOMAIN t : t[i] = s[p]
    OBVIOUS
  <2>1. PICK i \in DOMAIN t : g[i] = p
    BY <1>2, <1>3 DEF Placed
  <2>2. QED
    BY <2>1, <1>4
<1>6. ASSUME InOrder(s) PROVE InOrder(t)
  <2> SUFFICES ASSUME NEW i \in DOMAIN t, NEW j \in DOMAIN t, i < j
               PROVE  t[i].key < t[j].key
    BY DEF InOrder
  <2>1. g[i] < g[j]
    BY <1>2, <1>3 DEF Placed
  <2>2. QED
    BY <2>1, <1>4, <1>6 DEF InOrder
<1>7. ASSUME DifferentNames(s) PROVE DifferentNames(t)
  <2> SUFFICES ASSUME NEW i \in DOMAIN t, NEW j \in DOMAIN t, i # j
               PROVE  t[i].key # t[j].key
    BY DEF DifferentNames
  <2>1. i \in Int /\ j \in Int /\ g[i] \in Int /\ g[j] \in Int
    BY <1>2, <1>3 DEF Placed
  <2>2. g[i] # g[j]
    <3>1. CASE i < j
      <4>1. g[i] < g[j]
        BY <3>1, <1>2, <1>3 DEF Placed
      <4>2. QED
        BY <4>1, <2>1
    <3>2. CASE j < i
      <4>1. g[j] < g[i]
        BY <3>2, <1>2, <1>3 DEF Placed
      <4>2. QED
        BY <4>1, <2>1
    <3>3. QED
      BY <3>1, <3>2, <2>1
  <2>3. QED
    BY <2>2, <1>4, <1>7 DEF DifferentNames
<1>8. QED
  BY <1>1, <1>4, <1>5, <1>6, <1>7 DEF Has

\* One member more: it replaces the one of its name.
Enters(t, r, m) == \A y : Has(t, y) <=> y = m \/ (Has(r, y) /\ y.key # m.key)
LEMMA EnteredIs ==
  ASSUME NEW M, Named(M), NEW r \in Seq(M), InOrder(r), NEW m \in M
  PROVE  /\ Entered(r, m) \in Seq(M) /\ InOrder(Entered(r, m))
         /\ Enters(Entered(r, m), r, m)
<1> DEFINE low == {i \in DOMAIN r : r[i].key < m.key}
           high == {i \in DOMAIN r : r[i].key > m.key}
<1>1. PICK a \in Seq(M) :
        /\ a = Selected(r, low) /\ InOrder(a)
        /\ \A i \in DOMAIN a : \E p \in DOMAIN r : p \in low /\ a[i] = r[p]
        /\ \A p \in DOMAIN r : p \in low => Has(a, r[p])
  BY SelectedMembers
<1>2. PICK b \in Seq(M) :
        /\ b = Selected(r, high) /\ InOrder(b)
        /\ \A i \in DOMAIN b : \E p \in DOMAIN r : p \in high /\ b[i] = r[p]
        /\ \A p \in DOMAIN r : p \in high => Has(b, r[p])
  BY SelectedMembers
<1>3. PICK one \in Seq(M) : one = <<m>> /\ DOMAIN one = {1} /\ one[1] = m
  <2>1. <<m>> \in Seq(M) /\ DOMAIN <<m>> = {1} /\ <<m>>[1] = m
    OBVIOUS
  <2>2. QED
    BY <2>1
<1>4. Entered(r, m) = (a \o one) \o b
  BY <1>1, <1>2, <1>3 DEF Entered
<1>5. m.key \in Int /\ \A p \in DOMAIN r : r[p] \in M /\ r[p].key \in Int
  BY LenProperties, ElementOfSeq DEF Named
<1>6. \A i \in DOMAIN a : a[i].key < m.key /\ a[i].key \in Int /\ Has(r, a[i])
  BY <1>1, <1>5 DEF Has
<1>7. \A i \in DOMAIN b : m.key < b[i].key /\ b[i].key \in Int /\ Has(r, b[i])
  BY <1>2, <1>5 DEF Has
<1>8. InOrder(one)
  BY <1>3 DEF InOrder
<1>9. a \o one \in Seq(M) /\ InOrder(a \o one)
  <2>1. \A i \in DOMAIN a, j \in DOMAIN one : a[i].key < one[j].key
    BY <1>3, <1>6
  <2>2. QED
    BY <2>1, <1>1, <1>8, InOrderConcat, ConcatProperties
<1>10. PICK u \in Seq(M) : u = a \o one /\ InOrder(u)
  BY <1>9
<1>11. \A y : Has(u, y) <=> Has(a, y) \/ y = m
  <2> SUFFICES ASSUME NEW y PROVE Has(u, y) <=> Has(a, y) \/ y = m
    OBVIOUS
  <2>1. Has(u, y) <=> Has(a, y) \/ Has(one, y)
    BY <1>10, HasConcat
  <2>2. Has(one, y) <=> y = m
    BY <1>3 DEF Has
  <2>3. QED
    BY <2>1, <2>2
<1>12. \A i \in DOMAIN u, j \in DOMAIN b : u[i].key < b[j].key
  <2> SUFFICES ASSUME NEW i \in DOMAIN u, NEW j \in DOMAIN b PROVE u[i].key < b[j].key
    OBVIOUS
  <2>1. Has(u, u[i])
    BY DEF Has
  <2>2. u[i] = m \/ \E k \in DOMAIN a : a[k] = u[i]
    BY <2>1, <1>11 DEF Has
  <2>3. u[i].key <= m.key /\ u[i].key \in Int
    <3>1. CASE u[i] = m
      BY <3>1, <1>5
    <3>2. CASE \E k \in DOMAIN a : a[k] = u[i]
      <4>1. u[i].key < m.key /\ u[i].key \in Int
        BY <3>2, <1>6
      <4>2. QED
        BY <4>1, <1>5
    <3>3. QED
      BY <3>1, <3>2, <2>2
  <2>4. QED
    BY <2>3, <1>5, <1>7
<1>13. u \o b \in Seq(M) /\ InOrder(u \o b)
  BY <1>2, <1>10, <1>12, InOrderConcat, ConcatProperties
<1>14. ASSUME NEW y
       PROVE  Has(u \o b, y) <=> y = m \/ (Has(r, y) /\ y.key # m.key)
  <2>1. Has(u \o b, y) <=> Has(a, y) \/ y = m \/ Has(b, y)
    BY <1>11, HasConcat
  <2>2. Has(a, y) \/ Has(b, y) => Has(r, y) /\ y.key # m.key
    BY <1>5, <1>6, <1>7 DEF Has
  <2>3. ASSUME Has(r, y), y.key # m.key PROVE Has(a, y) \/ Has(b, y)
    <3>1. PICK p \in DOMAIN r : r[p] = y
      BY <2>3 DEF Has
    <3>2. p \in low \/ p \in high
      BY <3>1, <2>3, <1>5
    <3>3. QED
      BY <3>1, <3>2, <1>1, <1>2
  <2>4. QED
    BY <2>1, <2>2, <2>3
<1>15. QED
  BY <1>4, <1>10, <1>13, <1>14 DEF Enters

\* Sorting enters the members one after the other.
LEMMA SortedMembersIs ==
  ASSUME NEW M, Named(M), NEW s \in Seq(M)
  PROVE  \E f \in [0 .. Len(s) -> {r \in Seq(M) : InOrder(r)}] :
           /\ f[0] = <<>> /\ \A i \in 1 .. Len(s) : f[i] = Entered(f[i - 1], s[i])
           /\ SortedMembers(s) = f[Len(s)]
<1>1. PICK n \in Nat : n = Len(s)
  BY LenProperties
<1> DEFINE V == {r \in Seq(M) : InOrder(r)}
           sorted == CHOOSE sorted : sorted = [i \in 0 .. Len(s) |->
             IF i = 0 THEN <<>> ELSE Entered(sorted[i - 1], s[i])]
           step == [p \in (1 .. n) \X V |-> Entered(p[2], s[p[1]])]
<1>2. SortedMembers(s) = sorted[Len(s)]
  BY DEF SortedMembers
<1>3. step \in [(1 .. n) \X V -> V]
  <2> SUFFICES ASSUME NEW i \in 1 .. n, NEW r \in V PROVE Entered(r, s[i]) \in V
    OBVIOUS
  <2>1. s[i] \in M
    BY <1>1, ElementOfSeq
  <2>2. QED
    BY <2>1, EnteredIs
<1>4. \A i \in 1 .. n, r \in V : step[<<i, r>>] = Entered(r, s[i])
  OBVIOUS
<1> HIDE DEF step, sorted
<1>5. <<>> \in V
  BY EmptySeq DEF InOrder
<1> HIDE DEF V
<1>6. PICK f \in [0 .. n -> V] : Loops(f, n, <<>>, step)
  BY <1>3, <1>5, LoopExists
<1>7. \A i \in 0 .. n : f[i] = IF i = 0 THEN <<>> ELSE Entered(f[i - 1], s[i])
  <2> SUFFICES ASSUME NEW i \in 0 .. n
               PROVE  f[i] = IF i = 0 THEN <<>> ELSE Entered(f[i - 1], s[i])
    OBVIOUS
  <2>1. i # 0 => i \in 1 .. n /\ i - 1 \in 0 .. n
    OBVIOUS
  <2>2. i # 0 => f[i - 1] \in V
    BY <2>1, <1>6
  <2>3. QED
    BY <2>1, <2>2, <1>4, <1>6 DEF Loops
<1>8. f = [i \in 0 .. Len(s) |-> IF i = 0 THEN <<>> ELSE Entered(f[i - 1], s[i])]
  <2>1. f = [i \in 0 .. n |-> f[i]]
    BY <1>6
  <2>2. QED
    BY <2>1, <1>1, <1>7
<1>9. sorted = [i \in 0 .. Len(s) |-> IF i = 0 THEN <<>> ELSE Entered(sorted[i - 1], s[i])]
  BY <1>8 DEF sorted
<1>10. \A i \in 0 .. n : sorted[i] = IF i = 0 THEN <<>> ELSE Entered(sorted[i - 1], s[i])
  BY <1>1, <1>9
<1> DEFINE T == {i \in Nat : i <= n => sorted[i] = f[i]}
<1>11. 0 \in T
  <2>1. 0 \in 0 .. n
    BY <1>1
  <2>2. QED
    BY <2>1, <1>7, <1>10
<1>12. ASSUME NEW i \in Nat, i \in T PROVE i + 1 \in T
  <2>1. CASE i + 1 <= n
    <3>1. i + 1 \in 0 .. n /\ i + 1 # 0 /\ (i + 1) - 1 = i /\ sorted[i] = f[i]
      BY <2>1, <1>1, <1>12
    <3>2. sorted[i + 1] = Entered(sorted[i], s[i + 1]) /\ f[i + 1] = Entered(f[i], s[i + 1])
      BY <3>1, <1>7, <1>10
    <3>3. QED
      BY <3>1, <3>2
  <2>2. QED
    BY <2>1
<1>13. n \in T
  <2> HIDE DEF T
  <2>1. QED
    BY <1>1, <1>11, <1>12, Induction
<1>14. SortedMembers(s) = f[n]
  BY <1>1, <1>2, <1>13
<1>15. f[0] = <<>> /\ \A i \in 1 .. n : f[i] = Entered(f[i - 1], s[i])
  <2>1. 0 \in 0 .. n /\ \A i \in 1 .. n : i \in 0 .. n /\ i # 0
    BY <1>1
  <2>2. QED
    BY <2>1, <1>7
<1>16. QED
  BY <1>1, <1>6, <1>14, <1>15 DEF V

\* Sorting members of different names loses none of them.
LEMMA SortedMembersKeep ==
  ASSUME NEW M, Named(M), NEW s \in Seq(M), DifferentNames(s)
  PROVE  /\ SortedMembers(s) \in Seq(M) /\ InOrder(SortedMembers(s))
         /\ \A y : Has(SortedMembers(s), y) <=> Has(s, y)
<1>1. PICK n \in Nat : n = Len(s) /\ DOMAIN s = 1 .. n
  BY LenProperties
<1>2. PICK f \in [0 .. n -> {r \in Seq(M) : InOrder(r)}] :
        /\ f[0] = <<>> /\ \A i \in 1 .. n : f[i] = Entered(f[i - 1], s[i])
        /\ SortedMembers(s) = f[n]
  BY <1>1, SortedMembersIs
<1> DEFINE T == {k \in Nat : k <= n => \A y : Has(f[k], y) <=> \E i \in 1 .. k : s[i] = y}
<1>3. 0 \in T
  <2>1. DOMAIN f[0] = {}
    BY <1>2
  <2>2. \A y : ~Has(f[0], y)
    BY <2>1 DEF Has
  <2>3. QED
    BY <2>2
<1>4. ASSUME NEW k \in Nat, k \in T PROVE k + 1 \in T
  <2> SUFFICES ASSUME k + 1 <= n, NEW y
               PROVE  Has(f[k + 1], y) <=> \E i \in 1 .. k + 1 : s[i] = y
    OBVIOUS
  <2>1. k + 1 \in 1 .. n /\ (k + 1) - 1 = k /\ k \in 0 .. n /\ k <= n
    BY <1>1
  <2>2. PICK r \in Seq(M) : r = f[k] /\ InOrder(r)
    BY <2>1, <1>2
  <2>3. PICK m \in M : m = s[k + 1]
    BY <2>1, <1>1, ElementOfSeq
  <2>4. f[k + 1] = Entered(r, m)
    BY <2>1, <2>2, <2>3, <1>2
  <2>5. Has(f[k + 1], y) <=> y = m \/ (Has(r, y) /\ y.key # m.key)
    <3>1. Enters(Entered(r, m), r, m)
      BY <2>2, <2>3, EnteredIs
    <3>2. QED
      BY <3>1, <2>4 DEF Enters
  <2>6. Has(r, y) <=> \E i \in 1 .. k : s[i] = y
    BY <2>1, <2>2, <1>4
  <2>7. \A i \in 1 .. k : s[i].key # m.key
    <3>1. \A i \in 1 .. k : i \in DOMAIN s /\ i # k + 1
      BY <2>1, <1>1
    <3>2. QED
      BY <3>1, <2>1, <2>3, <1>1 DEF DifferentNames
  <2>8. Has(f[k + 1], y) <=> y = m \/ \E i \in 1 .. k : s[i] = y
    BY <2>5, <2>6, <2>7
  <2>9. \A i : i \in 1 .. k + 1 <=> i = k + 1 \/ i \in 1 .. k
    OBVIOUS
  <2>10. QED
    BY <2>3, <2>8, <2>9
<1>5. n \in T
  <2> HIDE DEF T
  <2>1. QED
    BY <1>1, <1>3, <1>4, Induction
<1>6. \A y : Has(f[n], y) <=> Has(s, y)
  <2>1. \A y : Has(f[n], y) <=> \E i \in 1 .. n : s[i] = y
    BY <1>1, <1>5
  <2>2. QED
    BY <2>1, <1>1 DEF Has
<1>7. n \in 0 .. n
  BY <1>1
<1>8. QED
  BY <1>2, <1>6, <1>7

\* One member is in order.
LEMMA SortedMembersOne ==
  ASSUME NEW M, Named(M), NEW m \in M
  PROVE  SortedMembers(<<m>>) = <<m>>
<1>1. PICK s \in Seq(M) : s = <<m>> /\ Len(s) = 1 /\ s[1] = m
  <2>1. <<m>> \in Seq(M) /\ Len(<<m>>) = 1 /\ <<m>>[1] = m
    OBVIOUS
  <2>2. QED
    BY <2>1
<1>2. PICK f \in [0 .. Len(s) -> {r \in Seq(M) : InOrder(r)}] :
        /\ f[0] = <<>> /\ \A i \in 1 .. Len(s) : f[i] = Entered(f[i - 1], s[i])
        /\ SortedMembers(s) = f[Len(s)]
  BY SortedMembersIs
<1>3. f[1] = Entered(<<>>, m)
  <2>1. 1 \in 1 .. Len(s) /\ 1 - 1 = 0
    BY <1>1
  <2>2. QED
    BY <2>1, <1>1, <1>2
<1>4. Entered(<<>>, m) = <<>> \o <<m>> \o <<>>
  BY SelectedEmpty DEF Entered
<1>5. (<<>> \o s) \o <<>> = s
  <2>1. <<>> \o s = s /\ s \o <<>> = s
    BY ConcatEmptySeq
  <2>2. QED
    BY <2>1
<1>6. QED
  BY <1>1, <1>2, <1>3, <1>4, <1>5

-----------------------------------------------------------------------------
(* Finding a member *)

Half(l, h) == (l + h) \div 2
Halves(n) == (0 .. n) \X (0 .. n)

\* A step of the bisection between l and h; f has the results of shorter ranges.
MemberStep(s, k, l, h, f) ==
  IF l >= h THEN Undefined
  ELSE IF k > s[Half(l, h) + 1].key THEN f[<<Half(l, h) + 1, h>>]
  ELSE IF k < s[Half(l, h) + 1].key THEN f[<<l, Half(l, h)>>]
  ELSE s[Half(l, h) + 1]
IsMemberFound(found, s, k) ==
  found = [r \in (0 .. Len(s)) \X (0 .. Len(s)) |->
             LET m == (r[1] + r[2]) \div 2
             IN IF r[1] >= r[2] THEN Undefined
                ELSE CASE k > s[m + 1].key -> found[<<m + 1, r[2]>>]
                       [] k < s[m + 1].key -> found[<<r[1], m>>]
                       [] OTHER -> s[m + 1]]

LEMMA HalfIs ==
  ASSUME NEW l \in Nat, NEW h \in Nat, l < h
  PROVE  Half(l, h) \in Nat /\ l <= Half(l, h) /\ Half(l, h) < h
BY DEF Half

LEMMA PairIs ==
  ASSUME NEW n \in Nat, NEW p \in Halves(n)
  PROVE  p = <<p[1], p[2]>> /\ p[1] \in 0 .. n /\ p[2] \in 0 .. n
BY DEF Halves

\* The bisection is these steps.
LEMMA FindSortedIs ==
  ASSUME NEW M, Named(M), NEW s \in Seq(M), NEW k \in Int
  PROVE  \E f :
           /\ \A l \in 0 .. Len(s), h \in 0 .. Len(s) :
                f[<<l, h>>] = MemberStep(s, k, l, h, f)
           /\ FindSorted(s, k) = f[<<0, Len(s)>>]
<1>1. PICK n \in Nat : n = Len(s)
  BY LenProperties
<1>2. \A i \in 1 .. n : s[i] \in M /\ s[i].key \in Int
  BY <1>1, ElementOfSeq DEF Named
<1> DEFINE D == Halves(n)
           V == M \cup {Undefined}
           measure == [p \in D |-> n + p[2] - p[1]]
           rule == [q \in D \X [D -> V] |-> MemberStep(s, k, q[1][1], q[1][2], q[2])]
<1>3. ASSUME NEW l \in 0 .. n, NEW h \in 0 .. n
      PROVE  <<l, h>> \in D /\ measure[<<l, h>>] = n + h - l
  BY DEF Halves
<1>4. measure \in [D -> 0 .. 2 * n + 1 - 1]
  <2>1. ASSUME NEW p \in D PROVE n + p[2] - p[1] \in 0 .. 2 * n + 1 - 1
    BY SMTT(30), <1>1, PairIs
  <2>2. QED
    BY <2>1
<1>5. ASSUME NEW p \in D, NEW f \in [D -> V]
      PROVE  rule[<<p, f>>] = MemberStep(s, k, p[1], p[2], f)
  OBVIOUS
<1>6. ASSUME NEW l \in 0 .. n, NEW h \in 0 .. n, ~(l >= h)
      PROVE  /\ <<Half(l, h) + 1, h>> \in D /\ <<l, Half(l, h)>> \in D
             /\ Half(l, h) + 1 \in 1 .. n
             /\ measure[<<Half(l, h) + 1, h>>] < n + h - l
             /\ measure[<<l, Half(l, h)>>] < n + h - l
  <2>1. PICK m \in Nat : m = Half(l, h) /\ l <= m /\ m < h
    BY <1>1, <1>6, HalfIs
  <2>2. m \in 0 .. n /\ m + 1 \in 0 .. n /\ m + 1 \in 1 .. n
    BY <2>1, <1>1
  <2>3. n + h - (m + 1) < n + h - l /\ n + m - l < n + h - l
    BY <2>1, <1>1
  <2> HIDE DEF D, measure
  <2>4. <<m + 1, h>> \in D /\ measure[<<m + 1, h>>] = n + h - (m + 1)
    BY <2>2, <1>3
  <2>5. <<l, m>> \in D /\ measure[<<l, m>>] = n + m - l
    BY <2>2, <1>3
  <2>6. QED
    BY <2>1, <2>2, <2>3, <2>4, <2>5
<1>7. rule \in [D \X [D -> V] -> V]
  <2>1. ASSUME NEW p \in D, NEW f \in [D -> V]
        PROVE  MemberStep(s, k, p[1], p[2], f) \in V
    <3>1. p[1] \in 0 .. n /\ p[2] \in 0 .. n
      BY <1>1, PairIs
    <3>2. CASE p[1] >= p[2]
      BY <3>2 DEF MemberStep
    <3>3. CASE ~(p[1] >= p[2])
      <4> HIDE DEF D
      <4>1. f[<<Half(p[1], p[2]) + 1, p[2]>>] \in V
        BY <3>1, <3>3, <1>6
      <4>2. f[<<p[1], Half(p[1], p[2])>>] \in V
        BY <3>1, <3>3, <1>6
      <4>3. s[Half(p[1], p[2]) + 1] \in V
        BY <3>1, <3>3, <1>2, <1>6
      <4>4. QED
        BY <4>1, <4>2, <4>3, <3>3 DEF MemberStep
    <3>4. QED
      BY <3>2, <3>3
  <2>2. QED
    BY <2>1
<1>8. ASSUME NEW p \in D, NEW f \in [D -> V], NEW g \in [D -> V],
             \A e \in D : measure[e] < measure[p] => f[e] = g[e]
      PROVE  rule[<<p, f>>] = rule[<<p, g>>]
  <2>1. PICK l \in 0 .. n, h \in 0 .. n : l = p[1] /\ h = p[2]
    BY <1>1, PairIs
  <2>2. p = <<l, h>> /\ measure[p] = n + h - l
    BY <2>1, <1>1, <1>3, PairIs
  <2>3. ASSUME ~(l >= h)
        PROVE  /\ f[<<Half(l, h) + 1, h>>] = g[<<Half(l, h) + 1, h>>]
               /\ f[<<l, Half(l, h)>>] = g[<<l, Half(l, h)>>]
    <3> HIDE DEF D, measure
    <3>1. QED
      BY <2>1, <2>2, <2>3, <1>6, <1>8
  <2>4. MemberStep(s, k, l, h, f) = MemberStep(s, k, l, h, g)
    BY <2>3 DEF MemberStep
  <2>5. QED
    BY <2>1, <2>4, <1>5
<1>9. V # {}
  OBVIOUS
<1> HIDE DEF measure, rule, D, V
<1>10. PICK f : IsFixed(f, D, V, rule)
  <2>1. LooksBelow(D, V, rule, measure)
    BY <1>8 DEF LooksBelow
  <2>2. 2 * n + 1 \in Nat
    BY <1>1
  <2>3. IsRule(rule, D, V, measure, 2 * n + 1)
    BY <2>1, <2>2, <1>4, <1>7, <1>9 DEF IsRule
  <2>4. QED
    BY <2>3, RecursionOver
<1> DEFINE found == CHOOSE found : IsMemberFound(found, s, k)
<1>11. FindSorted(s, k) = found[<<0, Len(s)>>]
  BY DEF FindSorted, IsMemberFound
<1>12. \A g : IsMemberFound(g, s, k) <=> g = [p \in D |-> MemberStep(s, k, p[1], p[2], g)]
  <2> SUFFICES ASSUME NEW g
               PROVE  IsMemberFound(g, s, k)
                        <=> g = [p \in D |-> MemberStep(s, k, p[1], p[2], g)]
    OBVIOUS
  <2> DEFINE Here(p) ==
        LET m == (p[1] + p[2]) \div 2
        IN IF p[1] >= p[2] THEN Undefined
           ELSE CASE k > s[m + 1].key -> g[<<m + 1, p[2]>>]
                  [] k < s[m + 1].key -> g[<<p[1], m>>]
                  [] OTHER -> s[m + 1]
  <2>1. IsMemberFound(g, s, k) <=> g = [p \in D |-> Here(p)]
    BY <1>1 DEF IsMemberFound, Halves, D
  <2>2. ASSUME NEW p \in D PROVE Here(p) = MemberStep(s, k, p[1], p[2], g)
    <3>1. PICK l \in 0 .. n, h \in 0 .. n : l = p[1] /\ h = p[2]
      BY <1>1, PairIs DEF D
    <3>2. CASE l >= h
      BY <3>1, <3>2 DEF MemberStep
    <3>3. CASE ~(l >= h)
      <4>1. PICK m : m = Half(l, h) /\ m = (p[1] + p[2]) \div 2
        BY <3>1 DEF Half
      <4>2. PICK c \in Int : c = s[m + 1].key
        BY <3>1, <3>3, <4>1, <1>2, <1>6
      <4>3. ~(k > c /\ k < c)
        BY <4>2
      <4>4. QED
        BY <3>1, <3>3, <4>1, <4>2, <4>3 DEF MemberStep
    <3>4. QED
      BY <3>2, <3>3
  <2> HIDE DEF Here
  <2>3. QED
    BY <2>1, <2>2
<1>13. f = [p \in D |-> MemberStep(s, k, p[1], p[2], f)]
  BY <1>5, <1>10 DEF IsFixed
<1>14. found = [p \in D |-> MemberStep(s, k, p[1], p[2], found)]
  BY <1>12, <1>13
<1> HIDE DEF found
<1>15. \A p \in D : found[p] = MemberStep(s, k, p[1], p[2], found)
  BY <1>14
<1>16. ASSUME NEW l \in 0 .. n, NEW h \in 0 .. n
       PROVE  found[<<l, h>>] = MemberStep(s, k, l, h, found)
  <2>1. <<l, h>>[1] = l /\ <<l, h>>[2] = h
    OBVIOUS
  <2>2. QED
    BY <2>1, <1>3, <1>15
<1>17. QED
  BY <1>1, <1>11, <1>16

\* Among members in order, the bisection finds the one of that name, if any.
LEMMA FindsMember ==
  ASSUME NEW M, Named(M), NEW s \in Seq(M), InOrder(s), NEW k \in Int
  PROVE  /\ \A i \in DOMAIN s : s[i].key = k => FindSorted(s, k) = s[i]
         /\ (\A i \in DOMAIN s : s[i].key # k) => FindSorted(s, k) = Undefined
<1>1. PICK f :
        /\ \A l \in 0 .. Len(s), h \in 0 .. Len(s) : f[<<l, h>>] = MemberStep(s, k, l, h, f)
        /\ FindSorted(s, k) = f[<<0, Len(s)>>]
  BY FindSortedIs
<1>2. PICK n \in Nat : n = Len(s) /\ DOMAIN s = 1 .. n
  BY LenProperties
<1>3. n \in Nat
  BY <1>2
<1>4. \A i \in 1 .. n : s[i].key \in Int
  <2>1. \A i \in 1 .. n : s[i] \in M
    BY <1>2, ElementOfSeq
  <2>2. QED
    BY <2>1 DEF Named
<1>5. \A i \in 1 .. n, j \in 1 .. n : i < j => s[i].key < s[j].key
  BY <1>2 DEF InOrder
<1> DEFINE Right(l, h) ==
      /\ \A i \in 1 .. n : l < i /\ i <= h /\ s[i].key = k => f[<<l, h>>] = s[i]
      /\ (\A i \in 1 .. n : l < i /\ i <= h => s[i].key # k) => f[<<l, h>>] = Undefined
    T == {c \in Nat : \A l \in 0 .. n, h \in 0 .. n : n + h - l < c => Right(l, h)}
<1>6. 0 \in T
  BY <1>2
<1>7. ASSUME NEW c \in Nat, c \in T PROVE c + 1 \in T
  <2>1. ASSUME NEW l \in 0 .. n, NEW h \in 0 .. n, n + h - l < c + 1 PROVE Right(l, h)
    <3>1. f[<<l, h>>] = MemberStep(s, k, l, h, f)
      BY <1>1, <1>2
    <3>2. CASE l >= h
      <4>1. f[<<l, h>>] = Undefined
        BY <3>1, <3>2 DEF MemberStep
      <4>2. \A i \in 1 .. n : ~(l < i /\ i <= h)
        BY <3>2, <1>2
      <4>3. QED
        BY <4>1, <4>2
    <3>3. CASE ~(l >= h)
      <4>1. PICK m \in Nat : m = Half(l, h) /\ l <= m /\ m < h
        BY SMTT(30), <1>2, <3>3, HalfIs
      <4>2. m \in 0 .. n /\ m + 1 \in 1 .. n /\ m + 1 \in 0 .. n
        BY <4>1, <1>2
      <4>3. PICK y \in Int : y = s[m + 1].key
        BY <4>2, <1>4
      <4>4. Right(m + 1, h)
        <5>1. n + h - (m + 1) < c
          <6>1. l \in Int /\ h \in Int /\ n + h - l < c + 1 /\ l <= m
            BY <4>1, <2>1, <1>3
          <6>2. QED
            BY <6>1, <1>3
        <5>2. QED
          BY <5>1, <4>2, <1>7
      <4>5. Right(l, m)
        <5>1. n + m - l < c
          BY <4>1, <2>1, <1>3
        <5>2. QED
          BY <5>1, <4>2, <1>7
      <4>6. CASE k > y
        <5>1. f[<<l, h>>] = f[<<m + 1, h>>]
          BY <3>1, <3>3, <4>1, <4>3, <4>6 DEF MemberStep
        <5>2. ASSUME NEW i \in 1 .. n, i <= m + 1 PROVE s[i].key # k
          <6>1. i = m + 1 \/ i < m + 1
            BY <5>2, <4>1
          <6>2. s[i].key = y \/ s[i].key < y
            BY <6>1, <4>2, <4>3, <1>5
          <6>3. s[i].key \in Int
            BY <1>4
          <6>4. QED
            BY <6>2, <6>3, <4>3, <4>6
        <5>3. \A i \in 1 .. n : i <= m + 1 \/ m + 1 < i
          BY <4>1
        <5>4. \A i \in 1 .. n : m + 1 < i => l < i
          BY <4>1
        <5>5. QED
          BY <5>1, <5>2, <5>3, <5>4, <4>4
      <4>7. CASE k < y
        <5>1. f[<<l, h>>] = f[<<l, m>>]
          <6>1. ~(k > y)
            BY <4>3, <4>7
          <6>2. QED
            BY <6>1, <3>1, <3>3, <4>1, <4>3, <4>7 DEF MemberStep
        <5>2. ASSUME NEW i \in 1 .. n, ~(i <= m) PROVE s[i].key # k
          <6>1. i = m + 1 \/ m + 1 < i
            BY <5>2, <4>1
          <6>2. s[i].key = y \/ y < s[i].key
            BY <6>1, <4>2, <4>3, <1>5
          <6>3. s[i].key \in Int
            BY <1>4
          <6>4. QED
            BY <6>2, <6>3, <4>3, <4>7
        <5>3. \A i \in 1 .. n : i <= m => i <= h
          BY <4>1
        <5>4. QED
          BY <5>1, <5>2, <5>3, <4>5
      <4>8. CASE k = y
        <5>1. f[<<l, h>>] = s[m + 1]
          BY <3>1, <3>3, <4>1, <4>3, <4>8 DEF MemberStep
        <5>2. l < m + 1 /\ m + 1 <= h
          BY <4>1
        <5>3. ASSUME NEW i \in 1 .. n, s[i].key = k PROVE i = m + 1
          <6>1. CASE i < m + 1
            BY <6>1, <5>3, <4>2, <4>3, <4>8, <1>5
          <6>2. CASE m + 1 < i
            BY <6>2, <5>3, <4>2, <4>3, <4>8, <1>5
          <6>3. QED
            BY <6>1, <6>2, <4>1
        <5>4. QED
          BY <5>1, <5>2, <5>3, <4>2, <4>3, <4>8
      <4>9. k > y \/ k < y \/ k = y
        BY <4>3
      <4>10. QED
        BY <4>6, <4>7, <4>8, <4>9
    <3>4. QED
      BY <3>2, <3>3
  <2>2. QED
    BY <2>1
<1>8. Nat \subseteq T
  <2> HIDE DEF T
  <2>1. QED
    BY <1>6, <1>7, Induction
<1>9. Right(0, n)
  <2>1. 2 * n + 1 \in Nat /\ n + n - 0 < 2 * n + 1 /\ 0 \in 0 .. n /\ n \in 0 .. n
    BY <1>2
  <2>2. 2 * n + 1 \in T
    BY <2>1, <1>8
  <2>3. QED
    BY <2>1, <2>2
<1>10. PICK a : a = FindSorted(s, k) /\ a = f[<<0, n>>]
  BY <1>1, <1>2
<1>11. \A i \in 1 .. n : 0 < i /\ i <= n
  BY <1>2
<1>12. QED
  BY <1>2, <1>9, <1>10, <1>11

\* An object with these members.
LEMMA MemberOf ==
  ASSUME NEW M, Named(M), NEW s \in Seq(M), InOrder(s), NEW k \in Int
  PROVE  /\ \A y : Has(s, y) /\ y.key = k => Member(Object(s), k) = y
         /\ (\A y : Has(s, y) => y.key # k) => Member(Object(s), k) = Undefined
<1>1. Member(Object(s), k) = FindSorted(s, k)
  BY DEF Member, Object
<1>2. (\A y : Has(s, y) => y.key # k) => \A i \in DOMAIN s : s[i].key # k
  BY DEF Has
<1>3. QED
  BY <1>1, <1>2, FindsMember DEF Has

-----------------------------------------------------------------------------
(* One step of a path *)

Same(a, b) == StripKey(a) = StripKey(b)
Container(v) == v.type \in {"array", "object"}
Own(v) == DOMAIN v = {"type", "key", "items"} /\ Container(v)
HasKey(v) == {"type", "key"} \subseteq DOMAIN v
Element == [name : BOOLEAN, key : Nat]

\* The items of a value that is not a view.
LEMMA OwnItems ==
  ASSUME NEW v, ~IsView(v), NEW i \in Nat
  PROVE  /\ Container(v) /\ v.items \in Seq(ToSet(v.items)) =>
              /\ Size(v) = Len(v.items)
              /\ ItemAt(v, i) = IF i < Len(v.items) THEN v.items[i + 1] ELSE Undefined
         /\ ~Container(v) => Size(v) = 0 /\ ItemAt(v, i) = Undefined
<1>1. ASSUME Container(v), v.items \in Seq(ToSet(v.items))
      PROVE  /\ Size(v) = Len(v.items)
             /\ ItemAt(v, i) = IF i < Len(v.items) THEN v.items[i + 1] ELSE Undefined
  <2>1. PICK s \in Seq(ToSet(v.items)) : s = v.items /\ Len(s) \in Nat
    BY <1>1, LenProperties
  <2>2. Size(v) = Len(s)
    BY <1>1, <2>1 DEF Size, Container
  <2>3. CASE Len(s) = 0
    BY <2>1, <2>2, <2>3 DEF ItemAt
  <2>4. CASE Len(s) > 0
    BY <2>1, <2>2, <2>4 DEF ItemAt
  <2>5. QED
    BY <2>1, <2>2, <2>3, <2>4
<1>2. ASSUME ~Container(v) PROVE Size(v) = 0 /\ ItemAt(v, i) = Undefined
  <2>1. Size(v) = 0
    BY <1>2 DEF Size, Container
  <2>2. QED
    BY <2>1 DEF ItemAt
<1>3. QED
  BY <1>1, <1>2

\* A step from a container is the same whatever its name is.
LEMMA StepSame ==
  ASSUME NEW a, NEW b, Same(a, b), Own(b), NEW e
  PROVE  Step(a, e) = Step(b, e)
<1>1. DOMAIN a = DOMAIN b
  <2>1. DOMAIN StripKey(a) = DOMAIN a /\ DOMAIN StripKey(b) = DOMAIN b
    BY DEF StripKey, WithKey
  <2>2. QED
    BY <2>1 DEF Same
<1>2. a.type = b.type /\ a.items = b.items
  <2>1. StripKey(a).type = a.type /\ StripKey(a).items = a.items
    BY <1>1 DEF StripKey, WithKey, Own
  <2>2. StripKey(b).type = b.type /\ StripKey(b).items = b.items
    BY DEF StripKey, WithKey, Own
  <2>3. QED
    BY <2>1, <2>2 DEF Same
<1>3. ~IsView(a) /\ ~IsView(b)
  BY <1>1 DEF IsView, Own
<1>4. Member(a, e.key) = Member(b, e.key)
  BY <1>2 DEF Member
<1>5. Size(a) = Size(b)
  BY <1>2, <1>3 DEF Size
<1>6. ItemAt(a, e.key) = ItemAt(b, e.key)
  BY <1>2, <1>3, <1>5 DEF ItemAt
<1>7. QED
  BY <1>4, <1>6 DEF Step

\* The greater of two numbers.
LEMMA MaxTwo ==
  ASSUME NEW a \in Nat, NEW b \in Nat
  PROVE  Max({a, b}) \in Nat /\ Max({a, b}) >= a /\ Max({a, b}) >= b
<1>1. {a, b} \subseteq Int
  OBVIOUS
<1>2. CASE a <= b
  <2>1. Max({a, b}) = b
    BY <1>1, <1>2, MaxUnique
  <2>2. QED
    BY <1>2, <2>1
<1>3. CASE b <= a
  <2>1. Max({a, b}) = a
    BY <1>1, <1>3, MaxUnique
  <2>2. QED
    BY <1>3, <2>1
<1>4. QED
  BY <1>2, <1>3

\* What one step of replaceByPath makes of a container on the way.
Put(r, v, e, new) ==
  /\ Own(r) /\ r.key = 0
  /\ Same(Step(r, e), new)
  /\ \A e2 \in Element : e2 # e /\ e2.name = e.name => Step(r, e2) = Step(v, e2)

\* At a position.
LEMMA ReplacedItem ==
  ASSUME NEW v, Regular(v), NEW e \in Element, ~e.name, NEW new
  PROVE  Put(Replaced(v, e, new), v, e, new)
<1>1. PICK k \in Nat : k = e.key
  BY DEF Element
<1>2. Size(v) \in Nat /\ \A i \in Nat : i >= Size(v) => ItemAt(v, i) = Undefined
  <2>1. CASE Container(v)
    <3>1. v.items \in Seq(ToSet(v.items)) /\ Len(v.items) \in Nat /\ ~IsView(v)
      BY <2>1, LenProperties DEF Regular, Container
    <3>2. \A i \in Nat : /\ Size(v) = Len(v.items)
                         /\ ItemAt(v, i) = IF i < Len(v.items) THEN v.items[i + 1] ELSE Undefined
      BY <2>1, <3>1, OwnItems
    <3>3. Size(v) = Len(v.items)
      BY <3>2
    <3>4. QED
      BY <3>1, <3>2, <3>3
  <2>2. CASE ~Container(v)
    <3>1. \A i \in Nat : Size(v) = 0 /\ ItemAt(v, i) = Undefined
      BY <2>2, OwnItems DEF Regular
    <3>2. QED
      BY <3>1
  <2>3. QED
    BY <2>1, <2>2
<1>3. PICK g \in Nat : g = Grown(v, k) /\ g >= Size(v) /\ g >= k + 1
  BY <1>2, MaxTwo DEF Grown
<1> DEFINE s == [i \in 1 .. g |-> IF i = k + 1 THEN new ELSE ItemAt(v, i - 1)]
<1>4. Replaced(v, e, new) = Array(s)
  BY <1>1, <1>3 DEF Replaced
<1>5. s \in Seq(ToSet(s)) /\ Len(s) = g
  <2>1. DOMAIN s = 1 .. g
    OBVIOUS
  <2>2. \A i \in 1 .. g : s[i] \in ToSet(s)
    BY <2>1 DEF ToSet
  <2> HIDE DEF s
  <2>3. s \in [1 .. g -> ToSet(s)]
    <3>1. s = [i \in 1 .. g |-> s[i]]
      BY DEF s
    <3>2. QED
      BY <3>1, <2>2
  <2>4. QED
    BY <2>3
<1>6. s[k + 1] = new /\ \A i \in Nat : i < g /\ i # k => s[i + 1] = ItemAt(v, i)
  <2>1. k + 1 \in 1 .. g
    BY <1>3
  <2>2. ASSUME NEW i \in Nat, i < g, i # k PROVE s[i + 1] = ItemAt(v, i)
    <3>1. i + 1 \in 1 .. g /\ i + 1 # k + 1 /\ (i + 1) - 1 = i
      BY <2>2
    <3>2. QED
      BY <3>1
  <2>3. QED
    BY <2>1, <2>2
<1> HIDE DEF s
<1>7. PICK r : r = Array(s)
  OBVIOUS
<1>8. Own(r) /\ r.key = 0 /\ r.items = s /\ ~IsView(r)
  BY <1>7 DEF Array, Own, Container, IsView
<1>9. \A i \in Nat : ItemAt(r, i) = IF i < g THEN s[i + 1] ELSE Undefined
  <2> SUFFICES ASSUME NEW i \in Nat PROVE ItemAt(r, i) = IF i < g THEN s[i + 1] ELSE Undefined
    OBVIOUS
  <2>1. Container(r)
    BY <1>8 DEF Own
  <2>2. QED
    BY <2>1, <1>5, <1>8, OwnItems
<1>10. Step(r, e) = new
  BY <1>1, <1>3, <1>6, <1>9 DEF Step
<1>11. ASSUME NEW e2 \in Element, e2 # e, e2.name = e.name
       PROVE  Step(r, e2) = Step(v, e2)
  <2>1. PICK i \in Nat : i = e2.key /\ i # k
    BY <1>1, <1>11 DEF Element
  <2>2. Step(r, e2) = ItemAt(r, i) /\ Step(v, e2) = ItemAt(v, i)
    BY <1>11, <2>1 DEF Step
  <2>3. CASE i < g
    BY <2>1, <2>2, <2>3, <1>6, <1>9
  <2>4. CASE ~(i < g)
    BY <2>1, <2>2, <2>4, <1>2, <1>3, <1>9
  <2>5. QED
    BY <2>3, <2>4
<1>12. QED
  BY <1>4, <1>7, <1>8, <1>10, <1>11 DEF Put, Same

\* The members an Object has when one was set.
MembersSet(u, base, m) ==
  \A y : Has(u, y) <=> \/ Has(base, y) /\ y.key # m.key
                       \/ y = m /\ Defined(m)
LEMMA EditedIs ==
  ASSUME NEW v, Regular(v), NEW m, m.key \in Int
  PROVE  \E M, u, base :
           /\ Named(M) /\ u \in Seq(M) /\ base \in Seq(M) /\ InOrder(u) /\ InOrder(base)
           /\ base = IF v.type = "object" THEN v.items ELSE <<>>
           /\ Edited(v, <<m>>) = Object(u)
           /\ MembersSet(u, base, m)
<1>1. PICK base : base = IF v.type = "object" THEN v.items ELSE <<>>
  OBVIOUS
<1>2. /\ base \in Seq(ToSet(base)) /\ InOrder(base)
      /\ \A i \in DOMAIN base : Defined(base[i]) /\ base[i].key \in Int
  <2>1. CASE v.type = "object"
    BY <1>1, <2>1 DEF Regular, InOrder
  <2>2. CASE v.type # "object"
    <3>1. base = <<>> /\ DOMAIN base = {}
      BY <1>1, <2>2
    <3>2. QED
      BY <3>1, EmptySeq DEF InOrder
  <2>3. QED
    BY <2>1, <2>2
<1>3. PICK M : M = ToSet(base) \cup {m}
  OBVIOUS
<1>4. Named(M)
  BY <1>2, <1>3 DEF Named, ToSet
<1>5. base \in Seq(M) /\ m \in M
  <2>1. ToSet(base) \subseteq M
    BY <1>3
  <2>2. base \in [1 .. Len(base) -> ToSet(base)] /\ Len(base) \in Nat
    BY <1>2, LenProperties
  <2>3. base \in [1 .. Len(base) -> M]
    BY <2>1, <2>2
  <2>4. QED
    BY <2>2, <2>3, <1>3
<1>6. SortedMembers(<<m>>) = <<m>>
  BY <1>4, <1>5, SortedMembersOne
<1> DEFINE others == {i \in DOMAIN base : base[i].key # m.key}
<1>7. PICK a \in Seq(M) :
        /\ a = Selected(base, others) /\ DifferentNames(a)
        /\ \A i \in DOMAIN a : \E p \in DOMAIN base : p \in others /\ a[i] = base[p]
        /\ \A p \in DOMAIN base : p \in others => Has(a, base[p])
  <2>1. DifferentNames(base)
    <3> SUFFICES ASSUME NEW i \in DOMAIN base, NEW j \in DOMAIN base, i # j
                 PROVE  base[i].key # base[j].key
      BY DEF DifferentNames
    <3>1. i \in Int /\ j \in Int
      BY <1>5, LenProperties
    <3>2. i < j \/ j < i
      BY <3>1
    <3>3. base[i].key < base[j].key \/ base[j].key < base[i].key
      BY <3>2, <1>2 DEF InOrder
    <3>4. QED
      BY <3>3, <1>2
  <2>2. QED
    BY <2>1, <1>5, SelectedMembers
<1>8. PICK one \in Seq(M) : one = <<m>> /\ DOMAIN one = {1} /\ one[1] = m
  <2>1. <<m>> \in Seq(M) /\ DOMAIN <<m>> = {1} /\ <<m>>[1] = m
    BY <1>5
  <2>2. QED
    BY <2>1
<1> HIDE DEF others
<1>9. a \in Seq(M) /\ one \in Seq(M) /\ DifferentNames(a)
  BY <1>7, <1>8
<1>10. PICK t \in Seq(M) : t = a \o one
  BY <1>9, ConcatProperties
<1>11. t \in Seq(M)
  BY <1>10
<1>12. ASSUME NEW y PROVE Has(a, y) <=> Has(base, y) /\ y.key # m.key
  <2>1. \A i \in DOMAIN a : \E p \in DOMAIN base : base[p].key # m.key /\ a[i] = base[p]
    BY <1>7 DEF others
  <2>2. \A p \in DOMAIN base : base[p].key # m.key => Has(a, base[p])
    BY <1>7 DEF others
  <2>3. Has(a, y) => Has(base, y) /\ y.key # m.key
    BY <2>1 DEF Has
  <2>4. ASSUME Has(base, y), y.key # m.key PROVE Has(a, y)
    <3>1. PICK p \in DOMAIN base : base[p] = y
      BY <2>4 DEF Has
    <3>2. QED
      BY <3>1, <2>2, <2>4
  <2>5. QED
    BY <2>3, <2>4
<1>13. \A y : Has(t, y) <=> (Has(base, y) /\ y.key # m.key) \/ y = m
  <2> SUFFICES ASSUME NEW y PROVE Has(t, y) <=> (Has(base, y) /\ y.key # m.key) \/ y = m
    OBVIOUS
  <2>1. Has(t, y) <=> Has(a, y) \/ Has(one, y)
    <3>1. Has(a \o one, y) <=> Has(a, y) \/ Has(one, y)
      BY <1>9, HasConcat
    <3>2. QED
      BY <3>1, <1>10
  <2>2. Has(one, y) <=> y = m
    BY <1>8 DEF Has
  <2>3. QED
    BY <2>1, <2>2, <1>12
<1>14. DifferentNames(t)
  <2>1. PICK n \in Nat : n = Len(a) /\ DOMAIN a = 1 .. n
    BY <1>9, LenProperties
  <2>2. Len(one) = 1
    BY <1>8
  <2>3. DOMAIN t = 1 .. n + 1 /\ t[n + 1] = m /\ \A i \in 1 .. n : t[i] = a[i]
    <3>1. t = Append(a, m)
      BY <1>5, <1>7, <1>8, <1>10, AppendIsConcat
    <3>2. /\ Append(a, m) \in Seq(M) /\ Len(Append(a, m)) = n + 1
          /\ \A i \in 1 .. n : Append(a, m)[i] = a[i]
          /\ Append(a, m)[n + 1] = m
      BY <1>5, <1>9, <2>1, AppendProperties
    <3>3. QED
      BY <3>1, <3>2, LenProperties
  <2>4. \A i \in 1 .. n : a[i].key # m.key
    BY <2>1, <1>7 DEF others
  <2>5. \A i \in 1 .. n + 1 : i = n + 1 \/ i \in 1 .. n
    BY <2>1
  <2>6. \A i \in 1 .. n, j \in 1 .. n : i # j => a[i].key # a[j].key
    BY <2>1, <1>9 DEF DifferentNames
  <2>7. QED
    BY <2>3, <2>4, <2>5, <2>6 DEF DifferentNames
<1> DEFINE defined == {i \in DOMAIN t : Defined(t[i])}
<1>15. PICK kept \in Seq(M) :
         /\ kept = Selected(t, defined) /\ DifferentNames(kept)
         /\ \A i \in DOMAIN kept : \E p \in DOMAIN t : p \in defined /\ kept[i] = t[p]
         /\ \A p \in DOMAIN t : p \in defined => Has(kept, t[p])
  BY <1>11, <1>14, SelectedMembers
<1>16. ASSUME NEW y PROVE Has(kept, y) <=> Has(t, y) /\ Defined(y)
  <2>1. \A i \in DOMAIN kept : \E p \in DOMAIN t : Defined(t[p]) /\ kept[i] = t[p]
    BY <1>15
  <2>2. \A p \in DOMAIN t : Defined(t[p]) => Has(kept, t[p])
    BY <1>15
  <2>3. Has(kept, y) => Has(t, y) /\ Defined(y)
    BY <2>1 DEF Has
  <2>4. ASSUME Has(t, y), Defined(y) PROVE Has(kept, y)
    <3>1. PICK p \in DOMAIN t : t[p] = y
      BY <2>4 DEF Has
    <3>2. QED
      BY <3>1, <2>2, <2>4
  <2>5. QED
    BY <2>3, <2>4
<1>17. PICK u \in Seq(M) :
         u = SortedMembers(kept) /\ InOrder(u) /\ \A y : Has(u, y) <=> Has(kept, y)
  BY <1>4, <1>15, SortedMembersKeep
<1>18. Edited(v, <<m>>) = Object(u)
  <2>1. {one[i].key : i \in DOMAIN one} = {m.key}
    BY <1>8
  <2>2. {i \in DOMAIN base : base[i].key \notin {m.key}} = others
    BY DEF others
  <2>3. one # <<>>
    BY <1>8
  <2>4. Edited(v, one) = Build("object", t)
    <3>1. SortedMembers(one) = one
      BY <1>6, <1>8
    <3>2. PICK names : names = {one[i].key : i \in DOMAIN one}
      OBVIOUS
    <3>3. PICK places : places = {i \in DOMAIN base : base[i].key \notin names}
      OBVIOUS
    <3>4. Edited(v, one) = IF one = <<>> THEN v ELSE Build("object", Selected(base, places) \o one)
      BY <3>1, <3>2, <3>3, <1>1 DEF Edited
    <3>5. places = others
      BY <3>2, <3>3, <2>1, <2>2
    <3>6. QED
      BY <3>4, <3>5, <2>3, <1>7, <1>10
  <2>5. Build("object", t) = Object(SortedMembers(kept))
    BY <1>15 DEF Build
  <2>6. QED
    BY <2>4, <2>5, <1>8, <1>17
<1>19. MembersSet(u, base, m)
  <2> SUFFICES ASSUME NEW y
               PROVE  Has(u, y) <=> \/ Has(base, y) /\ y.key # m.key
                                    \/ y = m /\ Defined(m)
    BY DEF MembersSet
  <2>1. Has(base, y) => Defined(y)
    BY <1>2 DEF Has
  <2>2. Has(u, y) <=> Has(t, y) /\ Defined(y)
    BY <1>16, <1>17
  <2>3. QED
    BY <2>1, <2>2, <1>13
<1>20. QED
  BY <1>1, <1>2, <1>4, <1>5, <1>17, <1>18, <1>19

\* At a name.
LEMMA ReplacedMember ==
  ASSUME NEW v, Regular(v), NEW e \in Element, e.name, NEW new, HasKey(new),
         Defined(new) \/ Same(new, Undefined)
  PROVE  Put(Replaced(v, e, new), v, e, new)
<1>1. PICK k \in Nat : k = e.key
  BY DEF Element
<1>2. PICK m : /\ m = WithKey(k, new) /\ m.key = k /\ m.type = new.type
               /\ StripKey(m) = StripKey(new)
  <2>1. /\ WithKey(k, new).key = k /\ WithKey(k, new).type = new.type
        /\ StripKey(WithKey(k, new)) = StripKey(new)
    BY DEF HasKey, WithKey, StripKey
  <2>2. QED
    BY <2>1
<1>3. PICK M, u, base :
        /\ Named(M) /\ u \in Seq(M) /\ base \in Seq(M) /\ InOrder(u) /\ InOrder(base)
        /\ base = IF v.type = "object" THEN v.items ELSE <<>>
        /\ Edited(v, <<m>>) = Object(u)
        /\ MembersSet(u, base, m)
  BY <1>1, <1>2, EditedIs
<1>4. base \in Seq(M) /\ InOrder(base) /\ Named(M)
  BY <1>3
<1>5. PICK r : r = Object(u)
  OBVIOUS
<1>6. Replaced(v, e, new) = r
  BY <1>1, <1>2, <1>3, <1>5 DEF Replaced
<1>7. Own(r) /\ r.key = 0
  BY <1>5 DEF Object, Own, Container
<1>8. Same(Step(r, e), new)
  <2>1. Step(r, e) = Member(Object(u), k)
    BY <1>1, <1>5 DEF Step
  <2>2. CASE Defined(m)
    <3>1. Has(u, m)
      BY <2>2, <1>3 DEF MembersSet
    <3>2. Member(Object(u), k) = m
      BY <3>1, <1>1, <1>2, <1>3, MemberOf
    <3>3. QED
      BY <3>2, <2>1, <1>2 DEF Same
  <2>3. CASE ~Defined(m)
    <3>1. \A y : Has(u, y) => y.key # k
      BY <2>3, <1>2, <1>3 DEF MembersSet
    <3>2. Member(Object(u), k) = Undefined
      BY <3>1, <1>1, <1>3, MemberOf
    <3>3. Same(new, Undefined)
      BY <2>3, <1>2 DEF Defined
    <3>4. QED
      BY <3>2, <3>3, <2>1 DEF Same
  <2>4. QED
    BY <2>2, <2>3
<1>9. ASSUME NEW e2 \in Element, e2 # e, e2.name = e.name
      PROVE  Step(r, e2) = Step(v, e2)
  <2>1. PICK i \in Nat : i = e2.key /\ i # k
    <3>1. /\ e2 = [name |-> e2.name, key |-> e2.key] /\ e2.key \in Nat
          /\ e = [name |-> e.name, key |-> e.key]
      BY DEF Element
    <3>2. e2.key # e.key
      BY <3>1, <1>9
    <3>3. QED
      BY <3>1, <3>2, <1>1
  <2>2. Step(r, e2) = Member(Object(u), i) /\ Step(v, e2) = Member(v, i)
    BY <1>5, <1>9, <2>1 DEF Step
  <2>3. Member(v, i) = Member(Object(base), i)
    <3>1. CASE v.type = "object"
      BY <3>1, <1>3 DEF Member, Object
    <3>2. CASE v.type # "object"
      <4>1. \A y : ~Has(base, y)
        <5>1. DOMAIN base = {}
          BY <3>2, <1>3
        <5>2. QED
          BY <5>1 DEF Has
      <4>2. Member(Object(base), i) = Undefined
        BY <4>1, <1>4, <2>1, MemberOf
      <4>3. QED
        BY <3>2, <4>2 DEF Member
    <3>3. QED
      BY <3>1, <3>2
  <2>4. CASE \E y : Has(base, y) /\ y.key = i
    <3>1. PICK y : Has(base, y) /\ y.key = i
      BY <2>4
    <3>2. Has(u, y)
      BY <3>1, <2>1, <1>2, <1>3 DEF MembersSet
    <3>3. Member(Object(u), i) = y
      BY <3>1, <3>2, <1>3, <2>1, MemberOf
    <3>4. Member(Object(base), i) = y
      BY <3>1, <1>4, <2>1, MemberOf
    <3>5. QED
      BY <3>3, <3>4, <2>2, <2>3
  <2>5. CASE ~\E y : Has(base, y) /\ y.key = i
    <3>1. \A y : Has(u, y) => y.key # i
      BY <2>5, <2>1, <1>2, <1>3 DEF MembersSet
    <3>2. Member(Object(u), i) = Undefined
      BY <3>1, <1>3, <2>1, MemberOf
    <3>3. Member(Object(base), i) = Undefined
      BY <2>5, <1>4, <2>1, MemberOf
    <3>4. QED
      BY <3>2, <3>3, <2>2, <2>3
  <2>6. QED
    BY <2>4, <2>5
<1>10. QED
  BY <1>6, <1>7, <1>8, <1>9 DEF Put

-----------------------------------------------------------------------------
(* A path, step by step *)

Chain(f, v, path, n) == f[0] = v /\ \A i \in 1 .. n : f[i] = Step(f[i - 1], path[i])

\* There is a chain of the values along a path, and it leads to AtPath.
LEMMA AtPathIs ==
  ASSUME NEW v, NEW path \in Seq(Element)
  PROVE  \E f : Chain(f, v, path, Len(path)) /\ AtPath(v, path) = f[Len(path)]
<1>1. PICK n \in Nat : n = Len(path)
  BY LenProperties
<1> DEFINE T == {k \in Nat : \E f : f = [i \in 0 .. n |-> f[i]] /\ Chain(f, v, path, k)}
<1>2. 0 \in T
  <2> DEFINE f == [i \in 0 .. n |-> v]
  <2>1. f[0] = v
    BY <1>1
  <2>2. f = [i \in 0 .. n |-> f[i]]
    OBVIOUS
  <2> HIDE DEF f
  <2>3. Chain(f, v, path, 0)
    BY <2>1 DEF Chain
  <2>4. QED
    BY <2>2, <2>3
<1>3. ASSUME NEW k \in Nat, k \in T, k + 1 <= n PROVE k + 1 \in T
  <2>1. PICK f : f = [i \in 0 .. n |-> f[i]] /\ Chain(f, v, path, k)
    BY <1>3
  <2> DEFINE g == [i \in 0 .. n |-> IF i = k + 1 THEN Step(f[k], path[k + 1]) ELSE f[i]]
  <2>2. g[k + 1] = Step(f[k], path[k + 1])
    BY <1>1, <1>3
  <2>3. \A i \in 0 .. k : g[i] = f[i]
    BY <1>1, <1>3
  <2>4. g = [i \in 0 .. n |-> g[i]]
    OBVIOUS
  <2> HIDE DEF g
  <2>5. ASSUME NEW i \in 1 .. k + 1 PROVE g[i] = Step(g[i - 1], path[i])
    <3>1. CASE i = k + 1
      <4>1. i - 1 = k /\ k \in 0 .. k
        BY <3>1
      <4>2. QED
        BY <3>1, <4>1, <2>2, <2>3
    <3>2. CASE i # k + 1
      <4>1. i \in 1 .. k /\ i \in 0 .. k /\ i - 1 \in 0 .. k
        BY <3>2
      <4>2. QED
        BY <4>1, <2>1, <2>3 DEF Chain
    <3>3. QED
      BY <3>1, <3>2
  <2>6. Chain(g, v, path, k + 1)
    <3>1. 0 \in 0 .. k
      OBVIOUS
    <3>2. QED
      BY <3>1, <2>1, <2>3, <2>5 DEF Chain
  <2>7. QED
    BY <2>4, <2>6
<1>4. n \in T
  <2> DEFINE U == {k \in Nat : k <= n => k \in T}
  <2> HIDE DEF T
  <2>1. 0 \in U
    BY <1>2
  <2>2. \A k \in Nat : k \in U => k + 1 \in U
    BY <1>1, <1>3
  <2> HIDE DEF U
  <2>3. Nat \subseteq U
    BY <2>1, <2>2, Induction
  <2>4. QED
    BY <2>3, <1>1 DEF U
<1>5. PICK f : f = [i \in 0 .. n |-> f[i]] /\ Chain(f, v, path, n)
  BY <1>4
<1> DEFINE at == CHOOSE at : at = [i \in 0 .. Len(path) |->
                   IF i = 0 THEN v ELSE Step(at[i - 1], path[i])]
<1>6. AtPath(v, path) = at[Len(path)]
  BY DEF AtPath
<1>7. \A i \in 0 .. n : f[i] = IF i = 0 THEN v ELSE Step(f[i - 1], path[i])
  <2> SUFFICES ASSUME NEW i \in 0 .. n
               PROVE  f[i] = IF i = 0 THEN v ELSE Step(f[i - 1], path[i])
    OBVIOUS
  <2>1. i # 0 => i \in 1 .. n
    BY <1>1
  <2>2. QED
    BY <2>1, <1>5 DEF Chain
<1>8. f = [i \in 0 .. Len(path) |-> IF i = 0 THEN v ELSE Step(f[i - 1], path[i])]
  <2>1. [i \in 0 .. n |-> f[i]] = [i \in 0 .. n |-> IF i = 0 THEN v ELSE Step(f[i - 1], path[i])]
    BY <1>7
  <2>2. QED
    BY <2>1, <1>1, <1>5
<1>9. at = [i \in 0 .. Len(path) |-> IF i = 0 THEN v ELSE Step(at[i - 1], path[i])]
  BY <1>8
<1> HIDE DEF at
<1>10. \A i \in 0 .. n : at[i] = IF i = 0 THEN v ELSE Step(at[i - 1], path[i])
  BY <1>1, <1>9
<1>11. Chain(at, v, path, n)
  <2>1. 0 \in 0 .. n /\ \A i \in 1 .. n : i \in 0 .. n /\ i # 0
    BY <1>1
  <2>2. QED
    BY <2>1, <1>10 DEF Chain
<1>12. QED
  BY <1>1, <1>6, <1>11

\* Two chains along the same steps agree.
LEMMA ChainsAgree ==
  ASSUME NEW v, NEW p, NEW q, NEW n \in Nat, \A i \in 1 .. n : p[i] = q[i],
         NEW f, Chain(f, v, p, n), NEW g, Chain(g, v, q, n)
  PROVE  f[n] = g[n]
<1> DEFINE T == {k \in Nat : k <= n => f[k] = g[k]}
<1>1. 0 \in T
  BY DEF Chain
<1>2. ASSUME NEW k \in Nat, k \in T PROVE k + 1 \in T
  <2>1. CASE k + 1 <= n
    <3>1. k + 1 \in 1 .. n /\ (k + 1) - 1 = k /\ f[k] = g[k] /\ p[k + 1] = q[k + 1]
      BY <2>1, <1>2
    <3>2. QED
      BY <3>1 DEF Chain
  <2>2. QED
    BY <2>1
<1>3. n \in T
  <2> HIDE DEF T
  <2>1. QED
    BY <1>1, <1>2, Induction
<1>4. QED
  BY <1>3

\* A chain along a path has at each place what is at the path up to there.
LEMMA ChainAt ==
  ASSUME NEW v, NEW path \in Seq(Element), NEW f, Chain(f, v, path, Len(path)),
         NEW n \in 0 .. Len(path)
  PROVE  AtPath(v, SubSeq(path, 1, n)) = f[n]
<1>1. PICK m \in Nat : m = Len(path)
  BY LenProperties
<1>2. \A i \in 1 .. n : path[i] \in Element
  <2>1. \A i \in 1 .. n : i \in 1 .. m
    BY <1>1
  <2>2. QED
    BY <2>1, <1>1, ElementOfSeq
<1>3. PICK p \in Seq(Element) :
        p = SubSeq(path, 1, n) /\ Len(p) = n /\ \A i \in 1 .. n : p[i] = path[i]
  <2>1. n \in Int /\ 1 \in Int /\ n - 1 + 1 = n
    BY <1>1
  <2>2. /\ SubSeq(path, 1, n) \in Seq(Element)
        /\ Len(SubSeq(path, 1, n)) = IF 1 <= n THEN n - 1 + 1 ELSE 0
        /\ \A i \in 1 .. n - 1 + 1 : SubSeq(path, 1, n)[i] = path[1 + i - 1]
    BY <2>1, <1>2, SubSeqProperties
  <2>3. Len(SubSeq(path, 1, n)) = n
    BY <2>1, <2>2, <1>1
  <2>4. \A i \in 1 .. n : SubSeq(path, 1, n)[i] = path[i]
    <3>1. \A i \in 1 .. n : i \in 1 .. n - 1 + 1 /\ 1 + i - 1 = i
      BY <1>1
    <3>2. QED
      BY <3>1, <2>2
  <2>5. QED
    BY <2>2, <2>3, <2>4
<1>4. PICK g : Chain(g, v, p, Len(p)) /\ AtPath(v, p) = g[Len(p)]
  BY AtPathIs
<1>5. Chain(f, v, path, n)
  <2>1. \A i \in 1 .. n : i \in 1 .. Len(path)
    BY <1>1
  <2>2. QED
    BY <2>1 DEF Chain
<1>6. n \in Nat
  BY <1>1
<1>7. Chain(g, v, p, n) /\ AtPath(v, p) = g[n]
  BY <1>3, <1>4
<1>8. g[n] = f[n]
  <2>1. \A i \in 1 .. n : path[i] = p[i]
    BY <1>3
  <2>2. Chain(g, v, p, n)
    BY <1>7
  <2>3. f[n] = g[n]
    <3>1. QED
      BY <2>1, <2>2, <1>5, <1>6, ChainsAgree
  <2>4. QED
    BY <2>3
<1>9. QED
  BY <1>3, <1>7, <1>8

\* The values along the path, each put into the one before it.
Made(f, v, path, x) ==
  /\ f[Len(path)] = x
  /\ \A i \in 0 .. Len(path) - 1 :
       f[i] = Replaced(AtPath(v, SubSeq(path, 1, i)), path[i + 1], f[i + 1])

\* replaceByPath gives the first of them.
LEMMA ReplaceIs ==
  ASSUME NEW v, NEW path \in Seq(Element), NEW x
  PROVE  \E f : Made(f, v, path, x) /\ ReplaceByPath(v, path, x) = f[0]
<1>1. PICK n \in Nat : n = Len(path)
  BY LenProperties
<1> DEFINE Rule(i, y) == Replaced(AtPath(v, SubSeq(path, 1, i)), path[i + 1], y)
           MadeTo(f, k) == f[n] = x /\ \A i \in n - k .. n - 1 : f[i] = Rule(i, f[i + 1])
           T == {k \in Nat : k <= n => \E f : f = [i \in 0 .. n |-> f[i]] /\ MadeTo(f, k)}
<1> HIDE DEF Rule
<1>2. 0 \in T
  <2> DEFINE f == [i \in 0 .. n |-> x]
  <2>1. f[n] = x /\ f = [i \in 0 .. n |-> f[i]]
    BY <1>1
  <2> HIDE DEF f
  <2>2. \A i \in n - 0 .. n - 1 : FALSE
    BY <1>1
  <2>3. MadeTo(f, 0)
    BY <2>1, <2>2
  <2>4. QED
    BY <2>1, <2>3
<1>3. ASSUME NEW k \in Nat, k \in T PROVE k + 1 \in T
  <2> SUFFICES ASSUME k + 1 <= n
               PROVE  \E f : f = [i \in 0 .. n |-> f[i]] /\ MadeTo(f, k + 1)
    OBVIOUS
  <2>1. PICK f : f = [i \in 0 .. n |-> f[i]] /\ MadeTo(f, k)
    BY <1>1, <1>3
  <2>2. PICK j \in 0 .. n - 1 : j = n - (k + 1) /\ j + 1 = n - k
    <3>1. n \in Nat /\ k \in Nat /\ k + 1 <= n
      BY <1>1, <1>3
    <3>2. n - (k + 1) \in 0 .. n - 1 /\ n - (k + 1) + 1 = n - k
      BY <3>1
    <3>3. QED
      BY <3>2
  <2> DEFINE g == [i \in 0 .. n |-> IF i = j THEN Rule(j, f[j + 1]) ELSE f[i]]
  <2>3. g[j] = Rule(j, f[j + 1]) /\ \A i \in j + 1 .. n : g[i] = f[i]
    BY <1>1, <2>2
  <2>4. g = [i \in 0 .. n |-> g[i]]
    OBVIOUS
  <2> HIDE DEF g
  <2>5. g[n] = x
    <3>1. n \in j + 1 .. n
      BY <1>1, <2>2
    <3>2. QED
      BY <3>1, <2>1, <2>3
  <2>6. ASSUME NEW i \in n - (k + 1) .. n - 1 PROVE g[i] = Rule(i, g[i + 1])
    <3>1. CASE i = j
      <4>1. j + 1 \in j + 1 .. n
        BY <1>1, <2>2
      <4>2. QED
        BY <3>1, <4>1, <2>3
    <3>2. CASE i # j
      <4>1. i \in n - k .. n - 1 /\ i \in j + 1 .. n /\ i + 1 \in j + 1 .. n
        BY <3>2, <1>1, <2>2
      <4>2. QED
        BY <4>1, <2>1, <2>3
    <3>3. QED
      BY <3>1, <3>2
  <2>7. QED
    BY <2>4, <2>5, <2>6
<1>4. n \in T
  <2> HIDE DEF T
  <2>1. QED
    BY <1>1, <1>2, <1>3, Induction
<1>5. PICK f : f = [i \in 0 .. n |-> f[i]] /\ MadeTo(f, n)
  BY <1>1, <1>4
<1>6. \A i \in 0 .. n : f[i] = IF i = n THEN x ELSE Rule(i, f[i + 1])
  <2> SUFFICES ASSUME NEW i \in 0 .. n PROVE f[i] = IF i = n THEN x ELSE Rule(i, f[i + 1])
    OBVIOUS
  <2>1. i # n => i \in n - n .. n - 1
    BY <1>1
  <2>2. QED
    BY <2>1, <1>5
<1> DEFINE new == CHOOSE new : new = [i \in 0 .. Len(path) |->
                    IF i = Len(path) THEN x
                    ELSE Replaced(AtPath(v, SubSeq(path, 1, i)), path[i + 1], new[i + 1])]
<1>7. ReplaceByPath(v, path, x) = new[0]
  BY DEF ReplaceByPath
<1>8. f = [i \in 0 .. Len(path) |->
             IF i = Len(path) THEN x
             ELSE Replaced(AtPath(v, SubSeq(path, 1, i)), path[i + 1], f[i + 1])]
  <2>1. [i \in 0 .. n |-> f[i]] = [i \in 0 .. n |-> IF i = n THEN x ELSE Rule(i, f[i + 1])]
    BY <1>6
  <2>2. f = [i \in 0 .. n |-> IF i = n THEN x ELSE Rule(i, f[i + 1])]
    BY <2>1, <1>5
  <2>3. QED
    BY <2>2, <1>1 DEF Rule
<1>9. new = [i \in 0 .. Len(path) |->
               IF i = Len(path) THEN x
               ELSE Replaced(AtPath(v, SubSeq(path, 1, i)), path[i + 1], new[i + 1])]
  BY <1>8
<1> HIDE DEF new
<1>10. \A i \in 0 .. n :
         new[i] = IF i = n THEN x
                  ELSE Replaced(AtPath(v, SubSeq(path, 1, i)), path[i + 1], new[i + 1])
  BY <1>1, <1>9
<1>11. Made(new, v, path, x)
  <2>1. n \in 0 .. n /\ \A i \in 0 .. n - 1 : i \in 0 .. n /\ i # n
    BY <1>1
  <2>2. QED
    BY <2>1, <1>1, <1>10 DEF Made
<1>12. QED
  BY <1>7, <1>11

-----------------------------------------------------------------------------
(* What a replacement changes *)

\* A value that a member can have, or none.
Fills(x) == HasKey(x) /\ (Defined(x) \/ Same(x, Undefined))

\* One step of replaceByPath.
LEMMA ReplacedIs ==
  ASSUME NEW v, Regular(v), NEW e \in Element, NEW new, Fills(new)
  PROVE  Put(Replaced(v, e, new), v, e, new)
<1>1. CASE e.name
  BY <1>1, ReplacedMember DEF Fills
<1>2. CASE ~e.name
  BY <1>2, ReplacedItem
<1>3. QED
  BY <1>1, <1>2

\* From the values at a path to those that replace them.
Puts(new, at, path, n) ==
  \A i \in 0 .. n - 1 : Put(new[i], at[i], path[i + 1], new[i + 1])

\* Each is put into the one before it.
LEMMA MadePuts ==
  ASSUME NEW v, NEW path \in Seq(Element), NEW x, Fills(x),
         NEW at, Chain(at, v, path, Len(path)), \A i \in 0 .. Len(path) - 1 : Regular(at[i]),
         NEW new, Made(new, v, path, x)
  PROVE  Puts(new, at, path, Len(path))
<1>1. PICK n \in Nat : n = Len(path)
  BY LenProperties
<1>2. ASSUME NEW i \in 0 .. n - 1, Fills(new[i + 1])
      PROVE  Put(new[i], at[i], path[i + 1], new[i + 1])
  <2>1. i \in 0 .. Len(path) /\ i + 1 \in 1 .. Len(path)
    BY <1>1
  <2>2. AtPath(v, SubSeq(path, 1, i)) = at[i]
    BY <2>1, ChainAt
  <2>3. path[i + 1] \in Element
    BY <2>1, ElementOfSeq
  <2>4. new[i] = Replaced(at[i], path[i + 1], new[i + 1])
    BY <1>1, <2>2 DEF Made
  <2>5. Regular(at[i])
    BY <1>1
  <2>6. QED
    BY <1>2, <2>3, <2>4, <2>5, ReplacedIs
<1> DEFINE T == {k \in Nat : k <= n => Fills(new[n - k])}
<1>3. 0 \in T
  <2>1. new[n] = x /\ n - 0 = n
    BY <1>1 DEF Made
  <2>2. QED
    BY <2>1
<1>4. ASSUME NEW k \in Nat, k \in T PROVE k + 1 \in T
  <2> SUFFICES ASSUME k + 1 <= n PROVE Fills(new[n - (k + 1)])
    OBVIOUS
  <2>1. PICK j \in 0 .. n - 1 : j = n - (k + 1) /\ j + 1 = n - k
    <3>1. n - (k + 1) \in 0 .. n - 1 /\ n - (k + 1) + 1 = n - k
      BY <1>1
    <3>2. QED
      BY <3>1
  <2>2. Fills(new[j + 1])
    BY <1>1, <1>4, <2>1
  <2>3. Put(new[j], at[j], path[j + 1], new[j + 1])
    BY <1>2, <2>2
  <2>4. Fills(new[j])
    BY <2>3 DEF Put, Own, Container, Fills, HasKey, Defined
  <2>5. QED
    BY <2>1, <2>4
<1>5. Nat \subseteq T
  <2> HIDE DEF T
  <2>1. QED
    BY <1>3, <1>4, Induction
<1>6. ASSUME NEW i \in 0 .. n - 1 PROVE Fills(new[i + 1])
  <2>1. n - (i + 1) \in Nat /\ n - (i + 1) <= n /\ n - (n - (i + 1)) = i + 1
    BY <1>1
  <2>2. QED
    BY <2>1, <1>5
<1>7. QED
  BY <1>1, <1>2, <1>6 DEF Puts

\* They are what is found along the path.
LEMMA PutThere ==
  ASSUME NEW n \in Nat, NEW path, NEW at, NEW new, Puts(new, at, path, n),
         NEW q, NEW m \in 0 .. n, \A i \in 1 .. m : q[i] = path[i],
         NEW got, Chain(got, new[0], q, m)
  PROVE  Same(got[m], new[m])
<1> DEFINE T == {k \in Nat : k <= m => Same(got[k], new[k])}
<1>1. 0 \in T
  BY DEF Chain, Same
<1>2. ASSUME NEW k \in Nat, k \in T PROVE k + 1 \in T
  <2> SUFFICES ASSUME k + 1 <= m PROVE Same(got[k + 1], new[k + 1])
    OBVIOUS
  <2>1. k + 1 \in 1 .. m /\ (k + 1) - 1 = k /\ k \in 0 .. n - 1 /\ q[k + 1] = path[k + 1]
    OBVIOUS
  <2>2. Same(got[k], new[k])
    BY <1>2
  <2>3. Put(new[k], at[k], path[k + 1], new[k + 1])
    BY <2>1 DEF Puts
  <2>4. got[k + 1] = Step(got[k], path[k + 1])
    BY <2>1 DEF Chain
  <2>5. Step(got[k], path[k + 1]) = Step(new[k], path[k + 1])
    BY <2>2, <2>3, StepSame DEF Put
  <2>6. QED
    BY <2>3, <2>4, <2>5 DEF Put, Same
<1>3. m \in Nat
  OBVIOUS
<1>4. m \in T
  <2> HIDE DEF T
  <2>1. QED
    BY <1>1, <1>2, <1>3, Induction
<1>5. QED
  BY <1>3, <1>4

\* Two paths are the same up to their m-th step, where they part.
PartAt(p, q, m) ==
  (\A i \in 1 .. m - 1 : q[i] = p[i]) /\ q[m] # p[m] /\ q[m].name = p[m].name

\* What is at a path that parts from it stays.
LEMMA PutBeside ==
  ASSUME NEW n \in Nat, NEW v, NEW path,
         NEW at, Chain(at, v, path, n), NEW new, Puts(new, at, path, n),
         NEW l \in Nat, NEW q, NEW m \in 1 .. n, m <= l,
         q[m] \in Element, PartAt(path, q, m),
         NEW was, Chain(was, v, q, l), NEW got, Chain(got, new[0], q, l)
  PROVE  got[l] = was[l]
<1>1. PICK k \in Nat : k = m - 1 /\ m = k + 1 /\ k \in 0 .. n - 1 /\ k \in 0 .. n
  <2>1. /\ m - 1 \in Nat /\ m = (m - 1) + 1
        /\ m - 1 \in 0 .. n - 1 /\ m - 1 \in 0 .. n
    OBVIOUS
  <2>2. QED
    BY <2>1
<1>2. \A i \in 1 .. k : i \in 1 .. n /\ i \in 1 .. l
  BY <1>1
<1>3. Chain(at, v, path, k) /\ Chain(was, v, q, k) /\ Chain(got, new[0], q, k)
  BY <1>2 DEF Chain
<1>4. \A i \in 1 .. k : q[i] = path[i]
  BY <1>1 DEF PartAt
<1>5. was[k] = at[k]
  BY <1>3, <1>4, ChainsAgree
<1>6. Same(got[k], new[k])
  BY <1>1, <1>3, <1>4, PutThere
<1>7. Put(new[k], at[k], path[k + 1], new[k + 1])
  BY <1>1 DEF Puts
<1>8. got[m] = was[m]
  <2>1. m \in 1 .. l /\ m - 1 = k
    BY <1>1
  <2>2. got[m] = Step(got[k], q[m]) /\ was[m] = Step(was[k], q[m])
    BY <2>1 DEF Chain
  <2>3. Step(got[k], q[m]) = Step(new[k], q[m])
    BY <1>6, <1>7, StepSame DEF Put
  <2>4. Step(new[k], q[m]) = Step(at[k], q[m])
    <3>1. q[m] \in Element /\ q[m] # path[k + 1] /\ q[m].name = path[k + 1].name
      BY <1>1, <2>1 DEF PartAt
    <3>2. QED
      BY <3>1, <1>7 DEF Put
  <2>5. QED
    BY <2>2, <2>3, <2>4, <1>5
<1> DEFINE T == {i \in Nat : m + i <= l => got[m + i] = was[m + i]}
<1>9. 0 \in T
  BY <1>8
<1>10. ASSUME NEW i \in Nat, i \in T PROVE i + 1 \in T
  <2> SUFFICES ASSUME m + (i + 1) <= l PROVE got[m + (i + 1)] = was[m + (i + 1)]
    OBVIOUS
  <2>1. /\ m + (i + 1) \in 1 .. l /\ (m + (i + 1)) - 1 = m + i /\ got[m + i] = was[m + i]
    BY <1>10
  <2>2. QED
    BY <2>1 DEF Chain
<1>11. Nat \subseteq T
  <2> HIDE DEF T
  <2>1. QED
    BY <1>9, <1>10, Induction
<1>12. l - m \in Nat /\ m + (l - m) = l
  OBVIOUS
<1>13. l - m \in T
  <2> HIDE DEF T
  <2>1. QED
    BY <1>11, <1>12
<1>14. QED
  BY <1>12, <1>13

\* What replaceByPath does to what is at its path and at those beside it.
LEMMA ReplaceByPathIs ==
  ASSUME NEW d, NEW path \in Seq(Element), NEW x, Fills(x),
         \A n \in DOMAIN path : Regular(AtPath(d, SubSeq(path, 1, n - 1))),
         NEW path2 \in Seq(Element), NEW r, r = ReplaceByPath(d, path, x)
  PROVE  /\ Same(AtPath(r, path), x)
         /\ Apart(path, path2) => AtPath(r, path2) = AtPath(d, path2)
<1>1. PICK n \in Nat : n = Len(path) /\ path \in [1 .. n -> Element]
  BY LenProperties
<1>2. PICK l \in Nat : l = Len(path2) /\ path2 \in [1 .. l -> Element]
  BY LenProperties
<1>3. PICK at : Chain(at, d, path, Len(path))
  BY AtPathIs
<1>4. PICK new : Made(new, d, path, x) /\ r = new[0]
  BY ReplaceIs
<1>5. ASSUME NEW i \in 0 .. Len(path) - 1 PROVE Regular(at[i])
  <2>1. i + 1 \in DOMAIN path /\ (i + 1) - 1 = i /\ i \in 0 .. Len(path)
    BY <1>1
  <2>2. AtPath(d, SubSeq(path, 1, i)) = at[i]
    BY <2>1, <1>3, ChainAt
  <2>3. QED
    BY <2>1, <2>2
<1>6. Puts(new, at, path, n) /\ new[n] = x
  <2>1. Puts(new, at, path, Len(path))
    BY <1>3, <1>4, <1>5, MadePuts
  <2>2. QED
    BY <2>1, <1>1, <1>4 DEF Made
<1>7. Same(AtPath(r, path), x)
  <2>1. PICK got : Chain(got, r, path, Len(path)) /\ AtPath(r, path) = got[Len(path)]
    BY AtPathIs
  <2>2. Chain(got, new[0], path, n) /\ AtPath(r, path) = got[n]
    BY <2>1, <1>1, <1>4
  <2>3. n \in 0 .. n /\ \A i \in 1 .. n : path[i] = path[i]
    BY <1>1
  <2>4. Same(got[n], new[n])
    BY <2>2, <2>3, <1>6, PutThere
  <2>5. QED
    BY <2>2, <2>4, <1>6
<1>8. ASSUME Apart(path, path2) PROVE AtPath(r, path2) = AtPath(d, path2)
  <2> DEFINE differ == {i \in DOMAIN path \cap DOMAIN path2 : path[i] # path2[i]}
  <2>1. differ \subseteq Nat /\ differ # {} /\ path[Min(differ)].name = path2[Min(differ)].name
    BY <1>1, <1>2, <1>8 DEF Apart
  <2>2. PICK m \in differ : m = Min(differ) /\ \A y \in differ : m <= y
    <3> HIDE DEF differ
    <3>1. QED
      BY <2>1, MinIs
  <2>3. m \in 1 .. n /\ m <= l /\ path2[m] # path[m] /\ path2[m].name = path[m].name
    BY <1>1, <1>2, <2>1, <2>2
  <2>4. ASSUME NEW i \in 1 .. m - 1 PROVE path2[i] = path[i]
    <3>1. i \in DOMAIN path \cap DOMAIN path2 /\ ~(m <= i)
      BY <1>1, <1>2, <2>3
    <3>2. i \notin differ
      BY <3>1, <2>2
    <3>3. QED
      BY <3>1, <3>2
  <2> HIDE DEF differ
  <2>5. PICK was : Chain(was, d, path2, Len(path2)) /\ AtPath(d, path2) = was[Len(path2)]
    BY AtPathIs
  <2>6. PICK got : Chain(got, r, path2, Len(path2)) /\ AtPath(r, path2) = got[Len(path2)]
    BY AtPathIs
  <2>7. Chain(at, d, path, n) /\ Chain(was, d, path2, l) /\ Chain(got, new[0], path2, l)
    BY <1>1, <1>2, <1>3, <1>4, <2>5, <2>6
  <2>8. n \in Nat /\ l \in Nat /\ path2[m] \in Element
    BY <1>1, <1>2, <2>3
  <2>9. got[l] = was[l]
    <3>1. m \in 1 .. n /\ m <= l /\ PartAt(path, path2, m)
      BY <2>3, <2>4 DEF PartAt
    <3>2. QED
      BY <3>1, <2>7, <2>8, <1>6, PutBeside
  <2>10. QED
    BY <2>5, <2>6, <2>9, <1>2
<1>9. QED
  BY <1>7, <1>8

-----------------------------------------------------------------------------
(* Comparing paths *)

\* Steps compare as equal only when they are.
LEMMA CompareElementsIs ==
  ASSUME NEW x \in Element, NEW y \in Element
  PROVE  /\ CompareElements(x, y) = 0 <=> x = y
         /\ CompareElements(y, x) = -CompareElements(x, y)
<1>1. /\ x = [name |-> x.name, key |-> x.key] /\ y = [name |-> y.name, key |-> y.key]
      /\ x.name \in BOOLEAN /\ y.name \in BOOLEAN /\ x.key \in Nat /\ y.key \in Nat
  BY DEF Element
<1>2. PICK i \in Nat, j \in Nat : i = x.key /\ j = y.key
  BY <1>1
<1>3. Sign(i, j) = 0 <=> i = j
  BY DEF Sign
<1>4. Sign(j, i) = -Sign(i, j)
  BY DEF Sign
<1>5. CASE x.name # y.name
  <2>1. x # y
    BY <1>5
  <2>2. CompareElements(x, y) = (IF x.name THEN 1 ELSE -1)
    BY <1>5 DEF CompareElements
  <2>3. CompareElements(y, x) = (IF y.name THEN 1 ELSE -1)
    BY <1>5 DEF CompareElements
  <2>4. (x.name /\ ~y.name) \/ (~x.name /\ y.name)
    BY <1>1, <1>5
  <2>5. QED
    BY <2>1, <2>2, <2>3, <2>4
<1>6. CASE x.name = y.name
  <2>1. CompareElements(x, y) = Sign(i, j) /\ CompareElements(y, x) = Sign(j, i)
    BY <1>2, <1>6 DEF CompareElements
  <2>2. x = y <=> i = j
    BY <1>1, <1>2, <1>6
  <2>3. QED
    BY <2>1, <2>2, <1>3, <1>4
<1>7. QED
  BY <1>5, <1>6

\* How many steps before the end of both paths one differs.
Parted(p, q) == {n \in 0 .. Min({Len(p), Len(q)}) - 1 : p[Len(p) - n] # q[Len(q) - n]}

\* Paths compare as equal only when they are.
LEMMA ComparePathsIs ==
  ASSUME NEW p \in Seq(Element), NEW q \in Seq(Element)
  PROVE  /\ ComparePaths(p, q) = 0 <=> p = q
         /\ ComparePaths(q, p) = -ComparePaths(p, q)
<1>1. PICK n \in Nat, l \in Nat : n = Len(p) /\ l = Len(q)
  BY LenProperties
<1>2. PICK m : m = Min({n, l})
  OBVIOUS
<1>3. m \in Nat /\ m <= n /\ m <= l /\ (n = l => m = n)
  <2>1. {n, l} \subseteq Nat /\ {n, l} # {}
    OBVIOUS
  <2>2. m \in {n, l} /\ \A y \in {n, l} : m <= y
    BY <2>1, <1>2, MinIs
  <2>3. QED
    BY <2>2
<1>4. Parted(p, q) = {i \in 0 .. m - 1 : p[n - i] # q[l - i]}
  BY <1>1, <1>2 DEF Parted
<1>5. Parted(q, p) = Parted(p, q)
  <2>1. {l, n} = {n, l}
    OBVIOUS
  <2>2. Parted(q, p) = {i \in 0 .. m - 1 : q[l - i] # p[n - i]}
    BY <2>1, <1>1, <1>2 DEF Parted
  <2>3. QED
    BY <2>2, <1>4
<1>6. CASE Parted(p, q) = {}
  <2>1. ComparePaths(p, q) = Sign(n, l) /\ ComparePaths(q, p) = Sign(l, n)
    BY <1>1, <1>5, <1>6 DEF ComparePaths, Parted
  <2>2. p = q => n = l
    BY <1>1
  <2>3. ASSUME n = l PROVE p = q
    <3>1. ASSUME NEW i \in 1 .. Len(p) PROVE p[i] = q[i]
      <4>1. n - i \in 0 .. m - 1 /\ n - (n - i) = i /\ l - (n - i) = i
        BY <1>1, <1>3, <2>3
      <4>2. QED
        BY <4>1, <1>4, <1>6
    <3>2. Len(p) = Len(q)
      BY <1>1, <2>3
    <3>3. QED
      BY <3>1, <3>2, SeqEqual
  <2>4. (Sign(n, l) = 0 <=> n = l) /\ Sign(l, n) = -Sign(n, l)
    BY DEF Sign
  <2>5. QED
    BY <2>1, <2>2, <2>3, <2>4
<1>7. CASE Parted(p, q) # {}
  <2>1. PICK i \in Parted(p, q) : i = Min(Parted(p, q))
    <3>1. Parted(p, q) \subseteq Nat
      BY <1>3, <1>4
    <3>2. QED
      BY <3>1, <1>7, MinIs
  <2>2. i \in 0 .. m - 1 /\ p[n - i] # q[l - i]
    BY <2>1, <1>4
  <2>3. PICK x \in Element, y \in Element : x = p[n - i] /\ y = q[l - i]
    <3>1. n - i \in 1 .. Len(p) /\ l - i \in 1 .. Len(q)
      BY <2>2, <1>1, <1>3
    <3>2. QED
      BY <3>1, ElementOfSeq
  <2>4. ComparePaths(p, q) = CompareElements(x, y) /\ ComparePaths(q, p) = CompareElements(y, x)
    BY <1>1, <1>5, <1>7, <2>1, <2>3 DEF ComparePaths, Parted
  <2>5. p # q
    BY <2>2, <1>1
  <2>6. x # y
    BY <2>2, <2>3
  <2>7. QED
    BY <2>4, <2>5, <2>6, CompareElementsIs
<1>8. QED
  BY <1>6, <1>7

-----------------------------------------------------------------------------
(* PathsAgree *)

\* Whatever the documents, the paths and the items are: what replace puts at a
\* path is there and what is at paths beside it stays, through every container
\* that replaceByPath makes again on the way; and compare says 0 of the same
\* paths only, and the opposite of the paths swapped (path.cpp, Object::commit
\* and the bisection in objectValue.cpp).
THEOREM PathsAgreeAlways == PathSpec => []PathsAgree
<1>1. Init => PathsAgree
  BY DEF Init, NoQuestion, PathsAgree
<1>2. ASSUME PathsAgree, [PathNext \/ question'.op # "replace"]_vars
      PROVE  PathsAgree'
  <2>1. ASSUME PathNext PROVE PathsAgree'
    <3>1. PICK path \in UsedPaths, path2 \in UsedPaths, x \in Item \cup {Undefined} :
            doc \in Docs /\ ReplaceIn(path, path2, x)
      BY <2>1 DEF PathNext
    <3>2. PICK r : r = ReplaceByPath(doc, path, x)
      OBVIOUS
    <3>3. /\ question' = [op |-> "replace", path |-> path, path2 |-> path2, new |-> x]
          /\ answer' = [value |-> r, order |-> ComparePaths(path, path2),
                        order2 |-> ComparePaths(path2, path)]
          /\ doc' = doc
      BY <3>1, <3>2 DEF ReplaceIn, Ask
    <3>4. path \in Seq(Element) /\ path2 \in Seq(Element)
      BY PathAssumption DEF Element
    <3>5. Fills(x)
      <4>1. CASE x \in Item
        BY <4>1, PathAssumption DEF Fills, HasKey
      <4>2. CASE x = Undefined
        BY <4>2 DEF Fills, HasKey, Same, Undefined
      <4>3. QED
        BY <4>1, <4>2
    <3>6. \A n \in DOMAIN path : Regular(AtPath(doc, SubSeq(path, 1, n - 1)))
      BY <3>1, PathAssumption
    <3>7. /\ Same(AtPath(r, path), x)
          /\ Apart(path, path2) => AtPath(r, path2) = AtPath(doc, path2)
      BY <3>2, <3>4, <3>5, <3>6, ReplaceByPathIs
    <3>8. /\ ComparePaths(path, path2) = 0 <=> path = path2
          /\ ComparePaths(path2, path) = -ComparePaths(path, path2)
      BY <3>4, ComparePathsIs
    <3>9. QED
      BY <3>3, <3>7, <3>8 DEF PathsAgree, Same
  <2>2. ASSUME question'.op # "replace" PROVE PathsAgree'
    BY <2>2 DEF PathsAgree
  <2>3. ASSUME UNCHANGED vars PROVE PathsAgree'
    BY <1>2, <2>3 DEF PathsAgree, vars
  <2>4. QED
    BY <1>2, <2>1, <2>2, <2>3
<1>3. QED
  BY <1>1, <1>2, PTL DEF PathSpec

=============================================================================
