------------------------- MODULE ObjectBuilderProofs -------------------------
(***************************************************************************)
(* Theorems about ObjectBuilder, for any number of names, any values and   *)
(* any capacities.                                                         *)
(*                                                                         *)
(* First what sort, merge and bisection compute: all three are stated by   *)
(* what a reader finds under each name (ByName).  Then what one call does  *)
(* to the containers of an Object (Sound, Changes), and what is left of    *)
(* them when the call returns.                                             *)
(***************************************************************************)
EXTENDS ObjectBuilder, SetInduction, TLAPS

-----------------------------------------------------------------------------
(* Names *)

\* The least number of a set is in it.
LEMMA MinIs ==
  ASSUME NEW T, T \subseteq Nat, T # {}
  PROVE  Min(T) \in T /\ \A y \in T : Min(T) <= y
BY Least DEF Min

\* The greatest number of a set of places is in it.
LEMMA MaxIs ==
  ASSUME NEW n \in Nat, NEW T, T \subseteq 1 .. n, T # {}
  PROVE  Max(T) \in T /\ \A y \in T : y <= Max(T)
<1> DEFINE U == {n - y : y \in T}
<1>1. U \subseteq Nat /\ U # {}
  <2>1. ASSUME NEW y \in T PROVE n - y \in Nat
    <3>1. y \in 1 .. n
      OBVIOUS
    <3>2. QED
      BY <3>1
  <2>2. QED
    BY <2>1
<1>2. PICK u \in U : \A z \in U : u <= z
  BY <1>1, Least
<1>3. PICK x \in T : u = n - x
  BY <1>2
<1>4. \A y \in T : x >= y
  <2> SUFFICES ASSUME NEW y \in T PROVE x >= y
    OBVIOUS
  <2>1. n - y \in U
    OBVIOUS
  <2>2. n - x <= n - y
    BY <2>1, <1>2, <1>3
  <2>3. x \in Nat /\ y \in Nat
    OBVIOUS
  <2>4. QED
    BY <2>2, <2>3
<1>5. Max(T) \in T /\ \A y \in T : Max(T) >= y
  BY <1>4 DEF Max
<1>6. ASSUME NEW y \in T PROVE y <= Max(T)
  <2>1. y \in 1 .. n /\ Max(T) \in 1 .. n /\ Max(T) >= y
    BY <1>5
  <2>2. QED
    BY <2>1
<1>7. QED
  BY <1>5, <1>6

\* No member has this name; the last member that has it.
Absent(s, k) == \A i \in 1 .. Len(s) : s[i].key # k
LastAt(s, k, i) ==
  i \in 1 .. Len(s) /\ s[i].key = k /\ \A j \in 1 .. Len(s) : s[j].key = k => j <= i

\* A member has a name, and a value or none.
LEMMA MemberIs ==
  ASSUME NEW m \in Member
  PROVE  m.key \in Key /\ m.key \in Nat /\ m.value \in Val \cup {Undefined}
BY DEF Member, Key

\* So have the members of a list.
LEMMA ItemIs ==
  ASSUME NEW s \in Seq(Member), NEW i \in 1 .. Len(s)
  PROVE  s[i] \in Member /\ s[i].key \in Key /\ s[i].key \in Nat
         /\ s[i].value \in Val \cup {Undefined}
<1>1. s[i] \in Member
  OBVIOUS
<1>2. QED
  BY <1>1, MemberIs

\* The places of a list.
LEMMA DomainIs ==
  ASSUME NEW S, NEW s \in Seq(S)
  PROVE  DOMAIN s = 1 .. Len(s) /\ Len(s) \in Nat
OBVIOUS

\* A name is absent, or one member is the last to have it.
LEMMA LastExists ==
  ASSUME NEW s \in Seq(Member), NEW k
  PROVE  Absent(s, k) \/ \E i : LastAt(s, k, i)
<1> SUFFICES ASSUME ~Absent(s, k) PROVE \E i : LastAt(s, k, i)
  OBVIOUS
<1> DEFINE T == {i \in 1 .. Len(s) : s[i].key = k}
<1>1. T \subseteq 1 .. Len(s) /\ T # {}
  BY DEF Absent
<1>2. Len(s) \in Nat
  OBVIOUS
<1>3. Max(T) \in T /\ \A y \in T : y <= Max(T)
  BY <1>1, <1>2, MaxIs
<1>4. LastAt(s, k, Max(T))
  BY <1>3 DEF LastAt
<1>5. QED
  BY <1>4

\* The last member with a name.
LEMMA LastIsMax ==
  ASSUME NEW s \in Seq(Member), NEW k, NEW i, LastAt(s, k, i)
  PROVE  Max({j \in DOMAIN s : s[j].key = k}) = i /\ {j \in DOMAIN s : s[j].key = k} # {}
<1> DEFINE T == {j \in DOMAIN s : s[j].key = k}
<1>1. T \subseteq 1 .. Len(s) /\ i \in T /\ T # {} /\ Len(s) \in Nat
  BY DEF LastAt
<1>2. Max(T) \in T /\ \A y \in T : y <= Max(T)
  BY <1>1, MaxIs
<1>3. Max(T) <= i /\ i <= Max(T) /\ i \in Nat /\ Max(T) \in Nat
  BY <1>1, <1>2 DEF LastAt
<1>4. QED
  BY <1>1, <1>3

\* What a reader finds under a name.
LEMMA FindsLast ==
  ASSUME NEW s \in Seq(Member), NEW k \in Key, NEW i, LastAt(s, k, i), NEW missing
  PROVE  ByName(s, missing)[k] = s[i].value
<1> DEFINE T == {j \in DOMAIN s : s[j].key = k}
<1>1. Max(T) = i /\ T # {}
  BY LastIsMax
<1> HIDE DEF T
<1>2. ByName(s, missing)[k] = IF T = {} THEN missing ELSE s[Max(T)].value
  BY DEF ByName, T
<1>3. QED
  BY <1>1, <1>2

\* A name that is absent is found to be missing.
LEMMA FindsNone ==
  ASSUME NEW s \in Seq(Member), NEW k \in Key, Absent(s, k), NEW missing
  PROVE  ByName(s, missing)[k] = missing
<1>1. {j \in DOMAIN s : s[j].key = k} = {}
  BY DEF Absent
<1>2. QED
  BY <1>1 DEF ByName

\* The members of a list in order are found where they are.
LEMMA FindsInOrder ==
  ASSUME NEW s \in Seq(Member), InOrder(s), NEW i \in 1 .. Len(s), NEW missing
  PROVE  LastAt(s, s[i].key, i) /\ ByName(s, missing)[s[i].key] = s[i].value
<1>1. ASSUME NEW j \in 1 .. Len(s), s[j].key = s[i].key, ~(j <= i)
      PROVE  FALSE
  <2>1. i < j
    BY <1>1
  <2>2. i \in DOMAIN s /\ j \in DOMAIN s
    BY DomainIs
  <2>3. s[i].key < s[j].key
    BY <2>1, <2>2 DEF InOrder
  <2>4. s[i].key \in Nat
    BY ItemIs
  <2>5. QED
    BY <2>3, <2>4, <1>1
<1>2. LastAt(s, s[i].key, i)
  BY <1>1 DEF LastAt
<1>3. s[i].key \in Key
  BY ItemIs
<1>4. QED
  BY <1>2, <1>3, FindsLast

\* What a change under a name may be.
LEMMA FoundType ==
  ASSUME NEW s \in Seq(Member), NEW k \in Key, NEW missing
  PROVE  /\ Absent(s, k) => ByName(s, missing)[k] = missing
         /\ ~Absent(s, k) => ByName(s, missing)[k] \in Val \cup {Undefined}
<1>1. CASE Absent(s, k)
  BY <1>1, FindsNone
<1>2. CASE ~Absent(s, k)
  <2>1. PICK i : LastAt(s, k, i)
    BY <1>2, LastExists
  <2>2. i \in 1 .. Len(s) /\ ByName(s, missing)[k] = s[i].value
    BY <2>1, FindsLast DEF LastAt
  <2>3. QED
    BY <1>2, <2>2, ItemIs
<1>3. QED
  BY <1>1, <1>2

\* What is found does not depend on what missing names stand for.
LEMMA FoundAlike ==
  ASSUME NEW s \in Seq(Member), NEW k \in Key, ~Absent(s, k), NEW x, NEW y
  PROVE  ByName(s, x)[k] = ByName(s, y)[k]
<1>1. PICK i : LastAt(s, k, i)
  BY LastExists
<1>2. QED
  BY <1>1, FindsLast

\* The same members in the same places under the same names.
LEMMA SameFunction ==
  ASSUME NEW s, NEW t, NEW x, NEW y, \A k \in Key : ByName(s, x)[k] = ByName(t, y)[k]
  PROVE  ByName(s, x) = ByName(t, y)
BY DEF ByName

\* One change more.
LEMMA FindsAppended ==
  ASSUME NEW s \in Seq(Member), NEW m \in Member, NEW missing, NEW k \in Key
  PROVE  ByName(Append(s, m), missing)[k] =
           IF k = m.key THEN m.value ELSE ByName(s, missing)[k]
<1>1. PICK t \in Seq(Member) : t = Append(s, m)
  <2>1. Append(s, m) \in Seq(Member)
    OBVIOUS
  <2>2. QED
    BY <2>1
<1>2. PICK n \in Nat : n = Len(s)
  OBVIOUS
<1>3. Len(t) = n + 1 /\ t[n + 1] = m /\ \A i \in 1 .. n : t[i] = s[i]
  BY <1>1, <1>2
<1>4. CASE k = m.key
  <2>1. LastAt(t, k, n + 1)
    BY <1>3, <1>4 DEF LastAt
  <2>2. ByName(t, missing)[k] = t[n + 1].value
    BY <2>1, FindsLast
  <2>3. QED
    BY <2>2, <1>1, <1>3, <1>4
<1>5. CASE k # m.key /\ Absent(s, k)
  <2>1. Absent(t, k)
    BY <1>2, <1>3, <1>5 DEF Absent
  <2>2. ByName(t, missing)[k] = missing /\ ByName(s, missing)[k] = missing
    BY <2>1, <1>5, FindsNone
  <2>3. QED
    BY <2>2, <1>1, <1>5
<1>6. CASE k # m.key /\ ~Absent(s, k)
  <2>1. PICK i : LastAt(s, k, i)
    BY <1>6, LastExists
  <2>2. i \in 1 .. n /\ t[i] = s[i]
    BY <2>1, <1>2, <1>3 DEF LastAt
  <2>3. ASSUME NEW j \in 1 .. n + 1, t[j].key = k
        PROVE  j <= i
    <3>1. j # n + 1
      BY <2>3, <1>3, <1>6
    <3>2. j \in 1 .. n
      BY <3>1
    <3>3. QED
      BY <3>2, <2>1, <2>3, <1>2, <1>3 DEF LastAt
  <2>4. LastAt(t, k, i)
    BY <2>1, <2>2, <2>3, <1>3 DEF LastAt
  <2>5. ByName(t, missing)[k] = t[i].value /\ ByName(s, missing)[k] = s[i].value
    BY <2>1, <2>4, FindsLast
  <2>6. QED
    BY <2>2, <2>5, <1>1, <1>6
<1>7. QED
  BY <1>4, <1>5, <1>6

\* Of two lists, the second is looked at first.
LEMMA FindsJoined ==
  ASSUME NEW s \in Seq(Member), NEW t \in Seq(Member), NEW missing, NEW k \in Key
  PROVE  ByName(s \o t, missing)[k] =
           IF Absent(t, k) THEN ByName(s, missing)[k] ELSE ByName(t, missing)[k]
<1>1. PICK u \in Seq(Member) : u = s \o t
  <2>1. s \o t \in Seq(Member)
    OBVIOUS
  <2>2. QED
    BY <2>1
<1>2. PICK n \in Nat : n = Len(s)
  OBVIOUS
<1>3. PICK l \in Nat : l = Len(t)
  OBVIOUS
<1>4. Len(u) = n + l
  BY <1>1, <1>2, <1>3
<1>5. \A i \in 1 .. n : u[i] = s[i]
  BY <1>1, <1>2, <1>3
<1>6. \A i \in 1 .. l : u[n + i] = t[i]
  BY <1>1, <1>2, <1>3
<1>7. ASSUME NEW j \in 1 .. n + l
      PROVE  j \in 1 .. n \/ \E i \in 1 .. l : j = n + i
  <2>1. CASE j > n
    <3>1. j - n \in 1 .. l /\ j = n + (j - n)
      BY <2>1
    <3>2. QED
      BY <3>1
  <2>2. QED
    BY <2>1
<1>8. CASE ~Absent(t, k)
  <2>1. PICK i : LastAt(t, k, i)
    BY <1>8, LastExists
  <2>2. i \in 1 .. l /\ n + i \in 1 .. n + l /\ u[n + i] = t[i]
    BY <2>1, <1>3, <1>6 DEF LastAt
  <2>3. ASSUME NEW j \in 1 .. n + l, u[j].key = k
        PROVE  j <= n + i
    <3>1. CASE j \in 1 .. n
      BY <3>1, <2>2
    <3>2. CASE \E h \in 1 .. l : j = n + h
      <4>1. PICK h \in 1 .. l : j = n + h
        BY <3>2
      <4>2. t[h].key = k
        BY <4>1, <2>3, <1>6
      <4>3. h <= i
        BY <4>1, <4>2, <2>1, <1>3 DEF LastAt
      <4>4. QED
        BY <4>1, <4>3, <2>2
    <3>3. QED
      BY <3>1, <3>2, <1>7
  <2>4. LastAt(u, k, n + i)
    BY <2>1, <2>2, <2>3, <1>3, <1>4 DEF LastAt
  <2>5. ByName(u, missing)[k] = u[n + i].value /\ ByName(t, missing)[k] = t[i].value
    BY <2>1, <2>4, FindsLast
  <2>6. QED
    BY <2>2, <2>5, <1>1, <1>8
<1>9. CASE Absent(t, k) /\ ~Absent(s, k)
  <2>1. PICK i : LastAt(s, k, i)
    BY <1>9, LastExists
  <2>2. i \in 1 .. n /\ i \in 1 .. n + l /\ u[i] = s[i]
    BY <2>1, <1>2, <1>5 DEF LastAt
  <2>3. ASSUME NEW j \in 1 .. n + l, u[j].key = k
        PROVE  j <= i
    <3>1. CASE j \in 1 .. n
      BY <3>1, <2>1, <2>3, <1>2, <1>5 DEF LastAt
    <3>2. CASE \E h \in 1 .. l : j = n + h
      BY <3>2, <2>3, <1>3, <1>6, <1>9 DEF Absent
    <3>3. QED
      BY <3>1, <3>2, <1>7
  <2>4. LastAt(u, k, i)
    BY <2>1, <2>2, <2>3, <1>4 DEF LastAt
  <2>5. ByName(u, missing)[k] = u[i].value /\ ByName(s, missing)[k] = s[i].value
    BY <2>1, <2>4, FindsLast
  <2>6. QED
    BY <2>2, <2>5, <1>1, <1>9
<1>10. CASE Absent(t, k) /\ Absent(s, k)
  <2>1. ASSUME NEW j \in 1 .. n + l
        PROVE  u[j].key # k
    <3>1. CASE j \in 1 .. n
      BY <3>1, <1>2, <1>5, <1>10 DEF Absent
    <3>2. CASE \E h \in 1 .. l : j = n + h
      BY <3>2, <1>3, <1>6, <1>10 DEF Absent
    <3>3. QED
      BY <3>1, <3>2, <1>7
  <2>2. Absent(u, k)
    BY <2>1, <1>4 DEF Absent
  <2>3. QED
    BY <2>2, <1>1, <1>10, FindsNone
<1>11. QED
  BY <1>8, <1>9, <1>10

-----------------------------------------------------------------------------
(* Sorting *)

KeysOf(s) == {s[i].key : i \in DOMAIN s}

\* The names in a list, in their order.
LEMMA NamesInOrder ==
  ASSUME NEW keys \in SUBSET Key
  PROVE  LET names == Selected([k \in Key |-> k], keys)
         IN  /\ names \in Seq(Key)
             /\ \A i \in 1 .. Len(names) : names[i] \in keys
             /\ \A i, j \in 1 .. Len(names) : i < j => names[i] < names[j]
             /\ \A k \in keys : \E i \in 1 .. Len(names) : names[i] = k
<1>0. MaxKey \in Nat
  BY ObjectAssumption
<1>1. PICK all \in Seq(Key) : all = [k \in Key |-> k]
  <2>1. [k \in 1 .. MaxKey |-> k] \in Seq(1 .. MaxKey)
    BY <1>0
  <2>2. QED
    BY <2>1 DEF Key
<1>2. Len(all) = MaxKey /\ \A k \in Key : all[k] = k
  BY <1>0, <1>1 DEF Key
<1>3. PICK names \in Seq(Key) : names = Selected(all, keys)
  BY SelectedType
<1>4. PICK g : Placed(g, names, all, Len(all), keys)
  BY <1>3, SelectedPlaces
<1>5. ASSUME NEW i \in 1 .. Len(names)
      PROVE  names[i] = g[i] /\ g[i] \in keys
  <2>1. g[i] \in 1 .. Len(all) /\ names[i] = all[g[i]] /\ g[i] \in keys
    BY <1>4 DEF Placed
  <2>2. QED
    BY <2>1, <1>2 DEF Key
<1>6. \A i, j \in 1 .. Len(names) : i < j => names[i] < names[j]
  BY <1>4, <1>5 DEF Placed
<1>7. ASSUME NEW k \in keys
      PROVE  \E i \in 1 .. Len(names) : names[i] = k
  <2>1. k \in 1 .. Len(all)
    BY <1>2 DEF Key
  <2>2. PICK i \in 1 .. Len(names) : g[i] = k
    BY <2>1, <1>4 DEF Placed
  <2>3. QED
    BY <2>2, <1>5
<1>8. QED
  BY <1>1, <1>3, <1>5, <1>6, <1>7

\* ObjectValue::sort: each name once, in order, with the last member it had.
LEMMA SortedIs ==
  ASSUME NEW s \in Seq(Member)
  PROVE  /\ Sorted(s) \in Seq(Member) /\ InOrder(Sorted(s))
         /\ \A i \in 1 .. Len(Sorted(s)) : \E p : /\ LastAt(s, Sorted(s)[i].key, p)
                                                  /\ Sorted(s)[i] = s[p]
         /\ \A k \in Key : Absent(Sorted(s), k) => Absent(s, k)
<1>1. KeysOf(s) \in SUBSET Key
  BY ItemIs, DomainIs DEF KeysOf
<1>2. PICK names \in Seq(Key) :
        /\ names = Selected([k \in Key |-> k], KeysOf(s))
        /\ \A i \in 1 .. Len(names) : names[i] \in KeysOf(s)
        /\ \A i, j \in 1 .. Len(names) : i < j => names[i] < names[j]
        /\ \A k \in KeysOf(s) : \E i \in 1 .. Len(names) : names[i] = k
  BY <1>1, NamesInOrder
<1>3. PICK n \in Nat : n = Len(names)
  OBVIOUS
<1>4. Sorted(s) = [i \in 1 .. n |-> Survivor(s, names[i])]
  BY <1>2, <1>3, DomainIs DEF Sorted, KeysOf
<1>5. ASSUME NEW i \in 1 .. n
      PROVE  \E p : /\ p \in 1 .. Len(s) /\ LastAt(s, names[i], p)
                    /\ Survivor(s, names[i]) = s[p] /\ s[p].key = names[i]
  <2>1. names[i] \in KeysOf(s)
    BY <1>2, <1>3
  <2>2. PICK q \in 1 .. Len(s) : s[q].key = names[i]
    BY <2>1, DomainIs DEF KeysOf
  <2>3. ~Absent(s, names[i])
    BY <2>2 DEF Absent
  <2>4. PICK p : LastAt(s, names[i], p)
    BY <2>3, LastExists
  <2>5. Max({j \in DOMAIN s : s[j].key = names[i]}) = p
    BY <2>4, LastIsMax
  <2>6. Survivor(s, names[i]) = s[p]
    BY <2>5 DEF Survivor
  <2>7. QED
    BY <2>4, <2>6 DEF LastAt
<1>6. PICK t : t = Sorted(s)
  OBVIOUS
<1>7. \A i \in 1 .. n : t[i] = Survivor(s, names[i])
  BY <1>4, <1>6
<1>8. \A i \in 1 .. n : t[i] \in Member /\ t[i].key = names[i]
  BY <1>5, <1>7, ItemIs
<1>9. t \in Seq(Member) /\ Len(t) = n
  <2>1. t = [i \in 1 .. n |-> t[i]]
    BY <1>4, <1>6
  <2>2. QED
    BY <2>1, <1>8
<1>10. InOrder(t)
  <2>1. \A i, j \in 1 .. n : i < j => t[i].key < t[j].key
    BY <1>2, <1>3, <1>8
  <2>2. QED
    BY <2>1, <1>9, DomainIs DEF InOrder
<1>11. \A i \in 1 .. n : \E p : LastAt(s, t[i].key, p) /\ t[i] = s[p]
  BY <1>5, <1>7, <1>8
<1>12. ASSUME NEW k \in Key, Absent(t, k)
       PROVE  Absent(s, k)
  <2>1. ASSUME NEW q \in 1 .. Len(s), s[q].key = k PROVE FALSE
    <3>1. k \in KeysOf(s)
      BY <2>1, DomainIs DEF KeysOf
    <3>2. PICK i \in 1 .. n : names[i] = k
      BY <3>1, <1>2, <1>3
    <3>3. QED
      BY <3>2, <1>8, <1>9, <1>12 DEF Absent
  <2>2. QED
    BY <2>1 DEF Absent
<1>13. QED
  BY <1>6, <1>9, <1>10, <1>11, <1>12

\* Sorting leaves what a reader finds.
LEMMA SortedFinds ==
  ASSUME NEW s \in Seq(Member), NEW k \in Key, NEW missing
  PROVE  /\ ByName(Sorted(s), missing)[k] = ByName(s, missing)[k]
         /\ Absent(Sorted(s), k) <=> Absent(s, k)
<1>1. PICK t \in Seq(Member) :
        /\ t = Sorted(s) /\ InOrder(t)
        /\ \A i \in 1 .. Len(t) : \E p : LastAt(s, t[i].key, p) /\ t[i] = s[p]
        /\ Absent(t, k) => Absent(s, k)
  BY SortedIs
<1>2. CASE Absent(t, k)
  <2>1. ByName(t, missing)[k] = missing /\ ByName(s, missing)[k] = missing
    BY <1>1, <1>2, FindsNone
  <2>2. QED
    BY <2>1, <1>1, <1>2
<1>3. CASE ~Absent(t, k)
  <2>1. PICK i : LastAt(t, k, i)
    BY <1>3, LastExists
  <2>2. i \in 1 .. Len(t) /\ t[i].key = k
    BY <2>1 DEF LastAt
  <2>3. PICK p : LastAt(s, k, p) /\ t[i] = s[p]
    BY <2>2, <1>1
  <2>4. ByName(t, missing)[k] = t[i].value /\ ByName(s, missing)[k] = s[p].value
    BY <2>1, <2>3, FindsLast
  <2>5. ~Absent(s, k)
    BY <2>3 DEF LastAt, Absent
  <2>6. QED
    BY <2>3, <2>4, <2>5, <1>1, <1>3
<1>4. QED
  BY <1>2, <1>3

\* A list that has a name has members.
LEMMA NotEmpty ==
  ASSUME NEW s \in Seq(Member)
  PROVE  s # <<>> <=> \E k \in Key : ~Absent(s, k)
<1>1. ASSUME s # <<>> PROVE \E k \in Key : ~Absent(s, k)
  <2>1. 1 \in 1 .. Len(s)
    BY <1>1
  <2>2. s[1].key \in Key
    BY <2>1, ItemIs
  <2>3. ~Absent(s, s[1].key)
    BY <2>1 DEF Absent
  <2>4. QED
    BY <2>2, <2>3
<1>2. ASSUME s = <<>>, NEW k \in Key PROVE Absent(s, k)
  <2>1. Len(s) = 0
    BY <1>2
  <2>2. QED
    BY <2>1 DEF Absent
<1>3. QED
  BY <1>1, <1>2

\* Leaving out the members without values, where nothing means no value.
LEMMA WithValuesIs ==
  ASSUME NEW s \in Seq(Member), InOrder(s)
  PROVE  /\ ProperObject(WithValues(s))
         /\ ByName(WithValues(s), Undefined) = ByName(s, Undefined)
<1> DEFINE places == {i \in DOMAIN s : Defined(s[i])}
<1>1. PICK t \in Seq(Member) : t = WithValues(s)
  BY SelectedType DEF WithValues
<1>2. PICK g : Placed(g, t, s, Len(s), places)
  BY <1>1, SelectedPlaces DEF WithValues
<1>3. ASSUME NEW i \in 1 .. Len(t)
      PROVE  g[i] \in 1 .. Len(s) /\ t[i] = s[g[i]] /\ Defined(t[i])
  BY <1>2 DEF Placed
<1>4. InOrder(t)
  <2>1. ASSUME NEW i \in 1 .. Len(t), NEW j \in 1 .. Len(t), i < j
        PROVE  t[i].key < t[j].key
    <3>1. g[i] < g[j]
      BY <2>1, <1>2 DEF Placed
    <3>2. g[i] \in DOMAIN s /\ g[j] \in DOMAIN s
      BY <1>3, DomainIs
    <3>3. s[g[i]].key < s[g[j]].key
      BY <3>1, <3>2 DEF InOrder
    <3>4. QED
      BY <3>3, <1>3
  <2>2. QED
    BY <2>1, DomainIs DEF InOrder
<1>5. ProperObject(t)
  BY <1>3, <1>4, DomainIs DEF ProperObject
<1>6. ASSUME NEW k \in Key
      PROVE  ByName(t, Undefined)[k] = ByName(s, Undefined)[k]
  <2>1. CASE ~Absent(t, k)
    <3>1. PICK i \in 1 .. Len(t) : t[i].key = k
      BY <2>1 DEF Absent
    <3>2. ByName(t, Undefined)[k] = t[i].value
      BY <3>1, <1>4, FindsInOrder
    <3>3. ByName(s, Undefined)[k] = s[g[i]].value
      BY <3>1, <1>3, FindsInOrder
    <3>4. QED
      BY <3>1, <3>2, <3>3, <1>3
  <2>2. CASE Absent(t, k) /\ Absent(s, k)
    BY <2>2, FindsNone
  <2>3. CASE Absent(t, k) /\ ~Absent(s, k)
    <3>1. PICK p \in 1 .. Len(s) : s[p].key = k
      BY <2>3 DEF Absent
    <3>2. ~Defined(s[p])
      <4>1. ASSUME Defined(s[p]) PROVE FALSE
        <5>1. p \in places
          BY <4>1, <3>1, DomainIs
        <5>2. PICK i \in 1 .. Len(t) : g[i] = p
          BY <5>1, <1>2 DEF Placed
        <5>3. QED
          BY <5>2, <3>1, <2>3, <1>3 DEF Absent
      <4>2. QED
        BY <4>1
    <3>3. ByName(s, Undefined)[k] = s[p].value
      BY <3>1, FindsInOrder
    <3>4. ByName(t, Undefined)[k] = Undefined
      BY <2>3, FindsNone
    <3>5. QED
      BY <3>2, <3>3, <3>4 DEF Defined
  <2>4. QED
    BY <2>1, <2>2, <2>3
<1>7. ByName(t, Undefined) = ByName(s, Undefined)
  BY <1>6, SameFunction
<1>8. QED
  BY <1>1, <1>5, <1>7

-----------------------------------------------------------------------------
(* Merging *)

\* A member in front of others.
LEMMA Ahead ==
  ASSUME NEW r \in Seq(Member), NEW m \in Member
  PROVE  \E u \in Seq(Member) :
           /\ u = <<m>> \o r /\ Len(u) = Len(r) + 1 /\ u[1] = m
           /\ \A b \in 1 .. Len(r) : u[b + 1] = r[b]
<1>1. <<m>> \o r \in Seq(Member)
  <2>1. <<m>> \in Seq(Member)
    OBVIOUS
  <2>2. QED
    BY <2>1
<1>2. Len(<<m>> \o r) = Len(r) + 1 /\ (<<m>> \o r)[1] = m
  OBVIOUS
<1>3. \A b \in 1 .. Len(r) : (<<m>> \o r)[b + 1] = r[b]
  OBVIOUS
<1>4. QED
  BY <1>1, <1>2, <1>3

\* The members from the i-th on.
LEMMA RestIs ==
  ASSUME NEW s \in Seq(Member), NEW i \in 1 .. Len(s) + 1
  PROVE  \E u \in Seq(Member) :
           /\ u = SubSeq(s, i, Len(s)) /\ Len(u) = Len(s) + 1 - i
           /\ \A b \in 1 .. Len(u) : u[b] = s[b + i - 1]
<1>1. PICK n \in Nat : n = Len(s)
  OBVIOUS
<1>2. SubSeq(s, i, n) \in Seq(Member)
  BY <1>1
<1>3. Len(SubSeq(s, i, n)) = n + 1 - i
  BY <1>1
<1>4. \A b \in 1 .. n + 1 - i : SubSeq(s, i, n)[b] = s[b + i - 1]
  BY <1>1
<1>5. QED
  BY <1>1, <1>2, <1>3, <1>4

\* No member from the j-th on has this name.
AbsentFrom(s, j, k) == \A y \in 1 .. Len(s) : j <= y => s[y].key # k

\* r is the members of back and front from the i-th and the j-th on; of those
\* of the same name, the front one.
Merges(r, back, i, front, j) ==
  /\ r \in Seq(Member) /\ InOrder(r)
  /\ \A b \in 1 .. Len(r) :
       \/ \E y \in 1 .. Len(front) : j <= y /\ r[b] = front[y]
       \/ \E x \in 1 .. Len(back) :
            i <= x /\ r[b] = back[x] /\ AbsentFrom(front, j, back[x].key)
  /\ \A y \in 1 .. Len(front) : j <= y => ~Absent(r, front[y].key)
  /\ \A x \in 1 .. Len(back) : i <= x => ~Absent(r, back[x].key)

\* A list that is in order still is with a smaller member in front of it.
LEMMA AheadInOrder ==
  ASSUME NEW r \in Seq(Member), InOrder(r), NEW m \in Member, NEW u \in Seq(Member),
         Len(u) = Len(r) + 1, u[1] = m, \A b \in 1 .. Len(r) : u[b + 1] = r[b],
         \A b \in 1 .. Len(r) : m.key < r[b].key
  PROVE  InOrder(u)
<1>1. PICK n \in Nat : n = Len(r)
  OBVIOUS
<1>2. ASSUME NEW a \in 1 .. n + 1, NEW b \in 1 .. n + 1, a < b
      PROVE  u[a].key < u[b].key
  <2>1. b - 1 \in 1 .. n /\ (b - 1) + 1 = b
    BY <1>2
  <2>2. u[b] = r[b - 1]
    BY <2>1, <1>1
  <2>3. CASE a = 1
    BY <2>1, <2>2, <2>3, <1>1
  <2>4. CASE a # 1
    <3>1. a - 1 \in 1 .. n /\ (a - 1) + 1 = a /\ a - 1 < b - 1
      BY <2>4, <1>2
    <3>2. u[a] = r[a - 1]
      BY <3>1, <1>1
    <3>3. a - 1 \in DOMAIN r /\ b - 1 \in DOMAIN r
      BY <2>1, <3>1, <1>1, DomainIs
    <3>4. r[a - 1].key < r[b - 1].key
      BY <3>1, <3>3 DEF InOrder
    <3>5. QED
      BY <3>2, <3>4, <2>2
  <2>5. QED
    BY <2>3, <2>4
<1>3. QED
  BY <1>1, <1>2, DomainIs DEF InOrder

\* What is in a list is, with one more in front of it.
LEMMA AheadPresent ==
  ASSUME NEW r \in Seq(Member), NEW u \in Seq(Member), Len(u) = Len(r) + 1,
         \A b \in 1 .. Len(r) : u[b + 1] = r[b]
  PROVE  /\ ~Absent(u, u[1].key)
         /\ \A k : ~Absent(r, k) => ~Absent(u, k)
<1>1. 1 \in 1 .. Len(u)
  BY DomainIs
<1>2. ASSUME NEW k, ~Absent(r, k) PROVE ~Absent(u, k)
  <2>1. PICK b \in 1 .. Len(r) : r[b].key = k
    BY <1>2 DEF Absent
  <2>2. b + 1 \in 1 .. Len(u)
    BY <2>1, DomainIs
  <2>3. QED
    BY <2>1, <2>2 DEF Absent
<1>3. QED
  BY <1>1, <1>2 DEF Absent

\* In a list in order, later members have greater names.
LEMMA Later ==
  ASSUME NEW s \in Seq(Member), InOrder(s), NEW i \in 1 .. Len(s), NEW x \in 1 .. Len(s), i <= x
  PROVE  s[i].key <= s[x].key /\ (i # x => s[i].key < s[x].key)
<1>1. s[i].key \in Nat /\ s[x].key \in Nat
  BY ItemIs
<1>2. i < x => s[i].key < s[x].key
  BY DomainIs DEF InOrder
<1>3. QED
  BY <1>1, <1>2

\* The member of the smallest name goes ahead of the others, and those of its
\* name are left out.
LEMMA MergesAhead ==
  ASSUME NEW back \in Seq(Member), NEW front \in Seq(Member),
         NEW i \in Nat, NEW j \in Nat, NEW i2 \in Nat, NEW j2 \in Nat, i <= i2, j <= j2,
         NEW r, Merges(r, back, i2, front, j2), NEW m \in Member,
         \A x \in 1 .. Len(back) : i2 <= x => m.key < back[x].key,
         \A y \in 1 .. Len(front) : j2 <= y => m.key < front[y].key,
         \A x \in 1 .. Len(back) : i <= x /\ x < i2 => back[x].key = m.key,
         \A y \in 1 .. Len(front) : j <= y /\ y < j2 => front[y].key = m.key,
         \/ \E y \in 1 .. Len(front) : j <= y /\ m = front[y]
         \/ \E x \in 1 .. Len(back) :
              i <= x /\ m = back[x] /\ AbsentFrom(front, j, back[x].key)
  PROVE  Merges(<<m>> \o r, back, i, front, j)
<1>1. r \in Seq(Member) /\ InOrder(r) /\ m.key \in Nat
  BY MemberIs DEF Merges
<1>2. PICK u \in Seq(Member) :
        /\ u = <<m>> \o r /\ Len(u) = Len(r) + 1 /\ u[1] = m
        /\ \A b \in 1 .. Len(r) : u[b + 1] = r[b]
  BY <1>1, Ahead
<1>3. ASSUME NEW b \in 1 .. Len(r) PROVE m.key < r[b].key
  BY <1>3 DEF Merges
<1>4. InOrder(u)
  BY <1>1, <1>2, <1>3, AheadInOrder
<1>5. ASSUME NEW x \in 1 .. Len(back), i2 <= x, AbsentFrom(front, j2, back[x].key)
      PROVE  AbsentFrom(front, j, back[x].key)
  <2>1. m.key < back[x].key /\ back[x].key \in Nat
    BY <1>5, ItemIs
  <2>2. ASSUME NEW y \in 1 .. Len(front), j <= y PROVE front[y].key # back[x].key
    <3>1. y < j2 \/ j2 <= y
      BY DomainIs
    <3>2. CASE y < j2
      BY <3>2, <2>1, <2>2, <1>1
    <3>3. CASE j2 <= y
      BY <3>3, <1>5 DEF AbsentFrom
    <3>4. QED
      BY <3>1, <3>2, <3>3
  <2>3. QED
    BY <2>2 DEF AbsentFrom
<1>6. ASSUME NEW b \in 1 .. Len(u)
      PROVE  \/ \E y \in 1 .. Len(front) : j <= y /\ u[b] = front[y]
             \/ \E x \in 1 .. Len(back) :
                  i <= x /\ u[b] = back[x] /\ AbsentFrom(front, j, back[x].key)
  <2>1. CASE b = 1
    BY <2>1, <1>2
  <2>2. CASE b # 1
    <3>1. b - 1 \in 1 .. Len(r) /\ (b - 1) + 1 = b
      BY <2>2, <1>2, <1>1, <1>6, DomainIs
    <3>2. PICK c \in 1 .. Len(r) : u[b] = r[c]
      BY <3>1, <1>2
    <3>3. CASE \E y \in 1 .. Len(front) : j2 <= y /\ r[c] = front[y]
      <4>1. PICK y \in 1 .. Len(front) : j2 <= y /\ r[c] = front[y]
        BY <3>3
      <4>2. j <= y
        BY <4>1, DomainIs
      <4>3. QED
        BY <4>1, <4>2, <3>2
    <3>4. CASE \E x \in 1 .. Len(back) :
                 i2 <= x /\ r[c] = back[x] /\ AbsentFrom(front, j2, back[x].key)
      <4>1. PICK x \in 1 .. Len(back) :
              i2 <= x /\ r[c] = back[x] /\ AbsentFrom(front, j2, back[x].key)
        BY <3>4
      <4>2. i <= x /\ AbsentFrom(front, j, back[x].key)
        BY <4>1, <1>5, DomainIs
      <4>3. QED
        BY <4>1, <4>2, <3>2
    <3>5. QED
      BY <3>2, <3>3, <3>4 DEF Merges
  <2>3. QED
    BY <2>1, <2>2
<1>7. ~Absent(u, m.key) /\ \A k : ~Absent(r, k) => ~Absent(u, k)
  BY <1>1, <1>2, AheadPresent
<1>8. ASSUME NEW y \in 1 .. Len(front), j <= y PROVE ~Absent(u, front[y].key)
  <2>1. CASE y < j2
    BY <1>8, <2>1, <1>7
  <2>2. CASE ~(y < j2)
    <3>1. j2 <= y
      BY <2>2, DomainIs
    <3>2. QED
      BY <3>1, <1>7 DEF Merges
  <2>3. QED
    BY <2>1, <2>2
<1>9. ASSUME NEW x \in 1 .. Len(back), i <= x PROVE ~Absent(u, back[x].key)
  <2>1. CASE x < i2
    BY <1>9, <2>1, <1>7
  <2>2. CASE ~(x < i2)
    <3>1. i2 <= x
      BY <2>2, DomainIs
    <3>2. QED
      BY <3>1, <1>7 DEF Merges
  <2>3. QED
    BY <2>1, <2>2
<1>10. Merges(u, back, i, front, j)
  BY <1>4, <1>6, <1>8, <1>9 DEF Merges
<1>11. QED
  BY <1>2, <1>10

\* The three steps of the merge: the front member first, the back one first,
\* the front one in place of both.
LEMMA MergeSteps ==
  ASSUME NEW back \in Seq(Member), InOrder(back), NEW front \in Seq(Member), InOrder(front),
         NEW i \in 1 .. Len(back), NEW j \in 1 .. Len(front), NEW r
  PROVE  /\ front[j].key < back[i].key /\ Merges(r, back, i, front, j + 1)
              => Merges(<<front[j]>> \o r, back, i, front, j)
         /\ front[j].key > back[i].key /\ Merges(r, back, i + 1, front, j)
              => Merges(<<back[i]>> \o r, back, i, front, j)
         /\ front[j].key = back[i].key /\ Merges(r, back, i + 1, front, j + 1)
              => Merges(<<front[j]>> \o r, back, i, front, j)
<1>1. front[j] \in Member /\ front[j].key \in Nat /\ back[i] \in Member /\ back[i].key \in Nat
  BY ItemIs
<1>2. i \in Nat /\ j \in Nat /\ i + 1 \in Nat /\ j + 1 \in Nat
      /\ i <= i /\ j <= j /\ i <= i + 1 /\ j <= j + 1
  BY DomainIs
<1>3. ASSUME NEW x \in 1 .. Len(back)
      PROVE  /\ back[x].key \in Nat
             /\ i <= x => back[i].key <= back[x].key
             /\ i + 1 <= x => back[i].key < back[x].key
             /\ ~(i <= x /\ x < i)
             /\ i <= x /\ x < i + 1 => x = i
  <2>1. x \in Nat
    BY DomainIs
  <2>2. i + 1 <= x => i <= x /\ i # x
    BY <2>1, <1>2
  <2>3. QED
    BY <2>1, <2>2, <1>2, Later, ItemIs
<1>4. ASSUME NEW y \in 1 .. Len(front)
      PROVE  /\ front[y].key \in Nat
             /\ j <= y => front[j].key <= front[y].key
             /\ j + 1 <= y => front[j].key < front[y].key
             /\ ~(j <= y /\ y < j)
             /\ j <= y /\ y < j + 1 => y = j
  <2>1. y \in Nat
    BY DomainIs
  <2>2. j + 1 <= y => j <= y /\ j # y
    BY <2>1, <1>2
  <2>3. QED
    BY <2>1, <2>2, <1>2, Later, ItemIs
<1>5. ASSUME front[j].key < back[i].key, Merges(r, back, i, front, j + 1)
      PROVE  Merges(<<front[j]>> \o r, back, i, front, j)
  <2>1. \A x \in 1 .. Len(back) : i <= x => front[j].key < back[x].key
    BY <1>1, <1>3, <1>5
  <2>2. QED
    BY <2>1, <1>1, <1>2, <1>3, <1>4, <1>5, MergesAhead
<1>6. ASSUME front[j].key > back[i].key, Merges(r, back, i + 1, front, j)
      PROVE  Merges(<<back[i]>> \o r, back, i, front, j)
  <2>1. \A y \in 1 .. Len(front) : j <= y => back[i].key < front[y].key
    BY <1>1, <1>4, <1>6
  <2>2. AbsentFrom(front, j, back[i].key)
    BY <2>1, <1>1, <1>4 DEF AbsentFrom
  <2>3. QED
    BY <2>1, <2>2, <1>1, <1>2, <1>3, <1>4, <1>6, MergesAhead
<1>7. ASSUME front[j].key = back[i].key, Merges(r, back, i + 1, front, j + 1)
      PROVE  Merges(<<front[j]>> \o r, back, i, front, j)
  BY <1>1, <1>2, <1>3, <1>4, <1>7, MergesAhead
<1>8. QED
  BY <1>5, <1>6, <1>7

\* When one list is at its end, the rest is the other.
LEMMA MergeEnds ==
  ASSUME NEW back \in Seq(Member), InOrder(back), NEW front \in Seq(Member), InOrder(front),
         NEW i \in 1 .. Len(back) + 1, NEW j \in 1 .. Len(front) + 1
  PROVE  /\ i > Len(back) => Merges(SubSeq(front, j, Len(front)), back, i, front, j)
         /\ j > Len(front) => Merges(SubSeq(back, i, Len(back)), back, i, front, j)
<1>1. ASSUME NEW s \in Seq(Member), InOrder(s), NEW p \in 1 .. Len(s) + 1
      PROVE  \E u \in Seq(Member) :
               /\ u = SubSeq(s, p, Len(s)) /\ InOrder(u)
               /\ \A b \in 1 .. Len(u) : \E x \in 1 .. Len(s) : p <= x /\ u[b] = s[x]
               /\ \A x \in 1 .. Len(s) : p <= x => ~Absent(u, s[x].key)
  <2>1. PICK u \in Seq(Member) :
          /\ u = SubSeq(s, p, Len(s)) /\ Len(u) = Len(s) + 1 - p
          /\ \A b \in 1 .. Len(u) : u[b] = s[b + p - 1]
    BY RestIs
  <2>2. PICK n \in Nat : n = Len(s)
    OBVIOUS
  <2>3. \A b \in 1 .. Len(u) : b + p - 1 \in 1 .. n /\ p <= b + p - 1
    BY <2>1, <2>2
  <2>4. InOrder(u)
    <3>1. ASSUME NEW a \in 1 .. Len(u), NEW b \in 1 .. Len(u), a < b
          PROVE  u[a].key < u[b].key
      <4>1. a + p - 1 < b + p - 1
        BY <3>1, <2>1, <2>2
      <4>2. s[a + p - 1].key < s[b + p - 1].key
        BY <4>1, <1>1, <2>2, <2>3, DomainIs DEF InOrder
      <4>3. QED
        BY <4>2, <2>1
    <3>2. QED
      BY <3>1, DomainIs DEF InOrder
  <2>5. ASSUME NEW x \in 1 .. n, p <= x PROVE ~Absent(u, s[x].key)
    <3>1. x - p + 1 \in 1 .. Len(u) /\ (x - p + 1) + p - 1 = x
      BY <2>1, <2>2, <2>5
    <3>2. u[x - p + 1] = s[x]
      BY <3>1, <2>1
    <3>3. QED
      BY <3>1, <3>2 DEF Absent
  <2>6. QED
    BY <2>1, <2>2, <2>3, <2>4, <2>5
<1>2. ASSUME i > Len(back) PROVE Merges(SubSeq(front, j, Len(front)), back, i, front, j)
  <2>1. \A x \in 1 .. Len(back) : ~(i <= x)
    BY <1>2, DomainIs
  <2>2. PICK u \in Seq(Member) :
          /\ u = SubSeq(front, j, Len(front)) /\ InOrder(u)
          /\ \A b \in 1 .. Len(u) : \E x \in 1 .. Len(front) : j <= x /\ u[b] = front[x]
          /\ \A x \in 1 .. Len(front) : j <= x => ~Absent(u, front[x].key)
    BY <1>1
  <2>3. Merges(u, back, i, front, j)
    BY <2>1, <2>2 DEF Merges
  <2>4. QED
    BY <2>2, <2>3
<1>3. ASSUME j > Len(front) PROVE Merges(SubSeq(back, i, Len(back)), back, i, front, j)
  <2>1. \A y \in 1 .. Len(front) : ~(j <= y)
    BY <1>3, DomainIs
  <2>2. PICK u \in Seq(Member) :
          /\ u = SubSeq(back, i, Len(back)) /\ InOrder(u)
          /\ \A b \in 1 .. Len(u) : \E x \in 1 .. Len(back) : i <= x /\ u[b] = back[x]
          /\ \A x \in 1 .. Len(back) : i <= x => ~Absent(u, back[x].key)
    BY <1>1
  <2>3. \A k : AbsentFrom(front, j, k)
    BY <2>1 DEF AbsentFrom
  <2>4. Merges(u, back, i, front, j)
    BY <2>1, <2>2, <2>3 DEF Merges
  <2>5. QED
    BY <2>2, <2>4
<1>4. QED
  BY <1>2, <1>3

\* What the merge does at i and j, when f is the merge of the rest.
MergeStep(back, front, i, j, f) ==
  IF i > Len(back) THEN SubSeq(front, j, Len(front))
  ELSE IF j > Len(front) THEN SubSeq(back, i, Len(back))
  ELSE IF front[j].key < back[i].key THEN <<front[j]>> \o f[<<i, j + 1>>]
  ELSE IF front[j].key > back[i].key THEN <<back[i]>> \o f[<<i + 1, j>>]
  ELSE <<front[j]>> \o f[<<i + 1, j + 1>>]

IsMerge(rest, back, front) ==
  rest = [p \in (1 .. Len(back) + 1) \X (1 .. Len(front) + 1) |->
            LET i == p[1]  j == p[2] IN
            IF i > Len(back) THEN SubSeq(front, j, Len(front))
            ELSE IF j > Len(front) THEN SubSeq(back, i, Len(back))
            ELSE IF front[j].key < back[i].key THEN <<front[j]>> \o rest[<<i, j + 1>>]
            ELSE IF front[j].key > back[i].key THEN <<back[i]>> \o rest[<<i + 1, j>>]
            ELSE <<front[j]>> \o rest[<<i + 1, j + 1>>]]

Places(back, front) == (1 .. Len(back) + 1) \X (1 .. Len(front) + 1)

\* A place in both lists is a pair of places.
LEMMA PlaceIs ==
  ASSUME NEW back \in Seq(Member), NEW front \in Seq(Member), NEW p \in Places(back, front)
  PROVE  /\ p = <<p[1], p[2]>>
         /\ p[1] \in 1 .. Len(back) + 1 /\ p[2] \in 1 .. Len(front) + 1
         /\ Len(back) \in Nat /\ Len(front) \in Nat
BY DEF Places

\* A step yields a list when the rest does.
LEMMA MergeStepType ==
  ASSUME NEW back \in Seq(Member), NEW front \in Seq(Member),
         NEW f \in [Places(back, front) -> Seq(Member)],
         NEW i \in 1 .. Len(back) + 1, NEW j \in 1 .. Len(front) + 1
  PROVE  MergeStep(back, front, i, j, f) \in Seq(Member)
<1>1. SubSeq(front, j, Len(front)) \in Seq(Member) /\ SubSeq(back, i, Len(back)) \in Seq(Member)
  BY RestIs
<1>2. ASSUME NEW m \in Member, NEW r \in Seq(Member) PROVE <<m>> \o r \in Seq(Member)
  BY <1>2, Ahead
<1>3. ASSUME ~(i > Len(back)), ~(j > Len(front))
      PROVE  /\ i \in 1 .. Len(back) /\ j \in 1 .. Len(front)
             /\ <<i, j + 1>> \in Places(back, front) /\ <<i + 1, j>> \in Places(back, front)
             /\ <<i + 1, j + 1>> \in Places(back, front)
  <2>1. Len(back) \in Nat /\ Len(front) \in Nat
    BY DomainIs
  <2>2. i \in 1 .. Len(back) /\ j \in 1 .. Len(front)
    BY <2>1, <1>3
  <2>3. i + 1 \in 1 .. Len(back) + 1 /\ j + 1 \in 1 .. Len(front) + 1
    BY <2>1, <2>2
  <2>4. QED
    BY <2>2, <2>3 DEF Places
<1>4. ASSUME ~(i > Len(back)), ~(j > Len(front))
      PROVE  /\ front[j] \in Member /\ back[i] \in Member
             /\ f[<<i, j + 1>>] \in Seq(Member) /\ f[<<i + 1, j>>] \in Seq(Member)
             /\ f[<<i + 1, j + 1>>] \in Seq(Member)
  BY <1>3, <1>4, ItemIs
<1>5. QED
  BY <1>1, <1>2, <1>4 DEF MergeStep

\* mergeObjectsDiff is these steps.
LEMMA MergeIs ==
  ASSUME NEW back \in Seq(Member), NEW front \in Seq(Member)
  PROVE  \E f :
           /\ \A i \in 1 .. Len(back) + 1, j \in 1 .. Len(front) + 1 :
                f[<<i, j>>] = MergeStep(back, front, i, j, f)
           /\ MergeObjectsDiff(back, front) = f[<<1, 1>>]
<1> DEFINE D == Places(back, front)
           V == Seq(Member)
           measure == [p \in D |-> (Len(back) + 1 - p[1]) + (Len(front) + 1 - p[2])]
           rule == [q \in D \X [D -> V] |-> MergeStep(back, front, q[1][1], q[1][2], q[2])]
<1>1. <<>> \in V
  OBVIOUS
<1>2. measure \in [D -> Nat]
  <2>1. ASSUME NEW p \in D PROVE (Len(back) + 1 - p[1]) + (Len(front) + 1 - p[2]) \in Nat
    BY PlaceIs
  <2>2. QED
    BY <2>1
<1>3. PICK bound \in Nat : bound = Len(back) + Len(front) + 1
  <2>1. Len(back) + Len(front) + 1 \in Nat
    BY DomainIs
  <2>2. QED
    BY <2>1
<1>4. ASSUME NEW p \in D PROVE measure[p] < bound
  <2>1. measure[p] = (Len(back) + 1 - p[1]) + (Len(front) + 1 - p[2])
    OBVIOUS
  <2>2. QED
    BY <2>1, <1>3, PlaceIs
<1>5. ASSUME NEW p \in D, NEW f \in [D -> V]
      PROVE  rule[<<p, f>>] = MergeStep(back, front, p[1], p[2], f)
  OBVIOUS
<1>6. rule \in [D \X [D -> V] -> V]
  <2>1. ASSUME NEW p \in D, NEW f \in [D -> V]
        PROVE  MergeStep(back, front, p[1], p[2], f) \in V
    <3>1. p[1] \in 1 .. Len(back) + 1 /\ p[2] \in 1 .. Len(front) + 1
      BY PlaceIs
    <3>2. QED
      BY <3>1, MergeStepType
  <2>2. QED
    BY <2>1
<1>7. ASSUME NEW i \in 1 .. Len(back) + 1, NEW j \in 1 .. Len(front) + 1
      PROVE  /\ <<i, j>> \in D
             /\ measure[<<i, j>>] = (Len(back) + 1 - i) + (Len(front) + 1 - j)
  BY DEF Places
<1>8. ASSUME NEW p \in D, NEW f \in [D -> V], NEW g \in [D -> V],
             \A e \in D : measure[e] < measure[p] => f[e] = g[e]
      PROVE  rule[<<p, f>>] = rule[<<p, g>>]
  <2>1. PICK i \in 1 .. Len(back) + 1, j \in 1 .. Len(front) + 1 : i = p[1] /\ j = p[2]
    BY PlaceIs
  <2>2. p = <<i, j>> /\ measure[p] = (Len(back) + 1 - i) + (Len(front) + 1 - j)
    BY <2>1, <1>7, PlaceIs
  <2>3. ASSUME NEW a \in 1 .. Len(back) + 1, NEW b \in 1 .. Len(front) + 1,
               i <= a, j <= b, i # a \/ j # b
        PROVE  f[<<a, b>>] = g[<<a, b>>]
    <3>1. <<a, b>> \in D /\ measure[<<a, b>>] = (Len(back) + 1 - a) + (Len(front) + 1 - b)
      BY <1>7
    <3>2. (Len(back) + 1 - a) + (Len(front) + 1 - b) < (Len(back) + 1 - i) + (Len(front) + 1 - j)
      BY <2>3, DomainIs
    <3>3. QED
      BY <3>1, <3>2, <2>2, <1>8
  <2>4. ASSUME ~(i > Len(back)), ~(j > Len(front))
        PROVE  /\ f[<<i, j + 1>>] = g[<<i, j + 1>>] /\ f[<<i + 1, j>>] = g[<<i + 1, j>>]
               /\ f[<<i + 1, j + 1>>] = g[<<i + 1, j + 1>>]
    <3>1. i + 1 \in 1 .. Len(back) + 1 /\ j + 1 \in 1 .. Len(front) + 1
          /\ i <= i /\ j <= j /\ i <= i + 1 /\ j <= j + 1 /\ i # i + 1 /\ j # j + 1
      BY <2>4, DomainIs
    <3>2. QED
      BY <3>1, <2>3
  <2>5. MergeStep(back, front, i, j, f) = MergeStep(back, front, i, j, g)
    BY <2>4 DEF MergeStep
  <2>6. QED
    BY <2>1, <2>5, <1>5
<1> HIDE DEF measure, rule, D, V
<1>9. PICK f : IsFixed(f, D, V, rule)
  <2>1. LooksBelow(D, V, rule, measure)
    BY <1>8 DEF LooksBelow
  <2>2. measure \in [D -> 0 .. bound - 1]
    BY <1>2, <1>4
  <2>3. IsRule(rule, D, V, measure, bound)
    BY <2>1, <2>2, <1>1, <1>6 DEF IsRule
  <2>4. QED
    BY <2>3, RecursionOver
<1> DEFINE rest == CHOOSE rest : IsMerge(rest, back, front)
<1>11. MergeObjectsDiff(back, front) = rest[<<1, 1>>]
  BY DEF MergeObjectsDiff, IsMerge
<1>12. \A r : IsMerge(r, back, front) <=> r = [p \in D |-> MergeStep(back, front, p[1], p[2], r)]
  BY DEF IsMerge, MergeStep, Places, D
<1>13. f = [p \in D |-> MergeStep(back, front, p[1], p[2], f)]
  BY <1>5, <1>9 DEF IsFixed
<1>14. rest = [p \in D |-> MergeStep(back, front, p[1], p[2], rest)]
  BY <1>12, <1>13
<1> HIDE DEF rest
<1>15. \A p \in D : rest[p] = MergeStep(back, front, p[1], p[2], rest)
  BY <1>14
<1>16. ASSUME NEW i \in 1 .. Len(back) + 1, NEW j \in 1 .. Len(front) + 1
       PROVE  rest[<<i, j>>] = MergeStep(back, front, i, j, rest)
  BY <1>7, <1>15
<1>17. QED
  BY <1>11, <1>16

\* mergeObjectsDiff merges lists that are in order.
LEMMA MergeMerges ==
  ASSUME NEW back \in Seq(Member), InOrder(back), NEW front \in Seq(Member), InOrder(front)
  PROVE  Merges(MergeObjectsDiff(back, front), back, 1, front, 1)
<1>1. PICK f :
        /\ \A i \in 1 .. Len(back) + 1, j \in 1 .. Len(front) + 1 :
             f[<<i, j>>] = MergeStep(back, front, i, j, f)
        /\ MergeObjectsDiff(back, front) = f[<<1, 1>>]
  BY MergeIs
<1>2. PICK n \in Nat : n = Len(back)
  OBVIOUS
<1>3. PICK m \in Nat : m = Len(front)
  OBVIOUS
<1> DEFINE T == {c \in Nat : \A i \in 1 .. n + 1, j \in 1 .. m + 1 :
                   (n + 1 - i) + (m + 1 - j) < c => Merges(f[<<i, j>>], back, i, front, j)}
<1>4. 0 \in T
  BY <1>2, <1>3
<1>5. ASSUME NEW c \in Nat, c \in T PROVE c + 1 \in T
  <2>1. ASSUME NEW i \in 1 .. n + 1, NEW j \in 1 .. m + 1, (n + 1 - i) + (m + 1 - j) < c + 1
        PROVE  Merges(f[<<i, j>>], back, i, front, j)
    <3>1. f[<<i, j>>] = MergeStep(back, front, i, j, f)
      BY <1>1, <1>2, <1>3
    <3>2. CASE i > n
      <4>1. f[<<i, j>>] = SubSeq(front, j, Len(front))
        BY <3>1, <3>2, <1>2 DEF MergeStep
      <4>2. QED
        BY <4>1, <3>2, <1>2, <1>3, MergeEnds
    <3>3. CASE ~(i > n) /\ j > m
      <4>1. f[<<i, j>>] = SubSeq(back, i, Len(back))
        BY <3>1, <3>3, <1>2, <1>3 DEF MergeStep
      <4>2. QED
        BY <4>1, <3>3, <1>2, <1>3, MergeEnds
    <3>4. CASE ~(i > n) /\ ~(j > m)
      <4>1. i \in 1 .. Len(back) /\ j \in 1 .. Len(front)
        BY <3>4, <1>2, <1>3
      <4>2. ASSUME NEW a \in 1 .. n + 1, NEW b \in 1 .. m + 1,
                   (n + 1 - a) + (m + 1 - b) < (n + 1 - i) + (m + 1 - j)
            PROVE  Merges(f[<<a, b>>], back, a, front, b)
        <5>1. (n + 1 - a) + (m + 1 - b) < c
          BY <4>2, <2>1, <1>2, <1>3
        <5>2. QED
          BY <5>1, <1>5
      <4>3. /\ Merges(f[<<i, j + 1>>], back, i, front, j + 1)
            /\ Merges(f[<<i + 1, j>>], back, i + 1, front, j)
            /\ Merges(f[<<i + 1, j + 1>>], back, i + 1, front, j + 1)
        <5>1. i + 1 \in 1 .. n + 1 /\ j + 1 \in 1 .. m + 1
          BY <3>4
        <5>2. /\ (n + 1 - i) + (m + 1 - (j + 1)) < (n + 1 - i) + (m + 1 - j)
              /\ (n + 1 - (i + 1)) + (m + 1 - j) < (n + 1 - i) + (m + 1 - j)
              /\ (n + 1 - (i + 1)) + (m + 1 - (j + 1)) < (n + 1 - i) + (m + 1 - j)
          BY <1>2, <1>3
        <5>3. QED
          BY <5>1, <5>2, <4>2
      <4>4. front[j].key \in Nat /\ back[i].key \in Nat
        BY <4>1, ItemIs
      <4>5. CASE front[j].key < back[i].key
        <5>1. f[<<i, j>>] = <<front[j]>> \o f[<<i, j + 1>>]
          BY <3>1, <3>4, <4>5, <1>2, <1>3 DEF MergeStep
        <5>2. QED
          BY <5>1, <4>1, <4>3, <4>5, MergeSteps
      <4>6. CASE front[j].key > back[i].key
        <5>1. f[<<i, j>>] = <<back[i]>> \o f[<<i + 1, j>>]
          <6>1. ~(front[j].key < back[i].key)
            BY <4>4, <4>6
          <6>2. QED
            BY <6>1, <3>1, <3>4, <4>6, <1>2, <1>3 DEF MergeStep
        <5>2. QED
          BY <5>1, <4>1, <4>3, <4>6, MergeSteps
      <4>7. CASE front[j].key = back[i].key
        <5>1. f[<<i, j>>] = <<front[j]>> \o f[<<i + 1, j + 1>>]
          <6>1. ~(front[j].key < back[i].key) /\ ~(front[j].key > back[i].key)
            BY <4>4, <4>7
          <6>2. ~(i > Len(back)) /\ ~(j > Len(front)) /\ i \in 1 .. n + 1 /\ j \in 1 .. m + 1
            BY <3>4, <1>2, <1>3
          <6>3. f[<<i, j>>] = MergeStep(back, front, i, j, f)
            BY <6>2, <3>1
          <6>4. QED
            BY <6>1, <6>2, <6>3 DEF MergeStep
        <5>2. QED
          BY <5>1, <4>1, <4>3, <4>7, MergeSteps
      <4>8. QED
        BY <4>4, <4>5, <4>6, <4>7
    <3>5. QED
      BY <3>2, <3>3, <3>4
  <2>2. QED
    BY <2>1
<1>6. Nat \subseteq T
  <2> HIDE DEF T
  <2>1. QED
    BY <1>4, <1>5, Induction
<1>7. n + m + 1 \in Nat /\ 1 \in 1 .. n + 1 /\ 1 \in 1 .. m + 1
      /\ (n + 1 - 1) + (m + 1 - 1) < n + m + 1
  OBVIOUS
<1>8. n + m + 1 \in T
  <2> HIDE DEF T
  <2>1. QED
    BY <1>6, <1>7
<1>10. Merges(f[<<1, 1>>], back, 1, front, 1)
  BY <1>7, <1>8
<1>11. QED
  BY <1>1, <1>10

\* What a reader finds in a merge: the front one first.
LEMMA MergeFinds ==
  ASSUME NEW back \in Seq(Member), InOrder(back), NEW front \in Seq(Member), InOrder(front),
         NEW k \in Key, NEW missing
  PROVE  LET merge == MergeObjectsDiff(back, front)
         IN  /\ merge \in Seq(Member) /\ InOrder(merge)
             /\ ByName(merge, missing)[k] = IF Absent(front, k) THEN ByName(back, missing)[k]
                                            ELSE ByName(front, missing)[k]
             /\ Absent(merge, k) <=> Absent(back, k) /\ Absent(front, k)
<1>1. PICK r \in Seq(Member) :
        /\ r = MergeObjectsDiff(back, front) /\ InOrder(r) /\ Merges(r, back, 1, front, 1)
  BY MergeMerges DEF Merges
<1>2. /\ \A y \in 1 .. Len(front) : 1 <= y
      /\ \A x \in 1 .. Len(back) : 1 <= x
  BY DomainIs
<1>3. /\ \A y \in 1 .. Len(front) : ~Absent(r, front[y].key)
      /\ \A x \in 1 .. Len(back) : ~Absent(r, back[x].key)
      /\ \A j : AbsentFrom(front, 1, j) <=> Absent(front, j)
  BY <1>1, <1>2 DEF Merges, Absent, AbsentFrom
<1>4. CASE Absent(r, k)
  <2>1. ASSUME NEW y \in 1 .. Len(front) PROVE front[y].key # k
    BY <1>3, <1>4
  <2>2. ASSUME NEW x \in 1 .. Len(back) PROVE back[x].key # k
    BY <1>3, <1>4
  <2>3. Absent(front, k) /\ Absent(back, k)
    BY <2>1, <2>2 DEF Absent
  <2>4. QED
    BY <2>3, <1>1, <1>4, FindsNone
<1>5. CASE ~Absent(r, k)
  <2>1. PICK b \in 1 .. Len(r) : r[b].key = k
    BY <1>5 DEF Absent
  <2>2. ByName(r, missing)[k] = r[b].value
    BY <1>1, <2>1, FindsInOrder
  <2>3. CASE \E y \in 1 .. Len(front) : r[b] = front[y]
    <3>1. PICK y \in 1 .. Len(front) : r[b] = front[y]
      BY <2>3
    <3>2. ByName(front, missing)[k] = front[y].value /\ ~Absent(front, k)
      BY <3>1, <2>1, FindsInOrder DEF Absent
    <3>3. QED
      BY <3>1, <3>2, <2>2, <1>1, <1>5
  <2>4. CASE \E x \in 1 .. Len(back) : r[b] = back[x] /\ Absent(front, back[x].key)
    <3>1. PICK x \in 1 .. Len(back) : r[b] = back[x] /\ Absent(front, back[x].key)
      BY <2>4
    <3>2. ByName(back, missing)[k] = back[x].value /\ ~Absent(back, k) /\ Absent(front, k)
      BY <3>1, <2>1, FindsInOrder DEF Absent
    <3>3. QED
      BY <3>1, <3>2, <2>2, <1>1, <1>5
  <2>5. QED
    BY <2>3, <2>4, <1>1, <1>3 DEF Merges
<1>6. QED
  BY <1>4, <1>5, <1>1

-----------------------------------------------------------------------------
(* Bisection *)

\* The middle of a range.
LEMMA MiddleIs ==
  ASSUME NEW l \in Nat, NEW r \in Nat, l < r
  PROVE  /\ (l + r) \div 2 \in Nat /\ l <= (l + r) \div 2 /\ (l + r) \div 2 < r
         /\ (l + r) \div 2 + 1 \in Nat
OBVIOUS

\* What the search does at l and r, when f is the search in smaller ranges.
FindStep(s, k, l, r, f) ==
  IF l >= r THEN Null
  ELSE IF k > s[(l + r) \div 2 + 1].key THEN f[<<(l + r) \div 2 + 1, r>>]
  ELSE IF k < s[(l + r) \div 2 + 1].key THEN f[<<l, (l + r) \div 2>>]
  ELSE (l + r) \div 2 + 1

IsFind(find, s, k) ==
  find = [p \in (0 .. Len(s)) \X (0 .. Len(s)) |->
            LET l == p[1]  r == p[2]  m == (l + r) \div 2 IN
            IF l >= r THEN Null
            ELSE IF k > s[m + 1].key THEN find[<<m + 1, r>>]
            ELSE IF k < s[m + 1].key THEN find[<<l, m>>]
            ELSE m + 1]

Ranges(s) == (0 .. Len(s)) \X (0 .. Len(s))

\* A range is a pair of its ends.
LEMMA RangeIs ==
  ASSUME NEW s \in Seq(Member), NEW p \in Ranges(s)
  PROVE  /\ p = <<p[1], p[2]>> /\ p[1] \in 0 .. Len(s) /\ p[2] \in 0 .. Len(s)
         /\ Len(s) \in Nat
BY DEF Ranges

\* findSorted is these steps.
LEMMA FindIs ==
  ASSUME NEW s \in Seq(Member), NEW k
  PROVE  \E f :
           /\ \A l \in 0 .. Len(s), r \in 0 .. Len(s) : f[<<l, r>>] = FindStep(s, k, l, r, f)
           /\ FindSorted(s, k) = f[<<0, Len(s)>>]
<1> DEFINE D == Ranges(s)
           measure == [p \in D |-> Len(s) + p[2] - p[1]]
           rule == [q \in D \X [D -> Nat] |-> FindStep(s, k, q[1][1], q[1][2], q[2])]
<1>1. PICK n \in Nat : n = Len(s)
  OBVIOUS
<1>2. ASSUME NEW l \in 0 .. n, NEW r \in 0 .. n
      PROVE  <<l, r>> \in D /\ measure[<<l, r>>] = n + r - l
  BY <1>1 DEF Ranges
<1>3. measure \in [D -> 0 .. 2 * n + 1 - 1]
  <2>1. ASSUME NEW p \in D PROVE Len(s) + p[2] - p[1] \in 0 .. 2 * n + 1 - 1
    BY <1>1, RangeIs
  <2>2. QED
    BY <2>1
<1>4. ASSUME NEW p \in D, NEW f \in [D -> Nat]
      PROVE  rule[<<p, f>>] = FindStep(s, k, p[1], p[2], f)
  OBVIOUS
<1>5. ASSUME NEW l \in 0 .. n, NEW r \in 0 .. n, ~(l >= r)
      PROVE  /\ <<(l + r) \div 2 + 1, r>> \in D /\ <<l, (l + r) \div 2>> \in D
             /\ (l + r) \div 2 + 1 \in Nat
             /\ measure[<<(l + r) \div 2 + 1, r>>] < n + r - l
             /\ measure[<<l, (l + r) \div 2>>] < n + r - l
  <2>1. PICK m \in Nat : m = (l + r) \div 2 /\ l <= m /\ m < r
    BY <1>5, MiddleIs
  <2>2. m \in 0 .. n /\ m + 1 \in 0 .. n
    BY <2>1
  <2>3. n + r - (m + 1) < n + r - l /\ n + m - l < n + r - l
    BY <2>1
  <2> HIDE DEF D, measure
  <2>4. <<m + 1, r>> \in D /\ measure[<<m + 1, r>>] = n + r - (m + 1)
    BY <2>2, <1>2
  <2>5. <<l, m>> \in D /\ measure[<<l, m>>] = n + m - l
    BY <2>2, <1>2
  <2>6. QED
    BY <2>1, <2>3, <2>4, <2>5
<1>6. rule \in [D \X [D -> Nat] -> Nat]
  <2>1. ASSUME NEW p \in D, NEW f \in [D -> Nat]
        PROVE  FindStep(s, k, p[1], p[2], f) \in Nat
    <3>1. p[1] \in 0 .. n /\ p[2] \in 0 .. n
      BY <1>1, RangeIs
    <3>2. CASE p[1] >= p[2]
      BY <3>2 DEF FindStep, Null
    <3>3. CASE ~(p[1] >= p[2])
      <4> HIDE DEF D
      <4>1. f[<<(p[1] + p[2]) \div 2 + 1, p[2]>>] \in Nat
        BY <3>1, <3>3, <1>5
      <4>2. f[<<p[1], (p[1] + p[2]) \div 2>>] \in Nat
        BY <3>1, <3>3, <1>5
      <4>3. (p[1] + p[2]) \div 2 + 1 \in Nat
        BY <3>1, <3>3, <1>5
      <4>4. QED
        BY <4>1, <4>2, <4>3, <3>3 DEF FindStep
    <3>4. QED
      BY <3>2, <3>3
  <2>2. QED
    BY <2>1
<1>7. ASSUME NEW p \in D, NEW f \in [D -> Nat], NEW g \in [D -> Nat],
             \A e \in D : measure[e] < measure[p] => f[e] = g[e]
      PROVE  rule[<<p, f>>] = rule[<<p, g>>]
  <2>1. PICK l \in 0 .. n, r \in 0 .. n : l = p[1] /\ r = p[2]
    BY <1>1, RangeIs
  <2>2. p = <<l, r>> /\ measure[p] = n + r - l
    BY <2>1, <1>2, RangeIs
  <2>3. ASSUME ~(l >= r)
        PROVE  /\ f[<<(l + r) \div 2 + 1, r>>] = g[<<(l + r) \div 2 + 1, r>>]
               /\ f[<<l, (l + r) \div 2>>] = g[<<l, (l + r) \div 2>>]
    <3> HIDE DEF D, measure
    <3>1. QED
      BY <2>2, <2>3, <1>5, <1>7
  <2>4. FindStep(s, k, l, r, f) = FindStep(s, k, l, r, g)
    BY <2>3 DEF FindStep
  <2>5. QED
    BY <2>1, <2>4, <1>4
<1> HIDE DEF measure, rule, D
<1>8. PICK f : IsFixed(f, D, Nat, rule)
  <2>1. LooksBelow(D, Nat, rule, measure)
    BY <1>7 DEF LooksBelow
  <2>2. 2 * n + 1 \in Nat
    OBVIOUS
  <2>3. IsRule(rule, D, Nat, measure, 2 * n + 1)
    BY <2>1, <2>2, <1>3, <1>6 DEF IsRule
  <2>4. QED
    BY <2>3, RecursionOver
<1> DEFINE find == CHOOSE find : IsFind(find, s, k)
<1>9. FindSorted(s, k) = find[<<0, Len(s)>>]
  BY DEF FindSorted, IsFind
<1>10. \A g : IsFind(g, s, k) <=> g = [p \in D |-> FindStep(s, k, p[1], p[2], g)]
  BY DEF IsFind, FindStep, Ranges, D
<1>11. f = [p \in D |-> FindStep(s, k, p[1], p[2], f)]
  BY <1>4, <1>8 DEF IsFixed
<1>12. find = [p \in D |-> FindStep(s, k, p[1], p[2], find)]
  BY <1>10, <1>11
<1> HIDE DEF find
<1>13. \A p \in D : find[p] = FindStep(s, k, p[1], p[2], find)
  BY <1>12
<1>14. ASSUME NEW l \in 0 .. n, NEW r \in 0 .. n
       PROVE  find[<<l, r>>] = FindStep(s, k, l, r, find)
  BY <1>2, <1>13
<1>15. QED
  BY <1>1, <1>9, <1>14

\* In a list in order, it finds the member with the name, if there is one.
LEMMA FindsSorted ==
  ASSUME NEW s \in Seq(Member), InOrder(s), NEW k \in Key
  PROVE  /\ FindSorted(s, k) = Null => Absent(s, k)
         /\ FindSorted(s, k) # Null => LastAt(s, k, FindSorted(s, k))
<1>1. PICK f :
        /\ \A l \in 0 .. Len(s), r \in 0 .. Len(s) : f[<<l, r>>] = FindStep(s, k, l, r, f)
        /\ FindSorted(s, k) = f[<<0, Len(s)>>]
  BY FindIs
<1>2. PICK n \in Nat : n = Len(s)
  OBVIOUS
<1>3. k \in Nat
  BY DEF Key
<1> DEFINE Right(l, r) ==
      /\ f[<<l, r>>] = Null => \A i \in 1 .. n : l < i /\ i <= r => s[i].key # k
      /\ f[<<l, r>>] # Null => f[<<l, r>>] \in 1 .. n /\ s[f[<<l, r>>]].key = k
    T == {c \in Nat : \A l \in 0 .. n, r \in 0 .. n : n + r - l < c => Right(l, r)}
<1>4. 0 \in T
  OBVIOUS
<1>5. ASSUME NEW c \in Nat, c \in T PROVE c + 1 \in T
  <2>1. ASSUME NEW l \in 0 .. n, NEW r \in 0 .. n, n + r - l < c + 1 PROVE Right(l, r)
    <3>1. f[<<l, r>>] = FindStep(s, k, l, r, f)
      BY <1>1, <1>2
    <3>2. CASE l >= r
      <4>1. f[<<l, r>>] = Null
        BY <3>1, <3>2 DEF FindStep
      <4>2. \A i \in 1 .. n : ~(l < i /\ i <= r)
        BY <3>2
      <4>3. QED
        BY <4>1, <4>2
    <3>3. CASE ~(l >= r)
      <4>1. PICK m \in Nat : m = (l + r) \div 2 /\ l <= m /\ m < r
        BY <3>3, MiddleIs
      <4>2. m \in 0 .. n /\ m + 1 \in 1 .. n /\ m + 1 \in 0 .. n
        BY <4>1
      <4>3. s[m + 1].key \in Nat
        BY <4>2, <1>2, ItemIs
      <4>4. ASSUME NEW i \in 1 .. n
            PROVE  /\ s[i].key \in Nat
                   /\ i < m + 1 => s[i].key < s[m + 1].key
                   /\ m + 1 < i => s[m + 1].key < s[i].key
        BY <4>2, <1>2, ItemIs, DomainIs DEF InOrder
      <4>5. Right(m + 1, r)
        <5>1. n + r - (m + 1) < c
          BY <4>1, <2>1
        <5>2. QED
          BY <5>1, <4>2, <1>5
      <4>6. Right(l, m)
        <5>1. n + m - l < c
          BY <4>1, <2>1
        <5>2. QED
          BY <5>1, <4>2, <1>5
      <4>7. CASE k > s[m + 1].key
        <5>1. f[<<l, r>>] = f[<<m + 1, r>>]
          BY <3>1, <3>3, <4>1, <4>7 DEF FindStep
        <5>2. ASSUME NEW i \in 1 .. n, i <= m + 1 PROVE s[i].key # k
          <6>1. s[i].key <= s[m + 1].key
            BY <4>1, <4>3, <4>4, <5>2
          <6>2. QED
            BY <6>1, <4>3, <4>4, <4>7, <1>3
        <5>3. \A i \in 1 .. n : i <= m + 1 \/ m + 1 < i
          BY <4>1
        <5>4. QED
          BY <5>1, <5>2, <5>3, <4>5
      <4>8. CASE k < s[m + 1].key
        <5>1. ~(k > s[m + 1].key)
          BY <4>3, <4>8, <1>3
        <5>2. f[<<l, r>>] = f[<<l, m>>]
          BY <3>1, <3>3, <4>1, <4>8, <5>1 DEF FindStep
        <5>3. ASSUME NEW i \in 1 .. n, ~(i <= m) PROVE s[i].key # k
          <6>1. i = m + 1 \/ m + 1 < i
            BY <5>3, <4>1
          <6>2. s[m + 1].key <= s[i].key
            BY <6>1, <4>3, <4>4
          <6>3. QED
            BY <6>2, <4>3, <4>4, <4>8, <1>3
        <5>4. QED
          BY <5>2, <5>3, <4>6
      <4>9. CASE k = s[m + 1].key
        <5>1. ~(k > s[m + 1].key) /\ ~(k < s[m + 1].key)
          BY <4>3, <4>9, <1>3
        <5>2. f[<<l, r>>] = m + 1
          BY <3>1, <3>3, <4>1, <5>1 DEF FindStep
        <5>3. m + 1 # Null
          BY <4>1 DEF Null
        <5>4. QED
          BY <5>2, <5>3, <4>2, <4>9
      <4>10. QED
        BY <4>3, <4>7, <4>8, <4>9, <1>3
    <3>4. QED
      BY <3>2, <3>3
  <2>2. QED
    BY <2>1
<1>6. Nat \subseteq T
  <2> HIDE DEF T
  <2>1. QED
    BY <1>4, <1>5, Induction
<1>7. 2 * n + 1 \in T
  <2> HIDE DEF T
  <2>1. QED
    BY <1>6
<1>8. Right(0, n)
  <2>1. n + n - 0 < 2 * n + 1 /\ 0 \in 0 .. n /\ n \in 0 .. n
    OBVIOUS
  <2>2. QED
    BY <1>7, <2>1
<1>9. ASSUME f[<<0, n>>] = Null PROVE Absent(s, k)
  <2>1. \A i \in 1 .. n : 0 < i /\ i <= n
    OBVIOUS
  <2>2. QED
    BY <2>1, <1>2, <1>8, <1>9 DEF Absent
<1>10. ASSUME f[<<0, n>>] # Null PROVE LastAt(s, k, f[<<0, n>>])
  BY <1>2, <1>8, <1>10, FindsInOrder
<1>11. QED
  BY <1>1, <1>2, <1>9, <1>10

\* What a lookup gets from a list in order.
LEMMA Gets ==
  ASSUME NEW s \in Seq(Member), InOrder(s), NEW k \in Key
  PROVE  Get(s, k) = ByName(s, Undefined)[k]
<1>1. CASE FindSorted(s, k) = Null
  BY <1>1, FindsSorted, FindsNone DEF Get
<1>2. CASE FindSorted(s, k) # Null
  BY <1>2, FindsSorted, FindsLast DEF Get
<1>3. QED
  BY <1>1, <1>2

-----------------------------------------------------------------------------
(* The containers of an Object *)

Heaps == UNION {[R -> Seq(Member)] : R \in SUBSET (1 .. 7)}
Stores == [ordered : Nat, unordered : Nat, capacity : Nat, heap : Heaps]

\* A heap is a function of some of the seven containers.
LEMMA HeapIs ==
  ASSUME NEW h
  PROVE  h \in Heaps <=> DOMAIN h \subseteq 1 .. 7 /\ h \in [DOMAIN h -> Seq(Member)]
BY DEF Heaps

\* s is a record of containers; no more than n of them were allocated since
\* the call began.
IsStore(s, n) == s \in Stores /\ DOMAIN s.heap \subseteq 1 .. 3 + n

\* They are the same but for the unordered container, which has these members.
Written(s, members) == [s EXCEPT !.heap[s.unordered] = members]

\* r is the only container whose members may have changed.
OnlyChanged(r, s, t) ==
  DOMAIN s.heap \subseteq DOMAIN t.heap /\ \A q \in DOMAIN s.heap : q # r => t.heap[q] = s.heap[q]

\* Writing to the unordered container changes no other.
LEMMA WrittenIs ==
  ASSUME NEW s, NEW n, IsStore(s, n), s.unordered \in DOMAIN s.heap, NEW v \in Seq(Member)
  PROVE  LET t == Written(s, v)
         IN  /\ IsStore(t, n) /\ DOMAIN t.heap = DOMAIN s.heap
             /\ t.ordered = s.ordered /\ t.unordered = s.unordered /\ t.capacity = s.capacity
             /\ t.heap[t.unordered] = v /\ OnlyChanged(t.unordered, s, t)
<1> DEFINE t == Written(s, v)
           h == [s.heap EXCEPT ![s.unordered] = v]
<1>1. s \in Stores /\ s.heap \in Heaps /\ DOMAIN s.heap \subseteq 1 .. 3 + n
  BY DEF IsStore, Stores
<1>2. s.heap \in [DOMAIN s.heap -> Seq(Member)] /\ DOMAIN s.heap \subseteq 1 .. 7
  BY <1>1, HeapIs
<1>3. h \in [DOMAIN s.heap -> Seq(Member)] /\ h[s.unordered] = v /\ DOMAIN h = DOMAIN s.heap
      /\ \A q \in DOMAIN s.heap : q # s.unordered => h[q] = s.heap[q]
  BY <1>2
<1>4. h \in Heaps
  BY <1>2, <1>3, HeapIs
<1>5. t \in Stores /\ t.heap = h
      /\ t.ordered = s.ordered /\ t.unordered = s.unordered /\ t.capacity = s.capacity
  BY <1>1, <1>4 DEF Written, Stores
<1> HIDE DEF t, h
<1>6. IsStore(t, n)
  BY <1>1, <1>3, <1>5 DEF IsStore
<1>7. OnlyChanged(t.unordered, s, t)
  BY <1>3, <1>5 DEF OnlyChanged
<1>8. DOMAIN t.heap = DOMAIN s.heap /\ t.heap[t.unordered] = v
  BY <1>3, <1>5
<1>9. QED
  BY <1>5, <1>6, <1>7, <1>8 DEF t

\* A number that is free.
LEMMA FreshIs ==
  ASSUME NEW n \in 0 .. 3, NEW h, DOMAIN h \subseteq 1 .. 3 + n
  PROVE  Fresh(h) \notin DOMAIN h /\ Fresh(h) \in 4 .. 4 + n
<1> DEFINE T == (4 .. 7) \ DOMAIN h
<1>1. T \subseteq Nat /\ 4 + n \in T
  OBVIOUS
<1>2. Min(T) \in T /\ \A y \in T : Min(T) <= y
  BY <1>1, MinIs
<1>3. Min(T) <= 4 + n
  BY <1>1, <1>2
<1>4. QED
  BY <1>2, <1>3 DEF Fresh

Allocates(s, t, n, members, room) ==
  /\ IsStore(t, n + 1) /\ DOMAIN t.heap = DOMAIN s.heap \cup {t.unordered}
  /\ t.unordered \notin DOMAIN s.heap /\ t.unordered # Null
  /\ t.ordered = s.ordered /\ t.capacity = room
  /\ t.heap[t.unordered] = members /\ OnlyChanged(t.unordered, s, t)

\* A container that is allocated is one nobody refers to.
LEMMA AllocateIs ==
  ASSUME NEW n \in 0 .. 3, NEW s, IsStore(s, n), NEW members \in Seq(Member), NEW room \in Nat
  PROVE  Allocates(s, Allocate(s, members, room), n, members, room)
<1> DEFINE t == Allocate(s, members, room)
           f == Fresh(s.heap)
           h == [r \in DOMAIN s.heap \cup {f} |-> IF r \in DOMAIN s.heap THEN s.heap[r] ELSE members]
<1>1. s \in Stores /\ s.heap \in Heaps /\ DOMAIN s.heap \subseteq 1 .. 3 + n
  BY DEF IsStore, Stores
<1>2. f \notin DOMAIN s.heap /\ f \in 4 .. 4 + n /\ f \in Nat /\ f # Null
  <2>1. f \notin DOMAIN s.heap /\ f \in 4 .. 4 + n
    BY <1>1, FreshIs
  <2>2. QED
    BY <2>1 DEF Null
<1>3. s.heap \in [DOMAIN s.heap -> Seq(Member)] /\ DOMAIN s.heap \subseteq 1 .. 7
  BY <1>1, HeapIs
<1> HIDE DEF f
<1>4. h \in [DOMAIN s.heap \cup {f} -> Seq(Member)] /\ h[f] = members
      /\ DOMAIN h = DOMAIN s.heap \cup {f} /\ \A q \in DOMAIN s.heap : h[q] = s.heap[q]
  BY <1>2, <1>3
<1> HIDE DEF h
<1>5. DOMAIN h \subseteq 1 .. 3 + (n + 1) /\ DOMAIN h \subseteq 1 .. 7
  BY <1>1, <1>2, <1>3, <1>4
<1>6. h \in Heaps
  BY <1>4, <1>5, HeapIs
<1>7. t \in Stores /\ t.heap = h
      /\ t.ordered = s.ordered /\ t.unordered = f /\ t.capacity = room
  BY <1>1, <1>2, <1>6 DEF Allocate, Stores, f, h
<1> HIDE DEF t
<1>8. IsStore(t, n + 1)
  BY <1>5, <1>7 DEF IsStore
<1>9. OnlyChanged(t.unordered, s, t)
  BY <1>4, <1>7 DEF OnlyChanged
<1>10. /\ DOMAIN t.heap = DOMAIN s.heap \cup {t.unordered}
       /\ t.heap[t.unordered] = members
       /\ t.unordered \notin DOMAIN s.heap /\ t.unordered # Null
  BY <1>2, <1>4, <1>7
<1>11. QED
  BY <1>7, <1>8, <1>9, <1>10 DEF t, Allocates

\* The unordered container takes the place of the ordered one.
LEMMA ReleasedIs ==
  ASSUME NEW s, NEW n, IsStore(s, n)
  PROVE  LET t == Released(s)
         IN  /\ IsStore(t, n) /\ t.heap = s.heap
             /\ t.ordered = s.unordered /\ t.unordered = Null /\ t.capacity = 0
BY DEF IsStore, Stores, Released, Null

\* The ordered and the unordered changes, and what they are by name.
Early(s) == IF s.ordered = Null THEN <<>> ELSE s.heap[s.ordered]
Late(s) == IF s.unordered = Null THEN <<>> ELSE s.heap[s.unordered]
Changes(s) == ByName(Early(s) \o Late(s), Unchanged)

\* A container that readers bisect.
Sorting(h, r) == r # Null => r \in DOMAIN h /\ InOrder(h[r]) /\ h[r] # <<>>

\* The containers are there; the ordered one and the one that is kept can be
\* searched; the unordered one belongs to nobody else, is within its capacity,
\* and has the first capacity as long as nothing was sorted.
Sound(s, k, n) ==
  /\ IsStore(s, n) /\ Sorting(s.heap, s.ordered) /\ Sorting(s.heap, k)
  /\ s.unordered # Null =>
       /\ s.unordered \in DOMAIN s.heap /\ s.unordered # s.ordered /\ s.unordered # k
       /\ Len(s.heap[s.unordered]) <= s.capacity /\ s.capacity # 0
       /\ s.ordered = Null => s.capacity <= InitialCapacity

\* Both containers are lists of members, and the ordered one is in order.
LEMMA ListsAre ==
  ASSUME NEW s, NEW k, NEW n, Sound(s, k, n)
  PROVE  /\ Early(s) \in Seq(Member) /\ InOrder(Early(s)) /\ Late(s) \in Seq(Member)
         /\ s.ordered # Null => Early(s) # <<>>
<1>1. s.heap \in Heaps
  BY DEF Sound, IsStore, Stores
<1>0. \A r \in DOMAIN s.heap : s.heap[r] \in Seq(Member)
  BY <1>1, HeapIs
<1>2. <<>> \in Seq(Member) /\ InOrder(<<>>)
  BY DEF InOrder
<1>3. QED
  BY <1>0, <1>2 DEF Sound, Sorting, Early, Late

\* A change is the last one in the unordered container, or what is in the ordered one.
LEMMA ChangesAre ==
  ASSUME NEW s, NEW k, NEW n, Sound(s, k, n), NEW x \in Key, NEW missing
  PROVE  /\ ByName(Early(s) \o Late(s), missing)[x] =
              IF Absent(Late(s), x) THEN ByName(Early(s), missing)[x] ELSE ByName(Late(s), missing)[x]
         /\ Absent(Late(s), x) \/ ByName(Late(s), missing)[x] \in Val \cup {Undefined}
         /\ Absent(Early(s), x) \/ ByName(Early(s), missing)[x] \in Val \cup {Undefined}
BY ListsAre, FindsJoined, FoundType

\* k is the same in both.
Kept(k, s, t) == k # Null => t.heap[k] = s.heap[k]

\* A container that is left alone can still be searched.
LEMMA StillSorting ==
  ASSUME NEW s, NEW t, NEW r, OnlyChanged(r, s, t)
  PROVE  \A q : Sorting(s.heap, q) /\ q # r => Sorting(t.heap, q) /\ Kept(q, s, t)
BY DEF Sorting, OnlyChanged, Kept

\* Room for one container more.
LEMMA StillSound ==
  ASSUME NEW n \in Nat, NEW s, NEW k, Sound(s, k, n)
  PROVE  Sound(s, k, n + 1)
<1>1. 1 .. 3 + n \subseteq 1 .. 3 + (n + 1)
  OBVIOUS
<1>2. IsStore(s, n + 1)
  BY <1>1 DEF Sound, IsStore
<1>3. QED
  BY <1>2 DEF Sound

\* Lists in which a reader finds the same.
LEMMA SameChanges ==
  ASSUME NEW s, NEW t, \A x \in Key : Changes(t)[x] = Changes(s)[x]
  PROVE  Changes(t) = Changes(s)
BY SameFunction DEF Changes

\* Containers whose ordered one may be new, and that have no unordered one.
LEMMA ReleasedSound ==
  ASSUME NEW n \in Nat, NEW s, NEW k, IsStore(s, n), s.unordered \in DOMAIN s.heap,
         s.unordered # Null, InOrder(s.heap[s.unordered]), s.heap[s.unordered] # <<>>,
         Sorting(s.heap, k)
  PROVE  LET t == Released(s)
         IN  /\ Sound(t, k, n) /\ t.heap = s.heap /\ t.ordered # Null /\ t.unordered = Null
             /\ Early(t) = s.heap[s.unordered] /\ Late(t) = <<>>
             /\ \A x \in Key : Changes(t)[x] = ByName(s.heap[s.unordered], Unchanged)[x]
<1>1. PICK t : t = Released(s)
  OBVIOUS
<1>2. IsStore(t, n) /\ t.heap = s.heap
      /\ t.ordered = s.unordered /\ t.unordered = Null /\ t.capacity = 0
  BY <1>1, ReleasedIs
<1>3. Sound(t, k, n)
  BY <1>2 DEF Sound, Sorting
<1>4. Early(t) = s.heap[s.unordered] /\ Late(t) = <<>>
  BY <1>2 DEF Early, Late
<1>5. \A x : Absent(Late(t), x)
  <2>1. Len(Late(t)) = 0
    BY <1>4
  <2>2. QED
    BY <2>1 DEF Absent
<1>6. \A x \in Key : Changes(t)[x] = ByName(s.heap[s.unordered], Unchanged)[x]
  BY <1>3, <1>4, <1>5, ChangesAre DEF Changes
<1>7. QED
  BY <1>1, <1>2, <1>3, <1>4, <1>6

\* optimize(): no change is lost, and nothing is left unsorted.
Optimizes(s, t, k, n) ==
  /\ Sound(t, k, n + 1) /\ Kept(k, s, t) /\ Changes(t) = Changes(s) /\ Late(t) = <<>>
  /\ Late(s) # <<>> => t.ordered # Null

\* That is what Optimized does.
LEMMA OptimizedIs ==
  ASSUME NEW n \in 0 .. 3, NEW s, NEW k, Sound(s, k, n)
  PROVE  Optimizes(s, Optimized(s), k, n)
<1>0. n \in Nat /\ Early(s) \in Seq(Member) /\ InOrder(Early(s)) /\ Late(s) \in Seq(Member)
  BY ListsAre
<1>1. CASE s.unordered = Null \/ s.heap[s.unordered] = <<>>
  <2>1. Optimized(s) = s /\ Late(s) = <<>>
    BY <1>1 DEF Optimized, Late
  <2>2. QED
    BY <2>1, <1>0, StillSound DEF Optimizes, Kept
<1>2. CASE ~(s.unordered = Null \/ s.heap[s.unordered] = <<>>)
  <2>1. /\ IsStore(s, n) /\ s.unordered \in DOMAIN s.heap
        /\ s.unordered # Null /\ s.unordered # s.ordered /\ s.unordered # k
        /\ Late(s) = s.heap[s.unordered] /\ Late(s) # <<>>
        /\ Sorting(s.heap, k) /\ Sorting(s.heap, s.ordered)
    BY <1>2 DEF Sound, Late
  <2>2. PICK l \in Seq(Member) :
          /\ l = Sorted(Late(s)) /\ InOrder(l)
          /\ \A x \in Key : /\ ByName(l, Unchanged)[x] = ByName(Late(s), Unchanged)[x]
                            /\ Absent(l, x) <=> Absent(Late(s), x)
    BY <1>0, SortedIs, SortedFinds
  <2>3. l # <<>>
    BY <2>1, <2>2, <1>0, NotEmpty
  <2>4. PICK t : t = Written(s, l)
    OBVIOUS
  <2>5. /\ IsStore(t, n) /\ DOMAIN t.heap = DOMAIN s.heap
        /\ t.ordered = s.ordered /\ t.unordered = s.unordered
        /\ t.heap[t.unordered] = l /\ OnlyChanged(t.unordered, s, t)
    BY <2>1, <2>4, WrittenIs
  <2>6. /\ Sorting(t.heap, k) /\ Sorting(t.heap, t.ordered)
        /\ k # Null => t.heap[k] = s.heap[k]
        /\ t.ordered # Null => t.heap[t.ordered] = s.heap[s.ordered]
    <3>1. k # t.unordered /\ s.ordered # t.unordered
      BY <2>1, <2>5
    <3>2. \A q : Sorting(s.heap, q) /\ q # t.unordered => Sorting(t.heap, q) /\ Kept(q, s, t)
      BY <2>5, StillSorting
    <3>3. QED
      BY <3>1, <3>2, <2>1, <2>5 DEF Kept
  <2>7. CASE s.ordered = Null
    <3>1. Optimized(s) = Released(t)
      BY <1>2, <2>1, <2>2, <2>4, <2>5, <2>7 DEF Optimized, Written
    <3>2. PICK u : u = Released(t)
      OBVIOUS
    <3>3. /\ Sound(u, k, n) /\ u.heap = t.heap /\ u.ordered # Null /\ Late(u) = <<>>
          /\ \A x \in Key : Changes(u)[x] = ByName(l, Unchanged)[x]
      <4>1. t.unordered \in DOMAIN t.heap /\ t.unordered # Null /\ Sorting(t.heap, k)
        BY <2>1, <2>5, <2>6
      <4>2. InOrder(t.heap[t.unordered]) /\ t.heap[t.unordered] # <<>>
        BY <2>2, <2>3, <2>5
      <4>3. QED
        BY <4>1, <4>2, <3>2, <2>5, <1>0, ReleasedSound
    <3>4. ASSUME NEW x \in Key PROVE Changes(u)[x] = Changes(s)[x]
      <4>1. Early(s) = <<>> /\ Absent(Early(s), x)
        <5>1. Early(s) = <<>>
          BY <2>7 DEF Early
        <5>2. QED
          BY <5>1 DEF Absent
      <4>2. Changes(s)[x] = IF Absent(Late(s), x) THEN ByName(Early(s), Unchanged)[x]
                            ELSE ByName(Late(s), Unchanged)[x]
        BY ChangesAre DEF Changes
      <4>3. Absent(Late(s), x) => ByName(Late(s), Unchanged)[x] = Unchanged
        BY <1>0, FindsNone
      <4>4. ByName(Early(s), Unchanged)[x] = Unchanged
        BY <4>1, <1>0, FindsNone
      <4>5. QED
        BY <4>2, <4>3, <4>4, <3>3, <2>2
    <3>5. Kept(k, s, u)
      BY <3>3, <2>6 DEF Kept
    <3>6. Optimizes(s, u, k, n)
      BY <3>3, <3>4, <3>5, <1>0, SameChanges, StillSound DEF Optimizes
    <3>7. QED
      BY <3>1, <3>2, <3>6
  <2>8. CASE s.ordered # Null
    <3>1. Early(s) = t.heap[t.ordered]
      BY <2>5, <2>6, <2>8 DEF Early
    <3>2. PICK m \in Seq(Member) :
            /\ m = MergeObjectsDiff(Early(s), l) /\ InOrder(m)
            /\ \A x \in Key :
                 /\ ByName(m, Unchanged)[x] = IF Absent(l, x) THEN ByName(Early(s), Unchanged)[x]
                                              ELSE ByName(l, Unchanged)[x]
                 /\ Absent(m, x) <=> Absent(Early(s), x) /\ Absent(l, x)
      <4>1. 1 \in Key
        BY ObjectAssumption DEF Key
      <4>2. QED
        BY <4>1, <1>0, <2>2, MergeFinds
    <3>3. m # <<>>
      BY <2>2, <2>3, <3>2, NotEmpty
    <3>4. PICK v : v = Allocate(t, m, 0)
      OBVIOUS
    <3>5. Optimized(s) = Released(v)
      BY <1>2, <2>1, <2>2, <2>4, <2>5, <2>8, <3>1, <3>2, <3>4 DEF Optimized, Written
    <3>6. /\ IsStore(v, n + 1) /\ DOMAIN v.heap = DOMAIN t.heap \cup {v.unordered}
          /\ v.unordered \notin DOMAIN t.heap /\ v.unordered # Null
          /\ v.heap[v.unordered] = m /\ OnlyChanged(v.unordered, t, v)
      <4>1. Allocates(t, v, n, m, 0)
        BY <3>4, <2>5, AllocateIs
      <4>2. QED
        BY <4>1 DEF Allocates
    <3>7. k # v.unordered
      BY <3>6, <2>6 DEF Sorting
    <3>8. Sorting(v.heap, k) /\ (k # Null => v.heap[k] = t.heap[k])
      <4>1. \A q : Sorting(t.heap, q) /\ q # v.unordered => Sorting(v.heap, q) /\ Kept(q, t, v)
        BY <3>6, StillSorting
      <4>2. QED
        BY <4>1, <3>7, <2>6 DEF Kept
    <3>9. PICK u : u = Released(v)
      OBVIOUS
    <3>10. /\ Sound(u, k, n + 1) /\ u.heap = v.heap /\ u.ordered # Null /\ Late(u) = <<>>
           /\ \A x \in Key : Changes(u)[x] = ByName(m, Unchanged)[x]
      <4>1. PICK more \in Nat : more = n + 1
        OBVIOUS
      <4>2. IsStore(v, more) /\ v.unordered \in DOMAIN v.heap /\ v.unordered # Null
            /\ v.heap[v.unordered] = m
        BY <4>1, <3>6
      <4>3. /\ Sound(u, k, more) /\ u.heap = v.heap /\ u.ordered # Null /\ Late(u) = <<>>
            /\ \A x \in Key : Changes(u)[x] = ByName(m, Unchanged)[x]
        BY <4>2, <3>2, <3>3, <3>8, <3>9, ReleasedSound
      <4>4. QED
        BY <4>1, <4>3
    <3>11. ASSUME NEW x \in Key PROVE Changes(u)[x] = Changes(s)[x]
      <4>1. Changes(s)[x] = IF Absent(Late(s), x) THEN ByName(Early(s), Unchanged)[x]
                            ELSE ByName(Late(s), Unchanged)[x]
        BY ChangesAre DEF Changes
      <4>2. QED
        BY <4>1, <3>2, <3>10, <2>2
    <3>12. Kept(k, s, u)
      BY <3>8, <3>10, <2>6 DEF Kept
    <3>13. Optimizes(s, u, k, n)
      BY <3>10, <3>11, <3>12, SameChanges DEF Optimizes
    <3>14. QED
      BY <3>5, <3>9, <3>13
  <2>9. QED
    BY <2>7, <2>8
<1>3. QED
  BY <1>1, <1>2

\* A new and empty unordered container.
LEMMA EmptyIs ==
  ASSUME NEW n \in 0 .. 3, NEW s, NEW k, Sound(s, k, n), Late(s) = <<>>,
         NEW room \in Nat \ {0}, s.ordered = Null => room <= InitialCapacity
  PROVE  LET t == Allocate(s, <<>>, room)
         IN  /\ Sound(t, k, n + 1) /\ Kept(k, s, t) /\ Changes(t) = Changes(s)
             /\ t.unordered # Null /\ t.capacity = room /\ t.heap[t.unordered] = <<>>
             /\ t.ordered = s.ordered
<1>1. PICK t : t = Allocate(s, <<>>, room)
  OBVIOUS
<1>2. IsStore(s, n) /\ Sorting(s.heap, k) /\ Sorting(s.heap, s.ordered)
  BY DEF Sound
<1>3. /\ IsStore(t, n + 1) /\ DOMAIN t.heap = DOMAIN s.heap \cup {t.unordered}
      /\ t.unordered \notin DOMAIN s.heap /\ t.unordered # Null
      /\ t.ordered = s.ordered /\ t.capacity = room
      /\ t.heap[t.unordered] = <<>> /\ OnlyChanged(t.unordered, s, t)
  <2>1. <<>> \in Seq(Member)
    OBVIOUS
  <2>2. Allocates(s, t, n, <<>>, room)
    BY <2>1, <1>1, <1>2, AllocateIs
  <2>3. QED
    BY <2>2 DEF Allocates
<1>4. k # t.unordered /\ s.ordered # t.unordered
  BY <1>2, <1>3 DEF Sorting
<1>5. /\ Sorting(t.heap, k) /\ Sorting(t.heap, t.ordered)
      /\ k # Null => t.heap[k] = s.heap[k]
      /\ t.ordered # Null => t.heap[t.ordered] = s.heap[s.ordered]
  <2>1. \A q : Sorting(s.heap, q) /\ q # t.unordered => Sorting(t.heap, q) /\ Kept(q, s, t)
    BY <1>3, StillSorting
  <2>2. QED
    BY <2>1, <1>2, <1>3, <1>4 DEF Kept
<1>6. Len(t.heap[t.unordered]) <= t.capacity
  <2>1. Len(t.heap[t.unordered]) = 0
    BY <1>3
  <2>2. QED
    BY <2>1, <1>3
<1>7. Sound(t, k, n + 1)
  BY <1>3, <1>4, <1>5, <1>6 DEF Sound
<1>8. Early(t) = Early(s) /\ Late(t) = Late(s)
  BY <1>3, <1>5 DEF Early, Late
<1>9. QED
  BY <1>1, <1>3, <1>5, <1>7, <1>8 DEF Changes, Kept

\* push_back, when there is room.
LEMMA PushBackIs ==
  ASSUME NEW n \in Nat, NEW s, NEW k, Sound(s, k, n), s.unordered # Null,
         Len(s.heap[s.unordered]) < s.capacity, NEW m \in Member
  PROVE  LET t == PushBack(s, m)
         IN  /\ Sound(t, k, n) /\ Kept(k, s, t) /\ t.unordered # Null
             /\ Changes(t) = [Changes(s) EXCEPT ![m.key] = m.value]
<1>1. /\ IsStore(s, n) /\ Sorting(s.heap, k) /\ Sorting(s.heap, s.ordered)
      /\ s.unordered \in DOMAIN s.heap /\ s.unordered # s.ordered /\ s.unordered # k
      /\ s.capacity # 0 /\ (s.ordered = Null => s.capacity <= InitialCapacity)
      /\ Late(s) = s.heap[s.unordered] /\ s.capacity \in Nat
  BY DEF Sound, Late, IsStore, Stores
<1>2. Early(s) \in Seq(Member) /\ Late(s) \in Seq(Member)
  BY ListsAre
<1>3. PICK l \in Seq(Member) : l = Append(Late(s), m)
  <2>1. Append(Late(s), m) \in Seq(Member)
    BY <1>2
  <2>2. QED
    BY <2>1
<1>4. Len(l) = Len(Late(s)) + 1
  BY <1>2, <1>3
<1>5. PICK t : t = Written(s, l)
  OBVIOUS
<1>6. PushBack(s, m) = t
  BY <1>1, <1>3, <1>5 DEF PushBack, Written
<1>7. /\ IsStore(t, n) /\ DOMAIN t.heap = DOMAIN s.heap
      /\ t.ordered = s.ordered /\ t.unordered = s.unordered /\ t.capacity = s.capacity
      /\ t.heap[t.unordered] = l /\ OnlyChanged(t.unordered, s, t)
  BY <1>1, <1>5, WrittenIs
<1>8. /\ Sorting(t.heap, k) /\ Sorting(t.heap, t.ordered)
      /\ k # Null => t.heap[k] = s.heap[k]
      /\ t.ordered # Null => t.heap[t.ordered] = s.heap[s.ordered]
  <2>1. \A q : Sorting(s.heap, q) /\ q # t.unordered => Sorting(t.heap, q) /\ Kept(q, s, t)
    BY <1>7, StillSorting
  <2>2. QED
    BY <2>1, <1>1, <1>7 DEF Kept
<1>9. Len(t.heap[t.unordered]) <= t.capacity
  <2>1. Len(Late(s)) \in Nat /\ Len(Late(s)) < s.capacity
    BY <1>1, <1>2
  <2>2. QED
    BY <2>1, <1>1, <1>4, <1>7
<1>10. Sound(t, k, n)
  BY <1>1, <1>7, <1>8, <1>9 DEF Sound
<1>11. Early(t) = Early(s) /\ Late(t) = l
  BY <1>1, <1>7, <1>8 DEF Early, Late
<1>12. ASSUME NEW x \in Key
       PROVE  Changes(t)[x] = IF x = m.key THEN m.value ELSE Changes(s)[x]
  <2>1. /\ Changes(s)[x] = IF Absent(Late(s), x) THEN ByName(Early(s), Unchanged)[x]
                           ELSE ByName(Late(s), Unchanged)[x]
        /\ Changes(t)[x] = IF Absent(l, x) THEN ByName(Early(s), Unchanged)[x]
                           ELSE ByName(l, Unchanged)[x]
    BY <1>10, <1>11, ChangesAre DEF Changes
  <2>2. ByName(l, Unchanged)[x] = IF x = m.key THEN m.value ELSE ByName(Late(s), Unchanged)[x]
    BY <1>2, <1>3, FindsAppended
  <2>3. Absent(l, x) <=> Absent(Late(s), x) /\ x # m.key
    <3>1. \A i \in 1 .. Len(Late(s)) : l[i] = Late(s)[i] /\ i \in 1 .. Len(l)
      BY <1>2, <1>3, <1>4
    <3>2. Len(l) \in 1 .. Len(l) /\ l[Len(l)] = m
      BY <1>2, <1>3, <1>4
    <3>3. \A i \in 1 .. Len(l) : i \in 1 .. Len(Late(s)) \/ i = Len(l)
      BY <1>2, <1>4
    <3>4. QED
      BY <3>1, <3>2, <3>3 DEF Absent
  <2>4. QED
    BY <2>1, <2>2, <2>3
<1>13. Changes(t) = [Changes(s) EXCEPT ![m.key] = m.value]
  <2>1. m.key \in Key
    BY MemberIs
  <2>2. Changes(t) = [x \in Key |-> Changes(t)[x]] /\ Changes(s) = [x \in Key |-> Changes(s)[x]]
    BY DEF Changes, ByName
  <2>3. QED
    BY <2>1, <2>2, <1>12
<1>14. QED
  BY <1>1, <1>6, <1>7, <1>8, <1>10, <1>13 DEF Kept

\* set_internal: one change more, and none is lost.
LEMMA PushedIs ==
  ASSUME NEW n \in 0 .. 2, NEW s, NEW k, Sound(s, k, n), NEW m \in Member
  PROVE  /\ Sound(Pushed(s, m), k, n + 2) /\ Kept(k, s, Pushed(s, m))
         /\ Changes(Pushed(s, m)) = [Changes(s) EXCEPT ![m.key] = m.value]
<1>0. n \in Nat /\ n \in 0 .. 3 /\ n + 1 \in 0 .. 3 /\ n + 1 \in Nat
  OBVIOUS
<1>1. PICK n1 \in 0 .. 3 : n1 = n + 1
  BY <1>0
<1>2. PICK n2 \in Nat : n2 = n + 2 /\ n2 = n1 + 1
  BY <1>1
<1>3. InitialCapacity \in Nat \ {0}
  BY ObjectAssumption
<1>4. CASE s.unordered = Null
  <2> DEFINE room == IF s.ordered = Null THEN InitialCapacity ELSE Len(s.heap[s.ordered])
  <2>1. room \in Nat \ {0} /\ (s.ordered = Null => room <= InitialCapacity)
    <3>1. CASE s.ordered = Null
      BY <3>1, <1>3
    <3>2. CASE s.ordered # Null
      <4>1. Early(s) = s.heap[s.ordered]
        BY <3>2 DEF Early
      <4>2. Early(s) \in Seq(Member) /\ Early(s) # <<>>
        BY <3>2, ListsAre
      <4>3. Len(Early(s)) \in Nat /\ Len(Early(s)) # 0
        BY <4>2
      <4>4. QED
        BY <3>2, <4>1, <4>3
    <3>3. QED
      BY <3>1, <3>2
  <2> HIDE DEF room
  <2>2. Late(s) = <<>>
    BY <1>4 DEF Late
  <2>3. PICK t : t = Allocate(s, <<>>, room)
    OBVIOUS
  <2>4. /\ Sound(t, k, n1) /\ Kept(k, s, t) /\ Changes(t) = Changes(s)
        /\ t.unordered # Null /\ t.capacity = room /\ t.heap[t.unordered] = <<>>
    BY <2>1, <2>2, <2>3, <1>0, <1>1, EmptyIs
  <2>5. Len(t.heap[t.unordered]) = 0 /\ 0 < t.capacity
    BY <2>1, <2>4
  <2>6. Pushed(s, m) = PushBack(t, m)
    BY <1>4, <2>3, <2>5 DEF Pushed, room
  <2>7. /\ Sound(PushBack(t, m), k, n1) /\ Kept(k, t, PushBack(t, m))
        /\ Changes(PushBack(t, m)) = [Changes(t) EXCEPT ![m.key] = m.value]
    BY <2>4, <2>5, <1>1, PushBackIs
  <2>8. Sound(PushBack(t, m), k, n2)
    BY <2>7, <1>1, <1>2, StillSound
  <2>9. QED
    BY <2>4, <2>6, <2>7, <2>8, <1>2 DEF Kept
<1>5. CASE s.unordered # Null
  <2>1. /\ Late(s) = s.heap[s.unordered] /\ s.capacity \in Nat /\ s.capacity # 0
        /\ Len(Late(s)) <= s.capacity
    BY <1>5 DEF Sound, Late, IsStore, Stores
  <2>2. Late(s) \in Seq(Member) /\ Len(Late(s)) \in Nat
    BY ListsAre
  <2>3. CASE Len(Late(s)) < s.capacity
    <3>1. Pushed(s, m) = PushBack(s, m)
      BY <1>5, <2>1, <2>3 DEF Pushed
    <3>2. /\ Sound(PushBack(s, m), k, n) /\ Kept(k, s, PushBack(s, m))
          /\ Changes(PushBack(s, m)) = [Changes(s) EXCEPT ![m.key] = m.value]
      BY <2>1, <2>3, <1>0, <1>5, PushBackIs
    <3>3. Sound(PushBack(s, m), k, n2)
      <4>1. Sound(PushBack(s, m), k, n1)
        BY <3>2, <1>0, <1>1, StillSound
      <4>2. QED
        BY <4>1, <1>1, <1>2, StillSound
    <3>4. QED
      BY <3>1, <3>2, <3>3, <1>2
  <2>4. CASE ~(Len(Late(s)) < s.capacity)
    <3>1. Late(s) # <<>>
      BY <2>1, <2>2, <2>4
    <3>2. PICK t : t = Optimized(s)
      OBVIOUS
    <3>3. /\ Sound(t, k, n1) /\ Kept(k, s, t) /\ Changes(t) = Changes(s) /\ Late(t) = <<>>
          /\ t.ordered # Null
      BY <3>1, <3>2, <1>0, <1>1, OptimizedIs DEF Optimizes
    <3>4. PICK room \in Nat \ {0} : room = Len(Late(s)) * 2
      BY <2>1, <2>2, <2>4
    <3>5. PICK u : u = Allocate(t, <<>>, room)
      OBVIOUS
    <3>6. /\ Sound(u, k, n2) /\ Kept(k, t, u) /\ Changes(u) = Changes(t)
          /\ u.unordered # Null /\ u.capacity = room /\ u.heap[u.unordered] = <<>>
      BY <3>3, <3>4, <3>5, <1>1, <1>2, EmptyIs
    <3>7. Len(u.heap[u.unordered]) = 0 /\ 0 < u.capacity
      BY <3>4, <3>6
    <3>8. Pushed(s, m) = PushBack(u, m)
      BY <1>5, <2>1, <2>4, <3>2, <3>4, <3>5 DEF Pushed
    <3>9. /\ Sound(PushBack(u, m), k, n2) /\ Kept(k, u, PushBack(u, m))
          /\ Changes(PushBack(u, m)) = [Changes(u) EXCEPT ![m.key] = m.value]
      BY <3>6, <3>7, <1>2, PushBackIs
    <3>10. QED
      BY <3>3, <3>6, <3>8, <3>9, <1>2 DEF Kept
  <2>5. QED
    BY <2>3, <2>4
<1>6. QED
  BY <1>4, <1>5

-----------------------------------------------------------------------------
(* Between two calls *)

\* A container gets the number of the first that refers to it.
Numbers(number, holders) ==
  number = [i \in 1 .. 3 |-> IF holders[i] = Null THEN Null
                             ELSE Min({j \in 1 .. 3 : holders[j] = holders[i]})]

\* Different containers get different numbers, and the same one the same.
LEMMA NumberIs ==
  ASSUME NEW holders, NEW number, Numbers(number, holders)
  PROVE  /\ \A i \in 1 .. 3 : /\ number[i] \in 0 .. 3
                              /\ number[i] = Null <=> holders[i] = Null
                              /\ number[i] # Null => holders[number[i]] = holders[i]
         /\ ToSet(number) = {number[1], number[2], number[3]}
<1>1. ASSUME NEW i \in 1 .. 3
      PROVE  /\ number[i] \in 0 .. 3
             /\ number[i] = Null <=> holders[i] = Null
             /\ number[i] # Null => holders[number[i]] = holders[i]
  <2> DEFINE T == {j \in 1 .. 3 : holders[j] = holders[i]}
  <2>1. T \subseteq Nat /\ T # {}
    OBVIOUS
  <2>2. Min(T) \in T
    BY <2>1, MinIs
  <2>3. number[i] = IF holders[i] = Null THEN Null ELSE Min(T)
    BY DEF Numbers
  <2>4. Min(T) \in 1 .. 3 /\ holders[Min(T)] = holders[i]
    BY <2>2
  <2> HIDE DEF T
  <2>5. QED
    BY <2>3, <2>4 DEF Null
<1>2. DOMAIN number = 1 .. 3
  BY DEF Numbers
<1>3. 1 .. 3 = {1, 2, 3}
  OBVIOUS
<1>4. ToSet(number) = {number[1], number[2], number[3]}
  BY <1>2, <1>3 DEF ToSet
<1>5. QED
  BY <1>1, <1>4

\* What is referred to by none, ordered, unordered and k, and what each has.
Settled(s, t, k, kept2) ==
  /\ Sound(t, kept2, 0)
  /\ DOMAIN t.heap = {t.ordered, t.unordered, kept2} \ {Null}
  /\ Early(t) = Early(s) /\ Late(t) = Late(s)
  /\ kept2 = Null <=> k = Null
  /\ k # Null => t.heap[kept2] = s.heap[k]

\* Renaming the containers and freeing the others is such a step.
LEMMA SettledIs ==
  ASSUME NEW n, NEW s, NEW k, Sound(s, k, n), NEW o2, NEW u2, NEW k2, NEW h2,
         NEW holders, holders = <<s.ordered, s.unordered, k>>,
         NEW number, Numbers(number, holders), o2 = number[1], u2 = number[2], k2 = number[3],
         h2 = [i \in ToSet(number) \ {Null} |-> s.heap[holders[i]]]
  PROVE  Settled(s, [ordered |-> o2, unordered |-> u2, capacity |-> s.capacity, heap |-> h2],
                 k, k2)
<1>1. /\ \A i \in 1 .. 3 : /\ number[i] \in 0 .. 3
                           /\ number[i] = Null <=> holders[i] = Null
                           /\ number[i] # Null => holders[number[i]] = holders[i]
      /\ ToSet(number) = {number[1], number[2], number[3]}
  BY NumberIs
<1>2. holders[1] = s.ordered /\ holders[2] = s.unordered /\ holders[3] = k
  OBVIOUS
<1>3. /\ \A i \in {o2, u2, k2} \ {Null} : h2[i] = s.heap[holders[i]]
      /\ DOMAIN h2 = {o2, u2, k2} \ {Null}
  BY <1>1
<1>4. /\ o2 \in 0 .. 3 /\ u2 \in 0 .. 3 /\ k2 \in 0 .. 3
      /\ o2 = Null <=> s.ordered = Null
      /\ u2 = Null <=> s.unordered = Null
      /\ k2 = Null <=> k = Null
      /\ o2 # Null => holders[o2] = s.ordered
      /\ u2 # Null => holders[u2] = s.unordered
      /\ k2 # Null => holders[k2] = k
  BY <1>1, <1>2
<1>5. /\ o2 # Null => h2[o2] = s.heap[s.ordered]
      /\ u2 # Null => h2[u2] = s.heap[s.unordered]
      /\ k2 # Null => h2[k2] = s.heap[k]
  <2>1. \A i : i \in {o2, u2, k2} /\ i # Null => h2[i] = s.heap[holders[i]]
    BY <1>3
  <2>2. o2 # Null => h2[o2] = s.heap[s.ordered]
    BY <2>1, <1>4
  <2>3. u2 # Null => h2[u2] = s.heap[s.unordered]
    BY <2>1, <1>4
  <2>4. k2 # Null => h2[k2] = s.heap[k]
    BY <2>1, <1>4
  <2>5. QED
    BY <2>2, <2>3, <2>4
<1>6. s.heap \in Heaps /\ s.capacity \in Nat
  BY DEF Sound, IsStore, Stores
<1>7. \A r \in DOMAIN s.heap : s.heap[r] \in Seq(Member)
  BY <1>6, HeapIs
<1>8. /\ s.ordered # Null => s.ordered \in DOMAIN s.heap /\ InOrder(s.heap[s.ordered])
                             /\ s.heap[s.ordered] # <<>>
      /\ k # Null => k \in DOMAIN s.heap /\ InOrder(s.heap[k]) /\ s.heap[k] # <<>>
      /\ s.unordered # Null =>
           /\ s.unordered \in DOMAIN s.heap /\ s.unordered # s.ordered /\ s.unordered # k
           /\ Len(s.heap[s.unordered]) <= s.capacity /\ s.capacity # 0
           /\ s.ordered = Null => s.capacity <= InitialCapacity
  BY DEF Sound, Sorting
<1>9. ASSUME NEW i \in DOMAIN h2 PROVE h2[i] \in Seq(Member)
  <2>1. (i = o2 \/ i = u2 \/ i = k2) /\ i # Null
    BY <1>3, <1>9
  <2>2. CASE i = o2
    BY <2>1, <2>2, <1>4, <1>5, <1>7, <1>8
  <2>3. CASE i = u2
    BY <2>1, <2>3, <1>4, <1>5, <1>7, <1>8
  <2>4. CASE i = k2
    BY <2>1, <2>4, <1>4, <1>5, <1>7, <1>8
  <2>5. QED
    BY <2>1, <2>2, <2>3, <2>4
<1>10. DOMAIN h2 \subseteq 1 .. 7 /\ DOMAIN h2 \subseteq 1 .. 3 + 0
  <2>1. ASSUME NEW i \in DOMAIN h2 PROVE i \in 1 .. 3
    <3>1. (i = o2 \/ i = u2 \/ i = k2) /\ i # Null
      BY <1>3, <2>1
    <3>2. i \in 0 .. 3 /\ i # 0
      BY <3>1, <1>4 DEF Null
    <3>3. QED
      BY <3>2
  <2>2. QED
    BY <2>1
<1>11. h2 \in Heaps
  <2>1. h2 = [i \in DOMAIN h2 |-> h2[i]]
    OBVIOUS
  <2>2. h2 \in [DOMAIN h2 -> Seq(Member)]
    BY <1>9, <2>1
  <2>3. QED
    BY <2>2, <1>10, HeapIs
<1>12. PICK t : t = [ordered |-> o2, unordered |-> u2, capacity |-> s.capacity, heap |-> h2]
  OBVIOUS
<1>13. t.ordered = o2 /\ t.unordered = u2 /\ t.capacity = s.capacity /\ t.heap = h2
  BY <1>12
<1>14. IsStore(t, 0)
  <2>1. o2 \in Nat /\ u2 \in Nat
    BY <1>4
  <2>2. t \in Stores
    BY <2>1, <1>6, <1>11, <1>12 DEF Stores
  <2>3. QED
    BY <2>2, <1>10, <1>13 DEF IsStore
<1>15. /\ o2 # Null => o2 \in DOMAIN h2
       /\ u2 # Null => u2 \in DOMAIN h2
       /\ k2 # Null => k2 \in DOMAIN h2
  BY <1>3
<1>16. Sorting(h2, o2) /\ Sorting(h2, k2)
  BY <1>4, <1>5, <1>8, <1>15 DEF Sorting
<1>17. u2 # Null => u2 # o2 /\ u2 # k2
  BY <1>4, <1>8
<1>18. Sound(t, k2, 0)
  BY <1>4, <1>5, <1>8, <1>13, <1>14, <1>15, <1>16, <1>17 DEF Sound
<1>19. Early(t) = Early(s) /\ Late(t) = Late(s)
  BY <1>4, <1>5, <1>13 DEF Early, Late
<1>20. Settled(s, t, k, k2)
  BY <1>3, <1>4, <1>5, <1>13, <1>18, <1>19 DEF Settled
<1>21. QED
  BY <1>12, <1>20

\* The state after a call.
LEMMA BecomesIs ==
  ASSUME NEW n, NEW s, NEW k, Sound(s, k, n), Becomes(s, k)
  PROVE  Settled(s, Containers', k, kept')
<1> DEFINE holders == <<s.ordered, s.unordered, k>>
           number  == [i \in 1 .. 3 |-> IF holders[i] = Null THEN Null
                                        ELSE Min({j \in 1 .. 3 : holders[j] = holders[i]})]
<1>1. /\ ordered' = number[1] /\ unordered' = number[2] /\ kept' = number[3]
      /\ heap' = [i \in ToSet(number) \ {Null} |-> s.heap[holders[i]]]
      /\ capacity' = s.capacity
  BY DEF Becomes
<1>2. PICK o2, u2, k2, h2 : o2 = ordered' /\ u2 = unordered' /\ k2 = kept' /\ h2 = heap'
  OBVIOUS
<1>3. PICK num, all : num = number /\ all = holders
  OBVIOUS
<1>6. Numbers(num, all)
  BY <1>3 DEF Numbers
<1> HIDE DEF number
<1>4. Settled(s, [ordered |-> o2, unordered |-> u2, capacity |-> s.capacity, heap |-> h2], k, k2)
  <2>1. /\ o2 = num[1] /\ u2 = num[2] /\ k2 = num[3]
        /\ h2 = [i \in ToSet(num) \ {Null} |-> s.heap[all[i]]]
    BY <1>1, <1>2, <1>3
  <2>2. QED
    BY <2>1, <1>3, <1>6, SettledIs
<1>5. Containers' = [ordered |-> o2, unordered |-> u2, capacity |-> s.capacity, heap |-> h2]
  BY <1>1, <1>2 DEF Containers
<1>7. QED
  BY <1>2, <1>4, <1>5

-----------------------------------------------------------------------------
(* Answers *)

IsBase(b) == b = NotObject \/ ProperObject(b)

\* The value with the changes applied.
Applied(b, c) ==
  IF c = [k \in Key |-> Unchanged] THEN b
  ELSE [k \in Key |-> IF c[k] # Unchanged THEN c[k]
                      ELSE IF b = NotObject THEN Undefined ELSE b[k]]

\* Members that have values, and no others, are selected.
LEMMA WithValuesType ==
  ASSUME NEW s \in Seq(Member)
  PROVE  WithValues(s) \in Seq(Member) /\ \A i \in 1 .. Len(WithValues(s)) : Defined(WithValues(s)[i])
<1>1. PICK t \in Seq(Member) : t = WithValues(s)
  BY SelectedType DEF WithValues
<1>2. PICK g : Placed(g, t, s, Len(s), {i \in DOMAIN s : Defined(s[i])})
  BY <1>1, SelectedPlaces DEF WithValues
<1>3. ASSUME NEW i \in 1 .. Len(t) PROVE Defined(t[i])
  BY <1>2 DEF Placed
<1>4. QED
  BY <1>1, <1>3

\* The values that an Object starts from.
LEMMA BasesAre ==
  ASSUME NEW b \in Bases
  PROVE  IsBase(b)
<1>1. CASE b = NotObject
  BY <1>1 DEF IsBase
<1>2. CASE b # NotObject
  <2>1. PICK fields \in Fields : b = Construct(fields)
    BY <1>2 DEF Bases
  <2>2. fields \in Seq(Member)
    BY <2>1, ObjectAssumption
  <2>3. PICK s \in Seq(Member) : s = WithValues(fields) /\ \A i \in 1 .. Len(s) : Defined(s[i])
    BY <2>2, WithValuesType
  <2>4. b = Sorted(s)
    BY <2>1, <2>3 DEF Construct
  <2>5. /\ b \in Seq(Member) /\ InOrder(b)
        /\ \A i \in 1 .. Len(b) : \E p : LastAt(s, b[i].key, p) /\ b[i] = s[p]
    BY <2>3, <2>4, SortedIs
  <2>6. \A i \in 1 .. Len(b) : Defined(b[i])
    BY <2>3, <2>5 DEF LastAt
  <2>7. QED
    BY <2>5, <2>6, DomainIs DEF IsBase, ProperObject
<1>3. QED
  BY <1>1, <1>2

\* An object is told from what is not one.
LEMMA ObjectIs ==
  ASSUME NEW s \in Seq(Member)
  PROVE  /\ s # NotObject /\ AsFunction(s) = ByName(s, Undefined) /\ AsFunction(s) # NotObject
<1>1. s # NotObject
  BY ObjectAssumption
<1>2. AsFunction(s) = ByName(s, Undefined)
  BY <1>1 DEF AsFunction
<1>3. ByName(s, Undefined) \in [Key -> Val \cup {Undefined}]
  <2>1. ASSUME NEW k \in Key PROVE ByName(s, Undefined)[k] \in Val \cup {Undefined}
    BY FoundType
  <2>2. ByName(s, Undefined) = [k \in Key |-> ByName(s, Undefined)[k]]
    BY DEF ByName
  <2>3. QED
    BY <2>1, <2>2
<1>4. QED
  BY <1>1, <1>2, <1>3, ObjectAssumption

\* In the list without members every name is absent.
LEMMA NoMembers ==
  /\ <<>> \in Seq(Member) /\ ProperObject(<<>>) /\ \A k \in Key : Absent(<<>>, k)
  /\ \A k \in Key : \A missing : ByName(<<>>, missing)[k] = missing
<1>1. PICK s \in Seq(Member) : s = <<>>
  <2>1. <<>> \in Seq(Member)
    OBVIOUS
  <2>2. QED
    BY <2>1
<1>2. Len(s) = 0
  BY <1>1
<1>3. DOMAIN s = 1 .. 0
  BY <1>2, DomainIs
<1>4. ProperObject(s)
  BY <1>3 DEF ProperObject, InOrder
<1>5. \A k \in Key : Absent(s, k)
  BY <1>2 DEF Absent
<1>6. \A k \in Key : \A missing : ByName(s, missing)[k] = missing
  BY <1>5, FindsNone
<1>7. QED
  BY <1>1, <1>4, <1>5, <1>6

\* commit(): the base with the changes applied, as an object every reader expects.
LEMMA CommittedIs ==
  ASSUME NEW n, NEW s, NEW k, Sound(s, k, n), Late(s) = <<>>, IsBase(base)
  PROVE  /\ IsBase(Committed(s))
         /\ AsFunction(Committed(s)) = Applied(AsFunction(base), Changes(s))
<1>1. /\ Early(s) \in Seq(Member) /\ InOrder(Early(s)) /\ (s.ordered # Null => Early(s) # <<>>)
  BY ListsAre
<1>2. ASSUME NEW x \in Key
      PROVE  Changes(s)[x] = ByName(Early(s), Unchanged)[x]
  BY <1>2, ChangesAre, NoMembers DEF Changes
<1>3. Changes(s) = [x \in Key |-> Changes(s)[x]]
  BY DEF Changes, ByName
<1>4. CASE s.ordered = Null
  <2>1. Committed(s) = base /\ Early(s) = <<>>
    BY <1>4 DEF Committed, Early
  <2>2. \A x \in Key : Changes(s)[x] = Unchanged
    BY <2>1, <1>2, NoMembers
  <2>3. Changes(s) = [x \in Key |-> Unchanged]
    BY <2>2, <1>3
  <2>4. QED
    BY <2>1, <2>3 DEF Applied
<1>5. CASE s.ordered # Null
  <2>1. PICK back : back = IF base = NotObject THEN <<>> ELSE base
    OBVIOUS
  <2>2. back \in Seq(Member) /\ InOrder(back)
    BY <2>1, NoMembers DEF IsBase, ProperObject
  <2>3. Early(s) = s.heap[s.ordered]
    BY <1>5 DEF Early
  <2>4. PICK m \in Seq(Member) :
          /\ m = MergeObjectsDiff(back, Early(s)) /\ InOrder(m)
          /\ \A x \in Key :
               ByName(m, Undefined)[x] = IF Absent(Early(s), x) THEN ByName(back, Undefined)[x]
                                         ELSE ByName(Early(s), Undefined)[x]
    <3>1. 1 \in Key
      BY ObjectAssumption DEF Key
    <3>2. QED
      BY <3>1, <1>1, <2>2, MergeFinds
  <2>5. PICK c : c = Committed(s)
    OBVIOUS
  <2>6. c = WithValues(m)
    BY <2>1, <2>3, <2>4, <2>5, <1>5 DEF Committed, MergeObjects
  <2>7. ProperObject(c) /\ ByName(c, Undefined) = ByName(m, Undefined)
    BY <2>4, <2>6, WithValuesIs
  <2>8. AsFunction(c) = ByName(m, Undefined)
    <3>1. c \in Seq(Member)
      BY <2>7 DEF ProperObject
    <3>2. QED
      BY <3>1, <2>7, ObjectIs
  <2>9. Changes(s) # [x \in Key |-> Unchanged]
    <3>1. PICK x \in Key : ~Absent(Early(s), x)
      BY <1>1, <1>5, NotEmpty
    <3>2. ByName(Early(s), Unchanged)[x] \in Val \cup {Undefined}
      BY <3>1, <1>1, FoundType
    <3>3. Changes(s)[x] # Unchanged
      BY <3>2, <1>2, ObjectAssumption
    <3>4. QED
      BY <3>3
  <2>10. ASSUME NEW x \in Key
         PROVE  ByName(m, Undefined)[x] =
                  IF Changes(s)[x] # Unchanged THEN Changes(s)[x]
                  ELSE IF AsFunction(base) = NotObject THEN Undefined ELSE AsFunction(base)[x]
    <3>1. CASE Absent(Early(s), x)
      <4>1. Changes(s)[x] = Unchanged
        BY <3>1, <1>1, <1>2, FindsNone
      <4>2. ByName(back, Undefined)[x] = IF AsFunction(base) = NotObject THEN Undefined
                                         ELSE AsFunction(base)[x]
        <5>1. CASE base = NotObject
          BY <5>1, <2>1, NoMembers DEF AsFunction
        <5>2. CASE base # NotObject
          <6>1. base \in Seq(Member)
            BY <5>2 DEF IsBase, ProperObject
          <6>2. QED
            BY <6>1, <5>2, <2>1, ObjectIs
        <5>3. QED
          BY <5>1, <5>2
      <4>3. QED
        BY <3>1, <4>1, <4>2, <2>4
    <3>2. CASE ~Absent(Early(s), x)
      <4>1. ByName(Early(s), Unchanged)[x] \in Val \cup {Undefined}
        BY <3>2, <1>1, FoundType
      <4>2. ByName(Early(s), Unchanged)[x] = ByName(Early(s), Undefined)[x]
        BY <3>2, <1>1, FoundAlike
      <4>3. QED
        BY <3>2, <4>1, <4>2, <1>2, <2>4, ObjectAssumption
    <3>3. QED
      BY <3>1, <3>2
  <2>11. ByName(m, Undefined) = [x \in Key |-> ByName(m, Undefined)[x]]
    BY DEF ByName
  <2>12. AsFunction(c) = Applied(AsFunction(base), Changes(s))
    BY <2>8, <2>9, <2>10, <2>11 DEF Applied
  <2>13. QED
    BY <2>5, <2>7, <2>12 DEF IsBase
<1>6. QED
  BY <1>4, <1>5

\* operator[]: the last change of the member, or else what the base has.
LEMMA FoundIs ==
  ASSUME NEW n, NEW j, Sound(AfterLookup, j, n), IsBase(base), NEW k \in Key
  PROVE  Found(k) = IF Changes(AfterLookup)[k] # Unchanged THEN Changes(AfterLookup)[k]
                    ELSE IF AsFunction(base) = NotObject THEN Undefined ELSE AsFunction(base)[k]
<1>1. PICK s : s = AfterLookup
  OBVIOUS
<1>2. Sound(s, j, n)
  BY <1>1
<1>3. /\ Early(s) \in Seq(Member) /\ InOrder(Early(s)) /\ Late(s) \in Seq(Member)
  BY <1>2, ListsAre
<1>4. Changes(s)[k] = IF Absent(Late(s), k) THEN ByName(Early(s), Unchanged)[k]
                      ELSE ByName(Late(s), Unchanged)[k]
  BY <1>2, ChangesAre DEF Changes
<1> DEFINE late == IF s.unordered = Null THEN {}
                   ELSE {i \in DOMAIN s.heap[s.unordered] : s.heap[s.unordered][i].key = k}
<1>5. Found(k) = IF late # {} THEN s.heap[s.unordered][Max(late)].value
                 ELSE IF FindSorted(Early(s), k) # Null THEN Get(Early(s), k)
                 ELSE IF base = NotObject THEN Undefined ELSE Get(base, k)
  BY <1>1 DEF Found, Early
<1>6. late = IF s.unordered = Null THEN {} ELSE {i \in DOMAIN Late(s) : Late(s)[i].key = k}
  BY DEF Late
<1> HIDE DEF late
<1>7. CASE ~Absent(Late(s), k)
  <2>1. PICK p : LastAt(Late(s), k, p)
    BY <1>3, <1>7, LastExists
  <2>2. s.unordered # Null /\ Late(s) = s.heap[s.unordered]
    BY <1>7, NoMembers DEF Late
  <2>3. late # {} /\ Max(late) = p
    BY <2>1, <2>2, <1>3, <1>6, LastIsMax
  <2>4. ByName(Late(s), Unchanged)[k] = Late(s)[p].value
    BY <2>1, <1>3, FindsLast
  <2>5. ByName(Late(s), Unchanged)[k] \in Val \cup {Undefined}
    BY <1>3, <1>7, FoundType
  <2>6. QED
    BY <2>2, <2>3, <2>4, <2>5, <1>1, <1>4, <1>5, <1>7, ObjectAssumption
<1>8. CASE Absent(Late(s), k)
  <2>1. late = {}
    <3>1. {i \in DOMAIN Late(s) : Late(s)[i].key = k} = {}
      BY <1>3, <1>8, DomainIs DEF Absent
    <3>2. QED
      BY <3>1, <1>6
  <2>2. CASE ~Absent(Early(s), k)
    <3>1. FindSorted(Early(s), k) # Null
      BY <1>3, <2>2, FindsSorted
    <3>2. Get(Early(s), k) = ByName(Early(s), Undefined)[k]
      BY <1>3, Gets
    <3>3. ByName(Early(s), Unchanged)[k] = ByName(Early(s), Undefined)[k]
      BY <1>3, <2>2, FoundAlike
    <3>4. ByName(Early(s), Unchanged)[k] \in Val \cup {Undefined}
      BY <1>3, <2>2, FoundType
    <3>5. QED
      BY <3>1, <3>2, <3>3, <3>4, <2>1, <1>1, <1>4, <1>5, <1>8, ObjectAssumption
  <2>3. CASE Absent(Early(s), k)
    <3>1. FindSorted(Early(s), k) = Null
      BY <1>3, <2>3, FindsSorted DEF LastAt, Absent
    <3>2. Changes(s)[k] = Unchanged
      BY <1>3, <1>4, <1>8, <2>3, FindsNone
    <3>3. CASE base = NotObject
      BY <3>1, <3>2, <3>3, <2>1, <1>1, <1>5 DEF AsFunction
    <3>4. CASE base # NotObject
      <4>1. base \in Seq(Member) /\ InOrder(base)
        BY <3>4 DEF IsBase, ProperObject
      <4>2. Get(base, k) = AsFunction(base)[k] /\ AsFunction(base) # NotObject
        BY <4>1, Gets, ObjectIs
      <4>3. QED
        BY <3>1, <3>2, <3>4, <4>2, <2>1, <1>1, <1>5
    <3>5. QED
      BY <3>3, <3>4
  <2>4. QED
    BY <2>2, <2>3
<1>9. QED
  BY <1>7, <1>8

-----------------------------------------------------------------------------
(* Methods *)

\* What the changes are, and those that are kept.
Diff == Changes(Containers)
HeldBy(s, k) == IF k = Null THEN <<>> ELSE s.heap[k]
KeptDiff == ByName(HeldBy(Containers, kept), Unchanged)
NoDiff == [k \in Key |-> Unchanged]

\* The containers between two calls: nothing is referred to that is not there,
\* and nothing is there that is not referred to.
Tidy(s, k) == Sound(s, k, 0) /\ DOMAIN s.heap = {s.ordered, s.unordered, k} \ {Null}

\* What a call does to the changes and to those that are kept.
Makes(diff, keptDiff) ==
  /\ Tidy(Containers', kept') /\ Changes(Containers') = diff
  /\ ByName(HeldBy(Containers', kept'), Unchanged) = keptDiff

\* A call that leaves the containers of s makes the changes that s has.
LEMMA MakesIs ==
  ASSUME NEW n, NEW s, NEW k, Sound(s, k, n), Becomes(s, k)
  PROVE  Makes(Changes(s), ByName(HeldBy(s, k), Unchanged))
<1>1. Settled(s, Containers', k, kept')
  BY BecomesIs
<1>2. Tidy(Containers', kept')
  BY <1>1 DEF Settled, Tidy
<1>3. Changes(Containers') = Changes(s)
  BY <1>1 DEF Settled, Changes
<1>4. HeldBy(Containers', kept') = HeldBy(s, k)
  BY <1>1 DEF Settled, HeldBy
<1>5. QED
  BY <1>2, <1>3, <1>4 DEF Makes

\* What is kept and left alone has the same members.
LEMMA HeldIs ==
  ASSUME NEW s, NEW t, NEW k, Kept(k, s, t)
  PROVE  HeldBy(t, k) = HeldBy(s, k)
BY DEF Kept, HeldBy

\* Changes are a function of the names.
LEMMA DiffIs ==
  ASSUME NEW s, NEW c, c = Changes(s)
  PROVE  c = [x \in Key |-> c[x]]
BY DEF Changes, ByName

\* set and unset.
LEMMA SetMakes ==
  ASSUME Tidy(Containers, kept), NEW k \in Key, NEW v \in Val \cup {Undefined},
         Set(k, v) \/ SetNamed(k, v)
  PROVE  Makes([Diff EXCEPT ![k] = v], KeptDiff)
<1>1. PICK m \in Member : m = [key |-> k, value |-> v]
  BY DEF Member
<1>2. m.key = k /\ m.value = v
  BY <1>1
<1>3. PICK s : s = Containers
  OBVIOUS
<1>4. PICK j : j = kept
  OBVIOUS
<1>5. Sound(s, j, 0) /\ 0 \in 0 .. 2 /\ 0 + 2 \in 0 .. 2
  BY <1>3, <1>4 DEF Tidy
<1>6. PICK t : t = Pushed(s, m)
  OBVIOUS
<1>7. Sound(t, j, 2) /\ Kept(j, s, t) /\ Changes(t) = [Changes(s) EXCEPT ![k] = v]
  <2>1. Sound(t, j, 0 + 2) /\ Kept(j, s, t) /\ Changes(t) = [Changes(s) EXCEPT ![m.key] = m.value]
    BY <1>5, <1>6, PushedIs
  <2>2. QED
    BY <2>1, <1>2
<1>8. HeldBy(t, j) = HeldBy(s, j)
  BY <1>7, HeldIs
<1>9. CASE Set(k, v)
  <2>1. Becomes(t, j)
    BY <1>1, <1>3, <1>4, <1>6, <1>9 DEF Set
  <2>2. Makes(Changes(t), ByName(HeldBy(t, j), Unchanged))
    BY <2>1, <1>7, MakesIs
  <2>3. QED
    BY <2>2, <1>3, <1>4, <1>7, <1>8 DEF Diff, KeptDiff
<1>10. CASE SetNamed(k, v)
  <2>1. PICK u : u = Pushed(t, m)
    OBVIOUS
  <2>2. Becomes(u, j)
    BY <2>1, <1>1, <1>3, <1>4, <1>6, <1>10 DEF SetNamed
  <2>3. Sound(u, j, 4) /\ Kept(j, t, u) /\ Changes(u) = [Changes(t) EXCEPT ![k] = v]
    <3>1. PICK two \in 0 .. 2 : two = 2
      OBVIOUS
    <3>2. Sound(u, j, two + 2) /\ Kept(j, t, u) /\ Changes(u) = [Changes(t) EXCEPT ![m.key] = m.value]
      <4>1. Sound(t, j, two) /\ two \in 0 .. 2
        BY <3>1, <1>7
      <4>2. QED
        BY <4>1, <2>1, PushedIs
    <3>3. QED
      BY <3>1, <3>2, <1>2
  <2>4. HeldBy(u, j) = HeldBy(t, j)
    BY <2>3, HeldIs
  <2>5. Changes(u) = [Changes(s) EXCEPT ![k] = v]
    BY <2>3, <1>7
  <2>6. Makes(Changes(u), ByName(HeldBy(u, j), Unchanged))
    BY <2>2, <2>3, MakesIs
  <2>7. QED
    BY <2>4, <2>5, <2>6, <1>3, <1>4, <1>8 DEF Diff, KeptDiff
<1>11. QED
  BY <1>9, <1>10

\* What an optimized Object has.
LEMMA OptimizedHas ==
  ASSUME Tidy(Containers, kept)
  PROVE  /\ Sound(Optimized(Containers), kept, 1) /\ Changes(Optimized(Containers)) = Diff
         /\ HeldBy(Optimized(Containers), kept) = HeldBy(Containers, kept)
         /\ Late(Optimized(Containers)) = <<>>
<1>1. PICK s : s = Containers
  OBVIOUS
<1>2. PICK j : j = kept
  OBVIOUS
<1>3. Sound(s, j, 0) /\ 0 \in 0 .. 3
  BY <1>1, <1>2 DEF Tidy
<1>4. PICK t : t = Optimized(s)
  OBVIOUS
<1>5. Sound(t, j, 0 + 1) /\ Kept(j, s, t) /\ Changes(t) = Changes(s) /\ Late(t) = <<>>
  BY <1>3, <1>4, OptimizedIs DEF Optimizes
<1>6. HeldBy(t, j) = HeldBy(s, j)
  BY <1>5, HeldIs
<1>7. QED
  BY <1>1, <1>2, <1>4, <1>5, <1>6 DEF Diff

\* optimize, begin, and lookups, which may.
LEMMA LookupHas ==
  ASSUME Tidy(Containers, kept)
  PROVE  /\ \E n : Sound(AfterLookup, kept, n)
         /\ Changes(AfterLookup) = Diff /\ HeldBy(AfterLookup, kept) = HeldBy(Containers, kept)
<1>1. CASE ManyUnsorted
  BY <1>1, OptimizedHas DEF AfterLookup
<1>2. CASE ~ManyUnsorted
  <2>1. AfterLookup = Containers
    BY <1>2 DEF AfterLookup
  <2>2. QED
    BY <2>1 DEF Tidy, Diff
<1>3. QED
  BY <1>1, <1>2

\* Lookups, optimize and begin change neither.
LEMMA OptimizeMakes ==
  ASSUME Tidy(Containers, kept), Lookup \/ Optimize \/ Begin
  PROVE  Makes(Diff, KeptDiff)
<1>1. CASE Lookup
  <2>1. PICK n : Sound(AfterLookup, kept, n)
    BY LookupHas
  <2>2. Becomes(AfterLookup, kept)
    BY <1>1 DEF Lookup
  <2>3. Makes(Changes(AfterLookup), ByName(HeldBy(AfterLookup, kept), Unchanged))
    BY <2>1, <2>2, MakesIs
  <2>4. QED
    BY <2>3, LookupHas DEF KeptDiff
<1>2. CASE Optimize \/ Begin
  <2>1. Becomes(Optimized(Containers), kept) /\ Sound(Optimized(Containers), kept, 1)
    BY <1>2, OptimizedHas DEF Optimize, Begin
  <2>2. Makes(Changes(Optimized(Containers)), ByName(HeldBy(Optimized(Containers), kept), Unchanged))
    BY <2>1, MakesIs
  <2>3. QED
    BY <2>2, OptimizedHas DEF KeptDiff
<1>3. QED
  BY <1>1, <1>2

\* Copies and diff values have the changes made so far.
LEMMA ShareMakes ==
  ASSUME Tidy(Containers, kept), Share
  PROVE  Makes(Diff, Diff)
<1>1. PICK s : s = Optimized(Containers)
  OBVIOUS
<1>2. Sound(s, kept, 1) /\ Changes(s) = Diff /\ Late(s) = <<>>
  BY <1>1, OptimizedHas
<1>3. Sound(s, s.ordered, 1)
  BY <1>2 DEF Sound
<1>4. Becomes(s, s.ordered)
  BY <1>1 DEF Share
<1>5. Makes(Changes(s), ByName(HeldBy(s, s.ordered), Unchanged))
  BY <1>3, <1>4, MakesIs
<1>6. HeldBy(s, s.ordered) = Early(s)
  BY DEF HeldBy, Early
<1>7. ASSUME NEW x \in Key PROVE ByName(Early(s), Unchanged)[x] = Changes(s)[x]
  BY <1>2, <1>3, ChangesAre, NoMembers DEF Changes
<1>8. ByName(Early(s), Unchanged) = Changes(s)
  BY <1>7, SameFunction DEF Changes
<1>9. QED
  BY <1>2, <1>5, <1>6, <1>8

\* No containers of changes, or the kept one for the ordered one.
LEMMA NoChangesHave ==
  ASSUME Tidy(Containers, kept)
  PROVE  /\ Sound(NoChanges, kept, 0) /\ Changes(NoChanges) = NoDiff
         /\ HeldBy(NoChanges, kept) = HeldBy(Containers, kept)
<1>1. PICK s : s = Containers
  OBVIOUS
<1>2. PICK t : t = [s EXCEPT !.ordered = Null, !.unordered = Null, !.capacity = 0]
  OBVIOUS
<1>3. NoChanges = t
  BY <1>1, <1>2 DEF NoChanges
<1>4. s \in Stores /\ DOMAIN s.heap \subseteq 1 .. 3 + 0 /\ Sorting(s.heap, kept)
  BY <1>1 DEF Tidy, Sound, IsStore
<1>5. /\ t \in Stores /\ t.ordered = Null /\ t.unordered = Null /\ t.capacity = 0
      /\ t.heap = s.heap
  BY <1>2, <1>4 DEF Stores, Null
<1>6. Sound(t, kept, 0)
  BY <1>4, <1>5 DEF Sound, IsStore, Sorting
<1>7. Early(t) = <<>> /\ Late(t) = <<>>
  BY <1>5 DEF Early, Late
<1>8. ASSUME NEW x \in Key PROVE Changes(t)[x] = Unchanged
  BY <1>6, <1>7, ChangesAre, NoMembers DEF Changes
<1>9. Changes(t) = NoDiff
  BY <1>8, DiffIs DEF NoDiff
<1>10. HeldBy(t, kept) = HeldBy(s, kept)
  BY <1>5 DEF HeldBy
<1>11. QED
  BY <1>1, <1>3, <1>6, <1>9, <1>10

\* revert and clear drop the changes.
LEMMA RevertMakes ==
  ASSUME Tidy(Containers, kept), Revert \/ Clear
  PROVE  Makes(NoDiff, KeptDiff)
<1>1. Becomes(NoChanges, kept) /\ Sound(NoChanges, kept, 0)
  BY NoChangesHave DEF Revert, Clear
<1>2. Makes(Changes(NoChanges), ByName(HeldBy(NoChanges, kept), Unchanged))
  BY <1>1, MakesIs
<1>3. QED
  BY <1>2, NoChangesHave DEF KeptDiff

\* operator= takes over the changes that are kept.
LEMMA AssignMakes ==
  ASSUME Tidy(Containers, kept), NEW b, Assign(b)
  PROVE  Makes(KeptDiff, KeptDiff) \/ Makes(KeptDiff, NoDiff)
<1>1. PICK k \in {kept, Null} : Becomes([NoChanges EXCEPT !.ordered = kept], k)
  BY DEF Assign
<1>2. PICK s : s = NoChanges
  OBVIOUS
<1>3. PICK j : j = kept
  OBVIOUS
<1>4. PICK t : t = [s EXCEPT !.ordered = j]
  OBVIOUS
<1>5. Becomes(t, k)
  BY <1>1, <1>2, <1>3, <1>4
<1>6. Sound(s, j, 0) /\ HeldBy(s, j) = HeldBy(Containers, kept)
  BY <1>2, <1>3, NoChangesHave
<1>7. s \in Stores /\ DOMAIN s.heap \subseteq 1 .. 3 + 0 /\ Sorting(s.heap, j) /\ s.unordered = Null
  <2>1. Containers \in Stores
    BY DEF Tidy, Sound, IsStore
  <2>2. s.unordered = Null
    BY <2>1, <1>2 DEF NoChanges, Stores
  <2>3. QED
    BY <2>2, <1>6 DEF Sound, IsStore
<1>8. j \in Nat
  <2>1. s.heap \in Heaps
    BY <1>7 DEF Stores
  <2>2. DOMAIN s.heap \subseteq 1 .. 7
    BY <2>1, HeapIs
  <2>3. QED
    BY <2>2, <1>7 DEF Sorting, Null
<1>9. t \in Stores /\ t.ordered = j /\ t.unordered = Null /\ t.heap = s.heap
  BY <1>4, <1>7, <1>8 DEF Stores
<1>10. Sorting(t.heap, k) /\ Sorting(t.heap, t.ordered)
  BY <1>1, <1>3, <1>7, <1>9 DEF Sorting
<1>11. Sound(t, k, 0)
  BY <1>7, <1>9, <1>10 DEF Sound, IsStore
<1>12. Makes(Changes(t), ByName(HeldBy(t, k), Unchanged))
  BY <1>5, <1>11, MakesIs
<1>13. Early(t) = HeldBy(s, j) /\ Late(t) = <<>>
  BY <1>9 DEF Early, Late, HeldBy
<1>14. ASSUME NEW x \in Key PROVE ByName(HeldBy(s, j), Unchanged)[x] = Changes(t)[x]
  BY <1>11, <1>13, ChangesAre, NoMembers DEF Changes
<1>15. ByName(HeldBy(s, j), Unchanged) = Changes(t)
  BY <1>14, SameFunction DEF Changes
<1>16. Changes(t) = KeptDiff
  BY <1>6, <1>15 DEF KeptDiff
<1>17. CASE k = kept
  <2>1. HeldBy(t, k) = HeldBy(s, j)
    BY <1>3, <1>9, <1>17 DEF HeldBy
  <2>2. QED
    BY <2>1, <1>12, <1>15, <1>16
<1>18. CASE k = Null
  <2>1. HeldBy(t, k) = <<>>
    BY <1>18 DEF HeldBy
  <2>2. ByName(<<>>, Unchanged) = NoDiff
    <3>1. \A x \in Key : ByName(<<>>, Unchanged)[x] = Unchanged
      BY NoMembers
    <3>2. ByName(<<>>, Unchanged) = [x \in Key |-> ByName(<<>>, Unchanged)[x]]
      BY DEF ByName
    <3>3. QED
      BY <3>1, <3>2 DEF NoDiff
  <2>3. QED
    BY <2>1, <2>2, <1>12, <1>16
<1>19. QED
  BY <1>1, <1>17, <1>18

-----------------------------------------------------------------------------
(* The invariant *)

\* What is iterated over, until the base changes or changes are dropped.
SnapshotSound(x, b, d) == x # None => AsFunction(x) = Applied(AsFunction(b), d)

\* The containers are as they should be between two calls; the base and the
\* snapshot are objects or none; the snapshot has every change.
Inv ==
  /\ Tidy(Containers, kept)
  /\ IsBase(base) /\ (snapshot = None \/ IsBase(snapshot)) /\ rebased \in BOOLEAN
  /\ ~rebased => SnapshotSound(snapshot, base, Diff)

\* The record has the variables.
LEMMA ContainersAre ==
  /\ Containers.ordered = ordered /\ Containers.unordered = unordered
  /\ Containers.capacity = capacity /\ Containers.heap = heap
BY DEF Containers

\* The specification's names of what an Object promises.
LEMMA EditsAre ==
  /\ Edits!Result = Applied(AsFunction(base), Diff)
  /\ \A k \in Key : Edits!Current(k) =
       IF Diff[k] # Unchanged THEN Diff[k]
       ELSE IF AsFunction(base) = NotObject THEN Undefined ELSE AsFunction(base)[k]
  /\ ByName(In(ordered) \o In(unordered), Unchanged) = Diff
  /\ ByName(In(kept), Unchanged) = KeptDiff
<1>1. ByName(In(ordered) \o In(unordered), Unchanged) = Diff
  BY ContainersAre DEF Diff, Changes, Early, Late, In
<1>2. ByName(In(kept), Unchanged) = KeptDiff
  BY ContainersAre DEF KeptDiff, HeldBy, In
<1>3. Edits!Result = Applied(AsFunction(base), Diff)
  BY <1>1 DEF Edits!Result, Edits!Clean, Edits!Current, Applied
<1>4. ASSUME NEW k \in Key
      PROVE  Edits!Current(k) =
               IF Diff[k] # Unchanged THEN Diff[k]
               ELSE IF AsFunction(base) = NotObject THEN Undefined ELSE AsFunction(base)[k]
  BY <1>1 DEF Edits!Current
<1>5. QED
  BY <1>1, <1>2, <1>3, <1>4

\* An Object starts with no changes.
LEMMA InitHolds == Init => Inv /\ Diff = NoDiff /\ KeptDiff = NoDiff
<1> SUFFICES ASSUME Init PROVE Inv /\ Diff = NoDiff /\ KeptDiff = NoDiff
  OBVIOUS
<1>1. /\ ordered = Null /\ unordered = Null /\ capacity = 0 /\ heap = <<>>
      /\ snapshot = None /\ kept = Null /\ rebased = FALSE /\ base \in Bases
  BY DEF Init
<1>2. DOMAIN heap = {} /\ heap \in Heaps
  <2>1. DOMAIN heap = {}
    BY <1>1
  <2>2. heap \in [{} -> Seq(Member)]
    BY <1>1
  <2>3. QED
    BY <2>1, <2>2, HeapIs
<1>3. Containers \in Stores
  BY <1>1, <1>2 DEF Containers, Stores, Null
<1>4. Sound(Containers, kept, 0)
  BY <1>1, <1>2, <1>3, ContainersAre DEF Sound, IsStore, Sorting
<1>5. Tidy(Containers, kept)
  BY <1>1, <1>2, <1>4, ContainersAre DEF Tidy
<1>6. Early(Containers) = <<>> /\ Late(Containers) = <<>> /\ HeldBy(Containers, kept) = <<>>
  BY <1>1, ContainersAre DEF Early, Late, HeldBy
<1>7. ASSUME NEW x \in Key PROVE Diff[x] = Unchanged /\ KeptDiff[x] = Unchanged
  BY <1>4, <1>6, ChangesAre, NoMembers DEF Diff, KeptDiff, Changes
<1>8. Diff = NoDiff /\ KeptDiff = NoDiff
  <2>1. Diff = [x \in Key |-> Diff[x]] /\ KeptDiff = [x \in Key |-> KeptDiff[x]]
    BY DEF Diff, Changes, KeptDiff, ByName
  <2>2. QED
    BY <2>1, <1>7 DEF NoDiff
<1>9. QED
  BY <1>1, <1>5, <1>8, BasesAre DEF Inv, SnapshotSound

\* What a call leaves for the next one.
LEMMA StepHolds ==
  ASSUME NEW d, NEW kd, Makes(d, kd), IsBase(base'),
         snapshot' = None \/ IsBase(snapshot'), rebased' \in BOOLEAN,
         ~rebased' => SnapshotSound(snapshot', base', d)
  PROVE  Inv' /\ Diff' = d /\ KeptDiff' = kd
<1>1. Diff' = d /\ KeptDiff' = kd
  BY DEF Makes, Diff, KeptDiff
<1>2. Tidy(Containers, kept)'
  BY DEF Makes, Tidy
<1>3. QED
  BY <1>1, <1>2 DEF Inv

\* What the methods promise, and how they leave the containers.
Step ==
  \/ \E k \in Key, v \in Val \cup {Undefined} :
       /\ Diff' = [Diff EXCEPT ![k] = v] /\ KeptDiff' = KeptDiff /\ base' = base
  \/ Diff' = Diff /\ KeptDiff' \in {KeptDiff, Diff} /\ base' = base
  \/ Diff' = NoDiff /\ KeptDiff' = KeptDiff /\ base' \in {base, <<>>}
  \/ \E b \in Bases : Diff' = Diff /\ KeptDiff' = KeptDiff /\ base' = b
  \/ \E b \in Bases : Diff' = KeptDiff /\ KeptDiff' \in {KeptDiff, NoDiff} /\ base' = b

\* Every call keeps the invariant and does what Step allows.
LEMMA NextHolds == Inv /\ Next => Inv' /\ Step
<1> SUFFICES ASSUME Inv, Next PROVE Inv' /\ Step
  OBVIOUS
<1>1. /\ Tidy(Containers, kept) /\ IsBase(base) /\ (snapshot = None \/ IsBase(snapshot))
      /\ rebased \in BOOLEAN /\ (~rebased => SnapshotSound(snapshot, base, Diff))
  BY DEF Inv
<1>2. ASSUME NEW k \in Key, NEW v \in Val \cup {Undefined}, Set(k, v) \/ SetNamed(k, v)
      PROVE  Inv' /\ Step
  <2>1. Makes([Diff EXCEPT ![k] = v], KeptDiff)
    BY <1>1, <1>2, SetMakes
  <2>2. base' = base /\ snapshot' = None /\ rebased' = FALSE
    BY <1>2 DEF Set, SetNamed, Snapshot
  <2>3. Inv' /\ Diff' = [Diff EXCEPT ![k] = v] /\ KeptDiff' = KeptDiff
    BY <2>1, <2>2, <1>1, StepHolds DEF SnapshotSound
  <2>4. QED
    BY <2>2, <2>3 DEF Step
<1>3. CASE Lookup \/ Optimize
  <2>1. Makes(Diff, KeptDiff)
    BY <1>1, <1>3, OptimizeMakes
  <2>2. base' = base /\ snapshot' = snapshot /\ rebased' = rebased
    BY <1>3 DEF Lookup, Optimize
  <2>3. Inv' /\ Diff' = Diff /\ KeptDiff' = KeptDiff
    BY <2>1, <2>2, <1>1, StepHolds
  <2>4. QED
    BY <2>2, <2>3 DEF Step
<1>4. CASE Begin
  <2>1. Makes(Diff, KeptDiff)
    BY <1>1, <1>4, OptimizeMakes
  <2>2. base' = base /\ snapshot' = Committed(Optimized(Containers)) /\ rebased' = rebased
    BY <1>4 DEF Begin
  <2>3. PICK s : s = Optimized(Containers)
    OBVIOUS
  <2>4. Sound(s, kept, 1) /\ Changes(s) = Diff /\ Late(s) = <<>>
    BY <2>3, <1>1, OptimizedHas
  <2>5. IsBase(snapshot') /\ AsFunction(snapshot') = Applied(AsFunction(base), Diff)
    BY <2>2, <2>3, <2>4, <1>1, CommittedIs
  <2>6. Inv' /\ Diff' = Diff /\ KeptDiff' = KeptDiff
    BY <2>1, <2>2, <2>5, <1>1, StepHolds DEF SnapshotSound
  <2>7. QED
    BY <2>2, <2>6 DEF Step
<1>5. CASE Share
  <2>1. Makes(Diff, Diff)
    BY <1>1, <1>5, ShareMakes
  <2>2. base' = base /\ snapshot' = snapshot /\ rebased' = rebased
    BY <1>5 DEF Share
  <2>3. Inv' /\ Diff' = Diff /\ KeptDiff' = Diff
    BY <2>1, <2>2, <1>1, StepHolds
  <2>4. QED
    BY <2>2, <2>3 DEF Step
<1>6. CASE Revert \/ Clear
  <2>1. Makes(NoDiff, KeptDiff)
    BY <1>1, <1>6, RevertMakes
  <2>2. base' \in {base, <<>>} /\ snapshot' = snapshot /\ rebased' = TRUE
    BY <1>6 DEF Revert, Clear
  <2>3. IsBase(base')
    BY <2>2, <1>1, NoMembers DEF IsBase
  <2>4. Inv' /\ Diff' = NoDiff /\ KeptDiff' = KeptDiff
    BY <2>1, <2>2, <2>3, <1>1, StepHolds
  <2>5. QED
    BY <2>2, <2>4 DEF Step
<1>7. ASSUME NEW b \in Bases, SetBaseObject(b) PROVE Inv' /\ Step
  <2>1. /\ base' = b /\ rebased' = TRUE /\ snapshot' = snapshot
        /\ Containers' = Containers /\ kept' = kept
    BY <1>7 DEF SetBaseObject, Containers
  <2>2. Makes(Diff, KeptDiff)
    BY <2>1, <1>1 DEF Makes, Diff, KeptDiff
  <2>3. IsBase(base')
    BY <2>1, BasesAre
  <2>4. Inv' /\ Diff' = Diff /\ KeptDiff' = KeptDiff
    BY <2>1, <2>2, <2>3, <1>1, StepHolds
  <2>5. QED
    BY <2>1, <2>4 DEF Step
<1>8. ASSUME NEW b \in Bases, Assign(b) PROVE Inv' /\ Step
  <2>1. PICK kd \in {KeptDiff, NoDiff} : Makes(KeptDiff, kd)
    BY <1>1, <1>8, AssignMakes
  <2>2. base' = b /\ snapshot' = snapshot /\ rebased' = TRUE
    BY <1>8 DEF Assign
  <2>3. IsBase(base')
    BY <2>2, BasesAre
  <2>4. Inv' /\ Diff' = KeptDiff /\ KeptDiff' = kd
    BY <2>1, <2>2, <2>3, <1>1, StepHolds
  <2>5. QED
    BY <2>1, <2>2, <2>4 DEF Step
<1>9. QED
  BY <1>2, <1>3, <1>4, <1>5, <1>6, <1>7, <1>8 DEF Next

\* Nothing breaks the invariant while nothing is called.
LEMMA StutterHolds == Inv /\ UNCHANGED vars => Inv'
BY DEF vars, Inv, Tidy, Diff, Containers, SnapshotSound, IsBase, ProperObject, InOrder

\* Between two calls the containers are as they should be.
THEOREM Invariance == Spec => []Inv
<1>1. Init => Inv
  BY InitHolds
<1>2. Inv /\ [Next]_vars => Inv'
  BY NextHolds, StutterHolds
<1>3. QED
  BY <1>1, <1>2, PTL DEF Spec

-----------------------------------------------------------------------------
(* The properties *)

\* Nothing is referred to that is not there; what was sorted can be searched;
\* the container that is written to belongs to this Object alone.
LEMMA InvWellKept == Inv => WellKept
<1> SUFFICES ASSUME Inv PROVE WellKept
  OBVIOUS
<1>1. PICK s : s = Containers
  OBVIOUS
<1>2. /\ s.ordered = ordered /\ s.unordered = unordered /\ s.capacity = capacity /\ s.heap = heap
  BY <1>1, ContainersAre
<1>3. Sound(s, kept, 0) /\ DOMAIN heap = {ordered, unordered, kept} \ {Null}
  BY <1>1, <1>2 DEF Inv, Tidy
<1>4. heap \in Heaps /\ capacity \in Nat
  BY <1>2, <1>3 DEF Sound, IsStore, Stores
<1>5. \A r \in DOMAIN heap : heap[r] \in Seq(Member)
  <2>1. heap \in [DOMAIN heap -> Seq(Member)]
    BY <1>4, HeapIs
  <2>2. QED
    BY <2>1
<1>6. /\ unordered # Null => /\ unordered \in DOMAIN heap /\ unordered # ordered /\ unordered # kept
                             /\ Len(heap[unordered]) <= capacity
                             /\ ordered = Null => capacity <= InitialCapacity
  BY <1>2, <1>3 DEF Sound
<1>7. TypeOK
  BY <1>3, <1>4, <1>5, <1>6 DEF TypeOK, Inv, IsBase
<1>8. Searchable
  BY <1>2, <1>3 DEF Searchable, Sound, Sorting
<1>9. SafeLookup
  <2> SUFFICES ASSUME Size(unordered) > LookupThreshold, ordered = Null PROVE FALSE
    BY DEF SafeLookup
  <2>1. unordered # Null
    BY ObjectAssumption DEF Size
  <2>2. Len(heap[unordered]) \in Nat /\ Len(heap[unordered]) <= InitialCapacity
    BY <2>1, <1>4, <1>5, <1>6, ObjectAssumption
  <2>3. QED
    BY <2>1, <2>2, ObjectAssumption DEF Size
<1>10. Private
  BY <1>6 DEF Private
<1>11. QED
  BY <1>7, <1>8, <1>9, <1>10 DEF WellKept

\* Lookups and commits find the base and the last changes.
LEMMA InvAnswersAgree == Inv => AnswersAgree
<1> SUFFICES ASSUME Inv PROVE AnswersAgree
  OBVIOUS
<1>1. Tidy(Containers, kept) /\ IsBase(base)
  BY DEF Inv
<1>2. ASSUME NEW k \in Key PROVE Found(k) = Edits!Current(k)
  <2>1. PICK n : Sound(AfterLookup, kept, n)
    BY <1>1, LookupHas
  <2>2. Changes(AfterLookup) = Diff
    BY <1>1, LookupHas
  <2>3. Found(k) = IF Changes(AfterLookup)[k] # Unchanged THEN Changes(AfterLookup)[k]
                   ELSE IF AsFunction(base) = NotObject THEN Undefined ELSE AsFunction(base)[k]
    BY <2>1, <1>1, FoundIs
  <2>4. QED
    BY <2>2, <2>3, EditsAre
<1>3. AsFunction(Committed(Optimized(Containers))) = Edits!Result
  <2>1. PICK s : s = Optimized(Containers)
    OBVIOUS
  <2>2. Sound(s, kept, 1) /\ Changes(s) = Diff /\ Late(s) = <<>>
    BY <2>1, <1>1, OptimizedHas
  <2>3. AsFunction(Committed(s)) = Applied(AsFunction(base), Diff)
    BY <2>2, <1>1, CommittedIs
  <2>4. QED
    BY <2>1, <2>3, EditsAre
<1>4. QED
  BY <1>2, <1>3 DEF AnswersAgree

\* The snapshot is what a commit would answer.
LEMMA InvIterationSound == Inv => IterationSound
BY EditsAre DEF Inv, SnapshotSound, IterationSound, IterationCurrent

\* An Object starts without changes.
LEMMA InitRefines == Init => Edits!Init
<1> SUFFICES ASSUME Init PROVE Edits!Init
  OBVIOUS
<1>1. Diff = NoDiff /\ KeptDiff = NoDiff
  BY InitHolds
<1>2. base \in Bases
  BY DEF Init
<1>3. QED
  BY <1>1, <1>2, EditsAre DEF Edits!Init, Edits!Clean, NoDiff

\* The names, after a step.
LEMMA EditsWillBe ==
  /\ ByName(In(ordered) \o In(unordered), Unchanged)' = Diff'
  /\ ByName(In(kept), Unchanged)' = KeptDiff'
<1>1. /\ Containers'.ordered = ordered' /\ Containers'.unordered = unordered'
      /\ Containers'.heap = heap'
  BY DEF Containers
<1>2. In(ordered)' = Early(Containers)' /\ In(unordered)' = Late(Containers)'
  BY <1>1 DEF In, Early, Late
<1>3. In(kept)' = HeldBy(Containers, kept)'
  BY <1>1 DEF In, HeldBy
<1>4. ByName(In(ordered) \o In(unordered), Unchanged)' = Diff'
  BY <1>2 DEF Diff, Changes, ByName
<1>5. ByName(In(kept), Unchanged)' = KeptDiff'
  BY <1>3 DEF KeptDiff, ByName
<1>6. QED
  BY <1>4, <1>5

\* The base that clear leaves has no members.
LEMMA EmptyBase == AsFunction(<<>>) = Edits!Empty
<1>1. AsFunction(<<>>) = ByName(<<>>, Undefined)
  BY NoMembers, ObjectIs
<1>2. \A k \in Key : ByName(<<>>, Undefined)[k] = Undefined
  BY NoMembers
<1>3. ByName(<<>>, Undefined) = [k \in Key |-> ByName(<<>>, Undefined)[k]]
  BY DEF ByName
<1>4. QED
  BY <1>1, <1>2, <1>3 DEF Edits!Empty

\* Every method does to the changes what its name says, or nothing.
LEMMA StepRefines == Step => [Edits!Next]_(Edits!vars)
<1> SUFFICES ASSUME Step PROVE [Edits!Next]_(Edits!vars)
  OBVIOUS
<1> DEFINE c == ByName(In(ordered) \o In(unordered), Unchanged)
           kd == ByName(In(kept), Unchanged)
           b0 == AsFunction(base)
<1>1. c = Diff /\ kd = KeptDiff
  BY EditsAre
<1>2. c' = Diff' /\ kd' = KeptDiff'
  BY EditsWillBe
<1>3. \A b : base' = b => b0' = AsFunction(b)
  BY DEF AsFunction, ByName
<1>4. base' = base => b0' = b0
  BY <1>3
<1>5. \A b \in Bases : AsFunction(b) \in {AsFunction(x) : x \in Bases}
  OBVIOUS
<1>6. base' = <<>> => b0' = Edits!Empty
  BY <1>3, EmptyBase
<1>7. Edits!Clean = NoDiff
  BY DEF Edits!Clean, NoDiff
<1> HIDE DEF c, kd, b0
<1>8. ASSUME NEW k \in Key, NEW v \in Val \cup {Undefined},
             Diff' = [Diff EXCEPT ![k] = v], KeptDiff' = KeptDiff, base' = base
      PROVE  Edits!Next
  <2>1. c' = [c EXCEPT ![k] = v] /\ b0' = b0 /\ kd' = kd
    BY <1>1, <1>2, <1>4, <1>8
  <2>2. Edits!Change(k, v)
    BY <2>1 DEF Edits!Change, c, kd, b0
  <2>3. QED
    BY <2>2 DEF Edits!Next
<1>9. CASE Diff' = Diff /\ KeptDiff' \in {KeptDiff, Diff} /\ base' = base
  <2>1. c' = c /\ b0' = b0 /\ (kd' = kd \/ kd' = c)
    BY <1>1, <1>2, <1>4, <1>9
  <2>2. Edits!Keep \/ UNCHANGED Edits!vars
    BY <2>1 DEF Edits!Keep, Edits!vars, c, kd, b0
  <2>3. QED
    BY <2>2 DEF Edits!Next
<1>10. CASE Diff' = NoDiff /\ KeptDiff' = KeptDiff /\ base' \in {base, <<>>}
  <2>1. c' = Edits!Clean /\ kd' = kd /\ (b0' = b0 \/ b0' = Edits!Empty)
    BY <1>1, <1>2, <1>4, <1>6, <1>7, <1>10
  <2>2. Edits!Revert \/ Edits!Clear
    BY <2>1 DEF Edits!Revert, Edits!Clear, c, kd, b0
  <2>3. QED
    BY <2>2 DEF Edits!Next
<1>11. ASSUME NEW b \in Bases, Diff' = Diff, KeptDiff' = KeptDiff, base' = b
       PROVE  Edits!Next
  <2>1. c' = c /\ kd' = kd /\ b0' = AsFunction(b)
    BY <1>1, <1>2, <1>3, <1>11
  <2>2. Edits!Rebase(AsFunction(b))
    BY <2>1 DEF Edits!Rebase, c, kd, b0
  <2>3. QED
    BY <2>2, <1>5 DEF Edits!Next
<1>12. ASSUME NEW b \in Bases, Diff' = KeptDiff, KeptDiff' \in {KeptDiff, NoDiff}, base' = b
       PROVE  Edits!Next
  <2>1. c' = kd /\ kd' \in {kd, Edits!Clean} /\ b0' = AsFunction(b)
    BY <1>1, <1>2, <1>3, <1>7, <1>12
  <2>2. Edits!Assign(AsFunction(b))
    BY <2>1 DEF Edits!Assign, c, kd, b0
  <2>3. QED
    BY <2>2, <1>5 DEF Edits!Next
<1>13. QED
  BY <1>8, <1>9, <1>10, <1>11, <1>12 DEF Step

\* Doing nothing changes nothing.
LEMMA StutterRefines == UNCHANGED vars => UNCHANGED Edits!vars
BY DEF vars, Edits!vars, AsFunction, ByName, In

-----------------------------------------------------------------------------
(* Theorems *)

\* Between two calls the containers are all there, sorted where they are
\* bisected, and the one that is written to is shared with nobody (objects of
\* class Object, object.cpp).
THEOREM KeptWell == Spec => []WellKept
<1>1. Inv => WellKept
  BY InvWellKept
<1>2. QED
  BY <1>1, Invariance, PTL

\* operator[] and commit() answer by the base and the last change of each
\* member, at any time.
THEOREM AnswersAgreeAlways == Spec => []AnswersAgree
<1>1. Inv => AnswersAgree
  BY InvAnswersAgree
<1>2. QED
  BY <1>1, Invariance, PTL

\* begin() and end() walk through the changed object, as long as the base
\* stays and changes are only added.
THEOREM IterationIsSound == Spec => []IterationSound
<1>1. Inv => IterationSound
  BY InvIterationSound
<1>2. QED
  BY <1>1, Invariance, PTL

\* The class Object is a base and the last change of each member: no method
\* shows anything else, however the changes are kept.
THEOREM ObjectRefines == Spec => Implements
<1>1. Init => Edits!Init
  BY InitRefines
<1>2. Inv /\ [Next]_vars => [Edits!Next]_(Edits!vars)
  <2>1. Inv /\ Next => [Edits!Next]_(Edits!vars)
    BY NextHolds, StepRefines
  <2>2. UNCHANGED vars => [Edits!Next]_(Edits!vars)
    BY StutterRefines
  <2>3. QED
    BY <2>1, <2>2
<1>3. QED
  BY <1>1, <1>2, Invariance, PTL DEF Spec, Implements, Edits!Spec
=============================================================================
