---------------------------- MODULE ObjectBuilder ----------------------------
(***************************************************************************)
(* json::Object (src/src/imtjson/object.h, object.cpp) over ObjectValue    *)
(* (objectValue.cpp): a base value and two containers of changes.  New     *)
(* changes are pushed to the unordered one, duplicates and all; it is      *)
(* sorted and merged into the ordered one when it is full and when a       *)
(* const method needs it.  Lookups search the unordered one backwards, the *)
(* ordered one and the base by bisection.                                  *)
(*                                                                         *)
(* Containers are objects of their own with a reference count: copies of   *)
(* an Object, and the diff values it hands out, share the ordered one;     *)
(* kept stands for every one of those holders.  heap has the containers    *)
(* somebody refers to.  One action is one call of a method; an Object is   *)
(* used by one thread at a time.  What the methods return is given by      *)
(* operators (Found, Committed); const methods are actions because they    *)
(* optimize.                                                               *)
(*                                                                         *)
(* A member is a record with key and value; names are numbers, in their    *)
(* order.  rebased is history.  Op_Slip before Op is Op with one slip; see *)
(* RpcClient.                                                              *)
(***************************************************************************)
EXTENDS Integers, Sequences, SequencesExt, FiniteSetsExt, Selections

CONSTANTS
  MaxKey,            \* names are 1 .. MaxKey
  Val,               \* defined values
  Fields,            \* lists of members that bases are made of
  Undefined, Unchanged, NotObject, None,
  InitialCapacity,   \* 8: members an Object makes room for at first
  LookupThreshold,   \* 16: unsorted changes a lookup puts up with
  MaxUnordered       \* bound: unsorted changes

VARIABLES
  base, ordered, unordered,
  capacity,     \* of the unordered container; that of others is not used
  snapshot,     \* lastIterSnapshot
  heap,         \* the members in each container
  kept,         \* a container that a copy or a diff value holds, too
  rebased       \* whether the base changed, or changes were reverted or
                \* taken over, since the last set
vars == <<base, ordered, unordered, capacity, snapshot, heap, kept, rebased>>

Key == 1 .. MaxKey
Member == [key : Key, value : Val \cup {Undefined}]
Defined(m) == m.value # Undefined

ASSUME ObjectAssumption ==
  /\ MaxKey \in Nat \ {0} /\ Undefined \notin Val
  /\ Unchanged \notin Val \cup {Undefined}
  /\ NotObject \notin Seq(Member) \cup [Key -> Val \cup {Undefined}]
  /\ InitialCapacity \in Nat \ {0} /\ InitialCapacity <= LookupThreshold
  /\ LookupThreshold \in Nat /\ MaxUnordered \in Nat
  /\ Fields \subseteq Seq(Member)

-----------------------------------------------------------------------------
(* Containers *)

\* Between two calls at most three are referred to.  What they are called does
\* not matter: a container has the number of the first of ordered (1),
\* unordered (2) and kept (3) that refers to it.  A call can allocate four
\* more: SetNamed, two of each push.
Null == 0

Fresh(h) == Min((4 .. 7) \ DOMAIN h)

\* ObjectValue::sort: by name, and of members of the same name the last one.
Survivor_First(s, k) == s[Min({i \in DOMAIN s : s[i].key = k})]
Survivor(s, k) == s[Max({i \in DOMAIN s : s[i].key = k})]
Sorted(s) ==
  LET names == Selected([k \in Key |-> k], {s[i].key : i \in DOMAIN s})
  IN [i \in DOMAIN names |-> Survivor(s, names[i])]

\* mergeObjectsDiff, from the i-th and the j-th member on: the front one wins.
MergeObjectsDiff(back, front) ==
  LET rest[p \in (1 .. Len(back) + 1) \X (1 .. Len(front) + 1)] ==
        LET i == p[1]  j == p[2] IN
        IF i > Len(back) THEN SubSeq(front, j, Len(front))
        ELSE IF j > Len(front) THEN SubSeq(back, i, Len(back))
        ELSE IF front[j].key < back[i].key THEN <<front[j]>> \o rest[<<i, j + 1>>]
        ELSE IF front[j].key > back[i].key THEN <<back[i]>> \o rest[<<i + 1, j>>]
        ELSE <<front[j]>> \o rest[<<i + 1, j + 1>>]
  IN rest[<<1, 1>>]

\* The members that have values.
WithValues(s) == Selected(s, {i \in DOMAIN s : Defined(s[i])})

\* mergeObjects: the same, without members to be removed.
MergeObjects(back, front) == WithValues(MergeObjectsDiff(back, front))

\* findSorted, by bisection.
FindSorted(s, k) ==
  LET find[p \in (0 .. Len(s)) \X (0 .. Len(s))] ==
        LET l == p[1]  r == p[2]  m == (l + r) \div 2 IN
        IF l >= r THEN Null
        ELSE IF k > s[m + 1].key THEN find[<<m + 1, r>>]
        ELSE IF k < s[m + 1].key THEN find[<<l, m>>]
        ELSE m + 1
  IN find[<<0, Len(s)>>]

\* The list of fields as an object: without undefined ones, sorted.
Construct(fields) == Sorted(WithValues(fields))
Bases == {NotObject} \cup {Construct(fields) : fields \in Fields}

Init ==
  /\ base \in Bases
  /\ ordered = Null /\ unordered = Null /\ capacity = 0 /\ heap = <<>>
  /\ snapshot = None /\ kept = Null /\ rebased = FALSE

-----------------------------------------------------------------------------
(* The object, as a record that the steps of one method transform *)

Containers == [ordered |-> ordered, unordered |-> unordered, capacity |-> capacity, heap |-> heap]

\* The containers are those of s, and k is kept; the ones nobody refers to
\* are freed.
Becomes(s, k) ==
  LET holders == <<s.ordered, s.unordered, k>>
      number  == [i \in 1 .. 3 |-> IF holders[i] = Null THEN Null
                                  ELSE Min({j \in 1 .. 3 : holders[j] = holders[i]})]
  IN /\ ordered' = number[1] /\ unordered' = number[2] /\ kept' = number[3]
     /\ heap' = [i \in ToSet(number) \ {Null} |-> s.heap[holders[i]]]
     /\ capacity' = s.capacity

Allocate(s, members, room) ==
  [s EXCEPT !.unordered = Fresh(s.heap), !.capacity = room,
            !.heap = [r \in DOMAIN @ \cup {Fresh(@)} |-> IF r \in DOMAIN @ THEN @[r] ELSE members]]

\* optimize()
Released_Lost(s) == [s EXCEPT !.unordered = Null, !.capacity = 0]
Released_Not(s)  == [s EXCEPT !.ordered = s.unordered]
Released(s)      == [s EXCEPT !.ordered = s.unordered, !.unordered = Null, !.capacity = 0]
Optimized(s) ==
  IF s.unordered = Null \/ s.heap[s.unordered] = <<>> THEN s
  ELSE LET t == [s EXCEPT !.heap[s.unordered] = Sorted(@)]
       IN IF s.ordered = Null THEN Released(t)
          ELSE Released(Allocate(t, MergeObjectsDiff(t.heap[t.ordered], t.heap[t.unordered]), 0))

\* push_back on the unordered container.
PushBack(s, m) ==
  IF Len(s.heap[s.unordered]) < s.capacity
  THEN [s EXCEPT !.heap[s.unordered] = Append(@, m)] ELSE s

\* set_internal, without the snapshot.
Pushed(s, m) ==
  LET t == IF s.unordered # Null THEN s
           ELSE Allocate(s, <<>>, IF s.ordered = Null THEN InitialCapacity
                                  ELSE Len(s.heap[s.ordered]))
      size == Len(t.heap[t.unordered])
  IN IF size < t.capacity THEN PushBack(t, m)
     ELSE PushBack(Allocate(Optimized(t), <<>>, size * 2), m)

\* commit()
Committed(s) ==
  IF s.ordered = Null THEN base
  ELSE MergeObjects(IF base = NotObject THEN <<>> ELSE base, s.heap[s.ordered])

\* operator[]: a lookup in many unsorted changes sorts them first.
Size(r) == IF r = Null THEN 0 ELSE Len(heap[r])
ManyUnsorted == Size(unordered) > LookupThreshold /\ Size(unordered) > Len(heap[ordered]) \div 2
AfterLookup == IF ManyUnsorted THEN Optimized(Containers) ELSE Containers
Get(members, k) ==
  IF FindSorted(members, k) = Null THEN Undefined ELSE members[FindSorted(members, k)].value

\* The change it finds last in the unsorted ones, or first in what is sorted.
Found(k) ==
  LET s     == AfterLookup
      late  == IF s.unordered = Null THEN {}
               ELSE {i \in DOMAIN s.heap[s.unordered] : s.heap[s.unordered][i].key = k}
      early == IF s.ordered = Null THEN <<>> ELSE s.heap[s.ordered]
  IN IF late # {} THEN s.heap[s.unordered][Max(late)].value
     ELSE IF FindSorted(early, k) # Null THEN Get(early, k)
     ELSE IF base = NotObject THEN Undefined ELSE Get(base, k)

-----------------------------------------------------------------------------
(* Methods *)

Snapshot_Kept == snapshot
Snapshot == None    \* what set_internal leaves of it

\* The bound on what a method leaves unsorted.
Bounded == unordered' # Null => Len(heap'[unordered']) <= MaxUnordered

\* set, and unset with the value Undefined.
Set(k, v) ==
  /\ Becomes(Pushed(Containers, [key |-> k, value |-> v]), kept) /\ Bounded
  /\ base' = base /\ snapshot' = Snapshot /\ rebased' = FALSE

\* set(name, value) with a value that has this name already pushes it twice.
SetNamed(k, v) ==
  LET m == [key |-> k, value |-> v] IN
  /\ Becomes(Pushed(Pushed(Containers, m), m), kept) /\ Bounded
  /\ base' = base /\ snapshot' = Snapshot /\ rebased' = FALSE

Lookup == UNCHANGED <<base, snapshot, rebased>> /\ Becomes(AfterLookup, kept)

\* optimize(), commit().
Optimize == UNCHANGED <<base, snapshot, rebased>> /\ Becomes(Optimized(Containers), kept)

\* begin(): the iteration walks through the snapshot.
Begin ==
  /\ UNCHANGED <<base, rebased>>
  /\ snapshot = None /\ snapshot' = Committed(Optimized(Containers))
  /\ Becomes(Optimized(Containers), kept)

\* Object(const Object &) and commitAsDiff(): this one optimizes, and shares
\* what comes of it.
Share ==
  LET s == Optimized(Containers)
  IN Becomes(s, s.ordered) /\ UNCHANGED <<base, snapshot, rebased>>

NoChanges == [Containers EXCEPT !.ordered = Null, !.unordered = Null, !.capacity = 0]

Revert ==
  /\ Becomes(NoChanges, kept) /\ UNCHANGED <<base, snapshot>>
  /\ rebased' = TRUE

Clear ==
  /\ Becomes(NoChanges, kept) /\ base' = <<>> /\ snapshot' = snapshot
  /\ rebased' = TRUE

SetBaseObject(b) ==
  /\ base' = b /\ rebased' = TRUE
  /\ UNCHANGED <<ordered, unordered, capacity, heap, snapshot, kept>>

\* operator=, from a copy with any base, or from one that is moved.
Assign(b) ==
  /\ \E k \in {kept, Null} : Becomes([NoChanges EXCEPT !.ordered = kept], k)
  /\ base' = b /\ snapshot' = snapshot
  /\ rebased' = TRUE

Next ==
  \/ \E k \in Key, v \in Val \cup {Undefined} : Set(k, v) \/ SetNamed(k, v)
  \/ Lookup \/ Optimize \/ Begin \/ Share \/ Revert \/ Clear
  \/ \E b \in Bases : SetBaseObject(b) \/ Assign(b)

Spec == Init /\ [][Next]_vars

-----------------------------------------------------------------------------
(* Properties *)

InOrder(s) == \A i, j \in DOMAIN s : i < j => s[i].key < s[j].key

\* An object value: sorted members that have values.
ProperObject(s) ==
  s \in Seq(Member) /\ InOrder(s) /\ \A i \in DOMAIN s : Defined(s[i])

\* Whatever is built and handed out is an object as every reader expects it;
\* the containers referred to are there, and within their capacity.
TypeOK ==
  /\ base = NotObject \/ ProperObject(base)
  /\ snapshot \in {None, NotObject} \/ ProperObject(snapshot)
  /\ DOMAIN heap = {ordered, unordered, kept} \ {Null}
  /\ \A r \in DOMAIN heap : heap[r] \in Seq(Member)
  /\ capacity \in Nat /\ (unordered # Null => Len(heap[unordered]) <= capacity)
  /\ rebased \in BOOLEAN

\* What bisection and merging rely on: changes that were sorted stay sorted,
\* with each name once, and are not empty.
Searchable ==
  \A r \in {ordered, kept} \ {Null} : InOrder(heap[r]) /\ heap[r] # <<>>

\* A lookup that looks at the size of the ordered container finds one.
SafeLookup == Size(unordered) > LookupThreshold => ordered # Null

\* The container that set and sort write to belongs to this Object alone: no
\* copy of it and no value handed out changes under anybody's hands.
Private == unordered # Null => unordered \notin {ordered, kept}

\* All of that, in containers that are as they should be: a lookup may bisect
\* what it finds, and a reader keeps what it was given.
WellKept == TypeOK /\ Searchable /\ SafeLookup /\ Private

\* The members by name, the last one of each; what there is for other names.
ByName(s, missing) ==
  [k \in Key |-> LET is == {i \in DOMAIN s : s[i].key = k}
                 IN IF is = {} THEN missing ELSE s[Max(is)].value]
AsFunction(s) == IF s = NotObject THEN s ELSE ByName(s, Undefined)
In(r) == IF r = Null THEN <<>> ELSE heap[r]

\* There is a base and the last change of each member, and none is lost,
\* whatever is optimized in between.
Edits == INSTANCE ObjectEdits WITH
  Base <- {AsFunction(b) : b \in Bases},
  base <- AsFunction(base),
  changes <- ByName(In(ordered) \o In(unordered), Unchanged),
  kept <- ByName(In(kept), Unchanged)
Implements == Edits!Spec

\* Lookups and commits answer by the base and the last changes, at any time.
AnswersAgree ==
  /\ \A k \in Key : Found(k) = Edits!Current(k)
  /\ AsFunction(Committed(Optimized(Containers))) = Edits!Result

\* object.h, of the iterator: "walks through changed object".  It does not, after
\* clear, revert, setBaseObject or operator=: none of them drops the snapshot.
IterationCurrent == snapshot # None => AsFunction(snapshot) = Edits!Result

\* The iterator does, until the base changes or changes are dropped.
IterationSound == ~rebased => IterationCurrent
=============================================================================
