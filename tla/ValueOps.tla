------------------------------ MODULE ValueOps ------------------------------
(***************************************************************************)
(* A program that has a value of any type in its variable, and calls every *)
(* method that ArrayOps and PathOps leave out.  The operators of Values    *)
(* and Strings are what the methods compute.                               *)
(***************************************************************************)
EXTENDS PathOps, Values
Text == INSTANCE Strings

CONSTANTS
  Fields       \* the members programs set, in any order, each once

-----------------------------------------------------------------------------
(* A method that changes the variable *)

SetFields(fields) ==
  /\ doc.type = "object"
  /\ Change(<<Object(SetItems(Items(doc), fields)), [edited |-> Edited(doc, fields)]>>)

-----------------------------------------------------------------------------
(* Methods that compute something *)

DiffDocs(v) ==
  /\ doc.type = "object" /\ v.type = "object"
  /\ LET d == Diff(doc, v)
         c == CreateDiff(doc, v, 0)
     IN Ask([op |-> "diff", other |-> v],
            [diff |-> d, merged |-> Merge(doc, d), edited |-> Edited(doc, Items(c))])

\* Changes to an array, and the changes that take them back.
PatchDoc(find, find2, x) ==
  LET list(s) == Array(<<Undefined>> \o s)
      patched == Merge(doc, list(<<find, x, find2, x>>))
  IN /\ IsArray(doc)
     /\ Ask([op |-> "patch", new |-> x],
            [patched |-> patched,
             undone |-> Merge(patched, list(<<x, Undefined, x, Undefined>>))])

CompareDocs(v, w) ==
  Ask([op |-> "compare", second |-> v, third |-> w],
      [ab |-> Compare(doc, v), ba |-> Compare(v, doc),
       bc |-> Compare(v, w), ac |-> Compare(doc, w)])

\* What is equal to an item, and what comes at its place in the order.
IndexDoc(x) ==
  /\ IsArray(doc)
  /\ Ask([op |-> "index", item |-> x],
         [first |-> IndexOf(doc, x, 0), last |-> LastIndexOf(doc, x, Size(doc)),
          firstLike |-> FindIndex(doc, LAMBDA y : Order(y, x) = 0),
          lastLike |-> FindIndexBack(doc, LAMBDA y : Order(y, x) = 0)])

\* A text is edited, and taken apart and put together again.
EditText(pos, size, what) ==
  /\ doc.type = "string" /\ what # <<>>
  /\ LET s == doc.chars
         inserted == Text!Insert(s, pos, what)
         parts == Text!StringSplit(s, what, size)
     IN Ask([op |-> "text", pos |-> pos, size |-> size, what |-> what],
            [inserted |-> inserted,
             undone |-> Text!Replace(inserted, pos, Len(what), <<>>),
             replaced |-> Text!Replace(s, pos, size, what),
             left |-> Text!Left(s, pos), middle |-> Text!Substr(s, pos, size),
             right |-> Text!Right(s, size), char |-> Text!CharAt(s, pos),
             parts |-> parts, joined |-> Text!Joined(parts, what),
             pieces |-> Text!SplitParts(s, what, size), glued |-> Text!Concat(parts)])

\* A function that gives its results no names.
MapDoc ==
  /\ doc.type \in {"array", "object"}
  /\ Ask([op |-> "map"], Map(doc, StripKey, doc.type))

\* Documents are compared with others only before they change (bound).
Next ==
  \/ ArrayNext \/ PathNext \/ MapDoc
  \/ \E fields \in Fields : SetFields(fields)
  \/ \E x \in Item : IndexDoc(x)
  \/ /\ doc \in Docs
     /\ \/ \E v, w \in Docs : CompareDocs(v, w)
        \/ \E v \in Docs : DiffDocs(v)
        \/ \E find, find2, x \in Item : PatchDoc(find, find2, x)
        \/ \E pos, size \in Position \cap Nat, v \in Docs :
              v.type = "string" /\ EditText(pos, size, v.chars)
Spec == Init /\ [][Next]_vars

-----------------------------------------------------------------------------
(* Properties *)

\* Members of an object, at any depth, are in the order the bisection needs.
RECURSIVE MembersInOrder(_)
MembersInOrder(v) ==
  LET s == Items(v)
  IN /\ v.type = "object" => \A i, j \in DOMAIN s : i < j => s[i].key < s[j].key
     /\ \A i \in DOMAIN s : MembersInOrder(s[i])

TextRight(q, a) ==
  LET s == doc.chars
      n == Len(a.parts)
  IN /\ q.pos <= Len(s) =>
          a.undone = s /\ Text!Substr(a.inserted, q.pos, Len(q.what)) = q.what
     /\ a.left \o a.middle = Text!Left(s, q.pos + q.size)
     /\ Len(a.left) + Len(a.middle) <= Len(s)
     /\ a.replaced = a.left \o q.what \o Text!From(s, Len(a.left) + Len(a.middle))
     /\ IsSuffix(a.right, s) /\ Len(a.right) = Min({q.size, Len(s)})
     /\ a.char # 0 <=> a.middle # <<>> \/ (q.size = 0 /\ q.pos < Len(s))
     /\ a.joined = s /\ n <= q.size + 1
     /\ \A i \in 1 .. n - 1 : Text!At(a.parts[i], q.what) = {}
     /\ n <= q.size => Text!At(a.parts[n], q.what) = {}
     /\ a.pieces = (IF Last(a.parts) = <<>> THEN Front(a.parts) ELSE a.parts)
     /\ Len(a.glued) + (n - 1) * Len(q.what) = Len(s)

\* A difference turns the object it was made from into the other one, whether
\* it is merged or set member by member; setItems does what an Object does that
\* sets the same members; insertions into an array are taken back by removing
\* what was inserted; a map of an object keeps the names of the members; a text
\* is what it was when what was inserted is replaced by nothing, and when the
\* parts it was split into are joined.  A view stays within its parent.
ChangesRight ==
  /\ MembersInOrder(doc)
  /\ IsArray(doc) => WellMade(doc)
  /\ doc.type = "object" /\ returned # None => doc = returned.edited
  /\ question.op = "diff" =>
       /\ MembersInOrder(answer.diff) /\ MembersInOrder(answer.merged)
       /\ Equal(answer.merged, question.other)
       /\ Equal(answer.edited, question.other)
       /\ Equal(doc, question.other) <=> Size(answer.diff) = 0
  /\ question.op = "patch" =>
       /\ Size(answer.patched) = Size(doc) + 2
       /\ IndexOf(doc, question.new, 0) = -1 => Items(answer.undone) = Items(doc)
  /\ question.op = "map" => Equal(answer, doc)
  /\ question.op = "text" => TextRight(question, answer)

\* The one case compare gets wrong: an unsigned number above the range of Int
\* meets a signed one, and is taken for the negative number of the same bits.
RECURSIVE NumbersIn(_)
NumbersIn(v) ==
  IF v.type = "number" THEN {v} ELSE UNION {NumbersIn(x) : x \in ToSet(Items(v))}
Misread(vs) ==
  \E x, y \in UNION {NumbersIn(v) : v \in vs} :
    x.kind = "unsigned" /\ AsInt(x.n) # x.n /\ y.kind = "signed"

IndexRight(x, a) ==
  /\ (a.first = -1) <=> (a.last = -1)
  /\ a.first >= 0 => /\ a.firstLike <= a.first /\ a.first <= a.last
                     /\ a.last <= a.lastLike
                     /\ Equal(ItemAt(doc, a.first), x) /\ Equal(ItemAt(doc, a.last), x)


-----------------------------------------------------------------------------
(* What the documentation says and the code does not do *)

\* value.h says of Value::compare: "retval ==0 left is equal to right".
ZeroMeansEqual ==
  question.op = "compare" => (answer.ab = 0 => Equal(doc, question.second))
=============================================================================
