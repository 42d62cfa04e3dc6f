------------------------------ MODULE PathOps ------------------------------
(***************************************************************************)
(* A program that uses paths into the value in its variable: it replaces   *)
(* what is at one of them, looks what is at it and at another one          *)
(* afterwards, and compares the two.                                       *)
(***************************************************************************)
EXTENDS ArrayOps, Paths

CONSTANTS
  UsedPaths    \* the paths programs use

\* As the parser and the builders make them: a container owns its items, and
\* the members of an object have a value and are in order, one of each name.
Regular(v) ==
  /\ ~IsView(v)
  /\ v.type \in {"array", "object"} => v.items \in Seq(ToSet(v.items))
  /\ v.type = "object" =>
       LET s == v.items
       IN /\ \A i \in DOMAIN s : Defined(s[i]) /\ s[i].key \in Int
          /\ \A i, j \in DOMAIN s : i < j => s[i].key < s[j].key
ASSUME PathAssumption ==
  /\ UsedPaths \subseteq Seq([name : BOOLEAN, key : Nat])
  /\ \A d \in Docs, path \in UsedPaths : \A n \in DOMAIN path :
       Regular(AtPath(d, SubSeq(path, 1, n - 1)))
  /\ \A x \in Item : Defined(x) /\ {"type", "key"} \subseteq DOMAIN x

-----------------------------------------------------------------------------

\* Of the two paths the first one is used; without a value it removes.
ReplaceIn(path, path2, x) ==
  Ask([op |-> "replace", path |-> path, path2 |-> path2, new |-> x],
      [value |-> ReplaceByPath(doc, path, x), order |-> ComparePaths(path, path2),
       order2 |-> ComparePaths(path2, path)])

\* Paths are used before the document changes (bound).
PathNext ==
  /\ doc \in Docs
  /\ \E path, path2 \in UsedPaths, x \in Item \cup {Undefined} : ReplaceIn(path, path2, x)

\* Whatever else the program does, it asks nothing of this kind.
PathSpec == Init /\ [][PathNext \/ question'.op # "replace"]_vars

-----------------------------------------------------------------------------
(* Property *)

\* They part at two names, or at two positions.
Apart(p, q) ==
  LET differ == {i \in DOMAIN p \cap DOMAIN q : p[i] # q[i]}
  IN differ # {} /\ p[Min(differ)].name = q[Min(differ)].name

\* What is put at a path is found there, under the name the path gives it, and
\* what is at paths beside it stays, whatever became of the containers on the
\* way; paths that compare as equal are the same, whichever is asked.
PathsAgree ==
  question.op = "replace" =>
    /\ StripKey(AtPath(answer.value, question.path)) = StripKey(question.new)
    /\ Apart(question.path, question.path2) =>
         AtPath(answer.value, question.path2) = AtPath(doc, question.path2)
    /\ (answer.order = 0) <=> (question.path = question.path2)
    /\ answer.order2 = -answer.order
=============================================================================
