------------------------------ MODULE Validator ------------------------------
(***************************************************************************)
(* json::Validator (src/src/imtjson/validator.cpp): an object with a       *)
(* definition that is asked again and again whether values satisfy rules.  *)
(* It keeps what it rejected, what it emitted, variables, and the last     *)
(* rule it rejected, which no call resets.                                 *)
(*                                                                         *)
(* A rule is named by its place, the path to it in the definition: two     *)
(* rules at different places are different objects, whatever they say, but *)
(* for the few values that exist once.  An evaluation takes the state st   *)
(* and gives a verdict and the next state; a class that does not exist is  *)
(* an exception, which ends it.                                            *)
(***************************************************************************)
EXTENDS RuleMeaning
LOCAL INSTANCE Strings

CONSTANTS
  Subjects,         \* definitions, and what a validator with each is asked about
  Variables,        \* lists of variables that are set
  Plain,            \* classes whose rules test parts of the value, and no texts made of it
  MaxLeft           \* bound: variables that exceptions leave behind

VARIABLES
  def,              \* its definition
  rejections, emits, varList, lastRejectedRule,
  asked, verdict    \* the last question and its answer
vars == <<def, rejections, emits, varList, lastRejectedRule, asked, verdict>>

Version == 2      \* the name of the member with the version
NoPlace == <<>>
Fresh(rule) == [rule |-> rule, place |-> NoPlace]

RuleAt(place) == AtPath(def, place)
Arg(place, i) == Append(place, Index(i))

Give(v, st) == [verdict |-> v, st |-> st]
Say(b, st) == Give(IF b THEN "yes" ELSE "no", st)
No(st) == Give("no", st)

\* Value::isCopyOf holds of these wherever they stand.
Single(v) == v.type \in {"null", "boolean"} \/ Equal(v, Number("unsigned", 0)) \/ IsEmpty(v)

\* What is rejected twice in a row, and what contains the item rejected last, is
\* not reported.
Report(st, path, r) ==
  LET own == r.place # NoPlace /\ st.last.place # NoPlace /\ Front(st.last.place) = r.place
      single == Single(st.last.rule) /\ \E x \in ToSet(Items(r.rule)) : Equal(x, st.last.rule)
      inner == own \/ single
  IN CASE Equal(r.rule, st.last.rule) -> st
       [] ~Equal(r.rule, st.last.rule) /\ inner -> [st EXCEPT !.last = r]
       [] OTHER -> [st EXCEPT !.last = r,
                    !.rejections = Append(@, [path |-> path, rule |-> r.rule])]
AddRejection(st, path, place) ==
  Report(st, path, IF Defined(RuleAt(place)) THEN [rule |-> RuleAt(place), place |-> place]
                   ELSE Fresh(UndefinedRule))

\* What was rejected on the way to an acceptance is forgotten.
Forgotten_Not(e, st) == e.st.rejections
Forgotten(e, st) == SubSeq(e.st.rejections, 1, Len(st.rejections))
Settle(e, path, place, st) ==
  CASE e.verdict = "no" -> No(AddRejection(e.st, path, place))
    [] e.verdict = "yes" -> Give("yes", [e.st EXCEPT !.rejections = Forgotten(e, st)])
    [] OTHER -> e

-----------------------------------------------------------------------------
(* Rules *)

RECURSIVE Eval(_, _, _, _), Alternatives(_, _, _, _, _), Ranges(_, _, _, _, _),
          Tuple(_, _, _, _, _, _), Members(_, _, _, _), WithParams(_, _, _, _)

\* evalRule
Eval(s, place, path, st) ==
  LET r == RuleAt(place)
      class == <<Name(SymbolOf(TextOf(r)))>>
  IN CASE r.type = "object" ->
            Settle(IF s.type # "object" THEN No(st)
                   ELSE Members(<<Items(s), Items(r)>>, place, path, st),
                   path, place, st)
       [] r.type = "array" -> Settle(WithParams(s, place, path, st), path, place, st)
       [] r.type = "undefined" -> Settle(No(st), path, place, st)
       [] r.type = "string" ->
            Settle(CASE IsSimple(r.chars) -> Say(TestSimple(s, r.chars), st)
                     [] ~IsSimple(r.chars) /\ ~Defined(RuleAt(class)) -> Give("throw", st)
                     [] ~IsSimple(r.chars) /\ Equal(RuleAt(class), NativeRule) ->
                          Say(Native(s, r.chars), st)
                     [] OTHER -> Eval(s, class, path, st), path, place, st)
       [] OTHER -> Say(Equal(s, r), st)

\* evalRuleAlternatives: the arguments of a rule from the i-th on.
Alternatives_Short(s, place, i, path, st) ==
  IF i + 1 >= Size(RuleAt(place)) THEN No(st)
  ELSE LET e == Eval(s, Arg(place, i), path, st)
       IN IF e.verdict = "no" THEN Alternatives(s, place, i + 1, path, e.st) ELSE e
Alternatives(s, place, i, path, st) ==
  IF i >= Size(RuleAt(place)) THEN No(st)
  ELSE LET e == Eval(s, Arg(place, i), path, st)
       IN IF e.verdict = "no" THEN Alternatives(s, place, i + 1, path, e.st) ELSE e

\* opRangeDef: all of them; an operator takes the argument after it.
Ranges(s, place, i, path, st) ==
  LET r == ItemAt(RuleAt(place), i)
      word == WordOf(TextOf(r))
      p == GetVar(st.vars, ItemAt(RuleAt(place), i + 1), s)
      holds == p.type = s.type /\ IF word \in {"<", ">="} THEN IsLess(s, p) = (word = "<")
                                  ELSE IsLess(p, s) = (word = ">")
      e == Eval(s, Arg(place, i), path, st)
  IN CASE i >= Size(RuleAt(place)) -> Give("yes", st)
       [] i < Size(RuleAt(place)) /\ Left(TextOf(r), 1) = <<CommentEscape>> ->
            Ranges(s, place, i + 1, path, st)
       [] i < Size(RuleAt(place)) /\ word \in {"<", "<=", ">", ">="} ->
            IF holds THEN Ranges(s, place, i + 2, path, st) ELSE No(st)
       [] OTHER -> IF e.verdict = "yes" THEN Ranges(s, place, i + 1, path, e.st) ELSE e

\* evalRuleArray: the first n items by a rule each, the others by any of the rest.
Tuple(s, place, n, i, path, st) ==
  LET at == Append(path, Index(i))
      x == ItemAt(s, i)
      e == IF i < n THEN Eval(x, Arg(place, i + 1), at, st)
           ELSE Settle(Alternatives(x, place, n + 1, at, st), at, place, st)
  IN CASE s.type # "array" -> No(st)
       [] s.type = "array" /\ i >= n /\ i >= Size(s) -> Give("yes", st)
       [] OTHER -> IF e.verdict = "yes" THEN Tuple(s, place, n, i + 1, path, e.st) ELSE e

\* evalRuleObject: members of the value and of the template in one pass, rest is
\* what is left of both.  Only while there are some of both is "%" not a name.
Members(rest, place, path, st) ==
  LET s == rest[1]
      t == rest[2]
      both == s # <<>> /\ t # <<>>
      sk == Head(s).key
      tk == IF both THEN ParseKey(Head(t).key) ELSE Head(t).key
      first == s # <<>> /\ (t = <<>> \/ sk <= tk)
      second == t # <<>> /\ (s = <<>> \/ tk <= sk)
      k == IF first THEN sk ELSE tk
      rule == Append(place, Name(IF second THEN Head(t).key ELSE Percent))
      next == <<IF first THEN Tail(s) ELSE s, IF second THEN Tail(t) ELSE t>>
      at == Append(path, Name(k))
      e == Eval(IF first THEN Head(s) ELSE Undefined, rule, at, st)
  IN CASE s = <<>> /\ t = <<>> -> Give("yes", st)
       [] both /\ Head(t).key = Percent -> Members(next, place, path, st)
       [] OTHER -> CASE e.verdict = "yes" -> Members(next, place, path, e.st)
                     [] e.verdict = "no" -> No(AddRejection(e.st, at, rule))
                     [] OTHER -> e

\* opPrefix, opSuffix: what is left of the value, if it starts or ends so.
Cut(s, fix, front) ==
  LET parts == SplitAt(s, IF front THEN Size(fix) ELSE -Size(fix))
      text == TextOf(s)
      n == Len(TextOf(fix))
      same == IF front THEN Left(text, n) = TextOf(fix)
              ELSE n <= Len(text) /\ Right(text, n) = TextOf(fix)
  IN CASE fix.type = "array" ->
            IF Equal(parts[IF front THEN 1 ELSE 2], fix)
            THEN <<parts[IF front THEN 2 ELSE 1]>> ELSE <<>>
       [] fix.type # "array" /\ same ->
            <<String(IF front THEN From(text, n) ELSE Left(text, Len(text) - n))>>
       [] OTHER -> <<>>

\* Values tested under a variable.  An exception leaves it behind.
Unset(st) == [st EXCEPT !.vars = Front(@)]
SetVar(s, place, path, st) ==
  LET name == TextOf(ItemAt(RuleAt(place), 1))
      e == Alternatives(s, place, 2, path,
                        [st EXCEPT !.vars = Append(@, WithKey(SymbolOf(name), s))])
  IN CASE ~IsVariable(name) -> No(st)
       [] IsVariable(name) /\ e.verdict # "throw" -> Give(e.verdict, Unset(e.st))
       [] OTHER -> e

\* evalRuleWithParams: "^" is all, "!" is not.
WithParams(s, place, path, st) ==
  LET rule == RuleAt(place)
      arg(i) == ItemAt(rule, i)
      value(i) == GetVar(st.vars, arg(i), s)
      any(x, i) == Alternatives(x, place, i, path, st)
      fn == arg(0)
      w == WordOf(TextOf(fn))
      emitted == Eval(s, Arg(place, 2), path, st)
      parts == SplitAt(s, ToNumber(value(1)))
      half == Eval(parts[1], Arg(place, 2), path, st)
      used == IF arg(1).type = "array" THEN GetVar(st.vars, arg(1), s)
              ELSE FindVar(st.vars, SymbolOf(TextOf(arg(1))), s)
      cut == Cut(s, value(1), w = "prefix")
  IN CASE rule.items = <<>> -> Say(s.type = "array" /\ Size(s) = 0, st)
       [] fn.type = "array" /\ Size(fn) = 0 -> Tuple(s, place, 0, 0, path, st)
       [] fn.type = "array" /\ Size(fn) = 1 /\ ItemAt(fn, 0).type = "number" ->
            Tuple(s, place, ItemAt(fn, 0).n, 0, path, st)
       [] w = "minsize" -> Say(CheckMinSize(s, ToNumber(value(1))), st)
       [] w = "maxsize" -> Say(CheckMaxSize(s, ToNumber(value(1))), st)
       [] w = "key" -> any(String(IF s.key = 0 THEN <<>> ELSE <<s.key>>), 1)
       [] w = "tostring" -> any(String(ToText(s)), 1)
       [] w = "tonumber" -> any(Number("real", ToNumber(s)), 1)
       [] w \in {"prefix", "suffix"} ->
            IF cut # <<>> /\ Defined(arg(2)) THEN any(cut[1], 2) ELSE Say(cut # <<>>, st)
       [] w = "split" ->
            IF half.verdict = "yes" THEN Eval(parts[2], Arg(place, 3), path, half.st)
            ELSE half
       [] w = "explode" ->
            Eval(Explode(s, TextOf(value(1)), arg(3)), Arg(place, 2), path, st)
       [] w \in {"<", "<=", ">", ">="} -> Ranges(s, place, 0, path, st)
       [] w = "all" -> Ranges(s, place, 1, path, st)
       [] w = "datetime" -> Say(CheckDateTime(TextOf(value(1)), ToText(s)), st)
       [] w = "not" ->
            LET e == any(s, 1)
            IN IF e.verdict = "throw" THEN e ELSE Say(e.verdict = "no", e.st)
       [] w = "setvar" -> SetVar(s, place, path, st)
       [] w = "usevar" -> IF Defined(used) THEN any(used, 2) ELSE No(st)
       [] w = "emit" ->
            IF emitted.verdict # "yes" THEN emitted
            ELSE Give("yes", [emitted.st EXCEPT
                   !.emits = Append(@, WalkObject(emitted.st.vars, s, arg(1)))])
       [] OTHER ->
            IF Defined(FindVar(st.vars, SymbolOf(TextOf(fn)), s))
            THEN Say(Equal(s, GetVar(st.vars, rule, s)), st) ELSE any(s, 0)

-----------------------------------------------------------------------------
(* The validator *)

State ==
  [rejections |-> rejections, emits |-> emits, vars |-> varList, last |-> lastRejectedRule]
Cleared_Rejections(st) == [st EXCEPT !.rejections = <<>>]
Cleared(st) == [st EXCEPT !.rejections = <<>>, !.emits = <<>>]
RightVersion ==
  LET v == RuleAt(<<Name(Version)>>) IN Defined(v) => ToNumber(v) = 1

None == [subject |-> Undefined, rule |-> 0, vars |-> <<>>]
Init ==
  /\ def \in DOMAIN Subjects
  /\ rejections = <<>> /\ emits = <<>> /\ varList = <<>>
  /\ lastRejectedRule = Fresh(Undefined)
  /\ asked = None /\ verdict = "none"

\* A definition of another version rejects everything, and forgets nothing.
Answer(s, name) ==
  LET version == <<Name(Version)>>
  IN IF RightVersion THEN Eval(s, <<Name(name)>>, <<>>, Cleared(State))
     ELSE No(AddRejection(State, version, version))
Validate(s, name) ==
  /\ Len(varList) <= MaxLeft
  /\ asked' = [subject |-> s, rule |-> name, vars |-> varList]
  /\ \E e \in {Answer(s, name)} :
       /\ verdict' = e.verdict
       /\ rejections' = e.st.rejections /\ emits' = e.st.emits
       /\ varList' = e.st.vars /\ lastRejectedRule' = e.st.last
  /\ UNCHANGED def

SetVariables(list) ==
  /\ varList' = list /\ asked' = None /\ verdict' = "none"
  /\ UNCHANGED <<def, rejections, emits, lastRejectedRule>>

Next ==
  \/ \E s \in Subjects[def], r \in ToSet(def.items) :
       r.key # Version /\ Validate(s, r.key)
  \/ \E list \in Variables : SetVariables(list)
Spec == Init /\ [][Next]_vars

-----------------------------------------------------------------------------
(* Properties *)

\* The verdict is what the rule means for the value, under the variables that
\* are set: walking members and template in one pass misses no member and no
\* rule, and the variables of a setvar end with it.
VerdictRight ==
  asked # None /\ verdict # "throw" =>
    (verdict = "yes") <=>
      /\ RightVersion
      /\ Accepts(def, asked.subject, RuleAt(<<Name(asked.rule)>>), asked.vars)

\* Nothing is reported of a value that is accepted, although parts of it were
\* rejected on the way; what is reported of one that is not is true: the value
\* at the path does not satisfy the rule.  (That something is reported cannot be
\* said: see RejectedIsReported.)
RejectionsRight ==
  asked # None /\ RightVersion =>
    /\ verdict = "yes" => rejections = <<>>
    /\ verdict = "no" /\ asked.rule \in Plain =>
         \A i \in DOMAIN rejections :
           ~Accepts(def, AtPath(asked.subject, rejections[i].path), rejections[i].rule,
                    asked.vars)

\* What a validator was asked before does not change its verdict or what it
\* emits, and it keeps the variables it was given, unless an exception left one
\* of a rule behind.
HistoryFree ==
  asked # None /\ RightVersion =>
    LET new == [rejections |-> <<>>, emits |-> <<>>, vars |-> asked.vars,
                last |-> Fresh(Undefined)]
        same(e) == verdict = e.verdict /\ emits = e.st.emits
    IN /\ same(Eval(asked.subject, <<Name(asked.rule)>>, <<>>, new))
       /\ IF verdict = "throw" THEN IsPrefix(asked.vars, varList) ELSE varList = asked.vars

\* validator.h: "The whole rule-line is rejected when no rule accept the item. Then
\* whole rule-line is reported."  It is not where addRejection takes it for the
\* rule that was rejected last, or for one that contains it: in an earlier
\* validation, or on the way to an acceptance, which forgets the rejections and not
\* the rule.  A class that is no rule-line but a literal is never reported.
RejectedIsReported ==
  verdict = "no" /\ RuleAt(<<Name(asked.rule)>>).type = "array" => rejections # <<>>
=============================================================================
