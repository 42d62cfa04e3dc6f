---------------------------- MODULE RuleMeaning ----------------------------
(***************************************************************************)
(* What the rules of a Validator mean: which values each accepts, stated   *)
(* with quantifiers over the parts of the value and of the rule.  There is *)
(* no order of evaluation here, no state, and there are no exceptions.     *)
(***************************************************************************)
EXTENDS ValidatorRules
LOCAL INSTANCE Strings

CONSTANT Native(_, _)      \* onNativeRule, given by the application

\* r accepts s, with list the variables, in a validator with the definition def.
RECURSIVE Accepts(_, _, _, _)
Accepts(def, s, r, list) ==
  LET arg(i) == ItemAt(r, i)
      n == Size(r)
      fn == arg(0)
      w == WordOf(TextOf(fn))
      value(i) == GetVar(list, arg(i), s)
      any(x, from) == \E i \in from .. n - 1 : Accepts(def, x, arg(i), list)
      operator(i) == WordOf(TextOf(arg(i))) \in {"<", "<=", ">", ">="}
      class == Member(def, SymbolOf(TextOf(r)))
      member(k) == LET own == {m \in ToSet(Items(r)) : m.key # Percent /\ ParseKey(m.key) = k}
                   IN IF own = {} THEN Member(r, Percent) ELSE CHOOSE m \in own : TRUE
      names == {m.key : m \in ToSet(Items(s))}
               \cup {ParseKey(m.key) : m \in {x \in ToSet(Items(r)) : x.key # Percent}}
      bound(i) ==
        LET p == value(i + 1)
        IN p.type = s.type /\ CASE WordOf(TextOf(arg(i))) = "<" -> IsLess(s, p)
                                [] WordOf(TextOf(arg(i))) = "<=" -> ~IsLess(p, s)
                                [] WordOf(TextOf(arg(i))) = ">" -> IsLess(p, s)
                                [] OTHER -> ~IsLess(s, p)
      all(from) ==
        \A i \in from .. n - 1 :
          CASE (i > 0 /\ operator(i - 1)) \/ Left(TextOf(arg(i)), 1) = <<CommentEscape>> -> TRUE
            [] operator(i) -> bound(i)
            [] OTHER -> Accepts(def, s, arg(i), list)
      tuple(k) ==
        /\ s.type = "array"
        /\ \A i \in 0 .. Max({k, Size(s)}) - 1 :
             IF i < k THEN Accepts(def, ItemAt(s, i), arg(i + 1), list)
             ELSE any(ItemAt(s, i), k + 1)
  IN CASE r.type = "undefined" -> FALSE
       [] r.type \in {"null", "boolean", "number"} -> Equal(s, r)
       [] r.type = "object" ->
            /\ s.type = "object"
            /\ \A k \in names \ {0} : Accepts(def, Member(s, k), member(k), list)
            \* An empty object has a member "%", which has no value.
            /\ Size(s) = 0 /\ Defined(Member(r, Percent)) =>
                 Accepts(def, Undefined, Member(r, Percent), list)
       [] r.type = "string" ->
            CASE IsSimple(r.chars) -> TestSimple(s, r.chars)
              [] ~IsSimple(r.chars) /\ Equal(class, NativeRule) -> Native(s, r.chars)
              [] OTHER -> Accepts(def, s, class, list)
       [] r.type = "array" /\ n = 0 -> s.type = "array" /\ Size(s) = 0
       [] r.type = "array" /\ n > 0 ->
            CASE fn.type = "array" /\ Size(fn) = 0 -> tuple(0)
              [] fn.type = "array" /\ Size(fn) = 1 /\ ItemAt(fn, 0).type = "number" ->
                   tuple(ItemAt(fn, 0).n)
              [] w = "minsize" -> CheckMinSize(s, ToNumber(value(1)))
              [] w = "maxsize" -> CheckMaxSize(s, ToNumber(value(1)))
              [] w = "key" -> any(String(IF s.key = 0 THEN <<>> ELSE <<s.key>>), 1)
              [] w = "tostring" -> any(String(ToText(s)), 1)
              [] w = "tonumber" -> any(Number("real", ToNumber(s)), 1)
              [] w \in {"prefix", "suffix"} ->
                   LET list1 == value(1).type = "array"
                       parts(x) == IF list1 THEN Items(x) ELSE TextOf(x)
                       made(p) == IF list1 THEN Array(p) ELSE String(p)
                       size == Len(parts(s)) - Len(parts(value(1)))
                       ends == <<Left(parts(s), Len(parts(value(1)))), Right(parts(s), size)>>
                       starts == <<Right(parts(s), Len(parts(value(1)))), Left(parts(s), size)>>
                       cut == IF w = "prefix" THEN ends ELSE starts
                   \* An object is a list of its members, unless it is all there is.
                   IN /\ size >= (IF list1 /\ s.type = "object" THEN 1 ELSE 0)
                      /\ Equal(made(cut[1]), made(parts(value(1))))
                      /\ n > 2 => any(made(cut[2]), 2)
              [] w = "split" ->
                   LET parts == SplitAt(s, ToNumber(value(1)))
                   IN Accepts(def, parts[1], arg(2), list) /\ Accepts(def, parts[2], arg(3), list)
              [] w = "explode" -> Accepts(def, Explode(s, TextOf(value(1)), arg(3)), arg(2), list)
              [] w \in {"<", "<=", ">", ">="} -> all(0)
              [] w = "all" -> all(1)
              [] w = "datetime" -> CheckDateTime(TextOf(value(1)), ToText(s))
              [] w = "not" -> ~any(s, 1)
              [] w = "setvar" ->
                   /\ IsVariable(TextOf(arg(1)))
                   /\ \E i \in 2 .. n - 1 :
                        Accepts(def, s, arg(i), Append(list, WithKey(SymbolOf(TextOf(arg(1))), s)))
              [] w = "usevar" ->
                   LET x == IF arg(1).type = "array" THEN value(1)
                            ELSE FindVar(list, SymbolOf(TextOf(arg(1))), s)
                   IN Defined(x) /\ any(x, 2)
              [] w = "emit" -> Accepts(def, s, arg(2), list)
              [] OTHER -> IF Defined(FindVar(list, SymbolOf(TextOf(fn)), s))
                          THEN Equal(s, GetVar(list, r, s)) ELSE any(s, 0)
=============================================================================
