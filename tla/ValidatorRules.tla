--------------------------- MODULE ValidatorRules ---------------------------
(***************************************************************************)
(* The tests that a Validator makes of one value, without its state        *)
(* (src/src/imtjson/validator.cpp).                                        *)
(*                                                                         *)
(* Texts are sequences of characters, which are numbers (ASCII).  The words*)
(* of the rule language, and names longer than one character, are symbols: *)
(* single numbers above the characters.                                    *)
(***************************************************************************)
EXTENDS Values
LOCAL INSTANCE Strings

Words ==
  <<"string", "number", "boolean", "any", "base64", "base64url", "hex", "uppercase",
    "lowercase", "identifier", "alpha", "alnum", "digits", "integer", "unsigned",
    "native", "minsize", "maxsize", "key", "tostring", "tonumber", "prefix", "suffix",
    "split", "explode", "null", "optional", "undefined", "object", "array", ">", ">=",
    "<", "<=", "all", "not", "datetime", "date", "time", "timez", "setvar", "usevar",
    "emit", "empty", "nonempty">>
Symbol(word) == 1000 + SelectInSeq(Words, LAMBDA w : w = word)
\* The word a text is, if it is one.
WordOf(text) ==
  IF Len(text) = 1 /\ text[1] > 1000 /\ text[1] <= 1000 + Len(Words)
  THEN Words[text[1] - 1000] ELSE "no word"
W(word) == String(<<Symbol(word)>>)
UndefinedRule == W("undefined")
NativeRule == W("native")

\* Names of variables start with $; $this is the value that is tested.
This == 2000
IsVariable(text) == text # <<>> /\ text[1] >= This

ValueEscape == 39
CommentEscape == 35
CharSetBegin == 91
CharSetEnd == 93
Percent == 37
\* The names "%!" and "%%", in the order of names.
PercentMark == 40
PercentTwice == 41

Chars(first, last) == first .. last
Digit == Chars(48, 57)
Upper == Chars(65, 90)
Lower == Chars(97, 122)
Alpha == Upper \cup Lower
Alnum == Alpha \cup Digit
HexDigit == Digit \cup Chars(65, 70) \cup Chars(97, 102)
AllIn(text, set) == text # <<>> /\ \A i \in DOMAIN text : text[i] \in set

\* getString(): of values that are not strings, nothing.
TextOf(v) == IF v.type = "string" THEN v.chars ELSE <<>>

\* toString(): a number as its digits, a container as its brackets.
ToText(v) ==
  CASE v.type = "string" -> v.chars
    [] v.type = "number" -> IF v.n < 0 THEN <<45>> \o Digits(-v.n) ELSE Digits(v.n)
    [] v.type = "boolean" -> IF v.bool THEN <<116, 114, 117, 101>>
                             ELSE <<102, 97, 108, 115, 101>>
    [] v.type = "null" -> <<110, 117, 108, 108>>
    [] v.type = "undefined" -> <<60, 117, 110, 100, 101, 102, 105, 110, 101, 100, 62>>
    [] OTHER -> <<91, 93>>

\* getNumber(): the digits a string starts with.
ToNumber(v) ==
  LET others == {i \in DOMAIN v.chars : v.chars[i] \notin Digit}
      n == IF others = {} THEN Len(v.chars) ELSE Min(others) - 1
  IN CASE v.type = "number" -> v.n
       [] v.type = "boolean" -> IF v.bool THEN 1 ELSE 0
       [] v.type = "string" ->
            FoldLeft(LAMBDA x, c : 10 * x + c - 48, 0, SubSeq(v.chars, 1, n))
       [] OTHER -> 0

\* checkMinSize, checkMaxSize: other values pass.
Measured(v) == v.type \in {"array", "object", "string"}
SizeOf(v) == IF v.type = "string" THEN Len(v.chars) ELSE Size(v)
CheckMinSize(v, n) == Measured(v) => SizeOf(v) >= n
CheckMaxSize(v, n) == Measured(v) => SizeOf(v) <= n

\* isLess: numbers by their value, whatever their kinds.
IsLess(a, b) ==
  /\ a.type = b.type
  /\ CASE a.type = "number" -> a.n < b.n
       [] a.type \in {"string", "boolean"} -> Compare(a, b) < 0
       [] OTHER -> FALSE

IsEmpty(v) == Measured(v) /\ SizeOf(v) = 0
IsNonEmpty(v) == Measured(v) /\ SizeOf(v) > 0

IsInteger(v) == v.type = "number" /\ v.kind # "real"
IsUnsigned(v) == v.type = "number" /\ v.n >= 0

IsHex(text) == AllIn(text, HexDigit)
IsBase64(text) ==
  LET n == Len(text)
      pad == IF n > 0 /\ text[n] = 61 THEN IF text[n - 1] = 61 THEN 2 ELSE 1 ELSE 0
  IN n > 0 /\ n % 4 = 0 /\ AllIn(SubSeq(text, 1, n - pad), Alnum \cup {43, 47})
IsBase64url(text) == Len(text) % 4 # 1 /\ AllIn(text, Alnum \cup {45, 95})
IsIdentifier(text) ==
  \A i \in DOMAIN text : text[i] \in (IF i = 1 THEN Alpha ELSE Alnum) \cup {95}

\* A character against a set that is written as characters and ranges.  The last
\* two characters are tested as themselves too, even when they end a range.
RECURSIVE InRanges(_, _)
InRanges(set, c) ==
  IF Len(set) <= 2 THEN \E i \in DOMAIN set : c = set[i]
  ELSE IF set[2] = 45 THEN \/ c >= set[1] /\ c <= set[3]
                           \/ InRanges(From(set, Min({3, Len(set) - 2})), c)
  ELSE c = set[1] \/ InRanges(Tail(set), c)
\* opTestCharset, of two characters or more between the brackets.
TestCharset(text, rule) ==
  LET inner == Sub(rule, 1, Len(rule) - 2)
      neg == Len(inner) > 1 /\ inner[1] = 94
      set == IF neg THEN Tail(inner) ELSE inner
  IN IF inner = <<>> \/ text = <<>> THEN inner = text
     ELSE \A i \in DOMAIN text : InRanges(set, text[i]) # neg

\* A date and a time: each character of the text against one of the format.
DaysIn(month, leap) ==
  CASE month = 2 -> IF leap THEN 29 ELSE 28
    [] month \in {4, 6, 9, 11} -> 30
    [] OTHER -> 31
DateFields == {68, 77, 89, 104, 109, 115, 79, 111}    \* D M Y h m s O o
Leap(y) == (y % 4 = 0 /\ y % 100 # 0) \/ y % 400 = 0
CheckDateTime(format, text) ==
  LET take(f, i) ==
        CASE format[i] \notin DateFields -> f
          [] format[i] = 111 -> [f EXCEPT ![111] = 10 * f[79] + text[i] - 48]
          [] OTHER -> [f EXCEPT ![format[i]] = 10 * @ + text[i] - 48]
      f == FoldLeft(take, [c \in DateFields |-> 0], [i \in DOMAIN format |-> i])
      has(c) == \E i \in DOMAIN format : format[i] = c
  IN /\ Len(format) = Len(text)
     /\ \A i \in DOMAIN format :
          CASE format[i] \in DateFields \cup {99} -> text[i] \in Digit
            [] format[i] = 43 -> text[i] \in {43, 45}
            [] OTHER -> text[i] = format[i]
     /\ has(89) => f[89] >= 1000
     /\ has(77) => f[77] \in 1 .. 12
     /\ has(68) /\ has(77) => f[68] \in 1 .. DaysIn(f[77], Leap(f[89]))
     /\ f[104] <= 23 /\ f[109] <= 59 /\ f[115] <= 59 /\ f[79] <= 23 /\ f[111] <= 59

Date == <<89, 89, 89, 89, 45, 77, 77, 45, 68, 68>>
Time == <<104, 104, 58, 109, 109, 58, 115, 115>>
Zulu == <<90>>

\* A rule that is one text, without the names of classes.
SimpleWords ==
  {"string", "number", "boolean", "any", "null", "optional", "undefined", "hex", "base64",
   "base64url", "uppercase", "lowercase", "alpha", "alnum", "datetime", "date", "time",
   "timez", "digits", "integer", "unsigned", "identifier", "empty", "nonempty", "object",
   "array"}
IsSimple(text) ==
  \/ text = <<>> \/ WordOf(text) \in SimpleWords
  \/ text[1] \in {ValueEscape, CommentEscape}
  \/ text[1] = CharSetBegin /\ Last(text) = CharSetEnd
TestSimple(v, text) ==
  LET w == WordOf(text)
      t == ToText(v)
  IN CASE text = <<>> \/ text[1] = CommentEscape -> FALSE
       [] text # <<>> /\ text[1] = ValueEscape -> TextOf(v) = Tail(text)
       [] text # <<>> /\ text[1] = CharSetBegin ->
            v.type = "string" /\ TestCharset(v.chars, text)
       [] w \in {"string", "number", "boolean", "null", "object", "array"} -> v.type = w
       [] w = "any" -> Defined(v)
       [] w \in {"optional", "undefined"} -> ~Defined(v)
       [] w = "hex" -> IsHex(t)
       [] w = "base64" -> IsBase64(t)
       [] w = "base64url" -> IsBase64url(t)
       [] w = "uppercase" -> AllIn(t, Upper)
       [] w = "lowercase" -> AllIn(t, Lower)
       [] w = "alpha" -> AllIn(t, Alpha)
       [] w = "alnum" -> AllIn(t, Alnum)
       [] w = "digits" -> AllIn(t, Digit)
       [] w = "datetime" -> CheckDateTime(Date \o <<84>> \o Time \o Zulu, t)
       [] w = "date" -> CheckDateTime(Date, t)
       [] w = "time" -> CheckDateTime(Time, t)
       [] w = "timez" -> CheckDateTime(Time \o Zulu, t)
       [] w = "integer" -> IsInteger(v)
       [] w = "unsigned" -> IsUnsigned(v)
       [] w = "identifier" -> IsIdentifier(t)
       [] w = "empty" -> IsEmpty(v)
       [] OTHER -> IsNonEmpty(v)

-----------------------------------------------------------------------------
(* Variables, names and parts *)

FindVar(list, name, this) ==
  LET at == SelectLastInSeq(list, LAMBDA x : x.key = name)
  IN CASE name = This -> this
       [] name # This /\ at > 0 -> list[at]
       [] OTHER -> Undefined
SymbolOf(text) == IF Len(text) = 1 THEN text[1] ELSE -1

\* An array that starts with a variable is the way to a part of its value.
RECURSIVE GetVar(_, _, _)
GetVar(list, p, this) ==
  LET key(k) == IF k.type = "array" THEN GetVar(list, k, this) ELSE k
      step(k) == IF k.type = "string" THEN Name(SymbolOf(k.chars)) ELSE Index(k.n)
      part(x, keys) ==
        IF Defined(x) /\ \A i \in DOMAIN keys : keys[i].type \in {"string", "number"}
        THEN AtPath(x, [i \in DOMAIN keys |-> step(keys[i])]) ELSE p
  IN IF p.type = "array" /\ ItemAt(p, 0).type = "string"
     THEN part(FindVar(list, SymbolOf(TextOf(ItemAt(p, 0))), this),
               [i \in 1 .. Size(p) - 1 |-> key(ItemAt(p, i))]) ELSE p

\* What is emitted: the message with its variables replaced.
RECURSIVE WalkObject(_, _, _)
WalkObject(list, this, v) ==
  LET walked == [i \in 1 .. Size(v) |->
                   WithKey(ItemAt(v, i - 1).key, WalkObject(list, this, ItemAt(v, i - 1)))]
      z == GetVar(list, v, this)
  IN CASE v.type = "array" -> IF z # v THEN z ELSE Array(walked)
       [] v.type = "object" -> Build("object", walked)
       [] OTHER -> v

\* "%" is the rule of members without one; otherwise a % is taken from names of
\* nothing else.
ParseKey(k) == CASE k = Percent -> 0 [] k = PercentTwice -> Percent [] OTHER -> k

\* opExplode: no limit, or 0, is none.
Explode(s, sep, limit) ==
  LET text == TextOf(s)
      n == IF Defined(limit) /\ ToNumber(limit) > 0 THEN ToNumber(limit) ELSE Len(text)
      parts == SplitParts(text, sep, n)
  IN Array([i \in DOMAIN parts |-> String(parts[i])])
=============================================================================
