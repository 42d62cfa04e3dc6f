------------------------------ MODULE Strings ------------------------------
(***************************************************************************)
(* Strings: json::String and Split (src/src/imtjson/string.cpp).  A string *)
(* is a sequence of characters, which are numbers.  Positions count from   *)
(* 0, and -1 stands for npos.                                              *)
(***************************************************************************)
EXTENDS Integers, Sequences, SequencesExt, FiniteSetsExt

\* std::string_view: the occurrences of a text in another, substr, find, rfind.
At(a, what) ==
  {p \in 0 .. Len(a) - Len(what) : SubSeq(a, p + 1, p + Len(what)) = what}
Sub(a, pos, len) == SubSeq(a, pos + 1, Min({pos + len, Len(a)}))
From(a, pos) == Sub(a, pos, Len(a))
Find(a, what, start) ==
  LET p == {q \in At(a, what) : q >= start} IN IF p = {} THEN -1 ELSE Min(p)
FindBack(a, what, start) ==
  LET p == {q \in At(a, what) : q <= start} IN IF p = {} THEN -1 ELSE Max(p)

Substr(a, pos, len) == IF pos >= Len(a) THEN <<>> ELSE Sub(a, pos, len)
Left(a, len) == Sub(a, 0, len)
Right(a, len) == LET n == Min({len, Len(a)}) IN Sub(a, Len(a) - n, n)
CharAt(a, pos) == IF pos >= Len(a) THEN 0 ELSE a[pos + 1]
Concat(list) == FlattenSeq(list)

Insert(a, pos, what) ==
  LET p == Min({pos, Len(a)}) IN Left(a, p) \o what \o From(a, p)

\* The end that is left out is computed without an overflow.
Replace(a, pos, size, what) ==
  LET p == Min({pos, Len(a)})
      n == Min({size, Len(a) - p})
  IN Left(a, p) \o what \o From(a, p + n)

\* String::split: at most max cuts.  The separator has a character.
RECURSIVE StringSplit(_, _, _)
StringSplit(a, sep, max) ==
  LET p == Find(a, sep, 0)
  IN IF p < 0 \/ max = 0 THEN <<a>>
     ELSE <<Left(a, p)>> \o StringSplit(From(a, p + Len(sep)), sep, max - 1)

\* class Split: it stops at an empty rest, so a separator at the end makes no
\* part, and without a separator there is none at all.
RECURSIVE SplitParts(_, _, _)
SplitParts(a, sep, limit) ==
  LET p == IF limit > 0 THEN Find(a, sep, 0) ELSE -1
  IN IF a = <<>> \/ sep = <<>> THEN <<>>
     ELSE IF p < 0 THEN <<a>>
     ELSE <<Left(a, p)>> \o SplitParts(From(a, p + Len(sep)), sep, limit - 1)

\* The digits of a number.
RECURSIVE Digits(_)
Digits(n) == IF n < 10 THEN <<48 + n>> ELSE Append(Digits(n \div 10), 48 + (n % 10))

\* Value::join of strings.
Joined(parts, sep) ==
  FlattenSeq([i \in DOMAIN parts |-> IF i = 1 THEN parts[i] ELSE sep \o parts[i]])
=============================================================================
