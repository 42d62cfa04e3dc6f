------------------------------ MODULE Numerals ------------------------------
(***************************************************************************)
(* Numbers as texts: how the parser reads one, with and without            *)
(* allowPreciseNumbers, and how the serializer writes one (src/src/imtjson *)
(* parser.h, stringValue.cpp, serializer.h).                               *)
(*                                                                         *)
(* Integers have Width bits.  A double is a decimal <<m, e>>, m times 10   *)
(* to the e, and its arithmetic is exact.  The n of a number here is such  *)
(* a decimal, whatever the kind.  Texts are sequences of bytes.            *)
(***************************************************************************)
EXTENDS Values, Strings

CONSTANTS
  Precision,      \* digits after the point: maxPrecisionDigits, at most 9
  Small, Large    \* exponents between -Small and Large are not written

UMax == 2 ^ Width - 1
Digit == 48 .. 57
Point == 46
Minus == 45
Plus == 43
Exponent == {69, 101}
IsDigit(s) == s # <<>> /\ Head(s) \in Digit

RECURSIVE Decimal(_, _)
Decimal(m, e) ==
  CASE m = 0 -> <<0, 0>>
    [] m # 0 /\ m % 10 = 0 -> Decimal(m \div 10, e + 1)
    [] OTHER -> <<m, e>>
Scaled(d, e) == Decimal(d[1], d[2] + e)
Negative(d) == <<-d[1], d[2]>>
Signed(neg, d) == IF neg THEN Negative(d) ELSE d
Added(c, d) ==
  LET e == Min({c[2], d[2]})
  IN Decimal(c[1] * 10 ^ (c[2] - e) + d[1] * 10 ^ (d[2] - e), e)
Infinity == <<1, 1000>>

Integer(kind, n) == Number(kind, Decimal(n, 0))
Double(d) == Number("real", d)

\* What is read, if anything, and what is left to read.
Took(v, rest) == [ok |-> TRUE, v |-> v, rest |-> rest]
Failed(rest) == [ok |-> FALSE, v |-> Undefined, rest |-> rest]

-----------------------------------------------------------------------------
(* Reading *)

\* Digits as long as the number fits.
Overflows_First(res, next) == res > UMax \div 10
Overflows(res, next) == res > UMax \div 10 \/ next < res
RECURSIVE ParseUnsigned(_, _)
ParseUnsigned(s, res) ==
  LET next == (10 * res + Head(s) - 48) % (UMax + 1)
  IN CASE ~IsDigit(s) -> [n |-> res, rest |-> s, complete |-> TRUE]
       [] IsDigit(s) /\ Overflows(res, next) ->
            [n |-> res, rest |-> s, complete |-> FALSE]
       [] OTHER -> ParseUnsigned(Tail(s), next)

\* The rest of the digits, as many at once as fit.
RECURSIVE ParseLargeUnsigned(_, _)
ParseLargeUnsigned(d, s) ==
  LET part == ParseUnsigned(s, 0)
  IN IF ~IsDigit(s) THEN Took(d, s)
     ELSE ParseLargeUnsigned(Added(Scaled(d, Len(s) - Len(part.rest)), Decimal(part.n, 0)),
                             part.rest)

RECURSIVE ParseDecimalPart(_, _, _)
ParseDecimalPart(m, pos, s) ==
  IF IsDigit(s) THEN ParseDecimalPart(10 * m + Head(s) - 48, pos + 1, Tail(s))
  ELSE Took(Decimal(m, -pos), s)

ReadSign(s) ==
  [neg |-> s # <<>> /\ Head(s) = Minus,
   rest |-> IF s # <<>> /\ Head(s) \in {Plus, Minus} THEN Tail(s) ELSE s]

\* After the fraction: an exponent, if there is one.
ParseExponent(d, s) ==
  LET sign == ReadSign(Tail(s))
      part == ParseUnsigned(sign.rest, 0)
  IN CASE s = <<>> -> Took(d, s)
       [] s # <<>> /\ Head(s) \notin Exponent -> Took(d, s)
       [] OTHER ->
            IF ~IsDigit(sign.rest) \/ ~part.complete THEN Failed(part.rest)
            ELSE Took(Scaled(d, IF sign.neg THEN -part.n ELSE part.n), part.rest)

ParseDouble(intpart, neg, s) ==
  LET int == ParseLargeUnsigned(Decimal(intpart, 0), s)
      dot == int.rest # <<>> /\ Head(int.rest) = Point
      frac == ParseDecimalPart(0, 0, Tail(int.rest))
      made(done) == IF done.ok THEN Took(Double(Signed(neg, done.v)), done.rest) ELSE done
  IN CASE dot /\ ~IsDigit(Tail(int.rest)) -> Failed(Tail(int.rest))
       [] dot /\ IsDigit(Tail(int.rest)) ->
            made(ParseExponent(Added(int.v, frac.v), frac.rest))
       [] OTHER -> made(ParseExponent(int.v, int.rest))

\* A negative integer that does not fit is a double.
SignBit(n) == n >= 2 ^ (Width - 1)
ParseNumber(s) ==
  LET sign == ReadSign(s)
      int == ParseUnsigned(sign.rest, 0)
      more == int.rest # <<>> /\ Head(int.rest) \in Exponent \cup {Point}
      integer == CASE ~sign.neg -> Integer("unsigned", int.n)
                   [] sign.neg /\ SignBit(int.n) -> Double(Negative(Decimal(int.n, 0)))
                   [] OTHER -> Integer("signed", -int.n)
  IN IF ~IsDigit(sign.rest) /\ (sign.rest = <<>> \/ Head(sign.rest) # Point)
     THEN Failed(sign.rest)
     ELSE IF ~int.complete \/ more THEN ParseDouble(int.n, sign.neg, int.rest)
     ELSE Took(integer, int.rest)

\* How many digits a text starts with, and the number they are.
DigitsAt(s) ==
  LET others == {i \in DOMAIN s : s[i] \notin Digit}
  IN IF others = {} THEN Len(s) ELSE Min(others) - 1
DigitsOf(s) == FoldLeft(LAMBDA x, c : 10 * x + c - 48, 0, Left(s, DigitsAt(s)))

\* strtod: the number that a whole text is.
Strtod(s) ==
  LET exponent(sign) == IF sign.neg THEN -DigitsOf(sign.rest) ELSE DigitsOf(sign.rest)
      after(exp) == exponent(ReadSign(IF exp = <<>> THEN <<>> ELSE Tail(exp)))
      number(int, dot, frac) ==
        Scaled(Added(Decimal(DigitsOf(int), 0), Decimal(DigitsOf(frac), -DigitsAt(frac))),
               after(IF frac = <<>> THEN dot ELSE From(frac, DigitsAt(frac))))
      parts(int, dot) ==
        number(int, dot, IF dot # <<>> /\ Head(dot) = Point THEN Tail(dot) ELSE <<>>)
      unsigned(int) == parts(int, From(int, DigitsAt(int)))
  IN Signed(ReadSign(s).neg, unsigned(ReadSign(s).rest))

\* A number that keeps its text.
Precise(kind, n, text) ==
  [type |-> "number", key |-> 0, kind |-> kind, n |-> n, text |-> text]

\* numberFromStringRaw.  A sum that wraps to a larger number is not noticed.
NumberFromString(text, double) ==
  LET sign == ReadSign(text)
      step(x, c) == LET next == (10 * x.n + c - 48) % (UMax + 1)
                    IN [n |-> next, fits |-> x.fits /\ next >= x.n]
      sum == FoldLeft(step, [n |-> 0, fits |-> TRUE], sign.rest)
  IN CASE double \/ ~sum.fits \/ (sign.neg /\ SignBit(sum.n)) ->
            Precise("real", Strtod(text), text)
       [] ~double /\ sum.fits /\ ~sign.neg -> Precise("unsigned", Decimal(sum.n, 0), text)
       [] OTHER -> Precise("signed", Decimal(-sum.n, 0), text)

\* parsePreciseNumber: a sign, digits, and a fraction or an exponent.
ParsePreciseNumber(s) ==
  LET took(rest, double) ==
        Took(NumberFromString(Left(s, Len(s) - Len(rest)), double), rest)
      exponent(e) == IF IsDigit(e) THEN took(From(e, DigitsAt(e)), TRUE) ELSE Failed(e)
      \* The rest is not int, if there was a point.
      after(int, rest) ==
        IF rest # <<>> /\ Head(rest) \in Exponent THEN exponent(ReadSign(Tail(rest)).rest)
        ELSE took(rest, rest # int)
      fraction(int) ==
        after(int, IF int # <<>> /\ Head(int) = Point
                   THEN From(int, 1 + DigitsAt(Tail(int))) ELSE int)
      number(t) == IF IsDigit(t) THEN fraction(From(t, DigitsAt(t))) ELSE Failed(t)
  IN number(ReadSign(s).rest)

-----------------------------------------------------------------------------
(* Writing *)

WriteSigned(n) == IF n < 0 THEN <<Minus>> \o Digits(-n) ELSE Digits(n)

\* A fraction of Precision digits, without the zeros at its end.
RECURSIVE WriteFraction(_, _)
WriteFraction(m, digits) ==
  CASE m = 0 -> <<>>
    [] m # 0 /\ m % 10 = 0 -> WriteFraction(m \div 10, digits - 1)
    [] OTHER -> <<Point>> \o [i \in 1 .. digits - Len(Digits(m)) |-> 48] \o Digits(m)

\* What is before the point, what is after it, and the exponent.  A fraction that
\* is rounded to 1 is carried.
Rounded(int, m, exp) ==
  CASE m < 10 ^ Precision -> <<int, m, exp>>
    [] m >= 10 ^ Precision /\ int + 1 >= 10 /\ exp # 0 -> <<1, m - 10 ^ Precision, exp + 1>>
    [] OTHER -> <<int + 1, m - 10 ^ Precision, exp>>
WriteParts(p) ==
  Digits(p[1]) \o WriteFraction(p[2], Precision)
  \o (IF p[3] = 0 THEN <<>>
      ELSE <<101>> \o (IF p[3] > 0 THEN <<Plus>> ELSE <<>>) \o WriteSigned(p[3]))

WriteDouble(d) ==
  LET abs == IF d[1] < 0 THEN -d[1] ELSE d[1]
      quotient(n, unit, exp) ==
        Rounded(n \div unit, (2 * (n % unit) * 10 ^ Precision + unit) \div (2 * unit), exp)
      without(exp) ==
        quotient(abs * 10 ^ Max({0, d[2] - exp}), 10 ^ Max({0, exp - d[2]}), exp)
      written(exp) == WriteParts(without(IF exp > -Small /\ exp < Large THEN 0 ELSE exp))
  IN IF abs = 0 THEN <<48>>
     ELSE (IF d[1] < 0 THEN <<Minus>> ELSE <<>>) \o written(Len(Digits(abs)) - 1 + d[2])

SerializeNumber(v) ==
  CASE "text" \in DOMAIN v -> v.text
    [] "text" \notin DOMAIN v /\ v.kind = "real" -> WriteDouble(v.n)
    [] OTHER -> WriteSigned(v.n[1] * 10 ^ v.n[2])
=============================================================================
