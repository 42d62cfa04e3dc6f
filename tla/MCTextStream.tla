---------------------------- MODULE MCTextStream ----------------------------
(* Strings with every kind of character that is written in a way of its own, *)
(* numbers around the limits of integers and of what is written without an   *)
(* exponent, containers in containers, and texts no Serializer writes.       *)
EXTENDS TextStream

U(n) == Integer("unsigned", n)
D(m, e) == Double(Decimal(m, e))
T(s) == String(s)
A(s) == Array(s)
M(k, v) == WithKey(k, v)
O(s) == Object(s)
Text(v) == [v |-> v, utf8 |-> TRUE]
Ascii(v) == [v |-> v, utf8 |-> FALSE]

Wide ==         \* U+7F, U+80, U+7FF, U+800, U+2028, U+FFFF
  <<127, 194, 128, 223, 191, 224, 160, 128, 226, 128, 168, 239, 191, 191>>
Wider == <<97, 240, 144, 128, 128, 244, 143, 191, 191>>      \* U+10000, U+10FFFF
Special == <<34, 92, 47, 47, 10, 8, 1, 0, 47, 42>>           \* "\//, ...

MCFollowers ==
  {Text(U(25)), Ascii(D(-125, -2)), Text(T(Special)), Text(A(<<U(1), A(<<>>), Null>>)),
   Ascii(O(<<M(97, U(255)), M(98, A(<<Boolean(TRUE)>>))>>))}
MCDocuments ==
  MCFollowers \cup
  {Text(T(Wide)), Ascii(T(Wide)), Text(T(Wider)), Text(Boolean(FALSE)), Text(T(<<>>)),
   Text(Integer("signed", -128)), Text(D(9996, -3)), Text(D(5, 3)), Text(D(99996, -7)),
   Text(D(12345, -6)), Text(D(1236, 0)), Text(Double(Negative(Infinity))),
   Text(Precise("real", Decimal(250, -2), <<50, 46, 53, 48>>)),
   Text(Precise("real", Decimal(256, 0), <<50, 53, 54>>)),
   Text(A(<<Undefined, Binary(<<0, 251, 255, 62>>, "base64"), Binary(<<255, 254>>, "base64url")>>)),
   Text(A(<<Binary(<<32, 43, 37, 97, 0>>, "url"), Binary(<<128, 255, 65>>, "utf8"),
            Binary(<<1, 2, 3>>, "base64url")>>)),
   Ascii(O(<<M(34, Null), M(97, O(<<M(98, T(<<97>>))>>)), M(50089, Double(Infinity))>>))}

MCSeparators == {<<>>, <<32>>, <<47, 42, 32, 42, 47, 10>>, <<47, 47, 34, 13, 9>>}

\* Texts, with their ASCII characters in words of their own.
MCForeign ==
  {<<91, 49, 44, 91, 50, 44, 93, 44, 51, 93, 91, 52, 93>>,      \* [1,[2,],3][4]
   <<123, 34, 97, 34, 58, 49, 44, 34, 97, 34, 58, 50, 125>>,    \* {"a":1,"a":2}
   <<91, 49, 32, 50, 93, 91, 51, 93>>,                          \* [1 2][3]
   <<43, 46, 53, 101, 45, 49, 44, 45, 51, 48, 48>>,             \* +.5e-1,-300
   <<48, 48, 50, 53, 54, 46, 53, 32, 45, 50, 48, 48, 32>>,      \* 00256.5 -200
   <<34, 92, 117, 48, 48, 101, 57, 92, 47, 195, 34, 34, 98>>,   \* "\u00e9\/?""b
   <<34, 92, 120, 34, 110, 117, 108, 108>>,                     \* "\x"null
   <<34, 92, 117, 100, 56, 51, 100, 34, 110, 117, 108, 32>>,    \* "\ud83d"nul
   <<49, 101, 51, 48, 48, 32, 45, 32, 49, 46, 120, 49>>,        \* 1e300 - 1.x1
   <<123, 32, 125, 91, 32, 93, 116, 114, 117, 101, 123, 125>>,  \* { }[ ]true{}
   <<91, 123, 34, 97, 34, 58, 91, 49, 44, 93, 125, 44, 123, 34, 98, 34, 58, 49, 125, 93>>}
=============================================================================
