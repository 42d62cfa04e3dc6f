------------------------------ MODULE Encodings ------------------------------
(***************************************************************************)
(* Bytes as texts: UTF-8 (src/src/imtjson/utf8.h) and the encodings of     *)
(* binary strings (src/src/imtjson base64.cpp, binary.cpp).                *)
(***************************************************************************)
EXTENDS Values, Strings

\* A string that is bytes, written in an encoding.
Binary(bytes, enc) ==
  [type |-> "string", key |-> 0, chars |-> bytes, encoding |-> enc]
IsBinary(v) == "encoding" \in DOMAIN v

-----------------------------------------------------------------------------
(* UTF-8 *)

Continue(w, shift) == 128 + ((w \div (2 ^ shift)) % 64)
WideToUtf8(w) ==
  CASE w < 128 -> <<w>>
    [] w \in 128 .. 2047 -> <<192 + (w \div 64), Continue(w, 0)>>
    [] w \in 2048 .. 65535 -> <<224 + (w \div 4096), Continue(w, 6), Continue(w, 0)>>
    [] w \in 65536 .. 1114111 ->
         <<240 + (w \div 262144), Continue(w, 12), Continue(w, 6), Continue(w, 0)>>
    [] OTHER -> <<>>

\* The converter: the code point so far, how many bytes are missing, and what
\* it put out.  What goes round it does not touch the rest.
Converter == [wide |-> 0, missing |-> 0, out |-> <<>>]
Put(st, text) == [st EXCEPT !.out = @ \o text]
Utf8ToWide(st, c, Fn(_)) ==
  LET lead(w, n) == [st EXCEPT !.wide = w, !.missing = n]
      wide == 64 * st.wide + (c % 64)
      next == [st EXCEPT !.wide = wide, !.missing = @ - 1]
  IN CASE c \in 128 .. 191 -> IF st.missing = 1 THEN Put(next, Fn(wide)) ELSE next
       [] c \in 192 .. 223 -> lead(c % 32, 1)
       [] c \in 224 .. 239 -> lead(c % 16, 2)
       [] c \in 240 .. 247 -> lead(c % 8, 3)
       [] OTHER -> Put(st, Fn(c))

-----------------------------------------------------------------------------
(* Base64 *)

Alphabet(url) ==
  [i \in 0 .. 63 |-> CASE i < 26 -> 65 + i [] i \in 26 .. 51 -> 71 + i
                       [] i \in 52 .. 61 -> i - 4
                       [] i = 62 -> IF url THEN 45 ELSE 43
                       [] OTHER -> IF url THEN 95 ELSE 47]
Padding == 61

\* Three bytes are four digits; bytes that are missing are 0.
EncodeCore(data, url, tail) ==
  LET n == Len(data)
      byte(i) == IF i < n THEN data[i + 1] ELSE 0
      digit(k) ==
        LET g == 3 * (k \div 4)
        IN CASE k % 4 = 0 -> byte(g) \div 4
             [] k % 4 = 1 -> (byte(g) % 4) * 16 + (byte(g + 1) \div 16)
             [] k % 4 = 2 -> (byte(g + 1) % 16) * 4 + (byte(g + 2) \div 64)
             [] OTHER -> byte(g + 2) % 64
      pad == 3 * ((n + 2) \div 3) - n
  IN [k \in 1 .. n + ((n + 2) \div 3) |-> Alphabet(url)[digit(k - 1)]]
     \o (IF tail THEN [i \in 1 .. pad |-> Padding] ELSE <<>>)

DecoderCore(text, url, size) ==
  LET table(c) == CHOOSE i \in 0 .. 63 : Alphabet(url)[i] = c
      b(i) == IF i < Len(text) THEN table(text[i + 1]) ELSE 0
      byte(k) ==
        LET g == 4 * (k \div 3)
        IN CASE k % 3 = 0 -> b(g) * 4 + (b(g + 1) \div 16)
             [] k % 3 = 1 -> (b(g + 1) % 16) * 16 + (b(g + 2) \div 4)
             [] OTHER -> (b(g + 2) % 4) * 64 + b(g + 3)
  IN [k \in 1 .. size |-> byte(k - 1)]

PaddingOf(text) ==
  LET n == Len(text)
  IN IF text[n] # Padding THEN 0 ELSE IF text[n - 1] # Padding THEN 1 ELSE 2

-----------------------------------------------------------------------------
(* Encodings: what is decoded is bytes with an encoding of their own *)

Hex(n) == IF n < 10 THEN 48 + n ELSE 55 + n
Unhex(c) ==
  CASE c \in 48 .. 57 -> c - 48 [] c \in 65 .. 70 -> c - 55 [] c \in 97 .. 102 -> c - 87
    [] OTHER -> 0
UrlPlain ==
  (48 .. 57) \cup (65 .. 90) \cup (97 .. 122) \cup {45, 95, 46, 33, 126, 42, 39, 40, 41}
RECURSIVE UrlDecode(_)
UrlDecode(s) ==
  CASE s = <<>> -> <<>>
    [] s # <<>> /\ s[1] = 37 ->
         IF Len(s) < 3 THEN <<>>
         ELSE <<16 * Unhex(s[2]) + Unhex(s[3])>> \o UrlDecode(From(s, 3))
    [] OTHER -> <<IF s[1] = 43 THEN 32 ELSE s[1]>> \o UrlDecode(Tail(s))

EncodeBinary(bytes, enc) ==
  CASE enc = "base64" -> EncodeCore(bytes, FALSE, TRUE)
    [] enc = "base64url" -> EncodeCore(bytes, TRUE, FALSE)
    [] enc = "url" ->
         Concat([i \in DOMAIN bytes |->
                  LET c == bytes[i]
                  IN IF c \in UrlPlain THEN <<c>> ELSE <<37, Hex(c \div 16), Hex(c % 16)>>])
    [] enc = "utf8" -> Concat([i \in DOMAIN bytes |-> WideToUtf8(bytes[i])])
    [] OTHER -> bytes

\* Base64 says of base64url that it was base64.
DecodeBinary(text, enc) ==
  LET n == Len(text)
      pad == PaddingOf(text)
  IN CASE n = 0 -> String(<<>>)
       [] n > 0 /\ enc = "base64" ->
            IF n % 4 # 0 THEN String(<<>>)
            ELSE Binary(DecoderCore(Left(text, n - pad), FALSE, (3 * n) \div 4 - pad), "base64")
       [] n > 0 /\ enc = "base64url" ->
            Binary(DecoderCore(text, TRUE, (3 * n) \div 4), "base64")
       [] n > 0 /\ enc = "url" -> Binary(UrlDecode(text), "url")
       [] n > 0 /\ enc = "utf8" ->
            Binary(FoldLeft(LAMBDA st, c : Utf8ToWide(st, c, LAMBDA w : <<w % 256>>),
                            Converter, text).out, "utf8")
       [] OTHER -> String(text)
=============================================================================
