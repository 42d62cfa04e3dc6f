------------------------------ MODULE JsonText ------------------------------
(***************************************************************************)
(* The text form of values: Serializer, Parser, removeComments and the     *)
(* conversions between UTF-8 and code points (src/src/imtjson serializer.h,*)
(* parser.h, comments.h, utf8.h).  Texts and strings are sequences of      *)
(* bytes; a name is the number its bytes make, so that names are ordered   *)
(* as texts while they are one character each.                             *)
(***************************************************************************)
EXTENDS Numerals, Encodings

Quote == 34
Backslash == 92
Slash == 47
Star == 42
Spaces == {9, 10, 11, 12, 13, 32}
LineEnd == {10, 13}
Infinite == <<226, 136, 158>>       \* the text of infinity

KeyOf(text) == FoldLeft(LAMBDA k, c : 256 * k + c, 0, text)
RECURSIVE TextOfKey(_)
TextOfKey(k) == IF k = 0 THEN <<>> ELSE Append(TextOfKey(k \div 256), k % 256)

\* The letters of escapes.
Letter == [c \in {8, 9, 10, 12, 13} |->
            CASE c = 8 -> 98 [] c = 9 -> 116 [] c = 10 -> 110 [] c = 12 -> 102 [] OTHER -> 114]

-----------------------------------------------------------------------------
(* Serializer *)

\* A code point as an escape has 16 bits.
WriteUnicode(w, utf8) ==
  IF utf8 /\ w >= 128 /\ w \notin {8232, 8233} THEN WideToUtf8(w)
  ELSE <<Backslash, 117>> \o [i \in 1 .. 4 |-> Hex((w \div 16 ^ (4 - i)) % 16)]

WriteStringBody(text, utf8) ==
  LET step(st, c) ==
        CASE c \in {Backslash, Quote} -> Put(st, <<Backslash, c>>)
          [] c \in DOMAIN Letter -> Put(st, <<Backslash, Letter[c]>>)
          [] c \in 32 .. 127 \ {Backslash, Quote} -> Put(st, <<c>>)
          [] OTHER -> Utf8ToWide(st, c, LAMBDA w : WriteUnicode(w, utf8))
  IN FoldLeft(step, Converter, text).out
WriteString(text, utf8) == <<Quote>> \o WriteStringBody(text, utf8) \o <<Quote>>

Word(t) ==
  CASE t = "true" -> <<116, 114, 117, 101>>
    [] t = "false" -> <<102, 97, 108, 115, 101>>
    [] t = "null" -> <<110, 117, 108, 108>>
    [] OTHER -> <<117, 110, 100, 101, 102, 105, 110, 101, 100>>     \* undefined

RECURSIVE Serialize(_, _)
Serialize(v, utf8) ==
  LET item(x) == IF v.type = "object"
                 THEN WriteString(TextOfKey(x.key), utf8) \o <<58>> \o Serialize(x, utf8)
                 ELSE Serialize(x, utf8)
      list == Joined([i \in DOMAIN Items(v) |-> item(Items(v)[i])], <<44>>)
  IN CASE v.type = "object" -> <<123>> \o list \o <<125>>
       [] v.type = "array" -> <<91>> \o list \o <<93>>
       [] v.type = "number" /\ v.n = Infinity -> WriteString(Infinite, utf8)
       [] v.type = "number" /\ v.n = Negative(Infinity) ->
            WriteString(<<Minus>> \o Infinite, utf8)
       [] v.type = "number" /\ v.n \notin {Infinity, Negative(Infinity)} -> SerializeNumber(v)
       [] v.type = "string" ->
            WriteString(IF IsBinary(v) THEN EncodeBinary(v.chars, v.encoding) ELSE v.chars, utf8)
       [] v.type = "boolean" -> Word(IF v.bool THEN "true" ELSE "false")
       [] v.type = "null" -> Word("null")
       [] OTHER -> WriteString(Word("undefined"), utf8)

-----------------------------------------------------------------------------
(* removeComments: what is read through it *)

RECURSIVE Uncommented(_, _)
Uncommented(s, inStr) ==
  LET line == {i \in DOMAIN s : i > 2 /\ s[i] \in LineEnd}
      block == {i \in DOMAIN s : i > 3 /\ s[i] = Slash /\ s[i - 1] = Star}
      after(ends) == IF ends = {} THEN <<>> ELSE From(s, Min(ends))
      one == Len(s) = 1
  IN CASE s = <<>> -> <<>>
       [] s # <<>> /\ inStr /\ s[1] = Backslash -> Left(s, 2) \o Uncommented(From(s, 2), TRUE)
       [] s # <<>> /\ inStr /\ s[1] # Backslash ->
            <<s[1]>> \o Uncommented(Tail(s), s[1] # Quote)
       [] OTHER ->
            CASE s[1] # Slash -> <<s[1]>> \o Uncommented(Tail(s), s[1] = Quote)
              [] s[1] = Slash /\ ~one /\ s[2] = Slash -> Uncommented(after(line), FALSE)
              [] s[1] = Slash /\ ~one /\ s[2] = Star -> Uncommented(after(block), FALSE)
              [] OTHER -> Left(s, 2) \o Uncommented(From(s, 2), FALSE)

-----------------------------------------------------------------------------
(* Parser *)

\* The Reader: bytes not yet read, and the byte it holds, if one is loaded; -1
\* is the end.  arr is the stack of items of all containers not yet closed.
EndOfStream == -1
Source(in) == IF in = <<>> THEN EndOfStream ELSE Head(in)
Rest(in) == IF in = <<>> THEN <<>> ELSE Tail(in)
Loaded(p) ==
  IF p.held # <<>> THEN p
  ELSE [p EXCEPT !.in = Rest(@), !.held = <<Source(p.in)>>]
Commit(p) == [p EXCEPT !.held = <<>>]
RECURSIVE NextWs(_)
NextWs(p) ==
  LET q == Loaded(p) IN IF q.held[1] \in Spaces THEN NextWs(Commit(q)) ELSE q
Peek(p) == p.held[1]

\* The bytes from the one it holds, and the Reader that holds the next of them.
Bytes(p) == IF Peek(p) = EndOfStream THEN <<>> ELSE p.held \o p.in
Holding_Next(p, rest) == Loaded([p EXCEPT !.in = Rest(rest), !.held = <<>>])
Holding(p, rest) == Loaded([p EXCEPT !.in = rest, !.held = <<>>])

Got(v, p) == [ok |-> TRUE, v |-> v, p |-> p]
ParseError(p) == [ok |-> FALSE, v |-> Undefined, p |-> p]

\* readString, from the byte after the quote.  Four bytes follow \u, and those
\* that are not digits count as 0.
RECURSIVE ReadString(_, _)
ReadString(p, st) ==
  LET c == Source(p.in)
      q == [p EXCEPT !.in = Rest(@)]
      d == Source(q.in)
      r == [q EXCEPT !.in = Rest(@)]
      code == FoldLeft(LAMBDA x, y : 16 * x + Unhex(y), 0, [i \in 1 .. 4 |->
                IF i <= Len(r.in) THEN r.in[i] ELSE EndOfStream])
      letters == {x \in DOMAIN Letter : Letter[x] = d}
  IN CASE c = EndOfStream -> ParseError(q)
       [] c = Quote -> Got(st.out, q)
       [] c = Backslash ->
            CASE d \in {Quote, Backslash, Slash} -> ReadString(r, Put(st, <<d>>))
              [] letters # {} -> ReadString(r, Put(st, <<CHOOSE x \in letters : TRUE>>))
              [] d = 117 -> ReadString([r EXCEPT !.in = From(@, 4)], Put(st, WideToUtf8(code)))
              [] OTHER -> ParseError(r)
       [] OTHER -> ReadString(q, Utf8ToWide(st, c, WideToUtf8))

\* checkString: a word, of which the first byte is loaded.
RECURSIVE CheckString(_, _, _)
CheckString(p, word, v) ==
  LET q == [p EXCEPT !.in = Rest(@)]
  IN CASE word = <<>> -> Got(v, p)
       [] word # <<>> /\ Source(p.in) = Head(word) -> CheckString(q, Tail(word), v)
       [] OTHER -> ParseError(q)

\* parseString: infinity is written as a string.
FromString(text) ==
  CASE text = Infinite -> Double(Infinity)
    [] text = <<Minus>> \o Infinite -> Double(Negative(Infinity))
    [] OTHER -> String(text)

\* What a container takes off the stack of items when it is closed.
Above(p, pos) == From(p.arr, pos)
Pushed(p, v) == [p EXCEPT !.arr = Append(@, v)]
Popped(p, pos) == [p EXCEPT !.arr = Left(@, pos)]

RECURSIVE Parse(_, _), Members(_, _, _), Elements(_, _, _)

\* parse: flags say whether names may come twice, and how numbers are read.
Parse(reader, flags) ==
  LET p == NextWs(reader)
      c == Peek(p)
      q == Commit(p)
      name == ReadString(q, Converter)
      number(n) == IF n.ok THEN Got(n.v, Holding(p, n.rest)) ELSE ParseError(Holding(p, n.rest))
      inside == NextWs(q)
  IN CASE c = 123 ->
            IF Peek(inside) = 125 THEN Got(ByType("object"), Commit(inside))
            ELSE Members(inside, Len(q.arr), flags)
       [] c = 91 ->
            IF Peek(inside) = 93 THEN Got(ByType("array"), Commit(inside))
            ELSE Elements(inside, Len(q.arr), flags)
       [] c = Quote -> IF name.ok THEN Got(FromString(name.v), name.p) ELSE name
       [] c = 116 -> CheckString(q, Tail(Word("true")), Boolean(TRUE))
       [] c = 102 -> CheckString(q, Tail(Word("false")), Boolean(FALSE))
       [] c = 110 -> CheckString(q, Tail(Word("null")), Null)
       [] c \in Digit \cup {Plus, Minus, Point} ->
            number(IF flags.precise THEN ParsePreciseNumber(Bytes(p)) ELSE ParseNumber(Bytes(p)))
       [] OTHER -> ParseError(p)

\* parseObject, from the byte that should start a name.
Members(p, pos, flags) ==
  LET name == ReadString(Commit(p), Converter)
      colon == NextWs(name.p)
      value == Parse(Commit(colon), flags)
      end == NextWs(Pushed(value.p, WithKey(KeyOf(name.v), value.v)))
      q == Commit(end)
      all == Above(q, pos)
      v == Object(SortedMembers(all))
  IN IF Peek(p) # Quote THEN ParseError(p)
     ELSE CASE ~name.ok -> name
            [] name.ok /\ Peek(colon) # 58 -> ParseError(colon)
            [] OTHER ->
                 CASE ~value.ok -> value
                   [] value.ok /\ Peek(end) = 44 -> Members(NextWs(q), pos, flags)
                   [] value.ok /\ Peek(end) = 125 ->
                        IF ~flags.dupKeys /\ Size(v) # Len(all) THEN ParseError(q)
                        ELSE Got(v, Popped(q, pos))
                   [] OTHER -> ParseError(q)

\* parseArray, from the byte that should start an item.
Elements(p, pos, flags) ==
  LET value == Parse(p, flags)
      end == NextWs(Pushed(value.p, value.v))
      q == Commit(end)
  IN CASE ~value.ok -> value
       [] value.ok /\ Peek(end) = 44 -> Elements(q, pos, flags)
       [] value.ok /\ Peek(end) = 93 -> Got(Array(Above(q, pos)), Popped(q, pos))
       [] OTHER -> ParseError(q)
=============================================================================
