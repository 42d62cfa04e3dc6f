----------------------------- MODULE TextStream -----------------------------
(***************************************************************************)
(* A stream of documents: one side writes values one after another, the    *)
(* other reads them through removeComments, either with one Parser or with *)
(* a new one for each value, as Value::parse does (src/src/imtjson         *)
(* serializer.h, parser.h, comments.h, value.cpp).  The stream may end     *)
(* anywhere.  Other streams hold a text that no Serializer wrote.          *)
(***************************************************************************)
EXTENDS JsonText

CONSTANTS
  Documents,     \* what is written: values and whether UTF-8 is output
  Separators,    \* what the writer puts between them: spaces and comments
  Followers,     \* of these, what is written after another (bound)
  Foreign,       \* texts of others
  Lost,          \* how many bytes may be lost at the end (bound)
  MaxDocuments   \* bound: documents on a stream

VARIABLES
  keeps,         \* one Parser reads them all
  flags,         \* of the Parser
  sent,          \* what was written, and where it ends
  length,        \* of the stream so far
  reader, received,
  status         \* "open", "closed", "failed"
vars == <<keeps, flags, sent, length, reader, received, status>>

Fresh(in) == [in |-> in, held |-> <<>>, arr |-> <<>>]
Init ==
  /\ keeps \in BOOLEAN
  /\ flags \in [dupKeys : BOOLEAN, precise : BOOLEAN]
  /\ sent = <<>> /\ received = <<>>
  /\ \/ reader = Fresh(<<>>) /\ status = "open" /\ ~flags.dupKeys
     \/ \E text \in Foreign : reader = Fresh(Uncommented(text, FALSE)) /\ status = "closed"
  /\ length = Len(reader.in)

\* A number takes in the byte after it, which is lost with its Parser: a number
\* is followed by a space, or for one Parser by what cannot continue it.
Continues(c) == c \in Digit \cup Exponent \cup {Point, Slash}
Parted(text) ==
  sent # <<>> /\ Last(sent).number /\ Last(sent).end = length =>
    keeps /\ ~Continues(Head(text))

Write(v, utf8, sep) ==
  LET text == Uncommented(Serialize(v, utf8), FALSE)
      more == text \o Uncommented(sep, FALSE)
  IN /\ status = "open" /\ Len(sent) < MaxDocuments
     /\ Parted(text)
     /\ sent' = Append(sent, [v |-> v, number |-> v.type = "number" /\ Head(text) # Quote,
                              end |-> length + Len(text)])
     /\ length' = length + Len(more)
     /\ reader' = [reader EXCEPT !.in = @ \o more]
     /\ UNCHANGED <<keeps, flags, received, status>>

\* The stream ends, and with it may go what was not read yet.
Close(lost) ==
  /\ status = "open" /\ status' = "closed" /\ lost <= Len(reader.in)
  /\ length' = length - lost
  /\ reader' = [reader EXCEPT !.in = Left(@, Len(@) - lost)]
  /\ UNCHANGED <<keeps, flags, sent, received>>

\* A stream that is open blocks where one that is closed ends.
AtEnd(r) == r.p.in = <<>> /\ (~r.ok \/ (r.p.held # <<>> /\ Peek(r.p) = EndOfStream))
Read ==
  \E r \in {Parse(IF keeps THEN reader ELSE Fresh(reader.in), flags)} :
    /\ status # "failed" /\ (status = "open" => ~AtEnd(r))
    /\ Len(received) < MaxDocuments
    /\ reader' = r.p
    /\ IF r.ok THEN received' = Append(received, r.v) /\ UNCHANGED status
               ELSE status' = "failed" /\ UNCHANGED received
    /\ UNCHANGED <<keeps, flags, sent, length>>

Next ==
  \/ Read
  \/ \E d \in IF sent = <<>> THEN Documents ELSE Followers, sep \in Separators :
       Write(d.v, d.utf8, sep)
  \/ \E lost \in Lost : Close(lost)
Spec == Init /\ [][Next]_vars

-----------------------------------------------------------------------------
(* Properties *)

\* How a number is written: with Precision digits after the point of what is
\* left when the exponent is taken out.
Unit(d) ==
  LET exp == Len(Digits(IF d[1] < 0 THEN -d[1] ELSE d[1])) - 1 + d[2]
  IN <<1, IF exp > -Small /\ exp < Large THEN -Precision ELSE exp - Precision>>
AtMost(c, d) == LET x == Added(c, Negative(d)) IN x[1] <= 0
Near(x, y) ==
  LET twice == Added(Added(x, Negative(y)), Added(x, Negative(y)))
  IN x = y \/ (AtMost(twice, Unit(x)) /\ AtMost(Negative(Unit(x)), twice))

\* y is what a reader should have of x.
RECURSIVE SameAs(_, _)
SameAs(x, y) ==
  CASE x.type = "undefined" -> y.type = "string" /\ y.chars = Word("undefined")
    [] IsBinary(x) -> y.type = "string" /\ DecodeBinary(y.chars, x.encoding).chars = x.chars
    [] x.type = "number" ->
         /\ y.type = "number"
         /\ IF x.n \in {Infinity, Negative(Infinity)} \/ x.kind # "real" THEN y.n = x.n
            ELSE Near(x.n, y.n)
         /\ flags.precise /\ "text" \in DOMAIN x => "text" \in DOMAIN y /\ y.text = x.text
    [] x.type \in {"array", "object"} ->
         /\ y.type = x.type /\ Size(y) = Size(x)
         /\ \A i \in 0 .. Size(x) - 1 :
              /\ x.type = "object" => ItemAt(x, i).key = ItemAt(y, i).key
              /\ SameAs(ItemAt(x, i), ItemAt(y, i))
    [] OTHER -> Equal(x, y)

Whole(i) == sent[i].end <= length

\* What is read is what was written, one document after the other: strings with
\* whatever has to be escaped, numbers up to the precision they are written
\* with, bytes in their encoding.  What is read of any text can be written and
\* read again.  Code points above U+FFFF are written as UTF-8 only: an escape of
\* such a one loses its upper bits.
ReadAsWritten ==
  /\ \A i \in DOMAIN received \cap DOMAIN sent :
       Whole(i) => SameAs(sent[i].v, received[i])
  /\ \A i \in DOMAIN received :
       LET same(again) == again.ok /\ SameAs(received[i], again.v)
       IN same(Parse(Fresh(Serialize(received[i], TRUE)), [flags EXCEPT !.dupKeys = FALSE]))

\* A reader takes nothing of the next document: it stands where the last one
\* ends, or after the byte that shows that a number has ended.  It fails only
\* at a document that is not whole, and of such a one it makes nothing but a
\* number.  What a failure leaves on the stack does not change what is read
\* later.
StopsAtEnd ==
  /\ sent # <<>> /\ received # <<>> /\ status # "failed" =>
       LET n == Len(received)
       IN IF n \notin DOMAIN sent THEN FALSE
          ELSE IF Whole(n)
          THEN length - Len(reader.in) - sent[n].end \in (IF sent[n].number THEN {0, 1} ELSE {0})
          ELSE sent[n].number /\ reader.in = <<>>
  /\ sent # <<>> /\ status = "failed" =>
       \A i \in DOMAIN sent : Whole(i) => i <= Len(received)
  /\ LET same(a, b) == a.ok = b.ok /\ a.v = b.v /\ a.p.in = b.p.in
     IN same(Parse(reader, flags), Parse([reader EXCEPT !.arr = <<>>], flags))
=============================================================================
