---------------------------- MODULE CompressProofs ----------------------------
(***************************************************************************)
(* Theorems about Compress, for any widths of codes and any text.  They    *)
(* take it that a program reads each stream with a Decompress of its own   *)
(* (~Reuse).  A state of the decompressor is a record of its two tables    *)
(* and the code it read last; After and Said are what one more code makes  *)
(* of it and what text that code stands for.  The bytes on their way are a *)
(* path of such states, from the one it is in (Now) to the one it had to   *)
(* be in for the compressor's tables to be its own.                        *)
(***************************************************************************)
EXTENDS Compress, SetInduction, SequenceTheorems, TLAPS

-----------------------------------------------------------------------------
(* Numbers *)

\* The codes of sequences, of the optimizer and of the end are different.
LEMMA CodesAre ==
  /\ FirstCode \in Nat \ {0} /\ Ext \in Nat /\ Base \in Nat \ {0} /\ Ext < Base
  /\ FlushCode \in Nat /\ OptimizeCode = FlushCode - 1 /\ MaxCode = FlushCode - 2
  /\ MaxCode \in Nat /\ MaxCodeForOptimize \in Nat /\ MaxCodeForOptimize <= MaxCode
  /\ FirstCode < MaxCodeForOptimize /\ FirstCode < MaxCode
<1>1. PICK high \in Nat : high = (Base - 1 - Ext) * Base
  <2>1. Base - 1 - Ext \in Nat /\ Base \in Nat
    BY CompressAssumption
  <2>2. \A x, y \in Nat : x * y \in Nat
    OBVIOUS
  <2>3. QED
    BY <2>1, <2>2
<1>2. FlushCode = high + Base - 1 + Ext
  BY <1>1 DEF FlushCode
<1>3. FlushCode \in Nat
  BY <1>2, CompressAssumption
<1>4. QED
  BY <1>3, CompressAssumption DEF OptimizeCode, MaxCode, MaxCodeForOptimize

\* What the second byte of a code and the first are.
LEMMA QuotientIs ==
  ASSUME NEW x \in Nat
  PROVE  /\ x \div Base \in Nat /\ x % Base \in 0 .. Base - 1
         /\ (x \div Base) * Base + (x % Base) = x
<1>1. PICK b \in Nat \ {0} : b = Base
  BY CodesAre
<1>2. x \div b \in Nat /\ x % b \in 0 .. b - 1
  OBVIOUS
<1>3. (x \div b) * b + (x % b) = x
  OBVIOUS
<1>4. QED
  BY <1>1, <1>2, <1>3

\* A code that is written is read as the same code, whatever follows it.
LEMMA DecodeOfEncode ==
  ASSUME NEW code \in 0 .. FlushCode
  PROVE  /\ Encode(code) \in Seq(0 .. Base - 1) /\ Encode(code) # <<>>
         /\ \A bytes : (\A j \in 1 .. Len(Encode(code)) : bytes[j] = Encode(code)[j])
              => Decode(bytes) = code /\ Width(bytes) = Len(Encode(code))
<1>1. code \in Nat /\ Base \in Nat \ {0} /\ Ext \in Nat /\ Ext < Base
  BY CodesAre
<1>2. CASE code < Ext
  <2>1. Encode(code) = <<code>> /\ code \in 0 .. Base - 1
    BY <1>1, <1>2 DEF Encode
  <2>2. Len(Encode(code)) = 1 /\ Encode(code)[1] = code /\ Encode(code) \in Seq(0 .. Base - 1)
    BY <2>1
  <2>3. ASSUME NEW bytes, bytes[1] = code PROVE Decode(bytes) = code /\ Width(bytes) = 1
    BY <2>3, <1>2 DEF Decode, Width
  <2>4. ASSUME NEW bytes, \A j \in 1 .. Len(Encode(code)) : bytes[j] = Encode(code)[j]
        PROVE  Decode(bytes) = code /\ Width(bytes) = Len(Encode(code))
    <3>1. 1 \in 1 .. Len(Encode(code))
      BY <2>2
    <3>2. bytes[1] = code
      BY <3>1, <2>2, <2>4
    <3>3. QED
      BY <3>2, <2>2, <2>3
  <2>5. Encode(code) # <<>>
    <3>1. PICK e : e = Encode(code)
      OBVIOUS
    <3>2. Len(e) = 1
      BY <3>1, <2>2
    <3>3. e # <<>>
      BY <3>2
    <3>4. QED
      BY <3>1, <3>3
  <2>6. QED
    BY <2>2, <2>4, <2>5
<1>3. CASE code >= Ext
  <2>1. PICK x \in Nat : x = code - Ext
    BY <1>1, <1>3
  <2>2. PICK q \in Nat, r \in 0 .. Base - 1 : q = x \div Base /\ r = x % Base /\ q * Base + r = x
    BY QuotientIs
  <2>3. q <= Base - 1 - Ext
    <3>1. x < (Base - Ext) * Base
      <4>1. x <= (Base - 1 - Ext) * Base + Base - 1
        BY <2>1, <1>1 DEF FlushCode
      <4>2. (Base - Ext) * Base = (Base - 1 - Ext) * Base + Base
        BY <1>1
      <4>3. (Base - 1 - Ext) * Base \in Int
        BY <1>1
      <4>4. QED
        BY <4>1, <4>2, <4>3, <1>1
    <3>2. q * Base <= x
      <4>1. q * Base \in Nat
        BY <1>1
      <4>2. QED
        BY <4>1, <2>2
    <3>3. ASSUME q >= Base - Ext PROVE FALSE
      <4>1. \A a, b, c \in Nat : a >= b => a * c >= b * c
        OBVIOUS
      <4>2. Base - Ext \in Nat /\ Base \in Nat
        BY <1>1
      <4>3. q * Base >= (Base - Ext) * Base
        BY <3>3, <4>1, <4>2
      <4>4. QED
        BY <4>3, <3>1, <3>2, <4>2
    <3>4. QED
      BY <3>3, <1>1
  <2>4. Encode(code) = <<Ext + q, r>> /\ Ext + q \in 0 .. Base - 1
    BY <1>1, <1>3, <2>1, <2>2, <2>3 DEF Encode
  <2>5. /\ Len(Encode(code)) = 2 /\ Encode(code)[1] = Ext + q /\ Encode(code)[2] = r
        /\ Encode(code) \in Seq(0 .. Base - 1)
    BY <2>4
  <2>6. ASSUME NEW bytes, bytes[1] = Ext + q, bytes[2] = r
        PROVE  Decode(bytes) = code /\ Width(bytes) = 2
    <3>1. ~(bytes[1] < Ext) /\ bytes[1] - Ext = q
      BY <2>6, <1>1
    <3>2. q * Base + r + Ext = code
      BY <2>1, <2>2, <1>1
    <3>3. QED
      BY <3>1, <3>2, <2>6 DEF Decode, Width
  <2>7. QED
    BY <2>5, <2>6
<1>4. QED
  BY <1>1, <1>2, <1>3

-----------------------------------------------------------------------------
(* Tables *)

\* Places and entries: an entry continues a shorter sequence.
Size(tab) == Len(tab) + FirstCode
Table(tab) ==
  /\ tab \in Seq(DecInfo)
  /\ \A q \in FirstCode .. Size(tab) - 1 : Entry(tab, q).prevCode < q

\* An entry of a table.
LEMMA EntryIs ==
  ASSUME NEW tab \in Seq(DecInfo), NEW q \in FirstCode .. Size(tab) - 1
  PROVE  /\ q - FirstCode + 1 \in 1 .. Len(tab) /\ q \in Nat /\ Entry(tab, q) \in DecInfo
         /\ Entry(tab, q).prevCode \in Nat /\ Entry(tab, q).newCode \in Nat
         /\ Entry(tab, q).outchar \in Char /\ Entry(tab, q).used \in BOOLEAN
<1>1. q - FirstCode + 1 \in 1 .. Len(tab) /\ q \in Nat
  BY CodesAre DEF Size
<1>2. Entry(tab, q) \in DecInfo
  BY <1>1 DEF Entry
<1>3. QED
  BY <1>1, <1>2 DEF DecInfo

\* Codes that a table has.
LEMMA SizeIs ==
  ASSUME NEW tab \in Seq(DecInfo)
  PROVE  /\ Size(tab) \in Nat /\ Size(tab) >= FirstCode /\ FirstCode \in Nat
         /\ Len(tab) \in Nat /\ Size(tab) = Len(tab) + FirstCode
         /\ 0 .. Len(tab) + FirstCode - 1 = 0 .. Size(tab) - 1
BY CodesAre DEF Size

\* One entry more.
LEMMA GrownTable ==
  ASSUME NEW tab \in Seq(DecInfo), NEW x \in DecInfo
  PROVE  /\ Append(tab, x) \in Seq(DecInfo) /\ Size(Append(tab, x)) = Size(tab) + 1
         /\ Entry(Append(tab, x), Size(tab)) = x
         /\ \A q \in FirstCode .. Size(tab) - 1 : Entry(Append(tab, x), q) = Entry(tab, q)
<1>1. Append(tab, x) \in Seq(DecInfo) /\ Len(Append(tab, x)) = Len(tab) + 1
  OBVIOUS
<1>2. Size(Append(tab, x)) = Size(tab) + 1
  BY <1>1, SizeIs DEF Size
<1>3. Size(tab) - FirstCode + 1 = Len(tab) + 1
  BY SizeIs
<1>4. Entry(Append(tab, x), Size(tab)) = x
  BY <1>3 DEF Entry
<1>5. ASSUME NEW q \in FirstCode .. Size(tab) - 1
      PROVE  Entry(Append(tab, x), q) = Entry(tab, q)
  <2>1. PICK i : i = q - FirstCode + 1 /\ i \in 1 .. Len(tab)
    BY EntryIs
  <2>2. Append(tab, x)[i] = tab[i]
    BY <2>1
  <2>3. QED
    BY <2>1, <2>2 DEF Entry
<1>6. QED
  BY <1>1, <1>2, <1>4, <1>5

\* One entry replaced.
LEMMA ChangedTable ==
  ASSUME NEW tab \in Seq(DecInfo), NEW q \in FirstCode .. Size(tab) - 1, NEW x \in DecInfo
  PROVE  LET t == [tab EXCEPT ![q - FirstCode + 1] = x]
         IN  /\ t \in Seq(DecInfo) /\ Size(t) = Size(tab) /\ Entry(t, q) = x
             /\ \A p \in FirstCode .. Size(tab) - 1 : p # q => Entry(t, p) = Entry(tab, p)
<1>1. PICK i : i = q - FirstCode + 1 /\ i \in 1 .. Len(tab)
  BY EntryIs
<1>2. PICK t : t = [tab EXCEPT ![i] = x]
  OBVIOUS
<1>3. t \in Seq(DecInfo) /\ Len(t) = Len(tab) /\ t[i] = x
  BY <1>1, <1>2
<1>4. Size(t) = Size(tab) /\ Entry(t, q) = x
  BY <1>1, <1>3 DEF Size, Entry
<1>5. ASSUME NEW p \in FirstCode .. Size(tab) - 1, p # q PROVE Entry(t, p) = Entry(tab, p)
  <2>1. PICK k : k = p - FirstCode + 1 /\ k \in 1 .. Len(tab)
    BY EntryIs
  <2>2. k # i
    BY <2>1, <1>1, <1>5, CodesAre
  <2>3. t[k] = tab[k]
    BY <2>1, <2>2, <1>2
  <2>4. QED
    BY <2>1, <2>3 DEF Entry
<1>6. QED
  BY <1>1, <1>2, <1>3, <1>4, <1>5

-----------------------------------------------------------------------------
(* What a sequence spells *)

IsText(text, tab) ==
  text = [q \in 0 .. Len(tab) + FirstCode - 1 |->
            IF q < FirstCode THEN <<q>>
            ELSE Append(text[Entry(tab, q).prevCode], Entry(tab, q).outchar)]

\* The spellings of all sequences of a table.
Spells(f, tab) ==
  /\ f \in [0 .. Size(tab) - 1 -> Seq(Char)]
  /\ \A q \in 0 .. Size(tab) - 1 :
       f[q] = IF q < FirstCode THEN <<q>>
              ELSE Append(f[Entry(tab, q).prevCode], Entry(tab, q).outchar)

\* There is such a function: an entry continues an earlier one.
LEMMA SpellsExists ==
  ASSUME NEW tab, Table(tab)
  PROVE  \E f : Spells(f, tab)
<1> DEFINE n == Size(tab)
           V == Seq(Char)
           first == [q \in 0 .. n - 1 |-> <<q>>]
           below == [q \in 0 .. n - 1 |-> Entry(tab, q).prevCode]
           step == [x \in (0 .. n - 1) \X V |-> Append(x[2], Entry(tab, x[1]).outchar)]
           ends == 0 .. FirstCode - 1
<1>1. tab \in Seq(DecInfo) /\ n \in Nat /\ FirstCode \in Nat /\ n >= FirstCode
  BY SizeIs DEF Table
<1>2. ASSUME NEW q \in 0 .. n - 1, q \in ends PROVE first[q] \in V
  <2>1. <<q>> \in Seq(Char)
    BY <1>2 DEF Char
  <2>2. QED
    BY <2>1
<1>3. ASSUME NEW q \in 0 .. n - 1, q \notin ends
      PROVE  /\ below[q] \in 0 .. q - 1
             /\ \A v \in V : step[<<q, v>>] = Append(v, Entry(tab, q).outchar) /\ step[<<q, v>>] \in V
  <2>1. q \in FirstCode .. Size(tab) - 1
    BY <1>1, <1>3
  <2>2. Entry(tab, q).prevCode \in Nat /\ Entry(tab, q).outchar \in Char
    BY <2>1, <1>1, EntryIs
  <2>3. Entry(tab, q).prevCode < q /\ q \in Nat
    BY <2>1, <1>1 DEF Table
  <2>4. below[q] \in 0 .. q - 1
    BY <2>2, <2>3
  <2>5. ASSUME NEW v \in V
        PROVE  step[<<q, v>>] = Append(v, Entry(tab, q).outchar) /\ step[<<q, v>>] \in V
    BY <2>2
  <2>6. QED
    BY <2>4, <2>5
<1>4. V # {}
  <2>1. <<>> \in Seq(Char)
    OBVIOUS
  <2>2. QED
    BY <2>1
<1> HIDE DEF n, V, first, below, step, ends
<1>5. IsDescent(n, V, ends, first, below, step)
  BY <1>1, <1>2, <1>3, <1>4 DEF IsDescent
<1>6. PICK f \in [0 .. n - 1 -> V] : Descends(f, n, ends, first, below, step)
  BY <1>5, DescentExists
<1>7. ASSUME NEW q \in 0 .. n - 1
      PROVE  f[q] = IF q < FirstCode THEN <<q>>
                    ELSE Append(f[Entry(tab, q).prevCode], Entry(tab, q).outchar)
  <2>1. q \in ends <=> q < FirstCode
    BY <1>1 DEF ends, n
  <2>2. first[q] = <<q>> /\ below[q] = Entry(tab, q).prevCode
    BY DEF first, below
  <2>3. CASE q \in ends
    BY <2>1, <2>2, <2>3, <1>6 DEF Descends
  <2>4. CASE q \notin ends
    <3>1. below[q] \in 0 .. n - 1
      BY <2>4, <1>1, <1>3 DEF n
    <3>2. f[below[q]] \in V
      BY <3>1, <1>6
    <3>3. QED
      BY <2>1, <2>2, <2>4, <3>2, <1>3, <1>6 DEF Descends
  <2>5. QED
    BY <2>3, <2>4
<1>8. QED
  BY <1>6, <1>7 DEF Spells, n, V

\* Spelled is one of them.
LEMMA SpelledIs ==
  ASSUME NEW tab, Table(tab)
  PROVE  \E f : Spells(f, tab) /\ \A p \in 0 .. Size(tab) - 1 : Spelled(tab, p) = f[p]
<1>1. PICK f : Spells(f, tab)
  BY SpellsExists
<1>2. 0 .. Len(tab) + FirstCode - 1 = 0 .. Size(tab) - 1 /\ Size(tab) \in Nat
  BY SizeIs DEF Table
<1>3. IsText(f, tab)
  <2>1. f = [q \in 0 .. Size(tab) - 1 |-> f[q]]
    BY <1>1 DEF Spells
  <2>2. QED
    BY <2>1, <1>1, <1>2 DEF Spells, IsText
<1> DEFINE text == CHOOSE text : IsText(text, tab)
<1>4. IsText(text, tab)
  BY <1>3
<1>5. \A p : Spelled(tab, p) = text[p]
  BY DEF Spelled, IsText
<1> HIDE DEF text
<1>6. \A q \in 0 .. Size(tab) - 1 :
        text[q] = IF q < FirstCode THEN <<q>>
                  ELSE Append(text[Entry(tab, q).prevCode], Entry(tab, q).outchar)
  BY <1>4, <1>2 DEF IsText
<1> DEFINE T == {n \in Nat : \A q \in 0 .. Size(tab) - 1 : q < n => text[q] = f[q]}
<1>7. 0 \in T
  OBVIOUS
<1>8. ASSUME NEW n \in Nat, n \in T PROVE n + 1 \in T
  <2>1. ASSUME NEW q \in 0 .. Size(tab) - 1, q < n + 1 PROVE text[q] = f[q]
    <3>1. CASE q < FirstCode
      BY <3>1, <1>1, <1>6 DEF Spells
    <3>2. CASE ~(q < FirstCode)
      <4>1. q \in FirstCode .. Size(tab) - 1 /\ tab \in Seq(DecInfo)
        BY <3>2, CodesAre DEF Table
      <4>2. Entry(tab, q).prevCode \in Nat /\ Entry(tab, q).prevCode < q
        BY <4>1, EntryIs DEF Table
      <4>3. Entry(tab, q).prevCode \in 0 .. Size(tab) - 1 /\ Entry(tab, q).prevCode < n
        BY <4>1, <4>2, <2>1, <1>2
      <4>4. text[Entry(tab, q).prevCode] = f[Entry(tab, q).prevCode]
        BY <4>3, <1>8
      <4>5. QED
        BY <4>4, <3>2, <1>1, <1>6 DEF Spells
    <3>3. QED
      BY <3>1, <3>2
  <2>2. QED
    BY <2>1
<1>9. Nat \subseteq T
  <2> HIDE DEF T
  <2>1. QED
    BY <1>7, <1>8, Induction
<1>10. ASSUME NEW p \in 0 .. Size(tab) - 1 PROVE text[p] = f[p]
  <2>1. p + 1 \in T /\ p < p + 1
    BY <1>9
  <2>2. QED
    BY <2>1
<1>11. QED
  BY <1>1, <1>5, <1>10

\* A character spells itself; an entry has one character more than what it
\* continues, and begins with the same.
LEMMA SpelledSteps ==
  ASSUME NEW tab, Table(tab), NEW q \in 0 .. Size(tab) - 1
  PROVE  /\ Spelled(tab, q) \in Seq(Char)
         /\ q < FirstCode => Spelled(tab, q) = <<q>>
         /\ q >= FirstCode => Spelled(tab, q) =
                              Append(Spelled(tab, Entry(tab, q).prevCode), Entry(tab, q).outchar)
<1>1. PICK f : Spells(f, tab) /\ \A p \in 0 .. Size(tab) - 1 : Spelled(tab, p) = f[p]
  BY SpelledIs
<1>2. Spelled(tab, q) = f[q] /\ f[q] \in Seq(Char)
  BY <1>1 DEF Spells
<1>3. CASE q < FirstCode
  BY <1>1, <1>2, <1>3, CodesAre DEF Spells
<1>4. CASE ~(q < FirstCode)
  <2>1. q \in FirstCode .. Size(tab) - 1 /\ tab \in Seq(DecInfo)
    BY <1>4, CodesAre DEF Table
  <2>2. Entry(tab, q).prevCode \in 0 .. Size(tab) - 1
    BY <2>1, EntryIs, SizeIs DEF Table
  <2>3. QED
    BY <2>2, <1>1, <1>2, <1>4, CodesAre DEF Spells
<1>5. QED
  BY <1>3, <1>4

\* Every sequence has a first character, and one that is continued keeps it.
LEMMA SpelledFirst ==
  ASSUME NEW tab, Table(tab), NEW q \in 0 .. Size(tab) - 1
  PROVE  /\ Spelled(tab, q) \in Seq(Char) /\ Len(Spelled(tab, q)) \in Nat \ {0}
         /\ Spelled(tab, q)[1] \in Char
         /\ q >= FirstCode => Spelled(tab, q)[1] = Spelled(tab, Entry(tab, q).prevCode)[1]
<1>0. tab \in Seq(DecInfo) /\ Size(tab) \in Nat /\ FirstCode \in Nat
  BY SizeIs DEF Table
<1>1. ASSUME NEW p \in 0 .. Size(tab) - 1 PROVE Len(Spelled(tab, p)) \in Nat \ {0}
  <2>1. CASE p < FirstCode
    <3>1. Spelled(tab, p) = <<p>>
      BY <2>1, SpelledSteps
    <3>2. QED
      BY <3>1
  <2>2. CASE ~(p < FirstCode)
    <3>1. p \in FirstCode .. Size(tab) - 1 /\ p >= FirstCode
      BY <2>2, <1>0
    <3>2. PICK r \in 0 .. Size(tab) - 1 : r = Entry(tab, p).prevCode
      BY <3>1, <1>0, EntryIs DEF Table
    <3>3. PICK u \in Seq(Char) : u = Spelled(tab, r)
      BY SpelledSteps
    <3>4. Spelled(tab, p) = Append(u, Entry(tab, p).outchar)
      BY <3>1, <3>2, <3>3, SpelledSteps
    <3>5. QED
      BY <3>4
  <2>3. QED
    BY <2>1, <2>2
<1>2. Spelled(tab, q) \in Seq(Char)
  BY SpelledSteps
<1>3. Spelled(tab, q)[1] \in Char
  BY <1>1, <1>2
<1>4. ASSUME q >= FirstCode
      PROVE  Spelled(tab, q)[1] = Spelled(tab, Entry(tab, q).prevCode)[1]
  <2>1. q \in FirstCode .. Size(tab) - 1
    BY <1>4, <1>0
  <2>2. PICK r \in 0 .. Size(tab) - 1 : r = Entry(tab, q).prevCode
    BY <2>1, <1>0, EntryIs DEF Table
  <2>3. PICK u \in Seq(Char) : u = Spelled(tab, r)
    BY SpelledSteps
  <2>4. Spelled(tab, q) = Append(u, Entry(tab, q).outchar)
    BY <1>4, <2>2, <2>3, SpelledSteps
  <2>5. Len(u) \in Nat \ {0}
    BY <1>1, <2>3
  <2>6. Append(u, Entry(tab, q).outchar)[1] = u[1]
    BY <2>5
  <2>7. QED
    BY <2>2, <2>3, <2>4, <2>6
<1>5. QED
  BY <1>1, <1>2, <1>3, <1>4

\* Two tables have the same sequences up to m.
Alike(tab, u, m) ==
  /\ m \in Nat /\ m <= Size(tab) /\ m <= Size(u)
  /\ \A q \in FirstCode .. m - 1 : /\ Entry(u, q).prevCode = Entry(tab, q).prevCode
                                   /\ Entry(u, q).outchar = Entry(tab, q).outchar

\* Spelled looks at the codes below the one it spells, and no others.
LEMMA SpelledAlike ==
  ASSUME NEW tab, NEW u, Table(tab), Table(u), NEW m, Alike(tab, u, m)
  PROVE  \A q \in 0 .. m - 1 : Spelled(u, q) = Spelled(tab, q)
<1>0. /\ tab \in Seq(DecInfo) /\ Size(tab) \in Nat /\ u \in Seq(DecInfo) /\ Size(u) \in Nat
      /\ FirstCode \in Nat /\ m \in Nat /\ m <= Size(tab) /\ m <= Size(u)
  BY SizeIs DEF Table, Alike
<1> DEFINE T == {n \in Nat : \A q \in 0 .. m - 1 : q < n => Spelled(u, q) = Spelled(tab, q)}
<1>1. 0 \in T
  OBVIOUS
<1>2. ASSUME NEW n \in Nat, n \in T PROVE n + 1 \in T
  <2>1. ASSUME NEW q \in 0 .. m - 1, q < n + 1 PROVE Spelled(u, q) = Spelled(tab, q)
    <3>0. q \in 0 .. Size(tab) - 1 /\ q \in 0 .. Size(u) - 1
      BY <1>0
    <3>1. CASE q < FirstCode
      BY <3>0, <3>1, SpelledSteps
    <3>2. CASE ~(q < FirstCode)
      <4>1. q \in FirstCode .. Size(tab) - 1 /\ q >= FirstCode /\ q \in FirstCode .. m - 1
        BY <3>0, <3>2, <1>0
      <4>2. PICK r : r = Entry(tab, q).prevCode
        OBVIOUS
      <4>3. r \in Nat /\ r < q
        BY <4>1, <4>2, <1>0, EntryIs DEF Table
      <4>4. Spelled(u, r) = Spelled(tab, r)
        <5>1. r \in 0 .. m - 1 /\ r < n
          BY <4>3, <2>1, <1>0
        <5>2. QED
          BY <5>1, <1>2
      <4>5. Entry(u, q).prevCode = r /\ Entry(u, q).outchar = Entry(tab, q).outchar
        BY <4>1, <4>2 DEF Alike
      <4>6. QED
        BY <3>0, <4>1, <4>2, <4>4, <4>5, SpelledSteps
    <3>3. QED
      BY <3>1, <3>2
  <2>2. QED
    BY <2>1
<1>3. Nat \subseteq T
  <2> HIDE DEF T
  <2>1. QED
    BY <1>1, <1>2, Induction
<1>4. ASSUME NEW q \in 0 .. m - 1 PROVE Spelled(u, q) = Spelled(tab, q)
  <2>1. q + 1 \in T /\ q < q + 1
    BY <1>3, <1>0
  <2>2. QED
    BY <2>1
<1>5. QED
  BY <1>4

-----------------------------------------------------------------------------
(* Codes in the next table *)

TwoTables == [table : Seq(DecInfo), newTable : Seq(DecInfo)]

\* What addCode does to the entry q of v.
Adds(v, t, q) ==
  /\ t \in TwoTables /\ Size(t.table) = Size(v.table) /\ Size(t.newTable) = Size(v.newTable) + 1
  /\ Entry(t.table, q) = [Entry(v.table, q) EXCEPT !.newCode = Size(v.newTable), !.used = TRUE]
  /\ \A p \in FirstCode .. Size(v.table) - 1 : p # q => Entry(t.table, p) = Entry(v.table, p)
  /\ Entry(t.newTable, Size(v.newTable)) =
       [prevCode |-> Translated(v.table, Entry(v.table, q).prevCode), newCode |-> 0,
        outchar |-> Entry(v.table, q).outchar, used |-> FALSE]
  /\ \A p \in FirstCode .. Size(v.newTable) - 1 : Entry(t.newTable, p) = Entry(v.newTable, p)

\* The code that a known sequence has in the next table.
LEMMA TranslatedIs ==
  ASSUME NEW tab \in Seq(DecInfo), NEW p \in 0 .. Size(tab) - 1
  PROVE  Translated(tab, p) \in Nat
<1>1. CASE p < FirstCode
  BY <1>1 DEF Translated
<1>2. CASE ~(p < FirstCode)
  <2>1. p \in FirstCode .. Size(tab) - 1
    BY <1>2, CodesAre
  <2>2. QED
    BY <2>1, <1>2, EntryIs DEF Translated
<1>3. QED
  BY <1>1, <1>2

\* addCode, when there is room and when there is none.
LEMMA AddCodeIs ==
  ASSUME NEW v \in TwoTables, NEW q \in FirstCode .. Size(v.table) - 1,
         Entry(v.table, q).prevCode \in 0 .. Size(v.table) - 1
  PROVE  /\ ~HasRoom(Size(v.newTable)) => AddCode(v, q) = v
         /\ HasRoom(Size(v.newTable)) => Adds(v, AddCode(v, q), q)
<1>1. v.table \in Seq(DecInfo) /\ v.newTable \in Seq(DecInfo)
  BY DEF TwoTables
<1>2. Len(v.newTable) + FirstCode = Size(v.newTable)
  BY DEF Size
<1>3. ASSUME HasRoom(Size(v.newTable)) PROVE Adds(v, AddCode(v, q), q)
  <2>1. PICK info \in DecInfo : info = Entry(v.table, q)
    BY <1>1, EntryIs
  <2>2. PICK code \in Nat : code = Size(v.newTable)
    BY <1>1, SizeIs
  <2>3. PICK x : x = [info EXCEPT !.newCode = code, !.used = TRUE]
    OBVIOUS
  <2>4. x \in DecInfo
    BY <2>3 DEF DecInfo
  <2>5. PICK y : y = [prevCode |-> Translated(v.table, info.prevCode), newCode |-> 0,
                      outchar |-> info.outchar, used |-> FALSE]
    OBVIOUS
  <2>6. y \in DecInfo
    <3>1. Translated(v.table, info.prevCode) \in Nat
      BY <2>1, <1>1, TranslatedIs
    <3>2. QED
      BY <3>1, <2>5 DEF DecInfo
  <2>7. PICK t1 : t1 = [v.table EXCEPT ![q - FirstCode + 1] = x]
    OBVIOUS
  <2>8. /\ t1 \in Seq(DecInfo) /\ Size(t1) = Size(v.table) /\ Entry(t1, q) = x
        /\ \A p \in FirstCode .. Size(v.table) - 1 : p # q => Entry(t1, p) = Entry(v.table, p)
    BY <2>4, <2>7, <1>1, ChangedTable
  <2>9. PICK t2 : t2 = Append(v.newTable, y)
    OBVIOUS
  <2>10. /\ t2 \in Seq(DecInfo) /\ Size(t2) = Size(v.newTable) + 1
         /\ Entry(t2, Size(v.newTable)) = y
         /\ \A p \in FirstCode .. Size(v.newTable) - 1 : Entry(t2, p) = Entry(v.newTable, p)
    BY <2>6, <2>9, <1>1, GrownTable
  <2>11. AddCode(v, q) = [table |-> t1, newTable |-> t2]
    <3>1. v.table[q - FirstCode + 1] = info
      BY <2>1 DEF Entry
    <3>2. [v.table EXCEPT ![q - FirstCode + 1] = [@ EXCEPT !.newCode = code, !.used = TRUE]] = t1
      BY <3>1, <2>3, <2>7
    <3>3. QED
      BY <3>2, <2>1, <2>2, <2>5, <2>9, <1>2, <1>3 DEF AddCode
  <2>12. QED
    BY <2>1, <2>2, <2>3, <2>5, <2>8, <2>10, <2>11 DEF Adds, TwoTables
<1>4. ASSUME ~HasRoom(Size(v.newTable)) PROVE AddCode(v, q) = v
  BY <1>2, <1>4 DEF AddCode
<1>5. QED
  BY <1>3, <1>4

\* Both tables are well made: in the next one nothing is used yet; in this one
\* an entry that is used has a code in the next one, and so has the sequence
\* that it continues.
WellMade(s) ==
  /\ s \in TwoTables /\ Table(s.table) /\ Table(s.newTable)
  /\ Size(s.newTable) <= MaxCodeForOptimize
  /\ \A q \in FirstCode .. Size(s.newTable) - 1 :
       ~Entry(s.newTable, q).used /\ Entry(s.newTable, q).newCode = 0
  /\ \A q \in FirstCode .. Size(s.table) - 1 :
       LET info == Entry(s.table, q) IN
       IF info.used
       THEN /\ info.newCode < Size(s.newTable)
            /\ info.prevCode < FirstCode \/ Entry(s.table, info.prevCode).used
       ELSE info.newCode = 0

\* A sequence that needs no code, has one, or gets none.
Marked(s, q) == q < FirstCode \/ Entry(s.table, q).used \/ ~HasRoom(Size(s.newTable))

IsMarking(marked, s) ==
  marked = [q \in 0 .. Len(s.table) + FirstCode - 1 |->
              IF q < FirstCode \/ Entry(s.table, q).used THEN s
              ELSE AddCode(marked[Entry(s.table, q).prevCode], q)]

Marks(f, s) ==
  \A q \in 0 .. Size(s.table) - 1 :
    f[q] = IF q < FirstCode \/ Entry(s.table, q).used THEN s
           ELSE AddCode(f[Entry(s.table, q).prevCode], q)

\* Tables in which the entries continue the same sequences.
Variants(s) ==
  {v \in TwoTables : Size(v.table) = Size(s.table)
     /\ \A q \in FirstCode .. Size(s.table) - 1 :
          Entry(v.table, q).prevCode = Entry(s.table, q).prevCode}

\* addCode leaves that as it is.
LEMMA VariantsClosed ==
  ASSUME NEW s \in TwoTables, Table(s.table), NEW v \in Variants(s),
         NEW q \in FirstCode .. Size(s.table) - 1
  PROVE  AddCode(v, q) \in Variants(s)
<1>1. /\ v \in TwoTables /\ Size(v.table) = Size(s.table)
      /\ \A p \in FirstCode .. Size(s.table) - 1 :
           Entry(v.table, p).prevCode = Entry(s.table, p).prevCode
      /\ s.table \in Seq(DecInfo) /\ v.table \in Seq(DecInfo)
  BY DEF Variants, TwoTables
<1>2. Entry(v.table, q).prevCode \in 0 .. Size(v.table) - 1
  <2>1. Entry(s.table, q).prevCode \in Nat /\ Entry(s.table, q).prevCode < q
    BY <1>1, EntryIs DEF Table
  <2>2. Size(s.table) \in Nat /\ FirstCode \in Nat
    BY <1>1, SizeIs
  <2>3. QED
    BY <1>1, <2>1, <2>2
<1>3. CASE ~HasRoom(Size(v.newTable))
  BY <1>1, <1>2, <1>3, AddCodeIs
<1>4. CASE HasRoom(Size(v.newTable))
  <2>1. PICK t : t = AddCode(v, q)
    OBVIOUS
  <2>2. Adds(v, t, q)
    BY <2>1, <1>1, <1>2, <1>4, AddCodeIs
  <2>3. t \in TwoTables /\ Size(t.table) = Size(s.table)
    BY <2>2, <1>1 DEF Adds
  <2>4. Entry(v.table, q) \in DecInfo
    BY <1>1, EntryIs
  <2>5. Entry(t.table, q).prevCode = Entry(v.table, q).prevCode
    BY <2>2, <2>4 DEF Adds, DecInfo
  <2>6. ASSUME NEW p \in FirstCode .. Size(s.table) - 1
        PROVE  Entry(t.table, p).prevCode = Entry(s.table, p).prevCode
    <3>1. CASE p = q
      BY <3>1, <2>5, <1>1
    <3>2. CASE p # q
      BY <3>2, <2>2, <1>1 DEF Adds
    <3>3. QED
      BY <3>1, <3>2
  <2>7. QED
    BY <2>1, <2>3, <2>6 DEF Variants
<1>5. QED
  BY <1>3, <1>4

\* There is such a function.
LEMMA MarksExists ==
  ASSUME NEW s \in TwoTables, Table(s.table)
  PROVE  \E f \in [0 .. Size(s.table) - 1 -> Variants(s)] : Marks(f, s)
<1> DEFINE n == Size(s.table)
           V == Variants(s)
           ends == {q \in 0 .. n - 1 : q < FirstCode \/ Entry(s.table, q).used}
           first == [q \in 0 .. n - 1 |-> s]
           below == [q \in 0 .. n - 1 |-> Entry(s.table, q).prevCode]
           step == [x \in (0 .. n - 1) \X V |-> AddCode(x[2], x[1])]
<1>1. s.table \in Seq(DecInfo) /\ n \in Nat /\ FirstCode \in Nat /\ n >= FirstCode
  BY SizeIs DEF TwoTables
<1>2. s \in V
  BY DEF Variants
<1>3. ASSUME NEW q \in 0 .. n - 1, q \notin ends
      PROVE  /\ below[q] \in 0 .. q - 1
             /\ \A v \in V : step[<<q, v>>] = AddCode(v, q) /\ step[<<q, v>>] \in V
  <2>1. q \in FirstCode .. Size(s.table) - 1
    BY <1>1, <1>3
  <2>2. below[q] \in 0 .. q - 1
    BY <2>1, <1>1, EntryIs DEF Table
  <2>3. ASSUME NEW v \in V
        PROVE  step[<<q, v>>] = AddCode(v, q) /\ step[<<q, v>>] \in V
    <3>1. step[<<q, v>>] = AddCode(v, q)
      OBVIOUS
    <3>2. AddCode(v, q) \in V
      BY <2>1, VariantsClosed
    <3>3. QED
      BY <3>1, <3>2
  <2>4. QED
    BY <2>2, <2>3
<1>4. \A q \in 0 .. n - 1 : first[q] = s /\ below[q] = Entry(s.table, q).prevCode
  OBVIOUS
<1>5. \A q \in 0 .. n - 1 : q \in ends <=> q < FirstCode \/ Entry(s.table, q).used
  OBVIOUS
<1> HIDE DEF n, V, first, below, step, ends
<1>6. IsDescent(n, V, ends, first, below, step)
  BY <1>1, <1>2, <1>3, <1>4 DEF IsDescent
<1>7. PICK f \in [0 .. n - 1 -> V] : Descends(f, n, ends, first, below, step)
  BY <1>6, DescentExists
<1>8. ASSUME NEW q \in 0 .. n - 1
      PROVE  f[q] = IF q < FirstCode \/ Entry(s.table, q).used THEN s
                    ELSE AddCode(f[Entry(s.table, q).prevCode], q)
  <2>1. CASE q \in ends
    BY <2>1, <1>4, <1>5, <1>7 DEF Descends
  <2>2. CASE q \notin ends
    <3>1. below[q] \in 0 .. n - 1
      BY <2>2, <1>1, <1>3 DEF n
    <3>2. f[below[q]] \in V
      BY <3>1, <1>7
    <3>3. f[q] = step[<<q, f[below[q]]>>]
      BY <2>2, <1>7 DEF Descends
    <3>4. f[q] = AddCode(f[below[q]], q)
      BY <2>2, <3>2, <3>3, <1>3
    <3>5. ~(q < FirstCode \/ Entry(s.table, q).used) /\ below[q] = Entry(s.table, q).prevCode
      BY <2>2, <1>4, <1>5
    <3>6. QED
      BY <3>4, <3>5
  <2>3. QED
    BY <2>1, <2>2
<1>9. QED
  BY <1>7, <1>8 DEF Marks, n, V

\* MarkUsed is one of them.
LEMMA MarkUsedSteps ==
  ASSUME NEW s \in TwoTables, Table(s.table), NEW q \in 0 .. Size(s.table) - 1
  PROVE  MarkUsed(s, q) = IF q < FirstCode \/ Entry(s.table, q).used THEN s
                          ELSE AddCode(MarkUsed(s, Entry(s.table, q).prevCode), q)
<1>0. 0 .. Len(s.table) + FirstCode - 1 = 0 .. Size(s.table) - 1
      /\ s.table \in Seq(DecInfo) /\ Size(s.table) \in Nat
  BY SizeIs DEF TwoTables
<1>1. PICK f \in [0 .. Size(s.table) - 1 -> Variants(s)] : Marks(f, s)
  BY MarksExists
<1>2. IsMarking(f, s)
  <2>1. f = [p \in 0 .. Size(s.table) - 1 |-> f[p]]
    BY <1>1
  <2>2. QED
    BY <2>1, <1>0, <1>1 DEF Marks, IsMarking
<1> DEFINE marked == CHOOSE marked : IsMarking(marked, s)
<1>3. IsMarking(marked, s)
  BY <1>2
<1>4. \A p : MarkUsed(s, p) = marked[p]
  BY DEF MarkUsed, IsMarking
<1> HIDE DEF marked
<1>5. marked[q] = IF q < FirstCode \/ Entry(s.table, q).used THEN s
                  ELSE AddCode(marked[Entry(s.table, q).prevCode], q)
  BY <1>0, <1>3 DEF IsMarking
<1>6. QED
  BY <1>4, <1>5

\* What marking the sequence q does: t is s after it.
MarksOff(s, t, q) ==
  /\ WellMade(t) /\ Marked(t, q) /\ Size(t.table) = Size(s.table)
  /\ \A p \in FirstCode .. Size(s.table) - 1 :
       /\ Entry(t.table, p).prevCode = Entry(s.table, p).prevCode
       /\ Entry(t.table, p).outchar = Entry(s.table, p).outchar
       /\ Entry(s.table, p).used \/ p > q => Entry(t.table, p) = Entry(s.table, p)
  /\ Size(s.newTable) <= Size(t.newTable)
  /\ \A p \in FirstCode .. Size(s.newTable) - 1 : Entry(t.newTable, p) = Entry(s.newTable, p)

\* The last entry of a sequence, after the shorter ones: the two tables stay
\* well made.
LEMMA AddCodeWellMade ==
  ASSUME NEW v, WellMade(v), NEW q \in FirstCode .. Size(v.table) - 1,
         Marked(v, Entry(v.table, q).prevCode), HasRoom(Size(v.newTable)),
         NEW t, Adds(v, t, q)
  PROVE  WellMade(t)
<1>1. /\ v \in TwoTables /\ Table(v.table) /\ Table(v.newTable)
      /\ v.table \in Seq(DecInfo) /\ v.newTable \in Seq(DecInfo)
  BY DEF WellMade, TwoTables
<1>2. PICK n \in Nat : n = Size(v.newTable) /\ n >= FirstCode
  BY <1>1, SizeIs
<1>3. PICK m \in Nat : m = Size(v.table) /\ m >= FirstCode
  BY <1>1, SizeIs
<1>4. PICK r : r = Entry(v.table, q).prevCode
  OBVIOUS
<1>5. r \in Nat /\ r < q /\ q \in Nat /\ q < m /\ FirstCode \in Nat
  BY <1>1, <1>3, <1>4, EntryIs, CodesAre DEF Table
<1>6. /\ t \in TwoTables /\ Size(t.table) = m /\ Size(t.newTable) = n + 1
      /\ t.table \in Seq(DecInfo) /\ t.newTable \in Seq(DecInfo)
      /\ \A p \in FirstCode .. m - 1 : p # q => Entry(t.table, p) = Entry(v.table, p)
      /\ \A p \in FirstCode .. n - 1 : Entry(t.newTable, p) = Entry(v.newTable, p)
  BY <1>2, <1>3 DEF Adds, TwoTables
<1>7. PICK info \in DecInfo : info = Entry(v.table, q)
  BY <1>1, EntryIs
<1>8. /\ Entry(t.table, q).prevCode = r /\ Entry(t.table, q).newCode = n
      /\ Entry(t.table, q).used
  <2>1. Entry(t.table, q) = [info EXCEPT !.newCode = n, !.used = TRUE]
    BY <1>2, <1>7 DEF Adds
  <2>2. QED
    BY <2>1, <1>4, <1>7 DEF DecInfo
<1>9. r < FirstCode \/ Entry(v.table, r).used
  BY <1>4 DEF Marked
<1>10. /\ Entry(t.newTable, n).prevCode = Translated(v.table, r)
       /\ Entry(t.newTable, n).newCode = 0 /\ ~Entry(t.newTable, n).used
  <2>1. Entry(t.newTable, n) = [prevCode |-> Translated(v.table, r), newCode |-> 0,
                                outchar |-> info.outchar, used |-> FALSE]
    BY <1>2, <1>4, <1>7 DEF Adds
  <2>2. QED
    BY <2>1
<1>11. Translated(v.table, r) < n
  <2>1. CASE r < FirstCode
    BY <2>1, <1>2, <1>5 DEF Translated
  <2>2. CASE ~(r < FirstCode)
    <3>1. r \in FirstCode .. Size(v.table) - 1
      BY <2>2, <1>3, <1>5
    <3>2. Entry(v.table, r).newCode < n
      BY <2>2, <3>1, <1>2, <1>9 DEF WellMade
    <3>3. QED
      BY <2>2, <3>2 DEF Translated
  <2>3. QED
    BY <2>1, <2>2
<1>12. Table(t.table)
  <2>1. ASSUME NEW p \in FirstCode .. m - 1 PROVE Entry(t.table, p).prevCode < p
    <3>1. CASE p = q
      BY <3>1, <1>5, <1>8
    <3>2. CASE p # q
      BY <3>2, <1>1, <1>3, <1>6 DEF Table
    <3>3. QED
      BY <3>1, <3>2
  <2>2. QED
    BY <2>1, <1>6 DEF Table
<1>13. Table(t.newTable)
  <2>1. ASSUME NEW p \in FirstCode .. n PROVE Entry(t.newTable, p).prevCode < p
    <3>1. CASE p = n
      BY <3>1, <1>10, <1>11
    <3>2. CASE p # n
      <4>1. p \in FirstCode .. n - 1
        BY <3>2, <1>2, <1>5
      <4>2. QED
        BY <4>1, <1>1, <1>2, <1>6 DEF Table
    <3>3. QED
      BY <3>1, <3>2
  <2>2. Size(t.newTable) - 1 = n
    BY <1>2, <1>6
  <2>3. QED
    BY <2>1, <2>2, <1>6 DEF Table
<1>14. Size(t.newTable) <= MaxCodeForOptimize
  BY <1>2, <1>6, CodesAre DEF HasRoom
<1>15. ASSUME NEW p \in FirstCode .. Size(t.newTable) - 1
       PROVE  ~Entry(t.newTable, p).used /\ Entry(t.newTable, p).newCode = 0
  <2>1. CASE p = n
    BY <2>1, <1>10
  <2>2. CASE p # n
    <3>1. p \in FirstCode .. n - 1
      BY <2>2, <1>2, <1>5, <1>6
    <3>2. QED
      BY <3>1, <1>2, <1>6 DEF WellMade
  <2>3. QED
    BY <2>1, <2>2
<1>16. ASSUME NEW p \in FirstCode .. m - 1
       PROVE  LET x == Entry(t.table, p) IN
              IF x.used THEN /\ x.newCode < n + 1
                             /\ x.prevCode < FirstCode \/ Entry(t.table, x.prevCode).used
              ELSE x.newCode = 0
  <2>1. CASE p = q
    <3>1. r < FirstCode \/ Entry(t.table, r).used
      <4>1. ASSUME ~(r < FirstCode) PROVE Entry(t.table, r) = Entry(v.table, r)
        <5>1. r \in FirstCode .. m - 1 /\ r # q
          BY <4>1, <1>5, <1>3
        <5>2. QED
          BY <5>1, <1>6
      <4>2. QED
        BY <4>1, <1>9
    <3>2. n < n + 1
      BY <1>2
    <3>3. QED
      BY <2>1, <3>1, <3>2, <1>8
  <2>2. CASE p # q
    <3>1. PICK x \in DecInfo : x = Entry(v.table, p) /\ x = Entry(t.table, p)
      BY <2>2, <1>1, <1>3, <1>6, EntryIs
    <3>2. IF x.used THEN x.newCode < n /\ (x.prevCode < FirstCode \/ Entry(v.table, x.prevCode).used)
          ELSE x.newCode = 0
      BY <3>1, <1>2, <1>3 DEF WellMade
    <3>3. ASSUME x.used, ~(x.prevCode < FirstCode) PROVE Entry(t.table, x.prevCode).used
      <4>1. x.prevCode < p /\ x.prevCode \in Nat
        BY <3>1, <1>1, <1>3 DEF Table, DecInfo
      <4>2. x.prevCode \in FirstCode .. m - 1
        BY <3>3, <4>1, <1>3, <1>5
      <4>3. CASE x.prevCode = q
        BY <4>3, <1>8
      <4>4. CASE x.prevCode # q
        BY <4>2, <4>4, <3>2, <3>3, <1>6
      <4>5. QED
        BY <4>3, <4>4
    <3>4. x.used => x.newCode < n + 1
      BY <3>2, <1>2 DEF DecInfo
    <3>5. QED
      BY <3>1, <3>2, <3>3, <3>4
  <2>3. QED
    BY <2>1, <2>2
<1>17. QED
  BY <1>6, <1>12, <1>13, <1>14, <1>15, <1>16 DEF WellMade

\* One entry more is marked.
LEMMA MarkStep ==
  ASSUME NEW s, WellMade(s), NEW q \in FirstCode .. Size(s.table) - 1, ~Entry(s.table, q).used,
         NEW v, MarksOff(s, v, Entry(s.table, q).prevCode)
  PROVE  MarksOff(s, AddCode(v, q), q)
<1>1. /\ s \in TwoTables /\ Table(s.table) /\ s.table \in Seq(DecInfo) /\ s.newTable \in Seq(DecInfo)
      /\ v \in TwoTables /\ Table(v.table) /\ v.table \in Seq(DecInfo) /\ v.newTable \in Seq(DecInfo)
      /\ WellMade(v) /\ Size(v.table) = Size(s.table)
  BY DEF WellMade, MarksOff, TwoTables
<1>2. PICK r : r = Entry(s.table, q).prevCode
  OBVIOUS
<1>3. r \in Nat /\ r < q /\ q \in Nat /\ FirstCode \in Nat /\ Size(s.table) \in Nat
  BY <1>1, <1>2, EntryIs, SizeIs, CodesAre DEF Table
<1>4. /\ Entry(v.table, q) = Entry(s.table, q) /\ Entry(v.table, q).prevCode = r
      /\ Marked(v, r)
  BY <1>2, <1>3 DEF MarksOff
<1>5. Entry(v.table, q).prevCode \in 0 .. Size(v.table) - 1
  BY <1>1, <1>3, <1>4
<1>6. \A p \in FirstCode .. Size(s.table) - 1 : p > q => p > r
  BY <1>3
<1>7. CASE ~HasRoom(Size(v.newTable))
  <2>1. AddCode(v, q) = v
    BY <1>1, <1>5, <1>7, AddCodeIs
  <2>2. Marked(v, q)
    BY <1>7 DEF Marked
  <2>3. MarksOff(s, v, q)
    BY <2>2, <1>2, <1>6 DEF MarksOff
  <2>4. QED
    BY <2>1, <2>3
<1>8. CASE HasRoom(Size(v.newTable))
  <2>1. PICK t : t = AddCode(v, q)
    OBVIOUS
  <2>2. Adds(v, t, q)
    BY <2>1, <1>1, <1>5, <1>8, AddCodeIs
  <2>3. WellMade(t)
    BY <2>2, <1>1, <1>4, <1>8, AddCodeWellMade
  <2>4. PICK info \in DecInfo : info = Entry(v.table, q)
    BY <1>1, EntryIs
  <2>5. /\ Entry(t.table, q).prevCode = info.prevCode /\ Entry(t.table, q).outchar = info.outchar
        /\ Entry(t.table, q).used
    <3>1. Entry(t.table, q) = [info EXCEPT !.newCode = Size(v.newTable), !.used = TRUE]
      BY <2>2, <2>4 DEF Adds
    <3>2. QED
      BY <3>1 DEF DecInfo
  <2>6. Marked(t, q)
    BY <2>5 DEF Marked
  <2>7. /\ Size(t.table) = Size(s.table) /\ Size(t.newTable) = Size(v.newTable) + 1
        /\ \A p \in FirstCode .. Size(s.table) - 1 : p # q => Entry(t.table, p) = Entry(v.table, p)
        /\ \A p \in FirstCode .. Size(v.newTable) - 1 : Entry(t.newTable, p) = Entry(v.newTable, p)
    BY <2>2, <1>1 DEF Adds
  <2>8. ASSUME NEW p \in FirstCode .. Size(s.table) - 1
        PROVE  /\ Entry(t.table, p).prevCode = Entry(s.table, p).prevCode
               /\ Entry(t.table, p).outchar = Entry(s.table, p).outchar
               /\ Entry(s.table, p).used \/ p > q => Entry(t.table, p) = Entry(s.table, p)
    <3>1. CASE p = q
      BY <3>1, <2>4, <2>5, <1>3, <1>4
    <3>2. CASE p # q
      BY <3>2, <2>7, <1>2, <1>6 DEF MarksOff
    <3>3. QED
      BY <3>1, <3>2
  <2>9. Size(s.newTable) <= Size(v.newTable) /\ Size(s.newTable) \in Nat /\ Size(v.newTable) \in Nat
    BY <1>1, SizeIs DEF MarksOff
  <2>10. ASSUME NEW p \in FirstCode .. Size(s.newTable) - 1
         PROVE  Entry(t.newTable, p) = Entry(s.newTable, p)
    <3>1. p \in FirstCode .. Size(v.newTable) - 1
      BY <2>9, <1>3
    <3>2. QED
      BY <3>1, <2>7 DEF MarksOff
  <2>11. Size(s.newTable) <= Size(t.newTable)
    BY <2>7, <2>9
  <2>12. QED
    BY <2>1, <2>3, <2>6, <2>7, <2>8, <2>10, <2>11 DEF MarksOff
<1>9. QED
  BY <1>7, <1>8

\* Marking keeps the tables well made; every entry along the sequence has then
\* a code in the next table, or that is full.
LEMMA MarkUsedIs ==
  ASSUME NEW s, WellMade(s), NEW q \in 0 .. Size(s.table) - 1
  PROVE  MarksOff(s, MarkUsed(s, q), q)
<1>1. s \in TwoTables /\ Table(s.table) /\ s.table \in Seq(DecInfo) /\ s.newTable \in Seq(DecInfo)
  BY DEF WellMade, TwoTables
<1>2. Size(s.table) \in Nat /\ Size(s.newTable) \in Nat /\ FirstCode \in Nat
  BY <1>1, SizeIs
<1> DEFINE T == {n \in Nat : \A p \in 0 .. Size(s.table) - 1 : p < n => MarksOff(s, MarkUsed(s, p), p)}
<1>3. 0 \in T
  OBVIOUS
<1>4. ASSUME NEW n \in Nat, n \in T PROVE n + 1 \in T
  <2>1. ASSUME NEW p \in 0 .. Size(s.table) - 1, p < n + 1 PROVE MarksOff(s, MarkUsed(s, p), p)
    <3>1. CASE p < FirstCode \/ Entry(s.table, p).used
      <4>1. MarkUsed(s, p) = s
        BY <3>1, <1>1, MarkUsedSteps
      <4>2. Marked(s, p)
        BY <3>1 DEF Marked
      <4>3. Size(s.newTable) <= Size(s.newTable)
        BY <1>2
      <4>4. QED
        BY <4>1, <4>2, <4>3 DEF MarksOff
    <3>2. CASE ~(p < FirstCode \/ Entry(s.table, p).used)
      <4>1. p \in FirstCode .. Size(s.table) - 1
        BY <3>2, <1>2
      <4>2. PICK r : r = Entry(s.table, p).prevCode
        OBVIOUS
      <4>3. r \in Nat /\ r < p
        BY <4>1, <4>2, <1>1, EntryIs DEF Table
      <4>4. r \in 0 .. Size(s.table) - 1 /\ r < n
        BY <4>3, <2>1, <1>2
      <4>5. MarksOff(s, MarkUsed(s, r), r)
        BY <4>4, <1>4
      <4>6. MarkUsed(s, p) = AddCode(MarkUsed(s, r), p)
        BY <3>2, <4>2, <1>1, MarkUsedSteps
      <4>7. QED
        BY <4>1, <4>2, <4>5, <4>6, <3>2, MarkStep
    <3>3. QED
      BY <3>1, <3>2
  <2>2. QED
    BY <2>1
<1>5. Nat \subseteq T
  <2> HIDE DEF T
  <2>1. QED
    BY <1>3, <1>4, Induction
<1>6. q + 1 \in T /\ q < q + 1
  BY <1>5, <1>2
<1>7. QED
  BY <1>6

\* What is marked already is not marked again.
LEMMA MarkUsedAgain ==
  ASSUME NEW s, WellMade(s), NEW q \in 0 .. Size(s.table) - 1, Marked(s, q)
  PROVE  MarkUsed(s, q) = s
<1>1. s \in TwoTables /\ Table(s.table) /\ s.table \in Seq(DecInfo) /\ s.newTable \in Seq(DecInfo)
  BY DEF WellMade, TwoTables
<1>2. Size(s.table) \in Nat /\ FirstCode \in Nat
  BY <1>1, SizeIs
<1>3. CASE q < FirstCode \/ Entry(s.table, q).used
  BY <1>3, <1>1, MarkUsedSteps
<1>4. CASE ~HasRoom(Size(s.newTable))
  <2> DEFINE T == {n \in Nat : \A p \in 0 .. Size(s.table) - 1 : p < n => MarkUsed(s, p) = s}
  <2>1. 0 \in T
    OBVIOUS
  <2>2. ASSUME NEW n \in Nat, n \in T PROVE n + 1 \in T
    <3>1. ASSUME NEW p \in 0 .. Size(s.table) - 1, p < n + 1 PROVE MarkUsed(s, p) = s
      <4>1. CASE p < FirstCode \/ Entry(s.table, p).used
        BY <4>1, <1>1, MarkUsedSteps
      <4>2. CASE ~(p < FirstCode \/ Entry(s.table, p).used)
        <5>1. p \in FirstCode .. Size(s.table) - 1
          BY <4>2, <1>2
        <5>2. PICK r : r = Entry(s.table, p).prevCode
          OBVIOUS
        <5>3. r \in Nat /\ r < p
          BY <5>1, <5>2, <1>1, EntryIs DEF Table
        <5>4. r \in 0 .. Size(s.table) - 1 /\ r < n
          BY <5>3, <3>1, <1>2
        <5>5. MarkUsed(s, r) = s
          BY <5>4, <2>2
        <5>6. MarkUsed(s, p) = AddCode(s, p)
          BY <4>2, <5>2, <5>5, <1>1, MarkUsedSteps
        <5>7. QED
          BY <5>1, <5>2, <5>4, <5>6, <1>1, <1>4, AddCodeIs
      <4>3. QED
        BY <4>1, <4>2
    <3>2. QED
      BY <3>1
  <2>3. Nat \subseteq T
    <3> HIDE DEF T
    <3>1. QED
      BY <2>1, <2>2, Induction
  <2>4. q + 1 \in T /\ q < q + 1
    BY <2>3, <1>2
  <2>5. QED
    BY <2>4
<1>5. QED
  BY <1>3, <1>4 DEF Marked

\* The tables with one entry more in the first.
With(s, x) == [s EXCEPT !.table = Append(@, x)]

\* What With changes, and what it leaves alone.
LEMMA WithIs ==
  ASSUME NEW s \in TwoTables, NEW x \in DecInfo
  PROVE  /\ With(s, x) \in TwoTables /\ With(s, x).table = Append(s.table, x)
         /\ With(s, x).newTable = s.newTable /\ Size(With(s, x).table) = Size(s.table) + 1
         /\ Entry(With(s, x).table, Size(s.table)) = x
         /\ \A q \in FirstCode .. Size(s.table) - 1 :
              Entry(With(s, x).table, q) = Entry(s.table, q)
<1>1. s.table \in Seq(DecInfo) /\ s.newTable \in Seq(DecInfo)
  BY DEF TwoTables
<1>2. Append(s.table, x) \in Seq(DecInfo)
  BY <1>1
<1>3. /\ With(s, x) \in TwoTables /\ With(s, x).table = Append(s.table, x)
      /\ With(s, x).newTable = s.newTable
  BY <1>2 DEF With, TwoTables
<1>4. QED
  BY <1>1, <1>3, GrownTable

\* An unused entry that continues a known sequence can be added.
LEMMA WithWellMade ==
  ASSUME NEW s, WellMade(s), NEW x \in DecInfo, x.prevCode \in 0 .. Size(s.table) - 1,
         ~x.used, x.newCode = 0
  PROVE  WellMade(With(s, x))
<1>1. s \in TwoTables /\ s.table \in Seq(DecInfo) /\ s.newTable \in Seq(DecInfo) /\ Table(s.table)
  BY DEF WellMade, TwoTables
<1>2. PICK t : t = With(s, x)
  OBVIOUS
<1>3. PICK m \in Nat : m = Size(s.table) /\ FirstCode \in Nat
  BY <1>1, SizeIs
<1>4. /\ t \in TwoTables /\ t.newTable = s.newTable /\ t.table \in Seq(DecInfo)
      /\ Size(t.table) = m + 1 /\ Entry(t.table, m) = x
      /\ \A q \in FirstCode .. m - 1 : Entry(t.table, q) = Entry(s.table, q)
  BY <1>1, <1>2, <1>3, WithIs DEF TwoTables
<1>5. (m + 1) - 1 = m
  OBVIOUS
<1>6. Table(t.table)
  <2>1. ASSUME NEW q \in FirstCode .. m PROVE Entry(t.table, q).prevCode < q
    <3>1. CASE q = m
      BY <3>1, <1>3, <1>4
    <3>2. CASE q # m
      <4>1. q \in FirstCode .. m - 1
        BY <3>2, <1>3
      <4>2. QED
        BY <4>1, <1>1, <1>3, <1>4 DEF Table
    <3>3. QED
      BY <3>1, <3>2
  <2>2. QED
    BY <2>1, <1>4, <1>5 DEF Table
<1>7. ASSUME NEW q \in FirstCode .. m
      PROVE  LET info == Entry(t.table, q) IN
             IF info.used
             THEN /\ info.newCode < Size(t.newTable)
                  /\ info.prevCode < FirstCode \/ Entry(t.table, info.prevCode).used
             ELSE info.newCode = 0
  <2>1. CASE q = m
    BY <2>1, <1>4
  <2>2. CASE q # m
    <3>1. q \in FirstCode .. m - 1
      BY <2>2, <1>3
    <3>2. PICK info : info = Entry(s.table, q) /\ info = Entry(t.table, q)
      BY <3>1, <1>4
    <3>3. info.prevCode < m /\ info.prevCode \in Nat
      <4>1. info.prevCode \in Nat
        BY <3>1, <3>2, <1>1, <1>3, EntryIs
      <4>2. info.prevCode < q
        BY <3>1, <3>2, <1>1, <1>3 DEF Table
      <4>3. QED
        BY <3>1, <4>1, <4>2, <1>3
    <3>4. info.prevCode < FirstCode \/ Entry(t.table, info.prevCode) = Entry(s.table, info.prevCode)
      BY <3>3, <1>3, <1>4
    <3>5. IF info.used
          THEN /\ info.newCode < Size(s.newTable)
               /\ info.prevCode < FirstCode \/ Entry(s.table, info.prevCode).used
          ELSE info.newCode = 0
      BY <3>1, <3>2, <1>3 DEF WellMade
    <3>6. QED
      BY <3>2, <3>4, <3>5, <1>4
  <2>3. QED
    BY <2>1, <2>2
<1>8. QED
  BY <1>2, <1>4, <1>5, <1>6, <1>7 DEF WellMade

\* Replacing an item and appending another can be swapped.
LEMMA AppendExcept ==
  ASSUME NEW S, NEW s \in Seq(S), NEW i \in 1 .. Len(s), NEW y \in S, NEW x \in S
  PROVE  [Append(s, x) EXCEPT ![i] = y] = Append([s EXCEPT ![i] = y], x)
<1>1. PICK n \in Nat : n = Len(s)
  OBVIOUS
<1>2. PICK t : t = [s EXCEPT ![i] = y]
  OBVIOUS
<1>3. t \in Seq(S) /\ Len(t) = n
  BY <1>1, <1>2
<1>4. \A k \in 1 .. n : t[k] = IF k = i THEN y ELSE s[k]
  BY <1>1, <1>2
<1>5. PICK u : u = Append(s, x)
  OBVIOUS
<1>6. u \in Seq(S) /\ Len(u) = n + 1 /\ i \in 1 .. Len(u)
  BY <1>1, <1>5
<1>7. \A k \in 1 .. n + 1 : u[k] = IF k = n + 1 THEN x ELSE s[k]
  BY <1>1, <1>5
<1>8. PICK a : a = [u EXCEPT ![i] = y]
  OBVIOUS
<1>9. a \in Seq(S) /\ Len(a) = n + 1
  BY <1>6, <1>8
<1>10. \A k \in 1 .. n + 1 : a[k] = IF k = i THEN y ELSE u[k]
  BY <1>6, <1>8
<1>11. PICK b : b = Append(t, x)
  OBVIOUS
<1>12. b \in Seq(S) /\ Len(b) = n + 1
  BY <1>3, <1>11
<1>13. \A k \in 1 .. n + 1 : b[k] = IF k = n + 1 THEN x ELSE t[k]
  BY <1>3, <1>11
<1>14. ASSUME NEW k \in 1 .. n + 1 PROVE a[k] = b[k]
  <2>1. CASE k = n + 1
    BY <2>1, <1>1, <1>7, <1>10, <1>13
  <2>2. CASE k \in 1 .. n
    BY <2>2, <1>4, <1>7, <1>10, <1>13
  <2>3. QED
    BY <2>1, <2>2
<1>15. a = b
  BY <1>9, <1>12, <1>14
<1>16. QED
  BY <1>2, <1>5, <1>8, <1>11, <1>15
\* addCode does the same whether or not the table has one entry more.
LEMMA AddCodeWith ==
  ASSUME NEW v \in TwoTables, NEW x \in DecInfo, NEW q \in FirstCode .. Size(v.table) - 1,
         Entry(v.table, q).prevCode \in 0 .. Size(v.table) - 1
  PROVE  AddCode(With(v, x), q) = With(AddCode(v, q), x)
<1>1. v.table \in Seq(DecInfo) /\ v.newTable \in Seq(DecInfo)
  BY DEF TwoTables
<1>2. PICK w : w = With(v, x)
  OBVIOUS
<1>3. /\ w.table = Append(v.table, x) /\ w.newTable = v.newTable
      /\ \A p \in FirstCode .. Size(v.table) - 1 : Entry(w.table, p) = Entry(v.table, p)
  BY <1>2, WithIs
<1>4. PICK i : i = q - FirstCode + 1 /\ i \in 1 .. Len(v.table)
  BY <1>1, EntryIs
<1>5. PICK info \in DecInfo : info = Entry(v.table, q) /\ info = Entry(w.table, q)
  BY <1>1, <1>3, EntryIs
<1>6. Translated(w.table, info.prevCode) = Translated(v.table, info.prevCode)
  <2>1. CASE info.prevCode < FirstCode
    BY <2>1 DEF Translated
  <2>2. CASE ~(info.prevCode < FirstCode)
    <3>1. info.prevCode \in FirstCode .. Size(v.table) - 1
      BY <2>2, <1>5, CodesAre
    <3>2. QED
      BY <3>1, <2>2, <1>3 DEF Translated
  <2>3. QED
    BY <2>1, <2>2
<1>7. CASE ~HasRoom(Len(v.newTable) + FirstCode)
  BY <1>2, <1>3, <1>7 DEF AddCode
<1>8. CASE HasRoom(Len(v.newTable) + FirstCode)
  <2>1. PICK code \in Nat : code = Len(v.newTable) + FirstCode
    BY <1>1, CodesAre
  <2>2. PICK y : y = [info EXCEPT !.newCode = code, !.used = TRUE]
    OBVIOUS
  <2>3. y \in DecInfo
    BY <2>1, <2>2 DEF DecInfo
  <2>4. PICK z : z = [prevCode |-> Translated(v.table, info.prevCode), newCode |-> 0,
                      outchar |-> info.outchar, used |-> FALSE]
    OBVIOUS
  <2>5. AddCode(v, q) = [table |-> [v.table EXCEPT ![i] = y], newTable |-> Append(v.newTable, z)]
    <3>1. v.table[i] = info
      BY <1>4, <1>5 DEF Entry
    <3>2. [v.table EXCEPT ![i] = [@ EXCEPT !.newCode = code, !.used = TRUE]] = [v.table EXCEPT ![i] = y]
      BY <3>1, <2>2
    <3>3. QED
      BY <3>2, <2>1, <2>4, <1>4, <1>5, <1>8 DEF AddCode
  <2>6. AddCode(w, q) = [table |-> [w.table EXCEPT ![i] = y], newTable |-> Append(v.newTable, z)]
    <3>1. w.table[i] = info
      BY <1>4, <1>5 DEF Entry
    <3>2. [w.table EXCEPT ![i] = [@ EXCEPT !.newCode = code, !.used = TRUE]] = [w.table EXCEPT ![i] = y]
      BY <3>1, <2>2
    <3>3. QED
      BY <3>2, <2>1, <2>4, <1>3, <1>4, <1>5, <1>6, <1>8 DEF AddCode
  <2>7. [Append(v.table, x) EXCEPT ![i] = y] = Append([v.table EXCEPT ![i] = y], x)
    <3>1. PICK tab \in Seq(DecInfo) : tab = v.table
      BY <1>1
    <3>2. i \in 1 .. Len(tab)
      BY <3>1, <1>4
    <3>3. [Append(tab, x) EXCEPT ![i] = y] = Append([tab EXCEPT ![i] = y], x)
      BY <3>2, <2>3, AppendExcept
    <3>4. QED
      BY <3>1, <3>3
  <2>8. With(AddCode(v, q), x) =
          [table |-> Append([v.table EXCEPT ![i] = y], x), newTable |-> Append(v.newTable, z)]
    <3>1. PICK a \in TwoTables : a = AddCode(v, q)
      <4>1. AddCode(v, q) \in TwoTables
        BY <1>8, AddCodeIs DEF Adds, Size
      <4>2. QED
        BY <4>1
    <3>2. PICK t : t = [v.table EXCEPT ![i] = y]
      OBVIOUS
    <3>3. PICK u : u = Append(v.newTable, z)
      OBVIOUS
    <3>4. a.table = t /\ a.newTable = u
      BY <3>1, <3>2, <3>3, <2>5
    <3>5. [a EXCEPT !.table = Append(@, x)] = [table |-> Append(t, x), newTable |-> u]
      <4>1. PICK l : l = Append(t, x)
        OBVIOUS
      <4>2. [a EXCEPT !.table = Append(@, x)] = [a EXCEPT !.table = l]
        BY <3>4, <4>1
      <4>3. [a EXCEPT !.table = l] = [table |-> l, newTable |-> u]
        BY <3>1, <3>4 DEF TwoTables
      <4>4. QED
        BY <4>1, <4>2, <4>3
    <3>6. QED
      BY <3>1, <3>2, <3>3, <3>5 DEF With
  <2>9. QED
    BY <2>6, <2>7, <2>8, <1>2, <1>3
<1>9. QED
  BY <1>7, <1>8

\* So does the marking of a sequence the smaller table has.
LEMMA MarkUsedWith ==
  ASSUME NEW s, WellMade(s), NEW x \in DecInfo, x.prevCode \in 0 .. Size(s.table) - 1,
         ~x.used, x.newCode = 0, NEW q \in 0 .. Size(s.table) - 1
  PROVE  MarkUsed(With(s, x), q) = With(MarkUsed(s, q), x)
<1>1. s \in TwoTables /\ Table(s.table) /\ s.table \in Seq(DecInfo) /\ s.newTable \in Seq(DecInfo)
  BY DEF WellMade, TwoTables
<1>2. PICK m \in Nat : m = Size(s.table) /\ FirstCode \in Nat
  BY <1>1, SizeIs
<1>3. PICK w : w = With(s, x)
  OBVIOUS
<1>4. /\ w \in TwoTables /\ Table(w.table) /\ Size(w.table) = m + 1
      /\ \A p \in FirstCode .. m - 1 : Entry(w.table, p) = Entry(s.table, p)
  BY <1>1, <1>2, <1>3, WithIs, WithWellMade DEF WellMade
<1> DEFINE T == {n \in Nat : \A p \in 0 .. m - 1 : p < n => MarkUsed(w, p) = With(MarkUsed(s, p), x)}
<1>5. 0 \in T
  OBVIOUS
<1>6. ASSUME NEW n \in Nat, n \in T PROVE n + 1 \in T
  <2>1. ASSUME NEW p \in 0 .. m - 1, p < n + 1 PROVE MarkUsed(w, p) = With(MarkUsed(s, p), x)
    <3>1. p \in 0 .. Size(s.table) - 1 /\ p \in 0 .. Size(w.table) - 1
      BY <1>2, <1>4
    <3>2. CASE p < FirstCode \/ Entry(s.table, p).used
      <4>1. p < FirstCode \/ Entry(w.table, p).used
        <5>1. ASSUME ~(p < FirstCode) PROVE Entry(w.table, p) = Entry(s.table, p)
          <6>1. p \in FirstCode .. m - 1
            BY <5>1, <1>2
          <6>2. QED
            BY <6>1, <1>4
        <5>2. QED
          BY <5>1, <3>2
      <4>2. MarkUsed(s, p) = s /\ MarkUsed(w, p) = w
        BY <4>1, <3>1, <3>2, <1>1, <1>4, MarkUsedSteps
      <4>3. QED
        BY <4>2, <1>3
    <3>3. CASE ~(p < FirstCode \/ Entry(s.table, p).used)
      <4>1. p \in FirstCode .. m - 1
        BY <3>3, <1>2
      <4>2. PICK r : r = Entry(s.table, p).prevCode /\ r = Entry(w.table, p).prevCode
        BY <4>1, <1>4
      <4>3. r \in Nat /\ r < p
        BY <4>1, <4>2, <1>1, <1>2, EntryIs DEF Table
      <4>4. r \in 0 .. m - 1 /\ r < n
        BY <4>3, <2>1, <1>2
      <4>5. PICK v : v = MarkUsed(s, r)
        OBVIOUS
      <4>6. MarksOff(s, v, r)
        BY <4>4, <4>5, <1>2, MarkUsedIs
      <4>7. MarkUsed(w, r) = With(v, x)
        BY <4>4, <4>5, <1>6
      <4>8. ~(p < FirstCode \/ Entry(w.table, p).used)
        BY <4>1, <3>3, <1>4
      <4>9. MarkUsed(s, p) = AddCode(v, p) /\ MarkUsed(w, p) = AddCode(With(v, x), p)
        BY <4>2, <4>5, <4>7, <4>8, <3>1, <3>3, <1>1, <1>4, MarkUsedSteps
      <4>10. v \in TwoTables /\ Size(v.table) = m /\ Entry(v.table, p).prevCode = r
        BY <4>1, <4>2, <4>6, <1>2 DEF MarksOff, WellMade
      <4>11. AddCode(With(v, x), p) = With(AddCode(v, p), x)
        BY <4>1, <4>4, <4>10, AddCodeWith
      <4>12. QED
        BY <4>9, <4>11
    <3>4. QED
      BY <3>2, <3>3
  <2>2. QED
    BY <2>1
<1>7. Nat \subseteq T
  <2> HIDE DEF T
  <2>1. QED
    BY <1>5, <1>6, Induction
<1>8. q + 1 \in T /\ q < q + 1 /\ q \in 0 .. m - 1
  BY <1>7, <1>2
<1>9. QED
  BY <1>3, <1>8

-----------------------------------------------------------------------------
(* The decompressor as a function of the codes it reads *)

Empty == [tables |-> [table |-> <<>>, newTable |-> <<>>], prev |-> None]

\* What decompress can go on from.
Good(d) ==
  /\ d \in [tables : TwoTables, prev : 0 .. MaxCode - 1 \cup {None}]
  /\ WellMade(d.tables)
  /\ d.prev # None => d.prev < Size(d.tables.table)

\* A code that stands for a sequence, known or about to be, or for one of the
\* two orders.
CanRead(d, code) ==
  /\ code \in 0 .. FlushCode
  /\ \/ code >= OptimizeCode
     \/ /\ code < MaxCode
        /\ code < Size(d.tables.table) \/ (code = Size(d.tables.table) /\ d.prev # None)

First(d, code) ==
  Spelled(d.tables.table, IF code = Size(d.tables.table) THEN d.prev ELSE code)[1]
Learned(d, code) == Learn(d.tables, d.prev, First(d, code))

\* The state after a code, and the text it stands for.
After(d, code) ==
  IF code = FlushCode THEN Empty
  ELSE IF code = OptimizeCode
  THEN [tables |-> [table |-> d.tables.newTable, newTable |-> <<>>], prev |-> None]
  ELSE [tables |-> MarkUsed(Learned(d, code), code), prev |-> code]
Said(d, code) ==
  IF code = FlushCode THEN <<Eof>>
  ELSE IF code = OptimizeCode THEN <<>>
  ELSE Spelled(Learned(d, code).table, code)

Item(prev, c) == [prevCode |-> prev, newCode |-> 0, outchar |-> c, used |-> FALSE]

\* Nothing is well made.
LEMMA EmptyIsGood == Good(Empty)
<1>1. PICK s : s = [table |-> <<>>, newTable |-> <<>>]
  OBVIOUS
<1>2. <<>> \in Seq(DecInfo) /\ Size(<<>>) = FirstCode
  BY CodesAre DEF Size
<1>3. s \in TwoTables /\ s.table = <<>> /\ s.newTable = <<>>
  BY <1>1, <1>2 DEF TwoTables
<1>4. FirstCode .. FirstCode - 1 = {} /\ FirstCode <= MaxCodeForOptimize
  BY CodesAre
<1>5. WellMade(s)
  BY <1>2, <1>3, <1>4 DEF WellMade, Table
<1>6. Empty = [tables |-> s, prev |-> None]
  BY <1>1 DEF Empty
<1>7. QED
  BY <1>3, <1>5, <1>6 DEF Good

\* What is learned is one entry more, for a sequence that is known.
LEMMA LearnIs ==
  ASSUME NEW s, WellMade(s), NEW prev \in 0 .. Size(s.table) - 1, NEW c \in Char
  PROVE  /\ Item(prev, c) \in DecInfo /\ Learn(s, prev, c) = With(s, Item(prev, c))
         /\ WellMade(Learn(s, prev, c)) /\ Learn(s, prev, c).newTable = s.newTable
         /\ Size(Learn(s, prev, c).table) = Size(s.table) + 1
         /\ Entry(Learn(s, prev, c).table, Size(s.table)) = Item(prev, c)
         /\ \A q \in FirstCode .. Size(s.table) - 1 :
              Entry(Learn(s, prev, c).table, q) = Entry(s.table, q)
<1>1. s \in TwoTables
  BY DEF WellMade
<1>2. PICK x : x = Item(prev, c)
  OBVIOUS
<1>3. x \in DecInfo /\ x.prevCode = prev /\ ~x.used /\ x.newCode = 0
  BY <1>2 DEF Item, DecInfo
<1>4. prev # None
  BY DEF None
<1>5. Learn(s, prev, c) = With(s, x)
  BY <1>2, <1>4 DEF Learn, With, Item
<1>6. WellMade(With(s, x))
  BY <1>3, WithWellMade
<1>7. QED
  BY <1>1, <1>2, <1>3, <1>5, <1>6, WithIs

\* What the decompressor has when it comes to mark the sequence of a code: well
\* made tables that have it, with everything the tables had before.
Prepared(d, code) ==
  LET s == Learned(d, code) IN
  /\ WellMade(s) /\ code \in 0 .. Size(s.table) - 1
  /\ Size(s.table) = Size(d.tables.table) + (IF d.prev = None THEN 0 ELSE 1)
  /\ s.newTable = d.tables.newTable
  /\ First(d, code) \in Char
  /\ d.prev # None => Entry(s.table, Size(d.tables.table)) = Item(d.prev, First(d, code))
  /\ \A q \in FirstCode .. Size(d.tables.table) - 1 : Entry(s.table, q) = Entry(d.tables.table, q)
  /\ \A q \in 0 .. Size(d.tables.table) - 1 : Spelled(s.table, q) = Spelled(d.tables.table, q)
  /\ Spelled(s.table, code)[1] = First(d, code)

\* A code that can be read and stands for a sequence prepares the tables: what it
\* marks changes no sequence, and its text begins as First says.
LEMMA PreparedIs ==
  ASSUME NEW d, Good(d), NEW code, CanRead(d, code), code < OptimizeCode
  PROVE  Prepared(d, code)
<1>1. PICK t \in TwoTables : t = d.tables /\ WellMade(t)
  BY DEF Good
<1>2. PICK m \in Nat : m = Size(t.table) /\ m >= FirstCode /\ FirstCode \in Nat
  BY <1>1, SizeIs DEF TwoTables
<1>3. Table(t.table) /\ t.table \in Seq(DecInfo)
  BY <1>1 DEF WellMade, TwoTables
<1>4. PICK p : p = d.prev
  OBVIOUS
<1>5. p = None \/ (p # None /\ p \in 0 .. m - 1)
  BY <1>1, <1>2, <1>4, CodesAre DEF Good
<1>6. code \in Nat /\ (code < m \/ (code = m /\ p # None))
  BY <1>1, <1>2, <1>4, CodesAre DEF CanRead
<1>7. PICK k : k = IF code = m THEN p ELSE code
  OBVIOUS
<1>8. k \in 0 .. m - 1
  BY <1>2, <1>5, <1>6, <1>7
<1>9. PICK c : c = First(d, code)
  OBVIOUS
<1>10. c = Spelled(t.table, k)[1]
  BY <1>1, <1>2, <1>4, <1>7, <1>9 DEF First
<1>11. c \in Char
  BY <1>2, <1>3, <1>8, <1>10, SpelledFirst
<1>12. PICK s : s = Learned(d, code)
  OBVIOUS
<1>13. s = Learn(t, p, c)
  BY <1>1, <1>4, <1>9, <1>12 DEF Learned
<1>14. CASE p = None
  <2>1. s = t
    BY <1>13, <1>14 DEF Learn
  <2>2. k = code /\ code \in 0 .. m - 1
    BY <1>2, <1>6, <1>7, <1>14
  <2>3. m = m + 0
    BY <1>2
  <2>4. QED
    BY <2>1, <2>2, <2>3, <1>1, <1>2, <1>4, <1>9, <1>10, <1>11, <1>12, <1>14 DEF Prepared
<1>15. CASE p # None
  <2>1. p \in 0 .. Size(t.table) - 1
    BY <1>2, <1>5, <1>15
  <2>2. /\ Item(p, c) \in DecInfo /\ WellMade(s) /\ s.newTable = t.newTable
        /\ Size(s.table) = m + 1 /\ Entry(s.table, m) = Item(p, c)
        /\ \A q \in FirstCode .. m - 1 : Entry(s.table, q) = Entry(t.table, q)
    BY <2>1, <1>1, <1>2, <1>11, <1>13, LearnIs
  <2>3. Table(s.table)
    BY <2>2 DEF WellMade
  <2>4. Alike(t.table, s.table, m)
    BY <2>2, <1>2 DEF Alike
  <2>5. \A q \in 0 .. m - 1 : Spelled(s.table, q) = Spelled(t.table, q)
    BY <2>3, <2>4, <1>3, SpelledAlike
  <2>6. code \in 0 .. Size(s.table) - 1
    BY <2>2, <1>2, <1>6
  <2>7. Spelled(s.table, code)[1] = c
    <3>1. CASE code = m
      <4>1. Entry(s.table, code).prevCode = p
        BY <3>1, <2>2 DEF Item
      <4>2. code >= FirstCode
        BY <3>1, <1>2
      <4>3. Spelled(s.table, code)[1] = Spelled(s.table, p)[1]
        BY <4>1, <4>2, <2>3, <2>6, SpelledFirst
      <4>4. Spelled(s.table, p) = Spelled(t.table, p)
        BY <2>1, <2>5, <1>2
      <4>5. QED
        BY <4>3, <4>4, <3>1, <1>7, <1>10
    <3>2. CASE code # m
      BY <3>2, <2>5, <1>7, <1>8, <1>10
    <3>3. QED
      BY <3>1, <3>2
  <2>8. QED
    BY <2>2, <2>5, <2>6, <2>7, <1>1, <1>2, <1>4, <1>9, <1>11, <1>12, <1>15 DEF Prepared
<1>16. QED
  BY <1>14, <1>15

\* Every code leads from a good state to a good state; one that stands for a
\* sequence marks it and remembers it.
LEMMA AfterIsGood ==
  ASSUME NEW d, Good(d), NEW code, CanRead(d, code)
  PROVE  /\ Good(After(d, code)) /\ Said(d, code) \in Seq(Char \cup {Eof})
         /\ code < OptimizeCode =>
              /\ MarksOff(Learned(d, code), After(d, code).tables, code)
              /\ After(d, code).prev = code
              /\ Said(d, code) \in Seq(Char) /\ Said(d, code) # <<>>
              /\ Said(d, code) = Spelled(After(d, code).tables.table, code)
<1>0. FlushCode \in Nat /\ OptimizeCode = FlushCode - 1 /\ code \in Nat /\ code <= FlushCode
      /\ MaxCode = FlushCode - 2
  BY CodesAre DEF CanRead
<1>1. CASE code = FlushCode
  <2>1. After(d, code) = Empty /\ Said(d, code) = <<Eof>>
    BY <1>1 DEF After, Said
  <2>2. ~(code < OptimizeCode)
    BY <1>0, <1>1
  <2>3. <<Eof>> \in Seq(Char \cup {Eof})
    OBVIOUS
  <2>4. QED
    BY <2>1, <2>2, <2>3, EmptyIsGood
<1>2. CASE code = OptimizeCode
  <2>0. code # FlushCode
    BY <1>0, <1>2
  <2>1. PICK t \in TwoTables : t = d.tables /\ WellMade(t)
    BY DEF Good
  <2>2. PICK s : s = [table |-> t.newTable, newTable |-> <<>>]
    OBVIOUS
  <2>3. After(d, code) = [tables |-> s, prev |-> None] /\ Said(d, code) = <<>>
    BY <2>0, <2>1, <2>2, <1>2 DEF After, Said
  <2>4. <<>> \in Seq(DecInfo) /\ Size(<<>>) = FirstCode
    BY CodesAre DEF Size
  <2>5. s \in TwoTables /\ s.table = t.newTable /\ s.newTable = <<>>
    BY <2>1, <2>2, <2>4 DEF TwoTables
  <2>6. FirstCode .. FirstCode - 1 = {} /\ FirstCode <= MaxCodeForOptimize
    BY CodesAre
  <2>7. Table(<<>>)
    BY <2>4, <2>6 DEF Table
  <2>8. WellMade(s)
    BY <2>1, <2>4, <2>5, <2>6, <2>7 DEF WellMade
  <2>9. Good(After(d, code))
    BY <2>3, <2>5, <2>8 DEF Good
  <2>10. <<>> \in Seq(Char \cup {Eof}) /\ ~(code < OptimizeCode)
    BY <1>0, <1>2
  <2>11. QED
    BY <2>3, <2>9, <2>10
<1>3. CASE code < OptimizeCode
  <2>1. code # FlushCode /\ code # OptimizeCode /\ code \in 0 .. MaxCode - 1
    BY <1>0, <1>3, CodesAre DEF CanRead
  <2>2. Prepared(d, code)
    BY <1>3, PreparedIs
  <2>3. PICK s : s = Learned(d, code)
    OBVIOUS
  <2>4. WellMade(s) /\ code \in 0 .. Size(s.table) - 1
    BY <2>2, <2>3 DEF Prepared
  <2>5. PICK t : t = MarkUsed(s, code)
    OBVIOUS
  <2>6. MarksOff(s, t, code)
    BY <2>4, <2>5, MarkUsedIs
  <2>7. After(d, code) = [tables |-> t, prev |-> code] /\ Said(d, code) = Spelled(s.table, code)
    BY <2>1, <2>3, <2>5 DEF After, Said
  <2>8. WellMade(t) /\ t \in TwoTables /\ Size(t.table) = Size(s.table)
    BY <2>6 DEF MarksOff, WellMade
  <2>9. code < Size(t.table)
    <3>1. Size(s.table) \in Nat
      BY <2>4, SizeIs DEF WellMade, TwoTables
    <3>2. QED
      BY <3>1, <2>4, <2>8
  <2>10. Good(After(d, code))
    BY <2>1, <2>7, <2>8, <2>9 DEF Good
  <2>11. Table(s.table) /\ Table(t.table) /\ s.table \in Seq(DecInfo)
    BY <2>4, <2>8 DEF WellMade, TwoTables
  <2>12. Said(d, code) \in Seq(Char) /\ Said(d, code) # <<>>
    <3>1. PICK u \in Seq(Char) : u = Said(d, code) /\ Len(u) \in Nat \ {0}
      BY <2>4, <2>7, <2>11, SpelledFirst
    <3>2. u # <<>>
      BY <3>1
    <3>3. QED
      BY <3>1, <3>2
  <2>13. Spelled(t.table, code) = Spelled(s.table, code)
    <3>1. PICK m \in Nat : m = Size(s.table)
      BY <2>11, SizeIs
    <3>2. Alike(s.table, t.table, m)
      BY <3>1, <2>6, <2>8 DEF Alike, MarksOff
    <3>3. \A q \in 0 .. m - 1 : Spelled(t.table, q) = Spelled(s.table, q)
      BY <3>2, <2>11, SpelledAlike
    <3>4. QED
      BY <3>1, <3>3, <2>4
  <2>14. Said(d, code) \in Seq(Char \cup {Eof})
    BY <2>12
  <2>15. QED
    BY <2>3, <2>6, <2>7, <2>10, <2>12, <2>13, <2>14
<1>4. QED
  BY <1>0, <1>1, <1>2, <1>3

\* Marking a sequence after the one that it continues is marking it.
LEMMA MarkUsedTwice ==
  ASSUME NEW s, WellMade(s), NEW q \in FirstCode .. Size(s.table) - 1, ~Entry(s.table, q).used
  PROVE  MarkUsed(MarkUsed(s, Entry(s.table, q).prevCode), q) = MarkUsed(s, q)
<1>1. s \in TwoTables /\ Table(s.table) /\ s.table \in Seq(DecInfo)
  BY DEF WellMade, TwoTables
<1>2. PICK m \in Nat : m = Size(s.table) /\ FirstCode \in Nat
  BY <1>1, SizeIs
<1>3. PICK r : r = Entry(s.table, q).prevCode
  OBVIOUS
<1>4. r \in Nat /\ r < q /\ q \in Nat /\ q < m
  BY <1>1, <1>2, <1>3, EntryIs DEF Table
<1>5. r \in 0 .. m - 1 /\ q \in 0 .. m - 1 /\ ~(q < FirstCode)
  BY <1>2, <1>4
<1>6. PICK t : t = MarkUsed(s, r)
  OBVIOUS
<1>7. MarksOff(s, t, r)
  BY <1>2, <1>5, <1>6, MarkUsedIs
<1>8. WellMade(t) /\ Marked(t, r) /\ Size(t.table) = m /\ Entry(t.table, q) = Entry(s.table, q)
  BY <1>2, <1>4, <1>7 DEF MarksOff
<1>9. t \in TwoTables /\ Table(t.table)
  BY <1>8 DEF WellMade
<1>10. MarkUsed(t, r) = t
  BY <1>5, <1>8, MarkUsedAgain
<1>11. MarkUsed(s, q) = AddCode(t, q)
  BY <1>1, <1>2, <1>3, <1>5, <1>6, MarkUsedSteps
<1>12. MarkUsed(t, q) = AddCode(t, q)
  BY <1>3, <1>5, <1>8, <1>9, <1>10, MarkUsedSteps
<1>13. QED
  BY <1>3, <1>6, <1>11, <1>12

\* The intermediate results of decompress when it reads the code of a sequence.
Reads(d, code, first, known, text, grown) ==
  /\ Good(d) /\ CanRead(d, code) /\ code < OptimizeCode
  /\ d.prev # None => first = Spelled(d.tables.table, d.prev)[1]
  /\ known = IF code = Size(d.tables.table) THEN d.prev ELSE code
  /\ text = Spelled(d.tables.table, known)
  /\ grown = Learn(MarkUsed(d.tables, known), d.prev, text[1])

\* It comes to the same whether the sequence is known or the one about to be.
LEMMA SequenceRead ==
  ASSUME NEW d, NEW code, NEW first, NEW known, NEW text, NEW grown,
         Reads(d, code, first, known, text, grown)
  PROVE  /\ (IF code = Size(d.tables.table) THEN MarkUsed(grown, code) ELSE grown) = After(d, code).tables
         /\ text[1] = Said(d, code)[1]
         /\ (IF code = Size(d.tables.table) THEN Append(Tail(text), first) ELSE Tail(text)) = Tail(Said(d, code))
<1>0. /\ Good(d) /\ CanRead(d, code) /\ code < OptimizeCode
      /\ d.prev # None => first = Spelled(d.tables.table, d.prev)[1]
      /\ known = IF code = Size(d.tables.table) THEN d.prev ELSE code
      /\ text = Spelled(d.tables.table, known)
      /\ grown = Learn(MarkUsed(d.tables, known), d.prev, text[1])
  BY DEF Reads
<1>1. PICK t \in TwoTables : t = d.tables /\ WellMade(t)
  BY <1>0 DEF Good
<1>2. PICK m \in Nat : m = Size(t.table) /\ m >= FirstCode /\ FirstCode \in Nat
  BY <1>1, SizeIs DEF TwoTables
<1>3. Table(t.table) /\ t.table \in Seq(DecInfo)
  BY <1>1 DEF WellMade, TwoTables
<1>4. PICK p : p = d.prev
  OBVIOUS
<1>5. p = None \/ (p # None /\ p \in 0 .. m - 1)
  BY <1>0, <1>1, <1>2, <1>4, CodesAre DEF Good
<1>6. code \in Nat /\ (code < m \/ (code = m /\ p # None))
  BY <1>0, <1>1, <1>2, <1>4, CodesAre DEF CanRead
<1>7. known \in 0 .. m - 1
  BY <1>0, <1>1, <1>2, <1>4, <1>5, <1>6
<1>8. PICK c : c = First(d, code)
  OBVIOUS
<1>9. c = text[1]
  BY <1>0, <1>1, <1>2, <1>4, <1>8 DEF First
<1>10. Prepared(d, code)
  BY <1>0, PreparedIs
<1>11. PICK s : s = Learned(d, code)
  OBVIOUS
<1>12. s = Learn(t, p, c)
  BY <1>1, <1>4, <1>8, <1>11 DEF Learned
<1>13. /\ WellMade(s) /\ code \in 0 .. Size(s.table) - 1 /\ c \in Char
       /\ Spelled(s.table, code)[1] = c
       /\ \A q \in 0 .. m - 1 : Spelled(s.table, q) = Spelled(t.table, q)
  BY <1>1, <1>2, <1>8, <1>10, <1>11 DEF Prepared
<1>14. code # FlushCode /\ code # OptimizeCode
  BY <1>0, CodesAre, <1>6
<1>15. After(d, code).tables = MarkUsed(s, code) /\ Said(d, code) = Spelled(s.table, code)
  BY <1>11, <1>14 DEF After, Said
<1>16. text[1] = Said(d, code)[1]
  BY <1>9, <1>13, <1>15
<1>17. PICK u : u = MarkUsed(t, known)
  OBVIOUS
<1>18. MarksOff(t, u, known)
  BY <1>1, <1>2, <1>7, <1>17, MarkUsedIs
<1>19. WellMade(u) /\ Size(u.table) = m
  BY <1>2, <1>18 DEF MarksOff
<1>20. grown = Learn(u, p, c)
  BY <1>0, <1>1, <1>4, <1>9, <1>17
<1>21. ASSUME p # None PROVE grown = MarkUsed(s, known)
  <2>1. p \in 0 .. m - 1
    BY <1>5, <1>21
  <2>2. PICK x : x = Item(p, c)
    OBVIOUS
  <2>3. x \in DecInfo /\ s = With(t, x)
    BY <2>1, <2>2, <1>1, <1>2, <1>12, <1>13, LearnIs
  <2>4. grown = With(u, x)
    BY <2>1, <2>2, <1>13, <1>19, <1>20, LearnIs
  <2>5. x.prevCode = p /\ ~x.used /\ x.newCode = 0
    BY <2>2 DEF Item
  <2>6. MarkUsed(With(t, x), known) = With(MarkUsed(t, known), x)
    BY <2>1, <2>3, <2>5, <1>1, <1>2, <1>7, MarkUsedWith
  <2>7. QED
    BY <2>3, <2>4, <2>6, <1>17
<1>22. CASE code = m
  <2>1. code = m /\ p # None /\ known = p /\ p \in 0 .. m - 1
    BY <1>0, <1>1, <1>2, <1>4, <1>5, <1>6, <1>22
  <2>2. /\ Entry(s.table, code) = Item(p, c) /\ Size(s.table) = m + 1
    BY <2>1, <1>1, <1>2, <1>4, <1>8, <1>10, <1>11 DEF Prepared
  <2>3. code \in FirstCode .. Size(s.table) - 1
    BY <2>1, <2>2, <1>2
  <2>4. /\ Entry(s.table, code).prevCode = p /\ ~Entry(s.table, code).used
        /\ Entry(s.table, code).outchar = c
    BY <2>2 DEF Item
  <2>5. MarkUsed(MarkUsed(s, p), code) = MarkUsed(s, code)
    BY <2>3, <2>4, <1>13, MarkUsedTwice
  <2>6. MarkUsed(grown, code) = After(d, code).tables
    BY <2>1, <2>5, <1>15, <1>21
  <2>7. first = c
    BY <1>0, <2>1, <1>1, <1>4, <1>9
  <2>8. PICK v \in Seq(Char) : v = text /\ v # <<>>
    <3>1. PICK v \in Seq(Char) : v = text /\ Len(v) \in Nat \ {0}
      BY <1>0, <1>1, <1>2, <1>3, <1>7, SpelledFirst
    <3>2. v # <<>>
      BY <3>1
    <3>3. QED
      BY <3>1, <3>2
  <2>9. Said(d, code) = Append(v, c)
    <3>1. Table(s.table) /\ code >= FirstCode
      BY <1>13, <2>3, CodesAre DEF WellMade
    <3>2. Spelled(s.table, code) = Append(Spelled(s.table, p), c)
      BY <3>1, <2>4, <1>13, SpelledSteps
    <3>3. Spelled(s.table, p) = v
      BY <2>1, <2>8, <1>0, <1>1, <1>13
    <3>4. QED
      BY <3>2, <3>3, <1>15
  <2>10. Tail(Append(v, c)) = Append(Tail(v), c)
    BY <2>8, <1>13, HeadTailAppend
  <2>11. QED
    BY <2>6, <2>7, <2>8, <2>9, <2>10, <1>1, <1>2, <1>16, <1>22
<1>23. CASE code # m
  <2>1. known = code
    BY <1>0, <1>1, <1>2, <1>23
  <2>2. grown = After(d, code).tables
    <3>1. CASE p = None
      <4>1. s = t /\ grown = u
        BY <3>1, <1>12, <1>20 DEF Learn
      <4>2. QED
        BY <4>1, <2>1, <1>15, <1>17
    <3>2. CASE p # None
      BY <3>2, <2>1, <1>15, <1>21
    <3>3. QED
      BY <3>1, <3>2
  <2>3. text = Said(d, code)
    BY <1>0, <2>1, <1>1, <1>7, <1>13, <1>15
  <2>4. QED
    BY <2>2, <2>3, <1>1, <1>2, <1>16, <1>23
<1>24. QED
  BY <1>22, <1>23

-----------------------------------------------------------------------------
(* What is on its way *)

Bytes == Seq(0 .. Base - 1)
Chars == Seq(Char \cup {Eof})

\* From step i to the next the decompressor in D reads the code at the beginning
\* of the bytes W, and what it says is the beginning of the text T.
Moves(D, code, T, W, i) ==
  /\ CanRead(D[i], code[i]) /\ D[i + 1] = After(D[i], code[i])
  /\ T[i] = Said(D[i], code[i]) \o T[i + 1] /\ W[i] = Encode(code[i]) \o W[i + 1]
Path(m, n, D, code, T, W) ==
  /\ m \in Nat /\ n \in Nat /\ m <= n /\ W[n] = <<>>
  /\ \A i \in m .. n : Good(D[i]) /\ T[i] \in Chars /\ W[i] \in Bytes
  /\ \A i \in m .. n - 1 : Moves(D, code, T, W, i)

\* With these bytes the decompressor d will become e, and of the text only rest
\* will remain.
Ends(m, n, D, T, W, d, bytes, text, e, rest) ==
  /\ D[m] = d /\ W[m] = bytes /\ T[m] = text /\ D[n] = e /\ T[n] = rest
Channel(d, bytes, text, e, rest) ==
  \E m, n, D, code, T, W :
    Path(m, n, D, code, T, W) /\ Ends(m, n, D, T, W, d, bytes, text, e, rest)

\* The ends of a channel.
LEMMA ChannelType ==
  ASSUME NEW d, NEW bytes, NEW text, NEW e, NEW rest, Channel(d, bytes, text, e, rest)
  PROVE  /\ Good(d) /\ Good(e) /\ bytes \in Bytes /\ text \in Chars /\ rest \in Chars
         /\ bytes = <<>> => d = e /\ text = rest
<1>1. PICK m, n, D, code, T, W :
        Path(m, n, D, code, T, W) /\ Ends(m, n, D, T, W, d, bytes, text, e, rest)
  BY DEF Channel
<1>2. m \in m .. n /\ n \in m .. n
  BY <1>1 DEF Path
<1>3. Good(d) /\ Good(e) /\ bytes \in Bytes /\ text \in Chars /\ rest \in Chars
  BY <1>1, <1>2 DEF Path, Ends
<1>4. ASSUME m # n PROVE bytes # <<>>
  <2>1. m \in m .. n - 1 /\ m + 1 \in m .. n
    BY <1>1, <1>4 DEF Path
  <2>2. Moves(D, code, T, W, m) /\ W[m + 1] \in Bytes
    BY <2>1, <1>1 DEF Path
  <2>3. W[m] = Encode(code[m]) \o W[m + 1] /\ code[m] \in 0 .. FlushCode
    BY <2>2 DEF Moves, CanRead
  <2>4. Encode(code[m]) \in Bytes /\ Encode(code[m]) # <<>>
    BY <2>3, DecodeOfEncode DEF Bytes
  <2>5. W[m] # <<>>
    BY <2>2, <2>3, <2>4, ConcatEqualIffEmpty DEF Bytes
  <2>6. QED
    BY <2>5, <1>1 DEF Ends
<1>5. m = n => d = e /\ text = rest
  BY <1>1 DEF Ends
<1>6. QED
  BY <1>3, <1>4, <1>5

\* Nothing on its way.
LEMMA ChannelEmpty ==
  ASSUME NEW d, Good(d), NEW rest \in Chars
  PROVE  Channel(d, <<>>, rest, d, rest)
<1> DEFINE D == [i \in {0} |-> d]
           T == [i \in {0} |-> rest]
           W == [i \in {0} |-> <<>>]
<1>1. D[0] = d /\ T[0] = rest /\ W[0] = <<>>
  OBVIOUS
<1>2. <<>> \in Bytes
  BY DEF Bytes
<1> HIDE DEF D, T, W
<1>3. 0 .. 0 = {0} /\ 0 .. 0 - 1 = {} /\ 0 \in Nat /\ 0 <= 0
  OBVIOUS
<1>4. Path(0, 0, D, D, T, W)
  BY <1>1, <1>2, <1>3 DEF Path
<1>5. Ends(0, 0, D, T, W, d, <<>>, rest, d, rest)
  BY <1>1 DEF Ends
<1>6. QED
  BY <1>4, <1>5 DEF Channel

\* The compressor accepts a character: the text is longer by it.
LEMMA ChannelSay ==
  ASSUME NEW d, NEW bytes, NEW text, NEW e, NEW rest, Channel(d, bytes, text, e, rest),
         NEW c \in Char \cup {Eof}
  PROVE  Channel(d, bytes, Append(text, c), e, Append(rest, c))
<1>1. PICK m, n, D, code, T, W :
        Path(m, n, D, code, T, W) /\ Ends(m, n, D, T, W, d, bytes, text, e, rest)
  BY DEF Channel
<1>2. PICK U : U = [i \in m .. n |-> Append(T[i], c)]
  OBVIOUS
<1>3. \A i \in m .. n : U[i] = Append(T[i], c) /\ U[i] \in Chars
  <2> SUFFICES ASSUME NEW i \in m .. n PROVE U[i] = Append(T[i], c) /\ U[i] \in Chars
    OBVIOUS
  <2>1. T[i] \in Chars /\ U[i] = Append(T[i], c)
    BY <1>1, <1>2 DEF Path
  <2>2. QED
    BY <2>1, AppendProperties DEF Chars
<1>4. ASSUME NEW i \in m .. n - 1 PROVE Moves(D, code, U, W, i)
  <2>1. i \in m .. n /\ i + 1 \in m .. n
    BY <1>1 DEF Path
  <2>2. Moves(D, code, T, W, i) /\ T[i + 1] \in Chars /\ Good(D[i])
    BY <2>1, <1>1 DEF Path
  <2>3. PICK a \in Chars : a = Said(D[i], code[i])
    BY <2>2, AfterIsGood DEF Moves, Chars
  <2>4. PICK b \in Chars : b = T[i + 1]
    BY <2>2
  <2>5. U[i] = Append(a \o b, c) /\ U[i + 1] = Append(b, c)
    BY <2>1, <2>2, <2>3, <2>4, <1>3 DEF Moves
  <2>6. <<c>> \in Chars /\ a \o b \in Chars
    BY ConcatProperties DEF Chars
  <2>7. Append(a \o b, c) = (a \o b) \o <<c>> /\ Append(b, c) = b \o <<c>>
    BY <2>6, AppendIsConcat DEF Chars
  <2>8. (a \o b) \o <<c>> = a \o (b \o <<c>>)
    BY <2>6, ConcatAssociative DEF Chars
  <2>9. U[i] = a \o U[i + 1]
    BY <2>5, <2>7, <2>8
  <2>10. QED
    BY <2>2, <2>3, <2>9 DEF Moves
<1>5. Path(m, n, D, code, U, W)
  BY <1>1, <1>3, <1>4 DEF Path
<1>6. m \in m .. n /\ n \in m .. n
  BY <1>1 DEF Path
<1>7. Ends(m, n, D, U, W, d, bytes, Append(text, c), e, Append(rest, c))
  BY <1>1, <1>3, <1>6 DEF Ends
<1>8. QED
  BY <1>5, <1>7 DEF Channel

\* The compressor writes a code that says all that remains.
LEMMA ChannelWrite ==
  ASSUME NEW d, NEW bytes, NEW text, NEW e, NEW code, CanRead(e, code),
         Channel(d, bytes, text, e, Said(e, code))
  PROVE  Channel(d, bytes \o Encode(code), text, After(e, code), <<>>)
<1>1. PICK m, n, D, codes, T, W :
        Path(m, n, D, codes, T, W) /\ Ends(m, n, D, T, W, d, bytes, text, e, Said(e, code))
  BY DEF Channel
<1>2. m \in Nat /\ n \in Nat /\ m <= n
  BY <1>1 DEF Path
<1>3. PICK x : x = Encode(code)
  OBVIOUS
<1>4. x \in Bytes /\ <<>> \in Bytes /\ <<>> \in Chars
  BY <1>3, DecodeOfEncode DEF CanRead, Bytes, Chars
<1> DEFINE D2 == [i \in m .. n + 1 |-> IF i = n + 1 THEN After(e, code) ELSE D[i]]
           T2 == [i \in m .. n + 1 |-> IF i = n + 1 THEN <<>> ELSE T[i]]
           W2 == [i \in m .. n + 1 |-> IF i = n + 1 THEN <<>> ELSE W[i] \o x]
           C2 == [i \in m .. n |-> IF i = n THEN code ELSE codes[i]]
<1>5. ASSUME NEW i \in m .. n
      PROVE  D2[i] = D[i] /\ T2[i] = T[i] /\ W2[i] = W[i] \o x /\ W2[i] \in Bytes
  <2>1. i # n + 1 /\ i \in m .. n + 1
    BY <1>2
  <2>2. W[i] \in Bytes
    BY <1>1 DEF Path
  <2>3. W[i] \o x \in Bytes
    BY <2>2, <1>4, ConcatProperties DEF Bytes
  <2>4. QED
    BY <2>1, <2>3
<1>6. D2[n + 1] = After(e, code) /\ T2[n + 1] = <<>> /\ W2[n + 1] = <<>>
  BY <1>2
<1>7. C2[n] = code /\ \A i \in m .. n - 1 : C2[i] = codes[i]
  <2>1. n \in m .. n
    BY <1>2
  <2>2. \A i \in m .. n - 1 : i # n /\ i \in m .. n
    BY <1>2
  <2>3. QED
    BY <2>1, <2>2
<1> HIDE DEF D2, T2, W2, C2
<1>8. n \in m .. n /\ m \in m .. n /\ (n + 1) - 1 = n /\ n + 1 \in Nat /\ m <= n + 1
  BY <1>2
<1>9. D[n] = e /\ Good(e) /\ T[n] = Said(e, code) /\ W[n] = <<>>
  BY <1>1, <1>8 DEF Path, Ends
<1>10. Good(After(e, code)) /\ Said(e, code) \in Chars
  BY <1>9, AfterIsGood DEF Chars
<1>11. ASSUME NEW i \in m .. n + 1 PROVE Good(D2[i]) /\ T2[i] \in Chars /\ W2[i] \in Bytes
  <2>1. CASE i = n + 1
    BY <2>1, <1>4, <1>6, <1>10
  <2>2. CASE i # n + 1
    <3>1. i \in m .. n
      BY <2>2, <1>2
    <3>2. QED
      BY <3>1, <1>1, <1>5 DEF Path
  <2>3. QED
    BY <2>1, <2>2
<1>12. ASSUME NEW i \in m .. n PROVE Moves(D2, C2, T2, W2, i)
  <2>1. CASE i = n
    <3>1. Said(e, code) = Said(e, code) \o <<>>
      BY <1>10, ConcatEmptySeq DEF Chars
    <3>2. <<>> \o x = x /\ x \o <<>> = x
      BY <1>4, ConcatEmptySeq DEF Bytes
    <3>3. D2[n] = e /\ T2[n] = Said(e, code) /\ W2[n] = x
      BY <3>2, <1>5, <1>8, <1>9
    <3>4. QED
      BY <2>1, <3>1, <3>2, <3>3, <1>3, <1>6, <1>7 DEF Moves
  <2>2. CASE i # n
    <3>1. i \in m .. n - 1 /\ i + 1 \in m .. n
      BY <2>2, <1>2
    <3>2. Moves(D, codes, T, W, i) /\ W[i + 1] \in Bytes
      BY <3>1, <1>1 DEF Path
    <3>3. PICK a \in Bytes : a = Encode(codes[i])
      BY <3>2, DecodeOfEncode DEF Moves, CanRead, Bytes
    <3>4. PICK b \in Bytes : b = W[i + 1]
      BY <3>2
    <3>5. (a \o b) \o x = a \o (b \o x)
      BY <1>4, ConcatAssociative DEF Bytes
    <3>6. W2[i] = a \o W2[i + 1]
      BY <3>1, <3>2, <3>3, <3>4, <3>5, <1>5 DEF Moves
    <3>7. QED
      BY <3>1, <3>2, <3>3, <3>6, <1>5, <1>7 DEF Moves
  <2>3. QED
    BY <2>1, <2>2
<1>13. Path(m, n + 1, D2, C2, T2, W2)
  BY <1>2, <1>6, <1>8, <1>11, <1>12 DEF Path
<1>14. Ends(m, n + 1, D2, T2, W2, d, bytes \o x, text, After(e, code), <<>>)
  BY <1>1, <1>5, <1>6, <1>8 DEF Ends
<1>15. QED
  BY <1>3, <1>13, <1>14 DEF Channel

\* What is there to be read is a code that the decompressor can read.
LEMMA ChannelRead ==
  ASSUME NEW d, NEW bytes, NEW text, NEW e, NEW rest, Channel(d, bytes, text, e, rest),
         bytes # <<>>
  PROVE  \E code, more, left :
           /\ CanRead(d, code) /\ bytes = Encode(code) \o more /\ text = Said(d, code) \o left
           /\ more \in Bytes /\ left \in Chars
           /\ Channel(After(d, code), more, left, e, rest)
<1>1. PICK m, n, D, code, T, W :
        Path(m, n, D, code, T, W) /\ Ends(m, n, D, T, W, d, bytes, text, e, rest)
  BY DEF Channel
<1>2. m # n
  BY <1>1 DEF Path, Ends
<1>3. /\ m \in m .. n - 1 /\ m + 1 \in m .. n /\ m + 1 \in Nat /\ n \in Nat /\ m + 1 <= n
      /\ \A i \in m + 1 .. n : i \in m .. n
      /\ \A i \in m + 1 .. n - 1 : i \in m .. n - 1
  BY <1>1, <1>2 DEF Path
<1>4. Moves(D, code, T, W, m) /\ W[m + 1] \in Bytes /\ T[m + 1] \in Chars
  BY <1>1, <1>3 DEF Path
<1>5. Path(m + 1, n, D, code, T, W)
  BY <1>1, <1>3 DEF Path
<1>6. Ends(m + 1, n, D, T, W, After(d, code[m]), W[m + 1], T[m + 1], e, rest)
  BY <1>1, <1>4 DEF Ends, Moves
<1>7. Channel(After(d, code[m]), W[m + 1], T[m + 1], e, rest)
  BY <1>5, <1>6 DEF Channel
<1>8. /\ CanRead(d, code[m]) /\ bytes = Encode(code[m]) \o W[m + 1]
      /\ text = Said(d, code[m]) \o T[m + 1]
  BY <1>1, <1>4 DEF Moves, Ends
<1>9. QED
  BY <1>4, <1>7, <1>8

-----------------------------------------------------------------------------
(* The compressor's tables *)

\* The entry of the pair p is the one that the decompressor has under its code.
Names(info, p, next, tab) ==
  /\ info \in SeqInfo /\ info.nextCode \in FirstCode .. next - 1
  /\ LET x == Entry(tab, info.nextCode) IN
     /\ x.prevCode = p[1] /\ x.outchar = p[2]
     /\ x.newCode = info.newCode /\ x.used = info.used
Numbers(db, next, tab) ==
  /\ tab \in Seq(DecInfo) /\ next = Size(tab) /\ DOMAIN db \subseteq Pairs
  /\ \A p \in DOMAIN db : Names(db[p], p, next, tab)

\* Two empty tables agree.
LEMMA NumbersEmpty == Numbers(NoPairs, FirstCode, <<>>)
<1>1. <<>> \in Seq(DecInfo) /\ Size(<<>>) = FirstCode
  BY CodesAre DEF Size
<1>2. DOMAIN NoPairs = {}
  BY DEF NoPairs
<1>3. QED
  BY <1>1, <1>2 DEF Numbers

\* Both ends add an entry.  A pair that has a code already keeps it.
LEMMA NumbersInsert ==
  ASSUME NEW db, NEW n, NEW tab, Numbers(db, n, tab), NEW p \in Pairs,
         NEW t \in Seq(DecInfo), Size(t) = n + 1, Entry(t, n) = Item(p[1], p[2]),
         \A q \in FirstCode .. n - 1 : Entry(t, q) = Entry(tab, q)
  PROVE  Numbers(Insert(db, p, Fresh(n)), n + 1, t)
<1>1. PICK new : new = Insert(db, p, Fresh(n))
  OBVIOUS
<1>2. n \in Nat /\ n >= FirstCode /\ FirstCode \in Nat
  BY SizeIs DEF Numbers
<1>3. ASSUME NEW q \in DOMAIN db PROVE Names(db[q], q, n + 1, t)
  <2>1. PICK info : info = db[q]
    OBVIOUS
  <2>2. Names(info, q, n, tab)
    BY <2>1 DEF Numbers
  <2>3. info.nextCode \in FirstCode .. n /\ Entry(t, info.nextCode) = Entry(tab, info.nextCode)
    BY <2>2, <1>2 DEF Names
  <2>4. (n + 1) - 1 = n
    BY <1>2
  <2>5. QED
    BY <2>1, <2>2, <2>3, <2>4 DEF Names
<1>4. CASE p \in DOMAIN db
  <2>1. new = db
    BY <1>1, <1>4 DEF Insert
  <2>2. QED
    BY <2>1, <1>1, <1>3 DEF Numbers
<1>5. CASE p \notin DOMAIN db
  <2>1. new = [q \in DOMAIN db \cup {p} |-> IF q = p THEN Fresh(n) ELSE db[q]]
    BY <1>1, <1>5 DEF Insert
  <2>2. DOMAIN new = DOMAIN db \cup {p}
    BY <2>1
  <2>3. new[p] = Fresh(n) /\ \A q \in DOMAIN db : new[q] = db[q]
    BY <2>1, <1>5
  <2>4. Names(Fresh(n), p, n + 1, t)
    <3>1. PICK info : info = Fresh(n)
      OBVIOUS
    <3>2. info \in SeqInfo /\ info.nextCode = n /\ info.newCode = 0 /\ info.used = FALSE
      BY <3>1, <1>2 DEF Fresh, SeqInfo
    <3>3. PICK x : x = Entry(t, n)
      OBVIOUS
    <3>4. x.prevCode = p[1] /\ x.outchar = p[2] /\ x.newCode = 0 /\ x.used = FALSE
      BY <3>3 DEF Item
    <3>5. n \in FirstCode .. (n + 1) - 1
      BY <1>2
    <3>6. QED
      BY <3>1, <3>2, <3>3, <3>4, <3>5 DEF Names
  <2>5. ASSUME NEW q \in DOMAIN new PROVE Names(new[q], q, n + 1, t)
    BY <2>2, <2>3, <2>4, <1>3
  <2>6. DOMAIN new \subseteq Pairs
    BY <2>2 DEF Numbers
  <2>7. QED
    BY <2>5, <2>6, <1>1 DEF Numbers
<1>6. QED
  BY <1>4, <1>5

\* Both ends replace the entry of p, or none.
LEMMA NumbersReplace ==
  ASSUME NEW db, NEW n, NEW tab, Numbers(db, n, tab), NEW p \in DOMAIN db,
         NEW t \in Seq(DecInfo), Size(t) = n,
         NEW info, info.nextCode = db[p].nextCode, Names(info, p, n, t),
         \A q \in FirstCode .. n - 1 : q # info.nextCode => Entry(t, q) = Entry(tab, q),
         NEW new, new = [db EXCEPT ![p] = info]
  PROVE  Numbers(new, n, t)
<1>2. DOMAIN new = DOMAIN db /\ new[p] = info /\ \A q \in DOMAIN db : q # p => new[q] = db[q]
  OBVIOUS
<1>3. PICK k : k = info.nextCode
  OBVIOUS
<1>4. Names(db[p], p, n, tab) /\ p \in Pairs
  BY DEF Numbers
<1>5. ASSUME NEW q \in DOMAIN db, q # p PROVE Names(db[q], q, n, t)
  <2>1. PICK other : other = db[q]
    OBVIOUS
  <2>2. Names(other, q, n, tab) /\ q \in Pairs
    BY <2>1 DEF Numbers
  <2>3. other.nextCode # k
    <3>1. ASSUME other.nextCode = k PROVE FALSE
      <4>1. p[1] = q[1] /\ p[2] = q[2]
        BY <3>1, <2>2, <1>3, <1>4 DEF Names
      <4>2. p = q
        BY <4>1, <2>2, <1>4 DEF Pairs
      <4>3. QED
        BY <4>2, <1>5
    <3>2. QED
      BY <3>1
  <2>4. Entry(t, other.nextCode) = Entry(tab, other.nextCode)
    BY <2>2, <2>3, <1>3 DEF Names
  <2>5. QED
    BY <2>1, <2>2, <2>4 DEF Names
<1>6. ASSUME NEW q \in DOMAIN new PROVE Names(new[q], q, n, t)
  BY <1>2, <1>5
<1>7. QED
  BY <1>2, <1>6 DEF Numbers

-----------------------------------------------------------------------------
(* What the compressor goes on to write *)

\* A single character.
LEMMA CharacterRead ==
  ASSUME NEW e, Good(e), NEW c \in Char
  PROVE  /\ CanRead(e, c) /\ c \in 0 .. MaxCode - 1 /\ Said(e, c) = <<c>>
         /\ After(e, c) = [tables |-> Learn(e.tables, e.prev, c), prev |-> c]
         /\ WellMade(Learn(e.tables, e.prev, c))
<1>1. /\ c \in Nat /\ c < FirstCode /\ FirstCode \in Nat /\ FirstCode < MaxCode
      /\ MaxCode = FlushCode - 2 /\ OptimizeCode = FlushCode - 1 /\ FlushCode \in Nat
  BY CodesAre DEF Char
<1>2. PICK t \in TwoTables : t = e.tables /\ WellMade(t)
  BY DEF Good
<1>3. Size(t.table) \in Nat /\ Size(t.table) >= FirstCode /\ Table(t.table)
  BY <1>2, SizeIs DEF TwoTables, WellMade
<1>4. CanRead(e, c) /\ c < OptimizeCode
  BY <1>1, <1>2, <1>3 DEF CanRead
<1>5. Prepared(e, c)
  BY <1>4, PreparedIs
<1>6. First(e, c) = c
  <2>1. c # Size(t.table) /\ c \in 0 .. Size(t.table) - 1
    BY <1>1, <1>3
  <2>2. Spelled(t.table, c) = <<c>>
    BY <2>1, <1>1, <1>3, SpelledSteps
  <2>3. <<c>>[1] = c
    OBVIOUS
  <2>4. QED
    BY <2>1, <2>2, <2>3, <1>2 DEF First
<1>7. PICK s : s = Learned(e, c)
  OBVIOUS
<1>8. s = Learn(e.tables, e.prev, c)
  BY <1>6, <1>7 DEF Learned
<1>9. WellMade(s) /\ c \in 0 .. Size(s.table) - 1
  BY <1>5, <1>7 DEF Prepared
<1>10. s \in TwoTables /\ Table(s.table)
  BY <1>9 DEF WellMade
<1>11. MarkUsed(s, c) = s /\ Spelled(s.table, c) = <<c>>
  BY <1>1, <1>9, <1>10, MarkUsedSteps, SpelledSteps
<1>12. c # FlushCode /\ c # OptimizeCode
  BY <1>1
<1>13. QED
  BY <1>1, <1>4, <1>7, <1>8, <1>9, <1>11, <1>12 DEF After, Said

\* A sequence that goes on: reading the longer one instead marks one entry more.
LEMMA LongerRead ==
  ASSUME NEW e, Good(e), NEW last, CanRead(e, last), last < MaxCode,
         NEW E, E = After(e, last).tables,
         NEW code \in FirstCode .. Size(E.table) - 1, code < MaxCode,
         Entry(E.table, code).prevCode = last,
         NEW c, c = Entry(E.table, code).outchar,
         NEW t2, t2 = IF Entry(E.table, code).used THEN E ELSE AddCode(E, code)
  PROVE  /\ CanRead(e, code) /\ Said(e, code) = Append(Said(e, last), c)
         /\ After(e, code) = [tables |-> t2, prev |-> code]
<1>1. /\ FirstCode \in Nat /\ MaxCode = FlushCode - 2 /\ OptimizeCode = FlushCode - 1
      /\ FlushCode \in Nat
  BY CodesAre
<1>2. last < OptimizeCode /\ last # FlushCode /\ last # OptimizeCode /\ last \in Nat
  BY <1>1 DEF CanRead
<1>3. PICK s : s = Learned(e, last)
  OBVIOUS
<1>4. Prepared(e, last) /\ MarksOff(s, E, last)
  BY <1>2, <1>3, PreparedIs, AfterIsGood
<1>5. E = MarkUsed(s, last) /\ Said(e, last) = Spelled(s.table, last)
  BY <1>2, <1>3 DEF After, Said
<1>6. PICK t \in TwoTables : t = e.tables /\ WellMade(t)
  BY DEF Good
<1>7. PICK m \in Nat : m = Size(t.table) /\ m >= FirstCode
  BY <1>6, SizeIs DEF TwoTables
<1>8. Table(t.table) /\ t.table \in Seq(DecInfo)
  BY <1>6 DEF WellMade, TwoTables
<1>9. /\ WellMade(s) /\ last \in 0 .. Size(s.table) - 1
      /\ Size(s.table) = m + (IF e.prev = None THEN 0 ELSE 1)
      /\ e.prev # None => Entry(s.table, m) = Item(e.prev, First(e, last))
      /\ \A q \in FirstCode .. m - 1 : Entry(s.table, q) = Entry(t.table, q)
  BY <1>3, <1>4, <1>6, <1>7 DEF Prepared
<1>10. s \in TwoTables /\ Table(s.table) /\ s.table \in Seq(DecInfo)
  BY <1>9 DEF WellMade, TwoTables
<1>11. WellMade(E) /\ Size(E.table) = Size(s.table) /\ Size(s.table) \in Nat
  BY <1>4, <1>10, SizeIs DEF MarksOff
<1>12. code \in Nat /\ last < code /\ code \in FirstCode .. Size(s.table) - 1
  <2>1. Table(E.table) /\ E.table \in Seq(DecInfo)
    BY <1>11 DEF WellMade, TwoTables
  <2>2. QED
    BY <2>1, <1>1, <1>11 DEF Table
<1>13. PICK x : x = Entry(s.table, code)
  OBVIOUS
<1>14. Entry(E.table, code) = x /\ x.prevCode = last
  BY <1>4, <1>12, <1>13 DEF MarksOff
<1>15. CanRead(e, code)
  <2>1. code \in 0 .. FlushCode
    BY <1>1, <1>12
  <2>2. code < m \/ (code = m /\ e.prev # None)
    BY <1>7, <1>9, <1>11, <1>12
  <2>3. QED
    BY <2>1, <2>2, <1>6, <1>7 DEF CanRead
<1>16. First(e, code) = First(e, last)
  <2>1. CASE code = m
    <3>1. e.prev # None
      BY <2>1, <1>7, <1>9, <1>12
    <3>2. e.prev = last
      BY <2>1, <3>1, <1>9, <1>13, <1>14 DEF Item
    <3>3. First(e, code) = Spelled(t.table, last)[1]
      BY <2>1, <3>2, <1>6, <1>7 DEF First
    <3>4. last # m
      BY <2>1, <1>2, <1>12
    <3>5. First(e, last) = Spelled(t.table, last)[1]
      BY <3>4, <1>6, <1>7 DEF First
    <3>6. QED
      BY <3>3, <3>5
  <2>2. CASE code # m
    <3>1. code \in FirstCode .. m - 1 /\ code \in 0 .. Size(t.table) - 1 /\ code >= FirstCode
      BY <2>2, <1>1, <1>7, <1>9, <1>12
    <3>2. Entry(t.table, code).prevCode = last
      BY <3>1, <1>9, <1>13, <1>14
    <3>3. Spelled(t.table, code)[1] = Spelled(t.table, last)[1]
      BY <3>1, <3>2, <1>8, SpelledFirst
    <3>4. last # m
      BY <3>1, <1>2, <1>7, <1>12
    <3>5. First(e, last) = Spelled(t.table, last)[1]
      BY <3>4, <1>6, <1>7 DEF First
    <3>6. First(e, code) = Spelled(t.table, code)[1]
      BY <2>2, <1>6, <1>7 DEF First
    <3>7. QED
      BY <3>3, <3>5, <3>6
  <2>3. QED
    BY <2>1, <2>2
<1>17. s = Learned(e, code)
  BY <1>3, <1>16 DEF Learned
<1>18. code # FlushCode /\ code # OptimizeCode
  BY <1>1, <1>12
<1>19. /\ Said(e, code) = Spelled(s.table, code)
       /\ After(e, code) = [tables |-> MarkUsed(s, code), prev |-> code]
  BY <1>17, <1>18 DEF Said, After
<1>20. code \in 0 .. Size(s.table) - 1 /\ code >= FirstCode /\ ~(code < FirstCode)
  BY <1>1, <1>12
<1>21. Said(e, code) = Append(Said(e, last), x.outchar)
  BY <1>5, <1>10, <1>13, <1>14, <1>19, <1>20, SpelledSteps
<1>22. CASE x.used
  <2>1. MarkUsed(s, code) = s
    BY <1>10, <1>13, <1>20, <1>22, MarkUsedSteps
  <2>2. last < FirstCode \/ Entry(s.table, last).used
    BY <1>9, <1>12, <1>13, <1>14, <1>22 DEF WellMade
  <2>3. Marked(s, last)
    BY <2>2 DEF Marked
  <2>4. E = s
    BY <2>3, <1>5, <1>9, MarkUsedAgain
  <2>5. QED
    BY <2>1, <2>4, <1>14, <1>15, <1>19, <1>21, <1>22
<1>23. CASE ~x.used
  <2>1. MarkUsed(s, code) = AddCode(E, code)
    BY <1>5, <1>10, <1>13, <1>14, <1>20, <1>23, MarkUsedSteps
  <2>2. QED
    BY <2>1, <1>14, <1>15, <1>19, <1>21, <1>23
<1>24. QED
  BY <1>22, <1>23

-----------------------------------------------------------------------------
(* The invariant *)

Now == [tables |-> [table |-> table, newTable |-> newTable], prev |-> prevCode]

\* The compressor's tables are those that the decompressor in e has.
Agrees(e) ==
  /\ Numbers(seqdb, nextCode, e.tables.table)
  /\ Numbers(newDb, newNextCode, e.tables.newTable)
  /\ lastNewSeq = Translated(e.tables.table, lastSeq)

\* When the decompressor has come to e, it has the tables of the compressor up to
\* the sequence that the compressor is in the middle of.
Fits(e, rest) ==
  IF lastSeq = None
  THEN /\ e = Empty /\ rest = <<>> /\ lastNewSeq = None
       /\ seqdb = NoPairs /\ nextCode = FirstCode /\ newDb = NoPairs /\ newNextCode = FirstCode
  ELSE /\ lastSeq \in 0 .. MaxCode - 1 /\ closed < MaxStreams
       /\ CanRead(e, lastSeq) /\ rest = Said(e, lastSeq) /\ Agrees(After(e, lastSeq))

Linked(e, text, rest) ==
  Channel(Now, wire, text, e, rest) /\ transit = ready \o text /\ Fits(e, rest)

Bounds ==
  /\ closed \in 0 .. MaxStreams /\ chars \in 0 .. MaxChars
  /\ ready \in Seq(Char) /\ got \in Char \cup {Eof} /\ firstChar \in Char
  /\ prevCode # None => firstChar = Spelled(table, prevCode)[1]

IInv == Bounds /\ \E e, text, rest : Linked(e, text, rest)

\* One more at the end of the text.
LEMMA AppendSplit ==
  ASSUME NEW a \in Chars, NEW b \in Chars, NEW c \in Char \cup {Eof}
  PROVE  Append(a \o b, c) = a \o Append(b, c)
<1>1. <<c>> \in Chars /\ a \o b \in Chars
  BY ConcatProperties DEF Chars
<1>2. Append(a \o b, c) = (a \o b) \o <<c>> /\ Append(b, c) = b \o <<c>>
  BY <1>1, AppendIsConcat DEF Chars
<1>3. (a \o b) \o <<c>> = a \o (b \o <<c>>)
  BY <1>1, ConcatAssociative DEF Chars
<1>4. QED
  BY <1>2, <1>3

\* The code of the sequence ends; the decompressor will be one sequence further.
LEMMA Ended ==
  ASSUME NEW e, NEW text, NEW rest, Linked(e, text, rest), lastSeq # None,
         NEW E, E = After(e, lastSeq)
  PROVE  /\ Channel(Now, wire \o Encode(lastSeq), text, E, <<>>)
         /\ Good(E) /\ E.prev = lastSeq /\ Agrees(E) /\ lastSeq \in 0 .. Size(E.tables.table) - 1
         /\ lastSeq \in 0 .. FlushCode
<1>1. /\ Channel(Now, wire, text, e, rest) /\ CanRead(e, lastSeq) /\ rest = Said(e, lastSeq)
      /\ lastSeq \in 0 .. MaxCode - 1 /\ Agrees(E)
  BY DEF Linked, Fits
<1>2. PICK last \in 0 .. MaxCode - 1 : last = lastSeq
  BY <1>1
<1>3. CanRead(e, last) /\ Good(e)
  BY <1>1, <1>2, ChannelType
<1>4. Channel(Now, wire \o Encode(lastSeq), text, E, <<>>)
  BY <1>1, ChannelWrite
<1>5. last < OptimizeCode /\ last \in 0 .. FlushCode
  BY <1>2, CodesAre
<1>6. Good(E) /\ E.prev = last
  BY <1>2, <1>3, <1>5, AfterIsGood
<1>7. last < Size(E.tables.table) /\ Size(E.tables.table) \in Nat
  <2>1. last # None
    BY <1>2 DEF None
  <2>2. E.tables.table \in Seq(DecInfo)
    BY <1>6 DEF Good, TwoTables
  <2>3. QED
    BY <2>1, <2>2, <1>6, SizeIs DEF Good
<1>8. QED
  BY <1>1, <1>2, <1>4, <1>5, <1>6, <1>7

\* The compressor begins a sequence with c, and the decompressor is to come to e.
LEMMA Begun ==
  ASSUME NEW e, Good(e), NEW c \in Char, lastSeq' = c, lastNewSeq' = c, closed' < MaxStreams,
         Numbers(seqdb', nextCode', Learn(e.tables, e.prev, c).table),
         Numbers(newDb', newNextCode', Learn(e.tables, e.prev, c).newTable)
  PROVE  Fits(e, <<c>>)'
<1>1. /\ CanRead(e, c) /\ c \in 0 .. MaxCode - 1 /\ Said(e, c) = <<c>>
      /\ After(e, c) = [tables |-> Learn(e.tables, e.prev, c), prev |-> c]
  BY CharacterRead
<1>2. c # None /\ c < FirstCode
  BY <1>1, CodesAre DEF None, Char
<1>3. Translated(After(e, c).tables.table, c) = c
  BY <1>2 DEF Translated
<1>4. QED
  BY <1>1, <1>2, <1>3 DEF Fits, Agrees

\* What the actions of the compressor do with the text.
LEMMA Accepted ==
  ASSUME NEW text \in Chars, Bounds, transit = ready \o text, NEW c \in Char \cup {Eof},
         transit' = Append(transit, c), UNCHANGED ready
  PROVE  transit' = (ready \o Append(text, c))'
<1>1. ready \in Chars
  BY DEF Bounds, Chars
<1>2. Append(ready \o text, c) = ready \o Append(text, c)
  <2>1. PICK a \in Chars : a = ready
    BY <1>1
  <2>2. Append(a \o text, c) = a \o Append(text, c)
    BY AppendSplit
  <2>3. QED
    BY <2>1, <2>2
<1>3. QED
  BY <1>2

\* The first character of a stream keeps the invariant: nothing is open before it.
LEMMA BeginKeeps ==
  ASSUME IInv, NEW c \in Char, Begin(c)
  PROVE  IInv'
<1>1. PICK e, text, rest : Linked(e, text, rest)
  BY DEF IInv
<1>2. /\ Channel(Now, wire, text, e, rest) /\ transit = ready \o text
      /\ e = Empty /\ rest = <<>> /\ seqdb = NoPairs /\ nextCode = FirstCode
      /\ newDb = NoPairs /\ newNextCode = FirstCode
  BY <1>1 DEF Linked, Fits, Begin
<1>3. Good(e) /\ text \in Chars
  BY <1>2, ChannelType
<1>4. /\ UNCHANGED <<Now, wire, ready, table, prevCode, firstChar, got, closed,
                     seqdb, nextCode, newDb, newNextCode>>
      /\ closed < MaxStreams /\ chars < MaxChars /\ chars' = chars + 1
      /\ transit' = Append(transit, c) /\ lastSeq' = c /\ lastNewSeq' = c
  BY DEF Begin, Accept, Room, Now, decompressVars
<1>5. Channel(Now, wire, Append(text, c), e, Append(rest, c))
  BY <1>2, ChannelSay
<1>6. Append(rest, c) = <<c>>
  BY <1>2
<1>7. transit' = (ready \o Append(text, c))'
  BY <1>2, <1>3, <1>4, Accepted DEF IInv
<1>8. Fits(e, <<c>>)'
  <2>1. PICK s : s = Learn(e.tables, e.prev, c)
    OBVIOUS
  <2>2. s.table = <<>> /\ s.newTable = <<>>
    BY <2>1, <1>2 DEF Empty, Learn
  <2>3. Numbers(seqdb', nextCode', s.table) /\ Numbers(newDb', newNextCode', s.newTable)
    BY <2>2, <1>2, <1>4, NumbersEmpty
  <2>4. QED
    BY <2>1, <2>3, <1>3, <1>4, Begun
<1>9. Bounds'
  BY <1>4, CompressAssumption DEF IInv, Bounds
<1>10. Linked(e, Append(text, c), <<c>>)'
  BY <1>4, <1>5, <1>6, <1>7, <1>8 DEF Linked
<1>11. QED
  BY <1>9, <1>10 DEF IInv

\* The code of a sequence keeps it: what was open is on its way now.
LEMMA EndSequenceKeeps ==
  ASSUME IInv, NEW c \in Char, EndSequence(c)
  PROVE  IInv'
<1>1. PICK e, text, rest : Linked(e, text, rest)
  BY DEF IInv
<1>2. lastSeq # None /\ transit = ready \o text /\ text \in Chars
  BY <1>1, ChannelType DEF EndSequence, Linked
<1>3. PICK E : E = After(e, lastSeq)
  OBVIOUS
<1>4. /\ Channel(Now, wire \o Encode(lastSeq), text, E, <<>>) /\ Good(E) /\ E.prev = lastSeq
      /\ Agrees(E) /\ lastSeq \in 0 .. Size(E.tables.table) - 1
  BY <1>1, <1>2, <1>3, Ended
<1>5. /\ UNCHANGED <<Now, ready, table, prevCode, firstChar, got, closed, newDb, newNextCode>>
      /\ closed < MaxStreams /\ chars < MaxChars /\ chars' = chars + 1
      /\ transit' = Append(transit, c) /\ lastSeq' = c /\ lastNewSeq' = c
      /\ wire' = wire \o Encode(lastSeq)
      /\ seqdb' = Insert(seqdb, Pair(c), Fresh(nextCode)) /\ nextCode' = nextCode + 1
  BY DEF EndSequence, Accept, Room, Now, decompressVars
<1>6. Channel(Now, wire', Append(text, c), E, <<c>>)
  <2>1. Channel(Now, wire', Append(text, c), E, Append(<<>>, c))
    BY <1>4, <1>5, ChannelSay
  <2>2. Append(<<>>, c) = <<c>>
    OBVIOUS
  <2>3. QED
    BY <2>1, <2>2
<1>7. transit' = (ready \o Append(text, c))'
  BY <1>2, <1>5, Accepted DEF IInv
<1>8. Fits(E, <<c>>)'
  <2>1. PICK t \in TwoTables : t = E.tables /\ WellMade(t)
    BY <1>4 DEF Good
  <2>2. PICK last : last = lastSeq
    OBVIOUS
  <2>3. last \in 0 .. Size(t.table) - 1
    BY <2>1, <2>2, <1>4
  <2>4. PICK s : s = Learn(t, last, c)
    OBVIOUS
  <2>5. PICK n : n = nextCode
    OBVIOUS
  <2>6. PICK db : db = seqdb
    OBVIOUS
  <2>7. Numbers(db, n, t.table)
    BY <2>1, <2>5, <2>6, <1>4 DEF Agrees
  <2>8. /\ WellMade(s) /\ s.newTable = t.newTable /\ Size(s.table) = n + 1
        /\ Entry(s.table, n) = Item(last, c)
        /\ \A q \in FirstCode .. n - 1 : Entry(s.table, q) = Entry(t.table, q)
    BY <2>1, <2>3, <2>4, <2>7, LearnIs DEF Numbers
  <2>9. s.table \in Seq(DecInfo)
    BY <2>8 DEF WellMade, TwoTables
  <2>10. PICK p : p = <<last, c>>
    OBVIOUS
  <2>11. p \in Pairs /\ p[1] = last /\ p[2] = c
    BY <2>3, <2>10 DEF Pairs
  <2>12. Numbers(Insert(db, p, Fresh(n)), n + 1, s.table)
    BY <2>7, <2>8, <2>9, <2>11, NumbersInsert
  <2>13. Numbers(seqdb', nextCode', s.table)
    BY <2>2, <2>5, <2>6, <2>10, <2>12, <1>5 DEF Pair
  <2>14. Numbers(newDb', newNextCode', s.newTable)
    BY <2>1, <2>8, <1>4, <1>5 DEF Agrees
  <2>15. QED
    BY <2>1, <2>2, <2>4, <2>13, <2>14, <1>4, <1>5, Begun
<1>9. Bounds'
  BY <1>5, CompressAssumption DEF IInv, Bounds
<1>10. Linked(E, Append(text, c), <<c>>)'
  BY <1>5, <1>6, <1>7, <1>8 DEF Linked
<1>11. QED
  BY <1>9, <1>10 DEF IInv

\* So does an optimize code, which both ends answer with their next tables.
LEMMA OptimizeKeeps ==
  ASSUME IInv, NEW c \in Char, Optimize(c)
  PROVE  IInv'
<1>1. PICK e, text, rest : Linked(e, text, rest)
  BY DEF IInv
<1>2. lastSeq # None /\ transit = ready \o text /\ text \in Chars
  BY <1>1, ChannelType DEF Optimize, Known, Linked
<1>3. PICK E : E = After(e, lastSeq)
  OBVIOUS
<1>4. /\ Channel(Now, wire \o Encode(lastSeq), text, E, <<>>) /\ Good(E) /\ Agrees(E)
  BY <1>1, <1>2, <1>3, Ended
<1>5. /\ UNCHANGED <<Now, ready, table, prevCode, firstChar, got, closed>>
      /\ closed < MaxStreams /\ chars < MaxChars /\ chars' = chars + 1
      /\ transit' = Append(transit, c) /\ lastSeq' = c /\ lastNewSeq' = c
      /\ wire' = wire \o Encode(lastSeq) \o Encode(OptimizeCode)
      /\ seqdb' = newDb /\ nextCode' = newNextCode
      /\ newDb' = NoPairs /\ newNextCode' = FirstCode
  BY DEF Optimize, Accept, Room, Now, decompressVars
<1>6. OptimizeCode \in 0 .. FlushCode /\ OptimizeCode # FlushCode
  BY CodesAre
<1>7. CanRead(E, OptimizeCode) /\ Said(E, OptimizeCode) = <<>>
  BY <1>6 DEF CanRead, Said
<1>8. PICK F : F = After(E, OptimizeCode)
  OBVIOUS
<1>9. F = [tables |-> [table |-> E.tables.newTable, newTable |-> <<>>], prev |-> None]
  BY <1>6, <1>8 DEF After
<1>10. Good(F)
  BY <1>4, <1>7, <1>8, AfterIsGood
<1>11. Channel(Now, wire', Append(text, c), F, <<c>>)
  <2>1. Channel(Now, wire', text, F, <<>>)
    BY <1>4, <1>5, <1>7, <1>8, ChannelWrite
  <2>2. Channel(Now, wire', Append(text, c), F, Append(<<>>, c))
    BY <2>1, ChannelSay
  <2>3. Append(<<>>, c) = <<c>>
    OBVIOUS
  <2>4. QED
    BY <2>2, <2>3
<1>12. transit' = (ready \o Append(text, c))'
  BY <1>2, <1>5, Accepted DEF IInv
<1>13. Fits(F, <<c>>)'
  <2>1. PICK s : s = Learn(F.tables, F.prev, c)
    OBVIOUS
  <2>2. s.table = E.tables.newTable /\ s.newTable = <<>>
    BY <2>1, <1>9 DEF Learn
  <2>3. Numbers(seqdb', nextCode', s.table) /\ Numbers(newDb', newNextCode', s.newTable)
    BY <2>2, <1>4, <1>5, NumbersEmpty DEF Agrees
  <2>4. QED
    BY <2>1, <2>3, <1>5, <1>10, Begun
<1>14. Bounds'
  BY <1>5, CompressAssumption DEF IInv, Bounds
<1>15. Linked(F, Append(text, c), <<c>>)'
  BY <1>5, <1>11, <1>12, <1>13 DEF Linked
<1>16. QED
  BY <1>14, <1>15 DEF IInv

\* So does the end of a stream: the decompressor will have empty tables.
LEMMA FlushKeeps ==
  ASSUME IInv, Flush
  PROVE  IInv'
<1>1. PICK e, text, rest : Linked(e, text, rest)
  BY DEF IInv
<1>2. lastSeq # None /\ transit = ready \o text /\ text \in Chars
  BY <1>1, ChannelType DEF Flush, Linked
<1>3. PICK E : E = After(e, lastSeq)
  OBVIOUS
<1>4. /\ Channel(Now, wire \o Encode(lastSeq), text, E, <<>>) /\ Good(E)
      /\ lastSeq \in 0 .. FlushCode
  BY <1>1, <1>2, <1>3, Ended
<1>5. /\ UNCHANGED <<Now, ready, table, prevCode, firstChar, got, chars>>
      /\ closed' = closed + 1
      /\ transit' = Append(transit, Eof) /\ lastSeq' = None /\ lastNewSeq' = None
      /\ wire' = wire \o (Encode(lastSeq) \o Encode(FlushCode))
      /\ seqdb' = NoPairs /\ nextCode' = FirstCode
      /\ newDb' = NoPairs /\ newNextCode' = FirstCode
  BY DEF Flush, Ending, Now, decompressVars
<1>6. FlushCode \in 0 .. FlushCode /\ FlushCode >= OptimizeCode
  BY CodesAre
<1>7. CanRead(E, FlushCode) /\ Said(E, FlushCode) = <<Eof>> /\ After(E, FlushCode) = Empty
  BY <1>6 DEF CanRead, Said, After
<1>8. wire' = (wire \o Encode(lastSeq)) \o Encode(FlushCode)
  <2>1. PICK a \in Bytes : a = wire
    BY <1>1, ChannelType DEF Linked
  <2>2. PICK b \in Bytes : b = Encode(lastSeq)
    BY <1>4, DecodeOfEncode DEF Bytes
  <2>3. PICK c \in Bytes : c = Encode(FlushCode)
    BY <1>6, DecodeOfEncode DEF Bytes
  <2>4. (a \o b) \o c = a \o (b \o c)
    BY ConcatAssociative DEF Bytes
  <2>5. QED
    BY <2>1, <2>2, <2>3, <2>4, <1>5
<1>9. Channel(Now, wire', Append(text, Eof), Empty, <<>>)
  <2>1. Channel(Now, wire \o Encode(lastSeq), Append(text, Eof), E, Append(<<>>, Eof))
    BY <1>4, ChannelSay
  <2>2. Append(<<>>, Eof) = Said(E, FlushCode)
    BY <1>7
  <2>3. QED
    BY <2>1, <2>2, <1>7, <1>8, ChannelWrite
<1>10. transit' = (ready \o Append(text, Eof))'
  BY <1>2, <1>5, Accepted DEF IInv
<1>11. Fits(Empty, <<>>)'
  BY <1>5 DEF Fits
<1>12. closed < MaxStreams
  BY <1>1, <1>2 DEF Linked, Fits
<1>13. Bounds'
  BY <1>5, <1>12, CompressAssumption DEF IInv, Bounds
<1>14. Linked(Empty, Append(text, Eof), <<>>)'
  BY <1>5, <1>9, <1>10, <1>11 DEF Linked
<1>15. QED
  BY <1>13, <1>14 DEF IInv

\* The compressor's tables when the sequence goes on from p[1] with p[2] under the
\* code of info: ext tells whether the next table gets that, too.  v and t are
\* what the decompressor has after the shorter sequence and after the longer one.
Extends(v, db, n, ndb, nn, p, lastNew, info, ext, info2, t) ==
  /\ WellMade(v) /\ Numbers(db, n, v.table) /\ Numbers(ndb, nn, v.newTable)
  /\ p \in DOMAIN db /\ p[1] \in 0 .. Size(v.table) - 1 /\ lastNew = Translated(v.table, p[1])
  /\ info = db[p] /\ ext = (~info.used /\ HasRoom(nn))
  /\ info2 = IF ext THEN [info EXCEPT !.newCode = nn, !.used = TRUE] ELSE info
  /\ t = IF Entry(v.table, info.nextCode).used THEN v ELSE AddCode(v, info.nextCode)

\* They agree as they did before.
LEMMA Extended ==
  ASSUME NEW v, NEW db, NEW n, NEW ndb, NEW nn, NEW p, NEW lastNew, NEW info, NEW ext, NEW info2,
         NEW t, Extends(v, db, n, ndb, nn, p, lastNew, info, ext, info2, t)
  PROVE  /\ Numbers([db EXCEPT ![p] = info2], n, t.table)
         /\ ext => Numbers(Insert(ndb, <<lastNew, p[2]>>, Fresh(nn)), nn + 1, t.newTable)
         /\ ~ext => Numbers(ndb, nn, t.newTable)
         /\ info2.newCode = Translated(t.table, info.nextCode)
<1> DEFINE new == [db EXCEPT ![p] = info2]
           last == p[1]
           c == p[2]
           r == <<lastNew, c>>
<1>a. /\ WellMade(v) /\ Numbers(db, n, v.table) /\ Numbers(ndb, nn, v.newTable)
      /\ p \in DOMAIN db /\ info = db[p] /\ last \in 0 .. Size(v.table) - 1
      /\ lastNew = Translated(v.table, last)
  BY DEF Extends
<1>b. p \in Pairs /\ c \in Char
  BY <1>a DEF Numbers, Pairs
<1>c. new = [db EXCEPT ![p] = info2] /\ r = <<lastNew, c>>
  OBVIOUS
<1> HIDE DEF new, last, c, r
<1>0. /\ ext <=> ~info.used /\ HasRoom(nn)
      /\ ext => info2 = [info EXCEPT !.newCode = nn, !.used = TRUE]
      /\ ~ext => info2 = info
      /\ Entry(v.table, info.nextCode).used => t = v
      /\ ~Entry(v.table, info.nextCode).used => t = AddCode(v, info.nextCode)
  BY DEF Extends
<1>1. /\ v \in TwoTables /\ Table(v.table)
      /\ v.table \in Seq(DecInfo) /\ v.newTable \in Seq(DecInfo)
  BY <1>a DEF WellMade, TwoTables
<1>2. /\ n = Size(v.table) /\ nn = Size(v.newTable) /\ n \in Nat /\ nn \in Nat /\ FirstCode \in Nat
  BY <1>a, <1>1, SizeIs DEF Numbers
<1>3. Names(info, p, n, v.table)
  BY <1>a DEF Numbers
<1>4. PICK q : q = info.nextCode
  OBVIOUS
<1>5. q \in FirstCode .. n - 1 /\ info \in SeqInfo /\ ~(q < FirstCode) /\ q \in Nat
  BY <1>2, <1>3, <1>4 DEF Names
<1>6. PICK x \in DecInfo : x = Entry(v.table, q)
  BY <1>1, <1>2, <1>5, EntryIs
<1>7. x.prevCode = last /\ x.outchar = c /\ x.newCode = info.newCode /\ x.used = info.used
  BY <1>3, <1>4, <1>6 DEF Names, last, c
<1>8. Entry(v.table, q).prevCode \in 0 .. Size(v.table) - 1
  BY <1>a, <1>6, <1>7
<1>9. CASE ext
  <2>1. t = AddCode(v, q) /\ HasRoom(Size(v.newTable))
    BY <1>0, <1>2, <1>4, <1>6, <1>7, <1>9
  <2>2. Adds(v, t, q)
    BY <2>1, <1>1, <1>2, <1>5, <1>8, AddCodeIs
  <2>3. info2 = [info EXCEPT !.newCode = nn, !.used = TRUE]
    BY <1>0, <1>9
  <2>4. info2 \in SeqInfo /\ info2.nextCode = q /\ info2.newCode = nn /\ info2.used = TRUE
    BY <2>3, <1>2, <1>4, <1>5 DEF SeqInfo
  <2>5. PICK y : y = Entry(t.table, q)
    OBVIOUS
  <2>6. y = [x EXCEPT !.newCode = nn, !.used = TRUE]
    BY <2>2, <2>5, <1>2, <1>6 DEF Adds
  <2>7. y.prevCode = last /\ y.outchar = c /\ y.newCode = nn /\ y.used = TRUE
    BY <2>6, <1>6, <1>7 DEF DecInfo
  <2>8. p[1] = last /\ p[2] = c
    BY DEF last, c
  <2>9. Names(info2, p, n, t.table)
    BY <2>4, <2>5, <2>7, <2>8, <1>5 DEF Names
  <2>10. /\ t.table \in Seq(DecInfo) /\ Size(t.table) = n
         /\ t.newTable \in Seq(DecInfo) /\ Size(t.newTable) = nn + 1
         /\ \A k \in FirstCode .. n - 1 : k # q => Entry(t.table, k) = Entry(v.table, k)
         /\ \A k \in FirstCode .. nn - 1 : Entry(t.newTable, k) = Entry(v.newTable, k)
    BY <2>2, <1>2 DEF Adds, TwoTables
  <2>11. Numbers(new, n, t.table)
    <3>1. info2.nextCode = db[p].nextCode
      BY <2>4, <1>a, <1>4
    <3>2. \A k \in FirstCode .. n - 1 :
            k # info2.nextCode => Entry(t.table, k) = Entry(v.table, k)
      BY <2>4, <2>10
    <3>3. QED
      BY <3>1, <3>2, <2>9, <2>10, <1>a, <1>c, NumbersReplace
  <2>13. r \in Pairs /\ r[1] = lastNew /\ r[2] = c
    BY <1>1, <1>a, <1>b, <1>c, TranslatedIs DEF Pairs
  <2>14. Entry(t.newTable, nn) = Item(r[1], r[2])
    <3>1. Entry(t.newTable, nn) = [prevCode |-> Translated(v.table, last), newCode |-> 0,
                                   outchar |-> c, used |-> FALSE]
      BY <2>2, <1>2, <1>6, <1>7 DEF Adds
    <3>2. QED
      BY <3>1, <2>13, <1>a DEF Item
  <2>15. Numbers(Insert(ndb, r, Fresh(nn)), nn + 1, t.newTable)
    BY <2>10, <2>13, <2>14, <1>a, NumbersInsert
  <2>16. info2.newCode = Translated(t.table, q)
    BY <2>4, <2>5, <2>7, <1>5 DEF Translated
  <2>17. QED
    BY <2>11, <2>15, <2>16, <1>4, <1>9 DEF new, r, c
<1>10. CASE ~ext
  <2>1. info2 = info
    BY <1>0, <1>10
  <2>2. t = v
    <3>1. CASE x.used
      BY <3>1, <1>0, <1>4, <1>6
    <3>2. CASE ~x.used
      <4>1. ~HasRoom(Size(v.newTable))
        BY <3>2, <1>0, <1>2, <1>7, <1>10
      <4>2. AddCode(v, q) = v
        BY <4>1, <1>1, <1>2, <1>5, <1>8, AddCodeIs
      <4>3. QED
        BY <4>2, <3>2, <1>0, <1>4, <1>6
    <3>3. QED
      BY <3>1, <3>2
  <2>3. Numbers(new, n, t.table)
    BY <2>1, <2>2, <1>1, <1>2, <1>3, <1>a, <1>c, NumbersReplace
  <2>4. info2.newCode = Translated(t.table, q)
    BY <2>1, <2>2, <1>5, <1>6, <1>7 DEF Translated
  <2>5. QED
    BY <2>2, <2>3, <2>4, <1>4, <1>10, <1>a DEF new
<1>11. QED
  BY <1>9, <1>10

\* A character that is found changes no table but the next one, and what it marks
\* the decompressor will mark when it reads the code that is still to be written.
LEMMA ExtendKeeps ==
  ASSUME IInv, NEW c \in Char, Extend(c)
  PROVE  IInv'
<1>1. PICK e, text, rest : Linked(e, text, rest)
  BY DEF IInv
<1>2. lastSeq # None /\ Pair(c) \in DOMAIN seqdb /\ seqdb[Pair(c)].nextCode < MaxCode
  BY DEF Extend, Known
<1>3. PICK last : last = lastSeq
  OBVIOUS
<1>4. /\ Channel(Now, wire, text, e, rest) /\ transit = ready \o text /\ text \in Chars
      /\ CanRead(e, last) /\ last \in 0 .. MaxCode - 1 /\ rest = Said(e, last) /\ Good(e)
      /\ closed < MaxStreams
  BY <1>1, <1>2, <1>3, ChannelType DEF Linked, Fits
<1>5. PICK E : E = After(e, last)
  OBVIOUS
<1>6. PICK v : v = E.tables
  OBVIOUS
<1>7. /\ Good(E) /\ WellMade(v) /\ Agrees(E) /\ last \in 0 .. Size(v.table) - 1
  BY <1>1, <1>2, <1>3, <1>5, <1>6, Ended DEF Good
<1>8. PICK db : db = seqdb
  OBVIOUS
<1>9. PICK n : n = nextCode
  OBVIOUS
<1>10. PICK ndb : ndb = newDb
  OBVIOUS
<1>11. PICK nn : nn = newNextCode
  OBVIOUS
<1>12. PICK lastNew : lastNew = lastNewSeq
  OBVIOUS
<1>13. Numbers(db, n, v.table) /\ Numbers(ndb, nn, v.newTable) /\ lastNew = Translated(v.table, last)
  BY <1>3, <1>6, <1>7, <1>8, <1>9, <1>10, <1>11, <1>12 DEF Agrees
<1>14. PICK p : p = <<last, c>>
  OBVIOUS
<1>15. p = Pair(c) /\ p \in DOMAIN db
  BY <1>2, <1>3, <1>8, <1>14 DEF Pair
<1>16. PICK info : info = db[p]
  OBVIOUS
<1>17. PICK code : code = info.nextCode
  OBVIOUS
<1>18. /\ code \in FirstCode .. Size(v.table) - 1 /\ code < MaxCode
       /\ Entry(v.table, code).prevCode = last /\ Entry(v.table, code).outchar = c
  <2>1. Names(info, p, n, v.table) /\ n = Size(v.table)
    BY <1>13, <1>15, <1>16 DEF Numbers
  <2>2. code < MaxCode
    BY <1>2, <1>8, <1>15, <1>16, <1>17
  <2>3. QED
    BY <2>1, <2>2, <1>14, <1>17 DEF Names
<1>19. last < MaxCode /\ code \in 0 .. MaxCode - 1 /\ code # None
  BY <1>4, <1>18, CodesAre DEF None
<1>20. PICK ext, info2, t : Extends(v, db, n, ndb, nn, p, lastNew, info, ext, info2, t)
  <2>1. p[1] = last
    BY <1>14
  <2>2. QED
    BY <2>1, <1>7, <1>13, <1>15, <1>16 DEF Extends
<1>21. /\ CanRead(e, code) /\ Said(e, code) = Append(rest, c)
       /\ After(e, code) = [tables |-> t, prev |-> code]
  <2>1. v = After(e, last).tables
    BY <1>5, <1>6
  <2>2. t = IF Entry(v.table, code).used THEN v ELSE AddCode(v, code)
    BY <1>17, <1>20 DEF Extends
  <2>3. PICK o : o = Entry(v.table, code).outchar
    OBVIOUS
  <2>4. /\ CanRead(e, code) /\ Said(e, code) = Append(Said(e, last), o)
        /\ After(e, code) = [tables |-> t, prev |-> code]
    BY <2>1, <2>2, <2>3, <1>4, <1>18, <1>19, LongerRead
  <2>5. o = c /\ rest = Said(e, last)
    BY <2>3, <1>4, <1>18
  <2>6. QED
    BY <2>4, <2>5
<1>22. PICK new, r : new = [db EXCEPT ![p] = info2] /\ r = <<lastNew, c>>
  OBVIOUS
<1>23. /\ Numbers(new, n, t.table)
       /\ ext => Numbers(Insert(ndb, r, Fresh(nn)), nn + 1, t.newTable)
       /\ ~ext => Numbers(ndb, nn, t.newTable)
       /\ info2.newCode = Translated(t.table, code)
  <2>1. /\ Numbers(new, n, t.table)
        /\ ext => Numbers(Insert(ndb, r, Fresh(nn)), nn + 1, t.newTable)
        /\ ~ext => Numbers(ndb, nn, t.newTable)
        /\ info2.newCode = Translated(t.table, info.nextCode)
    <3>1. p[2] = c
      BY <1>14
    <3>2. /\ Numbers([db EXCEPT ![p] = info2], n, t.table)
          /\ ext => Numbers(Insert(ndb, <<lastNew, p[2]>>, Fresh(nn)), nn + 1, t.newTable)
          /\ ~ext => Numbers(ndb, nn, t.newTable)
          /\ info2.newCode = Translated(t.table, info.nextCode)
      BY <1>20, Extended
    <3>3. QED
      BY <3>1, <3>2, <1>22
  <2>2. QED
    BY <2>1, <1>17
<1>24. /\ UNCHANGED <<Now, ready, table, prevCode, firstChar, got, closed, wire, nextCode>>
       /\ chars < MaxChars /\ chars' = chars + 1 /\ transit' = Append(transit, c)
  BY DEF Extend, Accept, Room, Now, decompressVars
<1>25. /\ seqdb' = new /\ lastSeq' = code /\ lastNewSeq' = info2.newCode
       /\ ext => newDb' = Insert(ndb, r, Fresh(nn)) /\ newNextCode' = nn + 1
       /\ ~ext => newDb' = ndb /\ newNextCode' = nn
  <2>1. /\ ext = (~info.used /\ HasRoom(nn))
        /\ info2 = IF ext THEN [info EXCEPT !.newCode = nn, !.used = TRUE] ELSE info
    BY <1>20 DEF Extends
  <2>2. QED
    BY <2>1, <1>8, <1>10, <1>11, <1>12, <1>15, <1>16, <1>17, <1>22 DEF Extend
<1>26. Fits(e, Append(rest, c))'
  <2>1. Numbers(seqdb', nextCode', t.table)
    BY <1>9, <1>23, <1>24, <1>25
  <2>2. Numbers(newDb', newNextCode', t.newTable)
    BY <1>23, <1>25
  <2>3. lastNewSeq' = Translated(t.table, lastSeq')
    BY <1>23, <1>25
  <2>4. Agrees([tables |-> t, prev |-> code])'
    BY <2>1, <2>2, <2>3 DEF Agrees
  <2>5. QED
    BY <2>4, <1>4, <1>19, <1>21, <1>24, <1>25 DEF Fits
<1>27. Channel(Now, wire, Append(text, c), e, Append(rest, c))
  BY <1>4, ChannelSay
<1>28. transit' = (ready \o Append(text, c))'
  BY <1>4, <1>24, Accepted DEF IInv
<1>29. Bounds'
  BY <1>4, <1>24, CompressAssumption DEF IInv, Bounds
<1>30. Linked(e, Append(text, c), Append(rest, c))'
  BY <1>24, <1>26, <1>27, <1>28 DEF Linked
<1>31. QED
  BY <1>29, <1>30 DEF IInv

-----------------------------------------------------------------------------
(* What the decompressor reads *)

\* The first item of two sequences together.
LEMMA HeadSplit ==
  ASSUME NEW a \in Chars, a # <<>>, NEW b \in Chars
  PROVE  a \o b # <<>> /\ Head(a \o b) = a[1] /\ Tail(a \o b) = Tail(a) \o b
<1>1. PICK s \in Chars : s = a \o b
  BY ConcatProperties DEF Chars
<1>2. PICK n \in Nat : n = Len(a) /\ n # 0
  BY EmptySeq DEF Chars
<1>3. PICK k \in Nat : k = Len(b)
  BY LenProperties DEF Chars
<1>4. Len(s) = n + k /\ \A i \in 1 .. n + k : s[i] = IF i <= n THEN a[i] ELSE b[i - n]
  BY <1>1, <1>2, <1>3, ConcatProperties DEF Chars
<1>5. s # <<>>
  BY <1>2, <1>4, EmptySeq DEF Chars
<1>6. Head(s) = a[1]
  <2>1. Head(s) = s[1]
    BY <1>5 DEF Chars
  <2>2. 1 \in 1 .. n + k /\ 1 <= n
    BY <1>2
  <2>3. QED
    BY <2>1, <2>2, <1>4
<1>7. PICK t \in Chars : t = Tail(s) /\ Len(t) = n + k - 1 /\ \A i \in 1 .. n + k - 1 : t[i] = s[i + 1]
  <2>1. PICK t \in Chars : t = Tail(s) /\ Len(t) = Len(s) - 1 /\ \A i \in 1 .. Len(t) : t[i] = s[i + 1]
    BY <1>5, HeadTailProperties DEF Chars
  <2>2. Len(t) = n + k - 1
    BY <2>1, <1>4
  <2>3. QED
    BY <2>1, <2>2
<1>8. PICK n1 \in Nat : n1 = n - 1
  BY <1>2
<1>9. PICK u \in Chars : u = Tail(a) /\ Len(u) = n1 /\ \A i \in 1 .. n1 : u[i] = a[i + 1]
  <2>1. PICK u \in Chars : u = Tail(a) /\ Len(u) = Len(a) - 1 /\ \A i \in 1 .. Len(u) : u[i] = a[i + 1]
    BY HeadTailProperties DEF Chars
  <2>2. QED
    BY <2>1, <1>2, <1>8
<1>10. PICK v \in Chars : v = u \o b /\ Len(v) = n1 + k
                         /\ \A i \in 1 .. n1 + k : v[i] = IF i <= n1 THEN u[i] ELSE b[i - n1]
  <2>1. PICK v : v = u \o b
    OBVIOUS
  <2>2. v \in Chars /\ Len(v) = n1 + k
        /\ \A i \in 1 .. n1 + k : v[i] = IF i <= n1 THEN u[i] ELSE b[i - n1]
    <3>1. /\ v \in Chars /\ Len(v) = Len(u) + Len(b)
          /\ \A i \in 1 .. Len(u) + Len(b) : v[i] = IF i <= Len(u) THEN u[i] ELSE b[i - Len(u)]
      BY <2>1, ConcatProperties DEF Chars
    <3>2. QED
      BY <3>1, <1>3, <1>9
  <2>3. QED
    BY <2>1, <2>2
<1>11. ASSUME NEW i \in 1 .. n + k - 1 PROVE t[i] = v[i]
  <2>1. t[i] = IF i + 1 <= n THEN a[i + 1] ELSE b[(i + 1) - n]
    BY <1>2, <1>4, <1>7
  <2>2. v[i] = IF i <= n1 THEN u[i] ELSE b[i - n1]
    BY <1>8, <1>10
  <2>3. CASE i <= n1
    BY <2>1, <2>2, <2>3, <1>8, <1>9
  <2>4. CASE ~(i <= n1)
    <3>1. (i + 1) - n = i - n1 /\ ~(i + 1 <= n)
      BY <2>4, <1>8
    <3>2. QED
      BY <3>1, <2>1, <2>2, <2>4
  <2>5. QED
    BY <2>3, <2>4
<1>12. t = v
  <2>1. n1 + k = n + k - 1
    BY <1>8
  <2>2. QED
    BY <2>1, <1>7, <1>10, <1>11, SeqEqual DEF Chars
<1>13. QED
  BY <1>1, <1>5, <1>6, <1>7, <1>9, <1>10, <1>12

\* What is left of two sequences after the first.
LEMMA RestOfConcat ==
  ASSUME NEW a \in Bytes, NEW b \in Bytes
  PROVE  SubSeq(a \o b, Len(a) + 1, Len(a \o b)) = b
<1>1. PICK s \in Bytes : s = a \o b
  BY ConcatProperties DEF Bytes
<1>2. PICK n \in Nat : n = Len(a)
  BY LenProperties DEF Bytes
<1>3. PICK k \in Nat : k = Len(b)
  BY LenProperties DEF Bytes
<1>4. Len(s) = n + k /\ \A i \in 1 .. n + k : s[i] = IF i <= n THEN a[i] ELSE b[i - n]
  BY <1>1, <1>2, <1>3, ConcatProperties DEF Bytes
<1>5. ASSUME NEW i \in n + 1 .. n + k PROVE s[i] = b[i - n] /\ s[i] \in 0 .. Base - 1
  <2>1. i \in 1 .. n + k /\ ~(i <= n) /\ i \in 1 .. Len(s)
    BY <1>4
  <2>2. s[i] \in 0 .. Base - 1
    BY <2>1, ElementOfSeq DEF Bytes
  <2>3. QED
    BY <2>1, <2>2, <1>4
<1>6. PICK t : t = SubSeq(s, n + 1, n + k)
  OBVIOUS
<1>7. /\ t \in Bytes /\ Len(t) = (IF n + 1 <= n + k THEN (n + k) - (n + 1) + 1 ELSE 0)
      /\ \A i \in 1 .. (n + k) - (n + 1) + 1 : t[i] = s[(n + 1) + i - 1]
  <2>1. n + 1 \in Int /\ n + k \in Int /\ \A i \in n + 1 .. n + k : s[i] \in 0 .. Base - 1
    BY <1>5
  <2>2. QED
    BY <2>1, <1>6, SubSeqProperties DEF Bytes
<1>8. Len(t) = k
  BY <1>7
<1>9. ASSUME NEW i \in 1 .. k PROVE t[i] = b[i]
  <2>1. i \in 1 .. (n + k) - (n + 1) + 1 /\ (n + 1) + i - 1 = n + i /\ (n + i) - n = i
    OBVIOUS
  <2>2. t[i] = s[n + i] /\ n + i \in n + 1 .. n + k
    BY <2>1, <1>7
  <2>3. QED
    BY <2>1, <2>2, <1>5
<1>10. t = b
  BY <1>3, <1>7, <1>8, <1>9, SeqEqual DEF Bytes
<1>11. QED
  BY <1>1, <1>2, <1>4, <1>6, <1>10

\* The bytes on their way begin with a code.
LEMMA CodeAtHead ==
  ASSUME NEW code \in 0 .. FlushCode, NEW more \in Bytes, wire = Encode(code) \o more
  PROVE  Code = code /\ (Consume => wire' = more)
<1>1. PICK b \in Bytes : b = Encode(code)
  BY DecodeOfEncode DEF Bytes
<1>2. PICK w : w = wire
  OBVIOUS
<1>3. w = b \o more
  BY <1>1, <1>2
<1>4. Decode(w) = code /\ Width(w) = Len(b)
  <2>1. \A j \in 1 .. Len(b) : w[j] = b[j]
    <3>1. PICK n \in Nat : n = Len(b)
      BY LenProperties DEF Bytes
    <3>2. PICK k \in Nat : k = Len(more)
      BY LenProperties DEF Bytes
    <3>3. \A i \in 1 .. n + k : w[i] = IF i <= n THEN b[i] ELSE more[i - n]
      BY <3>1, <3>2, <1>3, ConcatProperties DEF Bytes
    <3>4. \A j \in 1 .. n : j \in 1 .. n + k /\ j <= n
      OBVIOUS
    <3>5. QED
      BY <3>1, <3>3, <3>4
  <2>2. QED
    BY <2>1, <1>1, DecodeOfEncode
<1>5. SubSeq(w, Len(b) + 1, Len(w)) = more
  BY <1>3, RestOfConcat
<1>6. QED
  BY <1>2, <1>4, <1>5 DEF Code, Consume

\* The next code, and what there is after it.
Upcoming(code, more, left, e, rest) ==
  /\ CanRead(Now, code) /\ Code = code /\ transit = Said(Now, code) \o left
  /\ more \in Bytes /\ left \in Chars /\ (Consume => wire' = more)
  /\ Channel(After(Now, code), more, left, e, rest) /\ Fits(e, rest)

\* The bytes on their way begin with a code the decompressor can read.
LEMMA CodeRead ==
  ASSUME IInv, Reading
  PROVE  Good(Now) /\ \E code, more, left, e, rest : Upcoming(code, more, left, e, rest)
<1>1. PICK e, text, rest : Linked(e, text, rest)
  BY DEF IInv
<1>2. /\ Channel(Now, wire, text, e, rest) /\ transit = ready \o text /\ Fits(e, rest)
      /\ Good(Now) /\ text \in Chars
  BY <1>1, ChannelType DEF Linked
<1>3. transit = text
  <2>1. <<>> \o text = text
    BY <1>2, ConcatEmptySeq DEF Chars
  <2>2. QED
    BY <2>1, <1>2 DEF Reading
<1>4. wire # <<>>
  BY DEF Reading
<1>5. PICK code, more, left :
        /\ CanRead(Now, code) /\ wire = Encode(code) \o more /\ text = Said(Now, code) \o left
        /\ more \in Bytes /\ left \in Chars /\ Channel(After(Now, code), more, left, e, rest)
  BY <1>2, <1>4, ChannelRead
<1>6. Code = code /\ (Consume => wire' = more)
  BY <1>5, CodeAtHead DEF CanRead
<1>7. QED
  BY <1>2, <1>3, <1>5, <1>6 DEF Upcoming

-----------------------------------------------------------------------------
(* Steps of the decompressor *)

Delivers == transit # <<>> /\ got' = Head(transit) /\ transit' = Tail(transit)

\* A character that is ready is the next one of the text.
LEMMA PopKeeps ==
  ASSUME IInv, Pop
  PROVE  IInv' /\ Delivers
<1>1. PICK e, text, rest : Linked(e, text, rest)
  BY DEF IInv
<1>2. /\ Channel(Now, wire, text, e, rest) /\ transit = ready \o text /\ Fits(e, rest)
      /\ text \in Chars
  BY <1>1, ChannelType DEF Linked
<1>3. PICK r : r = ready
  OBVIOUS
<1>4. r \in Seq(Char) /\ r # <<>>
  BY <1>3 DEF IInv, Bounds, Pop
<1>5. r \in Chars
  <2>1. Char \subseteq Char \cup {Eof}
    OBVIOUS
  <2>2. QED
    BY <2>1, <1>4, SeqMonotonic DEF Chars
<1>6. r \o text # <<>> /\ Head(r \o text) = r[1] /\ Tail(r \o text) = Tail(r) \o text
  BY <1>2, <1>4, <1>5, HeadSplit
<1>7. Head(r) \in Char /\ Tail(r) \in Seq(Char) /\ Head(r) = r[1]
  BY <1>4, HeadTailProperties
<1>8. /\ UNCHANGED <<Now, wire, table, prevCode, firstChar, closed, chars, lastSeq, lastNewSeq,
                     seqdb, nextCode, newDb, newNextCode>>
      /\ ready' = Tail(r) /\ Deliver(Head(r))
  BY <1>3 DEF Pop, Now, compressVars
<1>9. transit = r \o text
  BY <1>2, <1>3
<1>10. got' = Head(r) /\ transit' = Tail(transit) /\ transit # <<>>
  BY <1>6, <1>8, <1>9 DEF Deliver
<1>11. transit' = (ready \o text)'
  BY <1>6, <1>8, <1>9, <1>10
<1>12. Delivers
  BY <1>6, <1>7, <1>9, <1>10 DEF Delivers
<1>13. Fits(e, rest)'
  BY <1>2, <1>8 DEF Fits, Agrees
<1>14. Bounds'
  BY <1>7, <1>8, <1>10 DEF IInv, Bounds
<1>15. Linked(e, text, rest)'
  BY <1>2, <1>8, <1>11, <1>13 DEF Linked
<1>16. QED
  BY <1>12, <1>14, <1>15 DEF IInv

\* The compressor's part stays as it is.
LEMMA FitsStays ==
  ASSUME NEW e, NEW rest, Fits(e, rest), UNCHANGED compressVars
  PROVE  Fits(e, rest)'
<1>1. UNCHANGED <<closed, seqdb, nextCode, lastSeq, lastNewSeq, newDb, newNextCode>>
  BY DEF compressVars
<1>2. QED
  BY <1>1 DEF Fits, Agrees

\* A code of a sequence takes the decompressor one state along the channel, and
\* its first character is the next one of the text.
LEMMA ReadSequenceKeeps ==
  ASSUME IInv, ReadSequence
  PROVE  IInv' /\ Delivers
<1>1. Good(Now) /\ \E code, more, left, e, rest : Upcoming(code, more, left, e, rest)
  BY CodeRead DEF ReadSequence
<1>2. PICK code, more, left, e, rest : Upcoming(code, more, left, e, rest)
  BY <1>1
<1>3. PICK d : d = Now
  OBVIOUS
<1>4. /\ CanRead(d, code) /\ Code = code /\ transit = Said(d, code) \o left
      /\ left \in Chars /\ wire' = more /\ Channel(After(d, code), more, left, e, rest)
      /\ Fits(e, rest) /\ Good(d) /\ code < OptimizeCode
  BY <1>1, <1>2, <1>3 DEF Upcoming, ReadSequence
<1>5. PICK text : text = Said(d, code)
  OBVIOUS
<1>6. PICK D : D = After(d, code)
  OBVIOUS
<1>7. /\ Good(D) /\ D.prev = code /\ text \in Seq(Char) /\ text # <<>>
      /\ text = Spelled(D.tables.table, code)
  BY <1>4, <1>5, <1>6, AfterIsGood
<1>8. PICK t \in TwoTables : t = D.tables
  BY <1>7 DEF Good
<1>9. /\ UNCHANGED compressVars /\ prevCode' = code
      /\ table' = t.table /\ newTable' = t.newTable
      /\ ready' = Tail(text) /\ firstChar' = text[1] /\ Deliver(text[1])
  <2>1. PICK known : known = IF code = Size(d.tables.table) THEN d.prev ELSE code
    OBVIOUS
  <2>2. PICK spelled : spelled = Spelled(d.tables.table, known)
    OBVIOUS
  <2>3. PICK grown : grown = Learn(MarkUsed(d.tables, known), d.prev, spelled[1])
    OBVIOUS
  <2>4. PICK first : first = firstChar
    OBVIOUS
  <2>5. /\ d.tables = [table |-> table, newTable |-> newTable] /\ d.tables.table = table
        /\ d.prev = prevCode
    BY <1>3 DEF Now
  <2>6. d.prev # None => first = Spelled(d.tables.table, d.prev)[1]
    BY <2>4, <2>5 DEF IInv, Bounds
  <2>7. /\ (IF code = Size(d.tables.table) THEN MarkUsed(grown, code) ELSE grown) = t
        /\ spelled[1] = text[1]
        /\ (IF code = Size(d.tables.table) THEN Append(Tail(spelled), first) ELSE Tail(spelled))
             = Tail(text)
    <3>1. /\ (IF code = Size(d.tables.table) THEN MarkUsed(grown, code) ELSE grown)
               = After(d, code).tables
          /\ spelled[1] = Said(d, code)[1]
          /\ (IF code = Size(d.tables.table) THEN Append(Tail(spelled), first) ELSE Tail(spelled))
               = Tail(Said(d, code))
      <4>1. Reads(d, code, first, known, spelled, grown)
        BY <2>1, <2>2, <2>3, <2>6, <1>4 DEF Reads
      <4>2. QED
        BY <4>1, SequenceRead
    <3>2. QED
      BY <3>1, <1>5, <1>6, <1>8
  <2>8. NextEntry = Size(d.tables.table)
    BY <2>5 DEF NextEntry, Size
  <2>9. known = IF Code = NextEntry THEN prevCode ELSE Code
    BY <2>1, <2>5, <2>8, <1>4
  <2>10. spelled = Spelled(table, known)
    BY <2>2, <2>5
  <2>11. grown = Learn(MarkUsed([table |-> table, newTable |-> newTable], known), prevCode, spelled[1])
    BY <2>3, <2>5
  <2>12. PICK final : final = IF Code = NextEntry THEN MarkUsed(grown, Code) ELSE grown
    OBVIOUS
  <2>13. /\ table' = final.table /\ newTable' = final.newTable
         /\ ready' = IF Code = NextEntry THEN Append(Tail(spelled), first) ELSE Tail(spelled)
         /\ firstChar' = spelled[1] /\ Deliver(spelled[1])
         /\ UNCHANGED compressVars /\ prevCode' = Code
    BY <2>4, <2>9, <2>10, <2>11, <2>12 DEF ReadSequence, Outchars
  <2>14. final = t
    BY <2>7, <2>8, <2>12, <1>4
  <2>15. QED
    BY <2>7, <2>8, <2>13, <2>14, <1>4
<1>10. Now' = D
  <2>1. t = [table |-> t.table, newTable |-> t.newTable]
    BY DEF TwoTables
  <2>2. D = [tables |-> t, prev |-> code]
    BY <1>7, <1>8 DEF Good
  <2>3. QED
    BY <2>1, <2>2, <1>9 DEF Now
<1>11. text \in Chars
  <2>1. Char \subseteq Char \cup {Eof}
    OBVIOUS
  <2>2. QED
    BY <2>1, <1>7, SeqMonotonic DEF Chars
<1>12. text \o left # <<>> /\ Head(text \o left) = text[1] /\ Tail(text \o left) = Tail(text) \o left
  BY <1>4, <1>7, <1>11, HeadSplit
<1>13. text[1] \in Char /\ Tail(text) \in Seq(Char)
  BY <1>7, HeadTailProperties
<1>14. got' = text[1] /\ transit' = Tail(transit) /\ transit = text \o left /\ transit # <<>>
  BY <1>4, <1>5, <1>9, <1>12 DEF Deliver
<1>15. Delivers
  BY <1>12, <1>14 DEF Delivers
<1>16. transit' = (ready \o left)'
  BY <1>9, <1>12, <1>14
<1>17. Fits(e, rest)'
  BY <1>4, <1>9, FitsStays
<1>18. Bounds'
  <2>1. UNCHANGED <<closed, chars>>
    BY <1>9 DEF compressVars
  <2>2. firstChar' = Spelled(table', prevCode')[1]
    BY <1>7, <1>8, <1>9
  <2>3. QED
    BY <2>1, <2>2, <1>9, <1>13, <1>14 DEF IInv, Bounds
<1>19. Linked(e, left, rest)'
  BY <1>4, <1>6, <1>10, <1>16, <1>17 DEF Linked
<1>20. QED
  BY <1>15, <1>18, <1>19 DEF IInv

\* An optimize code takes it one state along, and delivers nothing.
LEMMA ReadOptimizeKeeps ==
  ASSUME IInv, ReadOptimize
  PROVE  IInv' /\ UNCHANGED <<transit, got>>
<1>1. Good(Now) /\ \E code, more, left, e, rest : Upcoming(code, more, left, e, rest)
  BY CodeRead DEF ReadOptimize
<1>2. PICK code, more, left, e, rest : Upcoming(code, more, left, e, rest)
  BY <1>1
<1>3. /\ code = OptimizeCode /\ transit = Said(Now, code) \o left /\ left \in Chars
      /\ wire' = more /\ Channel(After(Now, code), more, left, e, rest) /\ Fits(e, rest)
  BY <1>2 DEF Upcoming, ReadOptimize
<1>4. /\ table' = newTable /\ newTable' = <<>> /\ prevCode' = None
      /\ UNCHANGED compressVars /\ UNCHANGED <<firstChar, ready, transit, got>> /\ ready = <<>>
  BY DEF ReadOptimize, Reading
<1>5. OptimizeCode # FlushCode
  BY CodesAre
<1>6. Said(Now, code) = <<>>
  BY <1>3, <1>5 DEF Said
<1>7. After(Now, code) =
        [tables |-> [table |-> newTable, newTable |-> <<>>], prev |-> None]
  BY <1>3, <1>5 DEF After, Now
<1>8. Now' = After(Now, code)
  BY <1>4, <1>7 DEF Now
<1>9. transit' = (ready \o left)'
  BY <1>3, <1>4, <1>6
<1>10. Channel(Now', wire', left, e, rest)
  BY <1>3, <1>8
<1>11. Fits(e, rest)'
  BY <1>3, <1>4, FitsStays
<1>12. Bounds'
  BY <1>4 DEF IInv, Bounds, compressVars
<1>13. Linked(e, left, rest)'
  BY <1>9, <1>10, <1>11 DEF Linked
<1>14. QED
  BY <1>4, <1>12, <1>13 DEF IInv

\* A flush code takes a new decompressor to the first state.
LEMMA ReadFlushKeeps ==
  ASSUME ~Reuse, IInv, ReadFlush
  PROVE  IInv' /\ Delivers
<1>1. Good(Now) /\ \E code, more, left, e, rest : Upcoming(code, more, left, e, rest)
  BY CodeRead DEF ReadFlush
<1>2. PICK code, more, left, e, rest : Upcoming(code, more, left, e, rest)
  BY <1>1
<1>3. /\ code = FlushCode /\ transit = Said(Now, code) \o left /\ left \in Chars
      /\ wire' = more /\ Channel(After(Now, code), more, left, e, rest) /\ Fits(e, rest)
  BY <1>2 DEF Upcoming, ReadFlush
<1>4. /\ table' = <<>> /\ newTable' = <<>> /\ prevCode' = None
      /\ UNCHANGED compressVars /\ UNCHANGED <<firstChar, ready>> /\ ready = <<>> /\ Deliver(Eof)
  BY DEF ReadFlush, Reading
<1>5. Said(Now, code) = <<Eof>> /\ After(Now, code) = Empty
  BY <1>3 DEF Said, After
<1>6. Now' = Empty
  BY <1>4 DEF Now, Empty
<1>7. PICK text : text = <<Eof>>
  OBVIOUS
<1>8. text \in Chars /\ text # <<>> /\ text[1] = Eof /\ Tail(text) = <<>>
  BY <1>7 DEF Chars
<1>9. text \o left # <<>> /\ Head(text \o left) = Eof /\ Tail(text \o left) = Tail(text) \o left
  BY <1>3, <1>8, HeadSplit
<1>10. <<>> \o left = left
  BY <1>3, ConcatEmptySeq DEF Chars
<1>11. transit = text \o left /\ got' = Eof /\ transit' = Tail(transit)
  BY <1>3, <1>4, <1>5, <1>7, <1>9 DEF Deliver
<1>12. Delivers
  BY <1>9, <1>11 DEF Delivers
<1>13. transit' = (ready \o left)'
  BY <1>4, <1>8, <1>9, <1>11
<1>14. Channel(Now', wire', left, e, rest)
  BY <1>3, <1>5, <1>6
<1>15. Fits(e, rest)'
  BY <1>3, <1>4, FitsStays
<1>16. Bounds'
  BY <1>4, <1>11 DEF IInv, Bounds, compressVars
<1>17. Linked(e, left, rest)'
  BY <1>13, <1>14, <1>15 DEF Linked
<1>18. QED
  BY <1>12, <1>16, <1>17 DEF IInv

-----------------------------------------------------------------------------
(* Theorems *)

\* A new Compress and a new Decompress.
LEMMA InitOK == Init => IInv
<1> SUFFICES ASSUME Init PROVE IInv
  OBVIOUS
<1>1. Now = Empty /\ wire = <<>> /\ transit = <<>> /\ ready = <<>>
  BY DEF Init, Now, Empty
<1>2. <<>> \in Chars /\ <<>> \o <<>> = <<>>
  BY ConcatEmptySeq DEF Chars
<1>3. Channel(Now, wire, <<>>, Empty, <<>>)
  BY <1>1, <1>2, EmptyIsGood, ChannelEmpty
<1>4. Fits(Empty, <<>>)
  BY DEF Init, Fits
<1>5. Linked(Empty, <<>>, <<>>)
  BY <1>1, <1>2, <1>3, <1>4 DEF Linked
<1>6. Bounds
  <2>1. 0 \in Char
    BY CodesAre DEF Char
  <2>2. QED
    BY <2>1, CompressAssumption DEF Init, Bounds
<1>7. QED
  BY <1>5, <1>6 DEF IInv

\* Steps that change nothing.
LEMMA StutterKeeps ==
  ASSUME IInv, UNCHANGED vars
  PROVE  IInv'
<1>1. /\ UNCHANGED <<closed, chars, seqdb, nextCode, lastSeq, lastNewSeq, newDb, newNextCode>>
      /\ UNCHANGED <<wire, table, newTable, prevCode, firstChar, ready, transit, got>>
      /\ UNCHANGED compressVars
  BY DEF vars, compressVars, decompressVars
<1>2. PICK e, text, rest : Linked(e, text, rest)
  BY DEF IInv
<1>3. Now' = Now
  BY <1>1 DEF Now
<1>4. Fits(e, rest)'
  BY <1>1, <1>2, FitsStays DEF Linked
<1>5. Linked(e, text, rest)'
  BY <1>1, <1>2, <1>3, <1>4 DEF Linked
<1>6. Bounds'
  BY <1>1 DEF IInv, Bounds
<1>7. QED
  BY <1>5, <1>6 DEF IInv

\* Every action keeps the invariant.
LEMMA NextKeeps ==
  ASSUME ~Reuse, IInv, [Next]_vars
  PROVE  IInv'
<1>1. ASSUME NEW c \in Char, Begin(c) PROVE IInv'
  BY <1>1, BeginKeeps
<1>2. ASSUME NEW c \in Char, EndSequence(c) PROVE IInv'
  BY <1>2, EndSequenceKeeps
<1>3. ASSUME NEW c \in Char, Extend(c) PROVE IInv'
  BY <1>3, ExtendKeeps
<1>4. ASSUME NEW c \in Char, Optimize(c) PROVE IInv'
  BY <1>4, OptimizeKeeps
<1>5. CASE Flush
  BY <1>5, FlushKeeps
<1>6. CASE Pop
  BY <1>6, PopKeeps
<1>7. CASE ReadSequence
  BY <1>7, ReadSequenceKeeps
<1>8. CASE ReadOptimize
  BY <1>8, ReadOptimizeKeeps
<1>9. CASE ReadFlush
  BY <1>9, ReadFlushKeeps
<1>10. CASE UNCHANGED vars
  BY <1>10, StutterKeeps
<1>11. QED
  BY <1>1, <1>2, <1>3, <1>4, <1>5, <1>6, <1>7, <1>8, <1>9, <1>10 DEF Next, Get

\* The bytes on their way are codes that the decompressor can read, one after
\* the other: they lead it to the tables that the compressor had when it wrote
\* the last of them, and what they stand for, with the sequence that the
\* compressor is in the middle of, is the text that is on its way.
THEOREM ChannelIsSound ==
  ASSUME ~Reuse
  PROVE  Spec => []IInv
<1>1. IInv /\ [Next]_vars => IInv'
  BY NextKeeps
<1>2. QED
  BY InitOK, <1>1, PTL DEF Spec

\* The codes and the tables are within the bounds of their representation.
LEMMA TypeFollows ==
  ASSUME IInv
  PROVE  TypeOK
<1>1. PICK e, text, rest : Linked(e, text, rest)
  BY DEF IInv
<1>2. /\ Channel(Now, wire, text, e, rest) /\ transit = ready \o text /\ Fits(e, rest)
      /\ Good(Now) /\ text \in Chars /\ wire \in Bytes
  BY <1>1, ChannelType DEF Linked
<1>3. PICK d : d = Now
  OBVIOUS
<1>4. d.tables.table = table /\ d.tables.newTable = newTable /\ d.prev = prevCode
  BY <1>3 DEF Now
<1>5. /\ d.tables \in TwoTables /\ WellMade(d.tables) /\ d.prev \in 0 .. MaxCode - 1 \cup {None}
  BY <1>2, <1>3 DEF Good
<1>6. table \in Seq(DecInfo) /\ newTable \in Seq(DecInfo)
      /\ prevCode \in 0 .. MaxCode - 1 \cup {None}
  BY <1>4, <1>5 DEF TwoTables
<1>7. Len(newTable) <= MaxCodeForOptimize - FirstCode
  <2>1. Size(newTable) <= MaxCodeForOptimize
    BY <1>4, <1>5 DEF WellMade
  <2>2. QED
    BY <2>1, <1>6, SizeIs, CodesAre
<1>8. transit \in Seq(Char \cup {Eof})
  <2>1. PICK r : r = ready
    OBVIOUS
  <2>2. r \in Seq(Char) /\ Char \subseteq Char \cup {Eof}
    BY <2>1 DEF IInv, Bounds
  <2>3. r \in Chars
    BY <2>2, SeqMonotonic DEF Chars
  <2>4. r \o text \in Chars
    BY <2>3, <1>2, ConcatProperties DEF Chars
  <2>5. QED
    BY <2>1, <2>4, <1>2 DEF Chars
<1>9. /\ DOMAIN seqdb \subseteq Pairs /\ \A p \in DOMAIN seqdb : seqdb[p] \in SeqInfo
      /\ DOMAIN newDb \subseteq Pairs /\ \A p \in DOMAIN newDb : newDb[p] \in SeqInfo
      /\ nextCode \in Nat /\ newNextCode \in FirstCode .. MaxCodeForOptimize
      /\ lastSeq \in 0 .. MaxCode - 1 \cup {None} /\ lastNewSeq \in 0 .. MaxCode \cup {None}
  <2>1. CASE lastSeq = None
    <3>1. DOMAIN NoPairs = {}
      BY DEF NoPairs
    <3>2. QED
      BY <2>1, <3>1, <1>2, CodesAre DEF Fits
  <2>2. CASE lastSeq # None
    <3>1. PICK last : last = lastSeq
      OBVIOUS
    <3>2. PICK E : E = After(e, last)
      OBVIOUS
    <3>3. PICK v \in TwoTables : v = E.tables /\ WellMade(v) /\ last \in 0 .. Size(v.table) - 1
      BY <2>2, <3>1, <3>2, <1>1, Ended DEF Good
    <3>4. Agrees(E)
      BY <2>2, <3>1, <3>2, <1>1, Ended
    <3>5. /\ Numbers(seqdb, nextCode, v.table) /\ Numbers(newDb, newNextCode, v.newTable)
          /\ lastNewSeq = Translated(v.table, last)
      BY <3>1, <3>3, <3>4 DEF Agrees
    <3>6. last \in 0 .. MaxCode - 1
      BY <2>2, <3>1, <1>2 DEF Fits
    <3>7. Size(v.newTable) <= MaxCodeForOptimize /\ Size(v.newTable) \in Nat
          /\ Size(v.newTable) >= FirstCode /\ Size(v.table) \in Nat
      BY <3>3, SizeIs DEF WellMade, TwoTables
    <3>8. Translated(v.table, last) \in 0 .. MaxCode
      <4>1. CASE last < FirstCode
        BY <4>1, <3>6, CodesAre DEF Translated
      <4>2. CASE ~(last < FirstCode)
        <5>1. last \in FirstCode .. Size(v.table) - 1
          BY <4>2, <3>3, CodesAre
        <5>2. PICK x \in DecInfo : x = Entry(v.table, last)
          BY <5>1, <3>3, EntryIs DEF TwoTables
        <5>3. x.newCode = 0 \/ x.newCode < Size(v.newTable)
          BY <5>1, <5>2, <3>3 DEF WellMade
        <5>4. x.newCode \in Nat
          BY <5>2 DEF DecInfo
        <5>5. x.newCode \in 0 .. MaxCode
          BY <5>3, <5>4, <3>7, CodesAre
        <5>6. QED
          BY <4>2, <5>2, <5>5 DEF Translated
      <4>3. QED
        BY <4>1, <4>2
    <3>9. /\ \A p \in DOMAIN seqdb : seqdb[p] \in SeqInfo
          /\ \A p \in DOMAIN newDb : newDb[p] \in SeqInfo
      BY <3>5 DEF Numbers, Names
    <3>10. newNextCode \in FirstCode .. MaxCodeForOptimize /\ nextCode \in Nat
      BY <3>5, <3>7, CodesAre DEF Numbers
    <3>11. QED
      BY <3>1, <3>5, <3>6, <3>8, <3>9, <3>10 DEF Numbers
  <2>3. QED
    BY <2>1, <2>2
<1>10. QED
  BY <1>2, <1>6, <1>7, <1>8, <1>9 DEF TypeOK, IInv, Bounds, Bytes

\* Decompress never meets a code that it does not know: every code on its way is
\* known at the other end when it gets there, and no table outgrows the codes.
THEOREM CodesAreKnown ==
  ASSUME ~Reuse
  PROVE  Spec => []CodesRight
<1>1. IInv => CodesRight
  <2> SUFFICES ASSUME IInv PROVE CodesRight
    OBVIOUS
  <2>1. ASSUME wire # <<>> PROVE Readable \/ Code >= OptimizeCode
    <3>1. PICK e, text, rest : Linked(e, text, rest)
      BY DEF IInv
    <3>2. PICK code, more, left :
            /\ CanRead(Now, code) /\ wire = Encode(code) \o more /\ more \in Bytes
      BY <2>1, <3>1, ChannelRead DEF Linked
    <3>3. Code = code
      BY <3>2, CodeAtHead DEF CanRead
    <3>4. /\ code >= OptimizeCode
          \/ code < Size(Now.tables.table) \/ (code = Size(Now.tables.table) /\ Now.prev # None)
      BY <3>2 DEF CanRead
    <3>5. Size(Now.tables.table) = NextEntry /\ Now.prev = prevCode
      BY DEF Now, NextEntry, Size
    <3>6. QED
      BY <3>3, <3>4, <3>5 DEF Readable
  <2>2. QED
    BY <2>1, TypeFollows DEF CodesRight, NeverCorrupted
<1>2. QED
  BY ChannelIsSound, <1>1, PTL

\* With nothing on its way the two ends have the same tables, except for the
\* entry and the marks of the sequence that the compressor is in the middle of.
LEMMA TablesFollow ==
  ASSUME IInv, wire = <<>>
  PROVE  TablesInStep
<1>1. PICK e, text, rest : Linked(e, text, rest)
  BY DEF IInv
<1>2. e = Now /\ Fits(e, rest) /\ Good(e)
  BY <1>1, ChannelType DEF Linked
<1>3. PICK d : d = Now
  OBVIOUS
<1>4. PICK t \in TwoTables : t = d.tables /\ WellMade(t) /\ t.table = table /\ t.newTable = newTable
  BY <1>2, <1>3 DEF Good, Now
<1>5. d.prev = prevCode /\ t.table \in Seq(DecInfo) /\ t.newTable \in Seq(DecInfo)
  BY <1>3, <1>4 DEF Now, TwoTables
<1>6. PICK m \in Nat : m = Size(t.table) /\ m >= FirstCode
  BY <1>5, SizeIs
<1>7. PICK k \in Nat : k = Size(t.newTable) /\ k >= FirstCode
  BY <1>5, SizeIs
<1>8. NextEntry = m /\ Len(newTable) + FirstCode = k
  BY <1>4, <1>6, <1>7 DEF NextEntry, Size
<1>9. CASE lastSeq = None
  <2>1. Now = Empty /\ seqdb = NoPairs /\ newDb = NoPairs /\ nextCode = FirstCode /\ newNextCode = FirstCode
    BY <1>2, <1>9 DEF Fits
  <2>2. prevCode = None /\ table = <<>> /\ newTable = <<>>
    BY <2>1 DEF Now, Empty
  <2>3. DOMAIN NoPairs = {}
    BY DEF NoPairs
  <2>4. m = FirstCode /\ k = FirstCode
    BY <2>2, <1>4, <1>6, <1>7, CodesAre DEF Size
  <2>5. QED
    BY <2>1, <2>2, <2>3, <2>4, <1>8 DEF TablesInStep, InStep, NextInStep
<1>10. CASE lastSeq # None
  <2>1. PICK last : last = lastSeq
    OBVIOUS
  <2>2. PICK E : E = After(d, last)
    OBVIOUS
  <2>3. Agrees(E) /\ CanRead(d, last) /\ last \in 0 .. MaxCode - 1
    BY <2>1, <2>2, <1>2, <1>3, <1>10 DEF Fits
  <2>4. last < OptimizeCode
    BY <2>3, CodesAre
  <2>5. PICK s : s = Learned(d, last)
    OBVIOUS
  <2>6. PICK v : v = E.tables
    OBVIOUS
  <2>7. Prepared(d, last) /\ MarksOff(s, v, last)
    BY <2>2, <2>3, <2>4, <2>5, <2>6, <1>2, <1>3, PreparedIs, AfterIsGood
  <2>8. /\ Size(s.table) = m + (IF prevCode = None THEN 0 ELSE 1)
        /\ s.newTable = t.newTable
        /\ \A q \in FirstCode .. m - 1 : Entry(s.table, q) = Entry(t.table, q)
    BY <2>5, <2>7, <1>4, <1>5, <1>6 DEF Prepared
  <2>9. /\ Size(v.table) = Size(s.table) /\ k <= Size(v.newTable)
        /\ \A q \in FirstCode .. Size(s.table) - 1 :
             /\ Entry(v.table, q).prevCode = Entry(s.table, q).prevCode
             /\ Entry(v.table, q).outchar = Entry(s.table, q).outchar
        /\ \A q \in FirstCode .. k - 1 : Entry(v.newTable, q) = Entry(t.newTable, q)
    BY <2>7, <2>8, <1>7 DEF MarksOff
  <2>10. Numbers(seqdb, nextCode, v.table) /\ Numbers(newDb, newNextCode, v.newTable)
    BY <2>3, <2>6 DEF Agrees
  <2>11. nextCode = Size(v.table) /\ newNextCode = Size(v.newTable)
    BY <2>10 DEF Numbers
  <2>12. (IF prevCode = None THEN nextCode ELSE nextCode - 1) = m
    BY <2>8, <2>9, <2>11, <1>6
  <2>13. ASSUME NEW p \in DOMAIN seqdb, seqdb[p].nextCode < m
         PROVE  /\ table[seqdb[p].nextCode - FirstCode + 1].prevCode = p[1]
                /\ table[seqdb[p].nextCode - FirstCode + 1].outchar = p[2]
    <3>1. PICK info : info = seqdb[p]
      OBVIOUS
    <3>2. Names(info, p, nextCode, v.table)
      BY <3>1, <2>10 DEF Numbers
    <3>3. PICK q : q = info.nextCode
      OBVIOUS
    <3>4. /\ q \in FirstCode .. nextCode - 1 /\ Entry(v.table, q).prevCode = p[1]
          /\ Entry(v.table, q).outchar = p[2]
      BY <3>2, <3>3 DEF Names
    <3>5. q < m
      BY <3>1, <3>3, <2>13
    <3>6. q \in FirstCode .. m - 1 /\ q \in FirstCode .. Size(s.table) - 1
      BY <3>4, <3>5, <2>9, <2>11, <1>6, CodesAre
    <3>7. Entry(t.table, q).prevCode = p[1] /\ Entry(t.table, q).outchar = p[2]
      BY <3>4, <3>6, <2>8, <2>9
    <3>8. QED
      BY <3>1, <3>3, <3>7, <1>4 DEF Entry
  <2>14. ASSUME NEW p \in DOMAIN newDb, newDb[p].nextCode - FirstCode + 1 <= Len(newTable)
         PROVE  /\ newTable[newDb[p].nextCode - FirstCode + 1].prevCode = p[1]
                /\ newTable[newDb[p].nextCode - FirstCode + 1].outchar = p[2]
    <3>1. PICK info : info = newDb[p]
      OBVIOUS
    <3>2. Names(info, p, newNextCode, v.newTable)
      BY <3>1, <2>10 DEF Numbers
    <3>3. PICK q : q = info.nextCode
      OBVIOUS
    <3>4. /\ q \in FirstCode .. newNextCode - 1 /\ Entry(v.newTable, q).prevCode = p[1]
          /\ Entry(v.newTable, q).outchar = p[2]
      BY <3>2, <3>3 DEF Names
    <3>5. q - FirstCode + 1 <= k - FirstCode
      BY <3>1, <3>3, <2>14, <1>8, <1>4, <1>5, SizeIs
    <3>6. q \in FirstCode .. k - 1
      BY <3>4, <3>5, <1>7, CodesAre
    <3>7. Entry(t.newTable, q).prevCode = p[1] /\ Entry(t.newTable, q).outchar = p[2]
      BY <3>4, <3>6, <2>9
    <3>8. QED
      BY <3>1, <3>3, <3>7, <1>4 DEF Entry
  <2>15. InStep
    BY <2>12, <2>13, <1>8 DEF InStep
  <2>16. NextInStep
    BY <2>9, <2>11, <2>14, <1>8 DEF NextInStep
  <2>17. QED
    BY <2>15, <2>16 DEF TablesInStep
<1>11. QED
  BY <1>9, <1>10

\* The tables at the two ends stay in step, by what the codes tell alone.
THEOREM TablesStayInStep ==
  ASSUME ~Reuse
  PROVE  Spec => []TablesInStep
<1>1. IInv => TablesInStep
  <2>1. wire # <<>> => TablesInStep
    BY DEF TablesInStep, InStep, NextInStep
  <2>2. QED
    BY <2>1, TablesFollow
<1>2. QED
  BY ChannelIsSound, <1>1, PTL

\* The text that comes out is the text that went in: Compress and Decompress
\* implement a channel that loses, duplicates and reorders nothing.
THEOREM TextArrives ==
  ASSUME ~Reuse
  PROVE  Spec => Implements
<1>1. Init => Text!IInit
  BY DEF Init, Text!IInit
<1>2. IInv /\ [Next]_vars => [Text!Read \/ \E item \in Char \cup {Eof} : Text!Write(item)]_(Text!ivars)
  <2> SUFFICES ASSUME IInv, [Next]_vars
               PROVE  [Text!Read \/ \E item \in Char \cup {Eof} : Text!Write(item)]_(Text!ivars)
    OBVIOUS
  <2>1. ASSUME NEW c \in Char, Begin(c) \/ EndSequence(c) \/ Extend(c) \/ Optimize(c)
        PROVE  Text!Write(c)
    BY <2>1 DEF Begin, EndSequence, Extend, Optimize, Accept, decompressVars, Text!Write
  <2>2. CASE Flush
    BY <2>2 DEF Flush, decompressVars, Text!Write
  <2>3. ASSUME Delivers PROVE Text!Read
    BY <2>3 DEF Delivers, Text!Read
  <2>4. CASE Pop
    BY <2>3, <2>4, PopKeeps
  <2>5. CASE ReadSequence
    BY <2>3, <2>5, ReadSequenceKeeps
  <2>6. CASE ReadOptimize
    BY <2>6 DEF ReadOptimize, Text!ivars
  <2>7. CASE ReadFlush
    BY <2>3, <2>7, ReadFlushKeeps
  <2>8. CASE UNCHANGED vars
    BY <2>8 DEF vars, decompressVars, Text!ivars
  <2>9. QED
    BY <2>1, <2>2, <2>4, <2>5, <2>6, <2>7, <2>8 DEF Next, Get
<1>3. QED
  BY ChannelIsSound, <1>1, <1>2, PTL DEF Spec, Implements, Text!LosslessSpec
=============================================================================
