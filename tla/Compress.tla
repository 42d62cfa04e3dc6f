------------------------------- MODULE Compress -------------------------------
(***************************************************************************)
(* Compress and Decompress (src/src/imtjson/compress.h, compress.tcc) at   *)
(* the two ends of one channel: LZW with a second table.  Both ends number *)
(* the sequences they see; each also builds, from the sequences really     *)
(* used, the table that replaces the full one at an optimize code.  Only   *)
(* codes are sent: the tables have to stay in step by themselves, with the *)
(* decompressor one entry behind (it learns the end of a sequence from the *)
(* beginning of the next) and with any number of codes on their way.       *)
(*                                                                         *)
(* Granularity.  One action is one call of Compress::compress, with all    *)
(* it writes, one call of Decompress::decompress up to the code or the     *)
(* character it takes, or the end of a Compress object.  A character is    *)
(* its code, below FirstCode: the mapping of text to these codes           *)
(* (operator() of both classes) is not part of this module.                *)
(*                                                                         *)
(* The variables closed, chars and transit are history.  Op_Slip before Op *)
(* is Op with one slip; see RpcClient.                                     *)
(***************************************************************************)
EXTENDS Integers, Sequences, SequencesExt

CONSTANTS
  FirstCode,   \* 102: characters are the codes below
  Ext,         \* 128, extCodeMask: bytes from here on are the first of two
  Base,        \* 256: values of a byte
  Reserve,     \* 16: maxCode - maxCodeForOptimize
  MaxChars,    \* bound: characters compressed
  MaxStreams,  \* bound: Compress objects, one after the other on the channel
  MaxWire,     \* bound: bytes on their way when the compressor goes on
  Reuse        \* whether one Decompress object reads them all

VARIABLES
  closed, chars,               \* Compress objects destroyed, characters compressed
  seqdb, nextCode,             \* Compress: the table, its next code
  lastSeq, lastNewSeq,         \* the sequence so far, in this table and the next
  newDb, newNextCode,          \* Compress::Optimizer
  wire,                        \* bytes on their way
  table,                       \* Decompress::seqdb
  newTable,                    \* Decompress::Optimizer::newDb
  prevCode, firstChar, ready,
  transit, got                 \* accepted and not delivered yet; delivered last

compressVars == <<closed, chars, seqdb, nextCode, lastSeq, lastNewSeq, newDb, newNextCode>>
decompressVars == <<table, newTable, prevCode, firstChar, ready, got>>
vars == <<compressVars, wire, decompressVars, transit>>

Char == 0 .. FirstCode - 1
Eof  == -1
None == -1    \* initialChainCode

\* maxCodeToEncode: every bit below the mask, in the first byte and the second.
FlushCode    == (Base - 1 - Ext) * Base + Base - 1 + Ext
OptimizeCode == FlushCode - 1
MaxCode      == FlushCode - 2
MaxCodeForOptimize == MaxCode - Reserve

ASSUME CompressAssumption ==
  /\ FirstCode \in Nat \ {0} /\ Ext \in Nat /\ Base \in Nat
  /\ Ext < Base
  /\ Reserve \in Nat /\ FirstCode < MaxCodeForOptimize
  /\ MaxChars \in Nat /\ MaxStreams \in Nat \ {0} /\ MaxWire \in Nat
  /\ Reuse \in BOOLEAN

Pairs == Nat \X Char
SeqInfo == [nextCode : Nat, newCode : Nat, used : BOOLEAN]
DecInfo == [prevCode : Nat, newCode : Nat, outchar : Char, used : BOOLEAN]

TypeOK ==
  /\ closed \in 0 .. MaxStreams /\ chars \in 0 .. MaxChars
  /\ DOMAIN seqdb \subseteq Pairs /\ \A p \in DOMAIN seqdb : seqdb[p] \in SeqInfo
  /\ DOMAIN newDb \subseteq Pairs /\ \A p \in DOMAIN newDb : newDb[p] \in SeqInfo
  /\ nextCode \in Nat /\ newNextCode \in FirstCode .. MaxCodeForOptimize
  /\ lastSeq \in 0 .. MaxCode - 1 \cup {None} /\ lastNewSeq \in 0 .. MaxCode \cup {None}
  /\ wire \in Seq(0 .. Base - 1)
  /\ table \in Seq(DecInfo) /\ newTable \in Seq(DecInfo)
  /\ Len(newTable) <= MaxCodeForOptimize - FirstCode
  /\ prevCode \in 0 .. MaxCode - 1 \cup {None} /\ firstChar \in Char
  /\ ready \in Seq(Char)
  /\ transit \in Seq(Char \cup {Eof}) /\ got \in Char \cup {Eof}

\* An entry without a code in the next table; the code's field is not
\* initialized then, and the number 0 stands for what it holds.
Fresh(code) == [nextCode |-> code, newCode |-> 0, used |-> FALSE]

NoPairs == [p \in {} |-> Fresh(0)]

\* seqdb.insert: a pair that is there keeps its value.
Insert(db, p, info) ==
  IF p \in DOMAIN db THEN db
  ELSE [q \in DOMAIN db \cup {p} |-> IF q = p THEN info ELSE db[q]]

\* A new Compress, a new Decompress.
Init ==
  /\ closed = 0 /\ chars = 0
  /\ seqdb = NoPairs /\ nextCode = FirstCode /\ lastSeq = None /\ lastNewSeq = None
  /\ newDb = NoPairs /\ newNextCode = FirstCode
  /\ wire = <<>>
  /\ table = <<>> /\ newTable = <<>> /\ prevCode = None /\ firstChar = 0 /\ ready = <<>>
  /\ transit = <<>> /\ got = Eof

-----------------------------------------------------------------------------
(* Codes as bytes *)

Encode(code) ==
  IF code < Ext THEN <<code>>
  ELSE <<Ext + (code - Ext) \div Base, (code - Ext) % Base>>

Width(bytes) == IF bytes[1] < Ext THEN 1 ELSE 2
Decode(bytes) ==
  IF bytes[1] < Ext THEN bytes[1] ELSE (bytes[1] - Ext) * Base + bytes[2] + Ext

-----------------------------------------------------------------------------
(* The compressor *)

Room == closed < MaxStreams /\ chars < MaxChars /\ Len(wire) <= MaxWire
Pair(c) == <<lastSeq, c>>
Known(c) == lastSeq # None /\ Pair(c) \in DOMAIN seqdb

Accept(c) == Room /\ chars' = chars + 1 /\ transit' = Append(transit, c)

\* The first character of a stream.
Begin(c) ==
  /\ Accept(c) /\ lastSeq = None
  /\ lastSeq' = c /\ lastNewSeq' = c
  /\ UNCHANGED <<closed, seqdb, nextCode, newDb, newNextCode, wire, decompressVars>>

\* The sequence ends before c: it is written, and with c it gets a code.
EndSequence(c) ==
  /\ Accept(c) /\ lastSeq # None /\ ~Known(c)
  /\ wire' = wire \o Encode(lastSeq)
  /\ seqdb' = Insert(seqdb, Pair(c), Fresh(nextCode)) /\ nextCode' = nextCode + 1
  /\ lastSeq' = c /\ lastNewSeq' = c
  /\ UNCHANGED <<closed, newDb, newNextCode, decompressVars>>

\* Whether a used pair gets a code in the next table.
HasRoom(code) == code < MaxCodeForOptimize

\* The sequence goes on with c; a pair used for the first time is taken over
\* to the next table, while that has room.
Extend(c) ==
  /\ Accept(c) /\ Known(c) /\ seqdb[Pair(c)].nextCode < MaxCode
  /\ LET info  == seqdb[Pair(c)]
         adds  == ~info.used /\ HasRoom(newNextCode)
         info2 == IF adds THEN [info EXCEPT !.newCode = newNextCode, !.used = TRUE] ELSE info
     IN /\ seqdb' = [seqdb EXCEPT ![Pair(c)] = info2]
        /\ IF adds
           THEN /\ newDb' = Insert(newDb, <<lastNewSeq, c>>, Fresh(newNextCode))
                /\ newNextCode' = newNextCode + 1
           ELSE UNCHANGED <<newDb, newNextCode>>
        /\ lastSeq' = info.nextCode /\ lastNewSeq' = info2.newCode
  /\ UNCHANGED <<closed, nextCode, wire, decompressVars>>

\* The sequence could go on, but under a code that cannot be written: the
\* next table takes over.
Optimize(c) ==
  /\ Accept(c) /\ Known(c) /\ seqdb[Pair(c)].nextCode >= MaxCode
  /\ wire' = wire \o Encode(lastSeq) \o Encode(OptimizeCode)
  /\ seqdb' = newDb /\ nextCode' = newNextCode
  /\ newDb' = NoPairs /\ newNextCode' = FirstCode
  /\ lastSeq' = c /\ lastNewSeq' = c
  /\ UNCHANGED <<closed, decompressVars>>

\* What the destructor writes.
Ending_CodeOnly == Encode(FlushCode)
Ending == Encode(lastSeq) \o Encode(FlushCode)

\* The Compress object is destroyed.  (One that compressed nothing writes
\* nothing.)  The program may go on with another one.
Flush ==
  /\ lastSeq # None /\ wire' = wire \o Ending
  /\ transit' = Append(transit, Eof)
  /\ lastSeq' = None /\ lastNewSeq' = None /\ closed' = closed + 1
  /\ seqdb' = NoPairs /\ nextCode' = FirstCode
  /\ newDb' = NoPairs /\ newNextCode' = FirstCode
  /\ UNCHANGED <<chars, decompressVars>>

-----------------------------------------------------------------------------
(* The decompressor *)

\* The code of the entry the table gets next.
NextEntry_Short == Len(table) + FirstCode - 1
NextEntry == Len(table) + FirstCode

\* A sequence is the one its entry continues, with one character more.
Entry(tab, q) == tab[q - FirstCode + 1]

\* The characters of the sequence with code p.
Spelled(tab, p) ==
  LET text[q \in 0 .. Len(tab) + FirstCode - 1] ==
        IF q < FirstCode THEN <<q>>
        ELSE Append(text[Entry(tab, q).prevCode], Entry(tab, q).outchar)
  IN text[p]

\* Optimizer::addCode: the entry gets a code in the next table, while there is
\* room.  s has the two tables.
Translated_Not(tab, p) == p
Translated(tab, p) == IF p < FirstCode THEN p ELSE Entry(tab, p).newCode
AddCode(s, q) ==
  LET info == Entry(s.table, q)
      code == Len(s.newTable) + FirstCode
  IN IF ~HasRoom(code) THEN s
     ELSE [table |-> [s.table EXCEPT ![q - FirstCode + 1] =
                        [@ EXCEPT !.newCode = code, !.used = TRUE]],
           newTable |-> Append(s.newTable,
                               [prevCode |-> Translated(s.table, info.prevCode), newCode |-> 0,
                                outchar |-> info.outchar, used |-> FALSE])]

\* translatePrevCode: of the entries along a sequence those not used before get
\* codes, shorter ones first.  (Where the walk along the sequence comes to an
\* entry that got none, there was no room, and there is none now.)
MarkUsed(s, p) ==
  LET marked[q \in 0 .. Len(s.table) + FirstCode - 1] ==
        IF q < FirstCode \/ Entry(s.table, q).used THEN s
        ELSE AddCode(marked[Entry(s.table, q).prevCode], q)
  IN marked[p]

\* The characters after the first; they are pushed from the last to the second,
\* and popped from the second to the last.
Outchars_Queued(text) == Reverse(Tail(text))
Outchars(text) == Tail(text)

Deliver(c) == got' = c /\ transit' = IF transit = <<>> THEN transit ELSE Tail(transit)

\* A character of the sequence read last.
Pop ==
  /\ ready # <<>>
  /\ Deliver(Head(ready)) /\ ready' = Tail(ready)
  /\ UNCHANGED <<compressVars, wire, table, newTable, prevCode, firstChar>>

Code == Decode(wire)
Reading == ready = <<>> /\ wire # <<>>
Consume == wire' = SubSeq(wire, Width(wire) + 1, Len(wire))

\* The next code stands for a sequence the table has, or for the one that is
\* about to enter it.
Readable == Code < NextEntry \/ (Code = NextEntry /\ prevCode # None)

\* What the table learns: the previous sequence and the first character of this.
Learn(s, prev, c) ==
  IF prev = None THEN s
  ELSE [s EXCEPT !.table =
          Append(@, [prevCode |-> prev, newCode |-> 0, outchar |-> c, used |-> FALSE])]

ReadSequence ==
  /\ Reading /\ Code < OptimizeCode /\ Readable /\ Consume
  /\ LET special == Code = NextEntry
         known == IF special THEN prevCode ELSE Code
         text  == Spelled(table, known)
         s     == MarkUsed([table |-> table, newTable |-> newTable], known)
         grown == Learn(s, prevCode, text[1])
         final == IF special THEN MarkUsed(grown, Code) ELSE grown
     IN /\ table' = final.table /\ newTable' = final.newTable
        /\ ready' = IF special THEN Append(Outchars(text), firstChar) ELSE Outchars(text)
        /\ firstChar' = text[1]
        /\ Deliver(text[1])
  /\ prevCode' = Code
  /\ UNCHANGED compressVars

ReadOptimize ==
  /\ Reading /\ Code = OptimizeCode /\ Consume
  /\ table' = newTable /\ newTable' = <<>> /\ prevCode' = None
  /\ UNCHANGED <<compressVars, firstChar, ready, transit, got>>

\* Decompress::reset; a program that reads the next stream with another
\* Decompress object has a new optimizer, too.
ReadFlush ==
  /\ Reading /\ Code = FlushCode /\ Consume
  /\ table' = <<>> /\ prevCode' = None
  /\ newTable' = IF Reuse THEN newTable ELSE <<>>
  /\ Deliver(Eof)
  /\ UNCHANGED <<compressVars, firstChar, ready>>

Get == Pop \/ ReadSequence \/ ReadOptimize \/ ReadFlush

Next ==
  \/ \E c \in Char : Begin(c) \/ EndSequence(c) \/ Extend(c) \/ Optimize(c)
  \/ Flush
  \/ Get

Spec == Init /\ [][Next]_vars

\* The reader goes on reading.
FairSpec == Spec /\ WF_vars(Get)

-----------------------------------------------------------------------------
(* Properties *)

\* Decompress::decompress never meets a code it does not know, where it throws
\* "Corrupted compressed stream" or follows a sequence that is not there.
NeverCorrupted == wire # <<>> => Readable \/ Code >= OptimizeCode

\* Every code on its way has a meaning at the other end, within the size that
\* both ends keep their tables to.
CodesRight == TypeOK /\ NeverCorrupted

\* With nothing on its way the two tables hold the same sequences under the
\* same codes, the decompressor's without the one it has still to learn ...
InStep ==
  wire = <<>> =>
    LET learned == IF prevCode = None THEN nextCode ELSE nextCode - 1
    IN /\ NextEntry = learned
       /\ \A p \in DOMAIN seqdb :
            LET info == seqdb[p] IN
            info.nextCode < learned =>
              table[info.nextCode - FirstCode + 1].prevCode = p[1]
              /\ table[info.nextCode - FirstCode + 1].outchar = p[2]

\* ... and the next tables agree as far as the decompressor's goes: the
\* compressor has marked the sequence it is in the middle of, besides.
NextInStep ==
  wire = <<>> =>
    /\ Len(newTable) + FirstCode <= newNextCode
    /\ \A p \in DOMAIN newDb :
         LET i == newDb[p].nextCode - FirstCode + 1 IN
         i <= Len(newTable) => newTable[i].prevCode = p[1] /\ newTable[i].outchar = p[2]

\* Both pairs of tables: what the one end learns and replaces, the other does
\* at the same code.
TablesInStep == InStep /\ NextInStep

\* The text that comes out is the text that went in, in order, with the end of
\* each stream in its place.
Text == INSTANCE ItemStream WITH Item <- Char \cup {Eof}
Implements == Text!LosslessSpec

\* Everything compressed before the end of a stream comes out.
Drained == closed = MaxStreams ~> (transit = <<>>)
=============================================================================
