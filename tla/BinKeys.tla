------------------------------- MODULE BinKeys -------------------------------
(***************************************************************************)
(* BinarySerializer and BinaryParser (src/src/imtjson/binjson.h,           *)
(* binjson.tcc) at the two ends of one connection.  Both keep a dictionary *)
(* of the keys of the documents that went by: the serializer maps a key to *)
(* the number it got when it was written in full (keyMap, nextKeyId), the  *)
(* parser keeps the last Window keys in a ring (keyHistory, keyIndex).  A  *)
(* key written among the last Window ones is sent as its distance only.    *)
(* Nothing on the wire says which key is meant: the two dictionaries have  *)
(* to move together, across documents, with the bytes between them still   *)
(* on their way.                                                           *)
(*                                                                         *)
(* Granularity.  A token stands for the bytes that write one key, one      *)
(* reference, one value without its items, or one padding byte.  A value   *)
(* is its number of items (0 for a scalar).  The wire loses nothing        *)
(* between two tokens, but either end may throw between any two, because   *)
(* the functions that write and read a byte belong to the application.     *)
(*                                                                         *)
(* The fields of and at of a token, and the variables log and got.of, are  *)
(* history: the parser reads of only in a token that carries a key in      *)
(* full.                                                                   *)
(*                                                                         *)
(* Op_Slip before Op is Op with one slip; see RpcClient.                   *)
(***************************************************************************)
EXTENDS Integers, Sequences, Selections

CONSTANTS
  Key,         \* non-empty keys
  NoKey,       \* an item without a key; also what String() is
  Window,      \* 128: how far back a reference reaches
  FirstId,     \* 256: the number of the first key
  Modulus,     \* 2^32: unsigned int
  MaxKeys,     \* bound: keys written in full to one dictionary
  MaxItems,    \* bound: items of a container
  MaxDepth,    \* bound: containers in each other
  MaxWire,     \* bound: tokens on their way
  UsesPadding  \* whether the writing side pads its documents

ASSUME BinKeysAssumption ==
  /\ NoKey \notin Key
  /\ Window \in Nat \ {0}
  /\ FirstId \in Nat /\ Window < FirstId
  /\ Modulus \in Nat /\ MaxKeys \in Nat /\ FirstId + MaxKeys < Modulus
  /\ MaxItems \in Nat /\ MaxDepth \in Nat /\ MaxWire \in Nat
  /\ UsesPadding \in BOOLEAN

VARIABLES
  compress,    \* the serializer has the flag compressKeys
  keyMap,      \* the number of each key; ZeroID is 0
  nextKeyId,
  todo,        \* items left to write in each open container, innermost last
  pending,     \* the key written for the item whose value comes next
  wire,        \* the tokens on their way
  keyHistory, keyIndex,
  left,        \* items left to read in each open container, innermost last
  name,        \* the key read for the item whose value comes next
  got,         \* the item read last: its name, its size, the name it was given
  broken,      \* an end threw, or the wire did
  log          \* the keys in the order the serializer numbered them

serializerVars == <<compress, keyMap, nextKeyId, todo, pending, log>>
parserVars == <<keyHistory, keyIndex, left, name, got>>
vars == <<serializerVars, parserVars, wire, broken>>

Names == Key \cup {NoKey}
Token == [kind : {"key", "ref", "value", "padding"}, of : Names,
          back : 0 .. Window - 1, size : 0 .. MaxItems, at : Nat]

TypeOK ==
  /\ compress \in BOOLEAN
  /\ keyMap \in [Key -> 0 .. Modulus - 1] /\ nextKeyId \in 0 .. Modulus - 1
  /\ todo \in Seq(0 .. MaxItems) /\ left \in Seq(0 .. MaxItems)
  /\ pending \in Names /\ name \in Names
  /\ wire \in Seq(Token)
  /\ keyHistory \in Seq(Key) /\ Len(keyHistory) <= Window
  /\ keyIndex \in 0 .. Modulus - 1
  /\ got \in [name : Names, size : 0 .. MaxItems, of : Names]
  /\ broken \in BOOLEAN
  /\ log \in Seq(Key)

Init ==
  /\ compress \in BOOLEAN
  /\ keyMap = [k \in Key |-> 0] /\ nextKeyId = FirstId /\ log = <<>>
  /\ todo = <<>> /\ pending = NoKey /\ wire = <<>>
  /\ keyHistory = <<>> /\ keyIndex = 0 /\ left = <<>> /\ name = NoKey
  /\ got = [name |-> NoKey, size |-> 0, of |-> NoKey]
  /\ broken = FALSE

-----------------------------------------------------------------------------
(* The serializer *)

Distance(k) == (nextKeyId - keyMap[k] - 1) % Modulus

InReach_Wide(k) == Distance(k) <= Window
InReach(k) == Distance(k) < Window

\* tryCompressKey: a key out of reach becomes the most recent one.  keyMap keeps
\* views of the keys and no copies, so the program has to keep a document, and
\* preloaded keys, until clearKeys; a key here is a text that never goes away.
Register_Refresh(k) ==
  /\ keyMap' = [keyMap EXCEPT ![k] = nextKeyId]
  /\ nextKeyId' = (nextKeyId + 1) % Modulus
  /\ log' = Append(log, k)
Register(k) ==
  IF InReach(k) THEN UNCHANGED <<keyMap, nextKeyId, log>>
  ELSE /\ nextKeyId - FirstId < MaxKeys
       /\ keyMap' = [keyMap EXCEPT ![k] = nextKeyId]
       /\ nextKeyId' = (nextKeyId + 1) % Modulus
       /\ log' = Append(log, k)

Put(kind, of, back, size) ==
  /\ Len(wire) < MaxWire
  /\ wire' = Append(wire, [kind |-> kind, of |-> of, back |-> back,
                           size |-> size, at |-> Len(log)])

\* An item is due: the next one of the innermost container, or a document.
Expected(stack) == stack # <<>> => stack[Len(stack)] > 0
Due == ~broken /\ Expected(todo)

\* The key of an item: a reference if it is in reach, else in full.
SerializeKey(k) ==
  /\ Due /\ pending = NoKey
  /\ IF compress THEN Register(k) ELSE UNCHANGED <<keyMap, nextKeyId, log>>
  /\ IF compress /\ InReach(k) THEN Put("ref", k, Distance(k), 0) ELSE Put("key", k, 0, 0)
  /\ pending' = k
  /\ UNCHANGED <<compress, todo, parserVars, broken>>

\* What is left in each container once the value due is begun, a scalar or
\* the header of a container of n items.
Entered(stack, n) ==
  LET rest == IF stack = <<>> THEN <<0>> ELSE [stack EXCEPT ![Len(stack)] = @ - 1]
  IN IF n = 0 THEN rest ELSE Append(rest, n)

SerializeValue(n) ==
  /\ Due /\ (n > 0 => Len(todo) <= MaxDepth)
  /\ Put("value", pending, 0, n)
  /\ todo' = Entered(todo, n) /\ pending' = NoKey
  /\ UNCHANGED <<compress, keyMap, nextKeyId, log, parserVars, broken>>

\* serializeContainer, or the outermost serialize, returns.
SerializeReturns ==
  /\ ~broken /\ todo # <<>> /\ todo[Len(todo)] = 0
  /\ todo' = SubSeq(todo, 1, Len(todo) - 1)
  /\ UNCHANGED <<compress, keyMap, nextKeyId, pending, log, parserVars, wire, broken>>

\* A writer that aligns its documents puts padding between two of them.
Pad ==
  /\ UsesPadding /\ ~broken /\ todo = <<>> /\ pending = NoKey
  /\ Put("padding", NoKey, 0, 0)
  /\ UNCHANGED <<serializerVars, parserVars, broken>>

\* The application's function throws out of serialize: the key is numbered,
\* and never gets on the wire.
SerializeThrows(k) ==
  /\ Due /\ pending = NoKey /\ compress
  /\ Register(k)
  /\ broken' = TRUE /\ todo' = <<>>
  /\ UNCHANGED <<compress, pending, parserVars, wire>>

-----------------------------------------------------------------------------
(* The parser *)

Slot(i) == (i % Window) + 1

Stored_Grow(s) == Append(keyHistory, s)
Stored(s) ==
  IF Len(keyHistory) = keyIndex % Window THEN Append(keyHistory, s)
  ELSE [keyHistory EXCEPT ![Slot(keyIndex)] = s]

StoreKey(s) == keyHistory' = Stored(s) /\ keyIndex' = (keyIndex + 1) % Modulus

Recall_Late(back) ==
  LET slot == Slot(keyIndex - back)
  IN IF slot > Len(keyHistory) THEN NoKey ELSE keyHistory[slot]
Recall(back) ==
  LET slot == Slot(keyIndex - 1 - back)
  IN IF slot > Len(keyHistory) THEN NoKey ELSE keyHistory[slot]

\* The next token, of this kind, is read.
Take(kind) == wire # <<>> /\ wire[1].kind = kind /\ wire' = Tail(wire)

\* parseItem reads a key in full: it is stored before the value is parsed.
ParseKey ==
  /\ Take("key")
  /\ StoreKey(wire[1].of) /\ name' = wire[1].of
  /\ UNCHANGED <<serializerVars, left, got, broken>>

\* parseItem reads a reference: the history stays as it is.
ParseReference ==
  /\ Take("ref")
  /\ name' = Recall(wire[1].back)
  /\ UNCHANGED <<serializerVars, keyHistory, keyIndex, left, got, broken>>

\* parseItem reads the value of the item due; the application calls parse
\* again whenever a document is complete.
ParseValue ==
  /\ Expected(left) /\ Take("value")
  /\ left' = Entered(left, wire[1].size)
  /\ got' = [name |-> name, size |-> wire[1].size, of |-> wire[1].of]
  /\ name' = NoKey
  /\ UNCHANGED <<serializerVars, keyHistory, keyIndex, broken>>

\* parseArray, parseObject or parse returns.
ParseReturns ==
  /\ left # <<>> /\ left[Len(left)] = 0
  /\ left' = SubSeq(left, 1, Len(left) - 1)
  /\ UNCHANGED <<serializerVars, keyHistory, keyIndex, name, got, wire, broken>>

\* parseItem has no case for the byte 0.
ParseUnknown ==
  /\ wire # <<>> /\ wire[1].kind = "padding" /\ wire' = <<>>
  /\ broken' = TRUE /\ left' = <<>> /\ name' = NoKey
  /\ UNCHANGED <<serializerVars, keyHistory, keyIndex, got>>

\* The application's function throws out of parse: what the parser had read
\* of the document is gone, the history is not.
ParseThrows ==
  /\ ~broken /\ broken' = TRUE /\ wire' = <<>> /\ left' = <<>> /\ name' = NoKey
  /\ UNCHANGED <<serializerVars, keyHistory, keyIndex, got>>

-----------------------------------------------------------------------------
(* Both ends.  The comments of preloadKey ask the application to give the  *)
(* same keys to both ends, in the same order and none twice; without       *)
(* compressKeys there is nothing to preload.  The application clears the   *)
(* dictionaries of both ends together, between documents, and before it    *)
(* uses them again after an exception.                                     *)

Quiet == todo = <<>> /\ pending = NoKey /\ wire = <<>> /\ left = <<>>

PreloadKey(k) ==
  /\ compress /\ ~broken /\ Quiet /\ keyMap[k] = 0
  /\ Register(k) /\ StoreKey(k)
  /\ UNCHANGED <<compress, todo, pending, left, name, got, wire, broken>>

ClearKeys ==
  /\ broken \/ Quiet
  /\ keyMap' = [k \in Key |-> 0] /\ nextKeyId' = FirstId /\ log' = <<>>
  /\ todo' = <<>> /\ pending' = NoKey /\ wire' = <<>>
  /\ keyHistory' = <<>> /\ keyIndex' = 0 /\ left' = <<>> /\ name' = NoKey
  /\ broken' = FALSE
  /\ UNCHANGED <<compress, got>>

Next ==
  \/ SerializeReturns \/ Pad
  \/ \E k \in Key : SerializeKey(k) \/ SerializeThrows(k) \/ PreloadKey(k)
  \/ \E n \in 0 .. MaxItems : SerializeValue(n)
  \/ ParseKey \/ ParseReference \/ ParseValue \/ ParseReturns \/ ParseUnknown \/ ParseThrows
  \/ ClearKeys

Spec == Init /\ [][Next]_vars

-----------------------------------------------------------------------------
(* Properties *)

\* The parser gives an item the key the serializer had written for it,
\* however many keys went by between the two (tryCompressKey against
\* storeKey and the reference case of parseItem).
NamesAgree == got.name = got.of

\* The containers that are not finished, innermost last.
Open(stack) == Selected(stack, {i \in 1 .. Len(stack) : stack[i] > 0})

\* When nothing is on its way, the parser is where the serializer is: in the
\* same containers with the same number of items to come, with the same key
\* read, and with as many keys stored as were numbered.
CaughtUp ==
  wire = <<>> /\ ~broken =>
    /\ Open(left) = Open(todo) /\ name = pending
    /\ (compress => keyIndex = nextKeyId - FirstId)

\* The items on their way.
Items ==
  LET values == Selected(wire, {i \in 1 .. Len(wire) : wire[i].kind = "value"})
  IN [i \in 1 .. Len(values) |-> [name |-> values[i].of, size |-> values[i].size]]

\* The document read is the document written: the items arrive in order,
\* each with its name and its size.
Transfer == INSTANCE ItemStream WITH
  Item <- [name : Names, size : 0 .. MaxItems],
  transit <- Items,
  got <- [name |-> got.name, size |-> got.size]
Implements == Transfer!ISpec
=============================================================================
