---------------------------- MODULE BinKeysProofs ----------------------------
(***************************************************************************)
(* Theorems about BinKeys, for any set of keys, any window and any bounds  *)
(* that leave the numbers of the keys below the modulus.                   *)
(*                                                                         *)
(* NamesAgree speaks of the item the parser has just read; what makes it   *)
(* hold is what every token on the wire says about the keys numbered when  *)
(* it was written, that the tokens follow on one another from the parser   *)
(* to the serializer, and that the ring holds the last Window keys.  BInv  *)
(* states that.  CaughtUp speaks of an empty wire only; InStep says of any *)
(* wire that its values lead the parser from the containers it is in to    *)
(* those the serializer is in.                                             *)
(***************************************************************************)
EXTENDS BinKeys, SetInduction, TLAPS

USE BinKeysAssumption

-----------------------------------------------------------------------------
(* The inductive invariant *)

\* Every key that has a number is the one that got it.
Numbered ==
  /\ Len(log) = nextKeyId - FirstId /\ Len(log) <= MaxKeys
  /\ \A k \in Key : keyMap[k] # 0 =>
       keyMap[k] \in FirstId .. nextKeyId - 1 /\ log[keyMap[k] - FirstId + 1] = k

\* The ring holds the last Window keys the parser stored, each in the slot
\* of its number.
Remembered ==
  compress =>
    /\ keyIndex <= Len(log)
    /\ Len(keyHistory) = IF keyIndex < Window THEN keyIndex ELSE Window
    /\ \A p \in 0 .. keyIndex - 1 :
         p >= keyIndex - Window => keyHistory[Slot(p)] = log[p + 1]

\* What a token says, it said of the keys numbered when it was written.
Truthful(token) ==
  /\ token.kind = "key" => token.of \in Key
  /\ token.kind = "ref" => compress
  /\ compress =>
       /\ token.kind = "key" => token.at < Len(log) /\ log[token.at + 1] = token.of
       /\ token.kind = "ref" => token.back < token.at /\ token.at <= Len(log)
                                /\ log[token.at - token.back] = token.of

TruthfulWire == \A i \in 1 .. Len(wire) : Truthful(wire[i])

\* The name that is due before and after a token, and the keys numbered.
NameBefore(token) == IF token.kind \in {"key", "ref"} THEN NoKey ELSE token.of
NameAfter(token) == IF token.kind \in {"key", "ref"} THEN token.of ELSE NoKey
KeysAfter(token) == IF token.kind = "key" THEN token.at + 1 ELSE token.at

\* Each token follows on the one before it, the first on the parser, and the
\* serializer on the last, unless an end threw.
Joined ==
  /\ \A i \in 1 .. Len(wire) - 1 : NameBefore(wire[i + 1]) = NameAfter(wire[i])
  /\ compress => \A i \in 1 .. Len(wire) - 1 : wire[i + 1].at = KeysAfter(wire[i])
Reading ==
  wire # <<>> => /\ name = NameBefore(wire[1])
                 /\ compress => keyIndex = wire[1].at
Writing ==
  wire # <<>> /\ ~broken => /\ pending = NameAfter(wire[Len(wire)])
                            /\ compress => Len(log) = KeysAfter(wire[Len(wire)])
Idle ==
  wire = <<>> /\ ~broken => name = pending /\ (compress => keyIndex = Len(log))

WireInv == TruthfulWire /\ Joined /\ Reading /\ Writing /\ Idle

BInv == TypeOK /\ NamesAgree /\ Numbered /\ Remembered /\ WireInv

-----------------------------------------------------------------------------
(* Remainders *)

LEMMA Remainder ==
  ASSUME NEW w \in Nat \ {0}, NEW a \in Int
  PROVE  a % w \in 0 .. w - 1 /\ (a \in 0 .. w - 1 => a % w = a)
OBVIOUS

LEMMA SmallUnchanged ==
  \A a \in 0 .. Modulus - 1 : a % Modulus = a
BY Remainder

LEMMA Division ==
  ASSUME NEW w \in Nat \ {0}, NEW a \in Int
  PROVE  \E q \in Int : a = w * q + (a % w)
<1>1. a \div w \in Int /\ a = w * (a \div w) + (a % w)
  OBVIOUS
<1>2. QED
  BY <1>1

\* Numbers less than w apart have different slots in a ring of w.
LEMMA DifferentSlots ==
  ASSUME NEW w \in Nat \ {0}, NEW i \in Int, NEW j \in Int, i < j, j < i + w
  PROVE  i % w # j % w
<1> SUFFICES ASSUME i % w = j % w PROVE FALSE
  OBVIOUS
<1>1. PICK p \in Int : i = w * p + (i % w)
  BY Division
<1>2. PICK q \in Int : j = w * q + (j % w)
  BY Division
<1>3. j - i = w * q - w * p
  BY <1>1, <1>2
<1>4. CASE q <= p
  <2>1. w * q <= w * p
    BY <1>4
  <2>2. QED
    BY <2>1, <1>3
<1>5. CASE q >= p + 1
  <2>1. w * q >= w * (p + 1) /\ w * (p + 1) = w * p + w
    BY <1>5
  <2>2. QED
    BY <2>1, <1>3
<1>6. QED
  BY <1>4, <1>5

LEMMA InWindow ==
  \A a \in Int : a % Window \in 0 .. Window - 1 /\ (a \in 0 .. Window - 1 => a % Window = a)
BY Remainder

LEMMA SlotsInWindow ==
  \A i, j \in Int : j < i /\ i < j + Window => j % Window # i % Window
BY DifferentSlots

-----------------------------------------------------------------------------
(* The dictionary of the serializer *)

\* The keys numbered so far stay numbered.
Grows ==
  /\ log' \in Seq(Key) /\ Len(log) <= Len(log')
  /\ \A i \in 1 .. Len(log) : log'[i] = log[i]

LEMMA NoGrowth ==
  ASSUME TypeOK, log' = log
  PROVE  Grows
BY DEF TypeOK, Grows

\* A key without a number is out of reach; that of another is its age.
LEMMA DistanceIsAge ==
  ASSUME TypeOK, Numbered, NEW k \in Key
  PROVE  /\ keyMap[k] = 0 => ~InReach(k)
         /\ keyMap[k] # 0 => Distance(k) = nextKeyId - keyMap[k] - 1
<1>1. nextKeyId \in FirstId .. FirstId + MaxKeys /\ keyMap[k] \in 0 .. Modulus - 1
  BY DEF TypeOK, Numbered
<1>2. keyMap[k] = 0 \/ keyMap[k] \in FirstId .. nextKeyId - 1
  BY DEF Numbered
<1>3. nextKeyId - keyMap[k] - 1 \in 0 .. Modulus - 1
  BY <1>1, <1>2
<1>4. Distance(k) = nextKeyId - keyMap[k] - 1
  BY <1>3, SmallUnchanged DEF Distance
<1>5. QED
  BY <1>1, <1>4 DEF InReach

\* A key in reach is the one its distance leads to.
LEMMA ReachedKey ==
  ASSUME TypeOK, Numbered, NEW k \in Key, InReach(k)
  PROVE  /\ Distance(k) \in 0 .. Window - 1
         /\ Distance(k) < Len(log) /\ log[Len(log) - Distance(k)] = k
<1>1. keyMap[k] # 0 /\ Distance(k) = nextKeyId - keyMap[k] - 1
  BY DistanceIsAge
<1>2. keyMap[k] \in FirstId .. nextKeyId - 1 /\ log[keyMap[k] - FirstId + 1] = k
  BY <1>1 DEF Numbered
<1>3. nextKeyId \in Nat /\ Len(log) = nextKeyId - FirstId
  BY DEF TypeOK, Numbered
<1>4. keyMap[k] - FirstId + 1 = Len(log) - Distance(k)
  BY <1>1, <1>2, <1>3
<1>5. Distance(k) < Window
  BY DEF InReach
<1>6. Distance(k) \in Nat /\ Distance(k) < Len(log)
  BY <1>1, <1>2, <1>3
<1>7. Distance(k) \in 0 .. Window - 1
  BY <1>5, <1>6
<1>8. QED
  BY <1>2, <1>4, <1>6, <1>7

LEMMA RegisterEffect ==
  ASSUME TypeOK, Numbered, NEW k \in Key, Register(k)
  PROVE  /\ keyMap' \in [Key -> 0 .. Modulus - 1] /\ nextKeyId' \in 0 .. Modulus - 1
         /\ Grows /\ Numbered'
         /\ InReach(k) => log' = log
         /\ ~InReach(k) => log' = Append(log, k)
<1>1. CASE InReach(k)
  BY <1>1, NoGrowth DEF Register, TypeOK, Numbered
<1>2. CASE ~InReach(k)
  <2>1. /\ nextKeyId - FirstId < MaxKeys
        /\ keyMap' = [keyMap EXCEPT ![k] = nextKeyId]
        /\ nextKeyId' = (nextKeyId + 1) % Modulus
        /\ log' = Append(log, k)
    BY <1>2 DEF Register
  <2>2. nextKeyId \in FirstId .. FirstId + MaxKeys - 1 /\ Len(log) = nextKeyId - FirstId
    BY <2>1 DEF TypeOK, Numbered
  <2>3. nextKeyId' = nextKeyId + 1 /\ nextKeyId' \in 0 .. Modulus - 1
    <3>1. nextKeyId + 1 \in 0 .. Modulus - 1
      BY <2>2
    <3>2. (nextKeyId + 1) % Modulus = nextKeyId + 1
      BY <3>1, SmallUnchanged
    <3>3. QED
      BY <2>1, <3>1, <3>2
  <2>4. log \in Seq(Key) /\ log' \in Seq(Key) /\ Len(log') = Len(log) + 1
        /\ log'[Len(log) + 1] = k /\ \A i \in 1 .. Len(log) : log'[i] = log[i]
    BY <2>1 DEF TypeOK
  <2>5. Grows
    BY <2>4 DEF Grows
  <2>6. keyMap' \in [Key -> 0 .. Modulus - 1]
    BY <2>1 DEF TypeOK
  <2>7. ASSUME NEW j \in Key, keyMap'[j] # 0
        PROVE  keyMap'[j] \in FirstId .. nextKeyId' - 1 /\ log'[keyMap'[j] - FirstId + 1] = j
    <3>1. CASE j = k
      <4>1. keyMap'[j] = nextKeyId
        BY <3>1, <2>1 DEF TypeOK
      <4>2. QED
        BY <4>1, <3>1, <2>2, <2>3, <2>4
    <3>2. CASE j # k
      <4>1. keyMap'[j] = keyMap[j]
        BY <3>2, <2>1 DEF TypeOK
      <4>2. keyMap[j] \in FirstId .. nextKeyId - 1 /\ log[keyMap[j] - FirstId + 1] = j
        BY <4>1, <2>7 DEF Numbered
      <4>3. keyMap[j] - FirstId + 1 \in 1 .. Len(log)
        BY <4>2, <2>2
      <4>4. QED
        BY <4>1, <4>2, <4>3, <2>2, <2>3, <2>4
    <3>3. QED
      BY <3>1, <3>2
  <2>8. Numbered'
    BY <2>2, <2>3, <2>4, <2>7 DEF Numbered
  <2>9. QED
    BY <1>2, <2>1, <2>3, <2>5, <2>6, <2>8
<1>3. QED
  BY <1>1, <1>2

-----------------------------------------------------------------------------
(* The ring of the parser *)

LEMMA StoreType ==
  ASSUME TypeOK, NEW k \in Key, StoreKey(k)
  PROVE  /\ keyHistory' \in Seq(Key) /\ Len(keyHistory') <= Window
         /\ keyIndex' \in 0 .. Modulus - 1
<1>1. keyHistory \in Seq(Key) /\ Len(keyHistory) <= Window /\ keyIndex \in 0 .. Modulus - 1
  BY DEF TypeOK
<1>2. keyIndex % Window \in 0 .. Window - 1
  <2>1. keyIndex \in Int
    BY <1>1
  <2>2. QED
    BY <2>1, InWindow
<1>3. keyIndex' \in 0 .. Modulus - 1
  <2>1. keyIndex + 1 \in Int /\ Modulus \in Nat \ {0}
    BY <1>1
  <2>2. (keyIndex + 1) % Modulus \in 0 .. Modulus - 1
    BY <2>1, Remainder
  <2>3. QED
    BY <2>2 DEF StoreKey
<1>4. CASE Len(keyHistory) = keyIndex % Window
  <2>1. keyHistory' = Append(keyHistory, k)
    BY <1>4 DEF StoreKey, Stored
  <2>2. QED
    BY <2>1, <1>1, <1>2, <1>3, <1>4
<1>5. CASE Len(keyHistory) # keyIndex % Window
  <2>1. keyHistory' = [keyHistory EXCEPT ![Slot(keyIndex)] = k]
    BY <1>5 DEF StoreKey, Stored
  <2>2. keyHistory \in [1 .. Len(keyHistory) -> Key] /\ Len(keyHistory) \in Nat
    BY <1>1
  <2>3. keyHistory' \in [1 .. Len(keyHistory) -> Key]
    BY <2>1, <2>2
  <2>4. keyHistory' \in Seq(Key) /\ Len(keyHistory') = Len(keyHistory)
    BY <2>2, <2>3
  <2>5. QED
    BY <2>4, <1>1, <1>3
<1>6. QED
  BY <1>4, <1>5

\* The numbers the ring holds have slots of their own.
LEMMA SlotOf ==
  ASSUME NEW i \in Nat
  PROVE  /\ Slot(i) \in 1 .. Window
         /\ i < Window => Slot(i) = i + 1
         /\ \A j \in Nat : j < i /\ i < j + Window => Slot(j) # Slot(i)
<1>1. i % Window \in 0 .. Window - 1 /\ (i < Window => i % Window = i)
  BY InWindow
<1>2. ASSUME NEW j \in Nat, j < i, i < j + Window
      PROVE  Slot(j) # Slot(i)
  <2>1. j % Window # i % Window
    <3>1. i \in Int /\ j \in Int /\ j < i /\ i < j + Window
      BY <1>2
    <3>2. QED
      BY <3>1, SlotsInWindow
  <2>2. j % Window \in 0 .. Window - 1
    BY InWindow
  <2>3. QED
    BY <2>1, <2>2, <1>1 DEF Slot
<1>3. QED
  BY <1>1, <1>2 DEF Slot

\* Storing the key numbered next.
LEMMA StoreKeeps ==
  ASSUME TypeOK, Numbered, Remembered, compress, compress' = compress,
         Grows, Len(log') <= MaxKeys, keyIndex < Len(log'),
         NEW k \in Key, StoreKey(k), log'[keyIndex + 1] = k
  PROVE  Remembered' /\ keyIndex' = keyIndex + 1
<1>1. keyIndex \in Nat /\ Len(log) \in Nat /\ Len(log') \in Nat /\ keyHistory \in Seq(Key)
  <2>1. keyIndex \in Nat /\ keyHistory \in Seq(Key) /\ log \in Seq(Key)
    BY DEF TypeOK
  <2>2. log' \in Seq(Key)
    BY DEF Grows
  <2>3. QED
    BY <2>1, <2>2
<1>2. keyIndex + 1 \in 0 .. Modulus - 1
  <2>1. MaxKeys < Modulus
    OBVIOUS
  <2>2. QED
    BY <1>1, <2>1
<1>3. keyIndex' = keyIndex + 1
  <2>1. (keyIndex + 1) % Modulus = keyIndex + 1
    BY <1>2, SmallUnchanged
  <2>2. QED
    BY <2>1 DEF StoreKey
<1>4. /\ Len(keyHistory) = IF keyIndex < Window THEN keyIndex ELSE Window
      /\ \A p \in 0 .. keyIndex - 1 :
           p >= keyIndex - Window => keyHistory[Slot(p)] = log[p + 1]
      /\ keyIndex <= Len(log)
  BY DEF Remembered
<1>5. Slot(keyIndex) \in 1 .. Window /\ (keyIndex < Window => Slot(keyIndex) = keyIndex + 1)
  BY <1>1, SlotOf
<1>6. /\ Len(keyHistory') = IF keyIndex + 1 < Window THEN keyIndex + 1 ELSE Window
      /\ keyHistory'[Slot(keyIndex)] = k
      /\ \A s \in 1 .. Len(keyHistory) : s # Slot(keyIndex) => keyHistory'[s] = keyHistory[s]
  <2>1. CASE keyIndex < Window
    <3>1. keyIndex % Window = keyIndex
      BY <2>1, <1>1, InWindow
    <3>2. keyHistory' = Append(keyHistory, k)
      BY <3>1, <2>1, <1>4 DEF StoreKey, Stored
    <3>3. QED
      BY <3>2, <2>1, <1>1, <1>4, <1>5
  <2>2. CASE keyIndex >= Window
    <3>1. keyIndex % Window \in 0 .. Window - 1
      BY <1>1, InWindow
    <3>2. keyHistory' = [keyHistory EXCEPT ![Slot(keyIndex)] = k]
      BY <3>1, <2>2, <1>4 DEF StoreKey, Stored
    <3>3. QED
      BY <3>2, <2>2, <1>1, <1>4, <1>5
  <2>3. QED
    BY <2>1, <2>2, <1>1
<1>7. ASSUME NEW p \in 0 .. keyIndex, p >= keyIndex + 1 - Window
      PROVE  keyHistory'[Slot(p)] = log'[p + 1]
  <2>1. CASE p = keyIndex
    BY <2>1, <1>6
  <2>2. CASE p < keyIndex
    <3>1. keyHistory[Slot(p)] = log[p + 1] /\ log[p + 1] = log'[p + 1]
      BY <2>2, <1>7, <1>1, <1>4 DEF Grows
    <3>2. Slot(p) # Slot(keyIndex)
      BY <2>2, <1>7, <1>1, SlotOf
    <3>3. Slot(p) \in 1 .. Len(keyHistory)
      <4>1. p \in Nat
        BY <1>1
      <4>2. Slot(p) \in 1 .. Window /\ (p < Window => Slot(p) = p + 1)
        BY <4>1, SlotOf
      <4>3. QED
        BY <4>1, <4>2, <2>2, <1>1, <1>4
    <3>4. QED
      BY <3>1, <3>2, <3>3, <1>6
  <2>3. QED
    BY <2>1, <2>2, <1>1
<1>8. Remembered'
  BY <1>1, <1>3, <1>6, <1>7 DEF Remembered
<1>9. QED
  BY <1>3, <1>8

\* A reference back among the keys the ring holds finds its key.
LEMMA RecallFinds ==
  ASSUME TypeOK, Remembered, compress, NEW back \in 0 .. Window - 1, back < keyIndex
  PROVE  Recall(back) = log[keyIndex - back]
<1>0. keyIndex \in Nat
  BY DEF TypeOK
<1>1. PICK p \in 0 .. keyIndex - 1 : p = keyIndex - 1 - back
  BY <1>0
<1>2. keyHistory[Slot(p)] = log[p + 1] /\ p + 1 = keyIndex - back
  BY <1>0, <1>1 DEF Remembered
<1>3. Slot(p) \in 1 .. Window /\ (p < Window => Slot(p) = p + 1)
  BY <1>1, SlotOf
<1>4. Slot(p) <= Len(keyHistory)
  BY <1>0, <1>1, <1>3 DEF Remembered
<1>5. Len(keyHistory) \in Nat
  BY DEF TypeOK
<1>6. QED
  BY <1>1, <1>2, <1>3, <1>4, <1>5 DEF Recall

-----------------------------------------------------------------------------
(* The wire *)

LEMMA StaysTruthful ==
  ASSUME Grows, log \in Seq(Key), compress' = compress,
         NEW token \in Token, Truthful(token)
  PROVE  Truthful(token)'
<1>1. token.at \in Nat /\ token.back \in Nat
  BY DEF Token
<1>2. CASE ~compress
  BY <1>2 DEF Truthful
<1>3. CASE compress
  <2>1. Len(log) \in Nat /\ Len(log') \in Nat
    BY DEF Grows
  <2>2. ASSUME token.kind = "key"
        PROVE  token.at < Len(log') /\ log'[token.at + 1] = token.of
    <3>1. token.at < Len(log) /\ log[token.at + 1] = token.of
      BY <2>2, <1>3 DEF Truthful
    <3>2. QED
      BY <3>1, <2>1, <1>1 DEF Grows
  <2>3. ASSUME token.kind = "ref"
        PROVE  /\ token.back < token.at /\ token.at <= Len(log')
               /\ log'[token.at - token.back] = token.of
    <3>1. token.back < token.at /\ token.at <= Len(log) /\ log[token.at - token.back] = token.of
      BY <2>3, <1>3 DEF Truthful
    <3>2. token.at - token.back \in 1 .. Len(log)
      BY <3>1, <2>1, <1>1
    <3>3. QED
      BY <3>1, <3>2, <2>1, <1>1 DEF Grows
  <2>4. QED
    BY <2>2, <2>3, <1>3 DEF Truthful
<1>4. QED
  BY <1>2, <1>3

LEMMA PutToken ==
  ASSUME wire \in Seq(Token), NEW t \in Token, wire' = Append(wire, t)
  PROVE  /\ wire' \in Seq(Token) /\ Len(wire') = Len(wire) + 1 /\ wire'[Len(wire) + 1] = t
         /\ \A i \in 1 .. Len(wire) : wire'[i] = wire[i]
OBVIOUS

LEMMA TakeToken ==
  ASSUME wire \in Seq(Token), wire # <<>>, wire' = Tail(wire)
  PROVE  /\ wire' \in Seq(Token) /\ Len(wire') = Len(wire) - 1
         /\ \A i \in 1 .. Len(wire) - 1 : wire'[i] = wire[i + 1]
OBVIOUS

\* A token that follows on the last one, or on the parser if there is none.
LEMMA PutKeeps ==
  ASSUME TypeOK, WireInv, ~broken, UNCHANGED <<compress, keyIndex, name, broken>>, Grows,
         NEW t \in Token, wire' = Append(wire, t), Truthful(t)',
         NameBefore(t) = pending, pending' = NameAfter(t),
         t.at = Len(log), compress => Len(log') = KeysAfter(t)
  PROVE  wire' \in Seq(Token) /\ WireInv'
<1> DEFINE n == Len(wire)
<1>1. wire \in Seq(Token) /\ log \in Seq(Key) /\ n \in Nat
  BY DEF TypeOK
<1>2. /\ wire' \in Seq(Token) /\ Len(wire') = n + 1 /\ wire'[n + 1] = t
      /\ \A i \in 1 .. n : wire'[i] = wire[i]
  BY <1>1, PutToken
<1>3. TruthfulWire'
  <2>1. ASSUME NEW i \in 1 .. n + 1
        PROVE  Truthful(wire[i])'
    <3>1. PICK token \in Token : token = wire'[i] /\ Truthful(token)'
      <4>1. CASE i = n + 1
        BY <4>1, <1>2
      <4>2. CASE i \in 1 .. n
        <5>1. PICK token \in Token : token = wire[i] /\ Truthful(token)
          BY <4>2, <1>1 DEF WireInv, TruthfulWire
        <5>2. Truthful(token)'
          BY <5>1, <1>1, StaysTruthful
        <5>3. QED
          BY <5>1, <5>2, <4>2, <1>2
      <4>3. QED
        BY <4>1, <4>2, <1>1
    <3>2. QED
      BY <3>1 DEF Truthful
  <2>2. QED
    BY <2>1, <1>2 DEF TruthfulWire
<1>4. n = 0 => name = NameBefore(t) /\ (compress => keyIndex = t.at)
  BY <1>1 DEF WireInv, Idle
<1>5. n > 0 => NameBefore(t) = NameAfter(wire[n]) /\ (compress => t.at = KeysAfter(wire[n]))
  BY <1>1 DEF WireInv, Writing
<1>6. Joined'
  BY <1>1, <1>2, <1>5 DEF WireInv, Joined
<1>7. Reading'
  <2>1. CASE n = 0
    BY <2>1, <1>2, <1>4 DEF Reading
  <2>2. CASE n > 0
    <3>1. wire'[1] = wire[1] /\ wire # <<>>
      BY <2>2, <1>1, <1>2
    <3>2. QED
      BY <3>1 DEF WireInv, Reading
  <2>3. QED
    BY <2>1, <2>2, <1>1
<1>8. Writing' /\ Idle'
  BY <1>1, <1>2 DEF Writing, Idle
<1>9. QED
  BY <1>2, <1>3, <1>6, <1>7, <1>8 DEF WireInv

\* The parser takes the first token and ends up after it.
LEMMA TakeKeeps ==
  ASSUME TypeOK, WireInv, wire # <<>>, wire' = Tail(wire),
         UNCHANGED <<serializerVars, broken>>,
         name' = NameAfter(wire[1]), compress => keyIndex' = KeysAfter(wire[1])
  PROVE  wire' \in Seq(Token) /\ WireInv'
<1> DEFINE n == Len(wire)
<1>1. wire \in Seq(Token) /\ n \in Nat \ {0}
  BY DEF TypeOK
<1>2. /\ wire' \in Seq(Token) /\ Len(wire') = n - 1
      /\ \A i \in 1 .. n - 1 : wire'[i] = wire[i + 1]
  BY <1>1, TakeToken
<1>3. UNCHANGED <<compress, log, pending>>
  BY DEF serializerVars
<1>4. TruthfulWire'
  BY <1>1, <1>2, <1>3 DEF WireInv, TruthfulWire, Truthful
<1>5. Joined'
  BY <1>1, <1>2, <1>3 DEF WireInv, Joined
<1>6. CASE n = 1
  <2>1. wire' = <<>> /\ wire[n] = wire[1]
    BY <1>6, <1>2
  <2>2. QED
    BY <2>1, <1>2, <1>3, <1>4, <1>5 DEF WireInv, Reading, Writing, Idle
<1>7. CASE n > 1
  <2>1. wire' # <<>> /\ wire'[1] = wire[2] /\ wire'[Len(wire')] = wire[n]
    <3>1. 1 \in 1 .. n - 1 /\ n - 1 \in 1 .. n - 1
      BY <1>7, <1>1
    <3>2. wire'[1] = wire[1 + 1] /\ wire'[n - 1] = wire[(n - 1) + 1]
      BY <3>1, <1>2
    <3>3. wire' # <<>>
      <4>1. Len(wire') # 0
        BY <1>7, <1>1, <1>2
      <4>2. QED
        BY <4>1
    <3>4. QED
      BY <3>2, <3>3, <1>1, <1>2
  <2>2. NameBefore(wire[2]) = NameAfter(wire[1]) /\ (compress => wire[2].at = KeysAfter(wire[1]))
    BY <1>7, <1>1 DEF WireInv, Joined
  <2>3. Reading'
    BY <2>1, <2>2, <1>3 DEF Reading
  <2>4. Writing' /\ Idle'
    BY <2>1, <1>3 DEF WireInv, Writing, Idle
  <2>5. QED
    BY <2>3, <2>4, <1>2, <1>4, <1>5 DEF WireInv
<1>8. QED
  BY <1>1, <1>2, <1>6, <1>7

-----------------------------------------------------------------------------
(* Each action keeps the invariant *)

LEMMA InitBInv == Init => BInv
<1> SUFFICES ASSUME Init PROVE BInv
  OBVIOUS
<1>1. TypeOK /\ NamesAgree
  <2>1. compress \in BOOLEAN /\ broken \in BOOLEAN
    BY DEF Init
  <2>2. keyMap \in [Key -> 0 .. Modulus - 1] /\ nextKeyId \in 0 .. Modulus - 1
    BY DEF Init
  <2>3. /\ todo \in Seq(0 .. MaxItems) /\ left \in Seq(0 .. MaxItems)
        /\ wire \in Seq(Token) /\ log \in Seq(Key)
    BY DEF Init
  <2>4. keyHistory \in Seq(Key) /\ Len(keyHistory) <= Window /\ keyIndex \in 0 .. Modulus - 1
    BY DEF Init
  <2>5. /\ pending \in Names /\ name \in Names
        /\ got \in [name : Names, size : 0 .. MaxItems, of : Names] /\ NamesAgree
    BY DEF Init, Names, NamesAgree
  <2>6. QED
    BY <2>1, <2>2, <2>3, <2>4, <2>5 DEF TypeOK
<1>2. Numbered /\ Remembered
  BY DEF Init, Numbered, Remembered
<1>3. WireInv
  BY DEF Init, WireInv, TruthfulWire, Joined, Reading, Writing, Idle
<1>4. QED
  BY <1>1, <1>2, <1>3 DEF BInv

\* What the serializer does leaves what the parser knows as it was.
LEMMA RememberedGrows ==
  ASSUME TypeOK, Remembered, Grows, UNCHANGED <<compress, keyHistory, keyIndex>>
  PROVE  Remembered'
<1>1. keyIndex \in Nat /\ Len(log) \in Nat /\ Len(log') \in Nat
  BY DEF TypeOK, Grows
<1>2. CASE compress
  <2>1. keyIndex <= Len(log)
    BY <1>2 DEF Remembered
  <2>2. \A q \in 0 .. keyIndex - 1 : log'[q + 1] = log[q + 1]
    BY <2>1, <1>1 DEF Grows
  <2>3. \A q \in 0 .. keyIndex - 1 :
          q >= keyIndex - Window => keyHistory[Slot(q)] = log[q + 1]
    BY <1>2 DEF Remembered
  <2>4. keyIndex <= Len(log') /\ Len(keyHistory) = IF keyIndex < Window THEN keyIndex ELSE Window
    BY <1>1, <1>2, <2>1 DEF Remembered, Grows
  <2>5. \A q \in 0 .. keyIndex - 1 :
          q >= keyIndex - Window => keyHistory[Slot(q)] = log'[q + 1]
    BY <2>2, <2>3
  <2>6. QED
    BY <2>4, <2>5 DEF Remembered
<1>3. QED
  BY <1>2 DEF Remembered

\* A container that is complete is left.
LEMMA LeftType ==
  ASSUME NEW S, NEW stack \in Seq(S), stack # <<>>
  PROVE  SubSeq(stack, 1, Len(stack) - 1) \in Seq(S)
<1>1. Len(stack) \in Nat /\ \A i \in 1 .. Len(stack) : stack[i] \in S
  OBVIOUS
<1>2. QED
  BY <1>1

LEMMA EnteredType ==
  ASSUME NEW stack \in Seq(0 .. MaxItems), NEW n \in 0 .. MaxItems, Expected(stack)
  PROVE  Entered(stack, n) \in Seq(0 .. MaxItems)
<1> DEFINE rest == IF stack = <<>> THEN <<0>> ELSE [stack EXCEPT ![Len(stack)] = @ - 1]
<1>1. rest \in Seq(0 .. MaxItems)
  <2>1. CASE stack = <<>>
    BY <2>1
  <2>2. CASE stack # <<>>
    <3>1. Len(stack) \in Nat \ {0} /\ stack \in [1 .. Len(stack) -> 0 .. MaxItems]
      BY <2>2
    <3>2. stack[Len(stack)] - 1 \in 0 .. MaxItems
      BY <2>2, <3>1 DEF Expected
    <3>3. rest \in [1 .. Len(stack) -> 0 .. MaxItems]
      BY <2>2, <3>1, <3>2
    <3>4. QED
      BY <3>1, <3>3
  <2>3. QED
    BY <2>1, <2>2
<1>2. Append(rest, n) \in Seq(0 .. MaxItems)
  BY <1>1
<1>3. Entered(stack, n) = IF n = 0 THEN rest ELSE Append(rest, n)
  BY DEF Entered
<1>4. QED
  BY <1>1, <1>2, <1>3

LEMMA SerializeKeyKeeps ==
  ASSUME BInv, NEW k \in Key, SerializeKey(k)
  PROVE  BInv'
<1>0. /\ TypeOK /\ NamesAgree /\ Numbered /\ Remembered /\ WireInv
      /\ UNCHANGED <<compress, todo, keyHistory, keyIndex, left, name, got, broken>>
      /\ ~broken /\ pending = NoKey /\ pending' = k /\ k # NoKey /\ k \in Names
  BY DEF BInv, SerializeKey, Due, parserVars, Names
<1>1. log \in Seq(Key) /\ Len(log) \in Nat /\ 0 \in 0 .. Window - 1 /\ 0 \in 0 .. MaxItems
  BY <1>0 DEF TypeOK
<1>2. PICK t \in Token :
        /\ wire' = Append(wire, t) /\ t.of = k /\ t.at = Len(log)
        /\ Truthful(t)' /\ NameBefore(t) = NoKey /\ NameAfter(t) = k
        /\ compress => Len(log') = KeysAfter(t)
        /\ keyMap' \in [Key -> 0 .. Modulus - 1] /\ nextKeyId' \in 0 .. Modulus - 1
        /\ Grows /\ Numbered'
  <2>1. CASE compress /\ InReach(k)
    <3>1. Register(k) /\ Put("ref", k, Distance(k), 0)
      BY <2>1 DEF SerializeKey
    <3>2. /\ keyMap' \in [Key -> 0 .. Modulus - 1] /\ nextKeyId' \in 0 .. Modulus - 1
          /\ Grows /\ Numbered' /\ log' = log
      BY <3>1, <2>1, <1>0, RegisterEffect
    <3>3. /\ Distance(k) \in 0 .. Window - 1
          /\ Distance(k) < Len(log) /\ log[Len(log) - Distance(k)] = k
      BY <2>1, <1>0, ReachedKey
    <3> DEFINE t == [kind |-> "ref", of |-> k, back |-> Distance(k), size |-> 0, at |-> Len(log)]
    <3>4. t \in Token /\ wire' = Append(wire, t)
      BY <3>1, <3>3, <1>0, <1>1 DEF Put, Token
    <3>5. NameBefore(t) = NoKey /\ NameAfter(t) = k /\ Len(log') = KeysAfter(t)
      BY <3>2 DEF NameBefore, NameAfter, KeysAfter
    <3>6. PICK s \in Token : s = t
      BY <3>4
    <3>7. Truthful(s)'
      BY <3>2, <3>3, <3>6, <2>1, <1>0, <1>1 DEF Truthful
    <3>8. QED
      BY <3>2, <3>4, <3>5, <3>6, <3>7
  <2>2. CASE ~(compress /\ InReach(k))
    <3>1. Put("key", k, 0, 0)
      BY <2>2 DEF SerializeKey
    <3>2. /\ keyMap' \in [Key -> 0 .. Modulus - 1] /\ nextKeyId' \in 0 .. Modulus - 1
          /\ Grows /\ Numbered' /\ (compress => log' = Append(log, k))
      <4>1. CASE compress
        <5>1. Register(k)
          BY <4>1 DEF SerializeKey
        <5>2. QED
          BY <5>1, <4>1, <2>2, <1>0, RegisterEffect
      <4>2. CASE ~compress
        <5>1. UNCHANGED <<keyMap, nextKeyId, log>>
          BY <4>2 DEF SerializeKey
        <5>2. QED
          BY <5>1, <4>2, <1>0, NoGrowth DEF TypeOK, Numbered
      <4>3. QED
        BY <4>1, <4>2
    <3> DEFINE t == [kind |-> "key", of |-> k, back |-> 0, size |-> 0, at |-> Len(log)]
    <3>3. t \in Token /\ wire' = Append(wire, t)
      BY <3>1, <1>0, <1>1 DEF Put, Token
    <3>4. compress => Len(log') = Len(log) + 1 /\ log'[Len(log) + 1] = k
      BY <3>2, <1>1
    <3>5. NameBefore(t) = NoKey /\ NameAfter(t) = k /\ (compress => Len(log') = KeysAfter(t))
      BY <3>4 DEF NameBefore, NameAfter, KeysAfter
    <3>6. PICK s \in Token : s = t
      BY <3>3
    <3>7. Truthful(s)'
      BY <3>4, <3>6, <1>0, <1>1 DEF Truthful
    <3>8. QED
      BY <3>2, <3>3, <3>5, <3>6, <3>7
  <2>3. QED
    BY <2>1, <2>2
<1>3. wire' \in Seq(Token) /\ WireInv'
  BY <1>0, <1>2, PutKeeps
<1>4. TypeOK' /\ NamesAgree'
  BY <1>0, <1>2, <1>3 DEF TypeOK, NamesAgree, Grows
<1>5. Remembered'
  BY <1>0, <1>2, RememberedGrows
<1>6. QED
  BY <1>2, <1>3, <1>4, <1>5 DEF BInv

\* A token that is not a key, put by SerializeValue or Pad.
LEMMA PlainToken ==
  ASSUME BInv, ~broken, NEW kind \in {"value", "padding"}, NEW n \in 0 .. MaxItems,
         NEW of \in Names, of = pending, pending' = NoKey, Put(kind, of, 0, n),
         UNCHANGED <<compress, keyMap, nextKeyId, log, parserVars, broken>>,
         todo' \in Seq(0 .. MaxItems)
  PROVE  BInv'
<1>0. /\ TypeOK /\ NamesAgree /\ Numbered /\ Remembered /\ WireInv
      /\ UNCHANGED <<compress, keyHistory, keyIndex, left, name, got, broken>>
      /\ UNCHANGED <<keyMap, nextKeyId, log>>
  BY DEF BInv, parserVars
<1>1. log \in Seq(Key) /\ Len(log) \in Nat /\ 0 \in 0 .. Window - 1 /\ NoKey \in Names
  BY <1>0 DEF TypeOK, Names
<1>2. Grows
  BY <1>0, NoGrowth
<1>3. PICK t \in Token :
        t = [kind |-> kind, of |-> of, back |-> 0, size |-> n, at |-> Len(log)]
  BY <1>1 DEF Token
<1>4. /\ wire' = Append(wire, t) /\ NameBefore(t) = pending /\ pending' = NameAfter(t)
      /\ t.at = Len(log) /\ Len(log') = KeysAfter(t)
  BY <1>0, <1>3 DEF Put, NameBefore, NameAfter, KeysAfter
<1>5. Truthful(t)'
  BY <1>3 DEF Truthful
<1>6. wire' \in Seq(Token) /\ WireInv'
  BY <1>0, <1>2, <1>4, <1>5, PutKeeps
<1>7. TypeOK' /\ NamesAgree' /\ Numbered'
  BY <1>0, <1>1, <1>6 DEF TypeOK, NamesAgree, Numbered
<1>8. Remembered'
  BY <1>0, <1>2, RememberedGrows
<1>9. QED
  BY <1>6, <1>7, <1>8 DEF BInv

LEMMA SerializeValueKeeps ==
  ASSUME BInv, NEW n \in 0 .. MaxItems, SerializeValue(n)
  PROVE  BInv'
<1>1. todo \in Seq(0 .. MaxItems) /\ pending \in Names
  BY DEF BInv, TypeOK
<1>2. ~broken /\ Expected(todo) /\ Put("value", pending, 0, n) /\ pending' = NoKey
      /\ todo' = Entered(todo, n)
      /\ UNCHANGED <<compress, keyMap, nextKeyId, log, parserVars, broken>>
  BY DEF SerializeValue, Due
<1>3. todo' \in Seq(0 .. MaxItems)
  BY <1>1, <1>2, EnteredType
<1>4. PICK of \in Names : of = pending
  BY <1>1
<1>5. QED
  BY <1>2, <1>3, <1>4, PlainToken

LEMMA PadKeeps ==
  ASSUME BInv, Pad
  PROVE  BInv'
<1>1. /\ ~broken /\ pending = NoKey /\ pending' = NoKey /\ todo' = todo
      /\ Put("padding", NoKey, 0, 0)
      /\ UNCHANGED <<compress, keyMap, nextKeyId, log, parserVars, broken>>
  BY DEF Pad, serializerVars
<1>2. todo' \in Seq(0 .. MaxItems) /\ NoKey \in Names /\ 0 \in 0 .. MaxItems
  BY <1>1 DEF BInv, TypeOK, Names
<1>3. QED
  BY <1>1, <1>2, PlainToken

LEMMA SerializeThrowsKeeps ==
  ASSUME BInv, NEW k \in Key, SerializeThrows(k)
  PROVE  BInv'
<1>0. /\ TypeOK /\ NamesAgree /\ Numbered /\ Remembered /\ WireInv
      /\ Register(k) /\ broken' = TRUE /\ todo' = <<>>
      /\ UNCHANGED <<compress, pending, keyHistory, keyIndex, left, name, got, wire>>
  BY DEF BInv, SerializeThrows, parserVars
<1>1. /\ keyMap' \in [Key -> 0 .. Modulus - 1] /\ nextKeyId' \in 0 .. Modulus - 1
      /\ Grows /\ Numbered'
  BY <1>0, RegisterEffect
<1>2. TypeOK' /\ NamesAgree'
  BY <1>0, <1>1 DEF TypeOK, NamesAgree, Grows
<1>3. Remembered'
  BY <1>0, <1>1, RememberedGrows
<1>4. TruthfulWire'
  <2>1. ASSUME NEW i \in 1 .. Len(wire)
        PROVE  Truthful(wire[i])'
    <3>1. PICK token \in Token : token = wire[i] /\ Truthful(token)
      BY <1>0 DEF WireInv, TruthfulWire, TypeOK
    <3>2. Truthful(token)'
      BY <3>1, <1>0, <1>1, StaysTruthful DEF TypeOK
    <3>3. QED
      BY <3>1, <3>2, <1>0 DEF Truthful
  <2>2. QED
    BY <2>1, <1>0 DEF TruthfulWire
<1>5. WireInv'
  BY <1>0, <1>4 DEF WireInv, Joined, Reading, Writing, Idle
<1>6. QED
  BY <1>1, <1>2, <1>3, <1>5 DEF BInv

LEMMA SerializeReturnsKeeps ==
  ASSUME BInv, SerializeReturns
  PROVE  BInv'
<1>0. /\ TypeOK /\ NamesAgree /\ Numbered /\ Remembered /\ WireInv
      /\ todo # <<>> /\ todo' = SubSeq(todo, 1, Len(todo) - 1)
      /\ UNCHANGED <<compress, keyMap, nextKeyId, pending, log, wire, broken>>
      /\ UNCHANGED <<keyHistory, keyIndex, left, name, got>>
  BY DEF BInv, SerializeReturns, parserVars
<1>1. todo' \in Seq(0 .. MaxItems)
  <2>1. todo \in Seq(0 .. MaxItems)
    BY <1>0 DEF TypeOK
  <2>2. QED
    BY <2>1, <1>0, LeftType
<1>2. TypeOK' /\ NamesAgree' /\ Numbered'
  BY <1>0, <1>1 DEF TypeOK, NamesAgree, Numbered
<1>3. Remembered'
  BY <1>0 DEF Remembered, Slot
<1>4. WireInv'
  BY <1>0 DEF WireInv, TruthfulWire, Truthful, Joined, Reading, Writing, Idle
<1>5. QED
  BY <1>2, <1>3, <1>4 DEF BInv

\* What the parser knows of the first token.
LEMMA FirstToken ==
  ASSUME TypeOK, WireInv, wire # <<>>
  PROVE  /\ wire[1] \in Token /\ Truthful(wire[1]) /\ name = NameBefore(wire[1])
         /\ compress => keyIndex = wire[1].at
BY DEF TypeOK, WireInv, TruthfulWire, Reading

LEMMA ParseKeyKeeps ==
  ASSUME BInv, ParseKey
  PROVE  BInv'
<1>0. /\ TypeOK /\ NamesAgree /\ Numbered /\ Remembered /\ WireInv
      /\ wire # <<>> /\ wire[1].kind = "key" /\ wire' = Tail(wire)
      /\ StoreKey(wire[1].of) /\ name' = wire[1].of
      /\ UNCHANGED <<serializerVars, broken>> /\ UNCHANGED <<left, got>>
  BY DEF BInv, ParseKey, Take
<1>1. /\ wire[1] \in Token /\ Truthful(wire[1]) /\ name = NameBefore(wire[1])
      /\ compress => keyIndex = wire[1].at
  BY <1>0, FirstToken
<1>2. UNCHANGED <<compress, keyMap, nextKeyId, todo, pending, log>>
  BY <1>0 DEF serializerVars
<1>3. PICK k \in Key : k = wire[1].of
  BY <1>0, <1>1 DEF Truthful
<1>4. /\ keyHistory' \in Seq(Key) /\ Len(keyHistory') <= Window
      /\ keyIndex' \in 0 .. Modulus - 1
  BY <1>0, <1>3, StoreType
<1>5. Remembered' /\ (compress => keyIndex' = KeysAfter(wire[1]))
  <2>1. CASE compress
    <3>1. keyIndex < Len(log) /\ log[keyIndex + 1] = k
      BY <2>1, <1>0, <1>1, <1>3 DEF Truthful
    <3>2. Grows /\ Len(log') <= MaxKeys
      BY <1>0, <1>2, NoGrowth DEF Numbered
    <3>3. Remembered' /\ keyIndex' = keyIndex + 1
      BY <2>1, <3>1, <3>2, <1>0, <1>2, <1>3, StoreKeeps
    <3>4. QED
      BY <2>1, <3>3, <1>0, <1>1 DEF KeysAfter
  <2>2. CASE ~compress
    BY <2>2, <1>2 DEF Remembered
  <2>3. QED
    BY <2>1, <2>2
<1>6. name' = NameAfter(wire[1])
  BY <1>0 DEF NameAfter
<1>7. wire' \in Seq(Token) /\ WireInv'
  BY <1>0, <1>5, <1>6, TakeKeeps
<1>8. name' \in Names
  BY <1>0, <1>3 DEF Names
<1>9. TypeOK' /\ NamesAgree' /\ Numbered'
  BY <1>0, <1>2, <1>4, <1>7, <1>8 DEF TypeOK, NamesAgree, Numbered
<1>10. QED
  BY <1>5, <1>7, <1>9 DEF BInv

LEMMA ParseReferenceKeeps ==
  ASSUME BInv, ParseReference
  PROVE  BInv'
<1>0. /\ TypeOK /\ NamesAgree /\ Numbered /\ Remembered /\ WireInv
      /\ wire # <<>> /\ wire[1].kind = "ref" /\ wire' = Tail(wire)
      /\ name' = Recall(wire[1].back)
      /\ UNCHANGED <<serializerVars, broken>>
      /\ UNCHANGED <<keyHistory, keyIndex, left, got>>
  BY DEF BInv, ParseReference, Take
<1>1. /\ wire[1] \in Token /\ Truthful(wire[1])
      /\ compress => keyIndex = wire[1].at
  BY <1>0, FirstToken
<1>2. UNCHANGED <<compress, keyMap, nextKeyId, todo, pending, log>>
  BY <1>0 DEF serializerVars
<1>3. PICK back \in 0 .. Window - 1 : back = wire[1].back
  BY <1>1 DEF Token
<1>4. compress /\ back < keyIndex /\ log[keyIndex - back] = wire[1].of /\ wire[1].of \in Names
  BY <1>0, <1>1, <1>3 DEF Truthful, Token
<1>5. name' = wire[1].of /\ name' \in Names
  BY <1>0, <1>3, <1>4, RecallFinds
<1>6. name' = NameAfter(wire[1]) /\ keyIndex' = KeysAfter(wire[1])
  BY <1>0, <1>1, <1>4, <1>5 DEF NameAfter, KeysAfter
<1>7. wire' \in Seq(Token) /\ WireInv'
  BY <1>0, <1>6, TakeKeeps
<1>8. TypeOK' /\ NamesAgree' /\ Numbered'
  BY <1>0, <1>2, <1>5, <1>7 DEF TypeOK, NamesAgree, Numbered
<1>9. Remembered'
  BY <1>0, <1>2 DEF Remembered, Slot
<1>10. QED
  BY <1>7, <1>8, <1>9 DEF BInv

LEMMA ParseValueKeeps ==
  ASSUME BInv, ParseValue
  PROVE  BInv'
<1>0. /\ TypeOK /\ NamesAgree /\ Numbered /\ Remembered /\ WireInv
      /\ wire # <<>> /\ wire[1].kind = "value" /\ wire' = Tail(wire)
      /\ Expected(left) /\ left' = Entered(left, wire[1].size)
      /\ got' = [name |-> name, size |-> wire[1].size, of |-> wire[1].of]
      /\ name' = NoKey
      /\ UNCHANGED <<serializerVars, broken>> /\ UNCHANGED <<keyHistory, keyIndex>>
  BY DEF BInv, ParseValue, Take
<1>1. /\ wire[1] \in Token /\ name = NameBefore(wire[1])
      /\ compress => keyIndex = wire[1].at
  BY <1>0, FirstToken
<1>2. UNCHANGED <<compress, keyMap, nextKeyId, todo, pending, log>>
  BY <1>0 DEF serializerVars
<1>3. wire[1].size \in 0 .. MaxItems /\ wire[1].of \in Names /\ name = wire[1].of
  BY <1>0, <1>1 DEF Token, NameBefore
<1>4. left' \in Seq(0 .. MaxItems)
  BY <1>0, <1>3, EnteredType DEF TypeOK
<1>5. name' = NameAfter(wire[1]) /\ (compress => keyIndex' = KeysAfter(wire[1]))
  BY <1>0, <1>1 DEF NameAfter, KeysAfter
<1>6. wire' \in Seq(Token) /\ WireInv'
  BY <1>0, <1>5, TakeKeeps
<1>7. TypeOK' /\ NamesAgree' /\ Numbered'
  BY <1>0, <1>2, <1>3, <1>4, <1>6 DEF TypeOK, NamesAgree, Numbered, Names
<1>8. Remembered'
  BY <1>0, <1>2 DEF Remembered, Slot
<1>9. QED
  BY <1>6, <1>7, <1>8 DEF BInv

LEMMA ParseReturnsKeeps ==
  ASSUME BInv, ParseReturns
  PROVE  BInv'
<1>0. /\ TypeOK /\ NamesAgree /\ Numbered /\ Remembered /\ WireInv
      /\ left # <<>> /\ left' = SubSeq(left, 1, Len(left) - 1)
      /\ UNCHANGED <<compress, keyMap, nextKeyId, todo, pending, log, wire, broken>>
      /\ UNCHANGED <<keyHistory, keyIndex, name, got>>
  BY DEF BInv, ParseReturns, serializerVars
<1>1. left' \in Seq(0 .. MaxItems)
  <2>1. left \in Seq(0 .. MaxItems)
    BY <1>0 DEF TypeOK
  <2>2. QED
    BY <2>1, <1>0, LeftType
<1>2. TypeOK' /\ NamesAgree' /\ Numbered'
  BY <1>0, <1>1 DEF TypeOK, NamesAgree, Numbered
<1>3. Remembered'
  BY <1>0 DEF Remembered, Slot
<1>4. WireInv'
  BY <1>0 DEF WireInv, TruthfulWire, Truthful, Joined, Reading, Writing, Idle
<1>5. QED
  BY <1>2, <1>3, <1>4 DEF BInv

\* An exception in the parser loses the wire.
LEMMA ParserGivesUp ==
  ASSUME BInv, wire' = <<>>, broken' = TRUE, left' = <<>>, name' = NoKey,
         UNCHANGED <<serializerVars, keyHistory, keyIndex, got>>
  PROVE  BInv'
<1>0. /\ TypeOK /\ NamesAgree /\ Numbered /\ Remembered /\ WireInv
      /\ UNCHANGED <<compress, keyMap, nextKeyId, todo, pending, log>>
      /\ UNCHANGED <<keyHistory, keyIndex, got>>
  BY DEF BInv, serializerVars
<1>1. TypeOK' /\ NamesAgree' /\ Numbered'
  BY <1>0 DEF TypeOK, NamesAgree, Numbered, Names
<1>2. Remembered'
  BY <1>0 DEF Remembered, Slot
<1>3. WireInv'
  BY DEF WireInv, TruthfulWire, Joined, Reading, Writing, Idle
<1>4. QED
  BY <1>1, <1>2, <1>3 DEF BInv

LEMMA PreloadKeyKeeps ==
  ASSUME BInv, NEW k \in Key, PreloadKey(k)
  PROVE  BInv'
<1>0. /\ TypeOK /\ NamesAgree /\ Numbered /\ Remembered /\ WireInv
      /\ compress /\ ~broken /\ wire = <<>> /\ keyMap[k] = 0 /\ Register(k) /\ StoreKey(k)
      /\ UNCHANGED <<compress, todo, pending, left, name, got, wire, broken>>
  BY DEF BInv, PreloadKey, Quiet
<1>1. ~InReach(k) /\ log \in Seq(Key)
  BY <1>0, DistanceIsAge DEF TypeOK
<1>2. /\ keyMap' \in [Key -> 0 .. Modulus - 1] /\ nextKeyId' \in 0 .. Modulus - 1
      /\ Grows /\ Numbered' /\ log' = Append(log, k)
  BY <1>0, <1>1, RegisterEffect
<1>3. /\ keyHistory' \in Seq(Key) /\ Len(keyHistory') <= Window
      /\ keyIndex' \in 0 .. Modulus - 1
  BY <1>0, StoreType
<1>4. name = pending /\ keyIndex = Len(log)
  BY <1>0 DEF WireInv, Idle
<1>5. Len(log') = Len(log) + 1 /\ log'[Len(log) + 1] = k /\ Len(log) \in Nat
  BY <1>1, <1>2
<1>6. Len(log') <= MaxKeys
  BY <1>2 DEF Numbered
<1>7. Remembered' /\ keyIndex' = keyIndex + 1
  BY <1>0, <1>2, <1>4, <1>5, <1>6, StoreKeeps
<1>8. WireInv'
  BY <1>0, <1>4, <1>5, <1>7 DEF WireInv, TruthfulWire, Joined, Reading, Writing, Idle
<1>9. TypeOK' /\ NamesAgree'
  BY <1>0, <1>2, <1>3 DEF TypeOK, NamesAgree, Grows
<1>10. QED
  BY <1>2, <1>7, <1>8, <1>9 DEF BInv

LEMMA ClearKeysKeeps ==
  ASSUME BInv, ClearKeys
  PROVE  BInv'
<1>0. /\ TypeOK /\ NamesAgree
      /\ keyMap' = [k \in Key |-> 0] /\ nextKeyId' = FirstId /\ log' = <<>>
      /\ todo' = <<>> /\ pending' = NoKey /\ wire' = <<>>
      /\ keyHistory' = <<>> /\ keyIndex' = 0 /\ left' = <<>> /\ name' = NoKey
      /\ broken' = FALSE /\ UNCHANGED <<compress, got>>
  BY DEF BInv, ClearKeys
<1>1. keyMap' \in [Key -> 0 .. Modulus - 1] /\ nextKeyId' \in 0 .. Modulus - 1
  BY <1>0
<1>2. /\ todo' \in Seq(0 .. MaxItems) /\ left' \in Seq(0 .. MaxItems)
      /\ wire' \in Seq(Token) /\ log' \in Seq(Key)
      /\ keyHistory' \in Seq(Key) /\ Len(keyHistory') <= Window /\ keyIndex' \in 0 .. Modulus - 1
  BY <1>0
<1>3. TypeOK' /\ NamesAgree'
  BY <1>0, <1>1, <1>2 DEF TypeOK, NamesAgree, Names
<1>4. Numbered' /\ Remembered'
  BY <1>0 DEF Numbered, Remembered
<1>5. WireInv'
  BY <1>0 DEF WireInv, TruthfulWire, Joined, Reading, Writing, Idle
<1>6. QED
  BY <1>3, <1>4, <1>5 DEF BInv

-----------------------------------------------------------------------------
(* The containers that are open *)

\* What is left to do in the open containers once a value is begun.
Begun(open, n) ==
  LET rest == IF open = <<>> THEN <<>>
              ELSE IF open[Len(open)] = 1 THEN SubSeq(open, 1, Len(open) - 1)
              ELSE [open EXCEPT ![Len(open)] = @ - 1]
  IN IF n = 0 THEN rest ELSE Append(rest, n)

\* h is what is left to do at each place of the wire, from the parser to the
\* serializer.
Course(h) ==
  /\ h[1] = Open(left)
  /\ \A i \in 1 .. Len(wire) :
       h[i + 1] = IF wire[i].kind = "value" THEN Begun(h[i], wire[i].size) ELSE h[i]
  /\ ~broken => h[Len(wire) + 1] = Open(todo)

\* The values on the wire lead the parser to where the serializer is.
InStep == \E h \in [1 .. Len(wire) + 1 -> Seq(Nat)] : Course(h)

\* A container that waits for nothing is not counted.
LEMMA OpenAppend ==
  ASSUME NEW stack \in Seq(0 .. MaxItems), NEW n \in 0 .. MaxItems
  PROVE  Open(Append(stack, n)) = IF n > 0 THEN Append(Open(stack), n) ELSE Open(stack)
<1>1. PICK s \in Seq(0 .. MaxItems) : s = Append(stack, n)
  <2>1. Append(stack, n) \in Seq(0 .. MaxItems)
    OBVIOUS
  <2>2. QED
    BY <2>1
<1>2. PICK p : p = {i \in 1 .. Len(stack) : stack[i] > 0}
  OBVIOUS
<1>3. PICK q : q = {i \in 1 .. Len(s) : s[i] > 0}
  OBVIOUS
<1>4. Len(s) = Len(stack) + 1 /\ s[Len(stack) + 1] = n /\ Len(stack) \in Nat
      /\ \A i \in 1 .. Len(stack) : s[i] = stack[i]
  BY <1>1
<1>5. \A i \in 1 .. Len(stack) : i \in p <=> i \in q
  BY <1>2, <1>3, <1>4
<1>6. Len(stack) + 1 \in q <=> n > 0
  BY <1>3, <1>4
<1>7. Selected(Append(stack, n), q) =
        IF Len(stack) + 1 \in q THEN Append(Selected(stack, p), n) ELSE Selected(stack, p)
  <2>1. PICK S : S = 0 .. MaxItems
    OBVIOUS
  <2>2. stack \in Seq(S) /\ n \in S
    BY <2>1
  <2>3. QED
    BY <1>5, <2>2, SelectedAppend
<1>8. Open(stack) = Selected(stack, p) /\ Open(s) = Selected(s, q)
  BY <1>2, <1>3 DEF Open
<1>9. QED
  BY <1>1, <1>6, <1>7, <1>8

\* What is left to do in the open containers are numbers of items.
LEMMA OpenType ==
  ASSUME NEW stack \in Seq(0 .. MaxItems)
  PROVE  Open(stack) \in Seq(0 .. MaxItems) /\ Open(stack) \in Seq(Nat)
<1>1. Open(stack) \in Seq(0 .. MaxItems)
  BY SelectedType DEF Open
<1>2. QED
  BY <1>1

\* No container, none open.
LEMMA OpenEmpty == Open(<<>>) = <<>>
BY SelectedEmpty DEF Open

\* A stack is its last entry on top of the others.
LEMMA FrontAndLast ==
  ASSUME NEW stack \in Seq(0 .. MaxItems), stack # <<>>
  PROVE  \E front \in Seq(0 .. MaxItems) : \E last \in 0 .. MaxItems :
           /\ stack = Append(front, last) /\ stack[Len(stack)] = last
           /\ SubSeq(stack, 1, Len(stack) - 1) = front
           /\ [stack EXCEPT ![Len(stack)] = @ - 1] = Append(front, last - 1)
<1>1. PICK front \in Seq(0 .. MaxItems) : front = SubSeq(stack, 1, Len(stack) - 1)
  BY LeftType
<1>2. PICK last \in 0 .. MaxItems : last = stack[Len(stack)]
  OBVIOUS
<1>3. PICK n \in Nat : Len(stack) = n + 1
  <2>1. Len(stack) \in Nat /\ Len(stack) # 0
    OBVIOUS
  <2>2. Len(stack) - 1 \in Nat /\ Len(stack) = (Len(stack) - 1) + 1
    BY <2>1
  <2>3. QED
    BY <2>2
<1>4. front = SubSeq(stack, 1, n)
  BY <1>1, <1>3
<1>5. Len(front) = n /\ \A i \in 1 .. n : front[i] = stack[i]
  BY <1>3, <1>4
<1>6. last = stack[n + 1]
  BY <1>2, <1>3
<1>7. stack = Append(front, last)
  BY <1>3, <1>5, <1>6
<1>8. [stack EXCEPT ![Len(stack)] = @ - 1] = Append(front, last - 1)
  BY <1>3, <1>5, <1>6
<1>9. QED
  BY <1>1, <1>2, <1>7, <1>8

\* Beginning a value, seen from the open containers.
LEMMA OpenEntered ==
  ASSUME NEW stack \in Seq(0 .. MaxItems), NEW n \in 0 .. MaxItems, Expected(stack)
  PROVE  Open(Entered(stack, n)) = Begun(Open(stack), n)
<1> DEFINE rest == IF stack = <<>> THEN <<0>> ELSE [stack EXCEPT ![Len(stack)] = @ - 1]
           over(open) == IF open = <<>> THEN <<>>
                         ELSE IF open[Len(open)] = 1 THEN SubSeq(open, 1, Len(open) - 1)
                         ELSE [open EXCEPT ![Len(open)] = @ - 1]
<1>1. rest \in Seq(0 .. MaxItems) /\ Open(rest) = over(Open(stack))
  <2>1. CASE stack = <<>>
    <3>1. PICK none \in Seq(0 .. MaxItems) : none = <<>>
      <4>1. <<>> \in Seq(0 .. MaxItems)
        OBVIOUS
      <4>2. QED
        BY <4>1
    <3>2. 0 \in 0 .. MaxItems /\ rest = Append(none, 0)
      BY <2>1, <3>1
    <3>3. Open(Append(none, 0)) = Open(none)
      BY <3>2, OpenAppend
    <3>4. Open(none) = <<>>
      BY <3>1, OpenEmpty
    <3>5. QED
      BY <2>1, <3>1, <3>2, <3>3, <3>4
  <2>2. CASE stack # <<>>
    <3>1. PICK front \in Seq(0 .. MaxItems) : \E last \in 0 .. MaxItems :
           /\ stack = Append(front, last) /\ stack[Len(stack)] = last
           /\ SubSeq(stack, 1, Len(stack) - 1) = front
           /\ [stack EXCEPT ![Len(stack)] = @ - 1] = Append(front, last - 1)
      BY <2>2, FrontAndLast
    <3>2. PICK last \in 0 .. MaxItems :
           /\ stack = Append(front, last) /\ stack[Len(stack)] = last
           /\ [stack EXCEPT ![Len(stack)] = @ - 1] = Append(front, last - 1)
      BY <3>1
    <3>3. last > 0 /\ last - 1 \in 0 .. MaxItems
      BY <2>2, <3>2 DEF Expected
    <3>4. rest = Append(front, last - 1)
      BY <2>2, <3>2
    <3>5. PICK u \in Seq(Nat) : u = Open(front)
      BY OpenType
    <3>6. Open(stack) = Append(u, last)
      BY <3>2, <3>3, <3>5, OpenAppend
    <3>7. Open(rest) = IF last - 1 > 0 THEN Append(u, last - 1) ELSE u
      BY <3>3, <3>4, <3>5, OpenAppend
    <3>8. over(Append(u, last)) = IF last - 1 > 0 THEN Append(u, last - 1) ELSE u
      <4>1. PICK w \in Seq(Nat) : w = Append(u, last)
        <5>1. Append(u, last) \in Seq(Nat)
          OBVIOUS
        <5>2. QED
          BY <5>1
      <4>2. PICK m \in Nat : m = Len(u)
        OBVIOUS
      <4>3. /\ w # <<>> /\ Len(w) = m + 1 /\ w[m + 1] = last
            /\ \A i \in 1 .. m : w[i] = u[i]
        <5>1. Len(w) = m + 1
          BY <4>1, <4>2
        <5>2. w[m + 1] = last
          BY <4>1, <4>2
        <5>3. \A i \in 1 .. m : w[i] = u[i]
          BY <4>1, <4>2
        <5>4. w # <<>>
          BY <5>1, <4>2
        <5>5. QED
          BY <5>1, <5>2, <5>3, <5>4
      <4>4. SubSeq(w, 1, Len(w) - 1) = u
        BY <4>2, <4>3
      <4>5. [w EXCEPT ![Len(w)] = @ - 1] = Append(u, last - 1)
        BY <3>3, <4>2, <4>3
      <4>6. w[Len(w)] = last /\ (last = 1 <=> ~(last - 1 > 0))
        BY <3>3, <4>3
      <4>7. over(w) = IF last - 1 > 0 THEN Append(u, last - 1) ELSE u
        BY <4>3, <4>4, <4>5, <4>6
      <4>8. QED
        BY <4>1, <4>7
    <3>9. rest \in Seq(0 .. MaxItems)
      <4> HIDE DEF rest
      <4>1. Append(front, last - 1) \in Seq(0 .. MaxItems)
        BY <3>3
      <4>2. QED
        BY <3>4, <4>1
    <3>10. QED
      BY <3>6, <3>7, <3>8, <3>9
  <2>3. QED
    BY <2>1, <2>2
<1> HIDE DEF rest, over
<1>2. Entered(stack, n) = IF n = 0 THEN rest ELSE Append(rest, n)
  BY DEF Entered, rest
<1>3. Begun(Open(stack), n) = IF n = 0 THEN over(Open(stack)) ELSE Append(over(Open(stack)), n)
  BY DEF Begun, over
<1>4. PICK r \in Seq(0 .. MaxItems) : r = rest
  BY <1>1
<1>5. Open(Append(r, n)) = IF n > 0 THEN Append(Open(r), n) ELSE Open(r)
  BY OpenAppend
<1>6. n > 0 <=> ~(n = 0)
  OBVIOUS
<1>7. Open(Append(rest, n)) = IF n = 0 THEN Open(rest) ELSE Append(Open(rest), n)
  BY <1>4, <1>5, <1>6
<1>8. CASE n = 0
  BY <1>8, <1>1, <1>2, <1>3
<1>9. CASE n # 0
  BY <1>9, <1>1, <1>2, <1>3, <1>7
<1>10. QED
  BY <1>8, <1>9

\* A container that is complete returns.
LEMMA OpenReturned ==
  ASSUME NEW stack \in Seq(0 .. MaxItems), stack # <<>>, stack[Len(stack)] = 0
  PROVE  Open(SubSeq(stack, 1, Len(stack) - 1)) = Open(stack)
<1>1. PICK front \in Seq(0 .. MaxItems) : \E last \in 0 .. MaxItems :
        /\ stack = Append(front, last) /\ stack[Len(stack)] = last
        /\ SubSeq(stack, 1, Len(stack) - 1) = front
  BY FrontAndLast
<1>2. stack = Append(front, 0) /\ SubSeq(stack, 1, Len(stack) - 1) = front
  BY <1>1
<1>3. 0 \in 0 .. MaxItems
  OBVIOUS
<1>4. Open(Append(front, 0)) = Open(front)
  BY <1>3, OpenAppend
<1>5. QED
  BY <1>2, <1>4

-----------------------------------------------------------------------------
(* The parser follows the serializer *)

\* The serializer writes a token.
LEMMA WriteInStep ==
  ASSUME TypeOK, TypeOK', InStep, ~broken, UNCHANGED <<left, broken>>,
         NEW t \in Token, wire' = Append(wire, t),
         Open(todo') = IF t.kind = "value" THEN Begun(Open(todo), t.size) ELSE Open(todo)
  PROVE  InStep'
<1>1. PICK n \in Nat : n = Len(wire)
  BY DEF TypeOK
<1>2. PICK h \in [1 .. Len(wire) + 1 -> Seq(Nat)] : Course(h)
  BY DEF InStep
<1>3. PICK d \in Seq(Nat) : d = Open(todo')
  <2>1. todo' \in Seq(0 .. MaxItems)
    BY DEF TypeOK
  <2>2. QED
    BY <2>1, OpenType
<1>4. /\ Len(wire') = n + 1 /\ wire'[n + 1] = t
      /\ \A i \in 1 .. n : wire'[i] = wire[i]
  <2>1. wire \in Seq(Token)
    BY DEF TypeOK
  <2>2. QED
    BY <1>1, <2>1
<1> DEFINE g == [i \in 1 .. n + 2 |-> IF i = n + 2 THEN d ELSE h[i]]
<1>5. g \in [1 .. n + 2 -> Seq(Nat)]
  BY <1>1, <1>2
<1>6. g[n + 2] = d /\ \A i \in 1 .. n + 1 : g[i] = h[i]
  BY <1>1
<1> HIDE DEF g
<1>7. /\ h[1] = Open(left) /\ h[n + 1] = Open(todo)
      /\ \A i \in 1 .. n :
           h[i + 1] = IF wire[i].kind = "value" THEN Begun(h[i], wire[i].size) ELSE h[i]
  BY <1>1, <1>2 DEF Course
<1>8. g[1] = Open(left')
  <2>1. 1 \in 1 .. n + 1
    OBVIOUS
  <2>2. QED
    BY <2>1, <1>6, <1>7
<1>9. ASSUME NEW i \in 1 .. n + 1
      PROVE  g[i + 1] = IF wire'[i].kind = "value" THEN Begun(g[i], wire'[i].size) ELSE g[i]
  <2>1. CASE i = n + 1
    <3>1. i + 1 = n + 2 /\ i \in 1 .. n + 1
      BY <2>1
    <3>2. g[i + 1] = d /\ g[i] = Open(todo) /\ wire'[i] = t
      BY <2>1, <3>1, <1>4, <1>6, <1>7
    <3>3. QED
      BY <3>2, <1>3
  <2>2. CASE i # n + 1
    <3>1. i \in 1 .. n /\ i + 1 \in 1 .. n + 1 /\ i \in 1 .. n + 1
      BY <2>2
    <3>2. g[i + 1] = h[i + 1] /\ g[i] = h[i] /\ wire'[i] = wire[i]
      BY <3>1, <1>4, <1>6
    <3>3. QED
      BY <3>1, <3>2, <1>7
  <2>3. QED
    BY <2>1, <2>2
<1>10. Len(wire') + 1 = n + 2 /\ g[n + 2] = Open(todo')
  BY <1>3, <1>4, <1>6
<1>11. Course(g)'
  BY <1>4, <1>8, <1>9, <1>10 DEF Course
<1>12. g \in [1 .. Len(wire') + 1 -> Seq(Nat)]
  BY <1>5, <1>10
<1>13. QED
  BY <1>11, <1>12 DEF InStep

\* The parser reads a token.
LEMMA ReadInStep ==
  ASSUME TypeOK, InStep, wire # <<>>, wire' = Tail(wire), UNCHANGED <<todo, broken>>,
         Open(left') =
           IF wire[1].kind = "value" THEN Begun(Open(left), wire[1].size) ELSE Open(left)
  PROVE  InStep'
<1>1. PICK n \in Nat : Len(wire) = n + 1
  <2>1. Len(wire) \in Nat /\ Len(wire) # 0
    BY DEF TypeOK
  <2>2. Len(wire) - 1 \in Nat /\ Len(wire) = (Len(wire) - 1) + 1
    BY <2>1
  <2>3. QED
    BY <2>2
<1>2. PICK h \in [1 .. Len(wire) + 1 -> Seq(Nat)] : Course(h)
  BY DEF InStep
<1>3. Len(wire') = n /\ \A i \in 1 .. n : wire'[i] = wire[i + 1]
  <2>1. wire \in Seq(Token)
    BY DEF TypeOK
  <2>2. QED
    BY <1>1, <2>1
<1> DEFINE g == [i \in 1 .. n + 1 |-> h[i + 1]]
<1>4. g \in [1 .. n + 1 -> Seq(Nat)]
  BY <1>1, <1>2
<1>5. \A i \in 1 .. n + 1 : g[i] = h[i + 1]
  OBVIOUS
<1> HIDE DEF g
<1>6. /\ h[1] = Open(left)
      /\ ~broken => h[(n + 1) + 1] = Open(todo)
      /\ \A i \in 1 .. n + 1 :
           h[i + 1] = IF wire[i].kind = "value" THEN Begun(h[i], wire[i].size) ELSE h[i]
  BY <1>1, <1>2 DEF Course
<1>7. g[1] = Open(left')
  <2>1. 1 \in 1 .. n + 1 /\ g[1] = h[1 + 1]
    BY <1>5
  <2>2. QED
    BY <2>1, <1>6
<1>8. ASSUME NEW i \in 1 .. n
      PROVE  g[i + 1] = IF wire'[i].kind = "value" THEN Begun(g[i], wire'[i].size) ELSE g[i]
  <2>1. i + 1 \in 1 .. n + 1 /\ i \in 1 .. n + 1
    OBVIOUS
  <2>2. g[i + 1] = h[(i + 1) + 1] /\ g[i] = h[i + 1] /\ wire'[i] = wire[i + 1]
    BY <2>1, <1>3, <1>5
  <2>3. QED
    BY <2>1, <2>2, <1>6
<1>9. ~broken' => g[n + 1] = Open(todo')
  <2>1. n + 1 \in 1 .. n + 1
    OBVIOUS
  <2>2. QED
    BY <2>1, <1>5, <1>6
<1>10. Course(g)'
  BY <1>3, <1>7, <1>8, <1>9 DEF Course
<1>11. g \in [1 .. Len(wire') + 1 -> Seq(Nat)]
  BY <1>3, <1>4
<1>12. QED
  BY <1>10, <1>11 DEF InStep

\* Nothing goes over the wire, and the containers stay as they are.
LEMMA StillInStep ==
  ASSUME InStep, wire' = wire, Open(left') = Open(left),
         ~broken' => ~broken /\ Open(todo') = Open(todo)
  PROVE  InStep'
<1>1. PICK h \in [1 .. Len(wire) + 1 -> Seq(Nat)] : Course(h)
  BY DEF InStep
<1>2. Course(h)'
  BY <1>1 DEF Course
<1>3. QED
  BY <1>1, <1>2 DEF InStep

\* What is put on the wire is a token.
LEMMA PutIsToken ==
  ASSUME TypeOK, NEW kind \in {"key", "ref", "value", "padding"}, NEW of \in Names,
         NEW back \in 0 .. Window - 1, NEW size \in 0 .. MaxItems, Put(kind, of, back, size)
  PROVE  \E t \in Token : /\ t.kind = kind /\ t.size = size /\ t.of = of
                          /\ wire' = Append(wire, t)
<1>1. Len(log) \in Nat
  BY DEF TypeOK
<1>2. PICK t \in Token :
        t = [kind |-> kind, of |-> of, back |-> back, size |-> size, at |-> Len(log)]
  BY <1>1 DEF Token
<1>3. QED
  BY <1>2 DEF Put

\* Nothing is on its way and nothing is open.
LEMMA EmptyInStep ==
  ASSUME wire = <<>>, left = <<>>, broken \/ todo = <<>>
  PROVE  InStep
<1>1. PICK none \in Seq(Nat) : none = <<>>
  <2>1. <<>> \in Seq(Nat)
    OBVIOUS
  <2>2. QED
    BY <2>1
<1> DEFINE h == [i \in 1 .. 1 |-> none]
<1>2. Len(wire) = 0
  OBVIOUS
<1>3. Course(h)
  BY <1>1, <1>2, OpenEmpty DEF Course
<1>4. h \in [1 .. Len(wire) + 1 -> Seq(Nat)]
  BY <1>1, <1>2
<1>5. QED
  BY <1>3, <1>4 DEF InStep

\* Everything was thrown away.
LEMMA EmptiedInStep ==
  ASSUME wire' = <<>>, left' = <<>>, broken' \/ todo' = <<>>
  PROVE  InStep'
<1>1. PICK none \in Seq(Nat) : none = <<>>
  <2>1. <<>> \in Seq(Nat)
    OBVIOUS
  <2>2. QED
    BY <2>1
<1> DEFINE h == [i \in 1 .. 1 |-> none]
<1>2. Len(wire') = 0
  OBVIOUS
<1>3. Course(h)'
  BY <1>1, <1>2, OpenEmpty DEF Course
<1>4. h \in [1 .. Len(wire') + 1 -> Seq(Nat)]
  BY <1>1, <1>2
<1>5. QED
  BY <1>3, <1>4 DEF InStep

\* One step per action.
LEMMA InStepKeeps ==
  ASSUME BInv, BInv', InStep, [Next]_vars
  PROVE  InStep'
<1>0. TypeOK /\ TypeOK' /\ todo \in Seq(0 .. MaxItems) /\ left \in Seq(0 .. MaxItems)
  BY DEF BInv, TypeOK
<1>1. CASE SerializeReturns
  <2>1. todo # <<>> /\ todo[Len(todo)] = 0 /\ todo' = SubSeq(todo, 1, Len(todo) - 1)
        /\ UNCHANGED <<left, wire, broken>>
    BY <1>1 DEF SerializeReturns, parserVars
  <2>2. Open(todo') = Open(todo)
    BY <2>1, <1>0, OpenReturned
  <2>3. QED
    BY <2>1, <2>2, StillInStep
<1>2. CASE Pad
  <2>1. ~broken /\ Put("padding", NoKey, 0, 0) /\ UNCHANGED <<left, broken, todo>>
    BY <1>2 DEF Pad, serializerVars, parserVars
  <2>2. PICK t \in Token : t.kind = "padding" /\ wire' = Append(wire, t)
    <3>1. NoKey \in Names /\ 0 \in 0 .. Window - 1 /\ 0 \in 0 .. MaxItems
      BY DEF Names
    <3>2. QED
      BY <3>1, <2>1, <1>0, PutIsToken
  <2>3. QED
    BY <2>1, <2>2, <1>0, WriteInStep
<1>3. ASSUME NEW k \in Key, SerializeKey(k)
      PROVE  InStep'
  <2>1. /\ ~broken /\ UNCHANGED <<left, broken, todo>>
        /\ IF compress /\ InReach(k) THEN Put("ref", k, Distance(k), 0) ELSE Put("key", k, 0, 0)
    BY <1>3 DEF SerializeKey, Due, parserVars
  <2>2. PICK t \in Token : t.kind # "value" /\ wire' = Append(wire, t)
    <3>1. CASE compress /\ InReach(k)
      <4>1. Distance(k) \in 0 .. Window - 1
        BY <3>1, <1>0, ReachedKey DEF BInv
      <4>2. QED
        BY <3>1, <4>1, <2>1, <1>0, PutIsToken DEF Names
    <3>2. CASE ~(compress /\ InReach(k))
      BY <3>2, <2>1, <1>0, PutIsToken DEF Names
    <3>3. QED
      BY <3>1, <3>2
  <2>3. QED
    BY <2>1, <2>2, <1>0, WriteInStep
<1>4. ASSUME NEW k \in Key, SerializeThrows(k)
      PROVE  InStep'
  BY <1>4, StillInStep DEF SerializeThrows, parserVars
<1>5. ASSUME NEW k \in Key, PreloadKey(k)
      PROVE  InStep'
  BY <1>5, StillInStep DEF PreloadKey
<1>6. ASSUME NEW n \in 0 .. MaxItems, SerializeValue(n)
      PROVE  InStep'
  <2>1. /\ ~broken /\ Expected(todo) /\ UNCHANGED <<left, broken>>
        /\ Put("value", pending, 0, n) /\ todo' = Entered(todo, n)
    BY <1>6 DEF SerializeValue, Due, parserVars
  <2>2. PICK t \in Token : t.kind = "value" /\ t.size = n /\ wire' = Append(wire, t)
    <3>1. pending \in Names
      BY <1>0 DEF TypeOK
    <3>2. QED
      BY <3>1, <2>1, <1>0, PutIsToken
  <2>3. Open(todo') = Begun(Open(todo), n)
    BY <2>1, <1>0, OpenEntered
  <2>4. QED
    BY <2>1, <2>2, <2>3, <1>0, WriteInStep
<1>7. CASE ParseKey \/ ParseReference
  <2>1. /\ wire # <<>> /\ wire[1].kind # "value" /\ wire' = Tail(wire)
        /\ UNCHANGED <<todo, broken, left>>
    BY <1>7 DEF ParseKey, ParseReference, Take, serializerVars
  <2>2. QED
    BY <2>1, <1>0, ReadInStep
<1>8. CASE ParseValue
  <2>1. /\ wire # <<>> /\ wire[1].kind = "value" /\ wire' = Tail(wire)
        /\ Expected(left) /\ left' = Entered(left, wire[1].size) /\ UNCHANGED <<todo, broken>>
    BY <1>8 DEF ParseValue, Take, serializerVars
  <2>2. wire[1].size \in 0 .. MaxItems
    <3>1. wire[1] \in Token
      BY <2>1, FirstToken DEF BInv
    <3>2. QED
      BY <3>1 DEF Token
  <2>3. Open(left') = Begun(Open(left), wire[1].size)
    BY <2>1, <2>2, <1>0, OpenEntered
  <2>4. QED
    BY <2>1, <2>3, <1>0, ReadInStep
<1>9. CASE ParseReturns
  <2>1. left # <<>> /\ left[Len(left)] = 0 /\ left' = SubSeq(left, 1, Len(left) - 1)
        /\ UNCHANGED <<todo, wire, broken>>
    BY <1>9 DEF ParseReturns, serializerVars
  <2>2. Open(left') = Open(left)
    BY <2>1, <1>0, OpenReturned
  <2>3. QED
    BY <2>1, <2>2, StillInStep
<1>10. CASE ParseUnknown \/ ParseThrows \/ ClearKeys
  <2>1. wire' = <<>> /\ left' = <<>> /\ (broken' \/ todo' = <<>>)
    BY <1>10 DEF ParseUnknown, ParseThrows, ClearKeys
  <2>2. QED
    BY <2>1, EmptiedInStep
<1>11. CASE UNCHANGED vars
  <2>1. UNCHANGED <<left, todo, wire, broken>>
    BY <1>11 DEF vars, serializerVars, parserVars
  <2>2. QED
    BY <2>1, StillInStep
<1>12. QED
  BY <1>1, <1>2, <1>3, <1>4, <1>5, <1>6, <1>7, <1>8, <1>9, <1>10, <1>11 DEF Next

-----------------------------------------------------------------------------
(* Theorems *)

LEMMA NextKeeps == BInv /\ [Next]_vars => BInv'
<1> SUFFICES ASSUME BInv, [Next]_vars PROVE BInv'
  OBVIOUS
<1>1. CASE SerializeReturns
  BY <1>1, SerializeReturnsKeeps
<1>2. CASE Pad
  BY <1>2, PadKeeps
<1>3. CASE \E k \in Key : SerializeKey(k) \/ SerializeThrows(k) \/ PreloadKey(k)
  BY <1>3, SerializeKeyKeeps, SerializeThrowsKeeps, PreloadKeyKeeps
<1>4. CASE \E n \in 0 .. MaxItems : SerializeValue(n)
  BY <1>4, SerializeValueKeeps
<1>5. CASE ParseKey \/ ParseReference \/ ParseValue \/ ParseReturns
  BY <1>5, ParseKeyKeeps, ParseReferenceKeeps, ParseValueKeeps, ParseReturnsKeeps
<1>6. CASE ParseUnknown \/ ParseThrows
  <2>1. /\ wire' = <<>> /\ broken' = TRUE /\ left' = <<>> /\ name' = NoKey
        /\ UNCHANGED <<serializerVars, keyHistory, keyIndex, got>>
    BY <1>6 DEF ParseUnknown, ParseThrows
  <2>2. QED
    BY <2>1, ParserGivesUp
<1>7. CASE ClearKeys
  BY <1>7, ClearKeysKeeps
<1>8. CASE UNCHANGED vars
  <2>1. /\ UNCHANGED <<compress, keyMap, nextKeyId, todo, pending, log, wire, broken>>
        /\ UNCHANGED <<keyHistory, keyIndex, left, name, got>>
    BY <1>8 DEF vars, serializerVars, parserVars
  <2>2. TypeOK' /\ NamesAgree' /\ Numbered'
    BY <2>1 DEF BInv, TypeOK, NamesAgree, Numbered
  <2>3. Remembered' /\ WireInv'
    BY <2>1 DEF BInv, Remembered, Slot, WireInv, TruthfulWire, Truthful, Joined,
                Reading, Writing, Idle
  <2>4. QED
    BY <2>2, <2>3 DEF BInv
<1>9. QED
  BY <1>1, <1>2, <1>3, <1>4, <1>5, <1>6, <1>7, <1>8 DEF Next

\* The dictionaries of serializer and parser, and the tokens between them,
\* fit together in every reachable state.
THEOREM KeysInductive == Spec => []BInv
<1>1. Init => BInv
  BY InitBInv
<1>2. BInv /\ [Next]_vars => BInv'
  BY NextKeeps
<1>3. QED
  BY <1>1, <1>2, PTL DEF Spec

\* Every variable has its type; the ring never outgrows the window
\* (BinaryParser::storeKey).
THEOREM KeysTypes == Spec => []TypeOK
<1>1. BInv => TypeOK
  BY DEF BInv
<1>2. QED
  BY <1>1, KeysInductive, PTL

\* Whatever keys go by, the parser gives every item the name the serializer
\* was given (tryCompressKey against storeKey and parseItem).
THEOREM NamesAlwaysAgree == Spec => []NamesAgree
<1>1. BInv => NamesAgree
  BY DEF BInv
<1>2. QED
  BY <1>1, KeysInductive, PTL

\* Both invariants together, in every reachable state.
LEMMA StepInvariant == Spec => [](BInv /\ InStep)
<1>1. Init => InStep
  BY EmptyInStep DEF Init
<1>2. Init => BInv
  BY InitBInv
<1>3. BInv /\ InStep /\ [Next]_vars => (BInv /\ InStep)'
  BY NextKeeps, InStepKeeps
<1>4. QED
  BY <1>1, <1>2, <1>3, PTL DEF Spec

\* A parser with nothing left to read is in the same containers as the
\* serializer, with the same number of items to come in each, has read the
\* same key, and has stored as many keys as were numbered.
THEOREM ParserCatchesUp == Spec => []CaughtUp
<1>1. ASSUME BInv, InStep, wire = <<>>, ~broken
      PROVE  /\ Open(left) = Open(todo) /\ name = pending
             /\ compress => keyIndex = nextKeyId - FirstId
  <2>1. PICK h \in [1 .. Len(wire) + 1 -> Seq(Nat)] : Course(h)
    BY <1>1 DEF InStep
  <2>2. Len(wire) + 1 = 1
    BY <1>1
  <2>3. h[1] = Open(left) /\ h[1] = Open(todo)
    BY <2>1, <2>2, <1>1 DEF Course
  <2>4. name = pending /\ (compress => keyIndex = Len(log)) /\ Len(log) = nextKeyId - FirstId
    BY <1>1 DEF BInv, WireInv, Idle, Numbered
  <2>5. QED
    BY <2>3, <2>4
<1>2. BInv /\ InStep => CaughtUp
  BY <1>1 DEF CaughtUp
<1>3. QED
  BY <1>2, StepInvariant, PTL

-----------------------------------------------------------------------------
(* The items on their way *)

ItemOf(token) == [name |-> token.of, size |-> token.size]
ValuesOf(w) == Selected(w, {i \in 1 .. Len(w) : w[i].kind = "value"})
ItemsOf(w) == [i \in 1 .. Len(ValuesOf(w)) |-> ItemOf(ValuesOf(w)[i])]

\* The mapping of the refinement, as a function of the wire.
LEMMA ItemsAre == Items = ItemsOf(wire) /\ Items' = ItemsOf(wire')
BY DEF Items, ItemsOf, ValuesOf, ItemOf

\* The values on the wire are tokens.
LEMMA ValuesType ==
  ASSUME NEW w \in Seq(Token)
  PROVE  ValuesOf(w) \in Seq(Token)
BY SelectedType DEF ValuesOf

\* Nothing on the wire, nothing on its way.
LEMMA ItemsEmpty == ItemsOf(<<>>) = <<>>
<1>1. ValuesOf(<<>>) = <<>>
  BY SelectedEmpty DEF ValuesOf
<1>2. Len(<<>>) = 0
  OBVIOUS
<1>3. ItemsOf(<<>>) = [i \in 1 .. 0 |-> ItemOf(ValuesOf(<<>>)[i])]
  BY <1>1, <1>2 DEF ItemsOf
<1>4. [i \in 1 .. 0 |-> ItemOf(ValuesOf(<<>>)[i])] = <<>>
  OBVIOUS
<1>5. QED
  BY <1>3, <1>4

\* The items of a sequence with one more, and with one less.
LEMMA Mapped ==
  ASSUME NEW v \in Seq(Token), NEW t \in Token
  PROVE  [i \in 1 .. Len(Append(v, t)) |-> ItemOf(Append(v, t)[i])] =
           Append([i \in 1 .. Len(v) |-> ItemOf(v[i])], ItemOf(t))
<1>1. PICK n \in Nat : n = Len(v)
  OBVIOUS
<1>2. PICK u \in Seq(Token) : u = Append(v, t)
  <2>1. Append(v, t) \in Seq(Token)
    OBVIOUS
  <2>2. QED
    BY <2>1
<1>3. Len(u) = n + 1 /\ u[n + 1] = t /\ \A i \in 1 .. n : u[i] = v[i]
  BY <1>1, <1>2
<1>4. PICK m : m = [i \in 1 .. n |-> ItemOf(v[i])]
  OBVIOUS
<1>5. [i \in 1 .. n + 1 |-> ItemOf(u[i])] = Append(m, ItemOf(t))
  BY <1>3, <1>4
<1>6. QED
  BY <1>1, <1>2, <1>3, <1>4, <1>5

\* The first item is that of the first value.
LEMMA MappedTail ==
  ASSUME NEW v \in Seq(Token), v # <<>>
  PROVE  LET m == [i \in 1 .. Len(v) |-> ItemOf(v[i])]
         IN  /\ m # <<>> /\ Head(m) = ItemOf(v[1])
             /\ Tail(m) = [i \in 1 .. Len(Tail(v)) |-> ItemOf(Tail(v)[i])]
<1>1. PICK n \in Nat : Len(v) = n + 1
  <2>1. Len(v) \in Nat /\ Len(v) # 0
    OBVIOUS
  <2>2. Len(v) - 1 \in Nat /\ Len(v) = (Len(v) - 1) + 1
    BY <2>1
  <2>3. QED
    BY <2>2
<1>2. PICK u \in Seq(Token) : u = Tail(v)
  <2>1. Tail(v) \in Seq(Token)
    OBVIOUS
  <2>2. QED
    BY <2>1
<1>3. Len(u) = n /\ \A i \in 1 .. n : u[i] = v[i + 1]
  BY <1>1, <1>2
<1>4. PICK m : m = [i \in 1 .. n + 1 |-> ItemOf(v[i])]
  OBVIOUS
<1>5. Len(m) = n + 1 /\ \A i \in 1 .. n + 1 : m[i] = ItemOf(v[i])
  BY <1>4
<1>6. m # <<>> /\ Head(m) = ItemOf(v[1])
  BY <1>4, <1>5
<1>7. Tail(m) = [i \in 1 .. n |-> ItemOf(v[i + 1])]
  BY <1>4, <1>5
<1>8. QED
  BY <1>1, <1>2, <1>3, <1>4, <1>6, <1>7

\* A token is written.
LEMMA ItemsAppend ==
  ASSUME NEW w \in Seq(Token), NEW t \in Token
  PROVE  ItemsOf(Append(w, t)) =
           IF t.kind = "value" THEN Append(ItemsOf(w), ItemOf(t)) ELSE ItemsOf(w)
<1>1. PICK s \in Seq(Token) : s = Append(w, t)
  <2>1. Append(w, t) \in Seq(Token)
    OBVIOUS
  <2>2. QED
    BY <2>1
<1>2. PICK p : p = {i \in 1 .. Len(w) : w[i].kind = "value"}
  OBVIOUS
<1>3. PICK q : q = {i \in 1 .. Len(s) : s[i].kind = "value"}
  OBVIOUS
<1>4. Len(s) = Len(w) + 1 /\ s[Len(w) + 1] = t /\ Len(w) \in Nat
      /\ \A i \in 1 .. Len(w) : s[i] = w[i]
  BY <1>1
<1>5. \A i \in 1 .. Len(w) : i \in p <=> i \in q
  BY <1>2, <1>3, <1>4
<1>6. Len(w) + 1 \in q <=> t.kind = "value"
  BY <1>3, <1>4
<1>7. Selected(Append(w, t), q) =
        IF Len(w) + 1 \in q THEN Append(Selected(w, p), t) ELSE Selected(w, p)
  BY <1>5, SelectedAppend
<1>8. ValuesOf(w) = Selected(w, p) /\ ValuesOf(s) = Selected(s, q)
  BY <1>2, <1>3 DEF ValuesOf
<1>9. PICK v \in Seq(Token) : v = ValuesOf(w)
  BY ValuesType
<1>10. ValuesOf(s) = IF t.kind = "value" THEN Append(v, t) ELSE v
  BY <1>1, <1>6, <1>7, <1>8, <1>9
<1>11. CASE t.kind = "value"
  <2>1. ItemsOf(s) = [i \in 1 .. Len(Append(v, t)) |-> ItemOf(Append(v, t)[i])]
    BY <1>10, <1>11 DEF ItemsOf
  <2>2. ItemsOf(w) = [i \in 1 .. Len(v) |-> ItemOf(v[i])]
    BY <1>9 DEF ItemsOf
  <2>3. QED
    BY <2>1, <2>2, <1>1, <1>11, Mapped
<1>12. CASE t.kind # "value"
  BY <1>1, <1>9, <1>10, <1>12 DEF ItemsOf
<1>13. QED
  BY <1>11, <1>12

\* A token is read.
LEMMA ItemsTail ==
  ASSUME NEW w \in Seq(Token), w # <<>>
  PROVE  IF w[1].kind = "value"
         THEN /\ ItemsOf(w) # <<>> /\ Head(ItemsOf(w)) = ItemOf(w[1])
              /\ ItemsOf(Tail(w)) = Tail(ItemsOf(w))
         ELSE ItemsOf(Tail(w)) = ItemsOf(w)
<1>1. PICK s \in Seq(Token) : s = Tail(w)
  <2>1. Tail(w) \in Seq(Token)
    OBVIOUS
  <2>2. QED
    BY <2>1
<1>2. PICK p : p = {i \in 1 .. Len(w) : w[i].kind = "value"}
  OBVIOUS
<1>3. PICK q : q = {i \in 1 .. Len(s) : s[i].kind = "value"}
  OBVIOUS
<1>4. Len(s) = Len(w) - 1 /\ Len(w) \in Nat \ {0}
      /\ \A i \in 1 .. Len(w) - 1 : s[i] = w[i + 1]
  BY <1>1
<1>5. \A i \in 1 .. Len(w) - 1 : i \in q <=> i + 1 \in p
  BY <1>2, <1>3, <1>4
<1>6. 1 \in p <=> w[1].kind = "value"
  BY <1>2, <1>4
<1>7. IF 1 \in p
      THEN /\ Selected(w, p) # <<>> /\ Selected(w, p)[1] = w[1]
           /\ Tail(Selected(w, p)) = Selected(Tail(w), q)
      ELSE Selected(w, p) = Selected(Tail(w), q)
  BY <1>5, SelectedTail
<1>8. ValuesOf(w) = Selected(w, p) /\ ValuesOf(s) = Selected(s, q)
  BY <1>2, <1>3 DEF ValuesOf
<1>9. PICK v \in Seq(Token) : v = ValuesOf(w)
  BY ValuesType
<1>10. ItemsOf(w) = [i \in 1 .. Len(v) |-> ItemOf(v[i])]
  BY <1>9 DEF ItemsOf
<1>11. CASE w[1].kind = "value"
  <2>1. v # <<>> /\ v[1] = w[1] /\ ValuesOf(s) = Tail(v)
    BY <1>1, <1>6, <1>7, <1>8, <1>9, <1>11
  <2>2. ItemsOf(s) = [i \in 1 .. Len(Tail(v)) |-> ItemOf(Tail(v)[i])]
    BY <2>1 DEF ItemsOf
  <2>3. PICK m : m = [i \in 1 .. Len(v) |-> ItemOf(v[i])]
    OBVIOUS
  <2>4. m # <<>> /\ Head(m) = ItemOf(v[1])
        /\ Tail(m) = [i \in 1 .. Len(Tail(v)) |-> ItemOf(Tail(v)[i])]
    BY <2>1, <2>3, MappedTail
  <2>5. QED
    BY <2>1, <2>2, <2>3, <2>4, <1>1, <1>10, <1>11
<1>12. CASE w[1].kind # "value"
  BY <1>1, <1>6, <1>7, <1>8, <1>12 DEF ItemsOf
<1>13. QED
  BY <1>11, <1>12

-----------------------------------------------------------------------------
(* Refinement *)

\* What does not change what the reader of the documents sees.
LEMMA Silent ==
  ASSUME Items' = Items, got' = got
  PROVE  UNCHANGED Transfer!ivars
BY DEF Transfer!ivars

\* Only a value adds an item to those on their way.
LEMMA TokenWritten ==
  ASSUME TypeOK, NEW kind \in {"key", "ref", "value", "padding"}, NEW of \in Names,
         NEW back \in 0 .. Window - 1, NEW size \in 0 .. MaxItems, Put(kind, of, back, size)
  PROVE  Items' = IF kind = "value" THEN Append(Items, [name |-> of, size |-> size]) ELSE Items
<1>1. PICK t \in Token : t.kind = kind /\ t.size = size /\ t.of = of /\ wire' = Append(wire, t)
  BY PutIsToken
<1>2. wire \in Seq(Token)
  BY DEF TypeOK
<1>3. PICK w \in Seq(Token) : w = wire
  BY <1>2
<1>4. ItemsOf(Append(w, t)) =
        IF t.kind = "value" THEN Append(ItemsOf(w), ItemOf(t)) ELSE ItemsOf(w)
  BY ItemsAppend
<1>5. ItemOf(t) = [name |-> of, size |-> size]
  BY <1>1 DEF ItemOf
<1>6. QED
  BY <1>1, <1>3, <1>4, <1>5, ItemsAre

\* Only a value takes one away, the first.
LEMMA TokenRead ==
  ASSUME TypeOK, wire # <<>>, wire' = Tail(wire)
  PROVE  IF wire[1].kind = "value"
         THEN /\ Items # <<>> /\ Head(Items) = [name |-> wire[1].of, size |-> wire[1].size]
              /\ Items' = Tail(Items)
         ELSE Items' = Items
<1>1. PICK w \in Seq(Token) : w = wire
  BY DEF TypeOK
<1>2. IF w[1].kind = "value"
      THEN /\ ItemsOf(w) # <<>> /\ Head(ItemsOf(w)) = ItemOf(w[1])
           /\ ItemsOf(Tail(w)) = Tail(ItemsOf(w))
      ELSE ItemsOf(Tail(w)) = ItemsOf(w)
  BY <1>1, ItemsTail
<1>3. ItemOf(w[1]) = [name |-> w[1].of, size |-> w[1].size]
  BY DEF ItemOf
<1>4. QED
  BY <1>1, <1>2, <1>3, ItemsAre

\* Initial states map to initial states.
LEMMA InitRefines == Init => Transfer!IInit
<1> SUFFICES ASSUME Init PROVE Transfer!IInit
  OBVIOUS
<1>1. Items = <<>>
  BY ItemsAre, ItemsEmpty DEF Init
<1>2. [name |-> got.name, size |-> got.size] \in [name : Names, size : 0 .. MaxItems]
  BY DEF Init, Names
<1>3. QED
  BY <1>1, <1>2 DEF Transfer!IInit

\* A value written is Write, a value read is Read, an end that breaks or a
\* cleared dictionary is Lose; keys, references and padding change nothing.
LEMMA StepRefines == BInv /\ [Next]_vars => [Transfer!INext]_(Transfer!ivars)
<1> SUFFICES ASSUME BInv, [Next]_vars PROVE [Transfer!INext]_(Transfer!ivars)
  OBVIOUS
<1>0. TypeOK
  BY DEF BInv
<1>1. ASSUME wire' = wire, got' = got
      PROVE  UNCHANGED Transfer!ivars
  BY <1>1, ItemsAre, Silent
<1>2. CASE SerializeReturns
  BY <1>1, <1>2 DEF SerializeReturns, parserVars
<1>3. CASE Pad
  <2>1. Put("padding", NoKey, 0, 0) /\ got' = got
    BY <1>3 DEF Pad, parserVars
  <2>2. NoKey \in Names /\ 0 \in 0 .. Window - 1 /\ 0 \in 0 .. MaxItems
    BY DEF Names
  <2>3. Items' = Items
    BY <2>1, <2>2, <1>0, TokenWritten
  <2>4. QED
    BY <2>1, <2>3, Silent
<1>4. ASSUME NEW k \in Key, SerializeKey(k)
      PROVE  UNCHANGED Transfer!ivars
  <2>1. /\ got' = got
        /\ IF compress /\ InReach(k) THEN Put("ref", k, Distance(k), 0) ELSE Put("key", k, 0, 0)
    BY <1>4 DEF SerializeKey, parserVars
  <2>2. k \in Names /\ 0 \in 0 .. Window - 1 /\ 0 \in 0 .. MaxItems
    BY DEF Names
  <2>3. Items' = Items
    <3>1. CASE compress /\ InReach(k)
      <4>1. Distance(k) \in 0 .. Window - 1
        BY <3>1, ReachedKey DEF BInv
      <4>2. QED
        BY <3>1, <4>1, <2>1, <2>2, <1>0, TokenWritten
    <3>2. CASE ~(compress /\ InReach(k))
      BY <3>2, <2>1, <2>2, <1>0, TokenWritten
    <3>3. QED
      BY <3>1, <3>2
  <2>4. QED
    BY <2>1, <2>3, Silent
<1>5. ASSUME NEW k \in Key, SerializeThrows(k) \/ PreloadKey(k)
      PROVE  UNCHANGED Transfer!ivars
  <2>1. wire' = wire /\ got' = got
    BY <1>5 DEF SerializeThrows, PreloadKey, parserVars
  <2>2. QED
    BY <2>1, <1>1
<1>6. ASSUME NEW n \in 0 .. MaxItems, SerializeValue(n)
      PROVE  Transfer!INext
  <2>1. Put("value", pending, 0, n) /\ got' = got
    BY <1>6 DEF SerializeValue, parserVars
  <2>2. pending \in Names /\ 0 \in 0 .. Window - 1
    BY <1>0 DEF TypeOK
  <2>3. Items' = Append(Items, [name |-> pending, size |-> n])
    BY <2>1, <2>2, <1>0, TokenWritten
  <2>4. [name |-> pending, size |-> n] \in [name : Names, size : 0 .. MaxItems]
    BY <2>2
  <2>5. Transfer!Write([name |-> pending, size |-> n])
    BY <2>1, <2>3 DEF Transfer!Write
  <2>6. QED
    BY <2>4, <2>5 DEF Transfer!INext
<1>7. CASE ParseKey \/ ParseReference
  <2>1. wire # <<>> /\ wire[1].kind # "value" /\ wire' = Tail(wire) /\ got' = got
    BY <1>7 DEF ParseKey, ParseReference, Take
  <2>2. Items' = Items
    BY <2>1, <1>0, TokenRead
  <2>3. QED
    BY <2>1, <2>2, Silent
<1>8. CASE ParseValue
  <2>1. /\ wire # <<>> /\ wire[1].kind = "value" /\ wire' = Tail(wire)
        /\ got' = [name |-> name, size |-> wire[1].size, of |-> wire[1].of]
    BY <1>8 DEF ParseValue, Take
  <2>2. name = wire[1].of
    <3>1. name = NameBefore(wire[1])
      BY <2>1, FirstToken DEF BInv
    <3>2. QED
      BY <3>1, <2>1 DEF NameBefore
  <2>3. /\ Items # <<>> /\ Head(Items) = [name |-> wire[1].of, size |-> wire[1].size]
        /\ Items' = Tail(Items)
    BY <2>1, <1>0, TokenRead
  <2>4. [name |-> got'.name, size |-> got'.size] = Head(Items)
    BY <2>1, <2>2, <2>3
  <2>5. Transfer!Read
    BY <2>3, <2>4 DEF Transfer!Read
  <2>6. QED
    BY <2>5 DEF Transfer!INext
<1>9. CASE ParseReturns
  BY <1>1, <1>9 DEF ParseReturns
<1>10. CASE ParseUnknown \/ ParseThrows \/ ClearKeys
  <2>1. wire' = <<>> /\ got' = got
    BY <1>10 DEF ParseUnknown, ParseThrows, ClearKeys
  <2>2. Items' = <<>>
    BY <2>1, ItemsAre, ItemsEmpty
  <2>3. Transfer!Lose
    BY <2>1, <2>2 DEF Transfer!Lose
  <2>4. QED
    BY <2>3 DEF Transfer!INext
<1>11. CASE UNCHANGED vars
  BY <1>1, <1>11 DEF vars, parserVars
<1>12. QED
  BY <1>2, <1>3, <1>4, <1>5, <1>6, <1>7, <1>8, <1>9, <1>10, <1>11 DEF Next

\* The documents read are the documents written: every item arrives in order,
\* with its name and its size, until an end throws.
THEOREM DocumentsArrive == Spec => Implements
<1>1. Init => Transfer!IInit
  BY InitRefines
<1>2. BInv /\ [Next]_vars => [Transfer!INext]_(Transfer!ivars)
  BY StepRefines
<1>3. QED
  BY <1>1, <1>2, KeysInductive, PTL DEF Spec, Implements, Transfer!ISpec
=============================================================================
