----------------------------- MODULE MessageProof -----------------------------
(***************************************************************************)
(* Proofs about Message, for every size of keys, hashes and lengths: what  *)
(* the parser gives out covers the message without gap or overlap, and the *)
(* keys that are looked at lie inside the array of keys.                   *)
(***************************************************************************)
EXTENDS MessageProps, TLAPS

-----------------------------------------------------------------------------
(* The inductive invariant.                                                *)

BodyPhases ==
    {"body", "program", "accounts", "data", "validate", "dispatch", "tables",
     "end", "parsed"}

AfterKeys == {"hash", "length", "signer"} \cup BodyPhases

KeysIndex == IF header.versioned THEN 3 ELSE 2

(* Before the keys there are their header and, perhaps, a version.         *)
HeaderSpans ==
    /\ phase = "version" => Len(spans) = 0
    /\ phase = "header" => Len(spans) = KeysIndex - 2
    /\ phase = "keys" => Len(spans) = KeysIndex - 1

(* The array of keys has room for as many keys as the header says.         *)
KeysKept ==
    phase \in AfterKeys =>
        /\ KeysIndex <= Len(spans)
        /\ spans[KeysIndex][2]
               = spans[KeysIndex][1] + header.keys * PUBKEY_SIZE

SignerKept == phase \in BodyPhases => signer < header.signatures

(* A message with an instruction that is valid has a key.                  *)
KeysExist == phase \in {"tables", "end", "parsed"} => header.keys > 0

DispatchIsValid == phase = "dispatch" => Valid

ParsedIsEmpty == phase = "parsed" => left = 0

MessageInv ==
    /\ MessageTypeOK
    /\ SpansTile
    /\ HeaderSpans
    /\ KeysKept
    /\ SignerKept
    /\ KeysExist
    /\ DispatchIsValid
    /\ ParsedIsEmpty

-----------------------------------------------------------------------------
(* Arithmetic.                                                             *)

LEMMA ProductIsMonotone ==
    ASSUME NEW a \in Nat, NEW b \in Nat, NEW p \in Nat, a <= b
    PROVE  a * p <= b * p
  <1>1. (b - a) * p >= 0
    OBVIOUS
  <1> QED BY <1>1

LEMMA DigitIsSmall ==
    ASSUME NEW a \in Nat
    PROVE  a % HALF \in 0..(HALF - 1)
  BY CompactLengthAssumption

LEMMA DigitsAreALength ==
    ASSUME NEW a \in 0..(HALF - 1), NEW b \in 0..(HALF - 1),
           NEW c \in 0..(HALF - 1)
    PROVE  a + HALF * b + HALF * HALF * c \in Lengths
  <1>1. HALF \in Nat /\ HALF > 0
    BY CompactLengthAssumption
  <1>2. b * HALF <= (HALF - 1) * HALF
    BY <1>1, ProductIsMonotone
  <1>3. HALF * HALF \in Nat
    BY <1>1
  <1>4. c * (HALF * HALF) <= (HALF - 1) * (HALF * HALF)
    BY <1>1, <1>3, ProductIsMonotone
  <1>5. a + HALF * b + HALF * HALF * c <= HALF * HALF * HALF - 1
    BY <1>1, <1>2, <1>4
  <1>6. a + HALF * b + HALF * HALF * c \in Nat
    BY <1>1
  <1> QED BY <1>1, <1>5, <1>6 DEF Lengths

(* One and two digits are three of which the others are zero.              *)
LEMMA FewDigitsAreALength ==
    ASSUME NEW a \in 0..(HALF - 1), NEW b \in 0..(HALF - 1)
    PROVE  a \in Lengths /\ a + HALF * b \in Lengths
  <1>1. HALF \in Nat /\ HALF > 0
    BY CompactLengthAssumption
  <1>2. b * HALF <= (HALF - 1) * HALF
    BY <1>1, ProductIsMonotone
  <1>3. 1 <= HALF * HALF
    BY <1>1
  <1>4. 1 * HALF <= HALF * HALF /\ HALF * HALF \in Nat
    BY <1>1, ProductIsMonotone
  <1>5. HALF * HALF <= HALF * HALF * HALF
    <2>1. 1 * (HALF * HALF) <= HALF * (HALF * HALF)
      BY <1>1, <1>4, ProductIsMonotone
    <2> QED BY <1>1, <2>1
  <1>6. a + HALF * b <= HALF * HALF - 1
    BY <1>1, <1>2
  <1>7. a + HALF * b \in Nat /\ a \in Nat
    BY <1>1
  <1>8. HALF * HALF * HALF \in Nat
    BY <1>1
  <1> QED BY <1>1, <1>4, <1>5, <1>6, <1>7, <1>8 DEF Lengths

LEMMA LengthIsALength ==
    ASSUME NEW code \in LengthCode
    PROVE  LengthOf(code) \in Lengths /\ Len(code) \in 1..3
  <1>1. HALF \in Nat /\ HALF > 0
    BY CompactLengthAssumption
  <1>2. CASE code \in {<<a>> : a \in 0..(HALF - 1)}
    <2>1. PICK a \in 0..(HALF - 1) : code = <<a>>
      BY <1>2
    <2>2. code[1] = a /\ Len(code) = 1
      BY <2>1
    <2>3. a % HALF \in 0..(HALF - 1)
      BY DigitIsSmall
    <2>4. LengthOf(code) = a % HALF
      BY <1>1, <2>2, <2>3 DEF LengthOf
    <2>5. a % HALF \in Lengths
      BY <1>1, <2>3, FewDigitsAreALength
    <2> QED BY <2>2, <2>4, <2>5
  <1>3. CASE code \in (HALF..(2 * HALF - 1)) \X (0..(HALF - 1))
    <2>1. /\ code = <<code[1], code[2]>>
          /\ code[1] \in Nat
          /\ code[2] \in Nat
          /\ Len(code) = 2
      BY <1>1, <1>3
    <2>2. code[1] % HALF \in 0..(HALF - 1) /\ code[2] % HALF \in 0..(HALF - 1)
      BY <2>1, DigitIsSmall
    <2>3. (code[1] % HALF) + HALF * (code[2] % HALF) \in Lengths
      BY <2>2, FewDigitsAreALength
    <2>4. (code[1] % HALF) + HALF * (code[2] % HALF) \in Nat
      BY <1>1, <2>2
    <2>5. LengthOf(code) = (code[1] % HALF) + HALF * (code[2] % HALF)
      BY <2>1, <2>4 DEF LengthOf
    <2> QED BY <2>1, <2>3, <2>5
  <1>4. CASE code \in (HALF..(2 * HALF - 1)) \X (HALF..(2 * HALF - 1)) \X Byte
    <2>1. /\ code = <<code[1], code[2], code[3]>>
          /\ code[1] \in Nat
          /\ code[2] \in Nat
          /\ code[3] \in Nat
          /\ Len(code) = 3
      BY <1>1, <1>4 DEF Byte
    <2>2. /\ code[1] % HALF \in 0..(HALF - 1)
          /\ code[2] % HALF \in 0..(HALF - 1)
          /\ code[3] % HALF \in 0..(HALF - 1)
      BY <2>1, DigitIsSmall
    <2>3. (code[1] % HALF) + HALF * (code[2] % HALF)
              + HALF * HALF * (code[3] % HALF) \in Lengths
      BY <2>2, DigitsAreALength
    <2> QED BY <1>1, <2>1, <2>2, <2>3 DEF LengthOf
  <1> QED BY <1>2, <1>3, <1>4 DEF LengthCode

(* No array of keys a header can ask for is larger than a size_t: the      *)
(* product does not wrap.                                                  *)
LEMMA KeysDoNotWrap ==
    ASSUME header.keys \in Lengths
    PROVE  PubkeysSize = header.keys * PUBKEY_SIZE /\ PubkeysSize \in Nat
  <1>1. HALF \in Nat /\ PUBKEY_SIZE \in Nat /\ PUBKEY_SIZE > 0
    BY CompactLengthAssumption, MessageAssumption
  <1>2. SIZE_VALUES \in Nat /\ SIZE_VALUES > 0
    BY MessageAssumption
  <1>3. header.keys \in Nat /\ header.keys + 1 <= HALF * HALF * HALF
    BY <1>1 DEF Lengths
  <1>4. (header.keys + 1) * PUBKEY_SIZE <= HALF * HALF * HALF * PUBKEY_SIZE
    <2>1. HALF * HALF * HALF \in Nat
      BY <1>1
    <2> QED BY <1>1, <1>3, <2>1, ProductIsMonotone
  <1>5. header.keys * PUBKEY_SIZE \in Nat
    BY <1>1, <1>3
  <1>6. header.keys * PUBKEY_SIZE < SIZE_VALUES
    BY <1>1, <1>2, <1>3, <1>4, <1>5, KeysFitSize
  <1>7. \A n \in Nat : n < SIZE_VALUES => n % SIZE_VALUES = n
    BY <1>2
  <1> QED BY <1>5, <1>6, <1>7 DEF PubkeysSize

-----------------------------------------------------------------------------
(* What a reader that succeeds, and one that fails, does.                  *)

LEMMA TakenTiles ==
    ASSUME MessageTypeOK, SpansTile, NEW n \in Nat, Taken(n), size' = size
    PROVE  /\ SpansTile'
           /\ position' \in Nat
           /\ left' \in Nat
           /\ spans' \in Seq(Nat \X Nat)
           /\ Len(spans') = Len(spans) + 1
           /\ \A i \in 1..Len(spans) : spans'[i] = spans[i]
           /\ spans'[Len(spans) + 1] = <<position, position + n>>
  <1>1. position \in Nat /\ left \in Nat /\ spans \in Seq(Nat \X Nat)
    BY DEF MessageTypeOK
  <1>2. Len(spans) \in Nat
    BY <1>1
  <1>3. spans' = Append(spans, <<position, position + n>>)
    BY DEF Taken
  <1>4. <<position, position + n>> \in Nat \X Nat
    BY <1>1
  <1>5. spans' \in Seq(Nat \X Nat) /\ Len(spans') = Len(spans) + 1
    BY <1>1, <1>3, <1>4
  <1>6. \A i \in 1..Len(spans) : spans'[i] = spans[i]
    BY <1>1, <1>3
  <1>7. spans'[Len(spans) + 1] = <<position, position + n>>
    BY <1>1, <1>3
  <1>8. position' = position + n /\ left' = left - n /\ left >= n
    BY DEF Taken
  <1>9. position' \in Nat /\ left' \in Nat
    BY <1>1, <1>8
  <1>10. SpansTile'
    <2>1. position' + left' = size'
      BY <1>1, <1>8 DEF SpansTile
    <2>2. spans' # <<>> /\ position' = spans'[Len(spans')][2]
      BY <1>2, <1>5, <1>7, <1>8
    <2>3. ASSUME NEW i \in 1..Len(spans')
          PROVE  /\ spans'[i][1] = IF i = 1 THEN 0 ELSE spans'[i - 1][2]
                 /\ spans'[i][1] <= spans'[i][2]
      <3>1. CASE i \in 1..Len(spans)
        <4>1. spans'[i] = spans[i]
          BY <1>6, <3>1
        <4>2. i # 1 => spans'[i - 1] = spans[i - 1]
          BY <1>2, <1>6, <3>1
        <4> QED BY <3>1, <4>1, <4>2 DEF SpansTile
      <3>2. CASE i = Len(spans) + 1
        <4>1. spans'[i][1] = position /\ spans'[i][2] = position + n
          BY <1>7, <3>2
        <4>2. CASE Len(spans) = 0
          <5>1. spans = <<>>
            BY <1>1, <4>2
          <5> QED BY <1>1, <3>2, <4>1, <4>2, <5>1 DEF SpansTile
        <4>3. CASE Len(spans) # 0
          <5>1. spans # <<>> /\ i # 1 /\ i - 1 = Len(spans)
            BY <1>2, <3>2, <4>3
          <5>2. spans'[i - 1] = spans[Len(spans)]
            BY <1>2, <1>6, <4>3, <5>1
          <5> QED BY <1>1, <4>1, <5>1, <5>2 DEF SpansTile
        <4> QED BY <4>2, <4>3
      <3> QED BY <1>2, <1>5, <3>1, <3>2
    <2> QED BY <2>1, <2>2, <2>3 DEF SpansTile
  <1> QED BY <1>5, <1>6, <1>7, <1>9, <1>10

LEMMA BailKeeps ==
    ASSUME MessageInv, Bail
    PROVE  MessageInv'
  <1>1. phase' \in {"refused", "unrecognized"}
    BY DEF Bail
  <1>2. UNCHANGED <<size, position, left, header, signer, count, inst, spans>>
    BY DEF Bail
  <1>3. MessageTypeOK'
    BY <1>1, <1>2 DEF MessageInv, MessageTypeOK, Phases
  <1>4. SpansTile'
    BY <1>2 DEF MessageInv, SpansTile
  <1>5. HeaderSpans' /\ KeysKept' /\ SignerKept' /\ KeysExist'
        /\ DispatchIsValid' /\ ParsedIsEmpty'
    BY <1>1 DEF HeaderSpans, KeysKept, AfterKeys, BodyPhases, SignerKept,
                KeysExist, DispatchIsValid, ParsedIsEmpty
  <1> QED BY <1>3, <1>4, <1>5 DEF MessageInv

(* A reader behind the keys: it leaves the keys where they are.            *)
LEMMA TakenKeepsKeys ==
    ASSUME MessageInv, NEW n \in Nat, Taken(n),
           phase \in AfterKeys,
           UNCHANGED size, header'.versioned = header.versioned,
           header'.keys = header.keys
    PROVE  KeysKept'
  <1>1. SpansTile /\ MessageTypeOK /\ KeysKept
    BY DEF MessageInv
  <1>2. /\ Len(spans') = Len(spans) + 1
        /\ \A i \in 1..Len(spans) : spans'[i] = spans[i]
    BY <1>1, TakenTiles
  <1>3. KeysIndex' = KeysIndex /\ KeysIndex \in {2, 3}
    BY DEF KeysIndex
  <1>4. Len(spans) \in Nat
    BY <1>1 DEF MessageTypeOK
  <1>5. KeysIndex \in 1..Len(spans)
    BY <1>1, <1>3, <1>4 DEF KeysKept
  <1>6. spans'[KeysIndex'] = spans[KeysIndex]
    BY <1>2, <1>3, <1>5
  <1> QED BY <1>1, <1>2, <1>3, <1>4, <1>5, <1>6 DEF KeysKept

-----------------------------------------------------------------------------
(* The steps of parse_message_header.                                      *)

LEMMA VersionStep ==
    ASSUME MessageInv, NEW byte \in Byte, ParseVersion(byte)
    PROVE  MessageInv'
  <1>0. MessageTypeOK /\ SpansTile /\ HeaderSpans
    BY DEF MessageInv
  <1>1. CASE TooShort(1)
    BY <1>1, BailKeeps DEF TooShort
  <1>2. CASE ~TooShort(1)
    <2>1. /\ phase = "version"
          /\ phase' = "header"
          /\ header' = [header EXCEPT !.versioned = (byte >= HALF)]
          /\ UNCHANGED <<size, signer, count, inst>>
          /\ IF byte >= HALF THEN Taken(1)
             ELSE UNCHANGED <<position, left, spans>>
      BY <1>2 DEF ParseVersion
    <2>2. (byte >= HALF) \in BOOLEAN
      OBVIOUS
    <2>3. /\ header' \in [versioned : BOOLEAN, signatures : Byte,
                          keys : Lengths, instructions : Lengths]
          /\ header'.versioned = (byte >= HALF)
      BY <1>0, <2>1, <2>2 DEF MessageTypeOK
    <2>4. Len(spans) = 0
      BY <1>0, <2>1 DEF HeaderSpans
    <2>5. /\ SpansTile'
          /\ position' \in Nat
          /\ left' \in Nat
          /\ spans' \in Seq(Nat \X Nat)
          /\ Len(spans') = IF byte >= HALF THEN 1 ELSE 0
      <3>1. CASE byte >= HALF
        BY <1>0, <2>1, <2>4, <3>1, TakenTiles
      <3>2. CASE ~(byte >= HALF)
        BY <1>0, <2>1, <2>4, <3>2 DEF MessageTypeOK, SpansTile
      <3> QED BY <3>1, <3>2
    <2>6. MessageTypeOK'
      BY <1>0, <2>1, <2>3, <2>5 DEF MessageTypeOK, Phases, HeaderPhases
    <2>7. HeaderSpans'
      BY <2>1, <2>3, <2>5 DEF HeaderSpans, KeysIndex
    <2>8. KeysKept' /\ SignerKept' /\ KeysExist' /\ DispatchIsValid'
          /\ ParsedIsEmpty'
      BY <2>1 DEF KeysKept, AfterKeys, BodyPhases, SignerKept, KeysExist,
                  DispatchIsValid, ParsedIsEmpty
    <2> QED BY <2>5, <2>6, <2>7, <2>8 DEF MessageInv
  <1> QED BY <1>1, <1>2

LEMMA PubkeysHeaderStep ==
    ASSUME MessageInv, NEW signatures \in Byte, NEW code \in LengthCode,
           ParsePubkeysHeader(signatures, code)
    PROVE  MessageInv'
  <1>0. MessageTypeOK /\ SpansTile /\ HeaderSpans
    BY DEF MessageInv
  <1>1. LengthOf(code) \in Lengths /\ Len(code) \in 1..3
    BY LengthIsALength
  <1> HIDE DEF LengthOf
  <1>2. CASE TooShort(3 + Len(code))
    BY <1>2, BailKeeps DEF TooShort
  <1>3. CASE ~TooShort(3 + Len(code))
    <2>1. /\ phase = "header"
          /\ Taken(3 + Len(code))
          /\ phase' = "keys"
          /\ header' = [header EXCEPT !.signatures = signatures,
                                      !.keys = LengthOf(code)]
          /\ UNCHANGED <<size, signer, count, inst>>
      BY <1>3 DEF ParsePubkeysHeader
    <2>2. 3 + Len(code) \in Nat
      BY <1>1
    <2>3. /\ SpansTile'
          /\ position' \in Nat
          /\ left' \in Nat
          /\ spans' \in Seq(Nat \X Nat)
          /\ Len(spans') = Len(spans) + 1
      BY <1>0, <2>1, <2>2, TakenTiles
    <2>4. /\ header' \in [versioned : BOOLEAN, signatures : Byte,
                          keys : Lengths, instructions : Lengths]
          /\ header'.versioned = header.versioned
      BY <1>0, <1>1, <2>1 DEF MessageTypeOK
    <2>5. MessageTypeOK'
      BY <1>0, <2>1, <2>3, <2>4 DEF MessageTypeOK, Phases, HeaderPhases
    <2>6. Len(spans) \in Nat /\ KeysIndex \in {2, 3} /\ KeysIndex' = KeysIndex
      BY <1>0, <2>4 DEF MessageTypeOK, KeysIndex
    <2>7. HeaderSpans'
      BY <1>0, <2>1, <2>3, <2>6 DEF HeaderSpans
    <2>8. KeysKept' /\ SignerKept' /\ KeysExist' /\ DispatchIsValid'
          /\ ParsedIsEmpty'
      BY <2>1 DEF KeysKept, AfterKeys, BodyPhases, SignerKept, KeysExist,
                  DispatchIsValid, ParsedIsEmpty
    <2> QED BY <2>3, <2>5, <2>7, <2>8 DEF MessageInv
  <1> QED BY <1>2, <1>3

LEMMA PubkeysStep ==
    ASSUME MessageInv, ParsePubkeys
    PROVE  MessageInv'
  <1>0. MessageTypeOK /\ SpansTile /\ HeaderSpans
    BY DEF MessageInv
  <1>1. PubkeysSize = header.keys * PUBKEY_SIZE /\ PubkeysSize \in Nat
    BY <1>0, KeysDoNotWrap DEF MessageTypeOK
  <1>2. CASE TooShort(PubkeysSize)
    BY <1>2, BailKeeps DEF TooShort
  <1>3. CASE ~TooShort(PubkeysSize)
    <2>1. /\ phase = "keys"
          /\ Taken(PubkeysSize)
          /\ phase' = "hash"
          /\ UNCHANGED <<size, header, signer, count, inst>>
      BY <1>3 DEF ParsePubkeys
    <2> HIDE DEF PubkeysSize
    <2>2. /\ SpansTile'
          /\ position' \in Nat
          /\ left' \in Nat
          /\ spans' \in Seq(Nat \X Nat)
          /\ Len(spans') = Len(spans) + 1
          /\ spans'[Len(spans) + 1] = <<position, position + PubkeysSize>>
      BY <1>0, <1>1, <2>1, TakenTiles
    <2>3. MessageTypeOK'
      BY <1>0, <2>1, <2>2 DEF MessageTypeOK, Phases, HeaderPhases
    <2>4. KeysIndex' = KeysIndex /\ KeysIndex \in {2, 3}
      BY <2>1 DEF KeysIndex
    <2>5. Len(spans) \in Nat /\ Len(spans) = KeysIndex - 1
      BY <1>0, <2>1 DEF HeaderSpans, MessageTypeOK
    <2>6. KeysIndex' = Len(spans) + 1
      BY <2>4, <2>5
    <2>7. KeysKept'
      <3>1. /\ spans'[KeysIndex'][2] = position + PubkeysSize
            /\ spans'[KeysIndex'][1] = position
        BY <2>2, <2>6
      <3>2. KeysIndex' <= Len(spans')
        BY <2>2, <2>5, <2>6
      <3> QED BY <1>1, <2>1, <3>1, <3>2 DEF KeysKept
    <2>8. HeaderSpans' /\ SignerKept' /\ KeysExist' /\ DispatchIsValid'
          /\ ParsedIsEmpty'
      BY <2>1 DEF HeaderSpans, BodyPhases, SignerKept, KeysExist,
                  DispatchIsValid, ParsedIsEmpty
    <2> QED BY <2>2, <2>3, <2>7, <2>8 DEF MessageInv
  <1> QED BY <1>2, <1>3

(* Behind the keys: a reader keeps the parts in order and the keys.        *)
LEMMA ReadKeeps ==
    ASSUME MessageInv, phase \in AfterKeys, NEW n \in Nat, Taken(n),
           UNCHANGED size, header'.versioned = header.versioned,
           header'.keys = header.keys
    PROVE  /\ SpansTile'
           /\ KeysKept'
           /\ position' \in Nat
           /\ left' \in Nat
           /\ spans' \in Seq(Nat \X Nat)
  BY TakenTiles, TakenKeepsKeys DEF MessageInv

LEMMA StayKeeps ==
    ASSUME MessageInv, phase \in AfterKeys,
           UNCHANGED <<size, position, left, header, spans>>
    PROVE  SpansTile' /\ KeysKept'
  BY DEF MessageInv, SpansTile, KeysKept, KeysIndex

LEMMA BlockhashStep ==
    ASSUME MessageInv, ParseBlockhash
    PROVE  MessageInv'
  <1>0. MessageTypeOK
    BY DEF MessageInv
  <1>1. CASE TooShort(HASH_SIZE)
    BY <1>1, BailKeeps DEF TooShort
  <1>2. CASE ~TooShort(HASH_SIZE)
    <2>1. /\ phase = "hash"
          /\ Taken(HASH_SIZE)
          /\ phase' = "length"
          /\ UNCHANGED <<size, header, signer, count, inst>>
      BY <1>2 DEF ParseBlockhash
    <2>2. HASH_SIZE \in Nat /\ phase \in AfterKeys
      BY <2>1, MessageAssumption DEF AfterKeys
    <2>3. /\ SpansTile'
          /\ KeysKept'
          /\ position' \in Nat
          /\ left' \in Nat
          /\ spans' \in Seq(Nat \X Nat)
      BY <2>1, <2>2, ReadKeeps
    <2>4. MessageTypeOK'
      BY <1>0, <2>1, <2>3 DEF MessageTypeOK, Phases, HeaderPhases
    <2>5. HeaderSpans' /\ SignerKept' /\ KeysExist' /\ DispatchIsValid'
          /\ ParsedIsEmpty'
      BY <2>1 DEF HeaderSpans, BodyPhases, SignerKept, KeysExist,
                  DispatchIsValid, ParsedIsEmpty
    <2> QED BY <2>3, <2>4, <2>5 DEF MessageInv
  <1> QED BY <1>1, <1>2

LEMMA InstructionsLengthStep ==
    ASSUME MessageInv, NEW code \in LengthCode, ParseInstructionsLength(code)
    PROVE  MessageInv'
  <1>0. MessageTypeOK
    BY DEF MessageInv
  <1>1. LengthOf(code) \in Lengths /\ Len(code) \in Nat
    BY LengthIsALength
  <1> HIDE DEF LengthOf
  <1>2. CASE TooShort(Len(code))
    BY <1>2, BailKeeps DEF TooShort
  <1>3. CASE ~TooShort(Len(code))
    <2>1. /\ phase = "length"
          /\ Taken(Len(code))
          /\ phase' = "signer"
          /\ header' = [header EXCEPT !.instructions = LengthOf(code)]
          /\ UNCHANGED <<size, signer, count, inst>>
      BY <1>3 DEF ParseInstructionsLength
    <2>2. /\ header' \in [versioned : BOOLEAN, signatures : Byte,
                          keys : Lengths, instructions : Lengths]
          /\ header'.versioned = header.versioned
          /\ header'.keys = header.keys
      BY <1>0, <1>1, <2>1 DEF MessageTypeOK
    <2>3. phase \in AfterKeys
      BY <2>1 DEF AfterKeys
    <2>4. /\ SpansTile'
          /\ KeysKept'
          /\ position' \in Nat
          /\ left' \in Nat
          /\ spans' \in Seq(Nat \X Nat)
      BY <1>1, <2>1, <2>2, <2>3, ReadKeeps
    <2>5. MessageTypeOK'
      BY <1>0, <2>1, <2>2, <2>4 DEF MessageTypeOK, Phases, HeaderPhases
    <2>6. HeaderSpans' /\ SignerKept' /\ KeysExist' /\ DispatchIsValid'
          /\ ParsedIsEmpty'
      BY <2>1 DEF HeaderSpans, BodyPhases, SignerKept, KeysExist,
                  DispatchIsValid, ParsedIsEmpty
    <2> QED BY <2>4, <2>5, <2>6 DEF MessageInv
  <1> QED BY <1>2, <1>3

LEMMA ScanStep ==
    ASSUME MessageInv, ScanHeaderForSigner
    PROVE  MessageInv'
  <1>0. MessageTypeOK
    BY DEF MessageInv
  <1>1. /\ phase = "signer"
        /\ UNCHANGED <<size, position, left, header, count, inst, spans>>
    BY DEF ScanHeaderForSigner
  <1>2. phase \in AfterKeys
    BY <1>1 DEF AfterKeys
  <1>3. SpansTile' /\ KeysKept'
    BY <1>1, <1>2, StayKeeps
  <1>4. CASE \E i \in 0..(header.signatures - 1) :
                 signer' = i /\ phase' = "body"
    <2>1. signer' \in 0..(header.signatures - 1) /\ phase' = "body"
      BY <1>4
    <2>2. header.signatures \in Byte /\ Byte \subseteq Nat
      BY <1>0, CompactLengthAssumption DEF MessageTypeOK, Byte
    <2>3. signer' \in Byte /\ signer' < header.signatures
      BY <2>1, <2>2, CompactLengthAssumption DEF Byte
    <2>4. MessageTypeOK'
      BY <1>0, <1>1, <2>1, <2>3 DEF MessageTypeOK, Phases, HeaderPhases
    <2>5. SignerKept'
      BY <1>1, <2>3 DEF SignerKept
    <2>6. HeaderSpans' /\ KeysExist' /\ DispatchIsValid' /\ ParsedIsEmpty'
      BY <2>1 DEF HeaderSpans, KeysExist, DispatchIsValid, ParsedIsEmpty
    <2> QED BY <1>3, <2>4, <2>5, <2>6 DEF MessageInv
  <1>5. CASE phase' = "refused" /\ UNCHANGED signer
    <2>1. MessageTypeOK'
      BY <1>0, <1>1, <1>5 DEF MessageTypeOK, Phases
    <2>2. HeaderSpans' /\ SignerKept' /\ KeysExist' /\ DispatchIsValid'
          /\ ParsedIsEmpty'
      BY <1>5 DEF HeaderSpans, BodyPhases, SignerKept, KeysExist,
                  DispatchIsValid, ParsedIsEmpty
    <2> QED BY <1>3, <2>1, <2>2 DEF MessageInv
  <1> QED BY <1>4, <1>5 DEF ScanHeaderForSigner

-----------------------------------------------------------------------------
(* The steps of process_message_body.  All of them keep the signer.        *)

LEMMA BodyKeepsSigner ==
    ASSUME MessageInv, phase \in BodyPhases, UNCHANGED <<header, signer>>
    PROVE  SignerKept'
  BY DEF MessageInv, SignerKept

LEMMA InstructionsCheckStep ==
    ASSUME MessageInv, CheckInstructionsLength
    PROVE  MessageInv'
  <1>0. MessageTypeOK
    BY DEF MessageInv
  <1>1. CASE header.instructions \notin 1..MAX_INSTRUCTIONS
    BY <1>1, BailKeeps DEF CheckInstructionsLength
  <1>2. CASE header.instructions \in 1..MAX_INSTRUCTIONS
    <2>1. /\ phase = "body"
          /\ phase' = "program"
          /\ UNCHANGED <<size, position, left, header, signer, count, inst,
                         spans>>
      BY <1>2 DEF CheckInstructionsLength
    <2>2. phase \in AfterKeys /\ phase \in BodyPhases
      BY <2>1 DEF AfterKeys, BodyPhases
    <2>3. SpansTile' /\ KeysKept' /\ SignerKept'
      BY <2>1, <2>2, StayKeeps, BodyKeepsSigner
    <2>4. MessageTypeOK'
      BY <1>0, <2>1 DEF MessageTypeOK, Phases
    <2>5. HeaderSpans' /\ KeysExist' /\ DispatchIsValid' /\ ParsedIsEmpty'
      BY <2>1 DEF HeaderSpans, KeysExist, DispatchIsValid, ParsedIsEmpty
    <2> QED BY <2>3, <2>4, <2>5 DEF MessageInv
  <1> QED BY <1>1, <1>2

LEMMA ProgramStep ==
    ASSUME MessageInv, NEW program \in Byte, ParseProgram(program)
    PROVE  MessageInv'
  <1>0. MessageTypeOK
    BY DEF MessageInv
  <1>1. CASE TooShort(1)
    BY <1>1, BailKeeps DEF TooShort
  <1>2. CASE ~TooShort(1)
    <2>1. /\ phase = "program"
          /\ Taken(1)
          /\ phase' = "accounts"
          /\ inst' = [NoInstruction EXCEPT !.program = program]
          /\ UNCHANGED <<size, header, signer, count>>
      BY <1>2 DEF ParseProgram
    <2>2. phase \in AfterKeys /\ phase \in BodyPhases
      BY <2>1 DEF AfterKeys, BodyPhases
    <2>3. /\ SpansTile'
          /\ KeysKept'
          /\ SignerKept'
          /\ position' \in Nat
          /\ left' \in Nat
          /\ spans' \in Seq(Nat \X Nat)
      BY <2>1, <2>2, ReadKeeps, BodyKeepsSigner
    <2>4. 0 \in Lengths /\ 0 \in Byte
      <3>1. 1 * HALF <= HALF * HALF /\ HALF * HALF \in Nat
        BY CompactLengthAssumption, ProductIsMonotone
      <3>2. 1 * (HALF * HALF) <= HALF * (HALF * HALF)
        BY <3>1, CompactLengthAssumption, ProductIsMonotone
      <3> QED BY <3>1, <3>2, CompactLengthAssumption DEF Lengths, Byte
    <2>5. inst' \in [program : Byte, accounts : Lengths, highest : Byte]
      BY <2>1, <2>4 DEF NoInstruction
    <2>6. MessageTypeOK'
      BY <1>0, <2>1, <2>3, <2>5 DEF MessageTypeOK, Phases
    <2>7. HeaderSpans' /\ KeysExist' /\ DispatchIsValid' /\ ParsedIsEmpty'
      BY <2>1 DEF HeaderSpans, KeysExist, DispatchIsValid, ParsedIsEmpty
    <2> QED BY <2>3, <2>6, <2>7 DEF MessageInv
  <1> QED BY <1>1, <1>2

LEMMA AccountsStep ==
    ASSUME MessageInv, NEW code \in LengthCode, NEW highest \in Byte,
           ParseAccounts(code, highest)
    PROVE  MessageInv'
  <1>0. MessageTypeOK
    BY DEF MessageInv
  <1> DEFINE n == Len(code) + LengthOf(code)
  <1>1. LengthOf(code) \in Lengths /\ n \in Nat
    BY LengthIsALength, CompactLengthAssumption DEF Lengths
  <1>2. CASE TooShort(n)
    BY <1>2, BailKeeps DEF TooShort
  <1>3. CASE ~TooShort(n)
    <2>1. /\ phase = "accounts"
          /\ Taken(n)
          /\ phase' = "data"
          /\ inst' = [inst EXCEPT !.accounts = LengthOf(code),
                                  !.highest = highest]
          /\ UNCHANGED <<size, header, signer, count>>
      BY <1>3 DEF ParseAccounts
    <2>2. inst' \in [program : Byte, accounts : Lengths, highest : Byte]
      BY <1>0, <1>1, <2>1 DEF MessageTypeOK
    <2> HIDE DEF n
    <2>3. phase \in AfterKeys /\ phase \in BodyPhases
      BY <2>1 DEF AfterKeys, BodyPhases
    <2>4. /\ SpansTile'
          /\ KeysKept'
          /\ SignerKept'
          /\ position' \in Nat
          /\ left' \in Nat
          /\ spans' \in Seq(Nat \X Nat)
      BY <1>1, <2>1, <2>3, ReadKeeps, BodyKeepsSigner
    <2>5. MessageTypeOK'
      BY <1>0, <2>1, <2>2, <2>4 DEF MessageTypeOK, Phases
    <2>6. HeaderSpans' /\ KeysExist' /\ DispatchIsValid' /\ ParsedIsEmpty'
      BY <2>1 DEF HeaderSpans, KeysExist, DispatchIsValid, ParsedIsEmpty
    <2> QED BY <2>4, <2>5, <2>6 DEF MessageInv
  <1> QED BY <1>2, <1>3

LEMMA DataStep ==
    ASSUME MessageInv, NEW code \in LengthCode, ParseData(code)
    PROVE  MessageInv'
  <1>0. MessageTypeOK
    BY DEF MessageInv
  <1> DEFINE n == Len(code) + LengthOf(code)
  <1>1. n \in Nat
    BY LengthIsALength, CompactLengthAssumption DEF Lengths
  <1>2. CASE TooShort(n)
    BY <1>2, BailKeeps DEF TooShort
  <1>3. CASE ~TooShort(n)
    <2>1. /\ phase = "data"
          /\ Taken(n)
          /\ phase' = "validate"
          /\ UNCHANGED <<size, header, signer, count, inst>>
      BY <1>3 DEF ParseData
    <2> HIDE DEF n
    <2>2. phase \in AfterKeys /\ phase \in BodyPhases
      BY <2>1 DEF AfterKeys, BodyPhases
    <2>3. /\ SpansTile'
          /\ KeysKept'
          /\ SignerKept'
          /\ position' \in Nat
          /\ left' \in Nat
          /\ spans' \in Seq(Nat \X Nat)
      BY <1>1, <2>1, <2>2, ReadKeeps, BodyKeepsSigner
    <2>4. MessageTypeOK'
      BY <1>0, <2>1, <2>3 DEF MessageTypeOK, Phases
    <2>5. HeaderSpans' /\ KeysExist' /\ DispatchIsValid' /\ ParsedIsEmpty'
      BY <2>1 DEF HeaderSpans, KeysExist, DispatchIsValid, ParsedIsEmpty
    <2> QED BY <2>3, <2>4, <2>5 DEF MessageInv
  <1> QED BY <1>2, <1>3

LEMMA ValidateStep ==
    ASSUME MessageInv, ValidateInstruction
    PROVE  MessageInv'
  <1>0. MessageTypeOK
    BY DEF MessageInv
  <1>1. CASE ~Valid
    BY <1>1, BailKeeps DEF ValidateInstruction
  <1>2. CASE Valid
    <2>1. /\ phase = "validate"
          /\ phase' = "dispatch"
          /\ UNCHANGED <<size, position, left, header, signer, count, inst,
                         spans>>
      BY <1>2 DEF ValidateInstruction
    <2>2. phase \in AfterKeys /\ phase \in BodyPhases
      BY <2>1 DEF AfterKeys, BodyPhases
    <2>3. SpansTile' /\ KeysKept' /\ SignerKept'
      BY <2>1, <2>2, StayKeeps, BodyKeepsSigner
    <2>4. MessageTypeOK'
      BY <1>0, <2>1 DEF MessageTypeOK, Phases
    <2>5. DispatchIsValid'
      BY <1>2, <2>1 DEF DispatchIsValid, Valid
    <2>6. HeaderSpans' /\ KeysExist' /\ ParsedIsEmpty'
      BY <2>1 DEF HeaderSpans, KeysExist, ParsedIsEmpty
    <2> QED BY <2>3, <2>4, <2>5, <2>6 DEF MessageInv
  <1> QED BY <1>1, <1>2

LEMMA DispatchStep ==
    ASSUME MessageInv, DispatchInstruction
    PROVE  MessageInv'
  <1>0. MessageTypeOK /\ DispatchIsValid
    BY DEF MessageInv
  <1>1. /\ phase = "dispatch"
        /\ count' = count + 1
        /\ phase' \in {"program", "tables", "end"}
        /\ UNCHANGED <<size, position, left, header, signer, inst, spans>>
    BY DEF DispatchInstruction
  <1>2. phase \in AfterKeys /\ phase \in BodyPhases
    BY <1>1 DEF AfterKeys, BodyPhases
  <1>3. SpansTile' /\ KeysKept' /\ SignerKept'
    BY <1>1, <1>2, StayKeeps, BodyKeepsSigner
  <1>4. MessageTypeOK'
    BY <1>0, <1>1 DEF MessageTypeOK, Phases
  <1>5. header.keys > 0
    <2>1. inst.program < header.keys
      BY <1>0, <1>1 DEF DispatchIsValid, Valid
    <2>2. inst.program \in Nat /\ header.keys \in Nat
      BY <1>0, CompactLengthAssumption DEF MessageTypeOK, Byte, Lengths
    <2> QED BY <2>1, <2>2
  <1>6. KeysExist'
    BY <1>1, <1>5 DEF KeysExist
  <1>7. HeaderSpans' /\ DispatchIsValid' /\ ParsedIsEmpty'
    BY <1>1 DEF HeaderSpans, DispatchIsValid, ParsedIsEmpty
  <1> QED BY <1>3, <1>4, <1>6, <1>7 DEF MessageInv

LEMMA TablesStep ==
    ASSUME MessageInv, NEW code \in LengthCode, ParseAccountTables(code)
    PROVE  MessageInv'
  <1>0. MessageTypeOK /\ KeysExist
    BY DEF MessageInv
  <1>1. Len(code) \in Nat
    BY LengthIsALength
  <1>2. CASE TooShort(Len(code)) \/ Bail
    BY <1>2, BailKeeps DEF TooShort
  <1>3. CASE ~(TooShort(Len(code)) \/ Bail)
    <2>1. /\ phase = "tables"
          /\ Taken(Len(code))
          /\ phase' = "end"
          /\ UNCHANGED <<size, header, signer, count, inst>>
      BY <1>3 DEF ParseAccountTables
    <2>2. phase \in AfterKeys /\ phase \in BodyPhases
      BY <2>1 DEF AfterKeys, BodyPhases
    <2>3. /\ SpansTile'
          /\ KeysKept'
          /\ SignerKept'
          /\ position' \in Nat
          /\ left' \in Nat
          /\ spans' \in Seq(Nat \X Nat)
      BY <1>1, <2>1, <2>2, ReadKeeps, BodyKeepsSigner
    <2>4. MessageTypeOK'
      BY <1>0, <2>1, <2>3 DEF MessageTypeOK, Phases
    <2>5. KeysExist'
      BY <1>0, <2>1 DEF KeysExist
    <2>6. HeaderSpans' /\ DispatchIsValid' /\ ParsedIsEmpty'
      BY <2>1 DEF HeaderSpans, DispatchIsValid, ParsedIsEmpty
    <2> QED BY <2>3, <2>4, <2>5, <2>6 DEF MessageInv
  <1> QED BY <1>2, <1>3

LEMMA EndStep ==
    ASSUME MessageInv, EndOfMessage
    PROVE  MessageInv'
  <1>0. MessageTypeOK /\ KeysExist
    BY DEF MessageInv
  <1>1. CASE Bail
    BY <1>1, BailKeeps
  <1>2. CASE ~Bail
    <2>1. /\ phase = "end"
          /\ left = 0
          /\ phase' = "parsed"
          /\ UNCHANGED <<size, position, left, header, signer, count, inst,
                         spans>>
      BY <1>2 DEF EndOfMessage
    <2>2. phase \in AfterKeys /\ phase \in BodyPhases
      BY <2>1 DEF AfterKeys, BodyPhases
    <2>3. SpansTile' /\ KeysKept' /\ SignerKept'
      BY <2>1, <2>2, StayKeeps, BodyKeepsSigner
    <2>4. MessageTypeOK'
      BY <1>0, <2>1 DEF MessageTypeOK, Phases
    <2>5. KeysExist' /\ ParsedIsEmpty'
      BY <1>0, <2>1 DEF KeysExist, ParsedIsEmpty
    <2>6. HeaderSpans' /\ DispatchIsValid'
      BY <2>1 DEF HeaderSpans, DispatchIsValid
    <2> QED BY <2>3, <2>4, <2>5, <2>6 DEF MessageInv
  <1> QED BY <1>1, <1>2

-----------------------------------------------------------------------------
(* Every behaviour.                                                        *)

LEMMA EmptyTiles ==
    ASSUME size \in Nat, position = 0, left = size, spans = <<>>
    PROVE  SpansTile
  BY DEF SpansTile

LEMMA NoHeaderType ==
    /\ NoHeader \in [versioned : BOOLEAN, signatures : Byte, keys : Lengths,
                     instructions : Lengths]
    /\ NoInstruction \in [program : Byte, accounts : Lengths, highest : Byte]
    /\ 0 \in Byte
    /\ Sizes \subseteq Nat
  <1>1. 1 * HALF <= HALF * HALF /\ HALF * HALF \in Nat
    BY CompactLengthAssumption, ProductIsMonotone
  <1>2. 1 * (HALF * HALF) <= HALF * (HALF * HALF)
    BY <1>1, CompactLengthAssumption, ProductIsMonotone
  <1>3. 0 \in Lengths /\ 0 \in Byte
    BY <1>1, <1>2, CompactLengthAssumption DEF Lengths, Byte
  <1>4. Sizes \subseteq Nat
    BY MessageAssumption
  <1> QED BY <1>3, <1>4 DEF NoHeader, NoInstruction

LEMMA InitIsMessageInv == MessageInit => MessageInv
  <1> SUFFICES ASSUME MessageInit PROVE MessageInv
    OBVIOUS
  <1>1. MessageTypeOK
    BY NoHeaderType DEF MessageInit, MessageTypeOK, Phases
  <1>2. SpansTile
    BY EmptyTiles DEF MessageInit
  <1>3. HeaderSpans /\ KeysKept /\ SignerKept /\ KeysExist
        /\ DispatchIsValid /\ ParsedIsEmpty
    BY DEF MessageInit, HeaderSpans, KeysKept, AfterKeys, BodyPhases,
           SignerKept, KeysExist, DispatchIsValid, ParsedIsEmpty
  <1> QED BY <1>1, <1>2, <1>3 DEF MessageInv

LEMMA ReceiveStep ==
    ASSUME MessageInv, NEW n \in Sizes, Receive(n)
    PROVE  MessageInv'
  <1>1. /\ phase' = "version"
        /\ size' = n
        /\ position' = 0
        /\ left' = n
        /\ header' = NoHeader
        /\ signer' = 0
        /\ count' = 0
        /\ inst' = NoInstruction
        /\ spans' = <<>>
    BY DEF Receive
  <1>2. n \in Nat
    BY NoHeaderType
  <1>3. MessageTypeOK'
    BY <1>1, <1>2, NoHeaderType DEF MessageTypeOK, Phases, HeaderPhases
  <1>4. SpansTile'
    BY <1>1, <1>2 DEF SpansTile
  <1>5. HeaderSpans' /\ KeysKept' /\ SignerKept' /\ KeysExist'
        /\ DispatchIsValid' /\ ParsedIsEmpty'
    BY <1>1 DEF HeaderSpans, KeysKept, AfterKeys, BodyPhases, SignerKept,
                KeysExist, DispatchIsValid, ParsedIsEmpty
  <1> QED BY <1>3, <1>4, <1>5 DEF MessageInv

LEMMA MessageInvIsKept ==
    ASSUME MessageInv, [MessageNext]_message
    PROVE  MessageInv'
  <1>1. CASE UNCHANGED message
    BY <1>1 DEF message, MessageInv, MessageTypeOK, SpansTile, HeaderSpans,
                KeysKept, KeysIndex, SignerKept, KeysExist, DispatchIsValid,
                Valid, ParsedIsEmpty
  <1>2. CASE \E n \in Sizes : Receive(n)
    BY <1>2, ReceiveStep
  <1>3. CASE ParseHeader
    BY <1>3, VersionStep, PubkeysHeaderStep, PubkeysStep, BlockhashStep,
       InstructionsLengthStep, ScanStep DEF ParseHeader
  <1>4. CASE ParseBody
    BY <1>4, InstructionsCheckStep, ProgramStep, AccountsStep, DataStep,
       ValidateStep, DispatchStep, TablesStep, EndStep DEF ParseBody
  <1> QED BY <1>1, <1>2, <1>3, <1>4 DEF MessageNext

(* The inductive invariant holds in every behaviour of the parser.         *)
THEOREM MessageIsKept == MessageSpec => []MessageInv
  <1>1. MessageInit => MessageInv
    BY InitIsMessageInv
  <1>2. MessageInv /\ [MessageNext]_message => MessageInv'
    BY MessageInvIsKept
  <1> QED BY <1>1, <1>2, PTL DEF MessageSpec

(* Every variable keeps its type: no position, length or index the parser  *)
(* computes is negative, whatever bytes the message has.                   *)
THEOREM MessageTypes == MessageSpec => []MessageTypeOK
  <1>1. MessageInv => MessageTypeOK
    BY DEF MessageInv
  <1> QED BY <1>1, MessageIsKept, PTL

(* What parser.c gives out are the bytes of the message in their order,    *)
(* none of them twice, and all of them when the message was recognized.    *)
THEOREM MessageIsCovered == MessageSpec => []WholeMessageParsed
  <1>1. MessageInv => WholeMessageParsed
    <2> SUFFICES ASSUME MessageInv PROVE WholeMessageParsed
      OBVIOUS
    <2>1. MessageTypeOK /\ SpansTile /\ ParsedIsEmpty
      BY DEF MessageInv
    <2>2. phase = "parsed" => position = size
      BY <2>1 DEF MessageTypeOK, SpansTile, ParsedIsEmpty
    <2> QED BY <2>1, <2>2 DEF WholeMessageParsed
  <1> QED BY <1>1, MessageIsKept, PTL

(* An index below the number of keys is inside the array of keys.          *)
LEMMA SmallIndexIsInside ==
    ASSUME MessageInv, phase \in AfterKeys, NEW i \in Nat, i < header.keys
    PROVE  KeyInside(i)
  <1>1. /\ header.keys \in Nat
        /\ PUBKEY_SIZE \in Nat
        /\ spans \in Seq(Nat \X Nat)
    BY CompactLengthAssumption, MessageAssumption
    DEF MessageInv, MessageTypeOK, Lengths
  <1>2. KeysIndex \in 1..Len(spans)
    BY <1>1 DEF MessageInv, KeysKept, KeysIndex
  <1>3. KeysSpan = spans[KeysIndex] /\ KeysSpan \in Nat \X Nat
    BY <1>1, <1>2 DEF KeysSpan, KeysIndex
  <1>4. KeysSpan[2] = KeysSpan[1] + header.keys * PUBKEY_SIZE
    BY <1>3 DEF MessageInv, KeysKept
  <1>5. (i + 1) * PUBKEY_SIZE <= header.keys * PUBKEY_SIZE
    <2>1. i + 1 \in Nat /\ i + 1 <= header.keys
      BY <1>1
    <2> QED BY <1>1, <2>1, ProductIsMonotone
  <1>6. /\ KeysSpan[1] \in Nat
        /\ header.keys * PUBKEY_SIZE \in Nat
        /\ (i + 1) * PUBKEY_SIZE \in Nat
    BY <1>1, <1>3
  <1> QED BY <1>4, <1>5, <1>6 DEF KeyInside

(* The keys the parsers of instructions follow the indices to and the fee  *)
(* payer's lie inside the keys of the message: for every size of keys and  *)
(* every number of them a compact length can ask for (instruction.c:34,    *)
(* handle_sign_message.c:87).  The signer's does unless the scan for it    *)
(* went past the keys: in every message with as many keys as required      *)
(* signatures, and in no more than that, as the scan compares its index    *)
(* with the number of signatures only (handle_sign_message.c:20).          *)
THEOREM KeysLieInside == MessageSpec => []KeysAreInside
  <1>1. MessageInv => KeysAreInside
    <2> SUFFICES ASSUME MessageInv PROVE KeysAreInside
      OBVIOUS
    <2>1. /\ inst.program \in Nat
          /\ inst.highest \in Nat
          /\ header.keys \in Nat
          /\ header.signatures \in Nat
          /\ signer \in Nat
      BY CompactLengthAssumption DEF MessageInv, MessageTypeOK, Byte, Lengths
    <2>2. ASSUME phase = "dispatch"
          PROVE  /\ KeyInside(inst.program)
                 /\ inst.accounts > 0 => KeyInside(inst.highest)
      <3>1. Valid /\ phase \in AfterKeys
        BY <2>2 DEF MessageInv, DispatchIsValid, AfterKeys, BodyPhases
      <3> QED BY <2>1, <3>1, SmallIndexIsInside DEF Valid
    <2>3. ASSUME phase = "parsed"
          PROVE  /\ KeyInside(0)
                 /\ signer < header.signatures
                 /\ signer < header.keys => KeyInside(signer)
      <3>1. phase \in AfterKeys /\ phase \in BodyPhases
        BY <2>3 DEF AfterKeys, BodyPhases
      <3>2. header.keys > 0 /\ signer < header.signatures
        BY <2>3, <3>1 DEF MessageInv, KeysExist, SignerKept
      <3> QED BY <2>1, <3>1, <3>2, SmallIndexIsInside
    <2> QED BY <2>2, <2>3 DEF KeysAreInside
  <1> QED BY <1>1, MessageIsKept, PTL

-----------------------------------------------------------------------------
(* Compact lengths.                                                        *)

LEMMA DivisionIsUnique ==
    ASSUME NEW d \in Nat \ {0}, NEW q \in Nat, NEW r \in 0..(d - 1)
    PROVE  (q * d + r) \div d = q
  <1> DEFINE n == q * d + r
             p == n \div d
             s == n % d
  <1>1. n \in Nat /\ q * d \in Nat
    OBVIOUS
  <1>2. n = d * p + s /\ p \in Nat /\ s \in 0..(d - 1)
    BY <1>1
  <1>3. n = q * d + r
    OBVIOUS
  <1> HIDE DEF n, p, s
  <1>4. ~(p < q)
    <2> SUFFICES ASSUME p < q PROVE FALSE
      OBVIOUS
    <2>1. (p + 1) * d <= q * d
      BY <1>2, ProductIsMonotone
    <2> QED BY <1>2, <1>3, <2>1
  <1>5. ~(q < p)
    <2> SUFFICES ASSUME q < p PROVE FALSE
      OBVIOUS
    <2>1. (q + 1) * d <= p * d
      BY <1>2, ProductIsMonotone
    <2> QED BY <1>2, <1>3, <2>1
  <1>6. p = q
    BY <1>2, <1>4, <1>5
  <1> QED BY <1>6 DEF p, n

LEMMA RemainderIsUnique ==
    ASSUME NEW d \in Nat \ {0}, NEW r \in 0..(d - 1)
    PROVE  r % d = r /\ (d + r) % d = r
  OBVIOUS

(* What the network writes is what parse_length reads, for every length    *)
(* and every size of the digits (parser.c:54).                             *)
THEOREM LengthsAreRead ==
    \A n \in Lengths :
        /\ EncodedLength(n) \in LengthCode
        /\ LengthOf(EncodedLength(n)) = n
  <1> SUFFICES ASSUME NEW n \in Lengths
               PROVE  /\ EncodedLength(n) \in LengthCode
                      /\ LengthOf(EncodedLength(n)) = n
    OBVIOUS
  <1>1. HALF \in Nat /\ HALF > 0 /\ n \in Nat
    BY CompactLengthAssumption DEF Lengths
  <1>2. HALF * HALF \in Nat /\ HALF * HALF > 0
    BY <1>1
  <1> DEFINE a == n % HALF
             m == n \div HALF
             b == m % HALF
             c == m \div HALF
  <1>3. n = a + HALF * m /\ a \in 0..(HALF - 1) /\ m \in Nat
    BY <1>1
  <1>4. m = b + HALF * c /\ b \in 0..(HALF - 1) /\ c \in Nat
    BY <1>1, <1>3
  <1>a. (n \div 1) % HALF = a
    BY <1>1
  <1>b. (n \div HALF) % HALF = b
    OBVIOUS
  <1> HIDE DEF a, m, b, c
  <1>5. n = c * (HALF * HALF) + (a + HALF * b)
    BY <1>1, <1>3, <1>4
  <1>6. a + HALF * b \in 0..(HALF * HALF - 1)
    <2>1. b * HALF <= (HALF - 1) * HALF
      BY <1>1, <1>4, ProductIsMonotone
    <2> QED BY <1>1, <1>2, <1>3, <1>4, <2>1
  <1>7. n \div (HALF * HALF) = c
    BY <1>2, <1>4, <1>5, <1>6, DivisionIsUnique
  <1>8. c \in 0..(HALF - 1)
    <2>1. HALF * HALF * HALF = HALF * (HALF * HALF)
      BY <1>1
    <2>2. c >= HALF => HALF * (HALF * HALF) <= c * (HALF * HALF)
      BY <1>1, <1>2, <1>4, ProductIsMonotone
    <2>a. c * (HALF * HALF) \in Nat
      BY <1>2, <1>4
    <2>b. HALF * (HALF * HALF) \in Nat
      BY <1>1, <1>2
    <2>3. c * (HALF * HALF) \in Nat /\ HALF * (HALF * HALF) \in Nat
      BY <2>a, <2>b
    <2>4. n < HALF * (HALF * HALF)
      BY <1>1, <2>1, <2>3 DEF Lengths
    <2>5. n >= c * (HALF * HALF)
      <3> DEFINE x == c * (HALF * HALF)
                 y == a + HALF * b
      <3>1. x \in Nat /\ y \in Nat /\ n = x + y
        BY <1>5, <1>6, <2>3, <1>2
      <3> HIDE DEF x, y
      <3>2. n >= x
        BY <3>1
      <3> QED BY <3>2 DEF x
    <2>6. c < HALF
      <3> DEFINE x == c * (HALF * HALF)
                 y == HALF * (HALF * HALF)
      <3>1. x \in Nat /\ y \in Nat /\ n >= x /\ n < y
        BY <2>3, <2>4, <2>5
      <3>2. c >= HALF => y <= x
        BY <2>2
      <3> HIDE DEF x, y
      <3> QED BY <3>1, <3>2, <1>1, <1>4
    <2> QED BY <1>1, <1>4, <2>6
  <1>9. (n \div (HALF * HALF)) % HALF = c
    BY <1>1, <1>7, <1>8, RemainderIsUnique
  <1>10. /\ a % HALF = a /\ (HALF + a) % HALF = a
         /\ b % HALF = b /\ (HALF + b) % HALF = b
         /\ c % HALF = c
    BY <1>1, <1>3, <1>4, <1>8, RemainderIsUnique
  <1>11. HALF + a \in HALF..(2 * HALF - 1) /\ HALF + b \in HALF..(2 * HALF - 1)
    BY <1>1, <1>3, <1>4
  <1>12. CASE n < HALF
    <2>1. a = n
      BY <1>1, <1>12, RemainderIsUnique DEF a
    <2>2. EncodedLength(n) = <<a>>
      BY <1>12, <1>a DEF EncodedLength
    <2>3. <<a>> \in LengthCode
      BY <1>3 DEF LengthCode
    <2>4. LengthOf(<<a>>) = a % HALF
      BY <1>1, <1>3, <1>10 DEF LengthOf
    <2> QED BY <1>10, <2>1, <2>2, <2>3, <2>4
  <1>13. CASE ~(n < HALF) /\ n < HALF * HALF
    <2>1. EncodedLength(n) = <<HALF + a, b>>
      BY <1>13, <1>a, <1>b DEF EncodedLength
    <2>2. <<HALF + a, b>> \in LengthCode
      BY <1>4, <1>11 DEF LengthCode
    <2>3. LengthOf(<<HALF + a, b>>) = a + HALF * b
      <3>1. a + HALF * b \in Nat
        BY <1>6
      <3> QED BY <1>10, <3>1 DEF LengthOf
    <2>4. c = 0
      <3>1. c # 0 => 1 * (HALF * HALF) <= c * (HALF * HALF)
        BY <1>2, <1>4, ProductIsMonotone
      <3>2. c * (HALF * HALF) \in Nat
        BY <1>2, <1>4
      <3> QED BY <1>2, <1>4, <1>5, <1>6, <1>13, <3>1, <3>2
    <2>5. n = a + HALF * b
      BY <1>2, <1>5, <1>6, <2>4
    <2> QED BY <2>1, <2>2, <2>3, <2>5
  <1>14. CASE ~(n < HALF) /\ ~(n < HALF * HALF)
    <2>1. EncodedLength(n) = <<HALF + a, HALF + b, c>>
      BY <1>14, <1>a, <1>b, <1>9 DEF EncodedLength
    <2>2. c \in Byte
      BY <1>1, <1>8 DEF Byte
    <2>3. <<HALF + a, HALF + b, c>> \in LengthCode
      BY <1>11, <2>2 DEF LengthCode
    <2>4. LengthOf(<<HALF + a, HALF + b, c>>)
              = a + HALF * b + HALF * HALF * c
      BY <1>10 DEF LengthOf
    <2>5. a + HALF * b + HALF * HALF * c = n
      BY <1>1, <1>3, <1>4, <1>5
    <2> QED BY <2>1, <2>3, <2>4, <2>5
  <1> QED BY <1>12, <1>13, <1>14
=============================================================================
