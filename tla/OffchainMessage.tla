-------------------------- MODULE OffchainMessage ---------------------------
(***************************************************************************)
(* What handle_sign_offchain_message (src/src/                             *)
(* handle_sign_offchain_message.c) finds in a message: its header, parsed  *)
(* by parse_offchain_message_header (src/libsol/parser.c), and how its     *)
(* text is encoded.  Bytes have their values.                              *)
(***************************************************************************)
EXTENDS Integers, Sequences, Loop

CONSTANTS
    Domain,                        \* the bytes of OFFCHAIN_MESSAGE_SIGNING_DOMAIN
    OFFCHAIN_MESSAGE_HEADER_LENGTH,
    MAX_OFFCHAIN_MESSAGE_LENGTH

Octet == 0..255

ASSUME OffchainAssumption ==
    /\ Domain \in Seq(Octet)
    /\ OFFCHAIN_MESSAGE_HEADER_LENGTH = Len(Domain) + 4
    /\ MAX_OFFCHAIN_MESSAGE_LENGTH \in Nat

-----------------------------------------------------------------------------
(* The header.                                                             *)

Header(version, format, length) ==
    [rc |-> 0, version |-> version, format |-> format, length |-> length]

parse_offchain_message_header(bytes) ==
    LET n == Len(Domain)
    IN  IF Len(bytes) < n + 4 \/ SubSeq(bytes, 1, n) # Domain
        THEN [Header(0, 0, 0) EXCEPT !.rc = 1]
        ELSE Header(bytes[n + 1], bytes[n + 2],
                    bytes[n + 3] + 256 * bytes[n + 4])

(* Mutant of ValidHeader: the text may be shorter than announced.          *)
ValidHeaderWithRest(h, size) ==
    /\ h.version = 0
    /\ h.format <= 1
    /\ h.length <= MAX_OFFCHAIN_MESSAGE_LENGTH
    /\ h.length + OFFCHAIN_MESSAGE_HEADER_LENGTH <= size

ValidHeader(h, size) ==
    /\ h.version = 0
    /\ h.format <= 1
    /\ h.length <= MAX_OFFCHAIN_MESSAGE_LENGTH
    /\ h.length + OFFCHAIN_MESSAGE_HEADER_LENGTH = size

-----------------------------------------------------------------------------
(* The text.                                                               *)

is_data_ascii(text) == \A i \in 1..Len(text) : text[i] \in 32..126

Within(text, i, n) == i + n - 1 <= Len(text)

(* The bytes behind a lead byte: 10xxxxxx.                                 *)
Continues(text, i, n) ==
    Within(text, i, n) /\ \A j \in (i + 1)..(i + n - 1) : text[j] \in 128..191

TwoBytes(text, i) ==
    /\ text[i] \in 192..223
    /\ Continues(text, i, 2)
    /\ text[i] \notin 192..193                               \* overlong

(* Mutant of ThreeBytes: surrogates pass.                                  *)
ThreeBytesOrSurrogates(text, i) ==
    /\ text[i] \in 224..239
    /\ Continues(text, i, 3)
    /\ ~(text[i] = 224 /\ text[i + 1] \in 128..159)
    /\ ~(text[i] = 239 /\ text[i + 1] = 191 /\ text[i + 2] \in 190..191)

ThreeBytes(text, i) ==
    /\ text[i] \in 224..239
    /\ Continues(text, i, 3)
    /\ ~(text[i] = 224 /\ text[i + 1] \in 128..159)          \* overlong
    /\ ~(text[i] = 237 /\ text[i + 1] \in 160..191)          \* surrogate
    /\ ~(text[i] = 239 /\ text[i + 1] = 191
         /\ text[i + 2] \in 190..191)                        \* U+FFFE, U+FFFF

FourBytes(text, i) ==
    /\ text[i] \in 240..247
    /\ Continues(text, i, 4)
    /\ ~(text[i] = 240 /\ text[i + 1] \in 128..143)          \* overlong
    /\ ~(text[i] = 244 /\ text[i + 1] > 143)                 \* > U+10FFFF
    /\ text[i] <= 244

(* The bytes of the character at the text's ith byte, 0 if there is none.  *)
CharacterLength(text, i) ==
    IF text[i] < 128 THEN 1
    ELSE IF TwoBytes(text, i) THEN 2
    ELSE IF ThreeBytes(text, i) THEN 3
    ELSE IF FourBytes(text, i) THEN 4
    ELSE 0

(* The loop of is_data_utf8: the positions it comes to; it ends behind the *)
(* text, or in front of what is no character.                              *)
Utf8Loop(text) ==
    After([i \in Nat \ {0} |->
              IF i > Len(text) THEN i ELSE i + CharacterLength(text, i)], 1)

is_data_utf8(text) == Utf8Loop(text)[Len(text)] > Len(text)

-----------------------------------------------------------------------------
(* What LedgerApp knows of an off-chain message.                           *)

TextOf(bytes) ==
    LET h == parse_offchain_message_header(bytes)
        text == SubSeq(bytes, OFFCHAIN_MESSAGE_HEADER_LENGTH + 1, Len(bytes))
        ok == h.rc = 0 /\ ValidHeader(h, Len(bytes))
    IN  [wellFormed |-> ok,
         encoding |-> IF ~ok \/ is_data_ascii(text) THEN "ascii"
                      ELSE IF is_data_utf8(text) THEN "utf8" ELSE "invalid",
         extended |-> ok /\ h.format = 1,
         length |-> Len(text)]

-----------------------------------------------------------------------------
(* UTF-8 as it is defined: the code points that have an encoding, and the  *)
(* shortest encoding of each of them.                                      *)

IsCodePoint(c) ==
    /\ c \in Nat /\ c <= 1114111
    /\ ~(55296 <= c /\ c <= 57343)                           \* surrogate
    /\ c \notin {65534, 65535}

Encoded(c) ==
    LET six(shift) == 128 + ((c \div shift) % 64)
    IN  IF c < 128 THEN <<c>>
        ELSE IF c < 2048 THEN <<192 + (c \div 64), six(1)>>
        ELSE IF c < 65536 THEN <<224 + (c \div 4096), six(64), six(1)>>
        ELSE <<240 + (c \div 262144), six(4096), six(64), six(1)>>

(* The number the x bits of one to four bytes make, if they have the form  *)
(* of a lead byte and its continuations.                                   *)
Decoded(b) ==
    LET bits(i) == b[i] % 64
    IN  CASE Len(b) = 1 -> b[1]
          [] Len(b) = 2 -> (b[1] % 32) * 64 + bits(2)
          [] Len(b) = 3 -> (b[1] % 16) * 4096 + bits(2) * 64 + bits(3)
          [] Len(b) = 4 -> (b[1] % 8) * 262144 + bits(2) * 4096
                           + bits(3) * 64 + bits(4)

(* One character's encoding: a code point whose shortest encoding it is.   *)
IsCharacter(b) ==
    IsCodePoint(Decoded(b)) /\ Encoded(Decoded(b)) = b

(* A text can be cut into characters: there are positions, the first one   *)
(* among them, such that a character reaches from each to another one or   *)
(* to the end.                                                             *)
IsCharacters(text) ==
    \E cuts \in SUBSET (1..(Len(text) + 1)) :
        /\ 1 \in cuts
        /\ \A i \in cuts \ {Len(text) + 1} : \E n \in 1..4 :
               i + n \in cuts /\ IsCharacter(SubSeq(text, i, i + n - 1))
=============================================================================
