------------------------------ MODULE Printer -------------------------------
(***************************************************************************)
(* The printers of src/libsol/printer.c, for buffers of two bytes or more. *)
(*                                                                         *)
(* A text is a sequence of one character strings.  A printer returns rc,   *)
(* as in the code, the text somebody who reads the buffer up to its first  *)
(* NUL finds there, and how many bytes of the buffer, from its start, were *)
(* written at most.  After an error that leaves no terminated text in the  *)
(* buffer the text is empty: the callers do not look at it.                *)
(***************************************************************************)
EXTENDS Integers, SequencesExt, Loop

CONSTANT Values64 \* number of values of a uint64_t

ASSUME PrinterAssumption == Values64 \in Nat \ {0}

Signed64 == -(Values64 \div 2)..((Values64 \div 2) - 1)

NUL == "NUL"
Digits == <<"0", "1", "2", "3", "4", "5", "6", "7", "8", "9">>

Text(text, written) == [rc |-> 0, text |-> text, written |-> written]
NoText(written) == [rc |-> 1, text |-> <<>>, written |-> written]

Most(a, b) == IF a < b THEN b ELSE a

-----------------------------------------------------------------------------
(* Numbers.                                                                *)

Numerals == ToSet(Digits)

(* Between two turns of a loop that prints a number: what it wrote, the    *)
(* last digit first, and what is left of the number.                       *)
Printing == [out : Seq(Numerals \cup {"."}), rest : Nat]

Unprinted(value) == [out |-> <<>>, rest |-> value]

DigitWritten(s) == [out |-> Append(s.out, Digits[(s.rest % 10) + 1]),
                    rest |-> s.rest \div 10]

(* A turn of print_token_amount writes a digit, and the point where it     *)
(* belongs.                                                                *)
AmountTurn(s, decimals) ==
    DigitWritten(IF Len(s.out) = decimals
                 THEN [s EXCEPT !.out = Append(@, ".")] ELSE s)

(* Its loop; the buffer's length is looked at before every turn but the    *)
(* first, so that there are at most as many.                               *)
AmountLoop(value, decimals, length) ==
    After([s \in Printing |->
              IF /\ s.rest > 0 \/ Len(s.out) < decimals + 1
                 /\ Len(s.out) < length
              THEN AmountTurn(s, decimals) ELSE s],
          AmountTurn(Unprinted(value), decimals))

AmountTurns(value, decimals, length) ==
    AmountLoop(value, decimals, length)[length].out

(* Mutant of WithoutZeros: the first digit may go, too.                    *)
WithoutLast(text) ==
    IF text # <<>> /\ Last(text) = "0" THEN Front(text) ELSE text

(* Trailing zeros, but never the first character.                          *)
WithoutZeros(text) ==
    SubSeq(text, 1, Most(SelectLastInSeq(text, LAMBDA c : c # "0"),
                         IF text = <<>> THEN 0 ELSE 1))

(* ... and the point they leave at the end.                                *)
Stripped(text) ==
    LET t == WithoutZeros(text)
    IN  IF Last(t) = "." THEN Front(t) ELSE t

(* print_token_amount; without an asset the text is the number alone.      *)
print_token_amount(amount, asset, decimals, length) ==
    LET out == IF length > 1 THEN AmountTurns(amount, decimals, length)
               ELSE <<>>
        text == Stripped(Reverse(out))
        named == text \o <<" ">> \o asset
    IN  IF Len(out) >= length THEN NoText(Len(out))
        ELSE IF asset = <<>>
             THEN Text(text, Most(Len(out), Len(text) + 1))
        ELSE IF Len(named) + 1 > length THEN NoText(Len(out))
        ELSE Text(named, Most(Len(out), Len(named) + 1))

(* The loop of print_u64.                                                  *)
NumberLoop(value, length) ==
    After([s \in Printing |->
              IF s.rest > 0 /\ Len(s.out) < length THEN DigitWritten(s)
              ELSE s],
          DigitWritten(Unprinted(value)))

NumberTurns(value, length) == NumberLoop(value, length)[length].out

print_u64(value, length) ==
    LET out == IF length > 1 THEN NumberTurns(value, length) ELSE <<>>
    IN  IF Len(out) >= length THEN NoText(Len(out))
        ELSE Text(Reverse(out), Len(out) + 1)

(* Mutant of Magnitude: the bits are turned and the one is not added.      *)
OnesComplement(value) ==
    LET u == value % Values64
    IN  IF value < 0 THEN (Values64 - 1) - u ELSE u

(* The number whose digits print_i64 prints, by turning all bits.          *)
Magnitude(value) ==
    LET u == value % Values64
    IN  IF value < 0 THEN ((Values64 - 1) - u + 1) % Values64 ELSE u

print_i64(value, length) ==
    LET sign == IF value < 0 THEN 1 ELSE 0
        number == print_u64(Magnitude(value), length - sign)
    IN  IF length < 1 THEN NoText(0)
        ELSE IF number.rc # 0 THEN NoText(sign + number.written)
        ELSE Text((IF sign = 1 THEN <<"-">> ELSE <<>>) \o number.text,
                     sign + number.written)

-----------------------------------------------------------------------------
(* Strings.                                                                *)

(* A C string in a buffer with these bytes.                                *)
UpToNul(bytes) ==
    IF NUL \in ToSet(bytes)
    THEN SubSeq(bytes, 1, SelectInSeq(bytes, LAMBDA c : c = NUL) - 1)
    ELSE bytes

(* Mutant of Marked: the text ends where the buffer ends.                  *)
Unmarked(text, length) == SubSeq(text, 1, length - 1)

(* Mutant of Marked: the mark takes the place of the final NUL.            *)
MarkedLate(text, length) == SubSeq(text, 1, length - 1) \o <<"~">>

(* A text that fills its buffer ends in a mark, if it has room for one.    *)
Marked(text, length) ==
    SubSeq(text, 1, length - 2) \o (IF length > 1 THEN <<"~">> ELSE <<>>)

(* Both copy with strncpy, which fills the buffer behind a NUL with NULs.  *)
print_sized_string(string, length) ==
    LET copied == UpToNul(string)
    IN  IF Len(string) < length THEN Text(copied, Len(string) + 1)
        ELSE [rc |-> 1,
              text |-> IF Len(copied) < length - 2 THEN copied
                       ELSE Marked(copied, length),
              written |-> length]

print_string(string, length) ==
    IF Len(string) < length THEN Text(string, length)
    ELSE [rc |-> 1, text |-> Marked(string, length), written |-> length]

(* Mutant of print_summary: a long string is copied like a short one.      *)
print_summary_copied(string, length, leftLength, rightLength) ==
    IF length <= leftLength + rightLength + 2 THEN NoText(0)
    ELSE print_string(string, length)

print_summary(string, length, leftLength, rightLength) ==
    IF length <= leftLength + rightLength + 2 THEN NoText(0)
    ELSE IF Len(string) + 1 <= length THEN print_string(string, length)
    ELSE Text(SubSeq(string, 1, leftLength) \o <<".", ".">>
                    \o SubSeq(string, Len(string) - rightLength + 1,
                              Len(string)),
                 leftLength + rightLength + 3)

-----------------------------------------------------------------------------
(* Base 58.                                                                *)

BASE58_ALPHABET ==
    <<"1", "2", "3", "4", "5", "6", "7", "8", "9", "A", "B", "C", "D", "E",
      "F", "G", "H", "J", "K", "L", "M", "N", "P", "Q", "R", "S", "T", "U",
      "V", "W", "X", "Y", "Z", "a", "b", "c", "d", "e", "f", "g", "h", "i",
      "j", "k", "m", "n", "o", "p", "q", "r", "s", "t", "u", "v", "w", "x",
      "y", "z">>

CountZeros(bytes) ==
    LET nonZero == SelectInSeq(bytes, LAMBDA b : b # 0)
    IN  IF nonZero = 0 THEN Len(bytes) ELSE nonZero - 1

(* One pass of the division by 58 over tmp: the quotient, byte by byte,    *)
(* and the remainder.                                                      *)
Divided(tmp) ==
    After([s \in [tmp : Seq(0..255), rest : 0..57] |->
              IF Len(s.tmp) >= Len(tmp) THEN s
              ELSE LET n == s.rest * 256 + tmp[Len(s.tmp) + 1]
                   IN  [tmp |-> Append(s.tmp, n \div 58), rest |-> n % 58]],
          [tmp |-> <<>>, rest |-> 0])[Len(tmp)]

(* Mutant of DividedBy58: the first byte is not divided again.             *)
DividedTail(tmp) ==
    [Divided(Tail(tmp)) EXCEPT !.tmp = <<0>> \o @]

DividedBy58(tmp) == Divided(tmp)

(* The loop: a digit per pass, the last digit of the text first.  At most  *)
(* one leading zero of tmp is passed over per pass.  A bound: it makes one *)
(* pass more than the second buffer has room for.                          *)
Base58Digits(bytes, zeros) ==
    After([s \in [tmp : Seq(0..255), start : Nat, digits : Seq(0..57)] |->
              IF s.start >= Len(s.tmp) THEN s
              ELSE LET next == DividedBy58(s.tmp)
                   IN  [tmp |-> next.tmp,
                        start |-> IF next.tmp[s.start + 1] = 0
                                  THEN s.start + 1 ELSE s.start,
                        digits |-> <<next.rest>> \o s.digits]],
          [tmp |-> bytes, start |-> zeros, digits |-> <<>>])
        [2 * Len(bytes) + 1].digits

(* encode_base58, for inputs that fit its buffers of 64 bytes; "used" are  *)
(* the bytes of the second buffer that were written.                       *)
encode_base58(bytes, length) ==
    LET zeros == CountZeros(bytes)
        digits == Base58Digits(bytes, zeros)
        significant == SubSeq(digits, CountZeros(digits) + 1, Len(digits))
        text == [i \in 1..(zeros + Len(significant)) |->
                    BASE58_ALPHABET[IF i <= zeros THEN 1
                                    ELSE significant[i - zeros] + 1]]
        used == Most(Len(digits), Len(text))
    IN  IF length < Len(text) + 1
        THEN [rc |-> 1, text |-> <<>>, written |-> 0, used |-> used]
        ELSE [rc |-> 0, text |-> text, written |-> Len(text) + 1,
              used |-> used]
=============================================================================
