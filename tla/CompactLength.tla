--------------------------- MODULE CompactLength ----------------------------
(***************************************************************************)
(* The lengths of a message: one to three bytes whose low bits are the     *)
(* digits of the number, the lowest first, and whose high bit announces    *)
(* another byte.  The third byte's high bit announces nothing.             *)
(***************************************************************************)
EXTENDS Integers, Sequences

CONSTANTS HALF \* the value of a byte's high bit, 128 in the code

ASSUME CompactLengthAssumption == HALF \in Nat \ {0}

Byte == 0..(2 * HALF - 1)

(* What one call of parse_length consumes.                                 *)
LengthCode ==
    {<<a>> : a \in 0..(HALF - 1)}
    \cup (HALF..(2 * HALF - 1)) \X (0..(HALF - 1))
    \cup (HALF..(2 * HALF - 1)) \X (HALF..(2 * HALF - 1)) \X Byte

(* Mutant of LengthOf: the second digit has the weight of a whole byte.    *)
LengthOfBytes(code) ==
    (code[1] % HALF)
    + (IF Len(code) > 1 THEN 2 * HALF * (code[2] % HALF) ELSE 0)
    + (IF Len(code) > 2 THEN HALF * HALF * (code[3] % HALF) ELSE 0)

(* The length parse_length reads from them.                                *)
LengthOf(code) ==
    (code[1] % HALF)
    + (IF Len(code) > 1 THEN HALF * (code[2] % HALF) ELSE 0)
    + (IF Len(code) > 2 THEN HALF * HALF * (code[3] % HALF) ELSE 0)

Lengths == 0..(HALF * HALF * HALF - 1)

(* The encoding the network writes: as many digits as the number needs.    *)
EncodedLength(n) ==
    LET digit(i) == (n \div (IF i = 1 THEN 1 ELSE IF i = 2 THEN HALF
                             ELSE HALF * HALF)) % HALF
    IN  IF n < HALF THEN <<digit(1)>>
        ELSE IF n < HALF * HALF THEN <<HALF + digit(1), digit(2)>>
        ELSE <<HALF + digit(1), HALF + digit(2), digit(3)>>
=============================================================================
