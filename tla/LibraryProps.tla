---------------------------- MODULE LibraryProps ----------------------------
(***************************************************************************)
(* What the calls of Library owe their callers, against definitions that   *)
(* do not follow the code.                                                 *)
(***************************************************************************)
EXTENDS Library

Is(fn) == call.fn = fn

(* The parameters of the call.                                             *)
given == call.with

-----------------------------------------------------------------------------
(* Numbers as people write them.                                           *)

(* The number that digits make, the highest first, from left to right.     *)
ValueLoop(digits, base) ==
    After([s \in [read : Nat, value : Nat] |->
              IF s.read >= Len(digits) THEN s
              ELSE [read |-> s.read + 1,
                    value |-> s.value * base + digits[s.read + 1]]],
          [read |-> 0, value |-> 0])

ValueOf(digits, base) == ValueLoop(digits, base)[Len(digits)].value

IsNumeral(t) == t # <<>> /\ \A i \in 1..Len(t) : t[i] \in Numerals

DigitValue(c) == SelectInSeq(Digits, LAMBDA d : d = c) - 1

Number(t) == ValueOf([i \in 1..Len(t) |-> DigitValue(t[i])], 10)

IsShortest(t) == Len(t) > 1 => Head(t) # "0"

Point(t) == SelectInSeq(t, LAMBDA c : c = ".")
WholePart(t) == IF Point(t) = 0 THEN t ELSE SubSeq(t, 1, Point(t) - 1)
Fraction(t) == IF Point(t) = 0 THEN <<>> ELSE SubSeq(t, Point(t) + 1, Len(t))

(* A text without needless zeros, whose digits, shifted by the decimals,   *)
(* are those of the amount.                                                *)
DenotesAmount(t, amount, decimals) ==
    /\ IsNumeral(WholePart(t)) /\ IsShortest(WholePart(t))
    /\ Point(t) > 0 => IsNumeral(Fraction(t)) /\ Last(t) # "0"
    /\ Len(Fraction(t)) <= decimals
    /\ Number(WholePart(t) \o Fraction(t)
              \o [i \in 1..(decimals - Len(Fraction(t))) |-> "0"]) = amount

(* An amount is shown as the number it is, in its shortest form, or not at *)
(* all; with the asset behind it (printer.c:11).                           *)
AmountIsExact ==
    Is("print_token_amount") /\ reply.rc = 0 =>
        LET tail == IF given.asset = <<>> THEN <<>>
                    ELSE <<" ">> \o given.asset
        IN  /\ IsSuffix(tail, reply.text)
            /\ DenotesAmount(SubSeq(reply.text, 1,
                                    Len(reply.text) - Len(tail)),
                             given.amount, given.decimals)

(* A signed number is shown as it is, down to the smallest, whose negation *)
(* does not exist (printer.c:169).                                         *)
NumberIsExact ==
    Is("print_i64") /\ reply.rc = 0 /\ given.length > 2 =>
        LET digits == IF given.value < 0 THEN Tail(reply.text)
                      ELSE reply.text
        IN  /\ IsNumeral(digits) /\ IsShortest(digits)
            /\ IF given.value < 0
               THEN Head(reply.text) = "-" /\ Number(digits) = -given.value
               ELSE Number(digits) = given.value

(* No printer writes behind its buffer, whatever it prints, and it ends    *)
(* its text inside; with one exception: print_token_amount tests the       *)
(* buffer's length once per turn of its loop, and a point that takes the   *)
(* last byte of the buffer is followed by a digit behind it                *)
(* (printer.c:24).  The same of the text of an item, in the buffer all     *)
(* items share (transaction_summary.c:150), where the only items that are  *)
(* not displayed are token amounts with more decimals than that has room   *)
(* for.                                                                    *)
TextStaysInBuffer ==
    /\ call.fn \in {"print_token_amount", "print_i64", "print_sized_string"} =>
           /\ \/ reply.written <= given.length
              \/ Is("print_token_amount") /\ given.decimals = given.length - 1
           /\ reply.text = <<>> \/ Len(reply.text) < given.length
    /\ Is("display") =>
           /\ reply.rc # 0 => /\ given.item.kind = "TokenAmount"
                             /\ given.item.decimals + Len(given.item.symbol) + 4
                                    > TEXT_BUFFER_LENGTH
           /\ Len(reply.text) <
                  IF given.item.kind = "Pubkey" /\ ~given.long
                  THEN BASE58_PUBKEY_SHORT ELSE TEXT_BUFFER_LENGTH
           /\ \/ reply.written <= TEXT_BUFFER_LENGTH
              \/ /\ given.item.kind = "TokenAmount"
                 /\ given.item.decimals = TEXT_BUFFER_LENGTH - 1

(* A string that is shown in part ends in the mark; one that is shown      *)
(* unmarked is the string, up to its first NUL (printer.c:69).             *)
TruncationIsMarked ==
    Is("print_sized_string") =>
        LET visible == UpToNul(given.text)
        IN  \/ reply.text = visible
            \/ /\ Len(reply.text) = given.length - 1
               /\ Last(reply.text) = "~"
               /\ IsPrefix(Front(reply.text), visible)

-----------------------------------------------------------------------------
DigitOf(c) == SelectInSeq(BASE58_ALPHABET, LAMBDA a : a = c) - 1

(* A number in bytes, the lowest first, times 58 plus a digit.             *)
TimesPlus(bytes, digit) ==
    After([s \in [done : Seq(0..255), carry : Nat] |->
              IF Len(s.done) >= Len(bytes) THEN s
              ELSE LET n == 58 * bytes[Len(s.done) + 1] + s.carry
                   IN  [done |-> Append(s.done, n % 256),
                        carry |-> n \div 256]],
          [done |-> <<>>, carry |-> digit])[Len(bytes)].done

Decoded58(text, length) ==
    After([s \in [read : Nat, bytes : Seq(0..255)] |->
              IF s.read >= Len(text) THEN s
              ELSE [read |-> s.read + 1,
                    bytes |-> TimesPlus(s.bytes, DigitOf(text[s.read + 1]))]],
          [read |-> 0, bytes |-> [i \in 1..length |-> 0]])[Len(text)].bytes

(* A text is that of some bytes: it is written in base 58, decoded to one  *)
(* byte more per character, so that nothing of its number is lost, it      *)
(* gives all of the bytes, and it starts with as many 1s as they have      *)
(* zeros.                                                                  *)
IsTextOf(text, bytes) ==
    LET n == Len(text)
    IN  /\ ToSet(text) \subseteq ToSet(BASE58_ALPHABET)
        /\ Reverse(Decoded58(text, n + Len(bytes)))
               = [i \in 1..n |-> 0] \o bytes
        /\ CountZeros([i \in 1..n |-> DigitOf(text[i])]) = CountZeros(bytes)

(* A key or a hash that is shown in full is shown as what it is, and the   *)
(* buffer of twice its length held what was written of it                  *)
(* (printer.c:125).                                                        *)
Base58IsExact ==
    LET bytes == given.item.bytes
        whole == \/ given.item.kind = "Pubkey" /\ given.long
                 \/ given.item.kind = "Hash"
    IN  Is("display") /\ whole =>
            /\ reply.rc = 0
            /\ IsTextOf(reply.text, bytes)
            /\ encode_base58(bytes, Len(reply.text) + 1).used
                   <= 2 * Len(bytes)

(* Exchange is told that an address belongs to a path exactly if it is     *)
(* the text of the path's key: every byte of the key can be read back from *)
(* it, and no other text passes (handle_check_address.c:66).               *)
AddressIsOfKey ==
    Is("check_address") =>
        (reply.rc = 1 <=>
            /\ ~given.coinConfiguration
            /\ given.extraId = "empty"
            /\ given.path \in DOMAIN Keys
            /\ IsTextOf(given.address, Keys[given.path]))

-----------------------------------------------------------------------------
(* A length encoded as the network encodes it is read as what it is        *)
(* (parser.c:54).                                                          *)
CompactLengthIsExact ==
    Is("parse_length") =>
        /\ reply.length = given.length
        /\ EncodedLength(given.length) \in LengthCode

(* Whatever a printer copies into an item of the summary was set by the    *)
(* parser of this instruction, optional fields, both forms of a validator  *)
(* update and both forms of a token's signature included.  One item is     *)
(* made from a field no parser set: a checked initialization of a stake    *)
(* has no lockup, and its printer finds the zeros of the cleared           *)
(* information (stake_instruction.c:93, 514).                              *)
ShownFieldsAreParsed ==
    Is("parse_instruction") /\ reply.rc = 0
      /\ given.kind \notin ComputeBudgetKinds \cup IgnoredKinds =>
        \A expert \in BOOLEAN :
            \A title \in {"Primary"} \cup
                         ToSet(PrintSingle(reply.info, expert).general) :
                \/ FieldOf(reply.info, title) \in reply.fields
                \/ given.kind = "StakeInitializeChecked" /\ title = "Lockup"

(* Every account behind the fixed ones of a token instruction that is      *)
(* signed is its owner, or one of the signers whose number is shown with a *)
(* multisig owner: nobody signs unseen (spl_token_instruction.c:126).      *)
SignersAreCounted ==
    Is("parse_instruction") /\ reply.rc = 0
      /\ given.kind \in SignedTokenKinds =>
        /\ reply.left = IF "Multisig" \in reply.info.facts
                        THEN reply.signers - 1 ELSE 0
        /\ "Multisig" \in reply.info.facts =>
               reply.signers \in 1..Token_MAX_SIGNERS

(* The fee that is shown never exceeds what the message allows, and is     *)
(* exactly that if it and the product it comes from fit their types        *)
(* (compute_budget_instruction.c:49).                                      *)
MaxFeeFits ==
    Is("calculate_max_fee") =>
        /\ reply.fee <= ExactFee(given.info)
        /\ FitsWidths(given.info) => reply.fee = ExactFee(given.info)

(* "Display transaction max fees" (compute_budget_instruction.c:78): the   *)
(* fee that is shown is the highest the transaction may cost.              *)
MaxFeeIsExact ==
    Is("calculate_max_fee") => reply.fee = ExactFee(given.info)

(* A day is shown as the date it has in the calendar, the seconds of a day *)
(* as its time, and a day behind the year 9999 is not shown                *)
(* (rfc3339.c:61).                                                         *)
DateIsExact ==
    Is("rfc3339_format") =>
        LET t == reply.time
            date == reply.date
        IN  /\ IF given.day > DaysBeforeYear(10000) THEN reply.rc # 0
               ELSE /\ reply.rc = 0
                    /\ date.m \in 1..12
                    /\ date.d \in 1..MonthLength(date.y, date.m)
                    /\ DayNumber(date.y, date.m, date.d) = given.day
            /\ t[1] * 10 + t[2] < 24
            /\ t[3] < 6
            /\ t[5] < 6
            /\ ((t[1] * 10 + t[2]) * 60 + t[3] * 10 + t[4]) * 60
                   + t[5] * 10 + t[6] = given.second

(* The header of a message in a format, as the network writes it.          *)
TextLength(b) == Len(b) - OFFCHAIN_MESSAGE_HEADER_LENGTH

HasFormat(b, format) ==
    /\ TextLength(b) \in 0..MAX_OFFCHAIN_MESSAGE_LENGTH
    /\ SubSeq(b, 1, Len(Domain) + 4) =
           Domain \o <<0, format, TextLength(b) % 256, TextLength(b) \div 256>>

(* What is known of a message is what its bytes are.                       *)
IsKnown(b, known) ==
    LET text == SubSeq(b, OFFCHAIN_MESSAGE_HEADER_LENGTH + 1, Len(b))
    IN  /\ known.wellFormed <=> HasFormat(b, 0) \/ HasFormat(b, 1)
        /\ known.wellFormed =>
               /\ known.extended <=> HasFormat(b, 1)
               /\ known.encoding =
                      IF \A i \in 1..TextLength(b) : text[i] \in 32..126
                      THEN "ascii"
                      ELSE IF IsCharacters(text) THEN "utf8"
                      ELSE "invalid"

(* The text of an off-chain message is UTF-8 exactly if it is a sequence   *)
(* of shortest encodings of characters (handle_sign_offchain_message.c:23),*)
(* and a message is accepted exactly if its header, as the network writes  *)
(* it, is followed by as many bytes of text as it says                     *)
(* (handle_sign_offchain_message.c:107).                                   *)
TextIsWhatItSays ==
    Is("offchain_message") => IsKnown(given.bytes, reply.text)

-----------------------------------------------------------------------------
(* The number Exchange sends, its bytes the highest first.                 *)
BigEndian(bytes) == ValueOf(bytes, 256)

(* An item that passes the comparison with the payment is the payment: the *)
(* amount in lamports that Exchange asked for, which was not cut to a      *)
(* smaller one, or the key whose whole address it gave.  An address that   *)
(* is too long for its buffer is cut (handle_swap_sign_transaction.c:45)   *)
(* and compared as what is left of it.                                     *)
PaidItemIsPayment ==
    Is("check_item") =>
        LET destination == asked.destination
        IN  reply.ok <=>
                /\ asked # NoCall
                /\ ~asked.coinConfiguration
                /\ asked.extraId = "empty"
                /\ Len(asked.amount) <= AMOUNT_BYTES
                /\ CASE given.item.kind = "Amount" ->
                            /\ given.title = "Transfer"
                            /\ given.item.value = BigEndian(asked.amount)
                     [] given.item.kind = "Pubkey" ->
                            /\ given.title = "Recipient"
                            /\ \/ reply.text = destination
                               \/ /\ Len(destination) >= BASE58_PUBKEY_LENGTH
                                  /\ reply.text =
                                        SubSeq(destination, 1,
                                               BASE58_PUBKEY_LENGTH - 1)

(* What Exchange shows as the amount is the text the payment is compared   *)
(* with later (handle_get_printable_amount.c:8).                           *)
PrintableAmountIsPaid ==
    Is("get_printable_amount") =>
        LET payment == copy_transaction_parameters(
                           [coinConfiguration |-> given.coinConfiguration,
                            extraId |-> "empty", destination |-> <<>>,
                            amount |-> given.amount])
        IN  /\ reply.result = 1 <=> payment.initialized
            /\ reply.result = 1 =>
                   check_swap_amount(payment, "Transfer", reply.text)
=============================================================================
