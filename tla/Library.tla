------------------------------- MODULE Library -------------------------------
(***************************************************************************)
(* The calls into the parts of the program that compute without a state of *)
(* their own: the printers as the summary displays its items with them     *)
(* (src/libsol/transaction_summary.c), the lengths, instructions, fees,    *)
(* dates and texts, and the library calls of Exchange.  G_swap_validated   *)
(* is the one thing that outlives a call.                                  *)
(***************************************************************************)
EXTENDS SwapParameters, ComputeBudget, CompactLength, Rfc3339,
        OffchainMessage, InstructionParsers

CONSTANTS
    SUMMARY_LENGTH,      \* characters of a key shown on either side
    BASE58_PUBKEY_SHORT, \* the buffer of a shortened key
    MAX_SYMBOL_LENGTH,   \* the longest symbol a token has here
    DisplayCalls, AmountCalls, NumberCalls, StringCalls, LengthCalls,
    FeeCalls, DateCalls, TextCalls, AddressCalls, PrintableCalls,
    PaymentCalls, PaidItems, InstructionCalls

(* An item of the summary; a timestamp is printed by FormatTimestamp.      *)
SummaryItem ==
    [kind : {"Amount", "U64"}, value : 0..(Values64 - 1)]
    \cup [kind : {"I64"}, value : Signed64]
    \cup [kind : {"TokenAmount"}, value : 0..(Values64 - 1),
          symbol : {s \in Seq(STRING) : Len(s) <= MAX_SYMBOL_LENGTH},
          decimals : Nat]
    \cup [kind : {"Pubkey", "Hash"}, bytes : {b \in Seq(0..255) : IsKey(b)}]
    \cup [kind : {"String", "SizedString"}, text : Seq(STRING)]

(* An amount without decimals, as large as it can be, and any symbol fit   *)
(* the buffer of an item.                                                  *)
HasRoomForSymbols ==
    Len(AmountTurns(Values64 - 1, 0, BASE58_PUBKEY_LENGTH))
        + MAX_SYMBOL_LENGTH + 2 <= BASE58_PUBKEY_LENGTH

(* What the callers pass, by the C types of the parameters and the sizes   *)
(* of their buffers.                                                       *)
ASSUME LibraryAssumption ==
    /\ MAX_SYMBOL_LENGTH \in Nat /\ HasRoomForSymbols
    /\ SUMMARY_LENGTH \in Nat
    /\ BASE58_PUBKEY_SHORT = SUMMARY_LENGTH + 2 + SUMMARY_LENGTH + 1
    /\ BASE58_PUBKEY_SHORT <= BASE58_PUBKEY_LENGTH
    /\ DisplayCalls \subseteq [item : SummaryItem, long : BOOLEAN]
    /\ AddressCalls \subseteq
           [coinConfiguration : BOOLEAN, path : STRING,
            address : Seq(STRING), extraId : ExtraId]
    /\ AmountCalls \subseteq [amount : Nat, asset : Seq(STRING),
                              decimals : Nat, length : Nat \ {0, 1}]
    /\ NumberCalls \subseteq [value : Signed64, length : Nat]
    /\ StringCalls \subseteq [text : Seq(STRING), length : Nat \ {0, 1}]
    /\ LengthCalls \subseteq [length : Lengths]
    /\ FeeCalls \subseteq [info : FeeInfo]
    /\ InstructionCalls \subseteq Raw
    /\ DateCalls \subseteq [day : Days, second : Seconds]
    /\ TextCalls \subseteq [bytes : Seq(Octet)]
    /\ PrintableCalls \subseteq
           [coinConfiguration : BOOLEAN, amount : Seq(Octet)]
    /\ PaymentCalls \subseteq
           [coinConfiguration : BOOLEAN, extraId : ExtraId,
            amount : Seq(Octet), destination : Seq(STRING)]
    /\ PaidItems \subseteq
           [title : STRING,
            item : [kind : {"Amount"}, value : 0..(Values64 - 1)]
                   \cup [kind : {"Pubkey"}, bytes : Seq(Octet)]]

VARIABLES
    asked,     \* the parameters of the last SIGN_TRANSACTION of Exchange
    validated, \* G_swap_validated
    call,      \* what was called, with its parameters
    reply      \* what it returned

library == <<asked, validated, call, reply>>

TEXT_BUFFER_LENGTH == BASE58_PUBKEY_LENGTH
NoCall == [fn |-> "none"]
NoReply == [rc |-> 0]

LibraryInit ==
    /\ asked = NoCall
    /\ validated = NothingValidated
    /\ call = NoCall
    /\ reply = NoReply

(* transaction_summary_update_display_for_item.  Strings that do not fit   *)
(* are shown with their mark, all else that does not fit is an error.      *)
Displayed(item, longPubkeys) ==
    CASE item.kind = "Amount" -> print_amount(item.value, TEXT_BUFFER_LENGTH)
      [] item.kind = "TokenAmount" ->
            print_token_amount(item.value, item.symbol, item.decimals,
                               TEXT_BUFFER_LENGTH)
      [] item.kind = "I64" -> print_i64(item.value, TEXT_BUFFER_LENGTH)
      [] item.kind = "U64" -> print_u64(item.value, TEXT_BUFFER_LENGTH)
      [] item.kind = "Pubkey" ->
            LET whole == encode_base58(item.bytes, BASE58_PUBKEY_LENGTH)
            IN  IF whole.rc # 0 THEN whole
                ELSE IF longPubkeys
                THEN print_string(whole.text, TEXT_BUFFER_LENGTH)
                ELSE print_summary(whole.text, BASE58_PUBKEY_SHORT,
                                   SUMMARY_LENGTH, SUMMARY_LENGTH)
      [] item.kind = "Hash" -> encode_base58(item.bytes, TEXT_BUFFER_LENGTH)
      [] item.kind = "String" ->
            [print_string(item.text, TEXT_BUFFER_LENGTH) EXCEPT !.rc = 0]
      [] item.kind = "SizedString" ->
            [print_sized_string(item.text, TEXT_BUFFER_LENGTH)
                EXCEPT !.rc = 0]

-----------------------------------------------------------------------------
Called(fn, parameters, result) ==
    /\ call = NoCall
    /\ call' = [fn |-> fn, with |-> parameters]
    /\ reply' = result
    /\ UNCHANGED <<asked, validated>>

DisplayItem(c) == Called("display", c, Displayed(c.item, c.long))

PrintTokenAmount(c) ==
    Called("print_token_amount", c,
           print_token_amount(c.amount, c.asset, c.decimals, c.length))

PrintNumber(c) == Called("print_i64", c, print_i64(c.value, c.length))

PrintSizedString(c) ==
    Called("print_sized_string", c, print_sized_string(c.text, c.length))

ParseLength(c) ==
    Called("parse_length", c,
           [rc |-> 0, length |-> LengthOf(EncodedLength(c.length))])

CalculateMaxFee(c) ==
    Called("calculate_max_fee", c, [rc |-> 0, fee |-> MaxFee(c.info)])

ParseInstructionData(c) ==
    LET parsed == ParsedInstruction(c)
    IN  Called("parse_instruction", c,
               [rc |-> parsed.rc, fields |-> parsed.fields,
                signers |-> parsed.signers, left |-> parsed.accounts,
                info |-> Info(c)])

FormatTimestamp(c) ==
    Called("rfc3339_format", c,
           [rc |-> rdn_to_ymd(c.day).rc, date |-> rdn_to_ymd(c.day),
            time |-> TimeDigits(c.second)])

ReadText(c) ==
    Called("offchain_message", c, [rc |-> 0, text |-> TextOf(c.bytes)])

CheckAddress(c) ==
    Called("check_address", c, [rc |-> handle_check_address(c)])

GetPrintableAmount(c) ==
    Called("get_printable_amount", c, handle_get_printable_amount(c))

(* SIGN_TRANSACTION, up to the transaction it waits for.                   *)
ValidatePayment(c) ==
    /\ call = NoCall
    /\ asked' = c
    /\ validated' = copy_transaction_parameters(c)
    /\ call' = [fn |-> "payment"]
    /\ reply' = NoReply

(* The loop of check_swap_validity, for one item of the transaction.       *)
CheckPaidItem(c) ==
    LET shown == Displayed(c.item, TRUE)
    IN  /\ call = NoCall
        /\ call' = [fn |-> "check_item", with |-> c]
        /\ reply' = [rc |-> shown.rc,
                     text |-> shown.text,
                     ok |-> \/ /\ c.item.kind = "Amount"
                               /\ check_swap_amount(validated, c.title,
                                                    shown.text)
                            \/ /\ c.item.kind = "Pubkey"
                               /\ check_swap_recipient(validated, c.title,
                                                       shown.text)]
        /\ UNCHANGED <<asked, validated>>

Return ==
    /\ call # NoCall
    /\ call' = NoCall
    /\ reply' = NoReply
    /\ UNCHANGED <<asked, validated>>

Compute ==
    \/ \E c \in DisplayCalls : DisplayItem(c)
    \/ \E c \in AmountCalls : PrintTokenAmount(c)
    \/ \E c \in NumberCalls : PrintNumber(c)
    \/ \E c \in StringCalls : PrintSizedString(c)
    \/ \E c \in LengthCalls : ParseLength(c)
    \/ \E c \in FeeCalls : CalculateMaxFee(c)
    \/ \E c \in InstructionCalls : ParseInstructionData(c)
    \/ \E c \in DateCalls : FormatTimestamp(c)
    \/ \E c \in TextCalls : ReadText(c)
    \/ \E c \in AddressCalls : CheckAddress(c)
    \/ \E c \in PrintableCalls : GetPrintableAmount(c)

(* A bound: what does not look at G_swap_validated is called in a process  *)
(* in which nothing was validated.                                         *)
LibraryNext ==
    \/ asked = NoCall /\ call = NoCall /\ Compute
    \/ call = NoCall /\ \E c \in PaymentCalls : ValidatePayment(c)
    \/ call = NoCall /\ \E c \in PaidItems : CheckPaidItem(c)
    \/ Return

LibrarySpec == LibraryInit /\ [][LibraryNext]_library
=============================================================================
