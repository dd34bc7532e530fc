--------------------------- MODULE SwapParameters ---------------------------
(***************************************************************************)
(* What Exchange asks of the application as a library: to check an         *)
(* address, to print an amount, and to keep the payment it validated until *)
(* a transaction is compared with it (src/src/swap).                       *)
(*                                                                         *)
(* Parameters are records.  A pointer that may be NULL is given or not; of *)
(* the coin configuration only that counts.                                *)
(***************************************************************************)
EXTENDS Printer

CONSTANTS
    AMOUNT_BYTES,             \* sizeof(uint64_t)
    BASE58_PUBKEY_LENGTH,     \* a buffer for the longest address
    MAX_PRINTABLE_AMOUNT_SIZE,
    Keys                      \* the public keys of the paths that can be derived

SOL == <<"S", "O", "L">>
SOL_DECIMALS == 9
print_amount(amount, length) ==
    print_token_amount(amount, SOL, SOL_DECIMALS, length)

(* How many values so many bytes have.                                     *)
Width(bytes) == After([values \in Nat |-> 256 * values], 1)[bytes]

(* "max amount is max uint64 scaled down": it fits, with its unit.         *)
HasRoom(length) ==
    Len(AmountTurns(Values64 - 1, SOL_DECIMALS, length)) + Len(SOL) + 2
        <= length

(* The public keys and hashes that are shown have 32 bytes, no more.       *)
IsKey(bytes) == bytes \in Seq(0..255) /\ Len(bytes) <= 32

ASSUME SwapParametersAssumption ==
    /\ AMOUNT_BYTES \in Nat
    /\ Values64 = Width(AMOUNT_BYTES)
    /\ BASE58_PUBKEY_LENGTH \in Nat /\ BASE58_PUBKEY_LENGTH >= 45
    /\ "null" \notin DOMAIN Keys
    /\ \A path \in DOMAIN Keys : IsKey(Keys[path])
    /\ MAX_PRINTABLE_AMOUNT_SIZE \in Nat \ {0, 1}
    /\ HasRoom(BASE58_PUBKEY_LENGTH) /\ HasRoom(MAX_PRINTABLE_AMOUNT_SIZE)

ExtraId == {"null", "empty", "given"}

-----------------------------------------------------------------------------
(* Mutant of handle_check_address: a beginning of the address is enough.   *)
handle_check_address_prefix(p) ==
    IF /\ ~p.coinConfiguration
       /\ p.path # "null"
       /\ p.extraId = "empty"
       /\ p.path \in DOMAIN Keys
       /\ LET own == encode_base58(Keys[p.path], BASE58_PUBKEY_LENGTH)
          IN  own.rc = 0 /\ IsPrefix(p.address, own.text)
    THEN 1 ELSE 0

(* handle_check_address: 1 if the address is that of the path's key.  The  *)
(* address is never NULL here: a NULL and an empty one are nobody's.       *)
(* Neither a malformed path nor one that cannot be derived has a key; the  *)
(* exception of the latter leaves the 0 that was there before.             *)
handle_check_address(p) ==
    IF /\ ~p.coinConfiguration
       /\ p.path # "null"
       /\ p.extraId = "empty"
       /\ p.path \in DOMAIN Keys
       /\ LET own == encode_base58(Keys[p.path], BASE58_PUBKEY_LENGTH)
          IN  own.rc = 0 /\ p.address = own.text
    THEN 1 ELSE 0

-----------------------------------------------------------------------------
(* The loop of swap_str_to_u64.                                            *)
BytesRead(bytes) ==
    After([s \in [read : Nat, value : Nat] |->
              IF s.read >= Len(bytes) THEN s
              ELSE [read |-> s.read + 1,
                    value |-> (s.value * 256 + bytes[s.read + 1])
                                  % Values64]],
          [read |-> 0, value |-> 0])

(* Mutant of swap_str_to_u64: the first byte is the lowest.                *)
swap_str_to_u64_reversed(bytes) ==
    [ok |-> Len(bytes) <= AMOUNT_BYTES,
     value |-> BytesRead(Reverse(bytes))[Len(bytes)].value]

swap_str_to_u64(bytes) ==
    [ok |-> Len(bytes) <= AMOUNT_BYTES,
     value |-> BytesRead(bytes)[Len(bytes)].value]

(* Mutant of handle_get_printable_amount: a token's amount is printed, too. *)
handle_get_any_printable_amount(p) ==
    LET amount == swap_str_to_u64(p.amount)
        printed == print_amount(amount.value, MAX_PRINTABLE_AMOUNT_SIZE)
    IN  IF ~amount.ok \/ printed.rc # 0
        THEN [result |-> 0, text |-> <<>>]
        ELSE [result |-> 1, text |-> printed.text]

(* handle_get_printable_amount: the text, empty when it returns 0.         *)
handle_get_printable_amount(p) ==
    LET amount == swap_str_to_u64(p.amount)
        printed == print_amount(amount.value, MAX_PRINTABLE_AMOUNT_SIZE)
    IN  IF p.coinConfiguration \/ ~amount.ok \/ printed.rc # 0
        THEN [result |-> 0, text |-> <<>>]
        ELSE [result |-> 1, text |-> printed.text]

-----------------------------------------------------------------------------
(* copy_transaction_parameters: what becomes of G_swap_validated.          *)

NothingValidated == [initialized |-> FALSE, amount |-> 0, recipient |-> <<>>]

(* strlcpy.                                                                *)
Copied(text, length) ==
    IF Len(text) < length THEN text ELSE SubSeq(text, 1, length - 1)

copy_transaction_parameters(p) ==
    LET amount == swap_str_to_u64(p.amount)
    IN  IF p.coinConfiguration \/ p.extraId # "empty" \/ ~amount.ok
        THEN NothingValidated
        ELSE [initialized |-> TRUE,
              amount |-> amount.value,
              recipient |-> Copied(p.destination, BASE58_PUBKEY_LENGTH)]

(* The comparison of an item of the transaction with it: by texts.         *)
check_swap_amount(validated, title, text) ==
    LET printed == print_amount(validated.amount, MAX_PRINTABLE_AMOUNT_SIZE)
    IN  /\ validated.initialized
        /\ title = "Transfer"
        /\ printed.rc = 0
        /\ text = printed.text

(* Mutant of check_swap_recipient: the beginning is compared.              *)
check_swap_recipient_prefix(validated, title, text) ==
    /\ validated.initialized
    /\ title = "Recipient"
    /\ IsPrefix(validated.recipient, text)

check_swap_recipient(validated, title, text) ==
    /\ validated.initialized
    /\ title = "Recipient"
    /\ text = validated.recipient
=============================================================================
