------------------------------- MODULE Message -------------------------------
(***************************************************************************)
(* How a message is taken apart: the parser of src/libsol/parser.c, driven *)
(* by parse_message_header and by the loop of process_message_body         *)
(* (src/libsol/message.c).                                                 *)
(*                                                                         *)
(* The bytes of the message are chosen when they are read; those nobody    *)
(* looks at here (public keys, hash, instruction data) are only counted.   *)
(* A pointer into the message is its distance from the start, and "spans"  *)
(* are the parts the parser gave out, from and up to, in their order.      *)
(* Sizes are size_t: they wrap at SIZE_VALUES.                             *)
(***************************************************************************)
EXTENDS CompactLength

CONSTANTS
    PUBKEY_SIZE,
    HASH_SIZE,
    MAX_INSTRUCTIONS,
    SIZE_VALUES, \* number of values of a size_t
    Sizes        \* lengths of a message

ASSUME MessageAssumption ==
    /\ PUBKEY_SIZE \in Nat \ {0}
    /\ HASH_SIZE \in Nat
    /\ MAX_INSTRUCTIONS \in Nat
    /\ SIZE_VALUES \in Nat \ {0}
    /\ Sizes \subseteq 0..(SIZE_VALUES - 1)

(* The largest array of keys a compact length can ask for is a size_t.     *)
ASSUME KeysFitSize == HALF * HALF * HALF * PUBKEY_SIZE <= SIZE_VALUES

VARIABLES
    phase,     \* what is parsed next
    size,      \* the length of the message
    position,  \* parser->buffer
    left,      \* parser->buffer_length
    header,    \* MessageHeader
    signer,    \* index of the signer's key in header->pubkeys
    count,     \* instruction_count
    inst,      \* the instruction: index of its program, highest account
    spans      \* what was given out

message == <<phase, size, position, left, header, signer, count, inst, spans>>

NoHeader == [versioned |-> FALSE, signatures |-> 0, keys |-> 0,
             instructions |-> 0]
NoInstruction == [program |-> 0, accounts |-> 0, highest |-> 0]

MessageInit ==
    /\ phase = "idle"
    /\ size = 0
    /\ position = 0
    /\ left = 0
    /\ header = NoHeader
    /\ signer = 0
    /\ count = 0
    /\ inst = NoInstruction
    /\ spans = <<>>

Receive(n) ==
    /\ phase \in {"idle", "parsed", "refused", "unrecognized"}
    /\ phase' = "version"
    /\ size' = n
    /\ position' = 0
    /\ left' = n
    /\ header' = NoHeader
    /\ signer' = 0
    /\ count' = 0
    /\ inst' = NoInstruction
    /\ spans' = <<>>

-----------------------------------------------------------------------------
(* The primitives.                                                         *)

(* Mutant of Taken: a pointer is given out and the parser stays behind it. *)
TakenInPlace(n) ==
    /\ left >= n
    /\ position' = position
    /\ left' = left - n
    /\ spans' = Append(spans, <<position, position + n>>)

(* check_buffer_length and advance: the next n bytes are given out.        *)
Taken(n) ==
    /\ left >= n
    /\ position' = position + n
    /\ left' = left - n
    /\ spans' = Append(spans, <<position, position + n>>)

HeaderPhases == {"version", "header", "keys", "hash", "length", "signer"}

(* BAIL_IF, on the way out of parse_message_header, which the handler      *)
(* refuses, or of process_message_body, which leaves it to blind signing.  *)
Bail ==
    /\ phase' = IF phase \in HeaderPhases THEN "refused" ELSE "unrecognized"
    /\ UNCHANGED <<size, position, left, header, signer, count, inst, spans>>

(* A reader that needs n bytes fails.                                      *)
TooShort(n) == left < n /\ Bail

-----------------------------------------------------------------------------
(* parse_message_header.                                                   *)

(* parse_version looks at the first byte and leaves it to the header if    *)
(* the message is not versioned.                                           *)
ParseVersion(byte) ==
    /\ phase = "version"
    /\ \/ TooShort(1)
       \/ /\ left >= 1
          /\ phase' = "header"
          /\ header' = [header EXCEPT !.versioned = (byte >= HALF)]
          /\ IF byte >= HALF THEN Taken(1)
             ELSE UNCHANGED <<position, left, spans>>
          /\ UNCHANGED <<size, signer, count, inst>>

(* parse_pubkeys_header: three bytes and a length.  The first byte of a    *)
(* message without version has been seen.                                  *)
ParsePubkeysHeader(signatures, code) ==
    /\ phase = "header"
    /\ header.versioned \/ signatures < HALF
    /\ \/ TooShort(3 + Len(code))
       \/ /\ Taken(3 + Len(code))
          /\ phase' = "keys"
          /\ header' = [header EXCEPT !.signatures = signatures,
                                      !.keys = LengthOf(code)]
          /\ UNCHANGED <<size, signer, count, inst>>

PubkeysSize == (header.keys * PUBKEY_SIZE) % SIZE_VALUES

(* The rest of parse_pubkeys, and parse_blockhash.                         *)
ParsePubkeys ==
    /\ phase = "keys"
    /\ \/ TooShort(PubkeysSize)
       \/ /\ Taken(PubkeysSize)
          /\ phase' = "hash"
          /\ UNCHANGED <<size, header, signer, count, inst>>

ParseBlockhash ==
    /\ phase = "hash"
    /\ \/ TooShort(HASH_SIZE)
       \/ /\ Taken(HASH_SIZE)
          /\ phase' = "length"
          /\ UNCHANGED <<size, header, signer, count, inst>>

ParseInstructionsLength(code) ==
    /\ phase = "length"
    /\ \/ TooShort(Len(code))
       \/ /\ Taken(Len(code))
          /\ phase' = "signer"
          /\ header' = [header EXCEPT !.instructions = LengthOf(code)]
          /\ UNCHANGED <<size, signer, count, inst>>

(* scan_header_for_signer: the first of the keys that have to sign which   *)
(* is the requested one.  The scan does not look at the number of keys.    *)
ScanHeaderForSigner ==
    /\ phase = "signer"
    /\ \/ \E i \in 0..(header.signatures - 1) : signer' = i /\ phase' = "body"
       \/ phase' = "refused" /\ UNCHANGED signer
    /\ UNCHANGED <<size, position, left, header, count, inst, spans>>

-----------------------------------------------------------------------------
(* process_message_body.                                                   *)

CheckInstructionsLength ==
    /\ phase = "body"
    /\ \/ /\ header.instructions \notin 1..MAX_INSTRUCTIONS
          /\ Bail
       \/ /\ header.instructions \in 1..MAX_INSTRUCTIONS
          /\ phase' = "program"
          /\ UNCHANGED <<size, position, left, header, signer, count, inst,
                         spans>>

(* parse_instruction: the program, the accounts and the data.              *)
ParseProgram(program) ==
    /\ phase = "program"
    /\ \/ TooShort(1)
       \/ /\ Taken(1)
          /\ phase' = "accounts"
          /\ inst' = [NoInstruction EXCEPT !.program = program]
          /\ UNCHANGED <<size, header, signer, count>>

(* parse_data, once for the accounts and once for the data.  Of the        *)
(* accounts the highest is kept.                                           *)
ParseAccounts(code, highest) ==
    /\ phase = "accounts"
    /\ LengthOf(code) = 0 => highest = 0
    /\ \/ TooShort(Len(code) + LengthOf(code))
       \/ /\ Taken(Len(code) + LengthOf(code))
          /\ phase' = "data"
          /\ inst' = [inst EXCEPT !.accounts = LengthOf(code),
                                  !.highest = highest]
          /\ UNCHANGED <<size, header, signer, count>>

ParseData(code) ==
    /\ phase = "data"
    /\ \/ TooShort(Len(code) + LengthOf(code))
       \/ /\ Taken(Len(code) + LengthOf(code))
          /\ phase' = "validate"
          /\ UNCHANGED <<size, header, signer, count, inst>>

(* Mutant of Valid: one past the last key.                                 *)
ValidUpTo ==
    /\ inst.program <= header.keys
    /\ inst.accounts > 0 => inst.highest <= header.keys

(* instruction_validate.                                                   *)
Valid ==
    /\ inst.program < header.keys
    /\ inst.accounts > 0 => inst.highest < header.keys

ValidateInstruction ==
    /\ phase = "validate"
    /\ \/ ~Valid /\ Bail
       \/ /\ Valid
          /\ phase' = "dispatch"
          /\ UNCHANGED <<size, position, left, header, signer, count, inst,
                         spans>>

(* The program's own parser reads the instruction's accounts and data, and *)
(* the loop goes on whatever it returns.                                   *)
DispatchInstruction ==
    /\ phase = "dispatch"
    /\ count' = count + 1
    /\ phase' = IF count' < header.instructions THEN "program"
                ELSE IF header.versioned THEN "tables" ELSE "end"
    /\ UNCHANGED <<size, position, left, header, signer, inst, spans>>

(* A versioned message has no address lookup tables.                       *)
ParseAccountTables(code) ==
    /\ phase = "tables"
    /\ \/ TooShort(Len(code))
       \/ LengthOf(code) > 0 /\ Bail
       \/ /\ LengthOf(code) = 0
          /\ Taken(Len(code))
          /\ phase' = "end"
          /\ UNCHANGED <<size, header, signer, count, inst>>

(* Mutant of EndOfMessage: what is behind the instructions is ignored.     *)
EndOfInstructions ==
    /\ phase = "end"
    /\ phase' = "parsed"
    /\ UNCHANGED <<size, position, left, header, signer, count, inst, spans>>

EndOfMessage ==
    /\ phase = "end"
    /\ \/ left > 0 /\ Bail
       \/ /\ left = 0
          /\ phase' = "parsed"
          /\ UNCHANGED <<size, position, left, header, signer, count, inst,
                         spans>>

-----------------------------------------------------------------------------
ParseHeader ==
    \/ \E byte \in Byte : ParseVersion(byte)
    \/ \E signatures \in Byte, code \in LengthCode :
           ParsePubkeysHeader(signatures, code)
    \/ ParsePubkeys
    \/ ParseBlockhash
    \/ \E code \in LengthCode : ParseInstructionsLength(code)
    \/ ScanHeaderForSigner

ParseBody ==
    \/ CheckInstructionsLength
    \/ \E program \in Byte : ParseProgram(program)
    \/ \E code \in LengthCode, highest \in Byte : ParseAccounts(code, highest)
    \/ \E code \in LengthCode : ParseData(code)
    \/ ValidateInstruction
    \/ DispatchInstruction
    \/ \E code \in LengthCode : ParseAccountTables(code)
    \/ EndOfMessage

MessageNext ==
    \/ \E n \in Sizes : Receive(n)
    \/ ParseHeader
    \/ ParseBody

MessageSpec == MessageInit /\ [][MessageNext]_message
=============================================================================
