---------------------------- MODULE MessageProps ----------------------------
(***************************************************************************)
(* What the parser owes its callers.                                       *)
(***************************************************************************)
EXTENDS Message

Phases ==
    HeaderPhases \cup
    {"idle", "body", "program", "accounts", "data", "validate", "dispatch",
     "tables", "end", "parsed", "refused", "unrecognized"}

MessageTypeOK ==
    /\ phase \in Phases
    /\ size \in Nat
    /\ position \in Nat
    /\ left \in Nat
    /\ header \in [versioned : BOOLEAN, signatures : Byte, keys : Lengths,
                   instructions : Lengths]
    /\ signer \in Byte
    /\ count \in Nat
    /\ inst \in [program : Byte, accounts : Lengths, highest : Byte]
    /\ spans \in Seq(Nat \X Nat)

-----------------------------------------------------------------------------
(* What was given out covers the message up to the parser's position, each *)
(* byte once, and the parser's length ends where the message ends.         *)
SpansTile ==
    /\ position + left = size
    /\ \A i \in 1..Len(spans) :
           /\ spans[i][1] = IF i = 1 THEN 0 ELSE spans[i - 1][2]
           /\ spans[i][1] <= spans[i][2]
    /\ position = IF spans = <<>> THEN 0 ELSE spans[Len(spans)][2]

(* A message that was recognized has been read to its last byte and every  *)
(* byte of it belongs to exactly one field: nothing of what is signed was  *)
(* passed over, or read twice (parser.c, message.c:117).                   *)
WholeMessageParsed ==
    /\ SpansTile
    /\ phase = "parsed" => position = size

(* header->pubkeys.                                                        *)
KeysSpan == spans[IF header.versioned THEN 3 ELSE 2]

KeyInside(i) == KeysSpan[1] + (i + 1) * PUBKEY_SIZE <= KeysSpan[2]

(* The keys an instruction's parser looks at through the accounts, its     *)
(* program's key, and the fee payer of a recognized message lie inside the *)
(* keys of the message, also where the size of the keys is computed with   *)
(* the width of a size_t (parser.c:109, instruction.c:34).  The signer is  *)
(* found among the required signatures, and its key lies inside the keys   *)
(* unless the header announces fewer keys than signatures and the scan     *)
(* went past them, which nothing keeps it from (handle_sign_message.c:20). *)
KeysAreInside ==
    /\ phase = "dispatch" =>
           /\ KeyInside(inst.program)
           /\ inst.accounts > 0 => KeyInside(inst.highest)
    /\ phase = "parsed" =>
           /\ KeyInside(0)
           /\ signer < header.signatures
           /\ signer < header.keys => KeyInside(signer)
=============================================================================
