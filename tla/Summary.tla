------------------------------ MODULE Summary -------------------------------
(***************************************************************************)
(* How the summary of a transaction is made: process_message_body          *)
(* (src/libsol/message.c), print_transaction (transaction_printers.c), the *)
(* slots of transaction_summary.c and the rest of                          *)
(* handle_sign_message_parse_message (src/src/handle_sign_message.c), one  *)
(* step per phase.  Messages follow each other, the summary is a global    *)
(* that outlives them.                                                     *)
(*                                                                         *)
(* A printer that asks for an item gets NULL when no slot is left, and     *)
(* writes through it: what the device does then is not defined by the      *)
(* code.  The model stops there ("fault"), until the application is        *)
(* started again.                                                          *)
(***************************************************************************)
EXTENDS Instructions

CONSTANTS
    Lengths, \* numbers of instructions a message header may announce
    Infos    \* for each of them, the instructions such a message may hold

MAX_INSTRUCTIONS == 4

(* Mutant of NUM_GENERAL_ITEMS: one slot less.                             *)
FewerGeneralItems == 10

NUM_GENERAL_ITEMS == 11

ASSUME SummaryAssumption ==
    /\ Lengths \subseteq Nat
    /\ Infos \in [Lengths -> SUBSET InstructionInfo]

VARIABLES
    pc,       \* the phase that comes next
    expert,   \* print_config->expert_mode
    length,   \* header->instructions_length
    count,    \* instruction_count: instructions parsed so far
    infos,    \* display_instruction_info: those that are not ignored
    list,     \* infos and infos_length as the printers move them
    fee,      \* compute_budget_fee_info: positions in infos, 0 is NULL
    result,   \* what process_message_body returns
    summary,  \* G_transaction_summary
    items     \* what transaction_summary_finalize returned

vars == <<pc, expert, length, count, infos, list, fee, result, summary, items>>
message == <<expert, length, count, infos>>

-----------------------------------------------------------------------------
(* The slots.                                                              *)

EmptySummary ==
    [primary |-> "Unset", general |-> <<>>, nonce |-> <<>>, feePayer |-> <<>>]

NoFee == [limit |-> 0, price |-> 0]

(* Mutant of WithGeneral: the slots are not counted.                       *)
WithAllGeneral(s, new) == [s EXCEPT !.general = @ \o new]

(* transaction_summary_general_item for each of these items.               *)
WithGeneral(s, new) ==
    LET all == s.general \o new
        used == IF Len(all) > NUM_GENERAL_ITEMS THEN NUM_GENERAL_ITEMS
                ELSE Len(all)
    IN  [s EXCEPT !.general = SubSeq(all, 1, used)]

HasRoom(s, new) == Len(s.general \o new) <= NUM_GENERAL_ITEMS

(* A primary item that was set already is not available either.            *)
Writable(s, p) ==
    /\ p.primary = "Unset" \/ s.primary = "Unset"
    /\ HasRoom(s, p.general)

Write(s, p) ==
    WithGeneral([s EXCEPT !.primary = IF @ = "Unset" THEN p.primary ELSE @],
                p.general)

-----------------------------------------------------------------------------
(* process_message_body: the instructions are parsed.                      *)

Init ==
    /\ pc = "idle"
    /\ expert = FALSE
    /\ length = 0
    /\ count = 0
    /\ infos = <<>>
    /\ list = <<>>
    /\ fee = NoFee
    /\ result = 0
    /\ summary = EmptySummary
    /\ items = <<>>

Fail ==
    /\ pc' = "handler"
    /\ result' = 1
    /\ UNCHANGED <<list, fee, summary, items>>

(* Mutant of ResetSummary: the summary of the last message is kept.        *)
KeptSummary == summary

(* transaction_summary_reset.                                              *)
ResetSummary == EmptySummary

(* A message whose header is accepted.                                     *)
Begin(n, x) ==
    /\ pc \in {"idle", "fault"}
    /\ summary' = ResetSummary
    /\ expert' = x
    /\ length' = n
    /\ count' = 0
    /\ infos' = <<>>
    /\ list' = <<>>
    /\ fee' = NoFee
    /\ items' = <<>>
    /\ \/ /\ n \in 1..MAX_INSTRUCTIONS
          /\ pc' = "instructions"
          /\ result' = 0
       \/ /\ n \notin 1..MAX_INSTRUCTIONS
          /\ pc' = "handler"
          /\ result' = 1

(* parse_instruction or instruction_validate fails.                        *)
MalformedInstruction ==
    /\ pc = "instructions"
    /\ count < length
    /\ Fail
    /\ UNCHANGED message

ParseInstruction ==
    /\ pc = "instructions"
    /\ count < length
    /\ count' = count + 1
    /\ \E i \in Infos[length] :
            infos' = IF i.kind \in IgnoredKinds THEN infos ELSE Append(infos, i)
    /\ UNCHANGED <<pc, expert, length, list, fee, result, summary, items>>

Understood == \A n \in DOMAIN infos : infos[n].kind # "Unknown"

(* After the last instruction: no account tables, no bytes left and every  *)
(* instruction understood - or the message is not processed.               *)
EndOfBody(wellFormed) ==
    /\ pc = "instructions"
    /\ count = length
    /\ IF wellFormed /\ Understood
       THEN /\ pc' = "nonce"
            /\ list' = infos
            /\ UNCHANGED <<fee, result, summary, items>>
       ELSE Fail
    /\ UNCHANGED message

-----------------------------------------------------------------------------
(* print_transaction.                                                      *)

(* Mutant of IsNonced: the last instruction is looked at.                  *)
IsNoncedAtEnd ==
    Len(infos) > 1 /\ infos[Len(infos)].kind = "SystemAdvanceNonceAccount"

IsNonced == Len(infos) > 1 /\ infos[1].kind = "SystemAdvanceNonceAccount"

(* print_system_nonced_transaction_sentinel, in expert mode only.          *)
PrintNonce ==
    /\ pc = "nonce"
    /\ pc' = "budget"
    /\ list' = IF IsNonced THEN Tail(infos) ELSE infos
    /\ summary' = IF IsNonced /\ expert
                  THEN [summary EXCEPT
                            !.nonce = <<"Nonce account", "Nonce authority">>]
                  ELSE summary
    /\ UNCHANGED <<message, fee, result, items>>

(* The compute budget instructions the loop meets: it looks at the head of *)
(* the list in every turn and moves on only past one of them.              *)
BudgetLength ==
    IF Len(list) <= 1 THEN 0
    ELSE CHOOSE k \in 0..Len(list) :
            /\ \A n \in 1..k : list[n].kind \in ComputeBudgetKinds
            /\ k = Len(list) \/ list[k + 1].kind \notin ComputeBudgetKinds

(* Mutant of LastBudget: the pointers are set anew in every turn.          *)
LastTurnBudget(kind) ==
    LET k == BudgetLength
    IN  IF k > 0 /\ list[k].kind = kind THEN k + Len(infos) - Len(list) ELSE 0

(* The last of them of this kind.                                          *)
LastBudget(kind) ==
    LET found == {n \in 1..BudgetLength : list[n].kind = kind}
        last == CHOOSE n \in found : \A m \in found : m <= n
    IN  IF found = {} THEN 0 ELSE last + Len(infos) - Len(list)

(* preprocess_compute_budget_instructions: the maximum fee is an item if   *)
(* there is a limit or a price.                                            *)
PrintComputeBudget ==
    /\ pc = "budget"
    /\ pc' = "print"
    /\ list' = SubSeq(list, BudgetLength + 1, Len(list))
    /\ fee' = [limit |-> LastBudget("ChangeUnitLimit"),
               price |-> LastBudget("ChangeUnitPrice")]
    /\ summary' = IF fee' # NoFee THEN WithGeneral(summary, <<"Max fees">>)
                  ELSE summary
    /\ UNCHANGED <<message, result, items>>

PrintTransaction ==
    LET p == PrintInstructions(list, expert)
    IN  /\ pc = "print"
        /\ pc' = IF Writable(summary, p) THEN "handler" ELSE "fault"
        /\ result' = IF p.printed THEN 0 ELSE 1
        /\ summary' = Write(summary, p)
        /\ UNCHANGED <<message, list, fee, items>>

-----------------------------------------------------------------------------
(* handle_sign_message_parse_message, and finalization.                    *)

BlindItems == Printed("Unrecognized", <<"Message Hash">>)

(* A message that was not processed: its hash is reviewed if the settings  *)
(* allow blind signing.                                                    *)
BlindSign ==
    /\ pc = "handler"
    /\ result = 1
    /\ pc' = IF Writable(summary, BlindItems) THEN "feePayer" ELSE "fault"
    /\ summary' = Write(summary, BlindItems)
    /\ UNCHANGED <<message, list, fee, result, items>>

RefuseBlindSign ==
    /\ pc = "handler"
    /\ result = 1
    /\ pc' = "idle"
    /\ UNCHANGED <<message, list, fee, result, summary, items>>

Processed ==
    /\ pc = "handler"
    /\ result = 0
    /\ pc' = "feePayer"
    /\ UNCHANGED <<message, list, fee, result, summary, items>>

(* print_config_show_authority of the first account of the message.        *)
SetFeePayer(other) ==
    /\ pc = "feePayer"
    /\ pc' = "finalize"
    /\ summary' = [summary EXCEPT
                        !.feePayer = Opt(expert \/ other, "Fee payer")]
    /\ UNCHANGED <<message, list, fee, result, items>>

(* transaction_summary_finalize: fails without a primary item.             *)
Finalize ==
    /\ pc = "finalize"
    /\ pc' = "idle"
    /\ items' = IF summary.primary = "Unset" THEN <<>>
                ELSE <<summary.primary>> \o summary.general \o summary.nonce
                     \o summary.feePayer
    /\ UNCHANGED <<message, list, fee, result, summary>>

Next ==
    \/ \E n \in Lengths, x \in BOOLEAN : Begin(n, x)
    \/ MalformedInstruction
    \/ ParseInstruction
    \/ \E wellFormed \in BOOLEAN : EndOfBody(wellFormed)
    \/ PrintNonce
    \/ PrintComputeBudget
    \/ PrintTransaction
    \/ BlindSign
    \/ RefuseBlindSign
    \/ Processed
    \/ \E other \in BOOLEAN : SetFeePayer(other)
    \/ Finalize

Spec == Init /\ [][Next]_vars
=============================================================================
