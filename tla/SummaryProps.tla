---------------------------- MODULE SummaryProps ----------------------------
(***************************************************************************)
(* The properties of Summary.                                              *)
(***************************************************************************)
EXTENDS Summary

Titles(s) == {s[n] : n \in DOMAIN s}
Positions(s, kind) == {n \in DOMAIN s : s[n].kind = kind}

Phases == {"idle", "instructions", "nonce", "budget", "print", "handler",
           "feePayer", "finalize", "fault"}

(* Every variable has a value of its type; no more slots of the summary    *)
(* are used than there are, and the list the printers work on is the end   *)
(* of the list of the message.                                             *)
TypeOK ==
    /\ pc \in Phases
    /\ expert \in BOOLEAN
    /\ length \in Lengths \cup {0}
    /\ count \in 0..MAX_INSTRUCTIONS
    /\ infos \in Seq(InstructionInfo) /\ Len(infos) <= count
    /\ Len(list) <= Len(infos)
    /\ list = SubSeq(infos, Len(infos) - Len(list) + 1, Len(infos))
    /\ fee.limit \in 0..Len(infos) /\ fee.price \in 0..Len(infos)
    /\ result \in {0, 1}
    /\ Len(summary.general) <= NUM_GENERAL_ITEMS
    /\ Len(summary.nonce) <= 2
    /\ Len(summary.feePayer) <= 1
    /\ Len(items) <= NUM_GENERAL_ITEMS + 4

-----------------------------------------------------------------------------
(* Slots.                                                                  *)

(* No printer tests whether transaction_summary_general_item returned      *)
(* NULL.  In the normal mode it never does, and in the expert mode only    *)
(* when the maximum fee has a slot, too: every list of instructions the    *)
(* application knows fits into the general slots by itself.                *)
SlotsSuffice ==
    pc = "fault" =>
        expert /\ result = 0 /\ "Max fees" \in Titles(summary.general)

(* The header declares the items of a summary as slots that, "if set       *)
(* previously", are displayed in order: whatever a printer sets has one.   *)
EveryItemHasASlot == pc # "fault"

(* handle_sign_message_parse_message writes through the primary item and a *)
(* general item when process_message_body failed: whatever was printed     *)
(* before it failed, and whatever the messages before this one left in the *)
(* summary, both are there.  If it succeeded there is a primary item, so   *)
(* that finalization succeeds.  (LedgerApp assumes this: PrimaryAssumption.)*)
BlindSlotsFree ==
    pc = "handler" =>
        IF result = 0 THEN summary.primary # "Unset"
        ELSE /\ summary.primary = "Unset"
             /\ Titles(summary.general) \subseteq {"Max fees"}

-----------------------------------------------------------------------------
(* What the user is shown.                                                 *)

AuthorityTitles(i) ==
    CASE i.kind = "SystemTransfer" -> {"Sender"}
      [] i.kind \in CreateKinds -> {"From", "Funded by"}
      [] i.kind \in SplTokenKinds -> {"Owner"}
      [] OTHER -> {"Authorized by"}

(* Printed instructions whose signer the printers leave out: those that    *)
(* make the account of a stake split, and the first of two authorizations. *)
PartHidden(n) ==
    \/ n < Len(list) /\ list[Len(list)].kind = "StakeSplit"
    \/ /\ n = 1 /\ Len(list) = 2
       /\ list[1].kind = list[2].kind
       /\ list[1].kind \in StakeAuthorizeKinds \cup VoteAuthorizeKinds

(* The instructions in front of the printed ones.                          *)
Front == Len(infos) - Len(list)

(* Instructions of the transaction whose signer is left out: of those that *)
(* are printed, the above; of those in front, the advance of the durable   *)
(* nonce in the user mode, whose authority only experts are shown.         *)
AuthorityHidden(n) ==
    \/ n = 1 /\ IsNonced /\ ~expert
    \/ n > Front /\ PartHidden(n - Front)

(* The items that name the signer of an instruction of the transaction.    *)
AuthorityItems(n) ==
    IF n = 1 /\ IsNonced
    THEN {"Nonce authority"} \cap Titles(summary.nonce)
    ELSE AuthorityTitles(infos[n]) \cap Titles(summary.general)

(* A recognized transaction with an instruction whose authority (what      *)
(* print_config_show_authority is asked about) is another key than the one *)
(* the user signs with says so, be the instruction printed alone, as a     *)
(* part of two to four, or skipped in front of them.  Three authorities    *)
(* are left out, which AuthorityHidden names: that of a durable nonce in   *)
(* the user mode, those of the parts that make the account of a stake      *)
(* split, the first of two authorizations.                                 *)
OthersAreShown ==
    pc = "handler" /\ result = 0 =>
        \A n \in DOMAIN infos :
            "OtherAuthority" \in infos[n].facts /\ ~AuthorityHidden(n) =>
                AuthorityItems(n) # {}

(* The expert mode adds items to the summary and takes none away, and the  *)
(* same transactions are recognized in both modes.                         *)
ExpertSeesMore ==
    pc = "print" =>
        LET user == PrintInstructions(list, FALSE)
            experts == PrintInstructions(list, TRUE)
        IN  /\ user.printed = experts.printed
            /\ user.primary = experts.primary
            /\ Titles(user.general) \subseteq Titles(experts.general)

-----------------------------------------------------------------------------
(* What is skipped.                                                        *)

LastOf(kind) ==
    LET found == Positions(infos, kind)
    IN  IF found = {} THEN 0 ELSE CHOOSE n \in found : \A m \in found : m <= n

(* The loop over the compute budget instructions looks at the head of a    *)
(* shrinking list.  A transaction that is recognized has no compute budget *)
(* instruction the loop missed: the maximum fee is computed from the last  *)
(* limit and the last price of the whole transaction, and shown once if    *)
(* there is one of them.                                                   *)
BudgetIsWhole ==
    pc = "handler" /\ result = 0 =>
        /\ fee = [limit |-> LastOf("ChangeUnitLimit"),
                  price |-> LastOf("ChangeUnitPrice")]
        /\ LET shown == {n \in DOMAIN summary.general :
                            summary.general[n] = "Max fees"}
           IN  shown = IF fee = NoFee THEN {} ELSE {1}
        /\ \A n \in DOMAIN list : list[n].kind \notin ComputeBudgetKinds

(* A transaction that is recognized uses a nonce only in front of all      *)
(* other instructions; an advance anywhere else is the whole rest of the   *)
(* transaction, and its primary item.  In expert mode the summary names    *)
(* the nonce account exactly if the transaction uses one.                  *)
NonceComesFirst ==
    pc = "handler" /\ result = 0 =>
        /\ \A n \in Positions(infos, "SystemAdvanceNonceAccount") \ {1} :
                /\ n = Len(infos)
                /\ summary.primary = "SystemAdvanceNonceAccount"
        /\ (summary.nonce # <<>>) <=>
              (/\ expert /\ Len(infos) > 1
               /\ infos[1].kind = "SystemAdvanceNonceAccount")
=============================================================================
