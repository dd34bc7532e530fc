------------------------------ MODULE MCSummary ------------------------------
(***************************************************************************)
(* Instances of Summary: all instructions in messages of one and two, and  *)
(* some of them, the longest of each brief among them, in messages of up   *)
(* to four.                                                                *)
(***************************************************************************)
EXTENDS SummaryProps

MCLengths == 0..(MAX_INSTRUCTIONS + 1)

Of(kind, facts) == [kind |-> kind, facts |-> facts]

(* The parts of the briefs of three and four instructions, with the facts  *)
(* that print most, and what is skipped or ignored.                        *)
LongInfos ==
    {Of("SystemAdvanceNonceAccount", {}),
     Of("ChangeUnitLimit", {}),
     Of("ChangeUnitPrice", {}),
     Of("RequestHeapFrame", {}),
     Of("SplMemo", {}),
     Of("SystemCreateAccountWithSeed", {"OtherAuthority"}),
     Of("StakeInitialize", {"TwoAuthorities", "LockupTime", "LockupEpoch"}),
     Of("StakeDelegate", {"OtherAuthority"}),
     Of("SystemTransfer", {"OtherAuthority"}),
     Of("SystemAllocate", {}),
     Of("SystemAssign", {}),
     Of("SystemAllocateWithSeed", {}),
     Of("StakeSplit", {"OtherAuthority"})}

MCInfos == [n \in MCLengths |-> IF n <= 2 THEN InstructionInfo ELSE LongInfos]

(* The transaction with the most items, and a maximum fee.                 *)
SlotInfos ==
    {Of("ChangeUnitPrice", {}),
     Of("SystemCreateAccountWithSeed", {"OtherAuthority"}),
     Of("StakeInitialize", {"TwoAuthorities", "LockupTime", "LockupEpoch"}),
     Of("StakeDelegate", {"OtherAuthority"}),
     Of("SystemTransfer", {})}

SlotLengths == {MAX_INSTRUCTIONS}
MCSlotInfos == [n \in SlotLengths |-> SlotInfos]
=============================================================================
