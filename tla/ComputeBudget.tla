--------------------------- MODULE ComputeBudget ----------------------------
(***************************************************************************)
(* The maximum fee of src/libsol/compute_budget_instruction.c, with the    *)
(* widths of its C types: a product of 64 bits, results of 32.             *)
(*                                                                         *)
(* A limit or a price the message does not set is Unset, NULL in the code. *)
(***************************************************************************)
EXTENDS Integers

CONSTANTS
    Word32,    \* number of values of a uint32_t and of a size_t
    Word64,    \* number of values of a uint64_t
    FEE_LAMPORTS_PER_SIGNATURE,
    MAX_CU_PER_INSTRUCTION,
    MAX_CU_PER_TRANSACTION,
    MICRO_LAMPORT_MULTIPLIER

ASSUME ComputeBudgetAssumption ==
    /\ Word32 \in Nat \ {0}
    /\ Word64 = Word32 * Word32
    /\ FEE_LAMPORTS_PER_SIGNATURE \in Nat
    /\ MAX_CU_PER_INSTRUCTION \in Nat
    /\ MAX_CU_PER_TRANSACTION \in 0..(Word32 - 1)
    /\ MICRO_LAMPORT_MULTIPLIER \in Nat \ {0}

Unset == [set |-> FALSE, units |-> 0]
Units(n) == [set |-> TRUE, units |-> n]

(* ComputeBudgetFeeInfo.                                                   *)
FeeInfo ==
    [limit : {Unset} \cup {Units(n) : n \in 0..(Word32 - 1)},
     price : {Unset} \cup {Units(n) : n \in 0..(Word64 - 1)},
     instructions : Nat,
     signatures : Nat]

(* The units a transaction may use.                                        *)
MaxCompute(info) ==
    LET default == (info.instructions * MAX_CU_PER_INSTRUCTION) % Word32
    IN  IF info.limit.set THEN info.limit.units
        ELSE IF default < MAX_CU_PER_TRANSACTION THEN default
        ELSE MAX_CU_PER_TRANSACTION

(* The price of the units, an expression of 64 bits.                       *)
PriorityFee(info) ==
    IF info.price.set
    THEN ((info.price.units * MaxCompute(info)) % Word64)
            \div MICRO_LAMPORT_MULTIPLIER
    ELSE 0

BaseFee(info) == (FEE_LAMPORTS_PER_SIGNATURE * info.signatures) % Word32

(* Mutant of MaxFee: the price is per unit, not per million.               *)
MaxFeeOfUnits(info) ==
    (BaseFee(info) + PriorityFee(info) * MICRO_LAMPORT_MULTIPLIER) % Word32

(* What calculate_max_fee returns, and print_compute_budget shows.         *)
MaxFee(info) == (BaseFee(info) + PriorityFee(info)) % Word32

-----------------------------------------------------------------------------
(* The fee without widths.                                                 *)

DefaultUnits(info) ==
    LET all == info.instructions * MAX_CU_PER_INSTRUCTION
    IN  IF all < MAX_CU_PER_TRANSACTION THEN all ELSE MAX_CU_PER_TRANSACTION

ExactFee(info) ==
    FEE_LAMPORTS_PER_SIGNATURE * info.signatures
    + (IF info.price.set
       THEN (info.price.units * (IF info.limit.set THEN info.limit.units
                                 ELSE DefaultUnits(info)))
                \div MICRO_LAMPORT_MULTIPLIER
       ELSE 0)

(* The fee and all it is computed from fit their types.                    *)
FitsWidths(info) ==
    /\ info.instructions * MAX_CU_PER_INSTRUCTION < Word32
    /\ info.price.set => info.price.units * MaxCompute(info) < Word64
    /\ ExactFee(info) < Word32
=============================================================================
