CONSTANTS
    Lengths <- SlotLengths
    Infos <- MCSlotInfos
SPECIFICATION Spec
INVARIANT
    EveryItemHasASlot
