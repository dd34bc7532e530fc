CONSTANTS
    Lengths <- MCLengths
    Infos <- MCInfos
SPECIFICATION Spec
INVARIANTS
    TypeOK
    SlotsSuffice
    BlindSlotsFree
    OthersAreShown
    ExpertSeesMore
    BudgetIsWhole
    NonceComesFirst
