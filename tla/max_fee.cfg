CONSTANTS
    HALF = 2
    PUBKEY_SIZE = 2
    HASH_SIZE = 1
    MAX_INSTRUCTIONS = 2
    SIZE_VALUES = 17
    Sizes = {}
    Values64 = 65536
    AMOUNT_BYTES = 2
    BASE58_PUBKEY_LENGTH = 45
    BASE58_PUBKEY_SHORT = 17
    SUMMARY_LENGTH = 7
    MAX_SYMBOL_LENGTH = 8
    MAX_PRINTABLE_AMOUNT_SIZE = 50
    Keys <- MCPathKeys
    Word32 = 16
    Word64 = 256
    FEE_LAMPORTS_PER_SIGNATURE = 3
    MAX_CU_PER_INSTRUCTION = 2
    MAX_CU_PER_TRANSACTION = 5
    MICRO_LAMPORT_MULTIPLIER = 10
    Domain <- MCDomain
    OFFCHAIN_MESSAGE_HEADER_LENGTH = 5
    MAX_OFFCHAIN_MESSAGE_LENGTH = 6
    DisplayCalls = {}
    AmountCalls = {}
    NumberCalls = {}
    StringCalls = {}
    LengthCalls = {}
    FeeCalls <- MCFees
    DateCalls = {}
    TextCalls = {}
    AddressCalls = {}
    PrintableCalls = {}
    PaymentCalls = {}
    PaidItems = {}
    InstructionCalls = {}
SPECIFICATION Spec
INVARIANT MaxFeeIsExact
