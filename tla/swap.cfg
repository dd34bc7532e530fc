CONSTANTS
    p1 = p1
    p2 = p2
    one = one
    cut = cut
    len = len
    w1 = w1
    w2 = w2
    w3 = w3
    NoPath = NoPath
    OtherKey = OtherKey
    NoSwap = NoSwap
    OnePath = one
    TruncatedPath = cut
    DataLength = len
    Path <- MCPath
    Word <- MCWord
    Item <- MCItem
    Tx <- MCTx
    Text <- MCText
    HostApdus <- HandlerApdus
    SwapParams <- MCSwapParams
    MAX_MESSAGE_LENGTH = 2
    HaveNbgl = FALSE
    TEXT_BUFFER_LENGTH = 3
    TargetNanos = TRUE
    Derivable = {p1}
    BadItems = {"Amount"}
    UserSettings = {"allow_blind_sign", "display_mode"}
    CxFaults = {FALSE}
SPECIFICATION Spec
INVARIANTS
    SwapResultTruthful
    SwapQuitsAfterTransaction
PROPERTIES
    SignsUnreviewedOnlyInSwap
