CONSTANTS
    p1 = p1
    p2 = p2
    one = one
    cut = cut
    len = len
    w1 = w1
    w2 = w2
    w3 = w3
    NoPath = NoPath
    OtherKey = OtherKey
    NoSwap = NoSwap
    OnePath = one
    TruncatedPath = cut
    DataLength = len
    Path <- MCPath
    Word <- MCWord
    Item <- MCItem
    Tx <- NoTx
    Text <- NoText
    HostApdus <- ReceiverApdus
    SwapParams = {}
    MAX_MESSAGE_LENGTH = 4
    HaveNbgl = FALSE
    TEXT_BUFFER_LENGTH = 3
    TargetNanos = TRUE
    Derivable = {}
    BadItems = {"Amount"}
    UserSettings = {}
    CxFaults = {}
SPECIFICATION Spec
INVARIANTS
    UploadIntact
