SPECIFICATION Spec
CONSTANTS
    QMod = 4
    OrderIds = {1, 2}
    Prices = {1, 2}
    InvalidPrice = 3
    Amounts = {0, 1, 2}
    OrderKinds <- HostileKinds
    SelfTradePrevention = FALSE
    SelfTradeWindow = 100
    PostOnlyRejection = TRUE
    BatchCallbacks = FALSE
    TradeBatchSize = 2
    CallbackSets <- OnOff
    FreedMemoryIntact = FALSE
    UnguardedAmends = TRUE
    MaxNodes = 2
INVARIANTS TypeOK BestNeverBehind NeverCrossed PostOnlyNeverTakes 
PROPERTIES CallsReturn
