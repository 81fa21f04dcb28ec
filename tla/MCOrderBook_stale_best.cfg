SPECIFICATION Spec
CONSTANTS
    QMod = 8
    OrderIds = {1, 2}
    Prices = {1, 2}
    InvalidPrice = 3
    Amounts = {1, 2}
    OrderKinds <- JustLimits
    SelfTradePrevention = FALSE
    SelfTradeWindow = 100
    PostOnlyRejection = TRUE
    BatchCallbacks = TRUE
    TradeBatchSize = 2
    CallbackSets <- TradesOnly
    FreedMemoryIntact = FALSE
    UnguardedAmends = FALSE
    MaxNodes = 4
INVARIANTS CancelRefreshesBest
