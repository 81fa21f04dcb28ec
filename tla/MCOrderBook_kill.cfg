SPECIFICATION Spec
CONSTANTS
    QMod = 8
    OrderIds = {1, 2, 200}
    Prices = {1, 2}
    InvalidPrice = 3
    Amounts = {1, 2}
    OrderKinds <- KilledKinds
    SelfTradePrevention = TRUE
    SelfTradeWindow = 100
    PostOnlyRejection = TRUE
    BatchCallbacks = TRUE
    TradeBatchSize = 2
    CallbackSets <- TradesOnly
    FreedMemoryIntact = TRUE
    UnguardedAmends = FALSE
    MaxNodes = 4
INVARIANTS KilledOrdersDoNotTrade
