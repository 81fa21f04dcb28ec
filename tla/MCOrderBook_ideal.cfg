SPECIFICATION Spec
CONSTANTS
    QMod = 8
    OrderIds = {1, 2, 200}
    Prices = {1, 2}
    InvalidPrice = 3
    Amounts = {1, 2}
    OrderKinds <- TakingKinds
    SelfTradePrevention = TRUE
    SelfTradeWindow = 100
    PostOnlyRejection = TRUE
    BatchCallbacks = TRUE
    TradeBatchSize = 2
    CallbackSets <- WithReports
    FreedMemoryIntact = TRUE
    UnguardedAmends = FALSE
    MaxNodes = 4
INVARIANTS BestExact RecordsAgree FillOrKillAtomic RefusedOnlyIfShort
INVARIANTS BatchFlushed FillsWithinOrder NoTradeLost
PROPERTIES RefinesIdealBook OnlyFillsAndCancelsRemove KeepsContract
