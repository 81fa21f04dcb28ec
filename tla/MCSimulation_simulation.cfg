SPECIFICATION Spec
CONSTANTS
    Rosters <- SmallRosters
    Drivers = {{}, {"fills"}, {"fills", "bbo"}}
    Ticks = 4
    DefaultPrice = 5
    HalfSpread = 1
    SkewPerUnit = 1
    BaseSize = 1
    MaxPosition = 1
    Lookback = 2
    OrderSize = 1
    NoiseSizes = {2}
    MaxDeviation = 3
    Deviations <- Extremes
    TopPrice = 17
    Wrapped <- FarBelow
    QMod = 100
CHECK_DEADLOCK FALSE
INVARIANTS QuotesRemembered PositionLimited TalliesAgree
PROPERTIES NoWashTrades SimulationEnds
