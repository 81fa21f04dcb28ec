\* A ring that wraps around after four items; two histograms.
SPECIFICATION MCSpec
CONSTANTS
    Capacity = 4
    Items = {a, b}
    Torn = Torn
    Histograms = {h1, h2}
    Latencies <- Boundaries
    Percentiles = {500, 990, 1000}
    MaxRecords = 3
    MaxSum = 2100000000
INVARIANTS InOrder SlotsExclusive PercentileAccurate SummaryConsistent
PROPERTIES ImplementsFifo PushReturns
