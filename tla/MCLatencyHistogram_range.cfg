SPECIFICATION HSpec
CONSTANTS
    Histograms = {h1, h2}
    Latencies <- Boundaries
    Percentiles = {500, 990, 1000}
    MaxRecords = 3
    MaxSum = 2100000000
INVARIANT TracksToMaxValue
