SPECIFICATION Spec
CONSTANTS
    HeaderCells = 2
    PayloadCells <- PayloadSizes
    MaxRecords = 3
    MaxLives = 2
    Targets = {1, 2}
    StrayHeaders <- StrayReadings
INVARIANT ReplayFaithful
PROPERTIES FlushedReplayed SeekFinds VerifyExact
