SPECIFICATION EngineSpec
CONSTANTS
    None = None
    MonthDays = 2
    Ledgers <- MCLedgers
    ChunkSize = 3
    LastDay = 1
INVARIANTS
    NothingIsOrphaned
    LastCopySurvives
    SweepMissesOnlyAcrossChunks
