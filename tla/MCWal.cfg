SPECIFICATION Spec
CONSTANTS
    MaxLog = 3
    MaxEpoch = 2
    MaxTxn = 2
    MaxCommits = 2
    CheckpointEvery = 2
    ThresholdEntries = 3
    IntervalOn = TRUE
INVARIANTS
    TypeOK
    MarkersDurable
    ReplayExact
PROPERTY
    ActiveEntriesKept
