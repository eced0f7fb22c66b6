SPECIFICATION Spec
CONSTANTS
    a = a
    b = b
    r1 = r1
    r2 = r2
    r3 = r3
    f1 = f1
    f2 = f2
    f3 = f3
    f4 = f4
    Mentions <- NoMentions
    NoDir = NoDir
    Tables <- TwoTables
    Rows <- TwoRows
    FileIds <- ThreeFiles
    SaveNames = {s, t}
    Cascade <- NoPairs
    SetNull <- NoPairs
    Restricted <- Nothing
    Retention <- Nothing
    CompactAt = 0
    Workloads <- Savepoints
    MaxSaves = 2
SYMMETRY RowsAndFiles
CHECK_DEADLOCK FALSE
INVARIANTS
    TypeOK
    DiskCatalog
PROPERTIES
    RollbackRestores
    RollbackToRestores
    CommitKeeps
