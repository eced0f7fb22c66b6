SPECIFICATION Spec
CONSTANTS
    a = a
    b = b
    r1 = r1
    r2 = r2
    r3 = r3
    f1 = f1
    f2 = f2
    f3 = f3
    f4 = f4
    Mentions <- NoMentions
    NoDir = NoDir
    Tables <- TwoTables
    Rows <- TwoRows
    FileIds <- ThreeFiles
    SaveNames = {s}
    Cascade <- NoPairs
    SetNull <- NoPairs
    Restricted <- Nothing
    Retention <- Nothing
    CompactAt = 0
    Workloads <- InsertDelete
    MaxSaves = 0
SYMMETRY RowsAndFiles
CHECK_DEADLOCK FALSE
PROPERTY
    RollbackDiscardsAll
