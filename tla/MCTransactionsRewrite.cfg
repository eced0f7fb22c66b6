SPECIFICATION Spec
CONSTANTS
    a = a
    b = b
    r1 = r1
    r2 = r2
    r3 = r3
    f1 = f1
    f2 = f2
    f3 = f3
    f4 = f4
    Mentions <- NoMentions
    NoDir = NoDir
    Tables <- TwoTables
    Rows <- ThreeRows
    FileIds <- FourFiles
    SaveNames = {s}
    Cascade <- AtoB
    SetNull <- BtoA
    Restricted <- OnlyA
    Retention <- OnlyA
    CompactAt = 2
    Workloads <- Rewrites
    MaxSaves = 0
SYMMETRY RowsAndFiles
CHECK_DEADLOCK FALSE
INVARIANT
    RowsOnce
PROPERTY
    RollbackRestores
