SPECIFICATION Spec
CONSTANTS
    a = a
    b = b
    a1 = a1
    a2 = a2
    b1 = b1
    NoTable = NoTable
    Tables <- TwoTables
    Rows <- ThreeRows
    Home <- HomeOf
    Partial <- OnlyA1
    Unique <- TwoTables
    Selects <- PlainSelects
    CheckpointNames <- Nothing
    Ops = {"insert", "direct", "delete", "select", "checkpoint", "flushError", "torn", "crash"}
    MaxLog = 2
    MaxStops = 2
INVARIANTS
    AppliedOnce
    RemovedStaysRemoved
