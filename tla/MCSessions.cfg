CONSTANTS
    p1 = p1
    p2 = p2
    t = t
    r = r
    Tables <- OneTable
    Rows <- OneRow
    Absent = Absent
    PgClients <- TwoPg
    HttpClients <- None
    HttpReaders <- None
    Vacuum = Vacuum
    Permits = 2
    Requests <- All
SPECIFICATION SessionSpec
INVARIANT AutoCommits
