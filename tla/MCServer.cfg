CONSTANTS
    p1 = p1
    p2 = p2
    h1 = h1
    h2 = h2
    g = g
    t = t
    r = r
    Tables <- OneTable
    Rows <- OneRow
    Absent = Absent
    PgClients <- TwoPg
    HttpClients <- TwoHttp
    HttpReaders <- OneReader
    Vacuum = Vacuum
    Permits = 1
    Requests <- All
SPECIFICATION FairSpec
INVARIANT TypeOK
INVARIANT Exclusive
INVARIANT PermitsExact
PROPERTY Linearizable
PROPERTY Answered
