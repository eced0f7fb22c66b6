CONSTANTS
    t = t
    i1 = i1
    i2 = i2
    c = c
    s = s
    s2 = s2
    m = m
    f = f
    u = u
    p = p
    g1 = g1
    g2 = g2
    Tables <- OneTable
    Indexes <- TwoIndexes
    Columns <- OneColumn
    On <- OnT
    Seqs <- TwoSeqs
    MatViews <- OneMatView
    Functions <- OneFunction
    Triggers <- OneTrigger
    Grants <- OnePrivilege
    Versions <- TwoVersions
    MigTable <- Migrations
    Start = 2
    SeqMax <- OneBounded
    Limit = 3
    Ops <- AllOps
    Scopes <- AllScopes
    MaxLog = 2
    MaxCrashes = 2
SPECIFICATION Spec
INVARIANT TypeOK
INVARIANT OnePrimary
 
INVARIANT StatementsAtomic
INVARIANT OpenFailsOnlyThen
INVARIANT MigrationsRecorded

SYMMETRY Symmetric
