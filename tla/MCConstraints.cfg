CONSTANTS
    i1 = i1
    i2 = i2
    k1 = k1
    k2 = k2
    Null = Null
    Ids <- TwoIds
    Keys <- TwoKeys
    Ops <- AllOps
SPECIFICATION Spec
SYMMETRY Symmetric
INVARIANT TypeOK
 
 
 
 
