CONSTANTS
    Changes = 3
    None = None
SPECIFICATION Spec
INVARIANT TypeOK
INVARIANT SelectsFresh
