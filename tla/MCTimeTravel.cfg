CONSTANTS
    Changes = 3
    Clock = 2
    Captures = 4
    Retention = 1
    Capacity = 2
    None = None
SPECIFICATION Spec
INVARIANT TypeOK
INVARIANT AsOfTruth
INVARIANT CdcTail
