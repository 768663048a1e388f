SPECIFICATION FairSpec
CONSTANTS
    Counts = {1, 4, 5}
    Limits = {1, 2, 3, 4}
    MinWork = 1
    MaxTries = 2
    SmallCount = 2
INVARIANTS
    RowsPrivate
    RowsComplete
    FailureReported
    CountExact
    WorkersInv
PROPERTY
    CallEnds
