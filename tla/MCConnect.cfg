SPECIFICATION FairSpec
CONSTANTS
    NumCh = 3
    MaxTries = 2
INVARIANTS
    TypeOK
    StoppedOnce
    AcceptorFreeSafe
    HandoverKept
PROPERTY
    PartiesConnect
CHECK_DEADLOCK FALSE
