SPECIFICATION FairSpec
CONSTANTS
    Item = {a, b, c}
    N = 2
    NumCh = 3
    NumBlock = 4
    MinSplit = 2
INVARIANTS
    TypeOK
    HitsExact
    NoFalseHit
    WholeTable
PROPERTY
    Answer
