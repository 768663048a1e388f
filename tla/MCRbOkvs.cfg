SPECIFICATION Spec
CONSTANTS
    Keys = 3
    Columns = 5
    BandWidth = 3
INVARIANTS
    DecodeReturns
    PivotsCleared
    RbInv
PROPERTY
    ImplementsOkvs
