SPECIFICATION Spec
CONSTANTS
    Limbs = 3
    LimbBits = 3
    Widths = {5, 6, 8}
INVARIANTS
    Trimmed
    LeadIsLowest
PROPERTY
    ShiftIsExact
CHECK_DEADLOCK FALSE
