SPECIFICATION Spec
CONSTANTS
    NumCh = 2
    MaxTries = 1
INVARIANT
    ErrorEndsHandshake
CHECK_DEADLOCK FALSE
