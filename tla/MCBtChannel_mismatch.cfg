SPECIFICATION Spec
CONSTANTS
    Scripts <- MismatchScripts
    U32 = 4
    SockBuf = 2
    WireCap = 2
INVARIANT
    RecvReturnsData
CHECK_DEADLOCK FALSE
