SPECIFICATION Spec
CONSTANTS
    Scripts <- HugeScripts
    U32 = 4
    SockBuf = 2
    WireCap = 2
INVARIANT
    RecvLength
CHECK_DEADLOCK FALSE
