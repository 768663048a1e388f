SPECIFICATION FairSpec
CONSTANTS
    Scripts <- PqPsiScripts
    U32 = 4
    SockBuf = 2
    WireCap = 2
INVARIANTS
    RecvQueueDriven
    RecvReturnsData
    RecvLength
PROPERTY
    BothClose
