SPECIFICATION Spec
CONSTANTS
    Scripts <- AnyScripts
    U32 = 4
    SockBuf = 2
    WireCap = 2
INVARIANTS
    TypeOK
    FifoDelivery
    SocketQuiet
    CloseFlushes
    SendQueueDriven
    ChannelInv
PROPERTY
    ImplementsPipe
CHECK_DEADLOCK FALSE
