\* Three threads sleeping until pseudo clock ticks wake them, without a message too few.
CONSTANTS
    NULL = NULL
    tcb_init = tcb_init
    tcb_SSI = tcb_SSI
    tcb_test = tcb_test
    tcb_lost = tcb_lost
    SSI_MAGIC = SSI_MAGIC
    a = a
    b = b
    Tcb <- MCTcb
    BootFree <- MCBootFree
    Calls <- Sleepers
    Word = 7
    MAXMESSAGES = 5
    MaxTicks = 2
SPECIFICATION FairSpec
INVARIANTS
    OnePlace
    RequestPending
PROPERTIES
    SoftBlockDrift
    TickWakes
    ServesInOrder
