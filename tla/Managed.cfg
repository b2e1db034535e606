\* Traps passed up to managers, and their verdicts, with a pool of two messages.
CONSTANTS
    NULL = NULL
    tcb_init = tcb_init
    tcb_SSI = tcb_SSI
    tcb_test = tcb_test
    tcb_lost = tcb_lost
    SSI_MAGIC = SSI_MAGIC
    a = a
    b = b
    Tcb <- SmallTcb
    BootFree <- SmallBootFree
    Calls <- Managed
    Word = 8
    MAXMESSAGES = 2
    MaxTicks = 0
SPECIFICATION Spec
INVARIANTS
    OnePlace
    NoLostWakeup
    PoolBound
PROPERTIES
    MessagesKept
    TrappedStays
