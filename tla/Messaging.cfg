\* Messages between three threads, with a pool of three messages: blocking, waking, and the pool.
CONSTANTS
    NULL = NULL
    tcb_init = tcb_init
    tcb_SSI = tcb_SSI
    tcb_test = tcb_test
    tcb_lost = tcb_lost
    SSI_MAGIC = SSI_MAGIC
    a = a
    b = b
    Tcb <- MCTcb
    BootFree <- MCBootFree
    Calls <- Messaging
    Word = 8
    MAXMESSAGES = 3
    MaxTicks = 0
SPECIFICATION Spec
INVARIANTS
    NoLostWakeup
    SoftBlockExact
    MessagesConserved
