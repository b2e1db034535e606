\* schedule() takes sleeping threads for a deadlock.
CONSTANTS
    NULL = NULL
    tcb_init = tcb_init
    tcb_SSI = tcb_SSI
    tcb_test = tcb_test
    tcb_lost = tcb_lost
    SSI_MAGIC = SSI_MAGIC
    a = a
    b = b
    Tcb <- MCTcb
    BootFree <- MCBootFree
    Calls <- Sleepers
    Word = 1048576
    MAXMESSAGES = 6
    MaxTicks = 3
SPECIFICATION Spec
INVARIANTS
    PanicIsDeadlock
