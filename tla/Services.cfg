\* Every request is answered and every ready thread runs, with services that do not sleep.
CONSTANTS
    NULL = NULL
    tcb_init = tcb_init
    tcb_SSI = tcb_SSI
    tcb_test = tcb_test
    tcb_lost = tcb_lost
    SSI_MAGIC = SSI_MAGIC
    a = a
    b = b
    Tcb <- MCTcb
    BootFree <- MCBootFree
    Calls <- Requests
    Word = 7
    MAXMESSAGES = 3
    MaxTicks = 0
SPECIFICATION FairSpec
PROPERTIES
    ImplementsRpc
    ReadyRuns
