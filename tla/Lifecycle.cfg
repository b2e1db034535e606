\* Threads created and killed in every order, with services that end in the death of the sender.
CONSTANTS
    NULL = NULL
    tcb_init = tcb_init
    tcb_SSI = tcb_SSI
    tcb_test = tcb_test
    tcb_lost = tcb_lost
    SSI_MAGIC = SSI_MAGIC
    a = a
    b = b
    Tcb <- MCTcb
    BootFree <- MCBootFree
    Calls <- Lifecycle
    Word = 8
    MAXMESSAGES = 3
    MaxTicks = 0
SPECIFICATION Spec
INVARIANTS
    TypeOK
    OnePlace
    ThreadCountExact
    TreeConsistent
