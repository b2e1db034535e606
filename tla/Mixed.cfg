\* Messages, sleeping and dying together, with two messages only: the dead too are put to
\* sleep and woken again.
CONSTANTS
    NULL = NULL
    tcb_init = tcb_init
    tcb_SSI = tcb_SSI
    tcb_test = tcb_test
    tcb_lost = tcb_lost
    SSI_MAGIC = SSI_MAGIC
    a = a
    b = b
    Tcb <- SmallTcb
    BootFree <- SmallBootFree
    Calls <- Mixed
    Word = 6
    MAXMESSAGES = 2
    MaxTicks = 1
SPECIFICATION Spec
INVARIANTS
    OnePlace
    NoLostWakeup
    TreeConsistent
PROPERTIES
    SsiNotPreempted
