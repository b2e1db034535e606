\* The test program with the sizes of the code, without terminal 0, preempted at most twice.
CONSTANTS
    NULL = NULL
    tcb_init = tcb_init
    tcb_SSI = tcb_SSI
    tcb_test = tcb_test
    tcb_lost = tcb_lost
    SSI_MAGIC = SSI_MAGIC
    t1 = t1
    t2 = t2
    t3 = t3
    t4 = t4
    t5 = t5
    t6 = t6
    t7 = t7
    t8 = t8
    t9 = t9
    t10 = t10
    t11 = t11
    t12 = t12
    t13 = t13
    t14 = t14
    t15 = t15
    t16 = t16
    Tcb <- MCTcb
    BootFree <- MCBootFree
    Calls <- MCCalls
    Word = 32
    MAXMESSAGES = 20
    MaxTicks = 2
    P8LOOP = 4
    Leaves = 2
    CLOCKLOOP = 10
    MaxSlices = 2
SPECIFICATION TestFairSpec
INVARIANTS
    
    FamiliesDieTogether
    StacksShared
    LeftBehind
PROPERTY
    P1Finishes
