\* Device I/O, link by link, of threads that may die.
CONSTANTS
    NIL = NIL
    parent = parent
    child = child
    tcb_SSI = tcb_SSI
    tcb_test = tcb_test
    readyQueue = readyQueue
    waitQueue = waitQueue
    tcbFree = tcbFree
    Users <- MCUsers
    Node <- MCNode
    Device <- MCDevice
    Word = 5
    MAXMESSAGES = 4
SPECIFICATION DeathsSpec
CONSTRAINT Explored
INVARIANTS
    OnlyWaitForIOBreaks
    AnswerIsForItsDevice
    OnlyEarlyCompletionsLost
    OnlyUnseenDevicesFlood
PROPERTIES
    PanicsForIOOrDead
    OldRequestsRaise
