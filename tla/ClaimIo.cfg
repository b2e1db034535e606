\* The first line p2test prints on terminal 0, link by link.
CONSTANTS
    NIL = NIL
    printthread = printthread
    tcb_SSI = tcb_SSI
    tcb_test = tcb_test
    readyQueue = readyQueue
    waitQueue = waitQueue
    Users <- PrintUsers
    Node <- PrintNode
    Device <- Terminal0
    Word = 5
    MAXMESSAGES = 4
SPECIFICATION Spec
INVARIANT SearchesEnd
