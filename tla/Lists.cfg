\* The lists of messages, link by link, with an interrupt anywhere in freeTcb().
CONSTANTS
    NIL = NIL
    m1 = m1
    m2 = m2
    m3 = m3
    msgFree_h = msgFree_h
    tcb_SSI = tcb_SSI
    tcb_test = tcb_test
    msgTable <- MCmsgTable
    Inbox <- MCInbox
    Node <- MCNode
    Sender <- MCSender
SPECIFICATION Spec
PROPERTIES
    ImplementsQueues
    DamageIsRace
