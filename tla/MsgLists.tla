------------------------------ MODULE MsgLists ------------------------------
(***************************************************************************)
(* Messages at the level of their links (src/msg.c on header/listx.h),     *)
(* used by three kinds of code: the SEND and RECV handlers, which nothing  *)
(* interrupts; freeTcb(), which terminate() runs in the SSI with           *)
(* interrupts enabled; and fakeSend(), in the interrupt handler.           *)
(***************************************************************************)
EXTENDS ListX

CONSTANTS
    msgTable,    \* the messages, in the order of the table
    msgFree_h,   \* the head of the pool
    Inbox,       \* the t_inbox heads
    tcb_SSI,     \* that of the SSI
    Sender       \* who a message may come from

ASSUME MsgListsAssumption ==
    /\ msgTable \in Seq(Node) /\ IsInjective(msgTable) /\ tcb_SSI \in Inbox
    /\ Node = ToSet(msgTable) \cup Inbox \cup {msgFree_h}
    /\ ToSet(msgTable) \cap Inbox = {}
    /\ msgFree_h \notin ToSet(msgTable) \cup Inbox
    /\ tcb_SSI \in Sender /\ NIL \notin Sender

VARIABLES
    links,       \* the m_next of the messages, and the heads
    m_sender,
    killed,      \* the inbox freeTcb() empties, or NIL
    m,           \* its local variable m
    next,        \* what list_add() read of msgFree_h, or NIL
    stores,      \* how many of the four stores of __list_add were made
    late         \* how many interrupts have used the pool since that read

vars == <<links, m_sender, killed, m, next, stores, late>>

Heads == Inbox \cup {msgFree_h}
Message == ToSet(msgTable)

freeMsg(l, msg) == list_add(l, msg, msgFree_h)

initMsg == FoldLeft(freeMsg, Initialised, msgTable)

\* The first free message is unlinked and initialised.
allocMsg(l) ==
    LET msg == l.next[msgFree_h] IN INIT_LIST_HEAD(list_del(l, msg), msg)

insertMessage(l, head, msg) == list_add_tail(l, msg, head)

\* Mutant: the last message from source.
popMessageLast(l, head, source) ==
    LET queue == Walk(l, head)
        found == {i \in 1 .. Len(queue) : source = NIL \/ m_sender[queue[i]] = source}
    IN IF found = {} THEN NIL ELSE queue[Max(found)]

\* The message popMessage() unlinks, or NIL.
popMessage(l, head, source) ==
    LET queue == Walk(l, head)
        found == {i \in 1 .. Len(queue) : source = NIL \/ m_sender[queue[i]] = source}
    IN IF found = {} THEN NIL ELSE queue[Min(found)]

Init ==
    /\ links = initMsg
    /\ m_sender = [msg \in Message |-> NIL]
    /\ killed = NIL /\ m = NIL /\ next = NIL /\ stores = 0 /\ late = 0

-----------------------------------------------------------------------------
\* The stores of __list_add(m, &msgFree_h, next), from the given one on.
StoresFrom(i, l) ==
    LET l1 == IF i > 0 THEN l ELSE [l EXCEPT !.prev[next] = m]
        l2 == IF i > 1 THEN l1 ELSE [l1 EXCEPT !.next[m] = next]
        l3 == IF i > 2 THEN l2 ELSE [l2 EXCEPT !.prev[m] = msgFree_h]
    IN [l3 EXCEPT !.next[msgFree_h] = m]

\* The links when the freeMsg() under way, if any, will have ended.
Ended == IF next = NIL THEN links ELSE StoresFrom(stores, links)

\* Every list is right in both directions, and no two share a message. A
\* second interrupt in one freeMsg() uses the message of the first again.
Intact ==
    LET l == Ended
        walk == [h \in Heads |-> Walk(l, h)]
    IN /\ late < 2
       /\ \A h \in Heads : Returns(l, h) /\ Represents(l, h, walk[h])
       /\ \A h \in Heads : ToSet(walk[h]) \subseteq Message
       /\ \A h, k \in Heads : h # k => ToSet(walk[h]) \cap ToSet(walk[k]) = {}

Handler == killed = NIL /\ Intact

\* A message to d: alloc, fill, queue.
Queue(d, s) ==
    LET msg == links.next[msgFree_h]
    IN /\ ~list_empty(links, msgFree_h)
       /\ links' = insertMessage(allocMsg(links), d, msg)
       /\ m_sender' = [m_sender EXCEPT ![msg] = s]

Send(d, s) ==
    /\ Handler
    /\ Queue(d, s)
    /\ UNCHANGED <<killed, m, next, stores, late>>

Recv(d, source) ==
    LET msg == popMessage(links, d, source)
    IN /\ Handler
       /\ msg # NIL
       /\ links' = freeMsg(list_del(links, msg), msg)
       /\ UNCHANGED <<m_sender, killed, m, next, stores, late>>

\* fakeSend() interrupts anything but a handler.
Interrupt ==
    /\ Intact
    /\ Queue(tcb_SSI, tcb_SSI)
    /\ late' = IF next = NIL THEN 0 ELSE late + 1
    /\ UNCHANGED <<killed, m, next, stores>>

\* freeTcb(), called by terminate() in the SSI for a thread other than it.
FreeTcb(d) ==
    /\ Handler
    /\ d # tcb_SSI /\ killed' = d
    /\ UNCHANGED <<links, m_sender, m, next, stores, late>>

\* popMessage(&p->t_inbox, NULL): these links are the SSI's alone.
Pop ==
    /\ killed # NIL /\ m = NIL /\ Intact
    /\ IF list_empty(links, killed)
       THEN killed' = NIL /\ UNCHANGED <<links, m>>
       ELSE /\ m' = links.next[killed]
            /\ links' = list_del(links, m')
            /\ UNCHANGED killed
    /\ UNCHANGED <<m_sender, next, stores, late>>

\* freeMsg(m): list_add() reads msgFree_h.next, then __list_add stores.
ReadHead ==
    /\ m # NIL /\ next = NIL /\ Intact
    /\ next' = links.next[msgFree_h]
    /\ late' = 0
    /\ UNCHANGED <<links, m_sender, killed, m, stores>>

Store ==
    /\ next # NIL
    /\ links' = CASE stores = 0 -> [links EXCEPT !.prev[next] = m]
                  [] stores = 1 -> [links EXCEPT !.next[m] = next]
                  [] stores = 2 -> [links EXCEPT !.prev[m] = msgFree_h]
                  [] stores = 3 -> [links EXCEPT !.next[msgFree_h] = m]
    /\ stores' = (stores + 1) % 4
    /\ IF stores = 3 THEN m' = NIL /\ next' = NIL ELSE UNCHANGED <<m, next>>
    /\ UNCHANGED <<m_sender, killed, late>>

\* With damaged links the model goes no further than the end of freeMsg().
Damaged == ~Intact /\ next = NIL /\ UNCHANGED vars

Next ==
    \/ \E d \in Inbox, s \in Sender : Send(d, s)
    \/ \E d \in Inbox, source \in Sender \cup {NIL} : Recv(d, source)
    \/ Interrupt
    \/ \E d \in Inbox : FreeTcb(d)
    \/ Pop \/ ReadHead \/ Store
    \/ Damaged

Spec == Init /\ [][Next]_vars

-----------------------------------------------------------------------------
\* What a list holds, once the freeMsg() under way has ended; the message it
\* is about is not in the pool before that.
Chain(head) ==
    IF head = msgFree_h /\ next # NIL THEN Tail(Walk(Ended, head)) ELSE Walk(Ended, head)

\* The links implement the pool and the queues of MsgQueues, for as long as
\* they are intact: what is sent is received once, in order, and a message is
\* used again only after it was received or its receiver has died.
Queues == INSTANCE MsgQueues WITH
    free   <- Chain(msgFree_h),
    inbox  <- [d \in Inbox |-> Chain(d)],
    hand   <- m,
    intact <- Intact
ImplementsQueues == Queues!QSpec

\* The links are damaged by nothing but an interrupt in the freeMsg() of the
\* SSI (ssi.c:101, tcb.c:28), between the read of msgFree_h.next and the
\* second store, or the second one in the same freeMsg().
DamageIsRace ==
    [][Intact /\ ~Intact' => Interrupt /\ next # NIL /\ (stores < 2 \/ late > 0)]_vars

=============================================================================
