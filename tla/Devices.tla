------------------------------- MODULE Devices -------------------------------
(***************************************************************************)
(* Device I/O (WAITFORIO and WAKE_UP_FROM_IO of src/ssi.c, acknowledge()   *)
(* of src/interrupt.c, and termprint() of src/p2test.0.2.c as its client)  *)
(* with the thread queues of src/tcb.c at the level of their links. Each   *)
(* user thread prints strings on its device, one operation after the other,*)
(* and waits for each through the SSI. tcb_test has created them and waits *)
(* for a message nobody sends. The other services are in module Ssi;       *)
(* messages are sequences here (module MsgLists has their links).          *)
(***************************************************************************)
EXTENDS ListX

CONSTANTS
    Users,        \* the threads that use a device
    tcb_SSI, tcb_test, readyQueue, waitQueue,
    Device,       \* the devices installed, as <<interrupt line, number>>
    Word,         \* softBlockCount is an unsigned machine word
    MAXMESSAGES

Threads == Users \cup {tcb_SSI, tcb_test}
Lines == {line \in 3 .. 7 : \E d \in Device : d[1] = line}
DeviceQueues == Lines \X (0 .. 7)

\* What the interrupt handler and the clients send to the SSI.
Service == {"WAITFORIO", "WAKE_UP_FROM_IO", "TERMINATE", "TERMINATED"}
Message == [service : Service, sender : Users \cup Nat, payload : Nat]

ASSUME DevicesAssumption ==
    /\ Device \subseteq (3 .. 7) \X (0 .. 7)
    /\ Threads \cup {readyQueue, waitQueue} \cup DeviceQueues \subseteq Node
    /\ tcb_SSI \notin Users /\ tcb_test \notin Users \cup {tcb_SSI}
    /\ readyQueue # waitQueue
    /\ {readyQueue, waitQueue} \cap DeviceQueues = {}
    /\ Threads \cap ({readyQueue, waitQueue} \cup DeviceQueues) = {}
    /\ NIL \notin Message \cup 0 .. 7
    /\ Word \in Nat \ {0, 1} /\ MAXMESSAGES \in Nat \ {0}

VARIABLES
    links,          \* the t_next of the threads, and the heads
    currentThread,
    softBlockCount,
    uses,           \* the device of each user thread
    pc,             \* what it does next
    answer,         \* the messages from the SSI in its inbox
    inbox,          \* the messages in the inbox of the SSI
    ssi_msg,        \* the message the SSI serves, or NIL
    device,         \* what each device is doing
    term,           \* deviceData.term: the statuses remembered; NIL: exist = FALSE
    power

vars == <<links, currentThread, softBlockCount, uses, pc, answer, inbox, ssi_msg,
          device, term, power>>
userVars == <<uses, pc, answer>>
deviceVars == <<device, term>>

-----------------------------------------------------------------------------
(* The addresses of the device registers (const.h).                        *)
DEV_REGS_START == 268435536
TERMINAL0ADDR  == 268436048
INT_TERMINAL == 7
DEV_ADDR_BASE(line, devNo) == DEV_REGS_START + (line - 3) * 128 + devNo * 16
DEVICE_N_FROM_REGSTATUS(addr) == ((addr - DEV_REGS_START) % 128) \div 16

\* Mutant: no address is recognised.
LineUnknown(addr) == INT_TERMINAL

\* IS_DISK_DEVICE, ...: the block of eight devices an address is in; what is
\* in no other block is taken for a terminal.
LineOfStatus(addr) ==
    IF addr \in DEV_REGS_START .. TERMINAL0ADDR - 1
    THEN 3 + (addr - DEV_REGS_START) \div 128 ELSE INT_TERMINAL

select_io_queue_from_status_addr(addr) ==
    <<LineOfStatus(addr), DEVICE_N_FROM_REGSTATUS(addr)>>

\* The address a client passes: terminals have a second status, TRANSTATUS.
StatusAddr(d) == DEV_ADDR_BASE(d[1], d[2]) + IF d[1] = INT_TERMINAL THEN 8 ELSE 0

\* The status register of a device: 5 is TRANSMITTED, 1 is READY, 3 is BUSY.
Completed(d) == IF d[1] = INT_TERMINAL THEN 5 ELSE 1
Status(d) == IF d \notin Device THEN 0
             ELSE [ready |-> 1, busy |-> 3, done |-> Completed(d)][device[d]]

-----------------------------------------------------------------------------
(* Thread queues on links.                                                 *)
insertThread(l, head, t) == list_add_tail(l, t, head)
removeThread(l, head) == list_del(l, list_next(l, head))
Linked(l, head, t) == Contains(Trail(l, head), t)

outThread(l, head, t) ==
    IF Linked(l, head, t) THEN INIT_LIST_HEAD(list_del(l, t), t) ELSE l

\* The threads of s made ready one after the other.
Created(s) == FoldLeft(LAMBDA l, t : insertThread(l, readyQueue, t), Initialised, s)

\* The SSI, and then tcb_test, have stopped in RECV.
Stopped(l) == insertThread(insertThread(l, waitQueue, tcb_SSI), waitQueue, tcb_test)

Inc(n) == (n + 1) % Word
Dec(n) == (n + Word - 1) % Word

Init ==
    /\ currentThread \in Users
    /\ \E order \in SetToSeqs(Users \ {currentThread}) : links = Stopped(Created(order))
    /\ softBlockCount = 2 % Word
    /\ uses \in Injection(Users, Device)
    /\ pc = [t \in Users |-> "print"]
    /\ answer = [t \in Users |-> <<>>]
    /\ inbox = <<>> /\ ssi_msg = NIL
    /\ device = [d \in Device |-> "ready"]
    /\ term = [n \in 0 .. 7 |-> NIL]
    /\ power = "on"

Runs(t) == power = "on" /\ currentThread = t
At(t, point) == Runs(t) /\ pc[t] = point
Goes(t, point) == pc' = [pc EXCEPT ![t] = point]

\* The messages in use.
Mail == UNION {{t} \X (1 .. Len(answer[t])) : t \in Users}
Queued == Len(inbox) + Cardinality(Mail)

\* Mutant: the thread is not taken out of waitQueue.
WokenInBoth(l, t) == IF Linked(l, waitQueue, t) THEN insertThread(l, readyQueue, t) ELSE l

\* Mutant: the thread becomes ready wherever it was.
WokenAlways(l, t) == insertThread(outThread(l, waitQueue, t), readyQueue, t)

\* What outThread(&waitQueue, t) and insertThread(&readyQueue, t) make of l.
Woken(l, t) ==
    IF Linked(l, waitQueue, t) THEN insertThread(outThread(l, waitQueue, t), readyQueue, t)
    ELSE l
SoftAfterWaking(l, t) ==
    IF Linked(l, waitQueue, t) THEN Dec(softBlockCount) ELSE softBlockCount

\* The processor searches for t in a list: perhaps for ever.
PowerAfter(l, head, t) == IF Loops(l, head, t) THEN "hung" ELSE power

\* schedule() with links l and current thread cur.
schedule(l, cur, soft) ==
    LET first == l.next[readyQueue]
        switches == cur = NIL /\ ~list_empty(l, readyQueue)
    IN /\ links' = IF switches THEN removeThread(l, readyQueue) ELSE l
       /\ currentThread' = IF switches THEN first ELSE cur
       /\ power' = CASE switches /\ first \notin Users \cup {tcb_SSI} -> "wild"
                     [] cur = NIL /\ ~switches /\ soft = 0 -> "panicked"
                     [] OTHER -> power

\* stopCurrentThread() and schedule().
Block(t) ==
    /\ softBlockCount' = Inc(softBlockCount)
    /\ schedule(insertThread(links, waitQueue, t), NIL, softBlockCount')

-----------------------------------------------------------------------------
(* A user thread: termprint(), with putChar() and SSIRequest(WAITFORIO).    *)

\* putChar() with the devices d.
putChar(d, t) == device' = [d EXCEPT ![uses[t]] = "busy"]

\* A string starts: a device that is neither READY nor TRANSMITTED is not
\* available, another one gets the first character.
Termprint(t) ==
    /\ At(t, "print")
    /\ IF Status(uses[t]) \in {1, 5}
       THEN putChar(device, t) /\ Goes(t, "send")
       ELSE UNCHANGED device /\ Goes(t, "end")
    /\ UNCHANGED <<links, currentThread, softBlockCount, uses, answer, inbox, ssi_msg,
                   term, power>>

WaitForIO(t) ==
    [service |-> "WAITFORIO", sender |-> t, payload |-> StatusAddr(uses[t])]

\* MsgSend(SEND, SSI_MAGIC, &msg_ssi).
Request(t, request) ==
    /\ Goes(t, "recv")
    /\ IF Queued < MAXMESSAGES
       THEN /\ inbox' = Append(inbox, request)
            /\ links' = Woken(links, tcb_SSI)
            /\ softBlockCount' = SoftAfterWaking(links, tcb_SSI)
            /\ power' = PowerAfter(links, waitQueue, tcb_SSI)
       ELSE UNCHANGED <<inbox, links, softBlockCount, power>>
    /\ UNCHANGED <<currentThread, uses, answer, ssi_msg, deviceVars>>

SendRequest(t) == At(t, "send") /\ Request(t, WaitForIO(t))

RecvAnswer(t) ==
    /\ At(t, "recv") /\ answer[t] # <<>>
    /\ Goes(t, IF Head(answer[t]) = Completed(uses[t]) THEN "ack" ELSE "end")
    /\ answer' = [answer EXCEPT ![t] = Tail(@)]
    /\ UNCHANGED <<links, currentThread, softBlockCount, uses, inbox, ssi_msg,
                   deviceVars, power>>

RecvBlock(t) ==
    /\ At(t, "recv") /\ answer[t] = <<>>
    /\ Block(t)
    /\ UNCHANGED <<userVars, inbox, ssi_msg, deviceVars>>

\* Mutant: the device is not acknowledged.
NotAcknowledged(d) == device

\* Mutant: every device of the line is acknowledged.
AcknowledgedLine(d) ==
    [e \in Device |-> IF e[1] = d[1] /\ device[e] = "done" THEN "ready" ELSE device[e]]

\* *commandp = ACK after a character, and then the next one or the end of the
\* string; and when an operation has failed or the device is not available.
Acknowledged(d) == [device EXCEPT ![d] = IF @ = "done" THEN "ready" ELSE @]
Ack(t) ==
    /\ \/ At(t, "ack") /\ putChar(Acknowledged(uses[t]), t) /\ Goes(t, "send")
       \/ (At(t, "ack") \/ At(t, "end")) /\ device' = Acknowledged(uses[t]) /\ Goes(t, "print")
    /\ UNCHANGED <<links, currentThread, softBlockCount, uses, answer, inbox, ssi_msg,
                   term, power>>

-----------------------------------------------------------------------------
(* The SSI.                                                                *)

SsiReceive ==
    /\ Runs(tcb_SSI) /\ ssi_msg = NIL /\ inbox # <<>>
    /\ ssi_msg' = Head(inbox) /\ inbox' = Tail(inbox)
    /\ UNCHANGED <<links, currentThread, softBlockCount, userVars, deviceVars, power>>

SsiBlock ==
    /\ Runs(tcb_SSI) /\ ssi_msg = NIL /\ inbox = <<>>
    /\ Block(tcb_SSI)
    /\ UNCHANGED <<userVars, inbox, ssi_msg, deviceVars>>

Serves(service) == Runs(tcb_SSI) /\ ssi_msg # NIL /\ ssi_msg.service = service

\* MsgSend(SEND, t, ...) by the SSI, from the links l.
SsiSend(l, t, status) ==
    IF Queued < MAXMESSAGES
    THEN /\ answer' = [answer EXCEPT ![t] = Append(@, status)]
         /\ links' = Woken(l, t)
         /\ softBlockCount' = SoftAfterWaking(l, t)
         /\ power' = PowerAfter(l, waitQueue, t)
    ELSE links' = l /\ UNCHANGED <<answer, softBlockCount, power>>

\* The operation has completed before: the status remembered is the answer.
waitForIODone ==
    LET n == DEVICE_N_FROM_REGSTATUS(ssi_msg.payload)
    IN /\ Serves("WAITFORIO") /\ term[n] # NIL
       /\ SsiSend(links, ssi_msg.sender, term[n])
       /\ term' = [term EXCEPT ![n] = NIL]
       /\ ssi_msg' = NIL
       /\ UNCHANGED <<currentThread, uses, pc, inbox, device>>

\* Otherwise the sender leaves the readyQueue, if it is there, and waits in
\* the queue of the device.
waitForIO ==
    LET s == ssi_msg.sender
        queue == select_io_queue_from_status_addr(ssi_msg.payload)
    IN /\ Serves("WAITFORIO")
       /\ term[DEVICE_N_FROM_REGSTATUS(ssi_msg.payload)] = NIL
       /\ links' = insertThread(outThread(links, readyQueue, s), queue, s)
       /\ power' = PowerAfter(links, readyQueue, s)
       /\ ssi_msg' = NIL
       /\ UNCHANGED <<currentThread, softBlockCount, userVars, inbox, deviceVars>>

\* The first thread in the queue passes through waitQueue, where the SEND
\* finds it. (An interrupt between the two does not look at that thread.)
wakeUpFromIO ==
    LET queue == select_io_queue_from_status_addr(ssi_msg.sender)
        first == links.next[queue]
        moved == insertThread(removeThread(links, queue), waitQueue, first)
    IN /\ Serves("WAKE_UP_FROM_IO") /\ ~list_empty(links, queue)
       /\ IF first \in Users
          THEN SsiSend(moved, first, ssi_msg.payload)
          ELSE power' = "wild" /\ UNCHANGED <<links, answer, softBlockCount>>
       /\ ssi_msg' = NIL
       /\ UNCHANGED <<currentThread, uses, pc, inbox, deviceVars>>

\* Nobody waits: the status is remembered, for the device whose number is
\* computed from the status.
wakeUpNobody ==
    LET status == ssi_msg.payload
    IN /\ Serves("WAKE_UP_FROM_IO")
       /\ list_empty(links, select_io_queue_from_status_addr(ssi_msg.sender))
       /\ term' = [term EXCEPT ![DEVICE_N_FROM_REGSTATUS(status)] = status]
       /\ ssi_msg' = NIL
       /\ UNCHANGED <<links, currentThread, softBlockCount, userVars, inbox, device, power>>

-----------------------------------------------------------------------------
(* The devices and the interrupt handler.                                  *)

DeviceCompletes(d) ==
    /\ power = "on" /\ device[d] = "busy"
    /\ device' = [device EXCEPT ![d] = "done"]
    /\ UNCHANGED <<links, currentThread, softBlockCount, userVars, inbox, ssi_msg, term, power>>

Pending == {d \in Device : device[d] = "done"}

\* The loop over the bitmap tests each bit against 1 and ends at bit 6.
DeviceSeen(line) == IF <<line, 0>> \in Pending THEN 0 ELSE 7

\* The status acknowledge() sends: a terminal that has not transmitted is
\* left alone, any other device is acknowledged whatever its status is.
StatusSeen(d) == IF d[1] = INT_TERMINAL /\ Status(d) # 5 THEN 0 ELSE Status(d)

\* The lines are served in this order; there is no branch for line 5.
LinesServed == {3, 4, 6, 7}

\* intsHandler() for the first line with a pending interrupt.
Interrupt ==
    LET line == Min({d[1] : d \in {e \in Pending : e[1] \in LinesServed}})
        d == <<line, DeviceSeen(line)>>
    IN /\ power = "on"
       /\ \E e \in Pending : e[1] \in LinesServed
       /\ Queued < MAXMESSAGES
       /\ device' = IF d \in Device THEN Acknowledged(d) ELSE device
       /\ inbox' = Append(inbox, [service |-> "WAKE_UP_FROM_IO", payload |-> StatusSeen(d),
                                  sender |-> DEV_ADDR_BASE(d[1], d[2])])
       /\ IF Loops(links, waitQueue, tcb_SSI)
          THEN power' = "hung" /\ UNCHANGED <<links, currentThread>>
          ELSE schedule(Woken(links, tcb_SSI), currentThread, softBlockCount)
       /\ UNCHANGED <<softBlockCount, userVars, ssi_msg, term>>

\* The same without a free message: fakeSend() follows a null pointer.
InterruptFault ==
    /\ power = "on" /\ Queued = MAXMESSAGES
    /\ \E e \in Pending : e[1] \in LinesServed
    /\ power' = "faulted"
    /\ UNCHANGED <<links, currentThread, softBlockCount, userVars, inbox, ssi_msg, deviceVars>>

\* The slice of a user thread ends.
Preempted ==
    /\ power = "on" /\ currentThread \in Users
    /\ schedule(insertThread(links, readyQueue, currentThread), NIL, softBlockCount)
    /\ UNCHANGED <<softBlockCount, userVars, inbox, ssi_msg, deviceVars>>

\* The processor waits for an interrupt, or has stopped.
Idle == (currentThread = NIL \/ power # "on") /\ UNCHANGED vars

SsiStep ==
    SsiReceive \/ SsiBlock \/ waitForIODone \/ waitForIO \/ wakeUpFromIO \/ wakeUpNobody

UserStep(t) ==
    Termprint(t) \/ SendRequest(t) \/ RecvAnswer(t) \/ RecvBlock(t) \/ Ack(t)

Next ==
    \/ \E t \in Users : UserStep(t)
    \/ SsiStep
    \/ \E d \in Device : DeviceCompletes(d)
    \/ Interrupt \/ InterruptFault \/ Preempted \/ Idle

Spec == Init /\ [][Next]_vars

-----------------------------------------------------------------------------
Heads == {readyQueue, waitQueue} \cup DeviceQueues

\* Every list is right in both directions, and holds threads.
Sound ==
    \A h \in Heads :
        /\ Returns(links, h) /\ Represents(links, h, Walk(links, h))
        /\ ToSet(Walk(links, h)) \subseteq Threads

\* t waits for a device that is not at work, and no message will wake it.
WakeFor(d) == {i \in 1 .. Len(inbox) : /\ inbox[i].service = "WAKE_UP_FROM_IO"
                                       /\ inbox[i].sender = DEV_ADDR_BASE(d[1], d[2])}
Stranded(t) ==
    /\ device[uses[t]] = "ready" /\ WakeFor(uses[t]) = {}
    /\ Contains(Walk(links, uses[t]), t)
    /\ ssi_msg # NIL => ssi_msg.sender # DEV_ADDR_BASE(uses[t][1], uses[t][2])

\* Claim (tcb.c:114): a search for a thread that is not in the queue ends.
SearchesEnd == power # "hung"

=============================================================================
