-------------------------------- MODULE Deaths --------------------------------
(***************************************************************************)
(* Device I/O with TERMINATE: the threads of module Devices, one the child *)
(* of the other, may ask the SSI to die where they would print the next    *)
(* string. No thread is created (module Ssi has that).                     *)
(***************************************************************************)
EXTENDS Devices

CONSTANTS
    parent, child,    \* two of the threads
    tcbFree           \* the head of the list of free TCBs

ASSUME DeathsAssumption ==
    /\ parent \in Users /\ child \in Users \ {parent}
    /\ tcbFree \in Node \ (Threads \cup Heads)

VARIABLES
    dead,      \* the threads terminated
    broken,    \* has waitForIO linked a thread that was not ready?
    early      \* the threads whose operation the SSI was told to be over before
               \* they were in the queue of their device

AskToDie(t) ==
    /\ At(t, "print")
    /\ Request(t, [service |-> "TERMINATE", sender |-> t, payload |-> 0])
    /\ UNCHANGED <<dead, broken, early>>

\* The frames of terminate(t), in the order they end: a child that has died
\* is no child any more.
Family(t) == IF t = parent /\ child \notin dead THEN <<child, parent>> ELSE <<t>>

freeTcb(l, t) == list_add(l, t, tcbFree)

\* Mutant: the ready queue is not searched.
KillWaiting(s, k) ==
    IF s.power # "on" THEN s
    ELSE IF Linked(s.links, waitQueue, k)
    THEN [s EXCEPT !.links = freeTcb(outThread(@, waitQueue, k), k), !.soft = Dec(@)]
    ELSE [s EXCEPT !.power = "aborted"]

\* The last lines of terminate(k), in the state s of the lists, the count of
\* blocked threads and the processor; the queues of the devices are not searched.
Kill(s, k) ==
    IF s.power # "on" THEN s
    ELSE IF Loops(s.links, waitQueue, k) THEN [s EXCEPT !.power = "hung"]
    ELSE IF Linked(s.links, waitQueue, k)
    THEN [s EXCEPT !.links = freeTcb(outThread(@, waitQueue, k), k), !.soft = Dec(@)]
    ELSE IF Loops(s.links, readyQueue, k) THEN [s EXCEPT !.power = "hung"]
    ELSE IF Linked(s.links, readyQueue, k)
    THEN [s EXCEPT !.links = freeTcb(outThread(@, readyQueue, k), k)]
    ELSE [s EXCEPT !.power = "aborted"]

\* terminate(sender). The answer is sent all the same.
SsiTerminate ==
    LET victims == Family(ssi_msg.sender)
        start == [links |-> links, soft |-> softBlockCount, power |-> power]
        first == Kill(start, victims[1])
        end == IF Len(victims) = 1 THEN first ELSE Kill(first, victims[2])
    IN /\ Serves("TERMINATE")
       /\ links' = end.links /\ softBlockCount' = end.soft /\ power' = end.power
       /\ dead' = dead \cup ToSet(victims)
       /\ answer' = [t \in Users |-> IF Contains(victims, t) THEN <<>> ELSE answer[t]]
       /\ ssi_msg' = [ssi_msg EXCEPT !.service = "TERMINATED"]
       /\ UNCHANGED <<currentThread, uses, pc, inbox, deviceVars, broken, early>>

SsiAnswer ==
    /\ Serves("TERMINATED")
    /\ SsiSend(links, ssi_msg.sender, ssi_msg.payload)
    /\ ssi_msg' = NIL
    /\ UNCHANGED <<currentThread, uses, pc, inbox, deviceVars, dead, broken, early>>

\* outThread(&readyQueue, sender) has not found the sender (ssi.c:168): it is
\* in another list, or dead.
Breaks == waitForIO /\ ~Linked(links, readyQueue, ssi_msg.sender)

\* wakeUpFromIO finds the queue of a device empty; a thread starts the next
\* operation.
Early ==
    {t \in Users : /\ wakeUpNobody /\ device[uses[t]] # "busy"
                   /\ ssi_msg.sender = DEV_ADDR_BASE(uses[t][1], uses[t][2])}
Afresh == {t \in Users : UserStep(t) /\ Goes(t, "send")}

deathsVars == <<vars, dead, broken, early>>

DeathsInit == Init /\ dead = {} /\ broken = FALSE /\ early = {}

DeathsNext ==
    \/ /\ Next /\ UNCHANGED dead
       /\ broken' = (broken \/ Breaks)
       /\ early' = (early \cup Early) \ Afresh
    \/ \E t \in Users : AskToDie(t)
    \/ SsiTerminate \/ SsiAnswer

DeathsSpec == DeathsInit /\ [][DeathsNext]_deathsVars

-----------------------------------------------------------------------------
\* The lists are right, and a search in one of them ends, as long as every
\* WAITFORIO finds its sender in readyQueue (ssi.c:168 searches no other list).
OnlyWaitForIOBreaks == ~broken => Sound /\ power \notin {"hung", "wild"}

\* As long as the lists are right, a thread has been answered and its device is still
\* at work only if it uses a device number 3, when it can take the status of another
\* device for its own, since wakeUpFromIO computes the number of the device from a
\* status (ssi.c:184); or number 7, which is thought to interrupt when another device
\* of its line does (interrupt.c:63).
AnswerIsForItsDevice ==
    \A t \in Users :
        ~broken /\ pc[t] \in {"ack", "end"} /\ device[uses[t]] = "busy"
            => uses[t][2] \in {3, 7}

\* A thread waits for a device that is not at work, with no message under way to
\* wake it, only if the SSI was told that its operation is over before it had the
\* WAITFORIO. There is one place for all the completions that come early (ssi.c:184:
\* the number is computed from a status, and is 3): the next one overwrites it, and
\* only a thread that uses a device number 3 reads it. No other one is lost.
OnlyEarlyCompletionsLost == \A t \in Users : Stranded(t) /\ ~broken => t \in early

\* As long as the lists are right, and if there are two messages for each thread, the
\* interrupt handler finds the pool empty only when a thread uses a device it cannot
\* see (interrupt.c:64 tests for number 0), which interrupts again and again.
OnlyUnseenDevicesFlood ==
    ~broken /\ power = "faulted" /\ MAXMESSAGES >= 2 * Cardinality(Users)
        => \E t \in Users : uses[t][2] # 0

\* As long as the lists are right, terminate() panics for a thread that has died
\* before it, with a request to die in the inbox of the SSI, and for one that
\* waits for a device, whose queues it never searches (ssi.c:95), and for no
\* other.
PanicsForIOOrDead ==
    [][~broken /\ power' = "aborted" =>
          \E t \in ToSet(Family(ssi_msg.sender)) :
              t \in dead \/ Contains(Walk(links, uses[t]), t)]_deathsVars

InQueue(l, t) == \E h \in Heads : Linked(l, h, t)

\* As long as the lists of threads are right, a dead thread comes back to a
\* queue, and so can run again, only when the SSI serves a WAITFORIO it sent
\* before it died (ssi.c:170).
RaisedByRequest ==
    \A t \in dead \ {currentThread} :
        ~InQueue(links, t) /\ InQueue(links', t) => waitForIO /\ ssi_msg.sender = t
OldRequestsRaise == [][RaisedByRequest \/ ~Sound]_links

=============================================================================
