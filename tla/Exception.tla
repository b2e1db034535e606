----------------------------- MODULE Exception -----------------------------
(***************************************************************************)
(* The exceptions raised by the current user thread: the SEND and RECV     *)
(* system calls (src/exception.c) and the traps (src/prgTrap.c,            *)
(* src/tlbTrap.c, and exception.c for the other system calls). A SEND that *)
(* finds no free message returns MSGNOGOOD and changes nothing.            *)
(***************************************************************************)
EXTENDS Scheduler

\* t makes call: its program is free to, or it repeats the call "sys".
Makes(t, call) == UserRuns(t) /\ pc[t] = "run" /\ call \in Calls

\* A manager's SEND to a thread it manages is a verdict, not a message.
IsManagerOf(t, d) == \E trap \in Traps : mgr[d][trap] = t

\* SEND of an ordinary message.
Send(t, d) ==
    /\ Makes(t, "send")
    /\ d \in issued /\ ~IsManagerOf(t, d)
    /\ msgFree > 0
    /\ Deliver(d, UserMsg(t))
    /\ UNCHANGED <<currentThread, waitForPseudoClockQueue, threadCount, treeVars,
                   pc, ssiVars, killing, power, pseudoClock>>

\* A verdict other than TRAPCONTINUE and TRAPTERMINATE is dropped. In all
\* verdicts the allocated message is neither queued nor freed.
Verdict(t, d) ==
    /\ Makes(t, "manage")
    /\ d \in issued /\ IsManagerOf(t, d)
    /\ msgFree > 0 /\ msgFree' = msgFree - 1

SendOther(t, d) ==
    /\ Verdict(t, d)
    /\ UNCHANGED <<currentThread, queueVars, countVars, treeVars, t_inbox, pc,
                   ssiVars, killing, power, pseudoClock>>

\* Mutant: the thread is not unlinked from the waitQueue.
startThreadLinked(d) ==
    /\ softBlockCount' = Dec(softBlockCount)
    /\ readyQueue' = insertThread(readyQueue, d)
    /\ UNCHANGED <<waitQueue, power>>

\* For a d that does not wait, startThread() links a null pointer.
startThread(d) ==
    /\ softBlockCount' = Dec(softBlockCount)
    /\ IF d \in waitQueue
       THEN /\ waitQueue' = waitQueue \ {d}
            /\ readyQueue' = insertThread(readyQueue, d)
            /\ UNCHANGED power
       ELSE power' = "faulted" /\ UNCHANGED <<waitQueue, readyQueue>>

SendContinue(t, d) ==
    /\ Verdict(t, d)
    /\ startThread(d)
    /\ UNCHANGED <<currentThread, waitForPseudoClockQueue, threadCount, treeVars,
                   t_inbox, pc, ssiVars, killing, pseudoClock>>

SendTerminate(t, d) ==
    /\ Verdict(t, d)
    /\ killing' = <<d>>
    /\ UNCHANGED <<currentThread, queueVars, countVars, treeVars, t_inbox, pc,
                   ssiVars, power, pseudoClock>>

\* The SEND of SSIRequest. Its result is ignored: without a free message
\* the thread goes on to wait for an answer to a request never made.
SendSsi(t, service, payload) ==
    /\ Makes(t, service)
    /\ service \in Services
    /\ payload \in IF service \in SpecServices THEN issued \cup {NULL} ELSE {NULL}
    /\ pc' = [pc EXCEPT ![t] = SSI_MAGIC]
    /\ IF msgFree = 0
       THEN UNCHANGED <<mailVars, waitQueue, readyQueue, softBlockCount>>
       ELSE Deliver(tcb_SSI, RequestMsg(t, service, payload))
    /\ UNCHANGED <<currentThread, waitForPseudoClockQueue, threadCount, treeVars,
                   ssiVars, killing, power, pseudoClock>>

-----------------------------------------------------------------------------
\* Mutant: the message is not freed.
ReceiveLeak(t, source) ==
    LET i == popMessage(t_inbox[t], source)
    IN /\ Matching(t_inbox[t], source) # {}
       /\ t_inbox' = [t_inbox EXCEPT ![t] = RemoveAt(@, i)]
       /\ UNCHANGED msgFree

\* RECV finds a message: it is taken out of the inbox and freed.
Receive(t, source) ==
    LET i == popMessage(t_inbox[t], source)
    IN /\ Matching(t_inbox[t], source) # {}
       /\ t_inbox' = [t_inbox EXCEPT ![t] = RemoveAt(@, i)]
       /\ msgFree' = msgFree + 1

\* Mutant: the blocked thread is not counted.
BlockUncounted(t, queue, wait, soft) ==
    /\ waitQueue' = wait \cup {t}
    /\ softBlockCount' = soft
    /\ UNCHANGED threadCount
    /\ schedule(queue, NULL, FALSE, pseudoClock)

\* stopCurrentThread() and schedule().
Block(t, queue, wait, soft) ==
    /\ waitQueue' = wait \cup {t}
    /\ softBlockCount' = Inc(soft)
    /\ UNCHANGED threadCount
    /\ schedule(queue, NULL, FALSE, pseudoClock)

\* Mutant: the RECV looks at the first message only.
AwaitFirst(t, source) ==
    /\ 1 \notin Matching(t_inbox[t], source)
    /\ Block(t, readyQueue, waitQueue, softBlockCount)

\* RECV finds none: the thread waits, and will execute the RECV again.
Await(t, source) ==
    /\ Matching(t_inbox[t], source) = {}
    /\ Block(t, readyQueue, waitQueue, softBlockCount)

\* The source of the RECV t executes now: a new one, or the pending one.
RecvFrom(t, source) ==
    /\ UserRuns(t)
    /\ IF pc[t] = "run"
       THEN "recv" \in Calls /\ source \in issued \cup {NULL}
       ELSE pc[t] # "sys" /\ source = pc[t]

RecvTake(t, source) ==
    /\ RecvFrom(t, source)
    /\ Receive(t, source)
    /\ pc' = [pc EXCEPT ![t] = "run"]
    /\ UNCHANGED <<currentThread, queueVars, countVars, treeVars, ssiVars, killing,
                   power, pseudoClock>>

RecvBlock(t, source) ==
    /\ RecvFrom(t, source)
    /\ Await(t, source)
    /\ pc' = [pc EXCEPT ![t] = source]
    /\ UNCHANGED <<waitForPseudoClockQueue, treeVars, mailVars, ssiVars, killing>>

-----------------------------------------------------------------------------
(* A trap of the current thread. The thread steps over the instruction of  *)
(* a program or TLB trap and would repeat a system call.                   *)
TrapRaised(t, trap) ==
    /\ UserRuns(t)
    /\ trap \in Traps
    /\ \/ pc[t] = "run" /\ trap \in Calls
       \/ pc[t] = "sys" /\ trap = "sys"

PcAfter(t, trap) == [pc EXCEPT ![t] = IF trap = "sys" THEN "sys" ELSE "run"]

\* No manager: the thread and its progeny die.
TrapKill(t, trap) ==
    /\ TrapRaised(t, trap)
    /\ mgr[t][trap] = NULL
    /\ killing' = <<t>>
    /\ pc' = PcAfter(t, trap)
    /\ UNCHANGED <<currentThread, queueVars, countVars, treeVars, mailVars, ssiVars,
                   power, pseudoClock>>

\* The handlers test the manager of the trap but write to sysMgr, and do
\* not test the message: either pointer may be null.
TrapFault(t, trap) ==
    /\ TrapRaised(t, trap)
    /\ mgr[t][trap] # NULL
    /\ mgr[t]["sys"] = NULL \/ msgFree = 0
    /\ power' = "faulted"
    /\ UNCHANGED <<currentThread, queueVars, countVars, treeVars, mailVars, pc,
                   ssiVars, killing, pseudoClock>>

TrapPassUp(t, trap) ==
    LET m == mgr[t]["sys"]
    IN /\ TrapRaised(t, trap)
       /\ mgr[t][trap] # NULL
       /\ m # NULL /\ msgFree > 0
       /\ insertMessage(m, UserMsg(t))
       /\ Block(t, Woken(m), waitQueue \ {m}, SoftAfterWaking(m))
       /\ pc' = PcAfter(t, trap)
       /\ UNCHANGED <<waitForPseudoClockQueue, treeVars, ssiVars, killing>>

=============================================================================
