-------------------------------- MODULE Ssi --------------------------------
(***************************************************************************)
(* The SSI thread (src/ssi.c) and terminate(), which the exception         *)
(* handlers call too. WAITFORIO and WAKE_UP_FROM_IO, whose queues are      *)
(* corrupted at the level of the list links, are not in this module.       *)
(***************************************************************************)
EXTENDS Exception

\* The SSI executes at the given point of its loop.
SsiAt(point) == Running(tcb_SSI) /\ ssi_pc = point

Goes(point) == ssi_pc' = point

\* MsgRecv(RECV, ANYMESSAGE, &msg).
SsiReceive ==
    LET m == t_inbox[tcb_SSI][popMessage(t_inbox[tcb_SSI], NULL)]
    IN /\ SsiAt("recv")
       /\ Receive(tcb_SSI, NULL)
       /\ IF m.service = "WAKE_UP_PSEUDO_CLOCK"
          THEN Goes("wake") /\ UNCHANGED ssi_msg
          ELSE Goes("serve") /\ ssi_msg' = m
       /\ UNCHANGED <<currentThread, queueVars, countVars, treeVars, pc, ssi_temp,
                      killing, power, pseudoClock>>

SsiBlock ==
    /\ SsiAt("recv")
    /\ Await(tcb_SSI, NULL)
    /\ UNCHANGED <<waitForPseudoClockQueue, treeVars, mailVars, pc, ssiVars, killing>>

Serves(service) == SsiAt("serve") /\ ssi_msg.service = service

-----------------------------------------------------------------------------
(* allocTcb() clears the list of children of the TCB it returns. If the    *)
(* TCB still has some, their sibling links become inconsistent: the model  *)
(* stops there, with power = "corrupt".                                    *)
Create(p, parent) ==
    IF tcbFree = <<>>
    THEN UNCHANGED <<treeVars, readyQueue, threadCount, mailVars, pc, power>>
    ELSE LET new == Head(tcbFree)
         IN /\ tcbFree' = Tail(tcbFree)
            /\ t_parent' = [parent EXCEPT ![new] = p]
            /\ t_child' = insertChild([t_child EXCEPT ![new] = <<>>], p, new)
            /\ mgr' = [mgr EXCEPT ![new] = NoManager]
            /\ t_inbox' = [t_inbox EXCEPT ![new] = <<>>]
            /\ pc' = [pc EXCEPT ![new] = "run"]
            /\ issued' = issued \cup {new}
            /\ ownSib' = ownSib \ {new}
            /\ readyQueue' = insertThread(readyQueue, new)
            /\ threadCount' = Inc(threadCount)
            /\ power' = IF t_child[new] = <<>> THEN power ELSE "corrupt"
            /\ UNCHANGED msgFree

ServeCreate(service, p, parent) ==
    /\ Serves(service)
    /\ Create(p, parent)
    /\ Goes("reply")
    /\ UNCHANGED <<currentThread, waitQueue, waitForPseudoClockQueue, softBlockCount,
                   ssi_msg, ssi_temp, killing, pseudoClock>>

createSon == ServeCreate("CREATESON", ssi_msg.sender, t_parent)

\* Mutant: a thread without a parent is adopted by the SSI.
createBrotherOfSsi ==
    LET s == ssi_msg.sender
        p == IF t_parent[s] = NULL THEN tcb_SSI ELSE t_parent[s]
    IN ServeCreate("CREATEBROTHER", p, [t_parent EXCEPT ![s] = p])

\* A thread without a parent is adopted by tcb_init first, if there is a TCB.
createBrother ==
    LET s == ssi_msg.sender
        p == IF t_parent[s] = NULL THEN tcb_init ELSE t_parent[s]
    IN ServeCreate("CREATEBROTHER", p, [t_parent EXCEPT ![s] = p])

\* The services that only look at the sender.
getCpuTime ==
    /\ Serves("GETCPUTIME")
    /\ Goes("reply")
    /\ UNCHANGED <<currentThread, queueVars, countVars, treeVars, mailVars, pc,
                   ssi_msg, ssi_temp, killing, power, pseudoClock>>

\* The sender is unlinked from the list it is in, whichever that is. The clock
\* it starts is "aged" for a timer interrupt that comes before pseudoElapsed is
\* set, and finds it at 0 (ssi.c:143-146).
waitForClock ==
    LET s == ssi_msg.sender
    IN /\ Serves("WAITFORCLOCK")
       /\ readyQueue' = outThread(readyQueue, s)
       /\ waitQueue' = waitQueue \ {s}
       /\ tcbFree' = outThread(tcbFree, s)
       /\ waitForPseudoClockQueue' =
              insertThread(outThread(waitForPseudoClockQueue, s), s)
       /\ pseudoClock' = IF pseudoClock = "off" THEN "aged" ELSE pseudoClock
       /\ Goes("recv") /\ ssi_msg' = NULL
       /\ UNCHANGED <<currentThread, countVars, t_parent, t_child, mgr, issued,
                      ownSib, mailVars, pc, ssi_temp, killing, power>>

\* The sender asked to die, or asked for a service that does not exist: the
\* SSI still sends a reply, to a TCB that is free by then.
ssiTerminate ==
    /\ Serves("TERMINATE") \/ Serves("BAD")
    /\ killing' = <<ssi_msg.sender>>
    /\ Goes("reply")
    /\ UNCHANGED <<currentThread, queueVars, countVars, treeVars, mailVars, pc,
                   ssi_msg, ssi_temp, power, pseudoClock>>

TrapOf == [SPECPRGMGR |-> "prg", SPECTLBMGR |-> "tlb", SPECSYSMGR |-> "sys"]

\* specPrgMgr, specTlbMgr and specSysMgr: a manager is named once and for
\* all; a second time, or NULL, kills the sender.
specMgr(service) ==
    LET s == ssi_msg.sender
        trap == TrapOf[service]
    IN /\ Serves(service)
       /\ IF mgr[s][trap] # NULL \/ ssi_msg.payload = NULL
          THEN /\ killing' = <<s>> /\ Goes("recv") /\ ssi_msg' = NULL
               /\ UNCHANGED mgr
          ELSE /\ mgr' = [mgr EXCEPT ![s][trap] = ssi_msg.payload]
               /\ Goes("reply") /\ UNCHANGED <<killing, ssi_msg>>
       /\ UNCHANGED <<currentThread, queueVars, countVars, tcbFree, t_parent, t_child,
                      issued, ownSib, mailVars, pc, ssi_temp, power, pseudoClock>>

-----------------------------------------------------------------------------
\* Mutant: the answer is dropped when the thread does not wait for it yet.
SsiSendIfWaiting(d, m) ==
    IF msgFree = 0 \/ d \notin waitQueue
    THEN UNCHANGED <<mailVars, waitQueue, readyQueue, softBlockCount>>
    ELSE Deliver(d, m)

(* SEND by the SSI; its result is ignored too. No thread has the SSI as a  *)
(* manager, since no thread knows the address of its TCB.                  *)
SsiSend(d, m) ==
    IF msgFree = 0
    THEN UNCHANGED <<mailVars, waitQueue, readyQueue, softBlockCount>>
    ELSE Deliver(d, m)

reply ==
    /\ SsiAt("reply")
    /\ SsiSend(ssi_msg.sender, [ssi_msg EXCEPT !.m_sender = SSI_MAGIC])
    /\ Goes("recv") /\ ssi_msg' = NULL
    /\ UNCHANGED <<currentThread, waitForPseudoClockQueue, threadCount, treeVars, pc,
                   ssi_temp, killing, power, pseudoClock>>

\* The loop of wakeUpPseudoClock: the next sleeper, if any, becomes ready...
wakeUpPseudoClock ==
    /\ SsiAt("wake")
    /\ IF waitForPseudoClockQueue = <<>>
       THEN Goes("recv") /\ UNCHANGED <<readyQueue, waitForPseudoClockQueue, ssi_temp>>
       ELSE /\ ssi_temp' = Head(waitForPseudoClockQueue)
            /\ waitForPseudoClockQueue' = Tail(waitForPseudoClockQueue)
            /\ readyQueue' = insertThread(readyQueue, ssi_temp')
            /\ Goes("wakeSend")
    /\ UNCHANGED <<currentThread, waitQueue, countVars, treeVars, mailVars, pc,
                   ssi_msg, killing, power, pseudoClock>>

\* Mutant: the message names the TCB of the SSI as its sender.
WakeMsgFromTcb ==
    [m_sender |-> tcb_SSI, service |-> "JUNK", sender |-> NULL, payload |-> NULL]

WakeMsg == [m_sender |-> SSI_MAGIC, service |-> "JUNK", sender |-> NULL, payload |-> NULL]

\* ... then it is sent the message its SSIRequest waits for.
wakeUpSend ==
    /\ SsiAt("wakeSend")
    /\ IF msgFree = 0 THEN UNCHANGED mailVars ELSE insertMessage(ssi_temp, WakeMsg)
    /\ IF msgFree > 0 /\ ssi_temp \in waitQueue
       THEN /\ waitQueue' = waitQueue \ {ssi_temp}
            /\ readyQueue' = insertThread(readyQueue, ssi_temp)
            /\ softBlockCount' = Dec(Dec(softBlockCount))
       ELSE /\ UNCHANGED <<waitQueue, readyQueue>>
            /\ softBlockCount' = Dec(softBlockCount)
    /\ Goes("wake") /\ ssi_temp' = NULL
    /\ UNCHANGED <<currentThread, waitForPseudoClockQueue, threadCount, treeVars, pc,
                   ssi_msg, killing, power, pseudoClock>>

-----------------------------------------------------------------------------
(* terminate(killed), one frame a step: a frame with a child left detaches *)
(* it and enters the frame of the child; one without finishes its thread.  *)
Killing(k) == power = "on" /\ killing # <<>> /\ k = Head(killing)

\* Mutant: the child detached lives on.
killChildSpared(k) ==
    /\ Killing(k)
    /\ t_child[k] # <<>>
    /\ t_child' = [t_child EXCEPT ![k] = Tail(@)]
    /\ t_parent' = [t_parent EXCEPT ![Head(t_child[k])] = NULL]
    /\ UNCHANGED <<currentThread, queueVars, countVars, tcbFree, mgr, issued,
                   ownSib, mailVars, pc, ssiVars, killing, power, pseudoClock>>

killChild(k) ==
    /\ Killing(k)
    /\ t_child[k] # <<>>
    /\ LET c == Head(t_child[k])
       IN /\ t_child' = [t_child EXCEPT ![k] = Tail(@)]
          /\ t_parent' = [t_parent EXCEPT ![c] = NULL]
          /\ killing' = <<c>> \o killing
    /\ UNCHANGED <<currentThread, queueVars, countVars, tcbFree, mgr, issued,
                   ownSib, mailVars, pc, ssiVars, power, pseudoClock>>

\* k has a parent, but not in its list of children: createBrother gave it
\* one without linking it. list_del() then joins the neighbours k had in the
\* last list it was in. It is harmless if k was in none since allocTcb(): only
\* the threads of the boot are in none, until their TCB is allocated again.
Unlinked(k) ==
    /\ t_parent[k] # NULL /\ ~Contains(t_child[t_parent[k]], k)
    /\ k \notin ownSib

killCorrupt(k) ==
    /\ Killing(k) /\ t_child[k] = <<>> /\ Unlinked(k)
    /\ power' = "corrupt"
    /\ UNCHANGED <<currentThread, queueVars, countVars, treeVars, mailVars, pc, ssiVars,
                   killing, pseudoClock>>

InSomeQueue(k) ==
    \/ k \in waitQueue
    \/ Contains(waitForPseudoClockQueue, k)
    \/ Contains(readyQueue, k)

\* Mutants: the thread is still counted; its messages stay in its inbox.
releaseUncounted(k) ==
    /\ UNCHANGED threadCount
    /\ tcbFree' = <<k>> \o tcbFree
    /\ msgFree' = msgFree + Len(t_inbox[k])
    /\ t_inbox' = [t_inbox EXCEPT ![k] = <<>>]

releaseInbox(k) ==
    /\ threadCount' = Dec(threadCount)
    /\ tcbFree' = <<k>> \o tcbFree
    /\ msgFree' = msgFree + Len(t_inbox[k])
    /\ UNCHANGED t_inbox

\* The messages of k, and its TCB, go back to their free lists.
release(k) ==
    /\ threadCount' = Dec(threadCount)
    /\ tcbFree' = <<k>> \o tcbFree
    /\ msgFree' = msgFree + Len(t_inbox[k])
    /\ t_inbox' = [t_inbox EXCEPT ![k] = <<>>]

\* The last lines of terminate() for a thread it can find.
killThread(k) ==
    LET cur   == IF k = currentThread THEN NULL ELSE currentThread
        wait  == k # currentThread /\ k \in waitQueue
        clock == k # currentThread /\ ~wait /\ Contains(waitForPseudoClockQueue, k)
        ready == IF k = currentThread \/ wait \/ clock
                 THEN readyQueue ELSE outThread(readyQueue, k)
    IN /\ Killing(k) /\ t_child[k] = <<>> /\ ~Unlinked(k)
       /\ k = currentThread \/ InSomeQueue(k)
       /\ t_child' = outChild(t_child, t_parent, k)
       /\ t_parent' = [t_parent EXCEPT ![k] = NULL]
       /\ waitQueue' = IF wait THEN waitQueue \ {k} ELSE waitQueue
       /\ waitForPseudoClockQueue' =
              IF clock THEN outThread(waitForPseudoClockQueue, k)
              ELSE waitForPseudoClockQueue
       /\ softBlockCount' = IF wait \/ clock THEN Dec(softBlockCount) ELSE softBlockCount
       /\ release(k)
       /\ killing' = Tail(killing)
       /\ IF killing' = <<>>
          THEN schedule(ready, cur, FALSE, pseudoClock)
          ELSE readyQueue' = ready /\ currentThread' = cur /\ UNCHANGED <<pseudoClock, power>>
       /\ UNCHANGED <<mgr, issued, ownSib, pc, ssiVars>>

\* The thread is in no queue of the kernel: PANIC.
killPanic(k) ==
    /\ Killing(k) /\ t_child[k] = <<>> /\ ~Unlinked(k)
    /\ k # currentThread /\ ~InSomeQueue(k)
    /\ power' = "panicked"
    /\ UNCHANGED <<currentThread, queueVars, countVars, treeVars, mailVars, pc, ssiVars,
                   killing, pseudoClock>>

=============================================================================
