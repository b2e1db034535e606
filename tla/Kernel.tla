------------------------------- MODULE Kernel -------------------------------
(***************************************************************************)
(* The nucleus: the exceptions of the user threads, the SSI thread and the *)
(* timer interrupts, interleaved on one processor; and what has to hold of *)
(* it.                                                                     *)
(***************************************************************************)
EXTENDS Ssi, Interrupt

UserStep(t) ==
    \/ \E d \in issued : Send(t, d) \/ SendOther(t, d) \/ SendContinue(t, d)
                         \/ SendTerminate(t, d)
    \/ \E service \in Services, payload \in issued \cup {NULL} :
          SendSsi(t, service, payload)
    \/ \E source \in issued \cup {NULL, SSI_MAGIC} :
          RecvTake(t, source) \/ RecvBlock(t, source)
    \/ \E trap \in Traps : TrapKill(t, trap) \/ TrapFault(t, trap)
                           \/ TrapPassUp(t, trap)

SsiStep ==
    \/ SsiReceive \/ SsiBlock
    \/ createSon \/ createBrother \/ getCpuTime \/ waitForClock \/ ssiTerminate
    \/ \E service \in SpecServices : specMgr(service)
    \/ reply \/ wakeUpPseudoClock \/ wakeUpSend

KillStep ==
    \E k \in UserTcb : killChild(k) \/ killThread(k) \/ killCorrupt(k) \/ killPanic(k)

\* When the machine is not on, nothing happens any more.
PowerOff == power # "on" /\ UNCHANGED vars

Next ==
    \/ \E t \in UserTcb : UserStep(t)
    \/ SsiStep
    \/ KillStep
    \/ TimerSlice \/ TimerTick \/ TimerFault
    \/ PowerOff

Spec == Init /\ [][Next]_vars

\* The pending RECV of a thread, executed when the thread is dispatched.
RetryRecv(t) == pc[t] # "run" /\ (RecvTake(t, pc[t]) \/ RecvBlock(t, pc[t]))

\* The timer is sure to be armed again when a slice ends with isPseudoClock
\* FALSE (scheduler.c:82-83), and is armed while schedule() waits.
ArmedTimer == (pseudoClock = "off" \/ currentThread = NULL) /\ (TimerSlice \/ TimerTick)

(* The processor executes the SSI and terminate() whenever they are the    *)
(* current activity; the timer, when armed, goes off; a thread dispatched  *)
(* again and again executes its pending RECV in one of its slices. Nothing *)
(* is assumed of the calls a program may choose to make.                   *)
Fairness ==
    /\ WF_vars(SsiStep)
    /\ WF_vars(KillStep)
    /\ WF_vars(ArmedTimer)
    /\ \A t \in UserTcb : SF_vars(RetryRecv(t))

FairSpec == Spec /\ Fairness

-----------------------------------------------------------------------------
(* Where the TCBs are. *)

Ready    == ToSet(readyQueue)
Sleeping == ToSet(waitForPseudoClockQueue)
Free     == ToSet(tcbFree)
Live     == (UserTcb \cup {tcb_SSI}) \ Free

\* Every TCB but tcb_init and the forgotten one is current, or linked, once,
\* in exactly one of the ready, wait, clock and free lists: t_next is only
\* one pair of links, and each insertion in tcb.c trusts the caller to have
\* taken the TCB out of the list it was in.
OnePlace ==
    /\ IsInjective(readyQueue)
    /\ IsInjective(waitForPseudoClockQueue)
    /\ IsInjective(tcbFree)
    /\ waitQueue \cap (Ready \cup Sleeping \cup Free) = {}
    /\ Ready \cap (Sleeping \cup Free) = {}
    /\ Sleeping \cap Free = {}
    /\ currentThread \notin waitQueue \cup Ready \cup Sleeping \cup Free
    /\ waitQueue \cup Ready \cup Sleeping \cup Free
          = (UserTcb \cup {tcb_SSI}) \ {currentThread}

\* A thread blocked in RECV has no message it would accept: the RECV blocks
\* only without one (exception.c:114-117), and each of the five places that
\* queue a message wakes the receiver if it waits, the interrupt handler
\* included.
NoLostWakeup ==
    \A t \in waitQueue :
        LET source == IF t = tcb_SSI THEN NULL ELSE pc[t]
        IN source \notin {"run", "sys"} => Matching(t_inbox[t], source) = {}

\* A thread stopped by a trap stays stopped until a manager of it decides, as
\* exception.c:62-63 says, or another thread sends it any message at all,
\* which it does not wait for (exception.c:90).
Trapped(t) == t \in waitQueue /\ t # tcb_SSI /\ pc[t] \in {"run", "sys"}
TrappedStays ==
    [][\A t \in UserTcb :
          Trapped(t) /\ t \in Ready'
              => IsManagerOf(currentThread, t) \/ t_inbox'[t] # t_inbox[t]]_vars

\* The process tree: the children of p are listed once, and name p as their
\* parent; a thread with a parent other than tcb_init is among its children
\* (tcb.c:150-180, over every order of creations and terminations).
TreeConsistent ==
    power # "corrupt" =>
        \A p, c \in Tcb :
            /\ IsInjective(t_child[p])
            /\ Contains(t_child[p], c) => t_parent[c] = p
            /\ t_parent[c] = p /\ p # tcb_init => Contains(t_child[p], c)

\* The SSI leaves the processor only by waiting for a request when it has
\* none, whatever the timer does (scheduler.c:70-75).
SsiNotPreempted ==
    [][currentThread = tcb_SSI /\ currentThread' # tcb_SSI
          => ssi_pc = "recv" /\ t_inbox[tcb_SSI] = <<>>]_vars

-----------------------------------------------------------------------------
(* The counters of the scheduler. *)

\* The threads schedule() could count as blocked: those in the waitQueue,
\* the sleepers, and the one wakeUpPseudoClock has not yet accounted for.
Blocked ==
    Cardinality(waitQueue) + Len(waitForPseudoClockQueue)
        + (IF ssi_pc = "wakeSend" THEN 1 ELSE 0)

\* Without sleepers softBlockCount is the number of threads in the waitQueue.
SoftBlockExact == power # "faulted" => softBlockCount = Blocked

\* softBlockCount and the number of blocked threads move together, except
\* in a tick that wakes the SSI (interrupt.c:32-34 does not count it) and in
\* a WAITFORCLOCK whose sender was preempted before its RECV, or killed.
SoftBlockDrift ==
    [][\/ (softBlockCount' + Blocked) % Word = (softBlockCount + Blocked') % Word
       \/ TimerTick /\ tcb_SSI \in waitQueue
       \/ waitForClock /\ ssi_msg.sender \notin waitQueue
       \/ power' = "faulted"]_vars

\* threadCount is the number of threads alive, the SSI included, so that
\* schedule() halts the machine only when every other thread is gone.
ThreadCountExact == threadCount = Cardinality(Live)

\* No message is lost or duplicated: what is not queued is free.
Mail == UNION {{t} \X (1 .. Len(t_inbox[t])) : t \in Tcb}
Queued == Cardinality(Mail)
MessagesConserved == msgFree + Queued = MAXMESSAGES

\* Whatever happens, the pool never grows: a message is not freed twice.
PoolBound == msgFree + Queued <= MAXMESSAGES

\* A step loses messages in two ways only: the verdict of a manager allocates
\* one that it neither queues nor frees (exception.c:39, 69-75), and the TCB of a
\* dead thread that was sent some is allocated again (tcb.c:48).
MessagesKept ==
    [][\/ msgFree' + Queued' = msgFree + Queued
       \/ \E t, d \in UserTcb : Verdict(t, d)
       \/ (createSon \/ createBrother) /\ t_inbox[Head(tcbFree)] # <<>>]_vars

-----------------------------------------------------------------------------
(* The services, as a remote procedure call. *)

Count(condition) == IF condition THEN 1 ELSE 0

\* Where the request of t, or the answer to it, may be.
Outstanding(t) ==
    Cardinality({i \in 1 .. Len(t_inbox[tcb_SSI]) : t_inbox[tcb_SSI][i].sender = t})
    + Count(ssi_pc \in {"serve", "reply"} /\ ssi_msg.sender = t)
    + Count(t \in Sleeping) + Count(ssi_temp = t)
    + Cardinality({i \in 1 .. Len(t_inbox[t]) : t_inbox[t][i].m_sender = SSI_MAGIC})

\* A thread in SSIRequest has one request under way or one answer to take,
\* any other thread has none: nothing is lost, answered twice or left behind.
RequestPending ==
    \A t \in UserTcb : Outstanding(t) = Count(pc[t] = SSI_MAGIC)

\* A pseudo clock tick wakes all those asleep when it is queued, and comes
\* for those asleep when the processor has nothing else to do.
TickWakes ==
    \A t \in UserTcb :
        t \in Sleeping /\ power = "on" /\ (PendingTicks # {} \/ currentThread = NULL)
            ~> t \notin Sleeping

\* A ready thread gets the processor, unless the SSI puts it to sleep first.
ReadyRuns ==
    \A t \in UserTcb : t \in Ready ~> currentThread = t \/ t \in Sleeping

=============================================================================
