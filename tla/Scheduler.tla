----------------------------- MODULE Scheduler -----------------------------
(***************************************************************************)
(* The state of the nucleus and its scheduler (src/scheduler.c,            *)
(* interface/scheduler.e), as main() (src/boot.c) leaves it when it enters *)
(* the first thread.                                                       *)
(*                                                                         *)
(* The machine has one processor. currentThread is the thread it runs, or  *)
(* NULL while schedule() waits for an interrupt. The exception handlers    *)
(* run with interrupts masked, so each of them is one step; the SSI is a   *)
(* thread with interrupts enabled, so each of its system calls, and each   *)
(* frame of the recursion of terminate(), is a step of its own.            *)
(***************************************************************************)
EXTENDS Msg

CONSTANTS
    Word,      \* the counters are unsigned machine words: 2^32 in the code
    Calls,     \* the calls the user threads of an instance make
    MaxTicks   \* bound on the pseudo clock messages queued at a time

ASSUME SchedulerAssumption ==
    /\ Word \in Nat /\ Word > 2 /\ Word > Cardinality(Tcb)
    /\ Calls \subseteq Services \cup {"send", "recv", "manage", "prg", "tlb", "sys"}
    /\ MaxTicks \in Nat

\* The two states of a thread that are not the source of a RECV are tags, and
\* no addresses.
ASSUME TagAssumption == {"run", "sys"} \cap (Tcb \cup {NULL, SSI_MAGIC}) = {}

VARIABLES
    currentThread, readyQueue, waitQueue, waitForPseudoClockQueue,
    threadCount, softBlockCount,
    tcbFree,     \* tcbFree_h, head first
    t_parent, t_child,
    mgr,         \* the managers of each thread: prgMgr, tlbMgr, sysMgr
    t_inbox,
    msgFree,     \* how many messages msgFree_h holds
    pc,          \* what a thread executes next, see TypeOK
    issued,      \* the TCB addresses user threads may name
    ownSib,      \* the TCBs in use whose t_sib still links to itself
    ssi_pc,      \* where the SSI is in its loop
    ssi_msg,     \* its local variable msg
    ssi_temp,    \* the sleeper wakeUpPseudoClock is waking
    killing,     \* the frames of terminate(), innermost first
    pseudoClock, \* isPseudoClock and pseudoElapsed, see TypeOK
    power        \* what became of the machine

queueVars == <<readyQueue, waitQueue, waitForPseudoClockQueue>>
countVars == <<threadCount, softBlockCount>>
treeVars  == <<tcbFree, t_parent, t_child, mgr, issued, ownSib>>
mailVars  == <<t_inbox, msgFree>>
ssiVars   == <<ssi_pc, ssi_msg, ssi_temp>>
vars == <<currentThread, queueVars, countVars, treeVars, mailVars, pc, ssiVars,
          killing, pseudoClock, power>>

Traps == {"prg", "tlb", "sys"}
NoManager == [trap \in Traps |-> NULL]

(* pc[t] = "run": t is about to make any call. pc[t] = "sys": t is about   *)
(* to repeat the system call it was stopped at. Otherwise t is about to    *)
(* execute, or execute again, MsgRecv from the source pc[t]; the source is *)
(* SSI_MAGIC between the two system calls of SSIRequest.                   *)
(*                                                                         *)
(* pseudoClock is "off" when isPseudoClock is FALSE. When it is TRUE,      *)
(* pseudoElapsed is the time of the WAITFORCLOCK that set it or of the     *)
(* last timer interrupt: "aged" if this may be SCHED_PSEUDO_CLOCK (100 ms) *)
(* ago, "fresh" if it cannot, since the processor has not armed the timer  *)
(* of a dispatched thread, or of its idle loop, in between. It is "aged"   *)
(* from the WAITFORCLOCK on, for the interrupts before waitForClock() has  *)
(* set pseudoElapsed.                                                      *)
QueueTypes ==
    /\ currentThread \in UserTcb \cup {tcb_SSI, NULL}
    /\ readyQueue \in Seq(UserTcb \cup {tcb_SSI})
    /\ waitQueue \subseteq UserTcb \cup {tcb_SSI}
    /\ waitForPseudoClockQueue \in Seq(UserTcb)
    /\ tcbFree \in Seq(UserTcb)
    /\ killing \in Seq(UserTcb)

CountTypes ==
    /\ threadCount \in 0 .. Word - 1
    /\ softBlockCount \in 0 .. Word - 1

TreeTypes ==
    /\ t_parent \in [Tcb -> UserTcb \cup {tcb_init, NULL}]
    /\ t_child \in [Tcb -> Seq(UserTcb)]
    /\ mgr \in [Tcb -> [Traps -> UserTcb \cup {NULL}]]
    /\ issued \subseteq UserTcb /\ ownSib \subseteq Tcb

MailTypes ==
    /\ t_inbox \in [Tcb -> Seq(Msg)]
    /\ t_inbox[tcb_SSI] \in Seq(Request \cup {Tick})
    /\ msgFree \in Nat

ControlTypes ==
    /\ pc \in [Tcb -> {"run", "sys", SSI_MAGIC, NULL} \cup UserTcb]
    /\ ssi_pc \in {"recv", "serve", "wake", "wakeSend", "reply"}
    /\ ssi_msg \in IF ssi_pc \in {"serve", "reply"} THEN Request ELSE {NULL}
    /\ ssi_temp \in IF ssi_pc = "wakeSend" THEN UserTcb ELSE {NULL}
    /\ pseudoClock \in {"off", "fresh", "aged"}
    /\ power \in {"on", "halted", "panicked", "faulted", "corrupt"}

TypeOK == QueueTypes /\ CountTypes /\ TreeTypes /\ MailTypes /\ ControlTypes

Init ==
    /\ currentThread = tcb_SSI
    /\ readyQueue = <<tcb_test>>
    /\ waitQueue = {}
    /\ waitForPseudoClockQueue = <<>>
    /\ threadCount = 2 /\ softBlockCount = 0
    /\ tcbFree = BootFree
    /\ t_parent = [t \in Tcb |-> NULL]
    /\ t_child = [t \in Tcb |-> <<>>]
    /\ mgr = [t \in Tcb |-> NoManager]
    /\ issued = {tcb_test}
    /\ ownSib = {tcb_init, tcb_SSI, tcb_test, tcb_lost}
    /\ t_inbox = [t \in Tcb |-> <<>>]
    /\ msgFree = MAXMESSAGES
    /\ pc = [t \in Tcb |-> "run"]
    /\ ssi_pc = "recv" /\ ssi_msg = NULL /\ ssi_temp = NULL
    /\ killing = <<>>
    /\ pseudoClock = "off"
    /\ power = "on"

-----------------------------------------------------------------------------
Inc(n) == IF n = Word - 1 THEN 0 ELSE n + 1
Dec(n) == IF n = 0 THEN Word - 1 ELSE n - 1

\* What happens to the machine when no thread is ready.
Idle ==
    IF threadCount' = 1 THEN "halted"
    ELSE IF threadCount' = 0 THEN "faulted"   \* schedule() returns to no one
    ELSE IF softBlockCount' = 0 THEN "panicked"
    ELSE "on"

\* Mutant: the slice of the SSI ends too.
PreemptsAnyone(sliced, cur) == sliced /\ cur # NULL

\* The time slice of cur is over; the SSI is never preempted.
Preempts(sliced, cur) == sliced /\ cur \notin {NULL, tcb_SSI}

(* schedule() with queue the ready threads and cur the current one.        *)
(* Without a current thread it arms the timer, for a slice or to idle.     *)
schedule(queue, cur, sliced, clock) ==
    LET run == IF Preempts(sliced, cur) THEN insertThread(queue, cur) ELSE queue
        switches == cur = NULL \/ Preempts(sliced, cur)
    IN /\ pseudoClock' = IF cur = NULL /\ clock = "fresh" THEN "aged" ELSE clock
       /\ power' = IF switches /\ run = <<>> THEN Idle ELSE power
       /\ IF switches /\ run # <<>>
          THEN readyQueue' = Tail(run) /\ currentThread' = Head(run)
          ELSE readyQueue' = queue /\ currentThread' = cur

\* The calling thread can execute: no handler or terminate() is under way.
Running(t) == power = "on" /\ killing = <<>> /\ t # NULL /\ currentThread = t

\* A user thread executes.
UserRuns(t) == t # tcb_SSI /\ Running(t)

(* Queueing a message in an inbox wakes the receiver from the waitQueue:   *)
(* what this does to the ready threads, and to the count when it is kept.  *)
(* The mutant forgets to count.                                            *)
Woken(d) == IF d \in waitQueue THEN insertThread(readyQueue, d) ELSE readyQueue
SoftForgotten(d) == softBlockCount
SoftAfterWaking(d) == IF d \in waitQueue THEN Dec(softBlockCount) ELSE softBlockCount

insertMessage(d, m) ==
    /\ t_inbox' = [t_inbox EXCEPT ![d] = Append(@, m)]
    /\ msgFree' = msgFree - 1

\* Mutant: the receiver is not woken.
DeliverAsleep(d, m) ==
    /\ insertMessage(d, m)
    /\ UNCHANGED <<waitQueue, readyQueue, softBlockCount>>

\* Mutant: some waiting thread is woken, not the receiver.
DeliverAnywhere(d, m) ==
    /\ insertMessage(d, m)
    /\ softBlockCount' = SoftAfterWaking(d)
    /\ \E w \in IF d \in waitQueue THEN waitQueue ELSE {d} :
          waitQueue' = waitQueue \ {w} /\ readyQueue' = Woken(w)

\* A SEND that finds a free message: queue it, wake the receiver, go on.
Deliver(d, m) ==
    /\ insertMessage(d, m)
    /\ waitQueue' = waitQueue \ {d}
    /\ readyQueue' = Woken(d)
    /\ softBlockCount' = SoftAfterWaking(d)

=============================================================================
