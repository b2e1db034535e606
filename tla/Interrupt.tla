----------------------------- MODULE Interrupt -----------------------------
(***************************************************************************)
(* The timer interrupt (src/interrupt.c). It reaches the processor while   *)
(* a thread runs or schedule() waits, but not while an exception handler   *)
(* runs. The current thread has used up its time slice. Time is abstracted *)
(* to what ftimer() can find of it, see pseudoClock; the other devices are *)
(* not in this module.                                                     *)
(***************************************************************************)
EXTENDS Scheduler

\* Mutant: schedule() waits without enabling them.
InterruptsMasked ==
    power = "on" /\ currentThread # NULL /\ (killing = <<>> \/ currentThread = tcb_SSI)

\* Handlers mask interrupts: terminate() can be interrupted in the SSI only.
InterruptsOn == power = "on" /\ (killing = <<>> \/ currentThread = tcb_SSI)

PendingTicks ==
    {i \in 1 .. Len(t_inbox[tcb_SSI]) :
        t_inbox[tcb_SSI][i].service = "WAKE_UP_PSEUDO_CLOCK"}

\* fakeSend(0, 0, WAKE_UP_PSEUDO_CLOCK): unlike a SEND it wakes the SSI
\* without changing softBlockCount.
fakeSend ==
    /\ insertMessage(tcb_SSI, Tick)
    /\ waitQueue' = waitQueue \ {tcb_SSI}

\* schedule() waits, with the timer set to SCHED_PSEUDO_CLOCK.
IdlesToTick == currentThread = NULL /\ waitForPseudoClockQueue # <<>>

\* ftimer() finds less than SCHED_PSEUDO_CLOCK since pseudoElapsed, which it
\* moves to now; or more, and turns the clock off, with no one to wake. It
\* finds more when the clock is off, since pseudoElapsed is 0 from a tick on.
TimerSlice ==
    /\ InterruptsOn
    /\ ~IdlesToTick
    /\ pseudoClock = "off" => waitForPseudoClockQueue = <<>>
    /\ UNCHANGED <<waitQueue, waitForPseudoClockQueue, countVars, treeVars, mailVars,
                   pc, ssiVars, killing>>
    /\ \E clock \in {"off", "fresh"} :
          /\ pseudoClock = "off" => clock = "off"
          /\ clock = "off" => pseudoClock # "fresh" /\ waitForPseudoClockQueue = <<>>
          /\ schedule(readyQueue, currentThread, currentThread # NULL, clock)

\* A timer interrupt may be a pseudo clock tick for the sleepers.
MayTick == InterruptsOn /\ waitForPseudoClockQueue # <<>> /\ pseudoClock # "fresh"

TimerTick ==
    /\ MayTick
    /\ Cardinality(PendingTicks) < MaxTicks
    /\ msgFree > 0
    /\ fakeSend
    /\ UNCHANGED <<waitForPseudoClockQueue, countVars, treeVars, pc, ssiVars, killing>>
    /\ schedule(Woken(tcb_SSI), currentThread, currentThread # NULL, "off")

\* The same without a free message: fakeSend writes through a null pointer.
TimerFault ==
    /\ MayTick
    /\ msgFree = 0
    /\ power' = "faulted"
    /\ UNCHANGED <<currentThread, queueVars, countVars, treeVars, mailVars, pc, ssiVars,
                   killing, pseudoClock>>

=============================================================================
