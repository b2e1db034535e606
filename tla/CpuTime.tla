------------------------------- MODULE CpuTime -------------------------------
(***************************************************************************)
(* Time: the TOD clock and the interval timer (header/uMPS_include/const.h,*)
(* const11.h), the time slices of schedule() (src/scheduler.c), the CPU    *)
(* time charged by the interrupt and trap handlers, and the pseudo clock   *)
(* (ftimer() in src/interrupt.c, waitForClock() in src/ssi.c). Handlers    *)
(* take no time; the SSI does, and is interrupted between its statements.  *)
(* Of the messages only those are kept that move threads between the       *)
(* queues. The machine asserts the interrupt of the timer from when it     *)
(* goes off until it is written to.                                        *)
(***************************************************************************)
EXTENDS Integers, FiniteSets, SequencesExt

CONSTANTS
    Users, tcb_SSI, NULL,
    SCHED_TIME_SLICE, SCHED_PSEUDO_CLOCK,
    Word,          \* the clocks are unsigned machine words
    Machines,      \* what the TOD clock may show at boot, and BUS_TIMESCALE:
                   \* how many ticks of it make a microsecond
    MaxTime        \* bound on the time modelled

Thread == Users \cup {tcb_SSI}

ASSUME CpuTimeAssumption ==
    /\ NULL \notin Thread /\ tcb_SSI \notin Users /\ IsFiniteSet(Users)
    /\ SCHED_TIME_SLICE \in Nat \ {0}
    /\ SCHED_PSEUDO_CLOCK \in Nat /\ SCHED_TIME_SLICE < SCHED_PSEUDO_CLOCK
    /\ MaxTime \in Nat /\ Word \in Nat /\ MaxTime < Word
    /\ Machines \subseteq (0 .. Word - 1) \X (Nat \ {0})

VARIABLES
    time,            \* microseconds since boot
    boot, scale,     \* the clock of this machine
    timer,           \* microseconds until the interval timer goes off
    handled,         \* it has, and its interrupt has been handled just now
    currentThread, readyQueue,
    waiting,         \* the threads that wait for a message
    sleepers,        \* those in waitForPseudoClockQueue
    inbox,           \* the senders of the messages of the SSI, NULL for a tick
    ssi_pc,          \* what the SSI does with the one it has taken
    reading,         \* when it has read the clock
    startTime, elapsedTime,  \* of the current thread: set before they are read
    uncharged,       \* how much longer than its executionTime a thread has run
    isPseudoClock, pseudoElapsed,
    began,           \* when the current thread was given the processor
    quietSince       \* when the clock was last read for pseudoElapsed

clockVars == <<time, boot, scale, handled>>
machine == <<boot, scale>>
ssiVars == <<ssi_pc, reading>>
queueVars == <<currentThread, readyQueue, waiting, sleepers, inbox>>
turnVars == <<startTime, elapsedTime, began>>
chargeVars == <<turnVars, uncharged>>
pseudoVars == <<isPseudoClock, pseudoElapsed, quietSince>>
vars == <<clockVars, timer, queueVars, ssiVars, chargeVars, pseudoVars>>

\* The TOD register s microseconds after the boot, which wraps; the time in
\* microseconds is the quotient.
TODLOW(s) == (boot + s * scale) % Word
Shown(s) == TODLOW(s) \div scale
GET_TODLOW == Shown(time)
Minus(n, m) == (n - m) % Word

Init ==
    /\ time = 0 /\ \E m \in Machines : boot = m[1] /\ scale = m[2]
    /\ timer = SCHED_TIME_SLICE /\ handled = FALSE
    /\ currentThread = tcb_SSI /\ readyQueue \in SetToSeqs(Users)
    /\ waiting = {} /\ sleepers = {} /\ inbox = <<>>
    /\ ssi_pc = "recv" /\ reading = 0
    /\ startTime = GET_TODLOW /\ elapsedTime = 0
    /\ uncharged = [t \in Thread |-> 0]
    /\ isPseudoClock = FALSE /\ pseudoElapsed = 0
    /\ began = 0 /\ quietSince = 0

-----------------------------------------------------------------------------
\* currentThread and readyQueue change hands: t gets a slice.
Dispatch(t, queue) ==
    /\ currentThread' = t /\ readyQueue' = queue
    /\ elapsedTime' = 0
    /\ startTime' = GET_TODLOW
    /\ began' = time

\* Mutant: the slice is over one tick late.
SliceOverLate(elapsed) == elapsed > SCHED_TIME_SLICE

SliceOver(elapsed) == elapsed >= SCHED_TIME_SLICE

\* schedule() without a current thread, where left is what is left of the timer
\* and of elapsedTime, and asleep the queue of the pseudo clock.
scheduleNext(queue, left, elapsed, asleep) ==
    \/ /\ queue = <<>>
       /\ timer' = IF asleep = {} THEN left ELSE SCHED_PSEUDO_CLOCK
       /\ currentThread' = NULL /\ readyQueue' = queue
       /\ elapsedTime' = elapsed /\ UNCHANGED <<startTime, began>>
    \/ /\ queue # <<>>
       /\ Dispatch(Head(queue), Tail(queue))
       /\ timer' = SCHED_TIME_SLICE

\* schedule() with cur the current thread, and clock for isPseudoClock.
schedule(cur, queue, left, elapsed, clock, asleep) ==
    \/ cur = NULL /\ scheduleNext(queue, left, elapsed, asleep)
    \/ /\ cur # NULL /\ SliceOver(elapsed)
       /\ LET run == IF cur = tcb_SSI THEN <<cur>> \o queue ELSE Append(queue, cur)
          IN Dispatch(Head(run), Tail(run))
       /\ timer' = IF clock THEN left ELSE SCHED_TIME_SLICE
    \/ /\ cur # NULL /\ ~SliceOver(elapsed)
       /\ currentThread' = cur /\ readyQueue' = queue
       /\ timer' = left
       /\ elapsedTime' = elapsed /\ UNCHANGED <<startTime, began>>

Elapsed == Minus(GET_TODLOW, startTime)

\* Mutant: what was charged at the last interrupt is charged again.
ChargeAgain(t) == uncharged' = [uncharged EXCEPT ![t] = @ - Elapsed]

\* executionTime += elapsed - elapsedTime.
Charge(t) == uncharged' = [uncharged EXCEPT ![t] = @ - Minus(Elapsed, elapsedTime)]

\* What an interrupt does to the thread it interrupts.
Interrupted == IF currentThread = NULL THEN UNCHANGED uncharged ELSE Charge(currentThread)

-----------------------------------------------------------------------------
\* No timer interrupt is due now.
Undisturbed == timer # 0 \/ handled

\* Time passes, until the interval timer has gone off.
Pass ==
    /\ time < MaxTime /\ Undisturbed
    /\ time' = time + 1
    /\ timer' = IF timer = 0 THEN 0 ELSE timer - 1
    /\ handled' = FALSE
    /\ uncharged' = [t \in Thread |-> uncharged[t] + IF t = currentThread THEN 1 ELSE 0]
    /\ UNCHANGED <<machine, queueVars, ssiVars, turnVars, pseudoVars>>

\* The current thread blocks in RECV: the handler charges nothing.
Block(t) ==
    /\ currentThread = t /\ Undisturbed
    /\ t = tcb_SSI => ssi_pc = "recv" /\ inbox = <<>>
    /\ waiting' = waiting \cup {t}
    /\ scheduleNext(readyQueue, timer, elapsedTime, sleepers)
    /\ UNCHANGED <<clockVars, sleepers, inbox, ssiVars, uncharged, pseudoVars>>

\* It raises a trap, is charged, and waits for its manager.
Trap(t) ==
    /\ t \in Users /\ currentThread = t /\ Undisturbed
    /\ waiting' = waiting \cup {t}
    /\ Charge(t)
    /\ scheduleNext(readyQueue, timer, Elapsed, sleepers)
    /\ UNCHANGED <<clockVars, sleepers, inbox, ssiVars, pseudoVars>>

\* A message from the current thread wakes t.
Wake(t) ==
    /\ currentThread \in Users /\ t \in waiting \ {tcb_SSI} /\ Undisturbed
    /\ waiting' = waiting \ {t}
    /\ readyQueue' = Append(readyQueue, t)
    /\ UNCHANGED <<clockVars, timer, currentThread, sleepers, inbox, ssiVars,
                   chargeVars, pseudoVars>>

\* SSIRequest(WAITFORCLOCK): the SEND wakes the SSI, the RECV blocks.
Woken(queue) == IF tcb_SSI \in waiting THEN Append(queue, tcb_SSI) ELSE queue
RequestClock(t) ==
    /\ t \in Users /\ currentThread = t /\ Undisturbed
    /\ inbox' = Append(inbox, t)
    /\ waiting' = (waiting \ {tcb_SSI}) \cup {t}
    /\ scheduleNext(Woken(readyQueue), timer, elapsedTime, sleepers)
    /\ UNCHANGED <<clockVars, sleepers, ssiVars, uncharged, pseudoVars>>

\* The SSI runs and no interrupt is due.
SsiRuns(pc) == currentThread = tcb_SSI /\ ssi_pc = pc /\ Undisturbed
SsiUnmoved == UNCHANGED <<clockVars, timer, currentThread, chargeVars>>

\* waitForClock(): the thread goes to the queue ...
PutToSleep ==
    /\ SsiRuns("recv") /\ inbox # <<>> /\ Head(inbox) # NULL
    /\ inbox' = Tail(inbox)
    /\ sleepers' = sleepers \cup {Head(inbox)}
    /\ waiting' = waiting \ {Head(inbox)}
    /\ ssi_pc' = "asleep"
    /\ SsiUnmoved /\ UNCHANGED <<readyQueue, reading, pseudoVars>>

\* ... the pseudo clock is started, unless it runs ...
StartClock ==
    /\ SsiRuns("asleep")
    /\ isPseudoClock' = TRUE
    /\ ssi_pc' = IF isPseudoClock THEN "recv" ELSE "started"
    /\ SsiUnmoved
    /\ UNCHANGED <<readyQueue, waiting, sleepers, inbox, reading, pseudoElapsed, quietSince>>

\* ... the clock is read ...
ReadClock ==
    /\ SsiRuns("started")
    /\ ssi_pc' = "read" /\ reading' = time
    /\ SsiUnmoved /\ UNCHANGED <<readyQueue, waiting, sleepers, inbox, pseudoVars>>

\* ... and stored.
\* Mutant: it is not.
StoreNothing ==
    /\ SsiRuns("read")
    /\ quietSince' = reading
    /\ ssi_pc' = "recv" /\ reading' = 0
    /\ SsiUnmoved
    /\ UNCHANGED <<readyQueue, waiting, sleepers, inbox, isPseudoClock, pseudoElapsed>>

StoreReading ==
    /\ SsiRuns("read")
    /\ pseudoElapsed' = Shown(reading) /\ quietSince' = reading
    /\ ssi_pc' = "recv" /\ reading' = 0
    /\ SsiUnmoved
    /\ UNCHANGED <<readyQueue, waiting, sleepers, inbox, isPseudoClock>>

waitForClock == PutToSleep \/ StartClock \/ ReadClock \/ StoreReading

\* The loop of wakeUpPseudoClock(): one sleeper after the other, until there is none.
TickTaken ==
    /\ SsiRuns("recv") /\ inbox # <<>> /\ Head(inbox) = NULL
    /\ inbox' = Tail(inbox)
    /\ ssi_pc' = "wake"
    /\ SsiUnmoved /\ UNCHANGED <<readyQueue, waiting, sleepers, reading, pseudoVars>>

WakeNext ==
    /\ SsiRuns("wake")
    /\ \/ \E t \in sleepers : /\ sleepers' = sleepers \ {t}
                             /\ readyQueue' = Append(readyQueue, t)
                             /\ UNCHANGED ssi_pc
       \/ sleepers = {} /\ ssi_pc' = "recv" /\ UNCHANGED <<sleepers, readyQueue>>
    /\ SsiUnmoved /\ UNCHANGED <<waiting, inbox, reading, pseudoVars>>

wakeUpPseudoClock == TickTaken \/ WakeNext

-----------------------------------------------------------------------------
\* ftimer() finds less than SCHED_PSEUDO_CLOCK: pseudoElapsed moves to now.
SinceClock == Minus(GET_TODLOW, pseudoElapsed)

TimerInterrupt ==
    LET over == SinceClock >= SCHED_PSEUDO_CLOCK
        ticks == over /\ sleepers # {}
        queue == IF ticks THEN Woken(readyQueue) ELSE readyQueue
    IN /\ timer = 0 /\ ~handled
       /\ handled' = TRUE
       /\ isPseudoClock' = IF over THEN FALSE ELSE isPseudoClock
       /\ pseudoElapsed' = IF over THEN 0 ELSE (pseudoElapsed + SinceClock) % Word
       /\ quietSince' = time
       /\ inbox' = IF ticks THEN Append(inbox, NULL) ELSE inbox
       /\ waiting' = IF ticks THEN waiting \ {tcb_SSI} ELSE waiting
       /\ Interrupted
       /\ schedule(currentThread, queue, timer, Elapsed, isPseudoClock', sleepers)
       /\ UNCHANGED <<time, machine, sleepers, ssiVars>>

\* The interrupt of a device wakes t, through the SSI, whose part in it takes
\* no time here. That of the timer comes first.
DeviceInterrupt(t) ==
    /\ t \in waiting \ {tcb_SSI} /\ timer # 0
    /\ waiting' = waiting \ {t}
    /\ Interrupted
    /\ schedule(currentThread, Append(readyQueue, t), timer, Elapsed, isPseudoClock,
                sleepers)
    /\ UNCHANGED <<clockVars, sleepers, inbox, ssiVars, pseudoVars>>

Stop == time = MaxTime /\ UNCHANGED vars

Next ==
    \/ Pass \/ TimerInterrupt \/ waitForClock \/ wakeUpPseudoClock \/ Stop
    \/ \E t \in Thread : Block(t) \/ Trap(t) \/ Wake(t) \/ RequestClock(t)
                            \/ DeviceInterrupt(t)

Spec == Init /\ [][Next]_vars

-----------------------------------------------------------------------------
\* The clock has not wrapped, or shows microseconds: GET_TODLOW otherwise jumps
\* back by Word \div scale, and the differences of two times are wrong.
ClockRight == scale = 1 \/ boot + time * scale < Word

\* A thread is never charged more time than it had the processor (the test
\* says "more cpu time than real time", p2test:385), whichever interrupts and
\* traps share the charge between them.
ChargeIsTimeUsed ==
    ClockRight => \A t \in Thread : uncharged[t] >= 0

\* A turn ends with its slice, also those that begin without SET_IT, because
\* isPseudoClock is set (scheduler.c:82), while the timer goes off again and
\* again.
TurnsEnd ==
    currentThread # NULL /\ ClockRight => time - began <= SCHED_TIME_SLICE

\* A sleeper waits for a tick that is under way: in the inbox of the SSI, or in
\* its loop.
TickUnserved == ssi_pc = "wake" \/ NULL \in Range(inbox)

\* The SSI has put a thread to sleep, and not yet started the pseudo clock and
\* set pseudoElapsed (ssi.c:143-146).
ClockStarting == (ssi_pc = "asleep" /\ ~isPseudoClock) \/ ssi_pc \in {"started", "read"}

\* A tick comes when no timer interrupt came for a whole SCHED_PSEUDO_CLOCK
\* (interrupt.c:120 moves pseudoElapsed each time): a processor that is never
\* idle that long delays it for ever. It comes earlier only to a timer interrupt
\* that finds pseudoElapsed at 0 (interrupt.c:116) and a thread asleep: while
\* waitForClock() is between the queue and pseudoElapsed, or while the last
\* tick is unserved. Such a tick can wake a thread that has just gone to sleep.
TickAfterQuiet ==
    [][inbox' = Append(inbox, NULL) /\ ClockRight
         => \/ time - quietSince >= SCHED_PSEUDO_CLOCK
            \/ ClockStarting \/ TickUnserved]_vars

=============================================================================
