---------------------------- MODULE CpuTimeProofs ---------------------------
(***************************************************************************)
(* Time: what is charged, when a turn ends and when a tick comes, for any  *)
(* number of threads, any slice and any clock. The differences of two      *)
(* times that GET_TODLOW shows are right as long as the clock has not      *)
(* wrapped, or shows microseconds.                                         *)
(***************************************************************************)
EXTENDS CpuTime, SequenceTheorems, FiniteSetTheorems, TLAPS

\* Division with remainder.
LEMMA Division ==
    ASSUME NEW w \in Nat, w > 0, NEW x \in Int
    PROVE  x \div w \in Int /\ x % w \in 0 .. w - 1 /\ x = (x \div w) * w + (x % w)
<1>1. x % w \in 0 .. w - 1
  OBVIOUS
<1>2. x \div w \in Int
  OBVIOUS
<1>3. x = (x \div w) * w + (x % w)
  OBVIOUS
<1> QED
  BY <1>1, <1>2, <1>3

\* It is unique.
LEMMA Quotient ==
    ASSUME NEW w \in Nat, w > 0, NEW q \in Int, NEW r \in 0 .. w - 1
    PROVE  (q * w + r) % w = r /\ (q * w + r) \div w = q
<1>1. (q * w + r) % w = r
  OBVIOUS
<1>2. (q * w + r) \div w = q
  OBVIOUS
<1> QED
  BY <1>1, <1>2

\* What is shorter than a word is the difference of two clocks that wrap.
LEMMA WrappedDifference ==
    ASSUME NEW w \in Nat, w > 0, NEW y \in Int, NEW d \in 0 .. w - 1
    PROVE  (((y + d) % w) - (y % w)) % w = d
<1> DEFINE x == y + d
           p == x \div w
           q == y \div w
           r == x % w
           s == y % w
<1>1. /\ p \in Int /\ q \in Int /\ r \in Int /\ s \in Int
      /\ x = p * w + r /\ y = q * w + s
  BY Division
<1>2. r - s = (y + d) - y + (q - p) * w
  <2> HIDE DEF p, q, r, s
  <2> QED BY <1>1
<1> HIDE DEF p, q, r, s
<1>3. r - s = (q - p) * w + d /\ q - p \in Int
  BY <1>1, <1>2
<1>4. ((q - p) * w + d) % w = d
  BY <1>3, Quotient
<1> QED
  BY <1>3, <1>4 DEF r, s, x

-----------------------------------------------------------------------------
(* What the clock shows, and the types. *)

Clocks ==
    /\ time \in 0 .. MaxTime
    /\ boot \in 0 .. Word - 1 /\ scale \in Nat \ {0}
    /\ began \in 0 .. time /\ quietSince \in 0 .. time
    /\ startTime \in Int /\ elapsedTime \in Int /\ pseudoElapsed \in Int
    /\ timer \in Nat /\ handled \in BOOLEAN
    /\ isPseudoClock \in BOOLEAN /\ reading \in 0 .. time

SsiPc == {"recv", "asleep", "started", "read", "wake"}

Queues ==
    /\ currentThread \in Thread \cup {NULL}
    /\ readyQueue \in Seq(Thread) /\ inbox \in Seq(Users \cup {NULL})
    /\ ssi_pc \in SsiPc
    /\ waiting \subseteq Thread /\ sleepers \subseteq Users
    /\ uncharged \in [Thread -> Int]

TimeTypes == Clocks /\ Queues

\* What the clock shows is a number.
LEMMA ShownType ==
    ASSUME Clocks, NEW s \in Nat
    PROVE  Shown(s) \in Int
<1>1. boot + s * scale \in Int /\ Word \in Nat /\ Word > 0 /\ scale \in Nat /\ scale > 0
  BY CpuTimeAssumption DEF Clocks
<1>2. (boot + s * scale) % Word \in Int
  BY <1>1, Division
<1> QED
  BY <1>1, <1>2, Division DEF Shown, TODLOW

\* While the clock is right the difference of two times it shows is the time in
\* between, be it that it wraps once or shows parts of a microsecond.
LEMMA ShownDifference ==
    ASSUME Clocks, ClockRight, NEW s \in 0 .. time
    PROVE  Minus(GET_TODLOW, Shown(s)) = time - s
<1>1. /\ Word \in Nat /\ Word > 0 /\ time \in Nat /\ time < Word /\ s \in Nat /\ s <= time
      /\ boot \in Nat /\ boot < Word /\ scale \in Nat /\ scale > 0
  BY CpuTimeAssumption DEF Clocks
<1>2. time - s \in 0 .. Word - 1
  BY <1>1
<1>3. CASE scale = 1
  <2>1. \A x \in Int : x \div 1 = x
    OBVIOUS
  <2>2. boot + time * scale = (boot + s) + (time - s) /\ boot + s * scale = boot + s
    BY <1>1, <1>3
  <2>3. (boot + time * scale) % Word \in Int /\ (boot + s * scale) % Word \in Int
    <3>1. boot + time * scale \in Int /\ boot + s * scale \in Int
      BY <1>1, <1>3
    <3> QED BY <1>1, <3>1, Division
  <2>4. /\ GET_TODLOW = ((boot + s) + (time - s)) % Word
        /\ Shown(s) = (boot + s) % Word
    BY <1>3, <2>1, <2>2, <2>3 DEF GET_TODLOW, TODLOW, Shown
  <2>5. boot + s \in Int
    BY <1>1
  <2> QED BY <1>1, <1>2, <2>4, <2>5, WrappedDifference DEF Minus
<1>4. CASE boot + time * scale < Word
  <2> DEFINE q == boot \div scale
             r == boot % scale
  <2>1. q \in Int /\ r \in 0 .. scale - 1 /\ boot = q * scale + r
    BY <1>1, Division
  <2>2. /\ time * scale \in Nat /\ s * scale \in Nat /\ s * scale <= time * scale
    BY <1>1
  <2>3. boot + time * scale \in 0 .. Word - 1 /\ boot + s * scale \in 0 .. Word - 1
    BY <1>1, <1>4, <2>2
  <2>4. \A x \in 0 .. Word - 1 : x % Word = x
    BY <1>1
  <2> HIDE DEF q, r
  <2>5. /\ boot + time * scale = (q + time) * scale + r /\ q + time \in Int
        /\ boot + s * scale = (q + s) * scale + r /\ q + s \in Int
    BY <1>1, <2>1
  <2>6. /\ ((q + time) * scale + r) \div scale = q + time
        /\ ((q + s) * scale + r) \div scale = q + s
    BY <1>1, <2>1, <2>5, Quotient
  <2>7. GET_TODLOW = q + time /\ Shown(s) = q + s
    BY <2>3, <2>4, <2>5, <2>6 DEF GET_TODLOW, TODLOW, Shown
  <2>8. (q + time) - (q + s) = time - s
    BY <1>1, <2>1
  <2>9. (time - s) % Word = time - s
    BY <1>2, <2>4
  <2> QED BY <2>7, <2>8, <2>9 DEF Minus
<1> QED
  BY <1>3, <1>4 DEF ClockRight

\* What the clock shows now.
LEMMA ShownNow == GET_TODLOW = Shown(time) /\ (Clocks => GET_TODLOW \in Int)
<1>1. GET_TODLOW = Shown(time)
  BY DEF GET_TODLOW
<1>2. Clocks => time \in Nat
  BY DEF Clocks
<1> QED
  BY <1>1, <1>2, ShownType

\* A difference of machine words is one.
LEMMA MinusType ==
    ASSUME NEW x \in Int, NEW y \in Int PROVE Minus(x, y) \in Int
<1>1. x - y \in Int /\ Word \in Nat /\ Word > 0
  BY CpuTimeAssumption
<1> QED
  BY <1>1, Division DEF Minus

-----------------------------------------------------------------------------
(* The invariant. *)

\* The start of the turn is what the clock showed then.
TurnStarted == startTime = Shown(began)

\* Of its turn a thread has been charged for elapsedTime.
Charged ==
    ClockRight =>
        /\ \A t \in Thread : uncharged[t] >= 0
        /\ currentThread # NULL =>
               /\ elapsedTime \in 0 .. time - began
               /\ uncharged[currentThread] >= (time - began) - elapsedTime

\* The timer goes off before the slice is over or when it is; if it has gone off
\* and nothing happened, then because the slice was not over.
Slices ==
    ClockRight /\ currentThread # NULL =>
        /\ timer + (time - began) <= SCHED_TIME_SLICE
        /\ timer = 0 /\ handled => time - began < SCHED_TIME_SLICE

\* Threads sleep while the pseudo clock runs, or its tick is under way, or the
\* SSI has just put one to sleep. The clock that runs shows when it was last read.
Quiet ==
    /\ sleepers # {} => isPseudoClock \/ TickUnserved \/ ssi_pc = "asleep"
    /\ isPseudoClock /\ ssi_pc \notin {"started", "read"}
          => pseudoElapsed = Shown(quietSince)

TimeInv == TimeTypes /\ TurnStarted /\ Charged /\ Slices /\ Quiet

\* How long the turn has lasted.
LEMMA ElapsedRight ==
    ASSUME Clocks, TurnStarted PROVE Elapsed \in Int /\ (ClockRight => Elapsed = time - began)
<1>1. began \in 0 .. time /\ startTime \in Int
  BY DEF Clocks
<1> QED
  BY <1>1, ShownNow, MinusType, ShownDifference DEF Elapsed, TurnStarted

\* How long the pseudo clock is quiet.
LEMMA SinceRight ==
    ASSUME Clocks, Quiet
    PROVE  /\ SinceClock \in Int
           /\ ClockRight /\ isPseudoClock /\ ssi_pc \notin {"started", "read"}
                 => SinceClock = time - quietSince
<1>1. quietSince \in 0 .. time /\ pseudoElapsed \in Int
  BY DEF Clocks
<1> QED
  BY <1>1, ShownNow, MinusType, ShownDifference DEF SinceClock, Quiet

\* At boot.
LEMMA InitTimeInv == Init => TimeInv
<1> SUFFICES ASSUME Init PROVE TimeInv
  OBVIOUS
<1>0. /\ NULL \notin Thread /\ tcb_SSI \in Thread /\ Users \subseteq Thread
      /\ SCHED_TIME_SLICE \in Nat /\ SCHED_TIME_SLICE > 0 /\ MaxTime \in Nat
  BY CpuTimeAssumption DEF Thread
<1>1. boot \in 0 .. Word - 1 /\ scale \in Nat \ {0}
  BY CpuTimeAssumption DEF Init
<1>2. GET_TODLOW \in Int
  <2>1. time = 0 /\ (boot + time * scale \in Int) /\ Word \in Nat /\ Word > 0
    BY <1>1, CpuTimeAssumption DEF Init
  <2>2. TODLOW(time) \in Int /\ scale \in Nat /\ scale > 0
    BY <1>1, <2>1, Division DEF TODLOW
  <2> QED BY <2>2, Division DEF GET_TODLOW, Shown
<1>3. Clocks
  <2>1. /\ time = 0 /\ began = 0 /\ quietSince = 0 /\ elapsedTime = 0 /\ pseudoElapsed = 0
        /\ timer = SCHED_TIME_SLICE /\ startTime = GET_TODLOW /\ reading = 0
    BY DEF Init
  <2>2. handled \in BOOLEAN /\ isPseudoClock \in BOOLEAN
    BY DEF Init
  <2> QED BY <1>0, <1>1, <1>2, <2>1, <2>2 DEF Clocks
<1>4. readyQueue \in Seq(Thread)
  <2>1. Cardinality(Users) \in Nat
    BY CpuTimeAssumption, FS_CardinalityType
  <2>2. readyQueue \in [1 .. Cardinality(Users) -> Users]
    BY DEF Init, SetToSeqs
  <2>3. readyQueue \in Seq(Users)
    BY <2>1, <2>2, SeqDef
  <2> QED BY <1>0, <2>3
<1>5. Queues
  BY <1>0, <1>4 DEF Init, Queues, SsiPc
<1>6. TurnStarted /\ Quiet
  BY <1>3, ShownNow DEF Init, TurnStarted, Quiet
<1>7. Charged /\ Slices
  BY <1>0 DEF Init, Charged, Slices
<1> QED
  BY <1>3, <1>5, <1>6, <1>7 DEF TimeInv, TimeTypes

-----------------------------------------------------------------------------
(* What schedule() leaves. *)

\* A turn begins now.
TurnBegins ==
    /\ currentThread' \in Thread
    /\ elapsedTime' = 0 /\ startTime' = GET_TODLOW /\ began' = time

\* What schedule() leaves: no thread, one with a slice, one whose slice the
\* timer of the last one is to end, or the current one.
Scheduled(elapsed) ==
    \/ currentThread' = NULL /\ UNCHANGED <<startTime, began>>
    \/ TurnBegins /\ timer' = SCHED_TIME_SLICE
    \/ /\ TurnBegins /\ currentThread # NULL /\ SliceOver(elapsed)
       /\ timer' = timer
    \/ /\ currentThread # NULL /\ ~SliceOver(elapsed)
       /\ UNCHANGED <<currentThread, timer, startTime, began>>
       /\ elapsedTime' = elapsed

\* The types of what it leaves.
ScheduledTypes ==
    /\ currentThread' \in Thread \cup {NULL} /\ readyQueue' \in Seq(Thread)
    /\ timer' \in Nat /\ elapsedTime' \in Int /\ startTime' \in Int
    /\ began' \in 0 .. time

\* schedule() takes the next thread, if there is one.
LEMMA NextScheduled ==
    ASSUME Clocks, NEW queue \in Seq(Thread), NEW elapsed \in Int, NEW asleep,
           scheduleNext(queue, timer, elapsed, asleep)
    PROVE  /\ ScheduledTypes
           /\ \/ currentThread' = NULL /\ UNCHANGED <<startTime, began>>
              \/ TurnBegins /\ timer' = SCHED_TIME_SLICE
<1>0. /\ SCHED_TIME_SLICE \in Nat /\ SCHED_PSEUDO_CLOCK \in Nat /\ time \in 0 .. time
      /\ timer \in Nat /\ startTime \in Int /\ began \in 0 .. time
  BY CpuTimeAssumption DEF Clocks
<1>1. CASE queue = <<>>
  <2>1. /\ currentThread' = NULL /\ readyQueue' = queue /\ elapsedTime' = elapsed
        /\ timer' \in {timer, SCHED_PSEUDO_CLOCK} /\ UNCHANGED <<startTime, began>>
    BY <1>1 DEF scheduleNext
  <2> QED BY <1>0, <2>1 DEF ScheduledTypes
<1>2. CASE queue # <<>>
  <2>1. Head(queue) \in Thread /\ Tail(queue) \in Seq(Thread)
    BY <1>2, HeadTailProperties
  <2>2. /\ TurnBegins /\ readyQueue' = Tail(queue) /\ timer' = SCHED_TIME_SLICE
    BY <1>2, <2>1 DEF scheduleNext, Dispatch, TurnBegins
  <2> QED BY <1>0, <2>1, <2>2, ShownNow DEF ScheduledTypes, TurnBegins
<1> QED
  BY <1>1, <1>2

\* schedule() after an interrupt.
LEMMA InterruptScheduled ==
    ASSUME Clocks, currentThread \in Thread \cup {NULL}, NEW queue \in Seq(Thread),
           NEW elapsed \in Int, NEW clock, NEW asleep,
           schedule(currentThread, queue, timer, elapsed, clock, asleep)
    PROVE  ScheduledTypes /\ Scheduled(elapsed)
<1>0. /\ SCHED_TIME_SLICE \in Nat /\ time \in 0 .. time /\ NULL \notin Thread
      /\ timer \in Nat /\ startTime \in Int /\ began \in 0 .. time
  BY CpuTimeAssumption DEF Clocks
<1>1. CASE currentThread = NULL
  <2>1. scheduleNext(queue, timer, elapsed, asleep)
    BY <1>1 DEF schedule
  <2> QED BY <2>1, NextScheduled DEF Scheduled
<1>2. CASE currentThread # NULL /\ SliceOver(elapsed)
  <2> DEFINE run == IF currentThread = tcb_SSI THEN <<currentThread>> \o queue
                    ELSE Append(queue, currentThread)
  <2>1. run \in Seq(Thread) /\ run # <<>>
    <3>1. currentThread \in Thread
      BY <1>2
    <3>2. <<currentThread>> \in Seq(Thread) /\ Len(<<currentThread>>) = 1
      BY <3>1
    <3>3. /\ <<currentThread>> \o queue \in Seq(Thread)
          /\ Len(<<currentThread>> \o queue) = 1 + Len(queue) /\ Len(queue) \in Nat
      BY <3>2, ConcatProperties, LenProperties
    <3>4. Append(queue, currentThread) \in Seq(Thread)
          /\ Len(Append(queue, currentThread)) = Len(queue) + 1
      BY <3>1, AppendProperties
    <3>5. run \in Seq(Thread) /\ Len(run) # 0
      BY <3>3, <3>4
    <3> HIDE DEF run
    <3> QED BY <3>5, EmptySeq
  <2>2. Dispatch(Head(run), Tail(run)) /\ timer' \in {timer, SCHED_TIME_SLICE}
    BY <1>2 DEF schedule
  <2> HIDE DEF run
  <2>3. Head(run) \in Thread /\ Tail(run) \in Seq(Thread)
    BY <2>1, HeadTailProperties
  <2>4. TurnBegins /\ readyQueue' = Tail(run)
    BY <2>2, <2>3 DEF Dispatch, TurnBegins
  <2>5. ScheduledTypes
    BY <1>0, <2>2, <2>3, <2>4, ShownNow DEF ScheduledTypes, TurnBegins
  <2> QED BY <1>2, <2>2, <2>4, <2>5 DEF Scheduled
<1>3. CASE currentThread # NULL /\ ~SliceOver(elapsed)
  <2>1. /\ currentThread' = currentThread /\ readyQueue' = queue /\ timer' = timer
        /\ elapsedTime' = elapsed /\ UNCHANGED <<startTime, began>>
    BY <1>3 DEF schedule
  <2> QED BY <1>0, <1>3, <2>1 DEF ScheduledTypes, Scheduled
<1> QED
  BY <1>1, <1>2, <1>3

-----------------------------------------------------------------------------
(* What the steps between which time passes do to the invariant. *)

\* The start of a turn is noted.
LEMMA TurnStartedNext ==
    ASSUME TurnStarted, UNCHANGED <<time, machine>>,
           (began' = time /\ startTime' = GET_TODLOW) \/ UNCHANGED <<startTime, began>>
    PROVE  TurnStarted'
  BY ShownNow DEF TurnStarted, Shown, TODLOW, machine

\* A thread is charged for what it had of its turn, and not twice.
LEMMA ChargedNext ==
    ASSUME TimeTypes, TurnStarted, Charged, UNCHANGED <<time, machine>>,
           UNCHANGED uncharged \/ (currentThread # NULL /\ Charge(currentThread)),
           \/ currentThread' = NULL
           \/ TurnBegins
           \/ /\ Charge(currentThread)
              /\ UNCHANGED <<currentThread, began>> /\ elapsedTime' = Elapsed
           \/ UNCHANGED <<currentThread, began, elapsedTime, uncharged>>
    PROVE  Charged' /\ uncharged' \in [Thread -> Int]
<1>0. /\ currentThread \in Thread \cup {NULL} /\ uncharged \in [Thread -> Int]
      /\ Elapsed \in Int /\ elapsedTime \in Int /\ time \in Nat /\ began \in 0 .. time
      /\ time < Word /\ Word \in Nat /\ NULL \notin Thread
  BY ElapsedRight, CpuTimeAssumption DEF TimeTypes, Clocks, Queues
<1>1. uncharged' \in [Thread -> Int]
  BY <1>0, MinusType DEF Charge
<1> SUFFICES ASSUME ClockRight
             PROVE  /\ \A t \in Thread : uncharged'[t] >= 0
                    /\ currentThread' # NULL =>
                          /\ elapsedTime' \in 0 .. time - began'
                          /\ uncharged'[currentThread'] >= (time - began') - elapsedTime'
  BY <1>1 DEF Charged, ClockRight, machine
<1>2. Elapsed = time - began /\ \A t \in Thread : uncharged[t] >= 0
  BY ElapsedRight DEF TimeTypes, Charged
<1>3. ASSUME currentThread # NULL
      PROVE /\ elapsedTime \in 0 .. time - began
            /\ uncharged[currentThread] >= (time - began) - elapsedTime
            /\ Minus(Elapsed, elapsedTime) = (time - began) - elapsedTime
  <2>1. /\ elapsedTime \in 0 .. time - began
        /\ uncharged[currentThread] >= (time - began) - elapsedTime
    BY <1>3 DEF Charged
  <2>2. (time - began) - elapsedTime \in 0 .. Word - 1
    BY <1>0, <2>1
  <2>3. \A x \in 0 .. Word - 1 : x % Word = x
    BY <1>0
  <2> QED BY <1>2, <2>1, <2>2, <2>3 DEF Minus
<1>4. \A t \in Thread : uncharged'[t] >= 0
  <2>1. CASE UNCHANGED uncharged
    BY <1>2, <2>1
  <2>2. CASE currentThread # NULL /\ Charge(currentThread)
    <3>1. uncharged' = [uncharged EXCEPT ![currentThread] =
                            @ - ((time - began) - elapsedTime)]
      BY <1>3, <2>2 DEF Charge
    <3> QED BY <1>0, <1>2, <1>3, <2>2, <3>1
  <2> QED BY <2>1, <2>2
<1>5. CASE currentThread' = NULL
  BY <1>4, <1>5
<1>6. CASE TurnBegins
  BY <1>0, <1>4, <1>6 DEF TurnBegins
<1>7. CASE /\ Charge(currentThread)
           /\ UNCHANGED <<currentThread, began>> /\ elapsedTime' = Elapsed
  <2>1. elapsedTime' = time - began /\ time - began \in 0 .. time - began
    BY <1>0, <1>2, <1>7
  <2> QED BY <1>0, <1>4, <1>7, <2>1
<1>8. CASE UNCHANGED <<currentThread, began, elapsedTime, uncharged>>
  BY <1>3, <1>4, <1>8
<1> QED
  BY <1>5, <1>6, <1>7, <1>8

\* The timer is set for the slice, or shorter, or the slice is not over.
LEMMA SlicesNext ==
    ASSUME TimeTypes, TurnStarted, Slices, UNCHANGED <<time, machine>>,
           \/ currentThread' = NULL
           \/ TurnBegins /\ timer' = SCHED_TIME_SLICE
           \/ TurnBegins /\ currentThread # NULL /\ timer' = timer
           \/ UNCHANGED <<currentThread, began, timer>> /\ ~SliceOver(Elapsed)
           \/ UNCHANGED <<currentThread, began, timer, handled>>
    PROVE  Slices'
<1>0. /\ time \in Nat /\ began \in 0 .. time /\ timer \in Nat
      /\ SCHED_TIME_SLICE \in Nat /\ SCHED_TIME_SLICE > 0
  BY CpuTimeAssumption DEF TimeTypes, Clocks
<1> SUFFICES ASSUME ClockRight, currentThread' # NULL
             PROVE  /\ timer' + (time - began') <= SCHED_TIME_SLICE
                    /\ timer' = 0 /\ handled' => time - began' < SCHED_TIME_SLICE
  BY DEF Slices, ClockRight, machine
<1>1. Elapsed = time - began
  BY ElapsedRight DEF TimeTypes
<1>2. currentThread # NULL => /\ timer + (time - began) <= SCHED_TIME_SLICE
                              /\ timer = 0 /\ handled => time - began < SCHED_TIME_SLICE
  BY DEF Slices
<1>3. CASE TurnBegins /\ timer' = SCHED_TIME_SLICE
  BY <1>0, <1>3 DEF TurnBegins
<1>4. CASE TurnBegins /\ currentThread # NULL /\ timer' = timer
  BY <1>0, <1>2, <1>4 DEF TurnBegins
<1>5. CASE UNCHANGED <<currentThread, began, timer>> /\ ~SliceOver(Elapsed)
  BY <1>0, <1>1, <1>2, <1>5 DEF SliceOver
<1>6. CASE UNCHANGED <<currentThread, began, timer, handled>>
  BY <1>2, <1>6
<1> QED
  BY <1>3, <1>4, <1>5, <1>6

-----------------------------------------------------------------------------
(* The steps. *)

\* A step that takes the thread off the processor, after its charge or without
\* one, or leaves it there.
LEMMA SameClock ==
    ASSUME TimeInv, UNCHANGED clockVars,
           UNCHANGED uncharged \/ (currentThread # NULL /\ Charge(currentThread)),
           \/ /\ ScheduledTypes
              /\ \/ currentThread' = NULL /\ UNCHANGED <<startTime, began>>
                 \/ TurnBegins /\ timer' = SCHED_TIME_SLICE
           \/ /\ UNCHANGED <<currentThread, timer, turnVars, uncharged>>
              /\ readyQueue' \in Seq(Thread),
           inbox' \in Seq(Users \cup {NULL}), waiting' \subseteq Thread,
           sleepers' \subseteq Users, ssi_pc' \in SsiPc, reading' \in 0 .. time,
           isPseudoClock' \in BOOLEAN, pseudoElapsed' \in Int, quietSince' \in 0 .. time,
           Quiet'
    PROVE  TimeInv'
<1> USE DEF TimeInv, TimeTypes
<1>0. /\ UNCHANGED <<time, machine, handled>> /\ time \in 0 .. time
  BY DEF clockVars, machine, Clocks
<1>1. ScheduledTypes
  <2>1. CASE UNCHANGED <<currentThread, timer, turnVars, uncharged>> /\ readyQueue' \in Seq(Thread)
    BY <2>1 DEF ScheduledTypes, Clocks, Queues, turnVars
  <2> QED BY <2>1
<1>2. Charged' /\ uncharged' \in [Thread -> Int]
  BY <1>0, ChargedNext DEF turnVars
<1>3. TurnStarted'
  BY <1>0, TurnStartedNext DEF TurnBegins, turnVars
<1>4. Slices'
  BY <1>0, SlicesNext DEF turnVars
<1>6. Clocks'
  BY <1>0, <1>1 DEF ScheduledTypes, Clocks, machine
<1>7. Queues'
  BY <1>1, <1>2 DEF ScheduledTypes, Queues
<1> QED
  BY <1>2, <1>3, <1>4, <1>6, <1>7

\* What is in the inbox stays in it when a message comes, and the message is in it.
LEMMA InboxAppend ==
    ASSUME inbox \in Seq(Users \cup {NULL}), NEW x \in Users \cup {NULL}
    PROVE  /\ Append(inbox, x) \in Seq(Users \cup {NULL})
           /\ x \in Range(Append(inbox, x))
           /\ NULL \in Range(inbox) => NULL \in Range(Append(inbox, x))
<1>1. Len(inbox) \in Nat /\ DOMAIN inbox = 1 .. Len(inbox)
  BY LenProperties
<1>2. /\ Append(inbox, x) \in Seq(Users \cup {NULL})
      /\ DOMAIN Append(inbox, x) = 1 .. Len(inbox) + 1
      /\ Append(inbox, x)[Len(inbox) + 1] = x
      /\ \A i \in 1 .. Len(inbox) : Append(inbox, x)[i] = inbox[i]
  BY AppendProperties
<1>3. x \in Range(Append(inbox, x))
  BY <1>1, <1>2 DEF Range
<1>4. ASSUME NULL \in Range(inbox) PROVE NULL \in Range(Append(inbox, x))
  <2>1. PICK i \in DOMAIN inbox : inbox[i] = NULL
    BY <1>4 DEF Range
  <2>2. i \in DOMAIN Append(inbox, x) /\ Append(inbox, x)[i] = NULL
    BY <1>1, <1>2, <2>1
  <2> QED BY <2>2 DEF Range
<1> QED
  BY <1>2, <1>3, <1>4

\* The pseudo clock and the SSI are left alone, but for a message to the SSI.
LEMMA QuietKept ==
    ASSUME TimeInv, UNCHANGED <<machine, pseudoVars, ssiVars, sleepers>>,
           UNCHANGED inbox \/ \E x \in Users \cup {NULL} : inbox' = Append(inbox, x)
    PROVE  Quiet'
<1>1. UNCHANGED <<boot, scale, isPseudoClock, pseudoElapsed, quietSince, ssi_pc, sleepers>>
  BY DEF machine, pseudoVars, ssiVars
<1>2. TickUnserved => TickUnserved'
  BY <1>1, InboxAppend DEF TickUnserved, TimeInv, TimeTypes, Queues
<1>3. \A s : Shown(s)' = Shown(s)
  BY <1>1 DEF Shown, TODLOW
<1> QED
  BY <1>1, <1>2, <1>3 DEF Quiet, TimeInv, Shown, TODLOW

\* What an interrupt does to the thread and its charge.
LEMMA InterruptTurn ==
    ASSUME TimeInv, UNCHANGED <<time, machine>>, Interrupted, NEW queue \in Seq(Thread),
           NEW clock, NEW asleep,
           schedule(currentThread, queue, timer, Elapsed, clock, asleep)
    PROVE  /\ ScheduledTypes /\ Charged' /\ TurnStarted' /\ Slices'
           /\ uncharged' \in [Thread -> Int]
<1> USE DEF TimeInv, TimeTypes
<1>1. ScheduledTypes /\ Scheduled(Elapsed)
  BY ElapsedRight, InterruptScheduled DEF Queues
<1>2. UNCHANGED uncharged \/ (currentThread # NULL /\ Charge(currentThread))
  BY DEF Interrupted
<1>3. currentThread # NULL => Charge(currentThread)
  BY DEF Interrupted
<1>4. Charged' /\ uncharged' \in [Thread -> Int]
  BY <1>1, <1>2, <1>3, ChargedNext DEF Scheduled
<1>5. TurnStarted'
  BY <1>1, TurnStartedNext DEF Scheduled, TurnBegins
<1>6. Slices'
  BY <1>1, SlicesNext DEF Scheduled
<1> QED
  BY <1>1, <1>4, <1>5, <1>6

\* The sequence of what is appended.
LEMMA WokenType ==
    ASSUME Queues, NEW queue \in Seq(Thread) PROVE Woken(queue) \in Seq(Thread)
  BY AppendProperties DEF Woken, Thread

\* Time passes.
LEMMA PassTime ==
    ASSUME TimeInv, Pass PROVE TimeInv'
<1> USE DEF TimeInv, TimeTypes
<1>0. /\ time \in Nat /\ time < MaxTime /\ time' = time + 1 /\ MaxTime \in Nat
      /\ began \in 0 .. time /\ quietSince \in 0 .. time /\ reading \in 0 .. time
      /\ timer \in Nat /\ timer' = IF timer = 0 THEN 0 ELSE timer - 1
      /\ timer # 0 \/ handled
      /\ handled' = FALSE /\ UNCHANGED <<machine, queueVars, ssiVars, turnVars, pseudoVars>>
  BY CpuTimeAssumption DEF Pass, Undisturbed, Clocks
<1>1. Clocks'
  <2>1. /\ time' \in 0 .. MaxTime /\ began \in 0 .. time' /\ quietSince \in 0 .. time'
        /\ timer' \in Nat /\ reading \in 0 .. time'
    BY <1>0
  <2>2. handled' \in BOOLEAN
    BY <1>0
  <2> QED BY <1>0, <2>1, <2>2 DEF Clocks, machine, turnVars, ssiVars, pseudoVars, queueVars
<1>2. /\ uncharged' = [t \in Thread |-> uncharged[t] + IF t = currentThread THEN 1 ELSE 0]
      /\ uncharged \in [Thread -> Int]
  BY DEF Pass, Queues
<1>3. Queues'
  BY <1>0, <1>2 DEF Queues, queueVars, ssiVars
<1>4. ClockRight' => ClockRight
  <2>1. boot \in Nat /\ scale \in Nat /\ Word \in Nat
    BY CpuTimeAssumption DEF Clocks
  <2>2. time * scale \in Nat /\ (time + 1) * scale = time * scale + scale
    BY <1>0, <2>1
  <2> QED BY <1>0, <2>1, <2>2 DEF ClockRight, machine
<1>5. TurnStarted' /\ Quiet'
  <2>1. Quiet'
    BY <1>0, QuietKept DEF queueVars
  <2> QED BY <1>0, <2>1 DEF TurnStarted, Shown, TODLOW, machine, turnVars
<1>6. Charged'
  <2> SUFFICES ASSUME ClockRight
               PROVE  /\ \A t \in Thread : uncharged'[t] >= 0
                      /\ currentThread # NULL =>
                            /\ elapsedTime \in 0 .. (time + 1) - began
                            /\ uncharged'[currentThread] >= ((time + 1) - began) - elapsedTime
    BY <1>0, <1>4 DEF Charged, turnVars, queueVars
  <2>1. \A t \in Thread : uncharged[t] >= 0 /\ uncharged[t] \in Int
    BY <1>2 DEF Charged
  <2>2. \A t \in Thread : uncharged'[t] = uncharged[t] + IF t = currentThread THEN 1 ELSE 0
    BY <1>2
  <2>3. ASSUME currentThread # NULL
        PROVE /\ elapsedTime \in 0 .. (time + 1) - began
              /\ uncharged'[currentThread] >= ((time + 1) - began) - elapsedTime
    <3>1. /\ elapsedTime \in 0 .. time - began /\ currentThread \in Thread
          /\ uncharged[currentThread] >= (time - began) - elapsedTime
      BY <2>3 DEF Charged, Queues
    <3>2. uncharged'[currentThread] = uncharged[currentThread] + 1
      BY <2>2, <3>1
    <3> QED BY <1>0, <2>1, <3>1, <3>2
  <2>4. \A t \in Thread : uncharged'[t] >= 0
    BY <2>1, <2>2
  <2> QED BY <2>3, <2>4
<1>7. Slices'
  <2> SUFFICES ASSUME ClockRight, currentThread # NULL
               PROVE  timer' + ((time + 1) - began) <= SCHED_TIME_SLICE
    BY <1>0, <1>4 DEF Slices, turnVars, queueVars
  <2>1. /\ timer + (time - began) <= SCHED_TIME_SLICE /\ SCHED_TIME_SLICE \in Nat
        /\ timer = 0 => time - began < SCHED_TIME_SLICE
    BY <1>0, CpuTimeAssumption DEF Slices
  <2> QED BY <1>0, <2>1
<1> QED
  BY <1>1, <1>3, <1>5, <1>6, <1>7

\* The timer interrupt.
LEMMA TimerTime ==
    ASSUME TimeInv, TimerInterrupt PROVE TimeInv'
<1> USE DEF TimeInv, TimeTypes
<1> DEFINE over == SinceClock >= SCHED_PSEUDO_CLOCK
           ticks == over /\ sleepers # {}
           queue == IF ticks THEN Woken(readyQueue) ELSE readyQueue
<1>1. /\ UNCHANGED <<time, machine, sleepers, ssiVars>> /\ handled' = TRUE /\ Interrupted
      /\ isPseudoClock' = IF over THEN FALSE ELSE isPseudoClock
      /\ pseudoElapsed' = IF over THEN 0 ELSE (pseudoElapsed + SinceClock) % Word
      /\ quietSince' = time /\ inbox' = IF ticks THEN Append(inbox, NULL) ELSE inbox
      /\ waiting' = IF ticks THEN waiting \ {tcb_SSI} ELSE waiting
      /\ schedule(currentThread, queue, timer, Elapsed, isPseudoClock', sleepers)
  BY DEF TimerInterrupt
<1>2. queue \in Seq(Thread)
  BY WokenType DEF Queues
<1> HIDE DEF queue
<1>3. ScheduledTypes /\ Charged' /\ TurnStarted' /\ Slices' /\ uncharged' \in [Thread -> Int]
  BY <1>1, <1>2, InterruptTurn
<1>4. Queues'
  <2>1. inbox' \in Seq(Users \cup {NULL})
    BY <1>1, InboxAppend DEF Queues
  <2> QED BY <1>1, <1>3, <2>1 DEF Queues, ScheduledTypes, ssiVars
<1>5. time \in 0 .. time /\ pseudoElapsed \in Int /\ SinceClock \in Int
      /\ Word \in Nat /\ Word > 0
  BY SinceRight, CpuTimeAssumption DEF Clocks
<1>6. pseudoElapsed' \in Int
  <2>1. pseudoElapsed + SinceClock \in Int
    BY <1>5
  <2> QED BY <1>1, <1>5, <2>1, Division
<1>7. /\ isPseudoClock' \in BOOLEAN /\ handled' \in BOOLEAN
  BY <1>1 DEF Clocks
<1>8. Clocks'
  BY <1>1, <1>3, <1>5, <1>6, <1>7 DEF Clocks, ScheduledTypes, machine, ssiVars
\* pseudoElapsed is moved to now.
<1>9. ASSUME ~over PROVE pseudoElapsed' = Shown(time)
  <2>1. GET_TODLOW \in Int /\ GET_TODLOW = Shown(time)
    BY ShownNow
  <2>2. GET_TODLOW \in 0 .. Word - 1
    <3>1. boot + time * scale \in Int /\ scale \in Nat /\ scale > 0
      BY DEF Clocks
    <3>2. TODLOW(time) \in 0 .. Word - 1
      BY <1>5, <3>1, Division DEF TODLOW
    <3>3. /\ GET_TODLOW \in Int /\ TODLOW(time) % scale \in 0 .. scale - 1
          /\ TODLOW(time) = GET_TODLOW * scale + (TODLOW(time) % scale)
      <4>1. TODLOW(time) \in Int
        BY <3>2
      <4> QED BY <3>1, <4>1, Division DEF GET_TODLOW, Shown
    <3> DEFINE g == GET_TODLOW
               w == TODLOW(time)
               r == TODLOW(time) % scale
    <3> HIDE DEF g, w, r
    <3>4. g \in Int /\ r \in 0 .. scale - 1 /\ w = g * scale + r /\ w \in 0 .. Word - 1
      BY <3>2, <3>3 DEF g, w, r
    <3>5. g >= 0
      <4>1. g < 0 => g * scale <= 0 - scale
        BY <3>1, <3>4
      <4> QED BY <3>1, <3>4, <4>1
    <3>6. g <= g * scale
      BY <3>1, <3>4, <3>5
    <3>7. g \in 0 .. Word - 1
      BY <1>5, <3>1, <3>4, <3>5, <3>6
    <3> QED BY <3>7 DEF g
  <2>3. \A x \in 0 .. Word - 1, y \in Int : (y + ((x - y) % Word)) % Word = x
    <3> SUFFICES ASSUME NEW x \in 0 .. Word - 1, NEW y \in Int
                 PROVE  (y + ((x - y) % Word)) % Word = x
      OBVIOUS
    <3> DEFINE q == (x - y) \div Word
               r == (x - y) % Word
    <3>1. x - y \in Int /\ x \in Int
      BY <1>5
    <3>2. q \in Int /\ r \in Int /\ x - y = q * Word + r
      BY <1>5, <3>1, Division
    <3> HIDE DEF q, r
    <3>3. y + r = (0 - q) * Word + x /\ 0 - q \in Int
      BY <1>5, <3>1, <3>2
    <3>4. ((0 - q) * Word + x) % Word = x
      BY <1>5, <3>3, Quotient
    <3> QED BY <3>3, <3>4 DEF r
  <2>4. SinceClock = (GET_TODLOW - pseudoElapsed) % Word
    BY DEF SinceClock, Minus
  <2> QED BY <1>1, <1>5, <1>9, <2>1, <2>2, <2>3, <2>4
<1>10. Quiet'
  <2>1. UNCHANGED <<ssi_pc, sleepers>> /\ \A s : Shown(s)' = Shown(s)
    BY <1>1 DEF Shown, TODLOW, machine, ssiVars
  <2>2. CASE over
    <3>1. ticks => TickUnserved'
      BY <1>1, InboxAppend DEF TickUnserved, Queues
    <3> QED BY <1>1, <2>1, <2>2, <3>1 DEF Quiet
  <2>3. CASE ~over
    <3>1. isPseudoClock' = isPseudoClock /\ inbox' = inbox
      BY <1>1, <2>3
    <3>2. pseudoElapsed' = Shown(quietSince)'
      BY <1>1, <1>9, <2>1, <2>3 DEF Shown, TODLOW, machine
    <3> QED BY <2>1, <3>1, <3>2 DEF Quiet, TickUnserved
  <2> QED BY <2>2, <2>3
<1> QED
  BY <1>3, <1>4, <1>8, <1>10

\* The parts of waitForClock().
LEMMA ClockServed ==
    ASSUME TimeInv, waitForClock PROVE TimeInv'
<1> USE DEF TimeInv, TimeTypes
<1>0. /\ readyQueue \in Seq(Thread) /\ inbox \in Seq(Users \cup {NULL})
      /\ waiting \subseteq Thread /\ sleepers \subseteq Users /\ time \in Nat
      /\ reading \in 0 .. time /\ quietSince \in 0 .. time
      /\ isPseudoClock \in BOOLEAN /\ pseudoElapsed \in Int
  BY DEF Clocks, Queues
<1>1. UNCHANGED <<clockVars, timer, currentThread, turnVars, uncharged, readyQueue>>
  BY DEF waitForClock, PutToSleep, StartClock, ReadClock, StoreReading, SsiUnmoved, chargeVars
<1>2. \A s : Shown(s)' = Shown(s)
  BY <1>1 DEF Shown, TODLOW, clockVars
<1>3. CASE PutToSleep
  <2>1. /\ inbox # <<>> /\ Head(inbox) # NULL /\ inbox' = Tail(inbox) /\ ssi_pc = "recv"
        /\ sleepers' = sleepers \cup {Head(inbox)} /\ waiting' = waiting \ {Head(inbox)}
        /\ ssi_pc' = "asleep" /\ reading' = reading
        /\ UNCHANGED <<isPseudoClock, pseudoElapsed, quietSince>>
    BY <1>3 DEF PutToSleep, SsiRuns, pseudoVars
  <2>2. Head(inbox) \in Users /\ inbox' \in Seq(Users \cup {NULL})
    BY <1>0, <2>1, HeadTailProperties
  <2>3. Quiet'
    BY <1>1, <1>2, <2>1 DEF Quiet, Shown, TODLOW, clockVars
  <2> QED BY <1>0, <1>1, <2>1, <2>2, <2>3, SameClock DEF SsiPc
<1>4. CASE StartClock
  <2>1. /\ ssi_pc = "asleep" /\ isPseudoClock' = TRUE
        /\ ssi_pc' = IF isPseudoClock THEN "recv" ELSE "started"
        /\ UNCHANGED <<waiting, sleepers, inbox, reading, pseudoElapsed, quietSince>>
    BY <1>4 DEF StartClock, SsiRuns
  <2>2. Quiet'
    BY <1>1, <1>2, <2>1 DEF Quiet, Shown, TODLOW, clockVars
  <2> QED BY <1>0, <1>1, <2>1, <2>2, SameClock DEF SsiPc
<1>5. CASE ReadClock
  <2>1. /\ ssi_pc = "started" /\ ssi_pc' = "read" /\ reading' = time
        /\ UNCHANGED <<waiting, sleepers, inbox, isPseudoClock, pseudoElapsed, quietSince>>
    BY <1>5 DEF ReadClock, SsiRuns, pseudoVars
  <2>2. Quiet'
    BY <2>1 DEF Quiet, TickUnserved
  <2> QED BY <1>0, <1>1, <2>1, <2>2, SameClock DEF SsiPc
<1>6. CASE StoreReading
  <2>1. /\ ssi_pc = "read" /\ ssi_pc' = "recv" /\ reading' = 0
        /\ pseudoElapsed' = Shown(reading) /\ quietSince' = reading
        /\ UNCHANGED <<waiting, sleepers, inbox, isPseudoClock>>
    BY <1>6 DEF StoreReading, SsiRuns
  <2>2. Shown(reading) \in Int
    BY <1>0, ShownType
  <2>3. Quiet'
    BY <1>1, <1>2, <2>1 DEF Quiet, TickUnserved, Shown, TODLOW, clockVars
  <2> QED BY <1>0, <1>1, <2>1, <2>2, <2>3, SameClock DEF SsiPc
<1> QED
  BY <1>3, <1>4, <1>5, <1>6 DEF waitForClock

\* The loop of wakeUpPseudoClock().
LEMMA TickServed ==
    ASSUME TimeInv, wakeUpPseudoClock PROVE TimeInv'
<1> USE DEF TimeInv, TimeTypes
<1>0. /\ readyQueue \in Seq(Thread) /\ inbox \in Seq(Users \cup {NULL})
      /\ waiting \subseteq Thread /\ sleepers \subseteq Users /\ Users \subseteq Thread
      /\ reading \in 0 .. time /\ quietSince \in 0 .. time
      /\ isPseudoClock \in BOOLEAN /\ pseudoElapsed \in Int
  BY DEF Clocks, Queues, Thread
<1>1. /\ UNCHANGED <<clockVars, timer, currentThread, turnVars, uncharged>>
      /\ UNCHANGED <<waiting, reading, isPseudoClock, pseudoElapsed, quietSince>>
  BY DEF wakeUpPseudoClock, TickTaken, WakeNext, SsiUnmoved, chargeVars, pseudoVars
<1>2. \A s : Shown(s)' = Shown(s)
  BY <1>1 DEF Shown, TODLOW, clockVars
<1>3. CASE TickTaken
  <2>1. /\ inbox # <<>> /\ inbox' = Tail(inbox) /\ ssi_pc = "recv" /\ ssi_pc' = "wake"
        /\ UNCHANGED <<sleepers, readyQueue>>
    BY <1>3 DEF TickTaken, SsiRuns
  <2>2. inbox' \in Seq(Users \cup {NULL})
    BY <1>0, <2>1, HeadTailProperties
  <2>3. Quiet'
    BY <1>1, <1>2, <2>1 DEF Quiet, TickUnserved, Shown, TODLOW, clockVars
  <2> QED BY <1>0, <1>1, <2>1, <2>2, <2>3, SameClock DEF SsiPc
<1>4. CASE WakeNext
  <2>1. ssi_pc = "wake" /\ UNCHANGED inbox
    BY <1>4 DEF WakeNext, SsiRuns
  <2>2. CASE \E t \in sleepers : /\ sleepers' = sleepers \ {t}
                                /\ readyQueue' = Append(readyQueue, t)
                                /\ UNCHANGED ssi_pc
    <3>1. sleepers' \subseteq Users /\ readyQueue' \in Seq(Thread) /\ ssi_pc' = "wake"
      BY <1>0, <2>1, <2>2, AppendProperties
    <3>2. Quiet'
      BY <1>1, <1>2, <2>1, <3>1 DEF Quiet, TickUnserved, Shown, TODLOW, clockVars
    <3> QED BY <1>0, <1>1, <2>1, <3>1, <3>2, SameClock DEF SsiPc
  <2>3. CASE sleepers = {} /\ ssi_pc' = "recv" /\ UNCHANGED <<sleepers, readyQueue>>
    <3>1. Quiet'
      BY <1>1, <1>2, <2>1, <2>3 DEF Quiet, Shown, TODLOW, clockVars
    <3> QED BY <1>0, <1>1, <2>1, <2>3, <3>1, SameClock DEF SsiPc
  <2> QED BY <1>4, <2>2, <2>3 DEF WakeNext
<1> QED
  BY <1>3, <1>4 DEF wakeUpPseudoClock

\* Every step keeps the invariant.
LEMMA NextTimeInv == TimeInv /\ [Next]_vars => TimeInv'
<1> SUFFICES ASSUME TimeInv, [Next]_vars PROVE TimeInv'
  OBVIOUS
<1> USE DEF TimeInv, TimeTypes
<1>0. /\ NULL \notin Thread /\ tcb_SSI \in Thread /\ Users \subseteq Thread
      /\ readyQueue \in Seq(Thread) /\ inbox \in Seq(Users \cup {NULL})
      /\ ssi_pc \in SsiPc /\ time \in Nat
      /\ reading \in 0 .. time /\ quietSince \in 0 .. time
      /\ isPseudoClock \in BOOLEAN /\ pseudoElapsed \in Int
      /\ waiting \subseteq Thread /\ sleepers \subseteq Users
      /\ elapsedTime \in Int /\ Elapsed \in Int
  BY ElapsedRight, CpuTimeAssumption DEF Thread, Clocks, Queues
<1>1. CASE Pass
  BY <1>1, PassTime
<1>2. CASE TimerInterrupt
  BY <1>2, TimerTime
<1>3. ASSUME NEW t \in Thread, Block(t) PROVE TimeInv'
  <2>1. UNCHANGED <<clockVars, sleepers, inbox, ssiVars, pseudoVars, uncharged>>
    BY <1>3 DEF Block
  <2>2. Quiet'
    BY <2>1, QuietKept DEF clockVars, machine
  <2> QED BY <1>0, <1>3, <2>1, <2>2, NextScheduled, SameClock DEF Block, ssiVars, pseudoVars
<1>4. ASSUME NEW t \in Thread, Trap(t) PROVE TimeInv'
  <2>1. currentThread # NULL /\ Charge(currentThread)
    BY <1>0, <1>4 DEF Trap
  <2>2. UNCHANGED <<clockVars, sleepers, inbox, ssiVars, pseudoVars>>
    BY <1>4 DEF Trap
  <2>3. Quiet'
    BY <2>2, QuietKept DEF clockVars, machine
  <2> QED BY <1>0, <1>4, <2>1, <2>2, <2>3, NextScheduled, SameClock DEF Trap, ssiVars, pseudoVars
<1>5. ASSUME NEW t \in Thread, Wake(t) PROVE TimeInv'
  <2>1. readyQueue' \in Seq(Thread)
    BY <1>0, <1>5, AppendProperties DEF Wake
  <2>2. UNCHANGED <<clockVars, sleepers, inbox, ssiVars, pseudoVars>>
    BY <1>5 DEF Wake
  <2>3. Quiet'
    BY <2>2, QuietKept DEF clockVars, machine
  <2> QED BY <1>0, <1>5, <2>1, <2>2, <2>3, SameClock DEF Wake, chargeVars, ssiVars, pseudoVars
<1>6. ASSUME NEW t \in Thread, RequestClock(t) PROVE TimeInv'
  <2>1. /\ Woken(readyQueue) \in Seq(Thread) /\ inbox' = Append(inbox, t) /\ t \in Users
        /\ inbox' \in Seq(Users \cup {NULL})
    BY <1>0, <1>6, WokenType, InboxAppend DEF RequestClock
  <2>2. UNCHANGED <<clockVars, sleepers, ssiVars, pseudoVars>>
    BY <1>6 DEF RequestClock
  <2>3. Quiet'
    BY <2>1, <2>2, QuietKept DEF clockVars, machine
  <2> QED BY <1>0, <1>6, <2>1, <2>2, <2>3, NextScheduled, SameClock
             DEF RequestClock, ssiVars, pseudoVars
<1>7. CASE waitForClock
  BY <1>7, ClockServed
<1>8. CASE wakeUpPseudoClock
  BY <1>8, TickServed
<1>9. ASSUME NEW t \in Thread, DeviceInterrupt(t) PROVE TimeInv'
  <2>1. /\ UNCHANGED <<clockVars, sleepers, inbox, ssiVars, pseudoVars>>
        /\ waiting' \subseteq Thread /\ Interrupted
        /\ schedule(currentThread, Append(readyQueue, t), timer, Elapsed, isPseudoClock,
                    sleepers)
    BY <1>0, <1>9 DEF DeviceInterrupt
  <2>2. Append(readyQueue, t) \in Seq(Thread)
    BY <1>0, AppendProperties
  <2>3. ScheduledTypes /\ Charged' /\ TurnStarted' /\ Slices' /\ uncharged' \in [Thread -> Int]
    BY <2>1, <2>2, InterruptTurn DEF clockVars, machine
  <2>4. Quiet' /\ Queues'
    <3>1. Quiet'
      BY <2>1, QuietKept DEF clockVars, machine
    <3> QED BY <2>1, <2>3, <3>1 DEF Queues, ScheduledTypes, ssiVars
  <2>5. Clocks'
    BY <2>1, <2>3 DEF Clocks, ScheduledTypes, clockVars, pseudoVars, ssiVars
  <2> QED BY <2>3, <2>4, <2>5
<1>10. CASE UNCHANGED vars
  BY <1>10 DEF vars, clockVars, queueVars, ssiVars, chargeVars, turnVars, pseudoVars, Clocks,
               Queues, TurnStarted, Charged, Slices, Quiet, TickUnserved, Shown, TODLOW,
               ClockRight
<1> QED
  BY <1>1, <1>2, <1>3, <1>4, <1>5, <1>6, <1>7, <1>8, <1>9, <1>10 DEF Next, Stop

\* No thread is charged more time than it had the processor, for any slice,
\* any clock, any number of threads, and whatever interrupts and traps share a
\* turn.
THEOREM ChargesAreTimeUsed == Spec => []ChargeIsTimeUsed
<1>1. TimeInv => ChargeIsTimeUsed
  BY DEF TimeInv, Charged, ChargeIsTimeUsed
<1> QED
  BY <1>1, InitTimeInv, NextTimeInv, PTL DEF Spec

\* A turn ends with its slice, though the timer is not always set for it.
THEOREM EveryTurnEnds == Spec => []TurnsEnd
<1>1. TimeInv => TurnsEnd
  <2> SUFFICES ASSUME TimeInv, currentThread # NULL, ClockRight
               PROVE  time - began <= SCHED_TIME_SLICE
    BY DEF TurnsEnd
  <2>1. /\ timer + (time - began) <= SCHED_TIME_SLICE /\ timer \in Nat
        /\ time \in Nat /\ began \in 0 .. time /\ SCHED_TIME_SLICE \in Nat
    BY CpuTimeAssumption DEF TimeInv, TimeTypes, Clocks, Slices
  <2> QED BY <2>1
<1> QED
  BY <1>1, InitTimeInv, NextTimeInv, PTL DEF Spec

\* A tick is sent when no timer interrupt came for a SCHED_PSEUDO_CLOCK, or in
\* one of the two windows in which pseudoElapsed may be 0 and a thread asleep:
\* between ssi.c:143 and 146, and until the last tick is served.
THEOREM TicksComeAfterQuiet == Spec => TickAfterQuiet
<1>1. TimeInv /\ [Next]_vars
         => (inbox' = Append(inbox, NULL) /\ ClockRight
               => \/ time - quietSince >= SCHED_PSEUDO_CLOCK
                  \/ ClockStarting \/ TickUnserved)
  <2> SUFFICES ASSUME TimeInv, [Next]_vars, inbox' = Append(inbox, NULL), ClockRight,
                      ~ClockStarting, ~TickUnserved
               PROVE  time - quietSince >= SCHED_PSEUDO_CLOCK
    OBVIOUS
  <2>1. TimerInterrupt
    <3>0. inbox \in Seq(Users \cup {NULL}) /\ NULL \notin Users
      BY CpuTimeAssumption DEF TimeInv, TimeTypes, Queues, Thread
    <3>1. /\ Len(inbox') = Len(inbox) + 1 /\ inbox'[Len(inbox) + 1] = NULL
          /\ Len(inbox) \in Nat
      BY <3>0, AppendProperties, LenProperties
    <3>2. inbox' # inbox
      BY <3>1
    <3>3. \A t \in Users : ~RequestClock(t)
      <4> SUFFICES ASSUME NEW t \in Users, inbox' = Append(inbox, t) PROVE FALSE
        BY DEF RequestClock
      <4>1. Append(inbox, t)[Len(inbox) + 1] = t
        BY <3>0, AppendProperties
      <4> QED BY <3>0, <3>1, <4>1
    <3>4. ~PutToSleep /\ ~TickTaken
      <4> SUFFICES ASSUME inbox # <<>>, inbox' = Tail(inbox) PROVE FALSE
        BY DEF PutToSleep, TickTaken
      <4>1. Len(Tail(inbox)) = Len(inbox) - 1
        BY <3>0, HeadTailProperties
      <4> QED BY <3>1, <4>1
    <3> QED BY <3>2, <3>3, <3>4
            DEF Next, Pass, Block, Trap, Wake, RequestClock, waitForClock, StartClock,
                ReadClock, StoreReading, wakeUpPseudoClock, WakeNext, DeviceInterrupt, Stop,
                queueVars, vars
  <2>2. SinceClock >= SCHED_PSEUDO_CLOCK /\ sleepers # {}
    <3>1. inbox' # inbox
      <4>1. inbox \in Seq(Users \cup {NULL})
        BY DEF TimeInv, TimeTypes, Queues
      <4>2. Len(Append(inbox, NULL)) = Len(inbox) + 1 /\ Len(inbox) \in Nat
        BY <4>1, AppendProperties, LenProperties
      <4> QED BY <4>2
    <3> QED BY <2>1, <3>1 DEF TimerInterrupt
  <2>3. isPseudoClock /\ ssi_pc \notin {"started", "read"}
    BY <2>2 DEF TimeInv, Quiet, ClockStarting
  <2> QED BY <2>2, <2>3, SinceRight DEF TimeInv, TimeTypes
<1> QED
  BY <1>1, InitTimeInv, NextTimeInv, PTL DEF Spec, TickAfterQuiet

=============================================================================
