------------------------------- MODULE P2Test -------------------------------
(***************************************************************************)
(* The test program of phase 2 (src/p2test.0.2.c) on the nucleus: the      *)
(* calls its threads make, in the order of their code, while the timer     *)
(* preempts them anywhere, on a machine without terminal 0: termprint()    *)
(* finds it not available and prints nothing. (With the terminal the lists *)
(* of threads are wrong from the first line on: run ClaimIo, from module   *)
(* Devices.) What does not call the nucleus is left out. test() has the    *)
(* start of p5 commented out.                                              *)
(***************************************************************************)
EXTENDS Kernel

CONSTANTS
    P8LOOP,      \* how many times p1 starts p8root
    Leaves,      \* the leaves of each child of p8root: NOLEAVES is twice that
    CLOCKLOOP,   \* the WAITFORCLOCKs of the longer test of p3
    MaxSlices    \* bound on the timer interrupts while a thread runs

ASSUME P2TestAssumption ==
    /\ P8LOOP \in Nat /\ Leaves \in {1, 2} /\ CLOCKLOOP \in Nat
    /\ MaxSlices \in Nat

VARIABLES
    role,        \* the program each thread runs
    line,        \* the instruction of it that is next
    reg,         \* its local variables that hold a thread
    ids,         \* the global ones, which test() sets
    p1p2synch,
    slices       \* how many of these came

testVars == <<role, line, reg, ids, p1p2synch>>
allVars == <<vars, testVars, slices>>

-----------------------------------------------------------------------------
(* The programs. An instruction is an operation and its operands: programs *)
(* and variables by name, "none" where the value is not used.              *)

Globals == {"printid", "p2id", "p3id", "p4id", "p6id", "p7id", "p8id", "p9id"}
Locals == {"parent", "tmp"}

\* print(): a call of the print thread.
print == <<<<"send", "printid", "none">>, <<"recv", "printid", "none">>>>

\* An "error: ..." line, or PANIC().
wrong == <<<<"panic">>>>

Start(who, id) == <<<<"create", "CREATEBROTHER", who, id>>>>
Son(who, id) == <<<<"create", "CREATESON", who, id>>>>
Ask(service) == <<<<"ask", service, "none">>>>
Tell(id) == <<<<"send", id, "none">>>>
Hear(id) == <<<<"recv", id, "none">>>>
Awaited(id) == <<<<"recv", "ANYMESSAGE", id>>>>
Times(n, code) == FlattenSeq([i \in 1 .. n |-> code])

startPrint == Son("printthread", "printid") \o print \o print
synchWithP2 ==
    Start("p2", "p2id") \o print \o Tell("p2id") \o Hear("p2id")
        \o <<<<"check">>>> \o wrong \o print
runP3 == Start("p3", "p3id") \o print \o Tell("p3id") \o Hear("p3id")
runP4P6P7P9 ==
    Start("p4", "p4id") \o Tell("p4id") \o Hear("p4id") \o Tell("p4id")
        \o Start("p6", "p6id") \o Tell("p6id") \o Start("p7", "p7id") \o Tell("p7id")
        \o Hear("p4id") \o Start("p9", "p9id") \o Tell("p9id")
runP8 == Times(P8LOOP, Start("p8root", "p8id") \o Tell("p8id") \o Hear("p8id"))

test ==
    startPrint \o synchWithP2 \o runP3 \o runP4P6P7P9 \o runP8
        \o print \o <<<<"trap", "prg">>>> \o wrong


p2 == Awaited("parent") \o print \o Ask("GETCPUTIME") \o Ask("GETCPUTIME") \o print
          \o <<<<"synch">>>> \o Tell("parent") \o Ask("TERMINATE") \o wrong

\* The first loop of p3 ends when it was delayed long enough: here, at once.
p3 == Awaited("parent") \o Ask("WAITFORCLOCK") \o print \o Ask("GETCPUTIME")
          \o Times(CLOCKLOOP, Ask("WAITFORCLOCK")) \o Ask("GETCPUTIME") \o print
          \o Tell("parent") \o Ask("TERMINATE") \o wrong

\* Its second incarnation never comes past the second Hear.
p4 == Awaited("parent") \o print \o Tell("parent") \o Hear("parent")
          \o Son("p4 again", "tmp") \o Tell("tmp") \o Hear("tmp") \o print
          \o Tell("parent") \o Ask("TERMINATE") \o wrong

p6 == Awaited("none") \o print \o <<<<"trap", "sys">>>> \o wrong
p7 == Awaited("none") \o print \o <<<<"trap", "prg">>>> \o wrong

p8root ==
    print \o Awaited("parent") \o Son("child1", "tmp") \o Tell("tmp")
        \o Son("child2", "tmp") \o Tell("tmp") \o Times(2 * Leaves, Awaited("none"))
        \o Tell("parent") \o Ask("TERMINATE") \o wrong

\* A leaf is told the address of p8root by the thread that creates it.
child(leaves) ==
    print \o Awaited("parent")
        \o FlattenSeq([i \in 1 .. Leaves |->
               Son(leaves[i], "tmp") \o <<<<"send", "tmp", "parent">>>>])
        \o Awaited("none") \o wrong

p8leaf == print \o <<<<"recvWord", "tmp">>>> \o Tell("tmp") \o Awaited("none") \o wrong

p9 == Awaited("none") \o print \o Son("p9trapm", "tmp")
          \o <<<<"ask", "SPECPRGMGR", "tmp">>, <<"ask", "SPECTLBMGR", "tmp">>,
               <<"ask", "SPECSYSMGR", "tmp">>, <<"trap", "sys">>>> \o wrong

p9trapm ==
    print \o Awaited("tmp") \o print \o <<<<"terminate", "tmp">>, <<"goto", 3>>>>

\* The status of a terminal that is not installed is 0, neither READY nor
\* TRANSMITTED: nothing is printed, and no WAITFORIO sent.
termprint == <<>>

printthread ==
    Awaited("tmp") \o termprint \o <<<<"answer", "tmp">>, <<"goto", 1>>>> \o termprint \o wrong

leaves1 == <<"leaf1", "leaf2">>
leaves2 == <<"leaf3", "leaf4">>

Code ==
    [who \in {"test"} |-> test] @@ [who \in {"p2"} |-> p2] @@ [who \in {"p3"} |-> p3]
    @@ [who \in {"p4", "p4 again"} |-> p4] @@ [who \in {"p6"} |-> p6]
    @@ [who \in {"p7"} |-> p7] @@ [who \in {"p8root"} |-> p8root]
    @@ [who \in {"child1"} |-> child(leaves1)] @@ [who \in {"child2"} |-> child(leaves2)]
    @@ [who \in ToSet(leaves1 \o leaves2) |-> p8leaf] @@ [who \in {"p9"} |-> p9]
    @@ [who \in {"p9trapm"} |-> p9trapm] @@ [who \in {"printthread"} |-> printthread]

\* Mutant: p4 again starts with the stack of p4.
PageOfP4 ==
    [test |-> 0, printthread |-> 1, p2 |-> 2, p3 |-> 3, p4 |-> 4, p6 |-> 10, p7 |-> 11,
     p8root |-> 12, child1 |-> 13, child2 |-> 14, leaf1 |-> 15, leaf2 |-> 16,
     leaf3 |-> 17, leaf4 |-> 18, p9 |-> 19, p9trapm |-> 20]
    @@ ("p4 again" :> 4)

\* The stack each program starts with, in pages below that of test(). What
\* p5 would use is left free.
Page ==
    [test |-> 0, printthread |-> 1, p2 |-> 2, p3 |-> 3, p4 |-> 4, p6 |-> 10, p7 |-> 11,
     p8root |-> 12, child1 |-> 13, child2 |-> 14, leaf1 |-> 15, leaf2 |-> 16,
     leaf3 |-> 17, leaf4 |-> 18, p9 |-> 19, p9trapm |-> 20]
    @@ ("p4 again" :> 5)

-----------------------------------------------------------------------------
(* A step of a program is the step of the nucleus it asks for.             *)

TestInit ==
    /\ Init
    /\ role = [t \in Tcb |-> "test"]
    /\ line = [t \in Tcb |-> 1]
    /\ reg = [t \in Tcb |-> [v \in Locals |-> NULL]]
    /\ ids = [v \in Globals |-> NULL]
    /\ p1p2synch = FALSE
    /\ slices = 0

At(t, op) == UserRuns(t) /\ Code[role[t]][line[t]][1] = op
Operand(t, i) == Code[role[t]][line[t]][i]

Value(t, v) ==
    CASE v \in Globals -> ids[v]
      [] v \in Locals -> reg[t][v]
      [] OTHER -> NULL

Sets(t, v, value) ==
    IF v = "none" THEN UNCHANGED reg ELSE reg' = [reg EXCEPT ![t][v] = value]

Advance(t) == line' = [line EXCEPT ![t] = @ + 1]

\* The nucleus stands still.
Alone(t, op) == At(t, op) /\ UNCHANGED vars

\* The word a message carries is its receiver's, as p8leaf reads only one.
SendLine(t) ==
    LET d == Value(t, Operand(t, 2))
    IN /\ At(t, "send")
       /\ IF msgFree > 0 THEN Send(t, d) ELSE UNCHANGED vars
       /\ IF Operand(t, 3) = "none" THEN UNCHANGED reg
          ELSE reg' = [reg EXCEPT ![d]["parent"] = Value(t, Operand(t, 3))]
       /\ Advance(t)
       /\ UNCHANGED <<role, ids, p1p2synch>>

\* The print thread looks at the result of its MsgSend.
AnswerLine(t) ==
    /\ At(t, "answer")
    /\ IF msgFree > 0 THEN Send(t, Value(t, Operand(t, 2))) ELSE UNCHANGED vars
    /\ line' = [line EXCEPT ![t] = IF msgFree > 0 THEN @ + 1 ELSE @ + 2]
    /\ UNCHANGED <<role, reg, ids, p1p2synch>>

\* p9trapm: MsgSend(SEND, trapped, TRAPTERMINATE).
TerminateLine(t) ==
    /\ At(t, "terminate")
    /\ SendTerminate(t, Value(t, Operand(t, 2)))
    /\ Advance(t)
    /\ UNCHANGED <<role, reg, ids, p1p2synch>>

RecvLine(t) ==
    LET source == Value(t, Operand(t, 2))
        m == t_inbox[t][popMessage(t_inbox[t], source)]
    IN /\ At(t, "recv")
       /\ \/ /\ RecvTake(t, source)
             /\ Sets(t, Operand(t, 3), m.m_sender)
             /\ Advance(t)
          \/ RecvBlock(t, source) /\ UNCHANGED <<reg, line>>
       /\ UNCHANGED <<role, ids, p1p2synch>>

RecvWordLine(t) ==
    /\ At(t, "recvWord")
    /\ \/ RecvTake(t, NULL) /\ Sets(t, Operand(t, 2), reg[t]["parent"]) /\ Advance(t)
       \/ RecvBlock(t, NULL) /\ UNCHANGED <<reg, line>>
    /\ UNCHANGED <<role, ids, p1p2synch>>

\* SSIRequest(): the SEND, then the RECV of the answer.
Requests(t, service, payload) ==
    /\ \/ SendSsi(t, service, payload) /\ UNCHANGED line
       \/ pc[t] = SSI_MAGIC /\ RecvTake(t, SSI_MAGIC) /\ Advance(t)
       \/ pc[t] = SSI_MAGIC /\ RecvBlock(t, SSI_MAGIC) /\ UNCHANGED line
    /\ UNCHANGED <<role, reg, ids, p1p2synch>>

AskLine(t) ==
    At(t, "ask") /\ Requests(t, Operand(t, 2), Value(t, Operand(t, 3)))

CreateLine(t) == At(t, "create") /\ Requests(t, Operand(t, 2), NULL)

\* A thread created starts its program; the answer is the address of its TCB,
\* or CREATENOGOOD.
Created ==
    LET s == ssi_msg.sender
        new == IF tcbFree = <<>> THEN NULL ELSE Head(tcbFree)
    IN /\ createSon \/ createBrother
       /\ role' = [t \in Tcb |-> IF t = new THEN Operand(s, 3) ELSE role[t]]
       /\ line' = [t \in Tcb |-> IF t = new THEN 1 ELSE line[t]]
       /\ IF Operand(s, 4) \in Globals
          THEN ids' = [ids EXCEPT ![Operand(s, 4)] = new] /\ UNCHANGED reg
          ELSE reg' = [reg EXCEPT ![s][Operand(s, 4)] = new] /\ UNCHANGED ids
       /\ UNCHANGED p1p2synch

\* The instruction after a trap is reached by those that survive it.
TrapLine(t) ==
    /\ At(t, "trap")
    /\ LET trap == Operand(t, 2)
       IN /\ TrapKill(t, trap) \/ TrapPassUp(t, trap)
          /\ IF trap = "sys" THEN UNCHANGED line ELSE Advance(t)
    /\ UNCHANGED <<role, reg, ids, p1p2synch>>

GotoLine(t) ==
    /\ Alone(t, "goto")
    /\ line' = [line EXCEPT ![t] = Operand(t, 2)]
    /\ UNCHANGED <<role, reg, ids, p1p2synch>>

SynchLine(t) ==
    /\ Alone(t, "synch")
    /\ p1p2synch' = TRUE
    /\ Advance(t)
    /\ UNCHANGED <<role, reg, ids>>

\* test() goes on to the error message, or past it.
CheckLine(t) ==
    /\ Alone(t, "check")
    /\ line' = [line EXCEPT ![t] = IF p1p2synch THEN @ + 2 ELSE @ + 1]
    /\ UNCHANGED <<role, reg, ids, p1p2synch>>

ProgramStep(t) ==
    \/ SendLine(t) \/ AnswerLine(t) \/ TerminateLine(t) \/ RecvLine(t) \/ RecvWordLine(t)
    \/ AskLine(t) \/ CreateLine(t) \/ TrapLine(t) \/ GotoLine(t) \/ SynchLine(t)
    \/ CheckLine(t)

\* The SSI and terminate() run as in module Kernel.
NucleusStep ==
    \/ SsiReceive \/ SsiBlock \/ getCpuTime \/ waitForClock \/ ssiTerminate
    \/ \E service \in SpecServices : specMgr(service)
    \/ reply \/ wakeUpPseudoClock \/ wakeUpSend
    \/ KillStep

\* The timer interrupts a thread, at most MaxSlices times.
TimerStep ==
    /\ TimerSlice \/ TimerTick
    /\ IF currentThread # NULL
       THEN slices < MaxSlices /\ slices' = slices + 1
       ELSE UNCHANGED slices

TestNext ==
    \/ \E t \in UserTcb : ProgramStep(t) /\ UNCHANGED slices
    \/ Created /\ UNCHANGED slices
    \/ NucleusStep /\ UNCHANGED <<testVars, slices>>
    \/ TimerStep /\ UNCHANGED testVars
    \/ PowerOff /\ UNCHANGED <<testVars, slices>>

TestSpec == TestInit /\ [][TestNext]_allVars

\* The processor runs, and the timer interrupts it when it waits.
TestFairSpec == TestSpec /\ WF_allVars(TestNext)

-----------------------------------------------------------------------------
Started == Live \ {tcb_SSI}


\* A thread created as a son is not left behind when its creator dies: p4 again
\* dies with p4, the leaves with p8root, p9trapm with p9 (p2test:500, 645, 742).
CreatorOf ==
    [who \in {"printthread"} |-> "test"] @@ [who \in {"p4 again"} |-> "p4"]
    @@ [who \in {"child1", "child2"} |-> "p8root"] @@ [who \in ToSet(leaves1) |-> "child1"]
    @@ [who \in ToSet(leaves2) |-> "child2"] @@ [who \in {"p9trapm"} |-> "p9"]
FamiliesDieTogether ==
    killing = <<>> =>
        \A t \in Started : role[t] \in DOMAIN CreatorOf =>
            t_parent[t] \in Live /\ role[t_parent[t]] = CreatorOf[role[t]]

\* p1 goes on when p8root has written to it, not when it has ended: two threads
\* use the same stack only while a p8root is between this and its death.
StacksShared ==
    \A t, u \in Started :
        t # u /\ Page[role[t]] = Page[role[u]] =>
            \E r \in Started :
                role[r] = "p8root" /\ line[r] >= Len(p8root) - Len(Ask("TERMINATE") \o wrong)

\* Where terminal 0 is not available, the threads left when nothing is left to do
\* are those that print when p1 and with it the print thread is gone: the machine
\* then never halts. Until p1 dies the processor does not wait for an interrupt
\* unless a thread sleeps.
LeftBehind ==
    power = "on" /\ currentThread = NULL /\ killing = <<>> /\ waitForPseudoClockQueue = <<>> =>
        \A t \in Started : pc[t] = ids["printid"] /\ ids["printid"] \notin Live

\* p1 finishes its tests and dies, where terminal 0 is not available: no call of its
\* threads waits for an answer that does not come.
P1Finishes == <>(tcb_test \notin Live)

=============================================================================
