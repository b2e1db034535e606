------------------------------ MODULE MCPrint ------------------------------
(***************************************************************************)
(* An instance of Devices: the test of phase 2 (src/p2test.0.2.c) when its *)
(* print thread has received the first line of p1. p1, in tcb_test, waits  *)
(* for the answer; it waits before the line is printed.                    *)
(***************************************************************************)
EXTENDS Devices

CONSTANT printthread

PrintUsers == {printthread}
Terminal0 == {<<INT_TERMINAL, 0>>}
PrintNode ==
    {printthread, tcb_SSI, tcb_test, readyQueue, waitQueue} \cup ({INT_TERMINAL} \X (0 .. 7))
=============================================================================
