------------------------------ MODULE MCDevices ------------------------------
(***************************************************************************)
(* An instance of Deaths: a parent and its child, each with one of four     *)
(* devices.                                                                 *)
(***************************************************************************)
EXTENDS Deaths

MCUsers == {parent, child}
MCDevice == {<<7, 0>>, <<3, 0>>, <<7, 3>>, <<7, 7>>}
MCNode ==
    {parent, child, tcb_SSI, tcb_test, readyQueue, waitQueue, tcbFree} \cup ({3, 7} \X (0 .. 7))

\* Left out: what wrong lists lead to, a parent that uses number 3, and a child that
\* does beside a parent of number 7, which has ten times the states of the other pairs.
Explored ==
    /\ broken => Sound
    /\ uses[parent] # <<7, 3>>
    /\ <<uses[parent], uses[child]>> # <<<<7, 7>>, <<7, 3>>>>
=============================================================================
