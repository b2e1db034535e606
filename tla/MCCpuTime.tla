------------------------------ MODULE MCCpuTime ------------------------------
(***************************************************************************)
(* An instance of CpuTime for TLC: two threads beside the SSI, a clock     *)
(* that does not wrap, one that does, and one that runs twice as fast.     *)
(***************************************************************************)
EXTENDS CpuTime

CONSTANTS a, b

MCUsers == {a, b}
MCMachines == {<<8, 1>>, <<12, 1>>, <<7, 2>>}
Symmetric == Permutations(MCUsers)
=============================================================================
