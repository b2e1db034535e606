------------------------------ MODULE MCKernel ------------------------------
(***************************************************************************)
(* Instances of Kernel for TLC: the TCBs of the boot, and two more.        *)
(***************************************************************************)
EXTENDS Claims, KernelRpc

CONSTANTS a, b

MCTcb == {tcb_init, tcb_SSI, tcb_lost, tcb_test, a, b}
MCBootFree == <<a, b>>

\* One TCB less, for the workloads with many calls.
SmallTcb == MCTcb \ {b}
SmallBootFree == <<a>>

\* The workloads.
Messaging == {"send", "recv", "CREATESON", "GETCPUTIME"}
Lifecycle == {"CREATESON", "CREATEBROTHER", "TERMINATE", "BAD"}
Managed   == {"CREATESON", "SPECPRGMGR", "SPECSYSMGR", "manage", "send", "recv", "prg", "sys"}
Requests  == {"CREATESON", "CREATEBROTHER", "GETCPUTIME"}
Sleepers  == {"CREATESON", "WAITFORCLOCK"}
Dying     == {"CREATESON", "TERMINATE", "WAITFORCLOCK"}
Mixed     == {"CREATESON", "CREATEBROTHER", "TERMINATE", "WAITFORCLOCK", "send", "recv"}
=============================================================================
