------------------------------- MODULE Claims -------------------------------
(***************************************************************************)
(* What a comment of the source says of the nucleus, as a property that    *)
(* its code does not have.                                                 *)
(***************************************************************************)
EXTENDS Kernel

\* scheduler.c:48, "deadlock": schedule() panics only if no thread can ever
\* become ready, so never while one is asleep. (The PANIC of terminate() is
\* another matter: killing is not empty then.)
PanicIsDeadlock ==
    power = "panicked" /\ killing = <<>> => waitForPseudoClockQueue = <<>>

=============================================================================
