-------------------------------- MODULE Tcb --------------------------------
(***************************************************************************)
(* Thread control blocks (src/tcb.c, header/types11.h): the addresses of   *)
(* the TCB table, the queues that link TCBs through t_next and the process *)
(* tree that links them through t_parent / t_child / t_sib.                *)
(*                                                                         *)
(* A queue whose order the kernel observes is a sequence of TCBs, head     *)
(* first. A list head that is only searched (outThread) is a set.          *)
(***************************************************************************)
EXTENDS Integers, FiniteSets, SequencesExt

CONSTANTS
    Tcb,        \* the entries of tcbTable
    NULL,       \* the null pointer; also ANYMESSAGE
    tcb_init,   \* adoptive parent of the threads that have none
    tcb_SSI,    \* the System Service Interface thread
    tcb_test,   \* the first user thread
    tcb_lost,   \* the entry main() allocates and forgets (boot.c:94)
    BootFree    \* the free list after boot, head first

ASSUME TcbAssumption ==
    /\ IsFiniteSet(Tcb)
    /\ NULL \notin Tcb
    /\ {tcb_init, tcb_SSI, tcb_test, tcb_lost} \subseteq Tcb
    /\ tcb_init \notin {tcb_SSI, tcb_test, tcb_lost}
    /\ tcb_SSI \notin {tcb_test, tcb_lost}
    /\ tcb_test # tcb_lost
    /\ BootFree \in Seq(Tcb)
    /\ IsInjective(BootFree)
    /\ ToSet(BootFree) = Tcb \ {tcb_init, tcb_SSI, tcb_test, tcb_lost}

\* The TCBs of threads that live and die; tcb_init is never scheduled.
UserTcb == Tcb \ {tcb_init, tcb_SSI, tcb_lost}

-----------------------------------------------------------------------------
(* Thread queues. *)

\* Mutant: the thread is queued at the head.
insertThreadFirst(queue, p) == <<p>> \o queue

insertThread(queue, p) == Append(queue, p)

\* Mutant: the search ends before the last thread of the queue.
outThreadShort(queue, p) ==
    IF queue # <<>> /\ Last(queue) = p THEN queue ELSE RemoveFirst(queue, p)

\* Unlinks p from the queue if it is linked there.
outThread(queue, p) == RemoveFirst(queue, p)

(* The process tree: child is the function t_child, parent is t_parent. *)

\* A new child goes to the head of the list of its siblings.
insertChild(child, p, c) == [child EXCEPT ![p] = <<c>> \o @]

\* Mutant: the list of children is left alone.
outChildForgotten(child, parent, c) == child

\* What t_child becomes when c unlinks itself from its parent, if it has one.
outChild(child, parent, c) ==
    IF parent[c] = NULL
    THEN child
    ELSE [child EXCEPT ![parent[c]] = RemoveFirst(@, c)]

=============================================================================
