------------------------------ MODULE KernelRpc ------------------------------
(***************************************************************************)
(* The nucleus implements Rpc, as long as no thread dies and no message is *)
(* missing.                                                                *)
(***************************************************************************)
EXTENDS Kernel

\* The requests the SSI has not begun to serve: the one it has just received,
\* and those in its inbox, ticks aside.
Unserved ==
    (IF ssi_pc = "serve" THEN {ssi_msg} ELSE {}) \cup (ToSet(t_inbox[tcb_SSI]) \ {Tick})

\* The request of t is received already, or further ahead in the inbox.
Precedes(t, u) ==
    \E j \in 1 .. Len(t_inbox[tcb_SSI]) :
        /\ t_inbox[tcb_SSI][j].sender = u
        /\ \/ ssi_pc = "serve" /\ ssi_msg.sender = t
           \/ \E i \in 1 .. j - 1 : t_inbox[tcb_SSI][i].sender = t

StatusOf(t) ==
    IF pc[t] # SSI_MAGIC THEN "idle"
    ELSE IF \E m \in Unserved : m.sender = t THEN "called"
    ELSE IF t \in Sleeping THEN "asleep"
    ELSE "served"

\* The variables of Rpc.
CallsOf == {[client |-> m.sender, service |-> m.service] : m \in Unserved}
BeforeOf == {p \in UserTcb \X UserTcb : Precedes(p[1], p[2])}
StatusesOf == [t \in UserTcb |-> StatusOf(t)]

Abstract == INSTANCE Rpc WITH
    Client     <- UserTcb,
    Service    <- Services \cap Calls,
    Creations  <- {"CREATESON", "CREATEBROTHER"},
    MaxThreads <- Len(BootFree) + 2,
    calls      <- CallsOf,
    before     <- BeforeOf,
    status     <- StatusesOf,
    threads    <- threadCount

\* The requests of SSIRequest (ssi.c:191-211), queued, filtered, blocked and
\* preempted anywhere, behave like procedure calls.
ImplementsRpc == Abstract!Spec

\* The same with threads that sleep, whatever a tick interrupts. Not every
\* call returns then, since schedule() may panic first, see Claims.
ServesInOrder == Abstract!SafeSpec

=============================================================================
