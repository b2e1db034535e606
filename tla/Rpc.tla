--------------------------------- MODULE Rpc ---------------------------------
(***************************************************************************)
(* What the SSI promises its clients: a service is a remote procedure      *)
(* call. The calls are served in the order they were made, each once, the  *)
(* effect of a creation included; the caller goes on when its call was     *)
(* served, and its sleep, if it asked for one, is over.                    *)
(***************************************************************************)
EXTENDS Integers

CONSTANTS
    Client, Service,
    Creations,     \* the services that create a thread
    MaxThreads     \* for so many threads there are TCBs

VARIABLES
    calls,      \* the calls not yet served: of which client, for which service
    before,     \* the pairs of clients of which the first has called earlier
    status,     \* of each client: "idle", "called", "asleep" or "served"
    threads     \* how many threads there are

rpcVars == <<calls, before, status, threads>>

Callers == {call.client : call \in calls}

Init ==
    /\ calls = {}
    /\ before = {}
    /\ status = [t \in Client |-> "idle"]
    /\ threads = 2

Call(t, service) ==
    /\ status[t] = "idle"
    /\ calls' = calls \cup {[client |-> t, service |-> service]}
    /\ before' = before \cup (Callers \X {t})
    /\ status' = [status EXCEPT ![t] = "called"]
    /\ UNCHANGED threads

\* The first call is served.
Serve ==
    \E call \in calls :
        /\ \A t \in Callers : <<t, call.client>> \notin before
        /\ calls' = calls \ {call}
        /\ before' = before \ ({call.client} \X Client)
        /\ status' = [status EXCEPT ![call.client] =
                          IF call.service = "WAITFORCLOCK" THEN "asleep" ELSE "served"]
        /\ threads' = IF call.service \in Creations /\ threads < MaxThreads
                      THEN threads + 1 ELSE threads

Wake(t) ==
    /\ status[t] = "asleep"
    /\ status' = [status EXCEPT ![t] = "served"]
    /\ UNCHANGED <<calls, before, threads>>

Return(t) ==
    /\ status[t] = "served"
    /\ status' = [status EXCEPT ![t] = "idle"]
    /\ UNCHANGED <<calls, before, threads>>

Next ==
    \/ Serve
    \/ \E t \in Client : Wake(t) \/ Return(t) \/ \E service \in Service : Call(t, service)

\* Every call is served, and every call served returns.
Fairness == WF_rpcVars(Serve) /\ \A t \in Client : WF_rpcVars(Return(t))

SafeSpec == Init /\ [][Next]_rpcVars

Spec == SafeSpec /\ Fairness

=============================================================================
