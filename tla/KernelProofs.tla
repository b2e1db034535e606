---------------------------- MODULE KernelProofs ----------------------------
(***************************************************************************)
(* The nucleus, for any number of TCBs and messages and any programs of    *)
(* the user threads: types, one place for every thread, no lost wakeup.    *)
(***************************************************************************)
EXTENDS Kernel, SeqProofs

\* The threads the processor runs.
Threads == UserTcb \cup {tcb_SSI}

\* The fixed TCBs: the SSI and tcb_init are not user threads, tcb_test is.
LEMMA TcbFacts ==
    /\ tcb_SSI \in Tcb /\ tcb_SSI \notin UserTcb /\ tcb_SSI # NULL
    /\ tcb_init \in Tcb /\ tcb_init \notin UserTcb
    /\ UserTcb \subseteq Tcb /\ NULL \notin Tcb
    /\ tcb_test \in UserTcb
  BY TcbAssumption DEF UserTcb

-----------------------------------------------------------------------------
(* Type correctness: what the operators the actions are made of do to the  *)
(* types, then one step per action.                                        *)

\* The counters wrap within a machine word.
LEMMA CounterTypes ==
    ASSUME NEW n \in 0 .. Word - 1
    PROVE  Inc(n) \in 0 .. Word - 1 /\ Dec(n) \in 0 .. Word - 1
  BY SchedulerAssumption DEF Inc, Dec

\* The messages the code builds are messages; requests and ticks, too.
LEMMA MsgTypes ==
    /\ \A t \in UserTcb : UserMsg(t) \in Msg
    /\ \A t \in UserTcb, service \in Services, p \in UserTcb \cup {NULL} :
          RequestMsg(t, service, p) \in Request
    /\ Request \cup {Tick} \subseteq Msg
    /\ WakeMsg \in Msg
  BY DEF UserMsg, RequestMsg, Msg, Request, Services, SpecServices, Tick, WakeMsg

\* main() leaves every variable with its type.
LEMMA InitTypes == Init => TypeOK
<1> SUFFICES ASSUME Init PROVE TypeOK
  OBVIOUS
<1>1. tcbFree \in Seq(UserTcb)
  <2>1. BootFree \in Seq(Tcb) /\ DOMAIN BootFree = 1 .. Len(BootFree)
    BY TcbAssumption, LenProperties
  <2>2. ToSet(BootFree) \subseteq UserTcb
    BY TcbAssumption DEF UserTcb
  <2>3. BootFree \in Seq(UserTcb)
    BY <2>1, <2>2, LenProperties, IsASeq DEF ToSet
  <2> QED BY <2>3 DEF Init
<1>2. QueueTypes
  BY <1>1, TcbFacts DEF Init, QueueTypes
<1>3. CountTypes
  BY SchedulerAssumption DEF Init, CountTypes
<1>4. TreeTypes
  <2>1. ownSib \subseteq Tcb
    BY TcbAssumption DEF Init
  <2> QED BY <2>1, TcbFacts DEF Init, TreeTypes, NoManager
<1>5. MailTypes
  BY TcbFacts, MsgAssumption DEF Init, MailTypes
<1>6. ControlTypes
  BY DEF Init, ControlTypes
<1> QED
  BY <1>2, <1>3, <1>4, <1>5, <1>6 DEF TypeOK

\* schedule() runs a ready thread, or the one it is given.
LEMMA ScheduleTypes ==
    ASSUME NEW queue \in Seq(Threads), NEW cur \in Threads \cup {NULL},
           NEW sliced \in BOOLEAN, NEW clock \in {"off", "fresh", "aged"},
           TypeOK, schedule(queue, cur, sliced, clock)
    PROVE  /\ currentThread' \in Threads \cup {NULL}
           /\ readyQueue' \in Seq(Threads)
           /\ pseudoClock' \in {"off", "fresh", "aged"}
           /\ power' \in {"on", "halted", "panicked", "faulted", "corrupt"}
<1> DEFINE run == IF Preempts(sliced, cur) THEN insertThread(queue, cur) ELSE queue
<1>1. run \in Seq(Threads)
  BY AppendProperties DEF Preempts, insertThread
<1>2. run # <<>> => Head(run) \in Threads /\ Tail(run) \in Seq(Threads)
  BY <1>1, HeadTailProperties
<1>3. /\ pseudoClock' \in {"off", "fresh", "aged"}
      /\ power' \in {"on", "halted", "panicked", "faulted", "corrupt"}
  BY DEF schedule, Idle, TypeOK, ControlTypes
<1>4. \/ run # <<>> /\ readyQueue' = Tail(run) /\ currentThread' = Head(run)
      \/ readyQueue' = queue /\ currentThread' = cur
  BY DEF schedule
<1> QED
  BY <1>2, <1>3, <1>4

\* Waking a thread, or not.
LEMMA WakeTypes ==
    ASSUME NEW d \in Threads, TypeOK
    PROVE  /\ Woken(d) \in Seq(Threads)
           /\ SoftAfterWaking(d) \in 0 .. Word - 1
           /\ waitQueue \ {d} \in SUBSET Threads
<1>1. readyQueue \in Seq(Threads) /\ Append(readyQueue, d) \in Seq(Threads)
  BY AppendProperties DEF TypeOK, QueueTypes, Threads
<1> QED
  BY <1>1, CounterTypes
  DEF TypeOK, QueueTypes, CountTypes, Threads, Woken, SoftAfterWaking, insertThread

\* Queueing a message changes no other inbox.
LEMMA InsertInbox ==
    ASSUME NEW d \in Tcb, NEW m, TypeOK, insertMessage(d, m)
    PROVE  \A t \in Tcb \ {d} : t_inbox'[t] = t_inbox[t]
  BY DEF insertMessage, TypeOK, MailTypes

\* Queueing a message, for the SSI a request or a tick.
LEMMA InsertTypes ==
    ASSUME NEW d \in Threads, NEW m \in Msg, TypeOK, msgFree > 0, insertMessage(d, m),
           d = tcb_SSI => m \in Request \cup {Tick}
    PROVE  MailTypes'
<1>1. d \in Tcb /\ t_inbox \in [Tcb -> Seq(Msg)]
  BY TcbFacts DEF TypeOK, MailTypes, Threads
<1>2. Append(t_inbox[d], m) \in Seq(Msg)
  BY <1>1, AppendProperties
<1>3. t_inbox' = [t_inbox EXCEPT ![d] = Append(@, m)] /\ msgFree' = msgFree - 1
  BY DEF insertMessage
<1>4. t_inbox' \in [Tcb -> Seq(Msg)] /\ msgFree' \in Nat
  BY <1>1, <1>2, <1>3 DEF TypeOK, MailTypes
<1>5. t_inbox'[tcb_SSI] \in Seq(Request \cup {Tick})
  <2>1. CASE d = tcb_SSI
    <3>1. Append(t_inbox[d], m) \in Seq(Request \cup {Tick})
      BY <2>1, AppendProperties DEF TypeOK, MailTypes
    <3> QED BY <1>1, <1>3, <2>1, <3>1
  <2>2. CASE d # tcb_SSI
    BY <1>1, <1>3, <2>2, TcbFacts DEF TypeOK, MailTypes
  <2> QED BY <2>1, <2>2
<1> QED
  BY <1>4, <1>5 DEF MailTypes

\* A SEND that finds a free message.
LEMMA DeliverTypes ==
    ASSUME NEW d \in Threads, NEW m \in Msg, TypeOK, msgFree > 0, Deliver(d, m),
           d = tcb_SSI => m \in Request \cup {Tick}
    PROVE  /\ readyQueue' \in Seq(Threads)
           /\ waitQueue' \subseteq Threads
           /\ softBlockCount' \in 0 .. Word - 1
           /\ MailTypes'
  BY WakeTypes, InsertTypes DEF Deliver

\* A RECV that finds a message takes one there is, and frees it.
LEMMA ReceiveTypes ==
    ASSUME NEW t \in Threads, NEW source, TypeOK, Receive(t, source)
    PROVE  /\ popMessage(t_inbox[t], source) \in Matching(t_inbox[t], source)
           /\ popMessage(t_inbox[t], source) \in 1 .. Len(t_inbox[t])
           /\ MailTypes'
<1> DEFINE i == popMessage(t_inbox[t], source)
           M == Matching(t_inbox[t], source)
<1>1. /\ t \in Tcb /\ t_inbox \in [Tcb -> Seq(Msg)]
      /\ t_inbox[t] \in Seq(Msg) /\ Len(t_inbox[t]) \in Nat
  BY TcbFacts, LenProperties DEF TypeOK, MailTypes, Threads
<1>2. i \in M /\ i \in 1 .. Len(t_inbox[t])
  <2>1. M \subseteq 1 .. Len(t_inbox[t]) /\ M # {}
    BY DEF Receive, Matching
  <2>2. \E m \in M : \A j \in M : m <= j
    <3> HIDE DEF M
    <3> QED BY <1>1, <2>1, LeastPosition
  <2>3. i \in M
    BY <2>2 DEF popMessage
  <2> QED BY <2>1, <2>3
<1>3. t_inbox' = [t_inbox EXCEPT ![t] = RemoveAt(@, i)] /\ msgFree' = msgFree + 1
  BY DEF Receive
<1> HIDE DEF i
<1>4. RemoveAt(t_inbox[t], i) \in Seq(Msg)
  BY <1>1, <1>2, RemoveAtProperties
<1>5. t = tcb_SSI => RemoveAt(t_inbox[t], i) \in Seq(Request \cup {Tick})
  BY <1>2, RemoveAtProperties DEF TypeOK, MailTypes
<1>6. t_inbox' \in [Tcb -> Seq(Msg)] /\ msgFree' \in Nat
  BY <1>1, <1>3, <1>4 DEF TypeOK, MailTypes
<1>7. t_inbox'[tcb_SSI] \in Seq(Request \cup {Tick})
  BY <1>1, <1>3, <1>5, TcbFacts DEF TypeOK, MailTypes
<1> QED
  BY <1>2, <1>6, <1>7 DEF MailTypes, i

\* A thread that blocks leaves the processor to a ready one, or to none.
LEMMA BlockTypes ==
    ASSUME NEW t \in Threads, NEW queue \in Seq(Threads), NEW wait \in SUBSET Threads,
           NEW soft \in 0 .. Word - 1, TypeOK, Block(t, queue, wait, soft)
    PROVE  /\ currentThread' \in Threads \cup {NULL}
           /\ readyQueue' \in Seq(Threads)
           /\ waitQueue' \subseteq Threads
           /\ CountTypes'
           /\ pseudoClock' \in {"off", "fresh", "aged"}
           /\ power' \in {"on", "halted", "panicked", "faulted", "corrupt"}
<1>1. schedule(queue, NULL, FALSE, pseudoClock) /\ pseudoClock \in {"off", "fresh", "aged"}
  BY DEF Block, TypeOK, ControlTypes
<1>2. CountTypes'
  BY CounterTypes DEF Block, TypeOK, CountTypes
<1> QED
  BY <1>1, <1>2, ScheduleTypes DEF Block

\* The steps of a user thread keep the types.
LEMMA UserStepTypes ==
    ASSUME TypeOK, NEW t \in UserTcb, UserStep(t)
    PROVE  TypeOK'
<1> USE TcbFacts DEF Threads
<1>1. ASSUME NEW d \in issued, Send(t, d) PROVE TypeOK'
  <2>1. d \in UserTcb /\ Deliver(d, UserMsg(t)) /\ msgFree > 0 /\ UserMsg(t) \in Msg
    BY <1>1, MsgTypes DEF Send, TypeOK, TreeTypes
  <2>2. /\ readyQueue' \in Seq(Threads) /\ waitQueue' \subseteq Threads
        /\ softBlockCount' \in 0 .. Word - 1 /\ MailTypes'
    BY <2>1, DeliverTypes
  <2> QED BY <1>1, <2>2
     DEF Send, TypeOK, QueueTypes, CountTypes, TreeTypes, ControlTypes,
         queueVars, countVars, treeVars, ssiVars
<1>2. ASSUME NEW d \in issued, SendOther(t, d) PROVE TypeOK'
  <2>1. MailTypes'
    BY <1>2 DEF SendOther, Verdict, TypeOK, MailTypes
  <2> QED BY <1>2, <2>1
     DEF SendOther, TypeOK, QueueTypes, CountTypes, TreeTypes, ControlTypes,
         queueVars, countVars, treeVars, ssiVars
<1>3. ASSUME NEW d \in issued, SendContinue(t, d) PROVE TypeOK'
  <2>1. MailTypes'
    BY <1>3 DEF SendContinue, Verdict, TypeOK, MailTypes
  <2>2. softBlockCount' \in 0 .. Word - 1 /\ d \in UserTcb
    BY <1>3, CounterTypes DEF SendContinue, startThread, TypeOK, CountTypes, TreeTypes
  <2>3. Append(readyQueue, d) \in Seq(Threads)
    BY <2>2, AppendProperties DEF TypeOK, QueueTypes
  <2>4. /\ readyQueue' \in Seq(Threads) /\ waitQueue' \subseteq Threads
        /\ power' \in {"on", "halted", "panicked", "faulted", "corrupt"}
    BY <1>3, <2>3
    DEF SendContinue, startThread, insertThread, TypeOK, QueueTypes, ControlTypes
  <2> QED BY <1>3, <2>1, <2>2, <2>4
     DEF SendContinue, TypeOK, QueueTypes, CountTypes, TreeTypes, ControlTypes,
         queueVars, countVars, treeVars, ssiVars
<1>4. ASSUME NEW d \in issued, SendTerminate(t, d) PROVE TypeOK'
  <2>1. MailTypes'
    BY <1>4 DEF SendTerminate, Verdict, TypeOK, MailTypes
  <2> QED BY <1>4, <2>1
     DEF SendTerminate, TypeOK, QueueTypes, CountTypes, TreeTypes, ControlTypes,
         queueVars, countVars, treeVars, ssiVars
<1>5. ASSUME NEW service \in Services, NEW payload \in issued \cup {NULL},
             SendSsi(t, service, payload)
      PROVE TypeOK'
  <2>1. pc' \in [Tcb -> {"run", "sys", SSI_MAGIC, NULL} \cup UserTcb]
    BY <1>5 DEF SendSsi, TypeOK, ControlTypes
  <2>2. /\ readyQueue' \in Seq(Threads) /\ waitQueue' \subseteq Threads
        /\ softBlockCount' \in 0 .. Word - 1 /\ MailTypes'
    <3>1. CASE msgFree = 0
      BY <1>5, <3>1
      DEF SendSsi, TypeOK, QueueTypes, CountTypes, MailTypes, mailVars
    <3>2. CASE msgFree # 0
      <4> DEFINE m == RequestMsg(t, service, payload)
      <4>1. m \in Request \cup {Tick} /\ m \in Msg /\ msgFree > 0
        BY <3>2, MsgTypes DEF TypeOK, TreeTypes, MailTypes
      <4>2. Deliver(tcb_SSI, m)
        BY <1>5, <3>2 DEF SendSsi
      <4> HIDE DEF m
      <4> QED BY <4>1, <4>2, DeliverTypes
    <3> QED BY <3>1, <3>2
  <2> QED BY <1>5, <2>1, <2>2
     DEF SendSsi, TypeOK, QueueTypes, CountTypes, TreeTypes, ControlTypes,
         queueVars, countVars, treeVars, ssiVars
<1>6. ASSUME NEW source \in issued \cup {NULL, SSI_MAGIC}, RecvTake(t, source)
      PROVE TypeOK'
  <2>1. MailTypes'
    BY <1>6, ReceiveTypes DEF RecvTake
  <2>2. pc' \in [Tcb -> {"run", "sys", SSI_MAGIC, NULL} \cup UserTcb]
    BY <1>6 DEF RecvTake, TypeOK, ControlTypes
  <2> QED BY <1>6, <2>1, <2>2
     DEF RecvTake, TypeOK, QueueTypes, CountTypes, TreeTypes, ControlTypes,
         queueVars, countVars, treeVars, ssiVars
<1>7. ASSUME NEW source \in issued \cup {NULL, SSI_MAGIC}, RecvBlock(t, source)
      PROVE TypeOK'
  <2>1. Block(t, readyQueue, waitQueue, softBlockCount)
    BY <1>7 DEF RecvBlock, Await
  <2>2. /\ readyQueue \in Seq(Threads) /\ waitQueue \in SUBSET Threads
        /\ softBlockCount \in 0 .. Word - 1
    BY DEF TypeOK, QueueTypes, CountTypes
  <2>3. /\ currentThread' \in Threads \cup {NULL}
        /\ readyQueue' \in Seq(Threads) /\ waitQueue' \subseteq Threads
        /\ CountTypes' /\ pseudoClock' \in {"off", "fresh", "aged"}
        /\ power' \in {"on", "halted", "panicked", "faulted", "corrupt"}
    BY <2>1, <2>2, BlockTypes
  <2>4. pc' \in [Tcb -> {"run", "sys", SSI_MAGIC, NULL} \cup UserTcb]
    BY <1>7 DEF RecvBlock, TypeOK, ControlTypes, TreeTypes
  <2> QED BY <1>7, <2>3, <2>4
     DEF RecvBlock, TypeOK, QueueTypes, CountTypes, TreeTypes, MailTypes, ControlTypes,
         queueVars, countVars, treeVars, mailVars, ssiVars
<1>8. ASSUME NEW trap \in Traps, TrapKill(t, trap) PROVE TypeOK'
  <2>1. pc' \in [Tcb -> {"run", "sys", SSI_MAGIC, NULL} \cup UserTcb]
    BY <1>8 DEF TrapKill, PcAfter, TypeOK, ControlTypes
  <2>2. QueueTypes'
    BY <1>8 DEF TrapKill, TypeOK, QueueTypes, queueVars, treeVars
  <2>3. ControlTypes'
    BY <1>8, <2>1 DEF TrapKill, TypeOK, ControlTypes, ssiVars
  <2> QED BY <1>8, <2>2, <2>3
     DEF TrapKill, TypeOK, CountTypes, TreeTypes, MailTypes, countVars, treeVars, mailVars
<1>9. ASSUME NEW trap \in Traps, TrapFault(t, trap) PROVE TypeOK'
  BY <1>9
     DEF TrapFault, TypeOK, QueueTypes, CountTypes, TreeTypes, MailTypes, ControlTypes,
         queueVars, countVars, treeVars, mailVars, ssiVars
<1>10. ASSUME NEW trap \in Traps, TrapPassUp(t, trap) PROVE TypeOK'
  <2> DEFINE m == mgr[t]["sys"]
  <2>1. m \in UserTcb
    BY <1>10 DEF TrapPassUp, TypeOK, TreeTypes, Traps
  <2>2. pc' \in [Tcb -> {"run", "sys", SSI_MAGIC, NULL} \cup UserTcb]
    BY <1>10 DEF TrapPassUp, PcAfter, TypeOK, ControlTypes
  <2>3. insertMessage(m, UserMsg(t)) /\ msgFree > 0
    BY <1>10 DEF TrapPassUp
  <2>4. Block(t, Woken(m), waitQueue \ {m}, SoftAfterWaking(m))
    BY <1>10 DEF TrapPassUp
  <2> HIDE DEF m
  <2>5. MailTypes'
    BY <2>1, <2>3, MsgTypes, InsertTypes
  <2>6. /\ currentThread' \in Threads \cup {NULL}
        /\ readyQueue' \in Seq(Threads) /\ waitQueue' \subseteq Threads
        /\ CountTypes' /\ pseudoClock' \in {"off", "fresh", "aged"}
        /\ power' \in {"on", "halted", "panicked", "faulted", "corrupt"}
    BY <2>1, <2>4, WakeTypes, BlockTypes
  <2> QED BY <1>10, <2>2, <2>5, <2>6
     DEF TrapPassUp, TypeOK, QueueTypes, CountTypes, TreeTypes, ControlTypes,
         queueVars, countVars, treeVars, ssiVars
<1> QED
  BY <1>1, <1>2, <1>3, <1>4, <1>5, <1>6, <1>7, <1>8, <1>9, <1>10 DEF UserStep

\* What createSon and createBrother leave when they create a thread, or none.
LEMMA CreateTypes ==
    ASSUME TypeOK, NEW p \in UserTcb \cup {tcb_init},
           NEW parent \in [Tcb -> UserTcb \cup {tcb_init, NULL}], Create(p, parent)
    PROVE  /\ tcbFree' \in Seq(UserTcb)
           /\ readyQueue' \in Seq(Threads)
           /\ threadCount' \in 0 .. Word - 1
           /\ TreeTypes'
           /\ MailTypes'
           /\ pc' \in [Tcb -> {"run", "sys", SSI_MAGIC, NULL} \cup UserTcb]
           /\ power' \in {"on", "halted", "panicked", "faulted", "corrupt"}
<1> USE TcbFacts DEF Threads
<1>1. CASE tcbFree = <<>>
  BY <1>1 DEF Create, TypeOK, QueueTypes, CountTypes, TreeTypes, MailTypes, ControlTypes,
              treeVars, mailVars
<1>2. CASE tcbFree # <<>>
  <2> DEFINE new == Head(tcbFree)
  <2>1. new \in UserTcb /\ new \in Tcb /\ Tail(tcbFree) \in Seq(UserTcb)
    BY <1>2, HeadTailProperties DEF TypeOK, QueueTypes
  <2>2. /\ tcbFree' = Tail(tcbFree)
        /\ t_parent' = [parent EXCEPT ![new] = p]
        /\ t_child' = insertChild([t_child EXCEPT ![new] = <<>>], p, new)
        /\ mgr' = [mgr EXCEPT ![new] = NoManager]
        /\ t_inbox' = [t_inbox EXCEPT ![new] = <<>>]
        /\ pc' = [pc EXCEPT ![new] = "run"]
        /\ issued' = issued \cup {new} /\ ownSib' = ownSib \ {new}
        /\ readyQueue' = insertThread(readyQueue, new)
        /\ threadCount' = Inc(threadCount)
        /\ power' = IF t_child[new] = <<>> THEN power ELSE "corrupt"
        /\ UNCHANGED msgFree
    BY <1>2 DEF Create
  <2> HIDE DEF new
  <2>3. readyQueue' \in Seq(Threads)
    BY <2>1, <2>2, AppendProperties DEF insertThread, TypeOK, QueueTypes
  <2>4. threadCount' \in 0 .. Word - 1
    BY <2>2, CounterTypes DEF TypeOK, CountTypes
  <2>5. t_child' \in [Tcb -> Seq(UserTcb)]
    <3> DEFINE cleared == [t_child EXCEPT ![new] = <<>>]
    <3>1. cleared \in [Tcb -> Seq(UserTcb)]
      BY <2>1 DEF TypeOK, TreeTypes
    <3>2. p \in Tcb /\ <<new>> \o cleared[p] \in Seq(UserTcb)
      BY <2>1, <3>1, ConcatProperties
    <3> HIDE DEF cleared
    <3>3. insertChild(cleared, p, new) \in [Tcb -> Seq(UserTcb)]
      BY <3>1, <3>2 DEF insertChild
    <3> QED BY <2>2, <3>3 DEF cleared
  <2>6. TreeTypes'
    <3>1. t_parent' \in [Tcb -> UserTcb \cup {tcb_init, NULL}]
      BY <2>1, <2>2
    <3>2. mgr' \in [Tcb -> [Traps -> UserTcb \cup {NULL}]]
      BY <2>1, <2>2 DEF NoManager, TypeOK, TreeTypes
    <3>3. ownSib' \subseteq Tcb
      BY <2>2 DEF TypeOK, TreeTypes
    <3> QED BY <2>1, <2>2, <2>5, <3>1, <3>2, <3>3 DEF TypeOK, TreeTypes
  <2>7. MailTypes'
    BY <2>1, <2>2 DEF TypeOK, MailTypes
  <2>8. pc' \in [Tcb -> {"run", "sys", SSI_MAGIC, NULL} \cup UserTcb]
    BY <2>1, <2>2 DEF TypeOK, ControlTypes
  <2> QED BY <2>1, <2>2, <2>3, <2>4, <2>6, <2>7, <2>8 DEF TypeOK, ControlTypes
<1> QED
  BY <1>1, <1>2

\* While the SSI serves or answers a request, its message is a request.
LEMMA ServedRequest ==
    ASSUME TypeOK, ssi_pc \in {"serve", "reply"}
    PROVE  /\ ssi_msg \in Request
           /\ ssi_msg.sender \in UserTcb
           /\ ssi_msg.payload \in UserTcb \cup {NULL}
  BY DEF TypeOK, ControlTypes, Request

\* The steps of the SSI keep the types.
LEMMA SsiStepTypes ==
    ASSUME TypeOK, SsiStep
    PROVE  TypeOK'
<1> USE TcbFacts DEF Threads
<1> DEFINE s == ssi_msg.sender
<1>1. ASSUME SsiReceive PROVE TypeOK'
  <2> DEFINE i == popMessage(t_inbox[tcb_SSI], NULL)
  <2>1. MailTypes' /\ i \in 1 .. Len(t_inbox[tcb_SSI])
    BY <1>1, ReceiveTypes DEF SsiReceive
  <2>2. t_inbox[tcb_SSI][i] \in Request \cup {Tick}
    <3> HIDE DEF i
    <3> QED BY <2>1, ElementOfSeq DEF TypeOK, MailTypes
  <2>3. /\ ssi_pc = "recv"
        /\ \/ ssi_pc' = "wake" /\ ssi_msg' = ssi_msg
           \/ ssi_pc' = "serve" /\ ssi_msg' \in Request
    BY <1>1, <2>2 DEF SsiReceive, SsiAt, Goes, Tick
  <2>4. ssi_msg' \in IF ssi_pc' \in {"serve", "reply"} THEN Request ELSE {NULL}
    BY <2>3 DEF TypeOK, ControlTypes
  <2>5. ssi_pc' \in {"recv", "serve", "wake", "wakeSend", "reply"}
    BY <2>3
  <2>6. ssi_temp' \in IF ssi_pc' = "wakeSend" THEN UserTcb ELSE {NULL}
    BY <1>1, <2>3 DEF SsiReceive, TypeOK, ControlTypes
  <2> QED BY <1>1, <2>1, <2>4, <2>5, <2>6
     DEF SsiReceive, TypeOK, QueueTypes, CountTypes, TreeTypes, ControlTypes,
         queueVars, countVars, treeVars, ssiVars
<1>2. ASSUME SsiBlock PROVE TypeOK'
  <2>1. Block(tcb_SSI, readyQueue, waitQueue, softBlockCount)
    BY <1>2 DEF SsiBlock, Await
  <2>2. /\ readyQueue \in Seq(Threads) /\ waitQueue \in SUBSET Threads
        /\ softBlockCount \in 0 .. Word - 1
    BY DEF TypeOK, QueueTypes, CountTypes
  <2>3. /\ currentThread' \in Threads \cup {NULL}
        /\ readyQueue' \in Seq(Threads) /\ waitQueue' \subseteq Threads
        /\ CountTypes' /\ pseudoClock' \in {"off", "fresh", "aged"}
        /\ power' \in {"on", "halted", "panicked", "faulted", "corrupt"}
    BY <2>1, <2>2, BlockTypes
  <2> QED BY <1>2, <2>3
     DEF SsiBlock, TypeOK, QueueTypes, CountTypes, TreeTypes, MailTypes, ControlTypes,
         queueVars, countVars, treeVars, mailVars, ssiVars
<1>3. ASSUME createSon \/ createBrother PROVE TypeOK'
  <2>1. PICK service \in {"CREATESON", "CREATEBROTHER"},
             p \in UserTcb \cup {tcb_init},
             parent \in [Tcb -> UserTcb \cup {tcb_init, NULL}] :
                ServeCreate(service, p, parent)
    <3>1. ssi_pc = "serve"
      BY <1>3 DEF createSon, createBrother, ServeCreate, Serves, SsiAt
    <3>2. s \in UserTcb /\ t_parent \in [Tcb -> UserTcb \cup {tcb_init, NULL}]
      BY <3>1, ServedRequest DEF TypeOK, TreeTypes
    <3> HIDE DEF s
    <3>3. CASE createSon
      BY <3>2, <3>3 DEF createSon, s
    <3>4. CASE createBrother
      <4> DEFINE p == IF t_parent[s] = NULL THEN tcb_init ELSE t_parent[s]
                 parent == [t_parent EXCEPT ![s] = p]
      <4>1. p \in UserTcb \cup {tcb_init}
        BY <3>2
      <4>2. parent \in [Tcb -> UserTcb \cup {tcb_init, NULL}]
        BY <3>2, <4>1
      <4>3. ServeCreate("CREATEBROTHER", p, parent)
        BY <3>4 DEF createBrother, s
      <4> HIDE DEF p, parent
      <4> QED BY <4>1, <4>2, <4>3
    <3> QED BY <1>3, <3>3, <3>4
  <2>2. Create(p, parent) /\ ssi_pc = "serve" /\ ssi_pc' = "reply"
    BY <2>1 DEF ServeCreate, Serves, SsiAt, Goes
  <2>3. /\ tcbFree' \in Seq(UserTcb) /\ readyQueue' \in Seq(Threads)
        /\ threadCount' \in 0 .. Word - 1 /\ TreeTypes' /\ MailTypes'
        /\ pc' \in [Tcb -> {"run", "sys", SSI_MAGIC, NULL} \cup UserTcb]
        /\ power' \in {"on", "halted", "panicked", "faulted", "corrupt"}
    BY <2>2, CreateTypes
  <2>4. QueueTypes' /\ CountTypes'
    BY <2>1, <2>3 DEF ServeCreate, TypeOK, QueueTypes, CountTypes
  <2>5. ControlTypes'
    BY <2>1, <2>2, <2>3 DEF ServeCreate, TypeOK, ControlTypes
  <2> QED BY <2>3, <2>4, <2>5 DEF TypeOK
<1>4. ASSUME getCpuTime PROVE TypeOK'
  <2>1. ssi_pc = "serve" /\ ssi_pc' = "reply"
    BY <1>4 DEF getCpuTime, Serves, SsiAt, Goes
  <2> QED BY <1>4, <2>1 DEF getCpuTime, TypeOK, QueueTypes, CountTypes, TreeTypes,
             MailTypes, ControlTypes, queueVars, countVars, treeVars, mailVars
<1>5. ASSUME waitForClock PROVE TypeOK'
  <2>1. ssi_pc = "serve" /\ ssi_pc' = "recv" /\ ssi_msg' = NULL
    BY <1>5 DEF waitForClock, Serves, SsiAt, Goes
  <2>2. s \in UserTcb
    BY <2>1, ServedRequest
  <2>3. /\ readyQueue' = RemoveFirst(readyQueue, s)
        /\ tcbFree' = RemoveFirst(tcbFree, s)
        /\ waitForPseudoClockQueue' = Append(RemoveFirst(waitForPseudoClockQueue, s), s)
    BY <1>5 DEF waitForClock, outThread, insertThread
  <2> HIDE DEF s
  <2>4. readyQueue' \in Seq(Threads) /\ tcbFree' \in Seq(UserTcb)
    BY <2>3, OutThreadType DEF TypeOK, QueueTypes
  <2>5. waitForPseudoClockQueue' \in Seq(UserTcb)
    BY <2>2, <2>3, OutThreadType, AppendProperties DEF TypeOK, QueueTypes
  <2>6. QueueTypes'
    BY <1>5, <2>4, <2>5 DEF waitForClock, TypeOK, QueueTypes
  <2>7. ControlTypes'
    BY <1>5, <2>1 DEF waitForClock, TypeOK, ControlTypes
  <2> QED BY <1>5, <2>6, <2>7 DEF waitForClock, TypeOK, CountTypes, TreeTypes,
             MailTypes, countVars, mailVars
<1>6. ASSUME ssiTerminate PROVE TypeOK'
  <2>1. ssi_pc = "serve" /\ ssi_pc' = "reply" /\ killing' = <<s>>
    BY <1>6 DEF ssiTerminate, Serves, SsiAt, Goes
  <2>2. s \in UserTcb
    BY <2>1, ServedRequest
  <2> HIDE DEF s
  <2>3. killing' \in Seq(UserTcb)
    BY <2>1, <2>2
  <2> QED BY <1>6, <2>1, <2>3 DEF ssiTerminate, TypeOK, QueueTypes, CountTypes,
             TreeTypes, MailTypes, ControlTypes, queueVars, countVars, treeVars, mailVars
<1>7. ASSUME NEW service \in SpecServices, specMgr(service) PROVE TypeOK'
  <2> DEFINE trap == TrapOf[service]
  <2>1. ssi_pc = "serve"
    BY <1>7 DEF specMgr, Serves, SsiAt
  <2>2. /\ s \in UserTcb /\ ssi_msg \in Request
        /\ ssi_msg.payload \in UserTcb \cup {NULL} /\ trap \in Traps
    BY <2>1, ServedRequest DEF SpecServices, TrapOf, Traps
  <2>3. \/ /\ killing' = <<s>> /\ ssi_pc' = "recv" /\ ssi_msg' = NULL /\ mgr' = mgr
        \/ /\ mgr' = [mgr EXCEPT ![s][trap] = ssi_msg.payload]
           /\ ssi_pc' = "reply" /\ killing' = killing /\ ssi_msg' = ssi_msg
    BY <1>7 DEF specMgr, Goes
  <2> HIDE DEF s, trap
  <2>4. killing' \in Seq(UserTcb)
    <3>1. killing \in Seq(UserTcb) /\ <<s>> \in Seq(UserTcb)
      BY <2>2 DEF TypeOK, QueueTypes
    <3> QED BY <2>3, <3>1
  <2>5. mgr' \in [Tcb -> [Traps -> UserTcb \cup {NULL}]]
    <3>1. mgr \in [Tcb -> [Traps -> UserTcb \cup {NULL}]]
      BY DEF TypeOK, TreeTypes
    <3>2. [mgr[s] EXCEPT ![trap] = ssi_msg.payload] \in [Traps -> UserTcb \cup {NULL}]
      BY <2>2, <3>1
    <3> QED BY <2>2, <2>3, <3>1, <3>2
  <2>6. ControlTypes'
    BY <1>7, <2>1, <2>2, <2>3 DEF specMgr, TypeOK, ControlTypes
  <2> QED BY <1>7, <2>4, <2>5, <2>6 DEF specMgr, TypeOK, QueueTypes, CountTypes,
             TreeTypes, MailTypes, queueVars, countVars, mailVars
<1>8. ASSUME reply PROVE TypeOK'
  <2> DEFINE m == [ssi_msg EXCEPT !.m_sender = SSI_MAGIC]
  <2>1. ssi_pc = "reply" /\ ssi_pc' = "recv" /\ ssi_msg' = NULL /\ SsiSend(s, m)
    BY <1>8 DEF reply, SsiAt, Goes
  <2>2. s \in UserTcb /\ m \in Msg
    BY <2>1, ServedRequest DEF Request, Msg
  <2> HIDE DEF s, m
  <2>3. /\ readyQueue' \in Seq(Threads) /\ waitQueue' \subseteq Threads
        /\ softBlockCount' \in 0 .. Word - 1 /\ MailTypes'
    <3>1. CASE msgFree = 0
      BY <2>1, <3>1
      DEF SsiSend, TypeOK, QueueTypes, CountTypes, MailTypes, mailVars
    <3>2. CASE msgFree # 0
      <4>1. msgFree > 0 /\ Deliver(s, m)
        BY <2>1, <3>2 DEF SsiSend, TypeOK, MailTypes
      <4> QED BY <2>2, <4>1, DeliverTypes
    <3> QED BY <3>1, <3>2
  <2>4. ControlTypes'
    BY <1>8, <2>1 DEF reply, TypeOK, ControlTypes
  <2> QED BY <1>8, <2>3, <2>4 DEF reply, TypeOK, QueueTypes, CountTypes, TreeTypes, treeVars
<1>9. ASSUME wakeUpPseudoClock PROVE TypeOK'
  <2>1. CASE waitForPseudoClockQueue = <<>>
    <3>1. /\ ssi_pc = "wake" /\ ssi_pc' = "recv"
          /\ UNCHANGED <<readyQueue, waitForPseudoClockQueue, ssi_temp>>
      BY <1>9, <2>1 DEF wakeUpPseudoClock, SsiAt, Goes
    <3> QED BY <1>9, <3>1 DEF wakeUpPseudoClock, TypeOK, QueueTypes, CountTypes,
               TreeTypes, MailTypes, ControlTypes, countVars, treeVars, mailVars
  <2>2. CASE waitForPseudoClockQueue # <<>>
    <3>1. /\ ssi_pc = "wake" /\ ssi_pc' = "wakeSend"
          /\ ssi_temp' = Head(waitForPseudoClockQueue)
          /\ waitForPseudoClockQueue' = Tail(waitForPseudoClockQueue)
          /\ readyQueue' = Append(readyQueue, ssi_temp')
      BY <1>9, <2>2 DEF wakeUpPseudoClock, SsiAt, Goes, insertThread
    <3>2. ssi_temp' \in UserTcb /\ waitForPseudoClockQueue' \in Seq(UserTcb)
      BY <2>2, <3>1, HeadTailProperties DEF TypeOK, QueueTypes
    <3>3. readyQueue' \in Seq(Threads)
      BY <3>1, <3>2, AppendProperties DEF TypeOK, QueueTypes
    <3>4. ControlTypes'
      BY <1>9, <3>1, <3>2 DEF wakeUpPseudoClock, TypeOK, ControlTypes
    <3> QED BY <1>9, <3>2, <3>3, <3>4 DEF wakeUpPseudoClock, TypeOK, QueueTypes,
               CountTypes, TreeTypes, MailTypes, countVars, treeVars, mailVars
  <2> QED BY <2>1, <2>2
<1>10. ASSUME wakeUpSend PROVE TypeOK'
  <2>1. ssi_pc = "wakeSend" /\ ssi_pc' = "wake" /\ ssi_temp' = NULL
    BY <1>10 DEF wakeUpSend, SsiAt, Goes
  <2>2. ssi_temp \in UserTcb
    BY <2>1 DEF TypeOK, ControlTypes
  <2>3. MailTypes'
    <3>1. CASE msgFree = 0
      BY <1>10, <3>1 DEF wakeUpSend, TypeOK, MailTypes, mailVars
    <3>2. CASE msgFree # 0
      <4>1. msgFree > 0 /\ insertMessage(ssi_temp, WakeMsg)
        BY <1>10, <3>2 DEF wakeUpSend, TypeOK, MailTypes
      <4> QED BY <2>2, <4>1, MsgTypes, InsertTypes
    <3> QED BY <3>1, <3>2
  <2>4. Append(readyQueue, ssi_temp) \in Seq(Threads)
    BY <2>2, AppendProperties DEF TypeOK, QueueTypes
  <2>5. readyQueue' \in Seq(Threads) /\ waitQueue' \subseteq Threads
    BY <1>10, <2>4 DEF wakeUpSend, insertThread, TypeOK, QueueTypes
  <2>6. softBlockCount' \in 0 .. Word - 1
    BY <1>10, CounterTypes DEF wakeUpSend, TypeOK, CountTypes
  <2>7. ControlTypes'
    BY <1>10, <2>1 DEF wakeUpSend, TypeOK, ControlTypes
  <2> QED BY <1>10, <2>3, <2>5, <2>6, <2>7 DEF wakeUpSend, TypeOK, QueueTypes,
             CountTypes, TreeTypes, treeVars
<1> QED
  BY <1>1, <1>2, <1>3, <1>4, <1>5, <1>6, <1>7, <1>8, <1>9, <1>10 DEF SsiStep

\* The steps of terminate() keep the types.
LEMMA KillStepTypes ==
    ASSUME TypeOK, NEW k \in UserTcb,
           killChild(k) \/ killThread(k) \/ killCorrupt(k) \/ killPanic(k)
    PROVE  TypeOK'
<1> USE TcbFacts DEF Threads
<1>1. ASSUME killChild(k) PROVE TypeOK'
  <2> DEFINE c == Head(t_child[k])
  <2>1. c \in UserTcb /\ Tail(t_child[k]) \in Seq(UserTcb)
    BY <1>1, HeadTailProperties DEF killChild, TypeOK, TreeTypes
  <2>2. /\ t_child' = [t_child EXCEPT ![k] = Tail(@)]
        /\ t_parent' = [t_parent EXCEPT ![c] = NULL]
        /\ killing' = <<c>> \o killing
    BY <1>1 DEF killChild
  <2> HIDE DEF c
  <2>3. killing' \in Seq(UserTcb)
    <3>1. <<c>> \in Seq(UserTcb) /\ killing \in Seq(UserTcb)
      BY <2>1 DEF TypeOK, QueueTypes
    <3> QED BY <2>2, <3>1, ConcatProperties
  <2>4. /\ t_child' \in [Tcb -> Seq(UserTcb)]
        /\ t_parent' \in [Tcb -> UserTcb \cup {tcb_init, NULL}]
    BY <2>1, <2>2 DEF TypeOK, TreeTypes
  <2> QED BY <1>1, <2>3, <2>4 DEF killChild, TypeOK, QueueTypes, CountTypes, TreeTypes,
             MailTypes, ControlTypes, queueVars, countVars, mailVars, ssiVars
<1>2. ASSUME killThread(k) PROVE TypeOK'
  <2> DEFINE cur == IF k = currentThread THEN NULL ELSE currentThread
             wait == k # currentThread /\ k \in waitQueue
             clock == k # currentThread /\ ~wait /\ Contains(waitForPseudoClockQueue, k)
             ready == IF k = currentThread \/ wait \/ clock
                      THEN readyQueue ELSE outThread(readyQueue, k)
  <2>1. /\ t_child' = outChild(t_child, t_parent, k)
        /\ t_parent' = [t_parent EXCEPT ![k] = NULL]
        /\ waitQueue' = IF wait THEN waitQueue \ {k} ELSE waitQueue
        /\ waitForPseudoClockQueue' =
              IF clock THEN outThread(waitForPseudoClockQueue, k)
              ELSE waitForPseudoClockQueue
        /\ softBlockCount' = IF wait \/ clock THEN Dec(softBlockCount) ELSE softBlockCount
        /\ release(k)
        /\ killing # <<>> /\ killing' = Tail(killing)
        /\ IF killing' = <<>>
           THEN schedule(ready, cur, FALSE, pseudoClock)
           ELSE readyQueue' = ready /\ currentThread' = cur /\ UNCHANGED <<pseudoClock, power>>
        /\ UNCHANGED <<mgr, issued, ownSib, pc, ssiVars>>
    BY <1>2, Zenon DEF killThread, Killing
  <2>2. ready \in Seq(Threads) /\ cur \in Threads \cup {NULL}
    BY OutThreadType DEF TypeOK, QueueTypes, outThread
  <2>3. /\ waitQueue' \subseteq Threads
        /\ waitForPseudoClockQueue' \in Seq(UserTcb)
    BY <2>1, OutThreadType DEF TypeOK, QueueTypes, outThread
  <2> HIDE DEF cur, wait, clock, ready
  <2>4. /\ currentThread' \in Threads \cup {NULL} /\ readyQueue' \in Seq(Threads)
        /\ pseudoClock' \in {"off", "fresh", "aged"}
        /\ power' \in {"on", "halted", "panicked", "faulted", "corrupt"}
    <3>1. CASE killing' = <<>>
      <4>1. schedule(ready, cur, FALSE, pseudoClock) /\ pseudoClock \in {"off", "fresh", "aged"}
        BY <2>1, <3>1 DEF TypeOK, ControlTypes
      <4> QED BY <2>2, <4>1, ScheduleTypes
    <3>2. CASE killing' # <<>>
      BY <2>1, <2>2, <3>2 DEF TypeOK, ControlTypes
    <3> QED BY <3>1, <3>2
  <2>5. tcbFree' \in Seq(UserTcb)
    <3>1. <<k>> \in Seq(UserTcb) /\ tcbFree \in Seq(UserTcb) /\ tcbFree' = <<k>> \o tcbFree
      BY <2>1 DEF TypeOK, QueueTypes, release
    <3> QED BY <3>1, ConcatProperties
  <2>6. killing' \in Seq(UserTcb)
    BY <2>1, HeadTailProperties DEF TypeOK, QueueTypes
  <2>7. CountTypes'
    BY <2>1, CounterTypes DEF release, TypeOK, CountTypes
  <2>8. TreeTypes'
    <3>1. t_child' \in [Tcb -> Seq(UserTcb)]
      <4>1. CASE t_parent[k] = NULL
        BY <2>1, <4>1 DEF outChild, TypeOK, TreeTypes
      <4>2. CASE t_parent[k] # NULL
        <5> DEFINE p == t_parent[k]
        <5>1. p \in Tcb /\ t_child \in [Tcb -> Seq(UserTcb)]
          BY <4>2 DEF TypeOK, TreeTypes
        <5>2. t_child' = [t_child EXCEPT ![p] = RemoveFirst(@, k)]
          BY <2>1, <4>2 DEF outChild
        <5> HIDE DEF p
        <5>3. RemoveFirst(t_child[p], k) \in Seq(UserTcb)
          BY <5>1, OutThreadType
        <5> QED BY <5>1, <5>2, <5>3
      <4> QED BY <4>1, <4>2
    <3> QED BY <2>1, <3>1 DEF TypeOK, TreeTypes
  <2>9. MailTypes'
    <3>1. t_inbox[k] \in Seq(Msg) /\ Len(t_inbox[k]) \in Nat
      BY LenProperties DEF TypeOK, MailTypes
    <3>2. t_inbox' = [t_inbox EXCEPT ![k] = <<>>] /\ msgFree' = msgFree + Len(t_inbox[k])
      BY <2>1 DEF release
    <3> QED BY <3>1, <3>2 DEF TypeOK, MailTypes
  <2>10. QueueTypes'
    BY <2>3, <2>4, <2>5, <2>6 DEF QueueTypes
  <2>11. ControlTypes'
    BY <2>1, <2>4 DEF TypeOK, ControlTypes, ssiVars
  <2> QED BY <2>7, <2>8, <2>9, <2>10, <2>11 DEF TypeOK
<1>3. ASSUME killCorrupt(k) PROVE TypeOK'
  BY <1>3 DEF killCorrupt, TypeOK, QueueTypes, CountTypes, TreeTypes, MailTypes,
              ControlTypes, queueVars, countVars, treeVars, mailVars, ssiVars
<1>4. ASSUME killPanic(k) PROVE TypeOK'
  BY <1>4 DEF killPanic, TypeOK, QueueTypes, CountTypes, TreeTypes, MailTypes,
              ControlTypes, queueVars, countVars, treeVars, mailVars, ssiVars
<1> QED
  BY <1>1, <1>2, <1>3, <1>4

\* The timer interrupts keep the types.
LEMMA TimerStepTypes ==
    ASSUME TypeOK, TimerSlice \/ TimerTick \/ TimerFault
    PROVE  TypeOK'
<1> USE TcbFacts DEF Threads
<1>1. ASSUME TimerSlice PROVE TypeOK'
  <2>1. PICK clock \in {"off", "fresh"} :
            schedule(readyQueue, currentThread, currentThread # NULL, clock)
    BY <1>1 DEF TimerSlice
  <2>2. /\ readyQueue \in Seq(Threads) /\ currentThread \in Threads \cup {NULL}
        /\ clock \in {"off", "fresh", "aged"} /\ (currentThread # NULL) \in BOOLEAN
    BY DEF TypeOK, QueueTypes
  <2>3. /\ currentThread' \in Threads \cup {NULL} /\ readyQueue' \in Seq(Threads)
        /\ pseudoClock' \in {"off", "fresh", "aged"}
        /\ power' \in {"on", "halted", "panicked", "faulted", "corrupt"}
    BY <2>1, <2>2, ScheduleTypes
  <2> QED BY <1>1, <2>3 DEF TimerSlice, TypeOK, QueueTypes, CountTypes, TreeTypes,
             MailTypes, ControlTypes, countVars, treeVars, mailVars, ssiVars
<1>2. ASSUME TimerTick PROVE TypeOK'
  <2>1. /\ insertMessage(tcb_SSI, Tick) /\ msgFree > 0
        /\ waitQueue' = waitQueue \ {tcb_SSI}
        /\ schedule(Woken(tcb_SSI), currentThread, currentThread # NULL, "off")
    BY <1>2 DEF TimerTick, fakeSend
  <2>2. Woken(tcb_SSI) \in Seq(Threads) /\ waitQueue' \subseteq Threads
    BY <2>1, WakeTypes
  <2>3. currentThread \in Threads \cup {NULL} /\ (currentThread # NULL) \in BOOLEAN
    BY DEF TypeOK, QueueTypes
  <2>4. /\ currentThread' \in Threads \cup {NULL} /\ readyQueue' \in Seq(Threads)
        /\ pseudoClock' \in {"off", "fresh", "aged"}
        /\ power' \in {"on", "halted", "panicked", "faulted", "corrupt"}
    BY <2>1, <2>2, <2>3, ScheduleTypes
  <2>5. MailTypes'
    <3>1. Tick \in Msg /\ Tick \in Request \cup {Tick}
      BY MsgTypes
    <3> QED BY <2>1, <3>1, InsertTypes
  <2> QED BY <1>2, <2>2, <2>4, <2>5 DEF TimerTick, TypeOK, QueueTypes, CountTypes,
             TreeTypes, ControlTypes, countVars, treeVars, ssiVars
<1>3. ASSUME TimerFault PROVE TypeOK'
  BY <1>3 DEF TimerFault, TypeOK, QueueTypes, CountTypes, TreeTypes, MailTypes,
              ControlTypes, queueVars, countVars, treeVars, mailVars, ssiVars
<1> QED
  BY <1>1, <1>2, <1>3

\* No step of the nucleus, nor the end of the machine, breaks the types.
LEMMA NextTypes == TypeOK /\ [Next]_vars => TypeOK'
<1> SUFFICES ASSUME TypeOK, [Next]_vars PROVE TypeOK'
  OBVIOUS
<1>1. ASSUME NEW t \in UserTcb, UserStep(t) PROVE TypeOK'
  BY <1>1, UserStepTypes
<1>2. CASE SsiStep
  BY <1>2, SsiStepTypes
<1>3. CASE KillStep
  BY <1>3, KillStepTypes DEF KillStep
<1>4. CASE TimerSlice \/ TimerTick \/ TimerFault
  BY <1>4, TimerStepTypes
<1>5. CASE UNCHANGED vars
  BY <1>5 DEF vars, queueVars, countVars, treeVars, mailVars, ssiVars, TypeOK,
              QueueTypes, CountTypes, TreeTypes, MailTypes, ControlTypes
<1> QED
  BY <1>1, <1>2, <1>3, <1>4, <1>5 DEF Next, PowerOff

\* Every variable of the nucleus keeps its type: in particular the inbox of
\* the SSI holds only requests and ticks, whatever the threads do, and what
\* the SSI serves names a thread.
THEOREM TypeCorrect == Spec => []TypeOK
<1>1. Init => TypeOK
  BY InitTypes
<1>2. TypeOK /\ [Next]_vars => TypeOK'
  BY NextTypes
<1> QED
  BY <1>1, <1>2, PTL DEF Spec

-----------------------------------------------------------------------------
(* Every thread is in one place. *)

\* The current thread, if there is one.
Current == {currentThread} \ {NULL}

\* OnePlace, with the processor a place like the others.
Partition ==
    /\ IsInjective(readyQueue)
    /\ IsInjective(waitForPseudoClockQueue)
    /\ IsInjective(tcbFree)
    /\ waitQueue \cap (Ready \cup Sleeping \cup Free \cup Current) = {}
    /\ Ready \cap (Sleeping \cup Free \cup Current) = {}
    /\ Sleeping \cap (Free \cup Current) = {}
    /\ Free \cap Current = {}
    /\ waitQueue \cup Ready \cup Sleeping \cup Free \cup Current = Threads

\* What the types say of the places.
LEMMA PlaceTypes ==
    ASSUME TypeOK
    PROVE  /\ readyQueue \in Seq(Threads) /\ waitForPseudoClockQueue \in Seq(Threads)
           /\ tcbFree \in Seq(Threads)
           /\ Ready \subseteq Threads /\ Sleeping \subseteq UserTcb /\ Free \subseteq UserTcb
           /\ waitQueue \subseteq Threads /\ Current \subseteq Threads
           /\ currentThread \in Threads \cup {NULL} /\ NULL \notin Threads
<1>1. /\ readyQueue \in Seq(Threads) /\ waitForPseudoClockQueue \in Seq(UserTcb)
      /\ tcbFree \in Seq(UserTcb) /\ waitQueue \subseteq Threads
      /\ currentThread \in Threads \cup {NULL}
  BY DEF TypeOK, QueueTypes, Threads
<1>2. \A S : \A s \in Seq(S) : ToSet(s) \subseteq S
  BY LenProperties, ElementOfSeq DEF ToSet
<1> QED
  BY <1>1, <1>2, TcbFacts DEF Ready, Sleeping, Free, Current, Threads

\* The two ways to say that every thread is in one place.
LEMMA PartitionIsOnePlace == TypeOK => (OnePlace <=> Partition)
<1> SUFFICES ASSUME TypeOK PROVE OnePlace <=> Partition
  OBVIOUS
<1>1. NULL \notin waitQueue \cup Ready \cup Sleeping \cup Free
  BY PlaceTypes, TcbFacts DEF Threads
<1>2. currentThread \in waitQueue \cup Ready \cup Sleeping \cup Free
         <=> Current \cap (waitQueue \cup Ready \cup Sleeping \cup Free) # {}
  BY <1>1 DEF Current
<1>3. OnePlace => Partition
  BY <1>1, <1>2, PlaceTypes DEF OnePlace, Partition, Current, Threads
<1>4. Partition => OnePlace
  BY <1>1, <1>2, PlaceTypes DEF OnePlace, Partition, Current, Threads
<1> QED
  BY <1>3, <1>4

\* schedule() only exchanges threads between the processor and the queue.
LEMMA SchedulePlaces ==
    ASSUME NEW queue \in Seq(Threads), NEW cur \in Threads \cup {NULL},
           NEW sliced \in BOOLEAN, NEW clock,
           IsInjective(queue), cur \notin ToSet(queue),
           schedule(queue, cur, sliced, clock)
    PROVE  /\ IsInjective(readyQueue')
           /\ currentThread' \notin Ready'
           /\ Ready' \cup Current' = ToSet(queue) \cup ({cur} \ {NULL})
<1> USE TcbFacts DEF Threads
<1> DEFINE run == IF Preempts(sliced, cur) THEN insertThread(queue, cur) ELSE queue
           switches == cur = NULL \/ Preempts(sliced, cur)
<1>1. IF switches /\ run # <<>>
      THEN readyQueue' = Tail(run) /\ currentThread' = Head(run)
      ELSE readyQueue' = queue /\ currentThread' = cur
  BY DEF schedule
<1>2. CASE switches /\ run # <<>>
  <2>1. /\ run \in Seq(Threads) /\ IsInjective(run)
        /\ ToSet(run) = ToSet(queue) \cup ({cur} \ {NULL})
    <3>1. CASE Preempts(sliced, cur)
      <4>1. cur \in Threads /\ cur # NULL /\ run = Append(queue, cur)
        BY <3>1 DEF Preempts, insertThread
      <4> HIDE DEF run
      <4>2. /\ Append(queue, cur) \in Seq(Threads) /\ IsInjective(Append(queue, cur))
            /\ ToSet(Append(queue, cur)) = ToSet(queue) \cup {cur}
        BY <4>1, InsertThreadPlaces
      <4> QED BY <4>1, <4>2
    <3>2. CASE ~Preempts(sliced, cur)
      BY <1>2, <3>2
    <3> QED BY <3>1, <3>2
  <2>2. readyQueue' = Tail(run) /\ currentThread' = Head(run) /\ run # <<>>
    BY <1>1, <1>2
  <2> HIDE DEF run
  <2>3. /\ Head(run) \in Threads /\ Head(run) \in ToSet(run) /\ IsInjective(Tail(run))
        /\ ToSet(Tail(run)) = ToSet(run) \ {Head(run)}
    BY <2>1, <2>2, HeadTailPlaces
  <2> QED BY <2>1, <2>2, <2>3 DEF Ready, Current
<1>3. CASE ~(switches /\ run # <<>>)
  <2>1. readyQueue' = queue /\ currentThread' = cur
    BY <1>1, <1>3
  <2> QED BY <2>1 DEF Ready, Current
<1> QED
  BY <1>2, <1>3

\* Waking a thread moves it from the waitQueue to the ready queue, or changes
\* nothing.
LEMMA WokenPlaces ==
    ASSUME TypeOK, Partition, NEW d \in Threads
    PROVE  /\ Woken(d) \in Seq(Threads) /\ IsInjective(Woken(d))
           /\ ToSet(Woken(d)) \cup (waitQueue \ {d}) = Ready \cup waitQueue
           /\ ToSet(Woken(d)) \cap (waitQueue \ {d}) = {}
<1>1. readyQueue \in Seq(Threads) /\ IsInjective(readyQueue) /\ waitQueue \cap Ready = {}
  BY DEF TypeOK, QueueTypes, Partition, Threads
<1>2. CASE d \in waitQueue
  <2>1. d \notin ToSet(readyQueue) /\ Woken(d) = Append(readyQueue, d)
    BY <1>1, <1>2 DEF Woken, insertThread, Ready
  <2> QED BY <1>1, <1>2, <2>1, InsertThreadPlaces DEF Ready
<1>3. CASE d \notin waitQueue
  BY <1>1, <1>3 DEF Woken, Ready
<1> QED
  BY <1>2, <1>3

\* A step that leaves the queues and the processor alone.
LEMMA SamePlaces ==
    ASSUME Partition, UNCHANGED <<currentThread, queueVars, tcbFree>>
    PROVE  Partition'
  BY DEF Partition, queueVars, Ready, Sleeping, Free, Current

\* A step that moves threads between the ready queue, the waitQueue and the
\* processor only.
LEMMA MovePlaces ==
    ASSUME Partition, UNCHANGED <<waitForPseudoClockQueue, tcbFree>>,
           IsInjective(readyQueue'), waitQueue' \cap (Ready' \cup Current') = {},
           Ready' \cap Current' = {},
           Ready' \cup waitQueue' \cup Current' = Ready \cup waitQueue \cup Current
    PROVE  Partition'
<1>1. Sleeping' = Sleeping /\ Free' = Free
  BY DEF Sleeping, Free
<1> QED
  BY <1>1 DEF Partition

\* A message that is queued wakes its receiver, or no one.
LEMMA DeliverPlaces ==
    ASSUME TypeOK, Partition, NEW d \in Threads, NEW m, Deliver(d, m),
           UNCHANGED <<currentThread, waitForPseudoClockQueue, tcbFree>>
    PROVE  Partition'
<1>1. /\ readyQueue' = Woken(d) /\ waitQueue' = waitQueue \ {d}
      /\ Current' = Current
  BY DEF Deliver, Current
<1>2. /\ IsInjective(readyQueue')
      /\ Ready' \cup waitQueue' = Ready \cup waitQueue /\ Ready' \cap waitQueue' = {}
  BY <1>1, WokenPlaces DEF Ready
<1> QED
  BY <1>1, <1>2, MovePlaces DEF Partition

\* A thread that blocks leaves the processor to a ready one.
LEMMA BlockPlaces ==
    ASSUME TypeOK, Partition, currentThread # NULL,
           NEW queue \in Seq(Threads), NEW wait \in SUBSET Threads, NEW soft,
           IsInjective(queue), ToSet(queue) \cap wait = {},
           ToSet(queue) \cup wait = Ready \cup waitQueue,
           Block(currentThread, queue, wait, soft),
           UNCHANGED <<waitForPseudoClockQueue, tcbFree>>
    PROVE  Partition'
<1>1. waitQueue' = wait \cup {currentThread} /\ schedule(queue, NULL, FALSE, pseudoClock)
  BY DEF Block
<1>2. NULL \notin ToSet(queue)
  BY PlaceTypes
<1>3. /\ IsInjective(readyQueue') /\ currentThread' \notin Ready'
      /\ Ready' \cup Current' = ToSet(queue)
  BY <1>1, <1>2, SchedulePlaces
<1>4. Current = {currentThread} /\ currentThread \notin Ready \cup waitQueue
  BY DEF Current, Partition
<1> QED
  BY <1>1, <1>3, <1>4, MovePlaces DEF Current

-----------------------------------------------------------------------------
(* One step per action. *)

\* The places after a step of a user thread.
LEMMA UserStepPlaces ==
    ASSUME TypeOK, Partition, NEW t \in UserTcb, UserStep(t)
    PROVE  Partition'
<1> USE TcbFacts DEF Threads
<1>0. t # NULL /\ issued \subseteq UserTcb
  BY DEF TypeOK, TreeTypes
<1>1. ASSUME NEW d \in issued, Send(t, d) PROVE Partition'
  <2>1. d \in Threads /\ Deliver(d, UserMsg(t))
        /\ UNCHANGED <<currentThread, waitForPseudoClockQueue, tcbFree>>
    BY <1>0, <1>1 DEF Send, treeVars
  <2> QED BY <2>1, DeliverPlaces
<1>2. ASSUME NEW d \in issued, SendOther(t, d) PROVE Partition'
  BY <1>2, SamePlaces DEF SendOther, treeVars
<1>3. ASSUME NEW d \in issued, SendContinue(t, d) PROVE Partition'
  <2>1. /\ d \in Threads /\ startThread(d)
        /\ UNCHANGED <<currentThread, waitForPseudoClockQueue, tcbFree>>
    BY <1>0, <1>3 DEF SendContinue, treeVars
  <2>2. waitQueue' = waitQueue \ {d} /\ readyQueue' = Woken(d) /\ Current' = Current
    BY <2>1 DEF startThread, Woken, Current
  <2>3. /\ IsInjective(readyQueue')
        /\ Ready' \cup waitQueue' = Ready \cup waitQueue /\ Ready' \cap waitQueue' = {}
    BY <2>1, <2>2, WokenPlaces DEF Ready
  <2> QED BY <2>1, <2>2, <2>3, MovePlaces DEF Partition
<1>4. ASSUME NEW d \in issued, SendTerminate(t, d) PROVE Partition'
  BY <1>4, SamePlaces DEF SendTerminate, treeVars
<1>5. ASSUME NEW service \in Services, NEW payload \in issued \cup {NULL},
             SendSsi(t, service, payload)
      PROVE Partition'
  <2>1. UNCHANGED <<currentThread, waitForPseudoClockQueue, tcbFree>>
    BY <1>5 DEF SendSsi, treeVars
  <2>2. CASE msgFree = 0
    BY <1>5, <2>1, <2>2, SamePlaces DEF SendSsi, queueVars
  <2>3. CASE msgFree # 0
    BY <1>5, <2>1, <2>3, DeliverPlaces DEF SendSsi
  <2> QED BY <2>2, <2>3
<1>6. ASSUME NEW source, RecvTake(t, source) PROVE Partition'
  BY <1>6, SamePlaces DEF RecvTake, treeVars
<1>7. ASSUME NEW source, RecvBlock(t, source) PROVE Partition'
  <2>1. /\ currentThread = t /\ Block(t, readyQueue, waitQueue, softBlockCount)
        /\ UNCHANGED <<waitForPseudoClockQueue, tcbFree>>
    BY <1>7 DEF RecvBlock, RecvFrom, UserRuns, Running, Await, treeVars
  <2>2. IsInjective(readyQueue) /\ ToSet(readyQueue) \cap waitQueue = {}
    BY DEF Partition, Ready
  <2> QED BY <1>0, <2>1, <2>2, PlaceTypes, BlockPlaces DEF Ready
<1>8. ASSUME NEW trap \in Traps, TrapKill(t, trap) PROVE Partition'
  BY <1>8, SamePlaces DEF TrapKill, treeVars
<1>9. ASSUME NEW trap \in Traps, TrapFault(t, trap) PROVE Partition'
  BY <1>9, SamePlaces DEF TrapFault, treeVars
<1>10. ASSUME NEW trap \in Traps, TrapPassUp(t, trap) PROVE Partition'
  <2> DEFINE m == mgr[t]["sys"]
  <2>1. /\ currentThread = t /\ m # NULL
        /\ Block(t, Woken(m), waitQueue \ {m}, SoftAfterWaking(m))
        /\ UNCHANGED <<waitForPseudoClockQueue, tcbFree>>
    BY <1>10 DEF TrapPassUp, TrapRaised, UserRuns, Running, treeVars
  <2>2. m \in Threads
    BY <2>1 DEF TypeOK, TreeTypes, Traps
  <2> HIDE DEF m
  <2>3. /\ Woken(m) \in Seq(Threads) /\ IsInjective(Woken(m))
        /\ ToSet(Woken(m)) \cup (waitQueue \ {m}) = Ready \cup waitQueue
        /\ ToSet(Woken(m)) \cap (waitQueue \ {m}) = {}
    BY <2>2, WokenPlaces
  <2>4. waitQueue \ {m} \in SUBSET Threads
    BY PlaceTypes
  <2> QED BY <1>0, <2>1, <2>3, <2>4, BlockPlaces
<1> QED
  BY <1>1, <1>2, <1>3, <1>4, <1>5, <1>6, <1>7, <1>8, <1>9, <1>10 DEF UserStep

\* The places after a step of the SSI.
LEMMA SsiStepPlaces ==
    ASSUME TypeOK, Partition, SsiStep
    PROVE  Partition'
<1> USE TcbFacts DEF Threads
<1> DEFINE s == ssi_msg.sender
<1>1. ASSUME SsiReceive PROVE Partition'
  BY <1>1, SamePlaces DEF SsiReceive, treeVars
<1>2. ASSUME SsiBlock PROVE Partition'
  <2>1. /\ currentThread = tcb_SSI /\ Block(tcb_SSI, readyQueue, waitQueue, softBlockCount)
        /\ UNCHANGED <<waitForPseudoClockQueue, tcbFree>>
    BY <1>2 DEF SsiBlock, SsiAt, Running, Await, treeVars
  <2>2. IsInjective(readyQueue) /\ ToSet(readyQueue) \cap waitQueue = {}
    BY DEF Partition, Ready
  <2> QED BY <2>1, <2>2, PlaceTypes, BlockPlaces DEF Ready
<1>3. ASSUME NEW service, NEW p, NEW parent, ServeCreate(service, p, parent)
      PROVE Partition'
  <2>1. Create(p, parent) /\ UNCHANGED <<currentThread, waitQueue, waitForPseudoClockQueue>>
    BY <1>3 DEF ServeCreate
  <2>2. CASE tcbFree = <<>>
    BY <2>1, <2>2, SamePlaces DEF Create, queueVars, treeVars
  <2>3. CASE tcbFree # <<>>
    <3> DEFINE new == Head(tcbFree)
    <3>1. tcbFree' = Tail(tcbFree) /\ readyQueue' = Append(readyQueue, new)
      BY <2>1, <2>3 DEF Create, insertThread
    <3>2. /\ new \in Threads /\ new \in Free /\ IsInjective(tcbFree')
          /\ Free' = Free \ {new}
      BY <2>3, <3>1, PlaceTypes, HeadTailPlaces DEF Partition, Free
    <3> HIDE DEF new
    <3>3. IsInjective(readyQueue') /\ Ready' = Ready \cup {new}
      <4>1. IsInjective(readyQueue) /\ new \notin ToSet(readyQueue)
        BY <3>2 DEF Partition, Ready
      <4> QED BY <3>1, <3>2, <4>1, PlaceTypes, InsertThreadPlaces DEF Ready
    <3>4. Sleeping' = Sleeping /\ Current' = Current
      BY <2>1 DEF Sleeping, Current
    <3> QED BY <2>1, <3>2, <3>3, <3>4 DEF Partition
  <2> QED BY <2>2, <2>3
<1>4. ASSUME getCpuTime PROVE Partition'
  BY <1>4, SamePlaces DEF getCpuTime, treeVars
<1>5. ASSUME waitForClock PROVE Partition'
  <2>1. /\ ssi_pc = "serve" /\ currentThread = tcb_SSI /\ currentThread' = tcb_SSI
        /\ readyQueue' = RemoveFirst(readyQueue, s) /\ waitQueue' = waitQueue \ {s}
        /\ tcbFree' = RemoveFirst(tcbFree, s)
        /\ waitForPseudoClockQueue' = Append(RemoveFirst(waitForPseudoClockQueue, s), s)
    BY <1>5 DEF waitForClock, Serves, SsiAt, Running, outThread, insertThread
  <2>2. s \in UserTcb
    BY <2>1, ServedRequest
  <2> HIDE DEF s
  <2>3. IsInjective(readyQueue') /\ Ready' = Ready \ {s}
    BY <2>1, PlaceTypes, OutThreadPlaces DEF Partition, Ready
  <2>4. IsInjective(tcbFree') /\ Free' = Free \ {s}
    BY <2>1, PlaceTypes, OutThreadPlaces DEF Partition, Free
  <2>5. IsInjective(waitForPseudoClockQueue') /\ Sleeping' = Sleeping \cup {s}
    <3> DEFINE q == RemoveFirst(waitForPseudoClockQueue, s)
    <3>1. q \in Seq(Threads) /\ IsInjective(q) /\ ToSet(q) = Sleeping \ {s}
      BY PlaceTypes, OutThreadType, OutThreadPlaces DEF Partition, Sleeping
    <3> HIDE DEF q
    <3>2. IsInjective(Append(q, s)) /\ ToSet(Append(q, s)) = ToSet(q) \cup {s}
      BY <2>2, <3>1, InsertThreadPlaces
    <3> QED BY <2>1, <3>1, <3>2 DEF Sleeping, q
  <2>6. Current = {tcb_SSI} /\ Current' = {tcb_SSI}
    BY <2>1 DEF Current
  <2> QED BY <2>1, <2>2, <2>3, <2>4, <2>5, <2>6 DEF Partition
<1>6. ASSUME ssiTerminate PROVE Partition'
  BY <1>6, SamePlaces DEF ssiTerminate, treeVars
<1>7. ASSUME NEW service \in SpecServices, specMgr(service) PROVE Partition'
  BY <1>7, SamePlaces DEF specMgr
<1>8. ASSUME reply PROVE Partition'
  <2> DEFINE m == [ssi_msg EXCEPT !.m_sender = SSI_MAGIC]
  <2>1. /\ ssi_pc = "reply" /\ SsiSend(s, m)
        /\ UNCHANGED <<currentThread, waitForPseudoClockQueue, tcbFree>>
    BY <1>8 DEF reply, SsiAt, treeVars
  <2>2. s \in Threads
    BY <2>1, ServedRequest
  <2> HIDE DEF s, m
  <2>3. CASE msgFree = 0
    BY <2>1, <2>3, SamePlaces DEF SsiSend, queueVars
  <2>4. CASE msgFree # 0
    BY <2>1, <2>2, <2>4, DeliverPlaces DEF SsiSend
  <2> QED BY <2>3, <2>4
<1>9. ASSUME wakeUpPseudoClock PROVE Partition'
  <2>1. UNCHANGED <<currentThread, waitQueue, tcbFree>>
    BY <1>9 DEF wakeUpPseudoClock, treeVars
  <2>2. CASE waitForPseudoClockQueue = <<>>
    BY <1>9, <2>1, <2>2, SamePlaces DEF wakeUpPseudoClock, queueVars
  <2>3. CASE waitForPseudoClockQueue # <<>>
    <3> DEFINE d == Head(waitForPseudoClockQueue)
    <3>1. /\ waitForPseudoClockQueue' = Tail(waitForPseudoClockQueue)
          /\ readyQueue' = Append(readyQueue, d)
      BY <1>9, <2>3 DEF wakeUpPseudoClock, insertThread
    <3>2. /\ d \in Threads /\ d \in Sleeping /\ IsInjective(waitForPseudoClockQueue')
          /\ Sleeping' = Sleeping \ {d}
      BY <2>3, <3>1, PlaceTypes, HeadTailPlaces DEF Partition, Sleeping
    <3> HIDE DEF d
    <3>3. IsInjective(readyQueue') /\ Ready' = Ready \cup {d}
      <4>1. IsInjective(readyQueue) /\ d \notin ToSet(readyQueue)
        BY <3>2 DEF Partition, Ready
      <4> QED BY <3>1, <3>2, <4>1, PlaceTypes, InsertThreadPlaces DEF Ready
    <3>4. Free' = Free /\ Current' = Current
      BY <2>1 DEF Free, Current
    <3> QED BY <2>1, <3>2, <3>3, <3>4 DEF Partition
  <2> QED BY <2>2, <2>3
<1>10. ASSUME wakeUpSend PROVE Partition'
  <2>1. UNCHANGED <<currentThread, waitForPseudoClockQueue, tcbFree>>
    BY <1>10 DEF wakeUpSend, treeVars
  <2>2. CASE ~(msgFree > 0 /\ ssi_temp \in waitQueue)
    BY <1>10, <2>1, <2>2, SamePlaces DEF wakeUpSend, queueVars
  <2>3. CASE msgFree > 0 /\ ssi_temp \in waitQueue
    <3>1. waitQueue' = waitQueue \ {ssi_temp} /\ readyQueue' = Woken(ssi_temp)
      BY <1>10, <2>3 DEF wakeUpSend, Woken
    <3>2. /\ IsInjective(readyQueue') /\ Ready' \cup waitQueue' = Ready \cup waitQueue
          /\ Ready' \cap waitQueue' = {}
      BY <2>3, <3>1, PlaceTypes, WokenPlaces DEF Ready
    <3>3. Current' = Current
      BY <2>1 DEF Current
    <3> QED BY <2>1, <3>1, <3>2, <3>3, MovePlaces DEF Partition
  <2> QED BY <2>2, <2>3
<1> QED
  BY <1>1, <1>2, <1>3, <1>4, <1>5, <1>6, <1>7, <1>8, <1>9, <1>10
  DEF SsiStep, createSon, createBrother

\* The places after a step of terminate().
LEMMA KillStepPlaces ==
    ASSUME TypeOK, Partition, NEW k \in UserTcb,
           killChild(k) \/ killThread(k) \/ killCorrupt(k) \/ killPanic(k)
    PROVE  Partition'
<1> USE TcbFacts DEF Threads
<1>1. CASE killChild(k) \/ killCorrupt(k) \/ killPanic(k)
  BY <1>1, SamePlaces DEF killChild, killCorrupt, killPanic, treeVars
<1>2. CASE killThread(k)
  <2> DEFINE cur == IF k = currentThread THEN NULL ELSE currentThread
             wait == k # currentThread /\ k \in waitQueue
             clock == k # currentThread /\ ~wait /\ Contains(waitForPseudoClockQueue, k)
             ready == IF k = currentThread \/ wait \/ clock
                      THEN readyQueue ELSE outThread(readyQueue, k)
  <2>1. /\ k = currentThread \/ InSomeQueue(k)
        /\ waitQueue' = IF wait THEN waitQueue \ {k} ELSE waitQueue
        /\ waitForPseudoClockQueue' =
              IF clock THEN outThread(waitForPseudoClockQueue, k)
              ELSE waitForPseudoClockQueue
        /\ tcbFree' = <<k>> \o tcbFree
        /\ IF killing' = <<>>
           THEN schedule(ready, cur, FALSE, pseudoClock)
           ELSE readyQueue' = ready /\ currentThread' = cur
    BY <1>2, Zenon DEF killThread, release
  <2>2. \A q : Contains(q, k) <=> k \in ToSet(q)
    BY DEF Contains, ToSet
  <2>3. /\ k = currentThread \/ k \in waitQueue \/ k \in Sleeping \/ k \in Ready
        /\ k \notin Free
    BY <2>1, <2>2, PlaceTypes DEF InSomeQueue, Partition, Sleeping, Ready, Current
  <2>4. waitQueue' = waitQueue \ {k}
    BY <2>1 DEF Partition, Current
  <2>5. IsInjective(waitForPseudoClockQueue') /\ Sleeping' = Sleeping \ {k}
    <3>1. CASE clock
      BY <2>1, <3>1, PlaceTypes, OutThreadPlaces DEF outThread, Partition, Sleeping
    <3>2. CASE ~clock
      <4>1. k \notin Sleeping
        BY <2>2, <3>2 DEF Partition, Sleeping, Current
      <4> QED BY <2>1, <3>2, <4>1 DEF Partition, Sleeping
    <3> QED BY <3>1, <3>2
  <2>6. ready \in Seq(Threads) /\ IsInjective(ready) /\ ToSet(ready) = Ready \ {k}
    <3>1. CASE k = currentThread \/ wait \/ clock
      <4>1. k \notin Ready
        BY <2>2, <3>1 DEF Partition, Sleeping, Current
      <4> QED BY <3>1, <4>1, PlaceTypes DEF Partition, Ready
    <3>2. CASE ~(k = currentThread \/ wait \/ clock)
      BY <3>2, PlaceTypes, OutThreadType, OutThreadPlaces DEF outThread, Partition, Ready
    <3> QED BY <3>1, <3>2
  <2>7. cur \in Threads \cup {NULL} /\ {cur} \ {NULL} = Current \ {k}
    BY PlaceTypes DEF Current
  <2>8. IsInjective(tcbFree') /\ Free' = Free \cup {k}
    BY <2>1, <2>3, PlaceTypes, PushPlaces DEF Partition, Free
  <2> HIDE DEF ready, cur
  <2>9. cur \notin ToSet(ready)
    BY <2>6, <2>7, PlaceTypes DEF Partition, Current
  <2>10. /\ IsInjective(readyQueue') /\ Ready' \cap Current' = {}
         /\ Ready' \cup Current' = (Ready \cup Current) \ {k}
    <3>1. CASE killing' = <<>>
      <4>1. /\ IsInjective(readyQueue') /\ currentThread' \notin Ready'
            /\ Ready' \cup Current' = ToSet(ready) \cup ({cur} \ {NULL})
        BY <2>1, <2>6, <2>7, <2>9, <3>1, SchedulePlaces
      <4> QED BY <2>6, <2>7, <4>1 DEF Current
    <3>2. CASE killing' # <<>>
      <4>1. readyQueue' = ready /\ currentThread' = cur
        BY <2>1, <3>2
      <4> QED BY <2>6, <2>7, <2>9, <4>1 DEF Ready, Current
    <3> QED BY <3>1, <3>2
  <2> QED BY <2>3, <2>4, <2>5, <2>8, <2>10 DEF Partition
<1> QED
  BY <1>1, <1>2

\* The places after a timer interrupt.
LEMMA TimerStepPlaces ==
    ASSUME TypeOK, Partition, TimerSlice \/ TimerTick \/ TimerFault
    PROVE  Partition'
<1>1. CASE TimerSlice
  <2>1. PICK clock \in {"off", "fresh"} :
            schedule(readyQueue, currentThread, currentThread # NULL, clock)
    BY <1>1 DEF TimerSlice
  <2>2. /\ (currentThread # NULL) \in BOOLEAN /\ currentThread \notin ToSet(readyQueue)
        /\ IsInjective(readyQueue)
    BY PlaceTypes DEF Partition, Ready, Current
  <2>3. /\ IsInjective(readyQueue') /\ currentThread' \notin Ready'
        /\ Ready' \cup Current' = Ready \cup Current
    BY <2>1, <2>2, PlaceTypes, SchedulePlaces DEF Ready, Current
  <2>4. /\ UNCHANGED <<waitQueue, waitForPseudoClockQueue, tcbFree>>
        /\ waitQueue \cap (Ready \cup Current) = {}
    BY <1>1 DEF TimerSlice, treeVars, Partition
  <2> QED BY <2>3, <2>4, MovePlaces DEF Current
<1>2. CASE TimerTick
  <2>1. /\ waitQueue' = waitQueue \ {tcb_SSI}
        /\ schedule(Woken(tcb_SSI), currentThread, currentThread # NULL, "off")
        /\ UNCHANGED <<waitForPseudoClockQueue, tcbFree>>
    BY <1>2 DEF TimerTick, fakeSend, treeVars
  <2>2. /\ Woken(tcb_SSI) \in Seq(Threads) /\ IsInjective(Woken(tcb_SSI))
        /\ ToSet(Woken(tcb_SSI)) \cup waitQueue' = Ready \cup waitQueue
        /\ ToSet(Woken(tcb_SSI)) \cap waitQueue' = {}
    BY <2>1, WokenPlaces DEF Threads
  <2>3. (currentThread # NULL) \in BOOLEAN /\ currentThread \notin ToSet(Woken(tcb_SSI))
    BY <2>2, PlaceTypes DEF Partition, Current
  <2>4. /\ IsInjective(readyQueue') /\ currentThread' \notin Ready'
        /\ Ready' \cup Current' = ToSet(Woken(tcb_SSI)) \cup Current
    BY <2>1, <2>2, <2>3, PlaceTypes, SchedulePlaces DEF Current
  <2>5. waitQueue' \cap Current = {}
    BY <2>1 DEF Partition
  <2> QED BY <2>1, <2>2, <2>4, <2>5, MovePlaces DEF Current
<1>3. CASE TimerFault
  BY <1>3, SamePlaces DEF TimerFault, treeVars
<1> QED
  BY <1>1, <1>2, <1>3

\* The boot leaves the SSI running, the test thread ready, the rest free.
LEMMA InitPlaces == Init => Partition
<1> SUFFICES ASSUME Init PROVE Partition
  OBVIOUS
<1>1. /\ Ready = {tcb_test} /\ Sleeping = {} /\ Current = {tcb_SSI} /\ waitQueue = {}
      /\ Free = Tcb \ {tcb_init, tcb_SSI, tcb_test, tcb_lost}
  BY TcbAssumption DEF Init, Ready, Sleeping, Current, Free, ToSet
<1>2. IsInjective(readyQueue) /\ IsInjective(waitForPseudoClockQueue) /\ IsInjective(tcbFree)
  BY TcbAssumption DEF Init, IsInjective
<1> QED
  BY <1>1, <1>2, TcbAssumption DEF Partition, Threads, UserTcb

\* No step of the nucleus puts a thread in two places, or in none.
LEMMA NextPlaces == TypeOK /\ Partition /\ [Next]_vars => Partition'
<1> SUFFICES ASSUME TypeOK, Partition, [Next]_vars PROVE Partition'
  OBVIOUS
<1>1. ASSUME NEW t \in UserTcb, UserStep(t) PROVE Partition'
  BY <1>1, UserStepPlaces
<1>2. CASE SsiStep
  BY <1>2, SsiStepPlaces
<1>3. CASE KillStep
  BY <1>3, KillStepPlaces DEF KillStep
<1>4. CASE TimerSlice \/ TimerTick \/ TimerFault
  BY <1>4, TimerStepPlaces
<1>5. CASE UNCHANGED vars
  BY <1>5, SamePlaces DEF vars, treeVars
<1> QED
  BY <1>1, <1>2, <1>3, <1>4, <1>5 DEF Next, PowerOff

\* Every thread is on the processor or in exactly one of the ready, wait,
\* clock and free lists, in every state of the nucleus: no insertion ever
\* links a TCB that is still linked (tcb.c:93-137).
THEOREM EveryThreadInOnePlace == Spec => []OnePlace
<1>1. Init => TypeOK /\ Partition
  BY InitTypes, InitPlaces
<1>2. TypeOK /\ Partition /\ [Next]_vars => (TypeOK /\ Partition)'
  BY NextTypes, NextPlaces
<1>3. TypeOK /\ Partition => OnePlace
  BY PartitionIsOnePlace
<1> QED
  BY <1>1, <1>2, <1>3, PTL DEF Spec

-----------------------------------------------------------------------------
\* A machine that is not on stays as it is.
LEMMA OffLasts == power # "on" /\ [Next]_vars => UNCHANGED vars
<1> SUFFICES ASSUME power # "on", Next PROVE UNCHANGED vars
  OBVIOUS
<1>1. ASSUME NEW t \in UserTcb, UserStep(t) PROVE FALSE
  BY <1>1 DEF UserStep, Send, SendOther, SendContinue, SendTerminate, Verdict, Makes,
              SendSsi, RecvTake, RecvBlock, RecvFrom, TrapKill, TrapFault, TrapPassUp,
              TrapRaised, UserRuns, Running
<1>2. CASE SsiStep
  BY <1>2 DEF SsiStep, SsiReceive, SsiBlock, createSon, createBrother, ServeCreate,
              getCpuTime, waitForClock, ssiTerminate, specMgr, reply, wakeUpPseudoClock,
              wakeUpSend, Serves, SsiAt, Running
<1>3. CASE KillStep
  BY <1>3 DEF KillStep, killChild, killThread, killCorrupt, killPanic, Killing
<1>4. CASE TimerSlice \/ TimerTick \/ TimerFault
  BY <1>4 DEF TimerSlice, TimerTick, TimerFault, MayTick, InterruptsOn
<1> QED
  BY <1>1, <1>2, <1>3, <1>4 DEF Next, PowerOff

-----------------------------------------------------------------------------
(* Wakeups. *)

\* What NoLostWakeup says of one thread.
Source(t) == IF t = tcb_SSI THEN NULL ELSE pc[t]
WaitsRightly(t) == Source(t) \notin {"run", "sys"} => Matching(t_inbox[t], Source(t)) = {}

\* An empty inbox has no message to take.
LEMMA EmptyInbox == \A source : Matching(<<>>, source) = {}
  BY DEF Matching

\* A step after which the waiting threads waited before it, and kept their
\* messages, but for one that waits rightly.
LEMMA WakeupFrame ==
    ASSUME NoLostWakeup, NEW s, waitQueue' \subseteq waitQueue \cup {s},
           \A t \in waitQueue' \ {s} : pc'[t] = pc[t] /\ t_inbox'[t] = t_inbox[t],
           s \in waitQueue' => WaitsRightly(s)'
    PROVE  NoLostWakeup'
<1>1. \A t \in waitQueue : WaitsRightly(t)
  BY DEF NoLostWakeup, WaitsRightly, Source
<1>2. ASSUME NEW t \in waitQueue' PROVE WaitsRightly(t)'
  <2>1. CASE t = s
    BY <1>2, <2>1
  <2>2. CASE t # s
    <3>1. t \in waitQueue /\ pc'[t] = pc[t] /\ t_inbox'[t] = t_inbox[t]
      BY <1>2, <2>2
    <3>2. Source(t)' = Source(t)
      BY <3>1 DEF Source
    <3> QED BY <1>1, <3>1, <3>2 DEF WaitsRightly, Matching
  <2> QED BY <2>1, <2>2
<1> QED
  BY <1>2 DEF NoLostWakeup, WaitsRightly, Source

\* A step that leaves the waitQueue, the inboxes and the programs alone.
LEMMA WakeupSame ==
    ASSUME NoLostWakeup, UNCHANGED <<waitQueue, t_inbox, pc>>
    PROVE  NoLostWakeup'
  BY DEF NoLostWakeup, Matching

\* A message that is queued finds its receiver awake, or wakes it.
LEMMA DeliverWakeup ==
    ASSUME TypeOK, NoLostWakeup, NEW d \in Threads, NEW m, Deliver(d, m),
           \A t \in waitQueue' : pc'[t] = pc[t]
    PROVE  NoLostWakeup'
<1>1. waitQueue' = waitQueue \ {d} /\ waitQueue \subseteq Tcb /\ d \in Tcb
  BY PlaceTypes, TcbFacts DEF Deliver, Threads
<1>2. \A t \in Tcb \ {d} : t_inbox'[t] = t_inbox[t]
  BY <1>1, InsertInbox DEF Deliver
<1> QED
  BY <1>1, <1>2, WakeupFrame

\* The current thread does not wait.
LEMMA CurrentAwake ==
    ASSUME Partition, NEW t \in Threads, currentThread = t
    PROVE  t \notin waitQueue
  BY TcbFacts DEF Partition, Current, Threads

-----------------------------------------------------------------------------
(* One step per action. *)

\* No step of a user thread loses a wakeup.
LEMMA UserStepWakeup ==
    ASSUME TypeOK, Partition, NoLostWakeup, NEW t \in UserTcb, UserStep(t)
    PROVE  NoLostWakeup'
<1> USE TcbFacts DEF Threads
<1>0. /\ t # NULL /\ t # tcb_SSI /\ issued \subseteq UserTcb
      /\ pc \in [Tcb -> {"run", "sys", SSI_MAGIC, NULL} \cup UserTcb]
      /\ waitQueue \subseteq Tcb
  BY DEF TypeOK, TreeTypes, ControlTypes, QueueTypes
<1>1. ASSUME NEW d \in issued, Send(t, d) PROVE NoLostWakeup'
  <2>1. d \in Threads /\ Deliver(d, UserMsg(t)) /\ UNCHANGED pc
    BY <1>0, <1>1 DEF Send
  <2> QED BY <2>1, DeliverWakeup
<1>2. ASSUME NEW d \in issued, SendOther(t, d) PROVE NoLostWakeup'
  BY <1>2, WakeupSame DEF SendOther, queueVars
<1>3. ASSUME NEW d \in issued, SendContinue(t, d) PROVE NoLostWakeup'
  <2>1. waitQueue' \subseteq waitQueue /\ UNCHANGED <<t_inbox, pc>>
    BY <1>3 DEF SendContinue, startThread
  <2> QED BY <2>1, PlaceTypes, WakeupFrame
<1>4. ASSUME NEW d \in issued, SendTerminate(t, d) PROVE NoLostWakeup'
  BY <1>4, WakeupSame DEF SendTerminate, queueVars
<1>5. ASSUME NEW service \in Services, NEW payload \in issued \cup {NULL},
             SendSsi(t, service, payload)
      PROVE NoLostWakeup'
  <2>1. t \notin waitQueue /\ pc' = [pc EXCEPT ![t] = SSI_MAGIC]
    BY <1>5, CurrentAwake DEF SendSsi, Makes, UserRuns, Running
  <2>2. \A u \in waitQueue : pc'[u] = pc[u]
    BY <1>0, <2>1
  <2>3. CASE msgFree = 0
    <3>1. UNCHANGED <<waitQueue, t_inbox>>
      BY <1>5, <2>3 DEF SendSsi, mailVars
    <3> QED BY <2>1, <2>2, <3>1, WakeupFrame
  <2>4. CASE msgFree # 0
    <3>1. Deliver(tcb_SSI, RequestMsg(t, service, payload))
      BY <1>5, <2>4 DEF SendSsi
    <3>2. waitQueue' \subseteq waitQueue
      BY <3>1 DEF Deliver
    <3> QED BY <2>2, <3>1, <3>2, DeliverWakeup
  <2> QED BY <2>3, <2>4
<1>6. ASSUME NEW source, RecvTake(t, source) PROVE NoLostWakeup'
  <2>1. /\ t \notin waitQueue /\ waitQueue' = waitQueue
        /\ pc' = [pc EXCEPT ![t] = "run"]
        /\ \E i : t_inbox' = [t_inbox EXCEPT ![t] = RemoveAt(@, i)]
    BY <1>6, CurrentAwake DEF RecvTake, RecvFrom, UserRuns, Running, queueVars, Receive
  <2>2. \A u \in waitQueue' \ {t} : pc'[u] = pc[u] /\ t_inbox'[u] = t_inbox[u]
    BY <1>0, <2>1 DEF TypeOK, MailTypes
  <2> QED BY <2>1, <2>2, WakeupFrame
<1>7. ASSUME NEW source, RecvBlock(t, source) PROVE NoLostWakeup'
  <2>1. /\ waitQueue' = waitQueue \cup {t} /\ pc' = [pc EXCEPT ![t] = source]
        /\ t_inbox' = t_inbox /\ Matching(t_inbox[t], source) = {}
    BY <1>7 DEF RecvBlock, Await, Block, mailVars
  <2>2. \A u \in waitQueue' \ {t} : pc'[u] = pc[u] /\ t_inbox'[u] = t_inbox[u]
    BY <1>0, <2>1
  <2>3. WaitsRightly(t)'
    BY <1>0, <2>1 DEF WaitsRightly, Source, Matching
  <2> QED BY <2>1, <2>2, <2>3, WakeupFrame
<1>8. ASSUME NEW trap \in Traps, TrapKill(t, trap) PROVE NoLostWakeup'
  <2>1. /\ t \notin waitQueue /\ UNCHANGED <<waitQueue, t_inbox>>
        /\ pc' = PcAfter(t, trap)
    BY <1>8, CurrentAwake DEF TrapKill, TrapRaised, UserRuns, Running, queueVars, mailVars
  <2>2. \A u \in waitQueue : pc'[u] = pc[u]
    BY <1>0, <2>1 DEF PcAfter
  <2> QED BY <2>1, <2>2, WakeupFrame
<1>9. ASSUME NEW trap \in Traps, TrapFault(t, trap) PROVE NoLostWakeup'
  BY <1>9, WakeupSame DEF TrapFault, queueVars, mailVars
<1>10. ASSUME NEW trap \in Traps, TrapPassUp(t, trap) PROVE NoLostWakeup'
  <2> DEFINE m == mgr[t]["sys"]
  <2>1. /\ m # NULL /\ insertMessage(m, UserMsg(t))
        /\ waitQueue' = (waitQueue \ {m}) \cup {t} /\ pc' = PcAfter(t, trap)
    BY <1>10 DEF TrapPassUp, Block
  <2>2. m \in UserTcb
    BY <2>1 DEF TypeOK, TreeTypes, Traps
  <2> HIDE DEF m
  <2>3. \A u \in Tcb \ {m} : t_inbox'[u] = t_inbox[u]
    BY <2>1, <2>2, InsertInbox
  <2>4. /\ \A u \in Tcb \ {t} : pc'[u] = pc[u]
        /\ pc'[t] \in {"run", "sys"}
    BY <1>0, <2>1 DEF PcAfter
  <2>5. WaitsRightly(t)'
    BY <1>0, <2>4 DEF WaitsRightly, Source
  <2>6. \A u \in waitQueue' \ {t} : u \in Tcb \ {m}
    BY <1>0, <2>1
  <2> QED BY <2>1, <2>3, <2>4, <2>5, <2>6, WakeupFrame
<1> QED
  BY <1>1, <1>2, <1>3, <1>4, <1>5, <1>6, <1>7, <1>8, <1>9, <1>10 DEF UserStep

\* No step of the SSI loses a wakeup.
LEMMA SsiStepWakeup ==
    ASSUME TypeOK, Partition, NoLostWakeup, SsiStep
    PROVE  NoLostWakeup'
<1> USE TcbFacts DEF Threads
<1> DEFINE s == ssi_msg.sender
<1>0. waitQueue \subseteq Tcb
  BY PlaceTypes
<1>1. ASSUME SsiReceive PROVE NoLostWakeup'
  <2>1. /\ tcb_SSI \notin waitQueue /\ UNCHANGED <<waitQueue, pc>>
        /\ \E i : t_inbox' = [t_inbox EXCEPT ![tcb_SSI] = RemoveAt(@, i)]
    BY <1>1, CurrentAwake DEF SsiReceive, SsiAt, Running, queueVars, Receive
  <2>2. \A u \in waitQueue' \ {tcb_SSI} : t_inbox'[u] = t_inbox[u]
    BY <1>0, <2>1 DEF TypeOK, MailTypes
  <2> QED BY <2>1, <2>2, WakeupFrame
<1>2. ASSUME SsiBlock PROVE NoLostWakeup'
  <2>1. /\ waitQueue' = waitQueue \cup {tcb_SSI} /\ UNCHANGED <<pc, t_inbox>>
        /\ Matching(t_inbox[tcb_SSI], NULL) = {}
    BY <1>2 DEF SsiBlock, Await, Block, mailVars
  <2>2. WaitsRightly(tcb_SSI)'
    BY <2>1 DEF WaitsRightly, Source, Matching
  <2> QED BY <2>1, <2>2, WakeupFrame
<1>3. ASSUME NEW service, NEW p, NEW parent, ServeCreate(service, p, parent)
      PROVE NoLostWakeup'
  <2>1. Create(p, parent) /\ UNCHANGED waitQueue
    BY <1>3 DEF ServeCreate
  <2>2. CASE tcbFree = <<>>
    BY <2>1, <2>2, WakeupSame DEF Create, mailVars
  <2>3. CASE tcbFree # <<>>
    <3> DEFINE new == Head(tcbFree)
    <3>1. /\ t_inbox' = [t_inbox EXCEPT ![new] = <<>>]
          /\ pc' = [pc EXCEPT ![new] = "run"]
      BY <2>1, <2>3 DEF Create
    <3>2. new \in Free /\ new \notin waitQueue
      BY <2>3, PlaceTypes, HeadTailPlaces DEF Partition, Free
    <3> HIDE DEF new
    <3>3. \A u \in waitQueue' \ {new} : pc'[u] = pc[u] /\ t_inbox'[u] = t_inbox[u]
      BY <1>0, <2>1, <3>1 DEF TypeOK, MailTypes, ControlTypes
    <3> QED BY <2>1, <3>2, <3>3, WakeupFrame
  <2> QED BY <2>2, <2>3
<1>4. ASSUME getCpuTime PROVE NoLostWakeup'
  BY <1>4, WakeupSame DEF getCpuTime, queueVars, mailVars
<1>5. ASSUME waitForClock PROVE NoLostWakeup'
  <2>1. waitQueue' \subseteq waitQueue /\ UNCHANGED <<t_inbox, pc>>
    BY <1>5 DEF waitForClock, mailVars
  <2> QED BY <2>1, PlaceTypes, WakeupFrame
<1>6. ASSUME ssiTerminate PROVE NoLostWakeup'
  BY <1>6, WakeupSame DEF ssiTerminate, queueVars, mailVars
<1>7. ASSUME NEW service \in SpecServices, specMgr(service) PROVE NoLostWakeup'
  BY <1>7, WakeupSame DEF specMgr, queueVars, mailVars
<1>8. ASSUME reply PROVE NoLostWakeup'
  <2> DEFINE m == [ssi_msg EXCEPT !.m_sender = SSI_MAGIC]
  <2>1. ssi_pc = "reply" /\ SsiSend(s, m) /\ UNCHANGED pc
    BY <1>8 DEF reply, SsiAt
  <2>2. s \in Threads
    BY <2>1, ServedRequest
  <2> HIDE DEF s, m
  <2>3. CASE msgFree = 0
    BY <2>1, <2>3, WakeupSame DEF SsiSend, mailVars
  <2>4. CASE msgFree # 0
    BY <2>1, <2>2, <2>4, DeliverWakeup DEF SsiSend
  <2> QED BY <2>3, <2>4
<1>9. ASSUME wakeUpPseudoClock PROVE NoLostWakeup'
  BY <1>9, WakeupSame DEF wakeUpPseudoClock, mailVars
<1>10. ASSUME wakeUpSend PROVE NoLostWakeup'
  <2>1. UNCHANGED pc /\ ssi_temp \in UserTcb
    BY <1>10 DEF wakeUpSend, SsiAt, TypeOK, ControlTypes
  <2>2. CASE msgFree = 0
    <3>1. UNCHANGED <<waitQueue, t_inbox>>
      BY <1>10, <2>2 DEF wakeUpSend, mailVars
    <3> QED BY <2>1, <3>1, WakeupSame
  <2>3. CASE msgFree # 0
    <3>1. insertMessage(ssi_temp, WakeMsg) /\ waitQueue' = waitQueue \ {ssi_temp}
      BY <1>10, <2>3 DEF wakeUpSend, TypeOK, MailTypes
    <3>2. \A u \in Tcb \ {ssi_temp} : t_inbox'[u] = t_inbox[u]
      BY <2>1, <3>1, InsertInbox
    <3> QED BY <1>0, <2>1, <3>1, <3>2, WakeupFrame
  <2> QED BY <2>2, <2>3
<1> QED
  BY <1>1, <1>2, <1>3, <1>4, <1>5, <1>6, <1>7, <1>8, <1>9, <1>10
  DEF SsiStep, createSon, createBrother

\* No step of terminate() loses a wakeup: the thread it frees waits no more.
LEMMA KillStepWakeup ==
    ASSUME TypeOK, NoLostWakeup, NEW k \in UserTcb,
           killChild(k) \/ killThread(k) \/ killCorrupt(k) \/ killPanic(k)
    PROVE  NoLostWakeup'
<1>1. CASE killChild(k) \/ killCorrupt(k) \/ killPanic(k)
  BY <1>1, WakeupSame DEF killChild, killCorrupt, killPanic, queueVars, mailVars
<1>2. CASE killThread(k)
  <2>1. /\ waitQueue' \subseteq waitQueue /\ UNCHANGED pc
        /\ t_inbox' = [t_inbox EXCEPT ![k] = <<>>]
    BY <1>2 DEF killThread, release
  <2>2. /\ \A u \in waitQueue' \ {k} : t_inbox'[u] = t_inbox[u]
        /\ t_inbox'[k] = <<>>
    BY <2>1, PlaceTypes, TcbFacts DEF TypeOK, MailTypes, Threads
  <2>3. WaitsRightly(k)'
    BY <2>2, EmptyInbox DEF WaitsRightly, Matching
  <2> QED BY <2>1, <2>2, <2>3, WakeupFrame
<1> QED
  BY <1>1, <1>2

\* No timer interrupt loses a wakeup: a tick wakes the SSI.
LEMMA TimerStepWakeup ==
    ASSUME TypeOK, NoLostWakeup, TimerSlice \/ TimerTick \/ TimerFault
    PROVE  NoLostWakeup'
<1>1. CASE TimerSlice \/ TimerFault
  BY <1>1, WakeupSame DEF TimerSlice, TimerFault, queueVars, mailVars
<1>2. CASE TimerTick
  <2>1. /\ insertMessage(tcb_SSI, Tick) /\ waitQueue' = waitQueue \ {tcb_SSI}
        /\ UNCHANGED pc
    BY <1>2 DEF TimerTick, fakeSend
  <2>2. \A u \in Tcb \ {tcb_SSI} : t_inbox'[u] = t_inbox[u]
    BY <2>1, TcbFacts, InsertInbox
  <2> QED BY <2>1, <2>2, PlaceTypes, TcbFacts, WakeupFrame DEF Threads
<1> QED
  BY <1>1, <1>2

\* No step of the nucleus loses a wakeup.
LEMMA NextWakeup == TypeOK /\ Partition /\ NoLostWakeup /\ [Next]_vars => NoLostWakeup'
<1> SUFFICES ASSUME TypeOK, Partition, NoLostWakeup, [Next]_vars PROVE NoLostWakeup'
  OBVIOUS
<1>1. ASSUME NEW t \in UserTcb, UserStep(t) PROVE NoLostWakeup'
  BY <1>1, UserStepWakeup
<1>2. CASE SsiStep
  BY <1>2, SsiStepWakeup
<1>3. CASE KillStep
  BY <1>3, KillStepWakeup DEF KillStep
<1>4. CASE TimerSlice \/ TimerTick \/ TimerFault
  BY <1>4, TimerStepWakeup
<1>5. CASE UNCHANGED vars
  BY <1>5, WakeupSame DEF vars, queueVars, mailVars
<1> QED
  BY <1>1, <1>2, <1>3, <1>4, <1>5 DEF Next, PowerOff

\* No thread ever sleeps in RECV with a message it would accept in its inbox,
\* in whatever order messages, receives, ticks, traps, creations and
\* terminations come.
THEOREM NoWakeupIsLost == Spec => []NoLostWakeup
<1>1. Init => TypeOK /\ Partition /\ NoLostWakeup
  BY InitTypes, InitPlaces DEF Init, NoLostWakeup
<1>2. TypeOK /\ Partition /\ NoLostWakeup /\ [Next]_vars
         => (TypeOK /\ Partition /\ NoLostWakeup)'
  BY NextTypes, NextPlaces, NextWakeup
<1> QED
  BY <1>1, <1>2, PTL DEF Spec

-----------------------------------------------------------------------------
(* The SSI keeps the processor. *)

\* A step that takes the processor from the SSI: it has nothing to serve.
SsiLeaves ==
    currentThread = tcb_SSI /\ currentThread' # tcb_SSI
        => ssi_pc = "recv" /\ t_inbox[tcb_SSI] = <<>>

\* schedule() does not switch while the SSI is current.
LEMMA ScheduleKeepsSsi ==
    ASSUME NEW queue, NEW sliced, NEW clock, schedule(queue, tcb_SSI, sliced, clock)
    PROVE  currentThread' = tcb_SSI
  BY TcbFacts DEF schedule, Preempts

\* No step of the nucleus takes the processor from an SSI with work to do.
LEMMA NextKeepsSsi == TypeOK /\ [Next]_vars => SsiLeaves
<1> SUFFICES ASSUME TypeOK, [Next]_vars, currentThread = tcb_SSI,
                    currentThread' # tcb_SSI
             PROVE  ssi_pc = "recv" /\ t_inbox[tcb_SSI] = <<>>
  BY DEF SsiLeaves
<1>1. ASSUME NEW t \in UserTcb, UserStep(t) PROVE FALSE
  <2>1. UserRuns(t)
    BY <1>1 DEF UserStep, Send, SendOther, SendContinue, SendTerminate, SendSsi, Verdict,
        Makes, RecvTake, RecvBlock, RecvFrom, TrapKill, TrapFault, TrapPassUp, TrapRaised
  <2> QED BY <2>1 DEF UserRuns, Running
<1>2. CASE SsiStep
  <2>1. SsiBlock
    BY <1>2 DEF SsiStep, SsiReceive, createSon, createBrother, ServeCreate, getCpuTime,
        waitForClock, ssiTerminate, specMgr, reply, wakeUpPseudoClock, wakeUpSend
  <2>2. ssi_pc = "recv" /\ 1 .. Len(t_inbox[tcb_SSI]) = {}
    BY <2>1 DEF SsiBlock, SsiAt, Await, Matching, Accepts
  <2>3. t_inbox[tcb_SSI] \in Seq(Msg)
    BY TcbFacts DEF TypeOK, MailTypes
  <2>4. Len(t_inbox[tcb_SSI]) = 0
    <3>1. Len(t_inbox[tcb_SSI]) \in Nat
      BY <2>3, LenProperties
    <3> QED BY <2>2, <3>1
  <2> QED BY <2>2, <2>3, <2>4, EmptySeq
<1>3. CASE KillStep
  <2>1. PICK k \in UserTcb : killThread(k)
    BY <1>3 DEF KillStep, killChild, killCorrupt, killPanic
  <2>2. k # currentThread
    BY TcbFacts
  <2>3. (\E queue : schedule(queue, currentThread, FALSE, pseudoClock))
        \/ currentThread' = currentThread
    BY <2>1, <2>2, Zenon DEF killThread
  <2> QED BY <2>3, ScheduleKeepsSsi
<1>4. CASE TimerSlice \/ TimerTick \/ TimerFault
  <2>1. \/ \E queue, sliced, clock : schedule(queue, currentThread, sliced, clock)
        \/ currentThread' = currentThread
    BY <1>4 DEF TimerSlice, TimerTick, TimerFault
  <2> QED BY <2>1, ScheduleKeepsSsi
<1>5. CASE UNCHANGED vars
  BY <1>5 DEF vars
<1> QED
  BY <1>1, <1>2, <1>3, <1>4, <1>5 DEF Next, PowerOff

\* The SSI gives up the processor only in a RECV that finds its inbox empty:
\* no timer interrupt, however late, preempts it in the middle of a service
\* (scheduler.c:70-75).
THEOREM SsiKeepsProcessor == Spec => SsiNotPreempted
<1>1. TypeOK /\ [Next]_vars
         => [currentThread = tcb_SSI /\ currentThread' # tcb_SSI
                => ssi_pc = "recv" /\ t_inbox[tcb_SSI] = <<>>]_vars
  BY NextKeepsSsi DEF SsiLeaves
<1> QED
  BY <1>1, TypeCorrect, PTL DEF Spec, SsiNotPreempted

-----------------------------------------------------------------------------
(* What lets a waiting thread go.                                          *)

\* A waiting user thread is made ready by a manager of it, or with a message.
Released(t) ==
    t \in waitQueue /\ t \in Ready'
        => IsManagerOf(currentThread, t) \/ t_inbox'[t] # t_inbox[t]

\* The inbox a message is queued in changes.
LEMMA InsertChanges ==
    ASSUME NEW d \in Tcb, NEW m, TypeOK, insertMessage(d, m)
    PROVE  t_inbox'[d] # t_inbox[d]
<1>1. t_inbox[d] \in Seq(Msg) /\ t_inbox'[d] = Append(t_inbox[d], m)
  BY DEF insertMessage, TypeOK, MailTypes
<1>2. Len(Append(t_inbox[d], m)) = Len(t_inbox[d]) + 1 /\ Len(t_inbox[d]) \in Nat
  BY <1>1, LenProperties
<1> QED
  BY <1>1, <1>2

\* A step that takes no other thread out of the waitQueue than the receiver
\* of a message.
LEMMA DeliverReleases ==
    ASSUME TypeOK, NEW d \in Tcb, NEW m, insertMessage(d, m),
           waitQueue \ {d} \subseteq waitQueue', Partition',
           NEW t
    PROVE  Released(t)
<1>1. t \in waitQueue' => t \notin Ready'
  BY DEF Partition
<1> QED
  BY <1>1, InsertChanges DEF Released

\* A step that takes no thread out of the waitQueue makes none of them ready.
LEMMA KeptWaiting ==
    ASSUME waitQueue \subseteq waitQueue', Partition', NEW t
    PROVE  Released(t)
  BY DEF Released, Partition

\* A user thread lets go the receiver of its message, or a thread it manages.
LEMMA UserStepReleases ==
    ASSUME TypeOK, Partition', NEW u \in UserTcb, UserStep(u), NEW t
    PROVE  Released(t)
<1> USE TcbFacts
<1>0. issued \subseteq UserTcb
  BY DEF TypeOK, TreeTypes
<1>1. ASSUME NEW d \in issued, Send(u, d) PROVE Released(t)
  <2>1. d \in Tcb /\ insertMessage(d, UserMsg(u)) /\ waitQueue' = waitQueue \ {d}
    BY <1>0, <1>1 DEF Send, Deliver
  <2> QED BY <2>1, DeliverReleases
<1>2. ASSUME NEW d \in issued, SendContinue(u, d) PROVE Released(t)
  <2>1. /\ currentThread = u /\ IsManagerOf(u, d)
        /\ waitQueue \ {d} \subseteq waitQueue'
    BY <1>2 DEF SendContinue, startThread, Verdict, Makes, UserRuns, Running
  <2>2. t \in waitQueue' => t \notin Ready'
    BY DEF Partition
  <2> QED BY <2>1, <2>2 DEF Released
<1>3. ASSUME NEW d \in issued, SendOther(u, d) \/ SendTerminate(u, d) PROVE Released(t)
  BY <1>3, KeptWaiting DEF SendOther, SendTerminate, queueVars
<1>4. ASSUME NEW service \in Services, NEW payload \in issued \cup {NULL},
             SendSsi(u, service, payload)
      PROVE Released(t)
  <2>1. CASE msgFree = 0
    BY <1>4, <2>1, KeptWaiting DEF SendSsi
  <2>2. CASE msgFree # 0
    <3>1. /\ insertMessage(tcb_SSI, RequestMsg(u, service, payload))
          /\ waitQueue' = waitQueue \ {tcb_SSI}
      BY <1>4, <2>2 DEF SendSsi, Deliver
    <3> QED BY <3>1, DeliverReleases
  <2> QED BY <2>1, <2>2
<1>5. ASSUME NEW source, RecvTake(u, source) \/ RecvBlock(u, source) PROVE Released(t)
  BY <1>5, KeptWaiting DEF RecvTake, RecvBlock, Await, Block, queueVars
<1>6. ASSUME NEW trap \in Traps, TrapKill(u, trap) \/ TrapFault(u, trap) PROVE Released(t)
  BY <1>6, KeptWaiting DEF TrapKill, TrapFault, queueVars
<1>7. ASSUME NEW trap \in Traps, TrapPassUp(u, trap) PROVE Released(t)
  <2> DEFINE m == mgr[u]["sys"]
  <2>1. /\ m # NULL /\ insertMessage(m, UserMsg(u))
        /\ waitQueue' = (waitQueue \ {m}) \cup {u}
    BY <1>7 DEF TrapPassUp, Block
  <2>2. m \in Tcb
    BY <2>1 DEF TypeOK, TreeTypes, Traps
  <2> HIDE DEF m
  <2> QED BY <2>1, <2>2, DeliverReleases
<1> QED
  BY <1>1, <1>2, <1>3, <1>4, <1>5, <1>6, <1>7 DEF UserStep

\* The SSI lets go the receiver of its message; the sleeper of WAITFORCLOCK
\* changes its queue, but is not made ready.
LEMMA SsiStepReleases ==
    ASSUME TypeOK, Partition', SsiStep, NEW t
    PROVE  Released(t)
<1> USE TcbFacts
<1>1. CASE SsiReceive \/ SsiBlock
  BY <1>1, KeptWaiting DEF SsiReceive, SsiBlock, Await, Block, queueVars
<1>2. ASSUME NEW service, NEW p, NEW parent, ServeCreate(service, p, parent)
      PROVE Released(t)
  BY <1>2, KeptWaiting DEF ServeCreate
<1>3. CASE getCpuTime \/ ssiTerminate \/ wakeUpPseudoClock
  BY <1>3, KeptWaiting DEF getCpuTime, ssiTerminate, wakeUpPseudoClock, queueVars
<1>4. CASE waitForClock
  <2> DEFINE s == ssi_msg.sender
  <2>1. /\ ssi_pc = "serve" /\ waitQueue' = waitQueue \ {s}
        /\ waitForPseudoClockQueue'
              = Append(RemoveFirst(waitForPseudoClockQueue, s), s)
    BY <1>4 DEF waitForClock, Serves, SsiAt, outThread, insertThread
  <2>2. s \in UserTcb
    BY <2>1, ServedRequest
  <2> HIDE DEF s
  <2>3. s \in Sleeping'
    <3>1. RemoveFirst(waitForPseudoClockQueue, s) \in Seq(UserTcb)
      BY OutThreadType DEF TypeOK, QueueTypes
    <3>2. \A q \in Seq(UserTcb) : s \in ToSet(Append(q, s))
      <4> SUFFICES ASSUME NEW q \in Seq(UserTcb) PROVE s \in ToSet(Append(q, s))
        OBVIOUS
      <4>1. /\ Len(Append(q, s)) = Len(q) + 1 /\ Append(q, s)[Len(q) + 1] = s
            /\ Len(q) \in Nat /\ DOMAIN Append(q, s) = 1 .. Len(Append(q, s))
        BY <2>2, AppendProperties, LenProperties
      <4> QED BY <4>1 DEF ToSet
    <3> QED BY <2>1, <3>1, <3>2 DEF Sleeping
  <2>4. t = s => t \notin Ready'
    BY <2>3 DEF Partition
  <2>5. t \in waitQueue' => t \notin Ready'
    BY DEF Partition
  <2> QED BY <2>1, <2>4, <2>5 DEF Released
<1>5. ASSUME NEW service \in SpecServices, specMgr(service) PROVE Released(t)
  BY <1>5, KeptWaiting DEF specMgr, queueVars
<1>6. CASE reply
  <2> DEFINE s == ssi_msg.sender
             m == [ssi_msg EXCEPT !.m_sender = SSI_MAGIC]
  <2>1. ssi_pc = "reply" /\ SsiSend(s, m)
    BY <1>6 DEF reply, SsiAt
  <2>2. s \in Tcb
    BY <2>1, ServedRequest
  <2> HIDE DEF s, m
  <2>3. CASE msgFree = 0
    BY <2>1, <2>3, KeptWaiting DEF SsiSend
  <2>4. CASE msgFree # 0
    <3>1. insertMessage(s, m) /\ waitQueue' = waitQueue \ {s}
      BY <2>1, <2>4 DEF SsiSend, Deliver
    <3> QED BY <2>2, <3>1, DeliverReleases
  <2> QED BY <2>3, <2>4
<1>7. CASE wakeUpSend
  <2>1. ssi_temp \in Tcb /\ msgFree \in Nat
    BY <1>7 DEF wakeUpSend, SsiAt, TypeOK, ControlTypes, MailTypes
  <2>2. CASE msgFree = 0
    BY <1>7, <2>2, KeptWaiting DEF wakeUpSend
  <2>3. CASE msgFree # 0
    <3>1. insertMessage(ssi_temp, WakeMsg) /\ waitQueue \ {ssi_temp} \subseteq waitQueue'
      BY <1>7, <2>1, <2>3 DEF wakeUpSend
    <3> QED BY <2>1, <3>1, DeliverReleases
  <2> QED BY <2>2, <2>3
<1> QED
  BY <1>1, <1>2, <1>3, <1>4, <1>5, <1>6, <1>7 DEF SsiStep, createSon, createBrother

\* terminate() takes a thread out of the waitQueue to free it.
LEMMA KillStepReleases ==
    ASSUME TypeOK, Partition', NEW k \in UserTcb,
           killChild(k) \/ killThread(k) \/ killCorrupt(k) \/ killPanic(k), NEW t
    PROVE  Released(t)
<1>1. CASE killChild(k) \/ killCorrupt(k) \/ killPanic(k)
  BY <1>1, KeptWaiting DEF killChild, killCorrupt, killPanic, queueVars
<1>2. CASE killThread(k)
  <2>1. waitQueue \ {k} \subseteq waitQueue' /\ tcbFree' = <<k>> \o tcbFree
    BY <1>2, Zenon DEF killThread, release
  <2>2. k \in Free'
    <3>1. tcbFree \in Seq(UserTcb) /\ <<k>> \in Seq(UserTcb)
      BY DEF TypeOK, QueueTypes
    <3>2. /\ Len(<<k>> \o tcbFree) = 1 + Len(tcbFree) /\ (<<k>> \o tcbFree)[1] = k
          /\ <<k>> \o tcbFree \in Seq(UserTcb) /\ Len(tcbFree) \in Nat
      BY <3>1, ConcatProperties, LenProperties
    <3>3. 1 \in DOMAIN (<<k>> \o tcbFree)
      BY <3>2, LenProperties
    <3> QED BY <2>1, <3>2, <3>3 DEF Free, ToSet
  <2>3. t = k => t \notin Ready'
    BY <2>2 DEF Partition
  <2>4. t \in waitQueue' => t \notin Ready'
    BY DEF Partition
  <2> QED BY <2>1, <2>3, <2>4 DEF Released
<1> QED
  BY <1>1, <1>2

\* A timer interrupt lets go the SSI only, with a message.
LEMMA TimerStepReleases ==
    ASSUME TypeOK, Partition', TimerSlice \/ TimerTick \/ TimerFault, NEW t
    PROVE  Released(t)
<1>1. CASE TimerSlice \/ TimerFault
  BY <1>1, KeptWaiting DEF TimerSlice, TimerFault, queueVars
<1>2. CASE TimerTick
  <2>1. insertMessage(tcb_SSI, Tick) /\ waitQueue' = waitQueue \ {tcb_SSI}
    BY <1>2 DEF TimerTick, fakeSend
  <2> QED BY <2>1, TcbFacts, DeliverReleases
<1> QED
  BY <1>1, <1>2

\* No step lets a waiting thread go in another way.
LEMMA NextReleases == TypeOK /\ Partition /\ [Next]_vars => \A t \in UserTcb : Released(t)
<1> SUFFICES ASSUME TypeOK, Partition, [Next]_vars, NEW t \in UserTcb PROVE Released(t)
  OBVIOUS
<1>0. Partition'
  BY NextPlaces
<1>1. ASSUME NEW u \in UserTcb, UserStep(u) PROVE Released(t)
  BY <1>0, <1>1, UserStepReleases
<1>2. CASE SsiStep
  BY <1>0, <1>2, SsiStepReleases
<1>3. CASE KillStep
  BY <1>0, <1>3, KillStepReleases DEF KillStep
<1>4. CASE TimerSlice \/ TimerTick \/ TimerFault
  BY <1>0, <1>4, TimerStepReleases
<1>5. CASE UNCHANGED vars
  BY <1>0, <1>5, KeptWaiting DEF vars, queueVars
<1> QED
  BY <1>1, <1>2, <1>3, <1>4, <1>5 DEF Next, PowerOff

\* A thread stopped by a trap becomes ready only by the verdict of a manager
\* of it or because a message reached it: no tick, no service, no death of
\* another thread and no interrupt lets it go (exception.c:62-63, 90).
THEOREM TrappedThreadsStay == Spec => TrappedStays
<1>1. TypeOK /\ Partition /\ [Next]_vars
         => [\A t \in UserTcb :
                Trapped(t) /\ t \in Ready'
                    => IsManagerOf(currentThread, t) \/ t_inbox'[t] # t_inbox[t]]_vars
  BY NextReleases DEF Released, Trapped
<1>2. Init => TypeOK /\ Partition
  BY InitTypes, InitPlaces
<1>3. TypeOK /\ Partition /\ [Next]_vars => (TypeOK /\ Partition)'
  BY NextTypes, NextPlaces
<1> QED
  BY <1>1, <1>2, <1>3, PTL DEF Spec, TrappedStays

=============================================================================
