------------------------------ MODULE RpcProofs ------------------------------
(***************************************************************************)
(* The services of the SSI, for any number of TCBs and messages. In        *)
(* workloads in which no thread dies, what is asked is answered once; in   *)
(* those that make requests only, the services are remote procedure calls: *)
(* the nucleus implements Rpc, step by step.                               *)
(***************************************************************************)
EXTENDS NucleusProofs, KernelRpc

-----------------------------------------------------------------------------
(* The requests of the threads and their answers. *)

\* Where the request of t, or the answer, may be: Outstanding, term by term.
Asking(t)  == Cardinality(Positions(t_inbox[tcb_SSI], {m \in Msg : m.sender = t}))
Served(t)  == Count(ssi_pc \in {"serve", "reply"} /\ ssi_msg.sender = t)
Asleep(t)  == Count(t \in Sleeping)
Rising(t)  == Count(ssi_temp = t)
Answers(t) == Cardinality(Positions(t_inbox[t], {m \in Msg : m.m_sender = SSI_MAGIC}))

Sums ==
    \A t \in UserTcb :
        /\ Outstanding(t) = Asking(t) + Served(t) + Asleep(t) + Rising(t) + Answers(t)
        /\ Asking(t) \in Nat /\ Answers(t) \in Nat
        /\ Served(t) \in {0, 1} /\ Asleep(t) \in {0, 1} /\ Rising(t) \in {0, 1}

\* The places of an inbox that match are positions of messages.
LEMMA OutstandingTerms == TypeOK => Sums
<1> SUFFICES ASSUME TypeOK, NEW t \in UserTcb
             PROVE  /\ Outstanding(t) = Asking(t) + Served(t) + Asleep(t) + Rising(t)
                                           + Answers(t)
                    /\ Asking(t) \in Nat /\ Answers(t) \in Nat
                    /\ Served(t) \in {0, 1} /\ Asleep(t) \in {0, 1} /\ Rising(t) \in {0, 1}
  BY DEF Sums
<1>1. t_inbox[tcb_SSI] \in Seq(Msg) /\ t_inbox[t] \in Seq(Msg)
  BY TcbFacts DEF TypeOK, MailTypes
<1>2. /\ \A i \in 1 .. Len(t_inbox[tcb_SSI]) : t_inbox[tcb_SSI][i] \in Msg
      /\ \A i \in 1 .. Len(t_inbox[t]) : t_inbox[t][i] \in Msg
  BY <1>1, ElementOfSeq
<1>3. /\ {i \in 1 .. Len(t_inbox[tcb_SSI]) : t_inbox[tcb_SSI][i].sender = t}
            = Positions(t_inbox[tcb_SSI], {m \in Msg : m.sender = t})
      /\ {i \in 1 .. Len(t_inbox[t]) : t_inbox[t][i].m_sender = SSI_MAGIC}
            = Positions(t_inbox[t], {m \in Msg : m.m_sender = SSI_MAGIC})
  BY <1>2 DEF Positions
<1>4. Outstanding(t) = Asking(t) + Served(t) + Asleep(t) + Rising(t) + Answers(t)
  BY <1>3 DEF Outstanding, Asking, Served, Asleep, Rising, Answers
<1>5. Asking(t) \in Nat /\ Answers(t) \in Nat
  BY <1>1, PositionsFinite DEF Asking, Answers
<1> QED
  BY <1>4, <1>5 DEF Served, Asleep, Rising, Count

\* A thread has no more than one request or answer, and none outside
\* SSIRequest.
AtMostOne == \A t \in UserTcb : Outstanding(t) <= Count(pc[t] = SSI_MAGIC)

\* That is one at most.
LEMMA OneOutstanding ==
    ASSUME TypeOK, AtMostOne, NEW t \in UserTcb PROVE Outstanding(t) <= 1
<1>1. Outstanding(t) <= Count(pc[t] = SSI_MAGIC)
  BY DEF AtMostOne
<1>2. Count(pc[t] = SSI_MAGIC) = 0 \/ Count(pc[t] = SSI_MAGIC) = 1
  BY DEF Count
<1>3. Outstanding(t) \in Nat
  BY OutstandingTerms DEF Sums
<1> QED
  BY <1>1, <1>2, <1>3

\* The handler of a timer interrupt alone asks for the sleepers to be woken.
NoForgedTick ==
    \A m \in Inbox(tcb_SSI) : m.service = "WAKE_UP_PSEUDO_CLOCK" => m = Tick

\* What a step may do to the request of t: nothing, make it, take the answer,
\* start t anew, or lose it for want of a free message, when t has none.
Settled(t) ==
    \/ Outstanding(t)' = Outstanding(t) /\ (pc'[t] = SSI_MAGIC <=> pc[t] = SSI_MAGIC)
    \/ /\ Outstanding(t)' = Outstanding(t) + 1
       /\ pc[t] # SSI_MAGIC /\ pc'[t] = SSI_MAGIC
    \/ /\ Outstanding(t)' = Outstanding(t) - 1
       /\ pc[t] = SSI_MAGIC /\ pc'[t] # SSI_MAGIC
    \/ Outstanding(t)' = 0 /\ pc'[t] # SSI_MAGIC
    \/ /\ msgFree = 0 /\ Asking(t) = 0 /\ Answers(t) = 0
       /\ Outstanding(t)' \in {Outstanding(t), Outstanding(t) - 1}
       /\ pc[t] = SSI_MAGIC => pc'[t] = SSI_MAGIC

\* The messages of an inbox that is left alone.
LEMMA AskingSame ==
    ASSUME NEW t, t_inbox'[tcb_SSI] = t_inbox[tcb_SSI] PROVE Asking(t)' = Asking(t)
  BY DEF Asking

\* Likewise the answers.
LEMMA AnswersSame ==
    ASSUME NEW t, t_inbox'[t] = t_inbox[t] PROVE Answers(t)' = Answers(t)
  BY DEF Answers

\* A message queued may be a request, or an answer.
LEMMA InsertCounts ==
    ASSUME TypeOK, NEW d \in Tcb, NEW m \in Msg, insertMessage(d, m), NEW t \in UserTcb
    PROVE  /\ Asking(t)' = Asking(t) + Count(d = tcb_SSI /\ m.sender = t)
           /\ Answers(t)' = Answers(t) + Count(d = t /\ m.m_sender = SSI_MAGIC)
<1>1. /\ t_inbox \in [Tcb -> Seq(Msg)] /\ t_inbox' = [t_inbox EXCEPT ![d] = Append(@, m)]
      /\ t \in Tcb /\ tcb_SSI \in Tcb
  BY TcbFacts DEF TypeOK, MailTypes, insertMessage
<1>2. /\ t_inbox[d] \in Seq(Msg) /\ t_inbox'[d] = Append(t_inbox[d], m)
      /\ \A u \in Tcb \ {d} : t_inbox'[u] = t_inbox[u]
  BY <1>1
<1>3. Asking(t) \in Nat /\ Answers(t) \in Nat
  BY OutstandingTerms DEF Sums
<1>4. Asking(t)' = Asking(t) + Count(d = tcb_SSI /\ m.sender = t)
  <2>1. CASE d = tcb_SSI
    <3> DEFINE M == {n \in Msg : n.sender = t}
    <3>1. Asking(t)' = Cardinality(Positions(Append(t_inbox[d], m), M))
      BY <1>2, <2>1 DEF Asking
    <3>2. Asking(t) = Cardinality(Positions(t_inbox[d], M))
      BY <2>1 DEF Asking
    <3>3. m \in M <=> m.sender = t
      OBVIOUS
    <3> HIDE DEF M
    <3>4. Asking(t)' = Asking(t) + (IF m \in M THEN 1 ELSE 0)
      BY <1>2, <3>1, <3>2, PositionsAppend
    <3> QED BY <2>1, <3>3, <3>4 DEF Count
  <2>2. CASE d # tcb_SSI
    BY <1>1, <1>2, <1>3, <2>2, AskingSame DEF Count
  <2> QED BY <2>1, <2>2
<1>5. Answers(t)' = Answers(t) + Count(d = t /\ m.m_sender = SSI_MAGIC)
  <2>1. CASE d = t
    <3> DEFINE M == {n \in Msg : n.m_sender = SSI_MAGIC}
    <3>1. Answers(t)' = Cardinality(Positions(Append(t_inbox[d], m), M))
      BY <1>2, <2>1 DEF Answers
    <3>2. Answers(t) = Cardinality(Positions(t_inbox[d], M))
      BY <2>1 DEF Answers
    <3>3. m \in M <=> m.m_sender = SSI_MAGIC
      OBVIOUS
    <3> HIDE DEF M
    <3>4. Answers(t)' = Answers(t) + (IF m \in M THEN 1 ELSE 0)
      BY <1>2, <3>1, <3>2, PositionsAppend
    <3> QED BY <2>1, <3>3, <3>4 DEF Count
  <2>2. CASE d # t
    BY <1>1, <1>2, <1>3, <2>2, AnswersSame DEF Count
  <2> QED BY <2>1, <2>2
<1> QED
  BY <1>4, <1>5

\* The terms after a step.
LEMMA OutstandingNext == (TypeOK => Sums)'
  BY OutstandingTerms, PTL

\* A step that only queues a message or none: a request of t, or an answer.
LEMMA OutstandingInsert ==
    ASSUME TypeOK, TypeOK', NEW d \in Tcb, NEW m \in Msg,
           insertMessage(d, m) \/ (UNCHANGED t_inbox /\ d # tcb_SSI /\ m.m_sender # SSI_MAGIC),
           UNCHANGED <<ssiVars, waitForPseudoClockQueue>>, NEW t \in UserTcb
    PROVE  Outstanding(t)' = Outstanding(t) + Count(d = tcb_SSI /\ m.sender = t)
                                + Count(d = t /\ m.m_sender = SSI_MAGIC)
<1>1. Served(t)' = Served(t) /\ Asleep(t)' = Asleep(t) /\ Rising(t)' = Rising(t)
  BY DEF Served, Asleep, Rising, Sleeping, ssiVars
<1>2. /\ Asking(t)' = Asking(t) + Count(d = tcb_SSI /\ m.sender = t)
      /\ Answers(t)' = Answers(t) + Count(d = t /\ m.m_sender = SSI_MAGIC)
  <2>1. CASE insertMessage(d, m)
    BY <2>1, InsertCounts
  <2>2. CASE UNCHANGED t_inbox /\ d # tcb_SSI /\ m.m_sender # SSI_MAGIC
    <3>1. Asking(t)' = Asking(t) /\ Answers(t)' = Answers(t)
      BY <2>2, AskingSame, AnswersSame
    <3> QED BY <2>2, <3>1, OutstandingTerms DEF Sums, Count
  <2> QED BY <2>1, <2>2
<1>3. Sums /\ Sums'
  BY OutstandingTerms, OutstandingNext
<1> QED
  BY <1>1, <1>2, <1>3 DEF Sums, Count

\* A step that moves nothing of what is outstanding.
LEMMA OutstandingSame ==
    ASSUME TypeOK, TypeOK', UNCHANGED <<t_inbox, ssiVars, waitForPseudoClockQueue>>,
           NEW t \in UserTcb
    PROVE  Outstanding(t)' = Outstanding(t) /\ Outstanding(t) \in Nat
<1>1. /\ Asking(t)' = Asking(t) /\ Answers(t)' = Answers(t)
      /\ Served(t)' = Served(t) /\ Asleep(t)' = Asleep(t) /\ Rising(t)' = Rising(t)
  BY AskingSame, AnswersSame DEF Served, Asleep, Rising, Sleeping, ssiVars
<1>2. Sums /\ Sums'
  BY OutstandingTerms, OutstandingNext
<1> QED
  BY <1>1, <1>2 DEF Sums

\* The steps of a user thread: it makes a request or takes the answer.
LEMMA UserStepSettled ==
    ASSUME Calls \cap Deadly = {}, TypeOK, TypeOK', Deathless, AtMostOne,
           NEW u \in UserTcb, UserStep(u), NEW t \in UserTcb
    PROVE  Settled(t)
<1> USE TcbFacts
<1>0. /\ issued \subseteq UserTcb /\ u # NULL
      /\ "manage" \notin Calls /\ \A trap \in Traps : trap \notin Calls
      /\ pc \in [Tcb -> {"run", "sys", SSI_MAGIC, NULL} \cup UserTcb]
      /\ SSI_MAGIC \notin Tcb \cup {NULL, "run", "sys"}
  BY TagAssumption, MsgAssumption DEF TypeOK, TreeTypes, ControlTypes, Deadly, Traps
<1>1. ASSUME NEW d \in issued, Send(u, d) PROVE Settled(t)
  <2>1. /\ insertMessage(d, UserMsg(u)) /\ d \in Tcb /\ d # tcb_SSI /\ UserMsg(u) \in Msg
        /\ UNCHANGED <<pc, ssiVars, waitForPseudoClockQueue>>
        /\ UserMsg(u).m_sender # SSI_MAGIC
    BY <1>0, <1>1, MsgTypes DEF Send, Deliver, UserMsg
  <2>2. Outstanding(t)' = Outstanding(t) + 0 + 0
    BY <2>1, OutstandingInsert DEF Count
  <2>3. Outstanding(t) \in Nat
    BY OutstandingTerms DEF Sums
  <2> QED BY <2>1, <2>2, <2>3 DEF Settled
<1>2. ASSUME NEW d, SendOther(u, d) \/ SendContinue(u, d) \/ SendTerminate(u, d) PROVE FALSE
  BY <1>0, <1>2 DEF SendOther, SendContinue, SendTerminate, Verdict, Makes
<1>3. ASSUME NEW service \in Services, NEW payload \in issued \cup {NULL},
             SendSsi(u, service, payload)
      PROVE Settled(t)
  <2> DEFINE m == RequestMsg(u, service, payload)
  <2>1. /\ UNCHANGED <<ssiVars, waitForPseudoClockQueue>>
        /\ pc' = [pc EXCEPT ![u] = SSI_MAGIC] /\ pc[u] = "run"
        /\ msgFree = 0 => UNCHANGED t_inbox
        /\ msgFree # 0 => insertMessage(tcb_SSI, m)
    BY <1>3 DEF SendSsi, Deliver, Makes, mailVars
  <2>2. /\ t # u => pc'[t] = pc[t]
        /\ t = u => pc'[t] = SSI_MAGIC /\ pc[t] # SSI_MAGIC
    BY <1>0, <2>1
  <2>3. CASE msgFree = 0
    <3>1. Outstanding(t)' = Outstanding(t) /\ Outstanding(t) \in Nat /\ Sums
      BY <2>1, <2>3, OutstandingSame, OutstandingTerms DEF Sums
    <3>2. CASE t = u
      <4>1. Outstanding(t) <= 0
        BY <2>2, <3>2 DEF AtMostOne, Count
      <4>2. Asking(t) = 0 /\ Answers(t) = 0
        BY <3>1, <4>1 DEF Sums
      <4> QED BY <2>2, <2>3, <3>1, <3>2, <4>2 DEF Settled
    <3>3. CASE t # u
      BY <2>2, <3>1, <3>3 DEF Settled
    <3> QED BY <3>2, <3>3
  <2>4. CASE msgFree # 0
    <3>1. m \in Msg /\ m.sender = u
      BY <1>0, MsgTypes DEF RequestMsg
    <3> HIDE DEF m
    <3>2. Outstanding(t)' = Outstanding(t) + Count(u = t) + 0
      BY <2>1, <2>4, <3>1, OutstandingInsert DEF Count
    <3>3. Outstanding(t) \in Nat
      BY OutstandingTerms DEF Sums
    <3> QED BY <2>2, <3>2, <3>3 DEF Settled, Count
  <2> QED BY <2>3, <2>4
<1>4. ASSUME NEW source \in issued \cup {NULL, SSI_MAGIC}, RecvTake(u, source)
      PROVE Settled(t)
  <2> DEFINE i == popMessage(t_inbox[u], source)
  <2>1. /\ UNCHANGED <<ssiVars, waitForPseudoClockQueue>>
        /\ pc' = [pc EXCEPT ![u] = "run"] /\ Receive(u, source) /\ RecvFrom(u, source)
        /\ t_inbox' = [t_inbox EXCEPT ![u] = RemoveAt(@, i)]
    BY <1>4 DEF RecvTake, Receive, queueVars
  <2>2. /\ i \in Matching(t_inbox[u], source) /\ i \in 1 .. Len(t_inbox[u])
        /\ t_inbox[u] \in Seq(Msg) /\ t_inbox[u][i] \in Msg
    BY <2>1, ReceiveTypes, ElementOfSeq DEF TypeOK, MailTypes, Threads
  <2> HIDE DEF i
  <2>3. /\ t_inbox'[tcb_SSI] = t_inbox[tcb_SSI]
        /\ t # u => t_inbox'[t] = t_inbox[t]
        /\ t_inbox'[u] = RemoveAt(t_inbox[u], i)
    BY <2>1 DEF TypeOK, MailTypes
  <2>4. /\ Asking(t)' = Asking(t) /\ Served(t)' = Served(t)
        /\ Asleep(t)' = Asleep(t) /\ Rising(t)' = Rising(t)
    BY <2>1, <2>3, AskingSame DEF Served, Asleep, Rising, Sleeping, ssiVars
  <2>5. Sums /\ Sums'
    BY OutstandingTerms, OutstandingNext
  <2>6. CASE t # u
    BY <1>0, <2>1, <2>3, <2>4, <2>5, <2>6, AnswersSame DEF Sums, Settled
  <2>7. CASE t = u
    <3> DEFINE M == {m \in Msg : m.m_sender = SSI_MAGIC}
    <3>1. Answers(t)' = Cardinality(Positions(RemoveAt(t_inbox[u], i), M))
      BY <2>3, <2>7 DEF Answers
    <3>2. Answers(t) = Cardinality(Positions(t_inbox[u], M))
      BY <2>7 DEF Answers
    <3>3. t_inbox[u][i] \in M <=> t_inbox[u][i].m_sender = SSI_MAGIC
      BY <2>2
    <3> HIDE DEF M
    <3>4. /\ Answers(t)' = Answers(t) - (IF t_inbox[u][i] \in M THEN 1 ELSE 0)
          /\ Answers(t)' \in Nat
      BY <2>2, <3>1, <3>2, PositionsRemoveAt
    <3>5. pc'[t] = "run" /\ pc'[t] # SSI_MAGIC
      BY <1>0, <2>1, <2>7
    <3>6. CASE pc[u] = SSI_MAGIC
      <4>1. source = SSI_MAGIC
        BY <1>0, <2>1, <3>6 DEF RecvFrom
      <4>2. t_inbox[u][i].m_sender = SSI_MAGIC
        BY <1>0, <2>2, <4>1 DEF Matching, Accepts
      <4>3. Outstanding(t)' = Outstanding(t) - 1
        BY <2>4, <2>5, <3>3, <3>4, <4>2 DEF Sums
      <4> QED BY <2>7, <3>5, <3>6, <4>3 DEF Settled
    <3>7. CASE pc[u] # SSI_MAGIC
      <4>1. Outstanding(t) <= 0
        BY <2>7, <3>7 DEF AtMostOne, Count
      <4>2. Answers(t) = 0
        BY <2>5, <4>1 DEF Sums
      <4>3. Answers(t)' = Answers(t)
        <5>1. CASE t_inbox[u][i] \in M
          <6>1. Answers(t)' = 0 - 1
            BY <3>4, <4>2, <5>1
          <6> QED BY <3>4, <6>1
        <5>2. CASE t_inbox[u][i] \notin M
          <6>1. Answers(t)' = Answers(t) - 0
            BY <3>4, <5>2
          <6> QED BY <4>2, <6>1
        <5> QED BY <5>1, <5>2
      <4>4. Outstanding(t)' = Outstanding(t)
        BY <2>4, <2>5, <4>3 DEF Sums
      <4> QED BY <2>7, <3>5, <3>7, <4>4 DEF Settled
    <3> QED BY <3>6, <3>7
  <2> QED BY <2>6, <2>7
<1>5. ASSUME NEW source \in issued \cup {NULL, SSI_MAGIC}, RecvBlock(u, source)
      PROVE Settled(t)
  <2>1. /\ UNCHANGED <<t_inbox, ssiVars, waitForPseudoClockQueue>>
        /\ pc' = [pc EXCEPT ![u] = source] /\ RecvFrom(u, source)
    BY <1>5 DEF RecvBlock, mailVars
  <2>2. pc'[t] = SSI_MAGIC <=> pc[t] = SSI_MAGIC
    BY <1>0, <2>1 DEF RecvFrom
  <2> QED BY <2>1, <2>2, OutstandingSame DEF Settled
<1>6. ASSUME NEW trap \in Traps, TrapKill(u, trap) \/ TrapFault(u, trap) \/ TrapPassUp(u, trap)
      PROVE FALSE
  BY <1>0, <1>6 DEF TrapKill, TrapFault, TrapPassUp, TrapRaised, Deathless
<1> QED
  BY <1>1, <1>2, <1>3, <1>4, <1>5, <1>6 DEF UserStep

-----------------------------------------------------------------------------
(* The steps. *)

\* The SSI takes a request out of its inbox and serves it, or a tick.
LEMMA SsiReceiveSettled ==
    ASSUME TypeOK, TypeOK', NoForgedTick, SsiReceive, NEW t \in UserTcb
    PROVE  Outstanding(t)' = Outstanding(t)
<1> USE TcbFacts
<1> DEFINE inbox == t_inbox[tcb_SSI]
           i == popMessage(inbox, NULL)
           m == inbox[i]
           M == {n \in Msg : n.sender = t}
<1>1. /\ ssi_pc = "recv" /\ Receive(tcb_SSI, NULL)
      /\ t_inbox' = [t_inbox EXCEPT ![tcb_SSI] = RemoveAt(@, i)]
      /\ UNCHANGED <<ssi_temp, waitForPseudoClockQueue>>
      /\ IF m.service = "WAKE_UP_PSEUDO_CLOCK"
         THEN ssi_pc' = "wake"
         ELSE ssi_pc' = "serve" /\ ssi_msg' = m
  BY DEF SsiReceive, SsiAt, Receive, Goes, queueVars
<1>2. i \in 1 .. Len(inbox) /\ inbox \in Seq(Msg)
  BY <1>1, ReceiveTypes DEF TypeOK, MailTypes, Threads
<1> HIDE DEF i
<1>3. m \in Msg /\ m \in Inbox(tcb_SSI)
  BY <1>2, LenProperties, ElementOfSeq DEF Inbox, ToSet
<1>4. t_inbox'[tcb_SSI] = RemoveAt(inbox, i) /\ t_inbox'[t] = t_inbox[t]
  BY <1>1 DEF TypeOK, MailTypes
<1> HIDE DEF inbox
<1>5. m \in M <=> m.sender = t
  BY <1>3
<1>6. Asking(t)' = Cardinality(Positions(RemoveAt(inbox, i), M))
  BY <1>4 DEF Asking
<1>7. Asking(t) = Cardinality(Positions(inbox, M))
  BY DEF Asking, inbox
<1> HIDE DEF M
<1>8. Asking(t)' = Asking(t) - (IF inbox[i] \in M THEN 1 ELSE 0)
  BY <1>2, <1>6, <1>7, PositionsRemoveAt
<1>9. Asking(t)' = Asking(t) - Count(m.sender = t)
  BY <1>5, <1>8 DEF Count
<1>10. Served(t) = 0 /\ Served(t)' = Count(m.sender = t)
  <2>1. Served(t) = 0
    BY <1>1 DEF Served, Count
  <2>2. CASE m.service = "WAKE_UP_PSEUDO_CLOCK"
    <3>1. m = Tick
      BY <1>3, <2>2 DEF NoForgedTick
    <3>2. m.sender # t
      BY <3>1 DEF Tick
    <3> QED BY <1>1, <2>1, <2>2, <3>2 DEF Served, Count
  <2>3. CASE m.service # "WAKE_UP_PSEUDO_CLOCK"
    BY <1>1, <2>1, <2>3 DEF Served, Count
  <2> QED BY <2>2, <2>3
<1>11. Answers(t)' = Answers(t) /\ Asleep(t)' = Asleep(t) /\ Rising(t)' = Rising(t)
  BY <1>1, <1>4, AnswersSame DEF Asleep, Rising, Sleeping
<1>12. Sums /\ Sums' /\ Count(m.sender = t) \in {0, 1}
  BY OutstandingTerms, OutstandingNext DEF Count
<1> HIDE DEF m
<1> QED
  BY <1>9, <1>10, <1>11, <1>12 DEF Sums

\* A thread in the free list has asked for nothing.
LEMMA FreeAsksNothing ==
    ASSUME TypeOK, Partition, Deathless, NEW t \in UserTcb, t \in Free
    PROVE  Outstanding(t) = 0
<1> USE TcbFacts
<1>1. /\ t_inbox[tcb_SSI] \in Seq(Msg) /\ t_inbox[t] = <<>>
  BY DEF Deathless, TypeOK, MailTypes
<1>2. Positions(t_inbox[tcb_SSI], {m \in Msg : m.sender = t}) = {}
  <2>1. \A i \in 1 .. Len(t_inbox[tcb_SSI]) : t_inbox[tcb_SSI][i] \in Inbox(tcb_SSI)
    BY <1>1, LenProperties DEF Inbox, ToSet
  <2>2. \A i \in 1 .. Len(t_inbox[tcb_SSI]) : t_inbox[tcb_SSI][i].sender # t
    BY <2>1 DEF Deathless
  <2> QED BY <2>2 DEF Positions
<1>3. Positions(t_inbox[t], {m \in Msg : m.m_sender = SSI_MAGIC}) = {}
  BY <1>1 DEF Positions
<1>4. Asking(t) = 0 /\ Answers(t) = 0
  BY <1>2, <1>3, FS_EmptySet, Zenon DEF Asking, Answers
<1>5. Served(t) = 0 /\ Asleep(t) = 0 /\ Rising(t) = 0
  <2>1. /\ ssi_pc \in {"serve", "reply"} => ssi_msg.sender # t
        /\ t \notin Sleeping /\ ssi_temp # t
    BY DEF Deathless, Partition, TypeOK, ControlTypes
  <2> QED BY <2>1 DEF Served, Asleep, Rising, Count
<1> QED
  BY <1>4, <1>5, OutstandingTerms DEF Sums

\* A thread that is created starts without requests or answers.
LEMMA CreateSettled ==
    ASSUME TypeOK, TypeOK', Partition, Deathless, NEW service, NEW p, NEW parent,
           ServeCreate(service, p, parent), NEW t \in UserTcb
    PROVE  Settled(t)
<1> USE TcbFacts
<1>1. /\ Create(p, parent) /\ ssi_pc = "serve" /\ ssi_pc' = "reply"
      /\ UNCHANGED <<ssi_msg, ssi_temp, waitForPseudoClockQueue>>
  BY DEF ServeCreate, Serves, SsiAt, Goes
<1>2. /\ Served(t)' = Served(t) /\ Asleep(t)' = Asleep(t) /\ Rising(t)' = Rising(t)
  BY <1>1 DEF Served, Asleep, Rising, Sleeping
<1>3. UNCHANGED t_inbox => Outstanding(t)' = Outstanding(t)
  <2> SUFFICES ASSUME UNCHANGED t_inbox PROVE Outstanding(t)' = Outstanding(t)
    OBVIOUS
  <2>1. Asking(t)' = Asking(t) /\ Answers(t)' = Answers(t)
    BY AskingSame, AnswersSame
  <2> QED BY <1>2, <2>1, OutstandingTerms, OutstandingNext DEF Sums
<1>4. CASE tcbFree = <<>>
  BY <1>1, <1>3, <1>4 DEF Create, mailVars, Settled
<1>5. CASE tcbFree # <<>>
  <2> DEFINE new == Head(tcbFree)
  <2>1. t_inbox' = [t_inbox EXCEPT ![new] = <<>>] /\ pc' = [pc EXCEPT ![new] = "run"]
    BY <1>1, <1>5 DEF Create
  <2>2. new \in UserTcb /\ new \in Free
    BY <1>5, PlaceTypes, HeadTailPlaces DEF Partition, Free, TypeOK, QueueTypes
  <2> HIDE DEF new
  <2>3. UNCHANGED t_inbox
    BY <2>1, <2>2 DEF Deathless, TypeOK, MailTypes
  <2>4. CASE t # new
    BY <1>3, <2>1, <2>3, <2>4 DEF Settled, TypeOK, ControlTypes
  <2>5. CASE t = new
    <3>1. Outstanding(t) = 0
      BY <2>2, <2>5, FreeAsksNothing
    <3>2. pc'[t] = "run"
      BY <2>1, <2>2, <2>5 DEF TypeOK, ControlTypes
    <3>3. "run" # SSI_MAGIC
      BY TagAssumption
    <3> QED BY <1>3, <2>3, <3>1, <3>2, <3>3 DEF Settled
  <2> QED BY <2>4, <2>5
<1> QED
  BY <1>4, <1>5

\* The steps of the SSI: it moves requests, and turns them into answers.
LEMMA SsiStepSettled ==
    ASSUME Calls \cap Deadly = {}, TypeOK, TypeOK', Partition, Requested, Deathless,
           AtMostOne, NoForgedTick, SsiStep, NEW t \in UserTcb
    PROVE  Settled(t)
<1> USE TcbFacts
<1> DEFINE s == ssi_msg.sender
<1>0. Sums /\ Sums'
  BY OutstandingTerms, OutstandingNext
<1>1. CASE SsiReceive
  BY <1>1, SsiReceiveSettled DEF SsiReceive, Settled
<1>2. CASE SsiBlock
  BY <1>2, OutstandingSame DEF SsiBlock, mailVars, Settled
<1>3. CASE createSon \/ createBrother
  BY <1>3, CreateSettled DEF createSon, createBrother
<1>4. CASE getCpuTime
  <2>1. /\ Asking(t)' = Asking(t) /\ Answers(t)' = Answers(t) /\ Served(t)' = Served(t)
        /\ Asleep(t)' = Asleep(t) /\ Rising(t)' = Rising(t) /\ UNCHANGED pc
    BY <1>4, AskingSame, AnswersSame DEF getCpuTime, Serves, SsiAt, Goes, mailVars, queueVars,
       Served, Asleep, Rising, Sleeping
  <2> QED BY <1>0, <2>1 DEF Sums, Settled
<1>5. CASE waitForClock
  <2>1. /\ ssi_pc = "serve" /\ ssi_pc' = "recv" /\ UNCHANGED <<pc, t_inbox, ssi_temp>>
        /\ waitForPseudoClockQueue' = Append(RemoveFirst(waitForPseudoClockQueue, s), s)
    BY <1>5 DEF waitForClock, Serves, SsiAt, Goes, outThread, insertThread, mailVars
  <2>2. s \in UserTcb
    BY <2>1, ServedRequest
  <2>3. Served(t) = Count(s = t) /\ Served(t)' = 0
    BY <2>1 DEF Served, Count
  <2> HIDE DEF s
  <2>4. Sleeping' = Sleeping \cup {s}
    <3> DEFINE q == RemoveFirst(waitForPseudoClockQueue, s)
    <3>1. q \in Seq(Threads) /\ ToSet(q) = Sleeping \ {s} /\ s \in Threads
      BY <2>2, PlaceTypes, OutThreadType, OutThreadPlaces DEF Partition, Sleeping, Threads
    <3> HIDE DEF q
    <3>2. ToSet(Append(q, s)) = ToSet(q) \cup {s}
      BY <3>1, ToSetAppend
    <3> QED BY <2>1, <3>1, <3>2 DEF Sleeping, q
  <2>5. Asleep(t)' = Asleep(t) + Count(s = t)
    <3>1. CASE s = t
      <4>1. Outstanding(t) <= 1
        BY OneOutstanding
      <4>2. Served(t) = 1
        BY <2>3, <3>1 DEF Count
      <4>3. Asleep(t) = 0
        BY <1>0, <4>1, <4>2 DEF Sums
      <4>4. Asleep(t)' = 1
        BY <2>4, <3>1 DEF Asleep, Count
      <4> QED BY <3>1, <4>3, <4>4 DEF Count
    <3>2. CASE s # t
      <4>1. Asleep(t)' = Asleep(t)
        BY <2>4, <3>2 DEF Asleep
      <4> QED BY <1>0, <3>2, <4>1 DEF Count, Sums
    <3> QED BY <3>1, <3>2
  <2>6. Asking(t)' = Asking(t) /\ Answers(t)' = Answers(t) /\ Rising(t)' = Rising(t)
    BY <2>1, AskingSame, AnswersSame DEF Rising
  <2>7. Count(s = t) \in {0, 1}
    BY DEF Count
  <2>8. Outstanding(t)' = Outstanding(t)
    BY <1>0, <2>3, <2>5, <2>6, <2>7 DEF Sums
  <2> QED BY <2>1, <2>8 DEF Settled
<1>6. CASE ssiTerminate
  BY <1>6 DEF ssiTerminate, Serves, SsiAt, Requested, Deadly
<1>7. ASSUME NEW service \in SpecServices, specMgr(service) PROVE FALSE
  BY <1>7 DEF specMgr, Serves, SsiAt, Requested, Deadly
<1>8. CASE reply
  <2> DEFINE m == [ssi_msg EXCEPT !.m_sender = SSI_MAGIC]
  <2>1. /\ ssi_pc = "reply" /\ ssi_pc' = "recv" /\ SsiSend(s, m)
        /\ UNCHANGED <<pc, ssi_temp, waitForPseudoClockQueue>>
    BY <1>8 DEF reply, SsiAt, Goes
  <2>2. s \in UserTcb /\ m \in Msg /\ m.m_sender = SSI_MAGIC
    BY <2>1, ServedRequest DEF Msg, Request
  <2>3. Served(t) = Count(s = t) /\ Served(t)' = 0 /\ Count(s = t) \in {0, 1}
    BY <2>1 DEF Served, Count
  <2> HIDE DEF s, m
  <2>4. Asleep(t)' = Asleep(t) /\ Rising(t)' = Rising(t)
    BY <2>1 DEF Asleep, Rising, Sleeping
  <2>5. CASE msgFree = 0
    <3>1. Asking(t)' = Asking(t) /\ Answers(t)' = Answers(t)
      BY <2>1, <2>5, AskingSame, AnswersSame DEF SsiSend, mailVars
    <3>2. Outstanding(t)' = Outstanding(t) - Count(s = t)
      BY <1>0, <2>3, <2>4, <3>1 DEF Sums
    <3>3. CASE s = t
      <4>1. Asking(t) = 0 /\ Answers(t) = 0 /\ Outstanding(t) \in Nat
        <5>1. Outstanding(t) <= 1
          BY OneOutstanding
        <5>2. Served(t) = 1
          BY <2>3, <3>3 DEF Count
        <5> QED BY <1>0, <5>1, <5>2 DEF Sums
      <4>2. Outstanding(t)' = Outstanding(t) - 1
        BY <3>2, <3>3 DEF Count
      <4> QED BY <2>1, <2>5, <4>1, <4>2 DEF Settled
    <3>4. CASE s # t
      <4>1. Outstanding(t)' = Outstanding(t)
        BY <1>0, <3>2, <3>4 DEF Count, Sums
      <4> QED BY <2>1, <4>1 DEF Settled
    <3> QED BY <3>3, <3>4
  <2>6. CASE msgFree # 0
    <3>1. insertMessage(s, m)
      BY <2>1, <2>6 DEF SsiSend, Deliver
    <3>2. Asking(t)' = Asking(t) + 0 /\ Answers(t)' = Answers(t) + Count(s = t)
      BY <2>2, <3>1, InsertCounts DEF Count
    <3>3. Outstanding(t)' = Outstanding(t)
      BY <1>0, <2>3, <2>4, <3>2 DEF Sums
    <3> QED BY <2>1, <3>3 DEF Settled
  <2> QED BY <2>5, <2>6
<1>9. CASE wakeUpPseudoClock
  <2>1. ssi_pc = "wake" /\ UNCHANGED <<pc, t_inbox>> /\ ssi_temp = NULL
    BY <1>9 DEF wakeUpPseudoClock, SsiAt, mailVars, TypeOK, ControlTypes
  <2>2. Served(t) = 0 /\ Served(t)' = 0 /\ Rising(t) = 0
    BY <1>9, <2>1 DEF wakeUpPseudoClock, Goes, Served, Rising, Count
  <2>3. Asking(t)' = Asking(t) /\ Answers(t)' = Answers(t)
    BY <2>1, AskingSame, AnswersSame
  <2>4. Asleep(t)' + Rising(t)' = Asleep(t)
    <3>1. CASE waitForPseudoClockQueue = <<>>
      <4>1. UNCHANGED <<waitForPseudoClockQueue, ssi_temp>>
        BY <1>9, <3>1 DEF wakeUpPseudoClock
      <4>2. Asleep(t)' = Asleep(t) /\ Rising(t)' = 0
        BY <2>2, <4>1 DEF Asleep, Rising, Sleeping
      <4> QED BY <1>0, <4>2 DEF Sums
    <3>2. CASE waitForPseudoClockQueue # <<>>
      <4> DEFINE h == Head(waitForPseudoClockQueue)
      <4>1. ssi_temp' = h /\ waitForPseudoClockQueue' = Tail(waitForPseudoClockQueue)
        BY <1>9, <3>2 DEF wakeUpPseudoClock
      <4>2. h \in Sleeping /\ Sleeping' = Sleeping \ {h}
        BY <3>2, <4>1, PlaceTypes, HeadTailPlaces DEF Partition, Sleeping
      <4> HIDE DEF h
      <4>3. CASE h = t
        BY <4>1, <4>2, <4>3 DEF Asleep, Rising, Count
      <4>4. CASE h # t
        BY <4>1, <4>2, <4>4 DEF Asleep, Rising, Count
      <4> QED BY <4>3, <4>4
    <3> QED BY <3>1, <3>2
  <2>5. Outstanding(t)' = Outstanding(t)
    BY <1>0, <2>2, <2>3, <2>4 DEF Sums
  <2> QED BY <2>1, <2>5 DEF Settled
<1>10. CASE wakeUpSend
  <2> DEFINE h == ssi_temp
  <2>1. /\ ssi_pc = "wakeSend" /\ ssi_pc' = "wake" /\ ssi_temp' = NULL /\ h \in UserTcb
        /\ UNCHANGED <<pc, waitForPseudoClockQueue>>
        /\ IF msgFree = 0 THEN UNCHANGED mailVars ELSE insertMessage(h, WakeMsg)
    BY <1>10 DEF wakeUpSend, SsiAt, Goes, TypeOK, ControlTypes
  <2>2. Served(t) = 0 /\ Served(t)' = 0 /\ Asleep(t)' = Asleep(t)
    BY <2>1 DEF Served, Asleep, Sleeping, Count
  <2>3. Rising(t) = Count(h = t) /\ Rising(t)' = 0 /\ Count(h = t) \in {0, 1}
    BY <2>1 DEF Rising, Count
  <2> HIDE DEF h
  <2>4. CASE msgFree = 0
    <3>1. Asking(t)' = Asking(t) /\ Answers(t)' = Answers(t)
      BY <2>1, <2>4, AskingSame, AnswersSame DEF mailVars
    <3>2. Outstanding(t)' = Outstanding(t) - Count(h = t)
      BY <1>0, <2>2, <2>3, <3>1 DEF Sums
    <3>3. CASE h = t
      <4>1. Asking(t) = 0 /\ Answers(t) = 0 /\ Outstanding(t) \in Nat
        <5>1. Outstanding(t) <= 1
          BY OneOutstanding
        <5>2. Rising(t) = 1
          BY <2>3, <3>3 DEF Count
        <5> QED BY <1>0, <5>1, <5>2 DEF Sums
      <4>2. Outstanding(t)' = Outstanding(t) - 1
        BY <3>2, <3>3 DEF Count
      <4> QED BY <2>1, <2>4, <4>1, <4>2 DEF Settled
    <3>4. CASE h # t
      <4>1. Outstanding(t)' = Outstanding(t)
        BY <1>0, <3>2, <3>4 DEF Count, Sums
      <4> QED BY <2>1, <4>1 DEF Settled
    <3> QED BY <3>3, <3>4
  <2>5. CASE msgFree # 0
    <3>1. WakeMsg \in Msg /\ WakeMsg.m_sender = SSI_MAGIC
      BY MsgTypes DEF WakeMsg
    <3>2. Asking(t)' = Asking(t) + 0 /\ Answers(t)' = Answers(t) + Count(h = t)
      BY <2>1, <2>5, <3>1, InsertCounts DEF Count
    <3>3. Outstanding(t)' = Outstanding(t)
      BY <1>0, <2>2, <2>3, <3>2 DEF Sums
    <3> QED BY <2>1, <3>3 DEF Settled
  <2> QED BY <2>4, <2>5
<1> QED
  BY <1>1, <1>2, <1>3, <1>4, <1>5, <1>6, <1>7, <1>8, <1>9, <1>10 DEF SsiStep

\* The requests of a thread in any step.
LEMMA NextSettled ==
    ASSUME Calls \cap Deadly = {}, TypeOK, TypeOK', Partition, Requested, Deathless,
           AtMostOne, NoForgedTick, [Next]_vars, NEW t \in UserTcb
    PROVE  Settled(t)
<1>1. ASSUME NEW u \in UserTcb, UserStep(u) PROVE Settled(t)
  BY <1>1, UserStepSettled
<1>2. CASE SsiStep
  BY <1>2, SsiStepSettled
<1>3. CASE KillStep
  BY <1>3 DEF KillStep, killChild, killThread, killCorrupt, killPanic, Killing, Deathless
<1>4. CASE TimerSlice \/ TimerFault
  BY <1>4, OutstandingSame DEF TimerSlice, TimerFault, mailVars, queueVars, Settled
<1>5. CASE TimerTick
  <2>1. /\ insertMessage(tcb_SSI, Tick) /\ UNCHANGED <<pc, ssiVars, waitForPseudoClockQueue>>
        /\ Tick \in Msg /\ Tick.sender # t /\ tcb_SSI # t /\ tcb_SSI \in Tcb
    BY <1>5, MsgTypes, TcbFacts DEF TimerTick, fakeSend, Tick
  <2>2. Outstanding(t)' = Outstanding(t) + 0 + 0 /\ Outstanding(t) \in Nat
    <3>1. Outstanding(t) \in Nat
      BY OutstandingTerms DEF Sums
    <3> QED BY <2>1, <3>1, OutstandingInsert DEF Count
  <2> QED BY <2>1, <2>2 DEF Settled
<1>6. CASE UNCHANGED vars
  BY <1>6, OutstandingSame DEF vars, mailVars, queueVars, Settled
<1> QED
  BY <1>1, <1>2, <1>3, <1>4, <1>5, <1>6 DEF Next, PowerOff

\* The ticks in the inbox of the SSI come from the interrupt handler.
LEMMA NextForgesNone ==
    ASSUME "WAKE_UP_PSEUDO_CLOCK" \notin Calls, TypeOK, NoForgedTick, [Next]_vars
    PROVE  NoForgedTick'
<1>1. Inbox(tcb_SSI)' \subseteq Inbox(tcb_SSI) \cup MayAsk \cup {Tick}
  BY NextAsked DEF Asked
<1> QED
  BY <1>1 DEF NoForgedTick, MayAsk

\* Nothing is outstanding at boot.
LEMMA InitOutstanding == Init => RequestPending /\ NoForgedTick
<1> SUFFICES ASSUME Init PROVE RequestPending /\ NoForgedTick
  OBVIOUS
<1>1. /\ \A t \in Tcb : t_inbox[t] = <<>> /\ pc[t] = "run"
      /\ ssi_pc = "recv" /\ ssi_temp = NULL /\ Sleeping = {}
      /\ tcb_SSI \in Tcb /\ UserTcb \subseteq Tcb /\ NULL \notin UserTcb
      /\ "run" # SSI_MAGIC
  BY TcbFacts, TagAssumption DEF Init, Sleeping, ToSet
<1>2. ASSUME NEW t \in UserTcb PROVE Outstanding(t) = Count(pc[t] = SSI_MAGIC)
  <2>1. /\ {i \in 1 .. Len(t_inbox[tcb_SSI]) : t_inbox[tcb_SSI][i].sender = t} = {}
        /\ {i \in 1 .. Len(t_inbox[t]) : t_inbox[t][i].m_sender = SSI_MAGIC} = {}
    BY <1>1
  <2>2. Outstanding(t) = 0 + 0 + 0 + 0 + 0
    BY <1>1, <2>1, FS_EmptySet DEF Outstanding, Count
  <2> QED BY <1>1, <2>2 DEF Count
<1>3. NoForgedTick
  BY <1>1 DEF NoForgedTick, Inbox, ToSet
<1> QED
  BY <1>2, <1>3 DEF RequestPending

\* What holds of the requests of threads that cannot die.
RequestInv ==
    TypeOK /\ Partition /\ Requested /\ Deathless /\ NoForgedTick /\ AtMostOne

\* In a workload without deadly calls and without a forged tick.
LEMMA NextRequestInv ==
    ASSUME Calls \cap (Deadly \cup {"WAKE_UP_PSEUDO_CLOCK"}) = {}
    PROVE  RequestInv /\ [Next]_vars => RequestInv'
<1> SUFFICES ASSUME RequestInv, [Next]_vars PROVE RequestInv'
  OBVIOUS
<1>1. Calls \cap Deadly = {} /\ "WAKE_UP_PSEUDO_CLOCK" \notin Calls
  OBVIOUS
<1>2. /\ TypeOK' /\ Partition' /\ Requested' /\ Deathless' /\ NoForgedTick'
  BY <1>1, NextTypes, NextPlaces, NextRequested, NextDeathless, NextForgesNone DEF RequestInv
<1>3. ASSUME NEW t \in UserTcb PROVE Outstanding(t)' <= Count(pc'[t] = SSI_MAGIC)
  <2>1. Settled(t)
    BY <1>1, <1>2, NextSettled DEF RequestInv
  <2>2. Outstanding(t) \in Nat /\ Outstanding(t) <= Count(pc[t] = SSI_MAGIC)
    BY OutstandingTerms DEF RequestInv, AtMostOne, Sums
  <2> QED BY <2>1, <2>2 DEF Settled, Count
<1> QED
  BY <1>2, <1>3 DEF RequestInv, AtMostOne

\* In those workloads no request is served twice, no thread is sent a second
\* answer, and none finds in its inbox the answer to an earlier request,
\* even when the pool runs out of messages.
THEOREM AnsweredAtMostOnce ==
    ASSUME Calls \cap (Deadly \cup {"WAKE_UP_PSEUDO_CLOCK"}) = {}
    PROVE  Spec => []AtMostOne
<1>1. Init => RequestInv
  <2>1. RequestPending /\ TypeOK => AtMostOne
    BY OutstandingTerms DEF RequestPending, AtMostOne, Count
  <2> QED BY <2>1, InitTypes, InitPlaces, InitRequested, InitDeathless, InitOutstanding
          DEF RequestInv
<1>2. RequestInv /\ [Next]_vars => RequestInv'
  BY NextRequestInv
<1>3. RequestInv => AtMostOne
  BY DEF RequestInv
<1> QED
  BY <1>1, <1>2, <1>3, PTL DEF Spec

\* As long as a message is free, no request and no answer is lost: a thread in
\* SSIRequest has one of the two under way, wherever the SSI, the timer and
\* the other threads are with theirs.
THEOREM RequestsStayPending ==
    ASSUME Calls \cap (Deadly \cup {"WAKE_UP_PSEUDO_CLOCK"}) = {}
    PROVE  Spec /\ [](msgFree > 0) => []RequestPending
<1>1. Init => RequestInv /\ RequestPending
  <2>1. RequestPending /\ TypeOK => AtMostOne
    BY OutstandingTerms DEF RequestPending, AtMostOne, Count
  <2> QED BY <2>1, InitTypes, InitPlaces, InitRequested, InitDeathless, InitOutstanding
          DEF RequestInv
<1>2. RequestInv /\ RequestPending /\ msgFree > 0 /\ [Next]_vars
         => (RequestInv /\ RequestPending)'
  <2> SUFFICES ASSUME RequestInv, RequestPending, msgFree > 0, [Next]_vars
               PROVE  RequestInv' /\ RequestPending'
    OBVIOUS
  <2>1. RequestInv' /\ Calls \cap Deadly = {}
    BY NextRequestInv
  <2>2. ASSUME NEW t \in UserTcb PROVE Outstanding(t)' = Count(pc'[t] = SSI_MAGIC)
    <3>1. Settled(t)
      BY <2>1, NextSettled DEF RequestInv
    <3>2. Outstanding(t) = Count(pc[t] = SSI_MAGIC) /\ msgFree # 0
      BY DEF RequestPending
    <3> QED BY <3>1, <3>2 DEF Settled, Count
  <2> QED BY <2>1, <2>2 DEF RequestPending
<1> QED
  BY <1>1, <1>2, PTL DEF Spec

-----------------------------------------------------------------------------
(* How many messages the requests can need. *)

\* The calls of threads that make requests only, and do not die of them.
RequestsOnly == Calls \cap (Deadly \cup {"send", "WAKE_UP_PSEUDO_CLOCK"}) = {}

\* What becomes of the inboxes then: a request for the SSI, a tick if there
\* are not too many, an answer, a message taken, a TCB allocated.
Posted ==
    \/ UNCHANGED t_inbox
    \/ \E m \in Request : m.service # "WAKE_UP_PSEUDO_CLOCK" /\ insertMessage(tcb_SSI, m)
    \/ Cardinality(PendingTicks) < MaxTicks /\ insertMessage(tcb_SSI, Tick)
    \/ \E t \in UserTcb, m \in Msg : m.m_sender = SSI_MAGIC /\ insertMessage(t, m)
    \/ \E t \in Threads : \E i \in 1 .. Len(t_inbox[t]) :
          t_inbox' = [t_inbox EXCEPT ![t] = RemoveAt(@, i)]
    \/ \E t \in UserTcb : t_inbox' = [t_inbox EXCEPT ![t] = <<>>]

\* Every step is one of those.
LEMMA NextPosts ==
    ASSUME RequestsOnly, TypeOK, Deathless, [Next]_vars
    PROVE  Posted
<1> USE TcbFacts
<1>0. /\ issued \subseteq UserTcb /\ \A t \in UserTcb : pc[t] # "sys"
      /\ {"manage", "send", "WAKE_UP_PSEUDO_CLOCK"} \cap Calls = {} /\ Traps \cap Calls = {}
  BY DEF RequestsOnly, Deathless, TypeOK, TreeTypes, Deadly, Traps
<1>1. ASSUME NEW t \in UserTcb, UserStep(t) PROVE Posted
  <2>1. ASSUME NEW d \in issued, Send(t, d) \/ SendOther(t, d) \/ SendContinue(t, d)
                                  \/ SendTerminate(t, d)
        PROVE FALSE
    BY <1>0, <2>1 DEF Send, SendOther, SendContinue, SendTerminate, Verdict, Makes
  <2>2. ASSUME NEW service \in Services, NEW payload \in issued \cup {NULL},
               SendSsi(t, service, payload)
        PROVE Posted
    <3> DEFINE m == RequestMsg(t, service, payload)
    <3>1. m \in Request /\ m.service = service /\ service \in Calls
      BY <1>0, <2>2, MsgTypes DEF SendSsi, Makes, RequestMsg
    <3>2. UNCHANGED t_inbox \/ insertMessage(tcb_SSI, m)
      BY <2>2 DEF SendSsi, Deliver, mailVars
    <3> HIDE DEF m
    <3> QED BY <1>0, <3>1, <3>2 DEF Posted
  <2>3. ASSUME NEW source, RecvTake(t, source) PROVE Posted
    <3>1. Receive(t, source) /\ t \in Threads
      BY <2>3 DEF RecvTake, Threads
    <3> QED BY <3>1, ReceiveTypes DEF Receive, Posted
  <2>4. ASSUME NEW source, RecvBlock(t, source) PROVE Posted
    BY <2>4 DEF RecvBlock, mailVars, Posted
  <2>5. ASSUME NEW trap \in Traps, TrapKill(t, trap) \/ TrapFault(t, trap)
                                     \/ TrapPassUp(t, trap)
        PROVE FALSE
    BY <1>0, <2>5 DEF TrapKill, TrapFault, TrapPassUp, TrapRaised
  <2> QED BY <1>1, <2>1, <2>2, <2>3, <2>4, <2>5 DEF UserStep
<1>2. CASE SsiReceive
  <2>1. Receive(tcb_SSI, NULL) /\ tcb_SSI \in Threads
    BY <1>2 DEF SsiReceive, Threads
  <2> QED BY <2>1, ReceiveTypes DEF Receive, Posted
<1>3. CASE createSon \/ createBrother
  <2>1. \/ UNCHANGED t_inbox
        \/ tcbFree # <<>> /\ t_inbox' = [t_inbox EXCEPT ![Head(tcbFree)] = <<>>]
    BY <1>3 DEF createSon, createBrother, ServeCreate, Create, mailVars
  <2>2. tcbFree # <<>> => Head(tcbFree) \in UserTcb
    BY HeadTailProperties DEF TypeOK, QueueTypes
  <2> QED BY <2>1, <2>2 DEF Posted
<1>4. CASE SsiBlock \/ getCpuTime \/ waitForClock \/ ssiTerminate \/ wakeUpPseudoClock
  BY <1>4 DEF SsiBlock, getCpuTime, waitForClock, ssiTerminate, wakeUpPseudoClock,
              mailVars, Posted
<1>5. ASSUME NEW service \in SpecServices, specMgr(service) PROVE Posted
  BY <1>5 DEF specMgr, mailVars, Posted
<1>6. CASE reply
  <2> DEFINE s == ssi_msg.sender
             m == [ssi_msg EXCEPT !.m_sender = SSI_MAGIC]
  <2>1. ssi_pc = "reply" /\ (UNCHANGED t_inbox \/ insertMessage(s, m))
    BY <1>6 DEF reply, SsiAt, SsiSend, Deliver, mailVars
  <2>2. s \in UserTcb /\ m \in Msg /\ m.m_sender = SSI_MAGIC
    BY <2>1, ServedRequest DEF Msg, Request
  <2> HIDE DEF s, m
  <2> QED BY <2>1, <2>2 DEF Posted
<1>7. CASE wakeUpSend
  <2>1. /\ UNCHANGED t_inbox \/ insertMessage(ssi_temp, WakeMsg)
        /\ ssi_temp \in UserTcb /\ WakeMsg \in Msg /\ WakeMsg.m_sender = SSI_MAGIC
    BY <1>7, MsgTypes DEF wakeUpSend, SsiAt, TypeOK, ControlTypes, mailVars, WakeMsg
  <2> QED BY <2>1 DEF Posted
<1>8. CASE KillStep
  BY <1>8 DEF KillStep, killChild, killThread, killCorrupt, killPanic, Killing, Deathless
<1>9. CASE TimerSlice \/ TimerFault
  BY <1>9 DEF TimerSlice, TimerFault, mailVars, Posted
<1>10. CASE TimerTick
  BY <1>10 DEF TimerTick, fakeSend, Posted
<1>11. CASE UNCHANGED vars
  BY <1>11 DEF vars, mailVars, Posted
<1> QED
  BY <1>1, <1>2, <1>3, <1>4, <1>5, <1>6, <1>7, <1>8, <1>9, <1>10, <1>11
  DEF Next, SsiStep, PowerOff

\* The ticks are the positions of messages of that service.
LEMMA TicksPending ==
    TypeOK => PendingTicks = Positions(t_inbox[tcb_SSI],
                                       {m \in Msg : m.service = "WAKE_UP_PSEUDO_CLOCK"})
<1> SUFFICES ASSUME TypeOK
             PROVE  PendingTicks = Positions(t_inbox[tcb_SSI],
                                             {m \in Msg : m.service = "WAKE_UP_PSEUDO_CLOCK"})
  OBVIOUS
<1>1. t_inbox[tcb_SSI] \in Seq(Msg)
  BY TcbFacts DEF TypeOK, MailTypes
<1>2. \A i \in 1 .. Len(t_inbox[tcb_SSI]) : t_inbox[tcb_SSI][i] \in Msg
  BY <1>1, ElementOfSeq
<1> QED
  BY <1>2 DEF PendingTicks, Positions

\* The inboxes when threads make requests only: few ticks for the SSI, and
\* answers for the others.
FewTicks == Cardinality(PendingTicks) <= MaxTicks

OnlyAnswers ==
    \A t \in Tcb \ {tcb_SSI} :
        /\ \A m \in Inbox(t) : m.m_sender = SSI_MAGIC
        /\ t \notin UserTcb => t_inbox[t] = <<>>

\* The timer counts the ticks before it adds one.
LEMMA NextFewTicks ==
    ASSUME TypeOK, TypeOK', FewTicks, Posted
    PROVE  FewTicks'
<1> USE TcbFacts
<1> DEFINE M == {m \in Msg : m.service = "WAKE_UP_PSEUDO_CLOCK"}
           s == t_inbox[tcb_SSI]
<1>1. /\ s \in Seq(Msg) /\ t_inbox \in [Tcb -> Seq(Msg)] /\ MaxTicks \in Nat
      /\ Tick \in M /\ Request \subseteq Msg
  BY MsgTypes, SchedulerAssumption DEF TypeOK, MailTypes, Tick
<1>2. PendingTicks = Positions(s, M)
  BY TicksPending
<1>3. PendingTicks' = Positions(s', M)
  <2>1. (TypeOK => PendingTicks = Positions(s, M))'
    BY TicksPending, PTL
  <2> QED BY <2>1
<1>4. Cardinality(PendingTicks) \in Nat
  BY <1>1, <1>2, PositionsFinite
<1>5. CASE s' = s
  BY <1>2, <1>3, <1>5 DEF FewTicks
<1>6. ASSUME NEW m \in Msg, insertMessage(tcb_SSI, m),
             m \in M => Cardinality(PendingTicks) < MaxTicks
      PROVE FewTicks'
  <2>1. s' = Append(s, m)
    BY <1>1, <1>6 DEF insertMessage
  <2> HIDE DEF s, M
  <2>2. Cardinality(PendingTicks') = Cardinality(PendingTicks) + (IF m \in M THEN 1 ELSE 0)
    BY <1>1, <1>2, <1>3, <1>6, <2>1, PositionsAppend
  <2> QED BY <1>1, <1>4, <1>6, <2>2 DEF FewTicks
<1>7. ASSUME NEW i \in 1 .. Len(s), s' = RemoveAt(s, i)
      PROVE FewTicks'
  <2> HIDE DEF s, M
  <2>1. Cardinality(PendingTicks') = Cardinality(PendingTicks) - (IF s[i] \in M THEN 1 ELSE 0)
    BY <1>1, <1>2, <1>3, <1>7, PositionsRemoveAt
  <2> QED BY <1>1, <1>4, <2>1 DEF FewTicks
<1>8. \/ s' = s
      \/ \E m \in Msg : insertMessage(tcb_SSI, m)
                        /\ (m \in M => Cardinality(PendingTicks) < MaxTicks)
      \/ \E i \in 1 .. Len(s) : s' = RemoveAt(s, i)
  <2>1. ASSUME NEW t \in Tcb, t # tcb_SSI, NEW q, t_inbox' = [t_inbox EXCEPT ![t] = q]
        PROVE s' = s
    BY <1>1, <2>1
  <2>2. ASSUME NEW m \in Request, m.service # "WAKE_UP_PSEUDO_CLOCK",
               insertMessage(tcb_SSI, m)
        PROVE m \in Msg /\ m \notin M
    BY <1>1, <2>2
  <2>3. ASSUME NEW t \in Threads, NEW i \in 1 .. Len(t_inbox[t]),
               t_inbox' = [t_inbox EXCEPT ![t] = RemoveAt(@, i)]
        PROVE s' = s \/ \E j \in 1 .. Len(s) : s' = RemoveAt(s, j)
    <3>1. CASE t = tcb_SSI
      BY <1>1, <2>3, <3>1
    <3>2. CASE t # tcb_SSI
      BY <1>1, <2>3, <3>2 DEF Threads
    <3> QED BY <3>1, <3>2
  <2>4. ASSUME NEW t \in UserTcb, NEW m, insertMessage(t, m) PROVE s' = s
    BY <1>1, <2>4 DEF insertMessage
  <2>5. Tick \in Msg
    BY <1>1
  <2> HIDE DEF s, M
  <2>6. ASSUME NEW t \in UserTcb, t_inbox' = [t_inbox EXCEPT ![t] = <<>>] PROVE s' = s
    BY <1>1, <2>6, <2>1
  <2>7. CASE \E m \in Request : m.service # "WAKE_UP_PSEUDO_CLOCK" /\ insertMessage(tcb_SSI, m)
    BY <2>2, <2>7
  <2>8. CASE Cardinality(PendingTicks) < MaxTicks /\ insertMessage(tcb_SSI, Tick)
    BY <2>5, <2>8
  <2>9. CASE UNCHANGED t_inbox
    BY <2>9 DEF s
  <2>10. CASE \E t \in UserTcb, m \in Msg : m.m_sender = SSI_MAGIC /\ insertMessage(t, m)
    BY <2>4, <2>10
  <2>11. CASE \E t \in Threads : \E i \in 1 .. Len(t_inbox[t]) :
                 t_inbox' = [t_inbox EXCEPT ![t] = RemoveAt(@, i)]
    BY <2>3, <2>11
  <2>12. CASE \E t \in UserTcb : t_inbox' = [t_inbox EXCEPT ![t] = <<>>]
    BY <2>6, <2>12
  <2> QED BY <2>7, <2>8, <2>9, <2>10, <2>11, <2>12 DEF Posted
<1> HIDE DEF M, s
<1> QED
  BY <1>5, <1>6, <1>7, <1>8

\* The SSI sends its answers as SSI_MAGIC, and sends to user threads only.
LEMMA NextOnlyAnswers ==
    ASSUME TypeOK, OnlyAnswers, Posted
    PROVE  OnlyAnswers'
<1> USE TcbFacts
<1>0. t_inbox \in [Tcb -> Seq(Msg)]
  BY DEF TypeOK, MailTypes
<1> SUFFICES ASSUME NEW t \in Tcb \ {tcb_SSI}
             PROVE  /\ \A m \in Inbox(t)' : m.m_sender = SSI_MAGIC
                    /\ t \notin UserTcb => t_inbox'[t] = <<>>
  BY DEF OnlyAnswers
<1>1. CASE t_inbox'[t] = t_inbox[t]
  BY <1>1 DEF OnlyAnswers, Inbox
<1>2. ASSUME NEW m \in Msg, t \in UserTcb, m.m_sender = SSI_MAGIC, insertMessage(t, m)
      PROVE \A n \in Inbox(t)' : n.m_sender = SSI_MAGIC
  <2>1. Inbox(t)' = Inbox(t) \cup {m}
    BY <1>0, <1>2, ToSetAppend DEF insertMessage, Inbox
  <2> QED BY <1>2, <2>1 DEF OnlyAnswers
<1>3. ASSUME NEW i \in 1 .. Len(t_inbox[t]), t_inbox' = [t_inbox EXCEPT ![t] = RemoveAt(@, i)]
      PROVE Inbox(t)' \subseteq Inbox(t)
  BY <1>0, <1>3, ToSetRemoveAt DEF Inbox
<1>4. CASE t_inbox'[t] = <<>>
  BY <1>4 DEF Inbox, ToSet
<1>5. ASSUME NEW u \in Tcb, u # t, NEW q, t_inbox' = [t_inbox EXCEPT ![u] = q]
      PROVE t_inbox'[t] = t_inbox[t]
  BY <1>0, <1>5
<1>6. CASE UNCHANGED t_inbox
  BY <1>1, <1>6
<1>7. CASE \E m : insertMessage(tcb_SSI, m)
  BY <1>1, <1>5, <1>7 DEF insertMessage
<1>8. ASSUME NEW u \in UserTcb, NEW m \in Msg, m.m_sender = SSI_MAGIC, insertMessage(u, m)
      PROVE /\ \A n \in Inbox(t)' : n.m_sender = SSI_MAGIC
            /\ t \notin UserTcb => t_inbox'[t] = <<>>
  <2>1. CASE u = t
    BY <1>2, <1>8, <2>1
  <2>2. CASE u # t
    BY <1>1, <1>5, <1>8, <2>2 DEF insertMessage
  <2> QED BY <2>1, <2>2
<1>9. ASSUME NEW u \in Threads, NEW i \in 1 .. Len(t_inbox[u]),
             t_inbox' = [t_inbox EXCEPT ![u] = RemoveAt(@, i)]
      PROVE /\ \A n \in Inbox(t)' : n.m_sender = SSI_MAGIC
            /\ t \notin UserTcb => t_inbox'[t] = <<>>
  <2>1. CASE u = t
    BY <1>3, <1>9, <2>1 DEF Threads, OnlyAnswers
  <2>2. CASE u # t
    BY <1>1, <1>5, <1>9, <2>2 DEF Threads
  <2> QED BY <2>1, <2>2
<1>10. ASSUME NEW u \in UserTcb, t_inbox' = [t_inbox EXCEPT ![u] = <<>>]
       PROVE /\ \A n \in Inbox(t)' : n.m_sender = SSI_MAGIC
             /\ t \notin UserTcb => t_inbox'[t] = <<>>
  <2>1. CASE u = t
    BY <1>0, <1>4, <1>10, <2>1
  <2>2. CASE u # t
    BY <1>1, <1>5, <1>10, <2>2
  <2> QED BY <2>1, <2>2
<1> QED
  BY <1>6, <1>7, <1>8, <1>9, <1>10 DEF Posted

\* A set of one element at most has no two.
LEMMA NoTwo ==
    ASSUME NEW S, IsFiniteSet(S), Cardinality(S) <= 1, NEW x \in S, NEW y \in S
    PROVE  x = y
<1>1. Cardinality(S) \in Nat /\ S # {}
  BY FS_CardinalityType
<1>2. Cardinality(S) # 0
  BY FS_EmptySet
<1>3. Cardinality(S) = 1
  BY <1>1, <1>2
<1>4. PICK z : S = {z}
  BY <1>3, FS_Singleton
<1> QED
  BY <1>4

\* Every message is a tick or one of the only request or answer of a thread:
\* a pool with a message for each thread and each tick is exhausted only when
\* every thread has one.
LEMMA PoolSuffices ==
    ASSUME TypeOK, AtMostOne, FewTicks, OnlyAnswers, MessagesConserved, NoForgedTick,
           MAXMESSAGES >= Cardinality(UserTcb) + MaxTicks, msgFree = 0,
           NEW t \in UserTcb
    PROVE  Asking(t) # 0 \/ Answers(t) # 0
<1> USE TcbFacts
<1> SUFFICES ASSUME Asking(t) = 0, Answers(t) = 0 PROVE FALSE
  OBVIOUS
<1> DEFINE s == t_inbox[tcb_SSI]
           A(u) == Positions(s, {m \in Msg : m.sender = u})
           B(u) == Positions(t_inbox[u], {m \in Msg : m.m_sender = SSI_MAGIC})
           Ticks == {tcb_SSI} \X PendingTicks
           Rest == Mail \ Ticks
           Owner == [x \in Rest |-> IF x[1] = tcb_SSI THEN s[x[2]].sender ELSE x[1]]
<1>1. /\ s \in Seq(Msg) /\ s \in Seq(Request \cup {Tick}) /\ t_inbox \in [Tcb -> Seq(Msg)]
      /\ MaxTicks \in Nat /\ MAXMESSAGES \in Nat /\ Queued \in Nat
  BY SchedulerAssumption, MsgAssumption, QueuedType DEF TypeOK, MailTypes
<1>2. /\ \A u \in Tcb : \A i \in 1 .. Len(t_inbox[u]) : t_inbox[u][i] \in Msg
      /\ \A i \in 1 .. Len(s) : s[i] \in Request \cup {Tick}
  BY <1>1, ElementOfSeq
<1>3. \A u \in UserTcb : /\ IsFiniteSet(A(u)) /\ IsFiniteSet(B(u))
                         /\ Cardinality(A(u)) = Asking(u) /\ Cardinality(B(u)) = Answers(u)
  BY <1>1, PositionsFinite DEF Asking, Answers
<1>4. \A u \in UserTcb : Asking(u) + Answers(u) <= 1 /\ Asking(u) \in Nat /\ Answers(u) \in Nat
  <2> SUFFICES ASSUME NEW u \in UserTcb
               PROVE  Asking(u) + Answers(u) <= 1 /\ Asking(u) \in Nat /\ Answers(u) \in Nat
    OBVIOUS
  <2> QED BY OneOutstanding, OutstandingTerms DEF Sums
<1>5. IsFiniteSet(Tcb) /\ IsFiniteSet(UserTcb)
  <2>1. IsFiniteSet(Tcb)
    BY TcbAssumption
  <2> QED BY <2>1, FS_Subset
\* The positions that are not those of ticks.
<1>6. ASSUME NEW x \in Rest
      PROVE  \/ /\ x = <<tcb_SSI, x[2]>> /\ Owner[x] \in UserTcb /\ x[2] \in A(Owner[x])
             \/ /\ x = <<Owner[x], x[2]>> /\ Owner[x] \in UserTcb /\ x[2] \in B(Owner[x])
                /\ x[1] # tcb_SSI
  <2>0. PICK u \in Tcb : \E i \in 1 .. Len(t_inbox[u]) : x = <<u, i>>
    BY MailElements
  <2>1. PICK i \in 1 .. Len(t_inbox[u]) : x = <<u, i>>
    BY <2>0
  <2>2. CASE u = tcb_SSI
    <3>1. i \notin PendingTicks /\ s[i] \in Request \cup {Tick} /\ s[i] \in Msg
      BY <1>2, <2>1, <2>2
    <3>2. s[i] # Tick
      BY <2>1, <2>2, <3>1 DEF PendingTicks, Tick
    <3>3. s[i].sender \in UserTcb
      BY <3>1, <3>2 DEF Request
    <3>4. i \in A(s[i].sender)
      BY <2>1, <2>2, <3>1 DEF Positions
    <3> QED BY <2>1, <2>2, <3>3, <3>4
  <2>3. CASE u # tcb_SSI
    <3>1. u \in UserTcb
      BY <1>1, <2>1, <2>3 DEF OnlyAnswers
    <3>2. t_inbox[u][i] \in Inbox(u)
      BY <1>1, <2>1, LenProperties DEF Inbox, ToSet
    <3>3. i \in B(u)
      BY <1>2, <2>1, <2>3, <3>2 DEF OnlyAnswers, Positions
    <3> QED BY <2>1, <2>3, <3>1, <3>3
  <2> QED BY <2>2, <2>3
<1> HIDE DEF A, B
<1>7. Owner \in Injection(Rest, UserTcb \ {t})
  <2>1. ASSUME NEW x \in Rest PROVE Owner[x] \in UserTcb \ {t}
    <3>1. A(t) = {} /\ B(t) = {}
      BY <1>3, FS_EmptySet
    <3> QED BY <1>6, <3>1
  <2>2. ASSUME NEW x \in Rest, NEW y \in Rest, Owner[x] = Owner[y] PROVE x = y
    <3> DEFINE u == Owner[x]
    <3>1. u \in UserTcb /\ u = Owner[y]
      BY <1>6, <2>2
    <3> HIDE DEF Owner
    <3>2. ~(A(u) # {} /\ B(u) # {})
      <4>1. A(u) # {} => Cardinality(A(u)) # 0
        BY <1>3, <3>1, FS_EmptySet
      <4>2. B(u) # {} => Cardinality(B(u)) # 0
        BY <1>3, <3>1, FS_EmptySet
      <4> QED BY <1>3, <1>4, <3>1, <4>1, <4>2
    <3>3. Cardinality(A(u)) <= 1 /\ Cardinality(B(u)) <= 1 /\ IsFiniteSet(A(u)) /\ IsFiniteSet(B(u))
      BY <1>3, <1>4, <3>1
    <3>4. CASE x[2] \in A(u) /\ x = <<tcb_SSI, x[2]>>
      <4>1. y = <<tcb_SSI, y[2]>> /\ y[2] \in A(u)
        BY <1>6, <2>2, <3>1, <3>2, <3>4
      <4>2. x[2] = y[2]
        BY <3>3, <3>4, <4>1, NoTwo
      <4> QED BY <3>4, <4>1, <4>2
    <3>5. CASE x[2] \in B(u) /\ x = <<u, x[2]>>
      <4>1. y = <<u, y[2]>> /\ y[2] \in B(u)
        BY <1>6, <2>2, <3>1, <3>2, <3>5
      <4>2. x[2] = y[2]
        BY <3>3, <3>5, <4>1, NoTwo
      <4> QED BY <3>5, <4>1, <4>2
    <3> QED BY <1>6, <3>4, <3>5
  <2>3. Owner \in [Rest -> UserTcb \ {t}]
    BY <2>1
  <2> HIDE DEF Owner, Rest
  <2> QED BY <2>2, <2>3 DEF Injection, IsInjective
<1>8. Cardinality(Rest) <= Cardinality(UserTcb) - 1 /\ IsFiniteSet(Rest)
  <2>1. /\ IsFiniteSet(UserTcb \ {t}) /\ Cardinality(UserTcb \ {t}) = Cardinality(UserTcb) - 1
    BY <1>5, RemoveOne
  <2> HIDE DEF Owner, Rest
  <2> QED BY <1>7, <2>1, FS_Injection
<1>9. IsFiniteSet(Ticks) /\ Cardinality(Ticks) = Cardinality(PendingTicks)
  <2>1. IsFiniteSet(PendingTicks) /\ Cardinality(PendingTicks) \in Nat
    BY <1>1, TicksPending, PositionsFinite
  <2>2. IsFiniteSet({tcb_SSI}) /\ Cardinality({tcb_SSI}) = 1
    BY FS_Singleton
  <2>3. Cardinality(Ticks) = 1 * Cardinality(PendingTicks) /\ IsFiniteSet(Ticks)
    BY <2>1, <2>2, FS_Product
  <2> QED BY <2>1, <2>3
<1>10. Cardinality(Rest) = Queued - Cardinality(PendingTicks)
  <2>1. Ticks \subseteq Mail
    BY MailElements DEF PendingTicks
  <2>2. IsFiniteSet(Mail)
    BY MailFinite
  <2> HIDE DEF Ticks
  <2>3. Cardinality(Mail \ Ticks) = Cardinality(Mail) - Cardinality(Ticks)
    BY <2>1, <2>2, RemoveSome
  <2> QED BY <1>9, <2>3 DEF Queued
<1>11. /\ Cardinality(PendingTicks) <= MaxTicks /\ Cardinality(PendingTicks) \in Nat
       /\ Queued = MAXMESSAGES /\ Cardinality(UserTcb) \in Nat
  BY <1>1, <1>5, TicksPending, PositionsFinite, FS_CardinalityType
  DEF FewTicks, MessagesConserved
<1> HIDE DEF Rest, Ticks
<1> QED
  BY <1>1, <1>8, <1>10, <1>11

\* What holds when threads make requests only.
PoolInv == RequestInv /\ RequestPending /\ FewTicks /\ OnlyAnswers /\ MessagesConserved

\* The steps of such a workload keep it.
LEMMA NextPoolInv ==
    ASSUME RequestsOnly, MAXMESSAGES >= Cardinality(UserTcb) + MaxTicks
    PROVE  PoolInv /\ [Next]_vars => PoolInv'
<1> SUFFICES ASSUME PoolInv, [Next]_vars PROVE PoolInv'
  OBVIOUS
<1> USE DEF PoolInv
<1>1. Calls \cap (Deadly \cup {"WAKE_UP_PSEUDO_CLOCK"}) = {} /\ Calls \cap Deadly = {}
  BY DEF RequestsOnly
<1>2. RequestInv'
  BY <1>1, NextRequestInv
<1>3. Posted
  BY NextPosts DEF RequestInv
<1>4. FewTicks' /\ OnlyAnswers'
  BY <1>2, <1>3, NextFewTicks, NextOnlyAnswers DEF RequestInv
<1>5. MessagesConserved'
  BY <1>1, NextConserved DEF RequestInv
<1>6. ASSUME NEW t \in UserTcb PROVE Outstanding(t)' = Count(pc'[t] = SSI_MAGIC)
  <2>1. Settled(t)
    BY <1>1, <1>2, NextSettled DEF RequestInv
  <2>2. Outstanding(t) = Count(pc[t] = SSI_MAGIC)
    BY DEF RequestPending
  <2>3. ~(msgFree = 0 /\ Asking(t) = 0 /\ Answers(t) = 0)
    BY PoolSuffices DEF RequestInv
  <2> QED BY <2>1, <2>2, <2>3 DEF Settled, Count
<1> QED
  BY <1>2, <1>4, <1>5, <1>6 DEF RequestPending

\* It holds at boot.
LEMMA InitPoolInv == Init => PoolInv
<1> SUFFICES ASSUME Init PROVE PoolInv
  OBVIOUS
<1>1. RequestInv /\ RequestPending
  <2>1. RequestPending /\ TypeOK => AtMostOne
    BY OutstandingTerms DEF RequestPending, AtMostOne, Count
  <2> QED BY <2>1, InitTypes, InitPlaces, InitRequested, InitDeathless, InitOutstanding
          DEF RequestInv
<1>2. FewTicks
  <2>1. PendingTicks = {}
    BY TcbFacts DEF Init, PendingTicks
  <2> QED BY <2>1, FS_EmptySet, SchedulerAssumption DEF FewTicks
<1>3. OnlyAnswers
  BY DEF Init, OnlyAnswers, Inbox, ToSet
<1>4. MessagesConserved
  BY InitMail, MsgAssumption DEF MessagesConserved
<1> QED
  BY <1>1, <1>2, <1>3, <1>4 DEF PoolInv

\* With a message for each thread and each tick that may be queued, as in the
\* Clock run, no request and no answer is ever lost.
THEOREM PoolForEveryRequest ==
    ASSUME RequestsOnly, MAXMESSAGES >= Cardinality(UserTcb) + MaxTicks
    PROVE  Spec => []RequestPending
<1>1. PoolInv => RequestPending
  BY DEF PoolInv
<1> QED
  BY <1>1, InitPoolInv, NextPoolInv, PTL DEF Spec

-----------------------------------------------------------------------------
(* Remote procedure calls. *)

\* A request of t is not yet served.
Called(t) == \E m \in Unserved : m.sender = t

\* The inbox of the SSI as a sequence of messages, requests or ticks.
LEMMA SsiInbox ==
    ASSUME TypeOK
    PROVE  /\ t_inbox \in [Tcb -> Seq(Msg)] /\ t_inbox[tcb_SSI] \in Seq(Request \cup {Tick})
           /\ \A i \in 1 .. Len(t_inbox[tcb_SSI]) :
                 /\ t_inbox[tcb_SSI][i] \in Inbox(tcb_SSI)
                 /\ t_inbox[tcb_SSI][i] \in Request \cup {Tick}
           /\ \A m \in Inbox(tcb_SSI) :
                 /\ m \in Request \cup {Tick}
                 /\ \E i \in 1 .. Len(t_inbox[tcb_SSI]) : m = t_inbox[tcb_SSI][i]
<1>1. t_inbox \in [Tcb -> Seq(Msg)] /\ t_inbox[tcb_SSI] \in Seq(Request \cup {Tick})
  BY DEF TypeOK, MailTypes
<1>2. \A i \in 1 .. Len(t_inbox[tcb_SSI]) : t_inbox[tcb_SSI][i] \in Request \cup {Tick}
  BY <1>1, ElementOfSeq
<1>3. DOMAIN t_inbox[tcb_SSI] = 1 .. Len(t_inbox[tcb_SSI])
  BY <1>1, LenProperties
<1> QED
  BY <1>1, <1>2, <1>3 DEF Inbox, ToSet

\* What is not yet served was asked by a thread.
LEMMA UnservedRequests == TypeOK => Unserved \subseteq Request
<1> SUFFICES ASSUME TypeOK PROVE Unserved \subseteq Request
  OBVIOUS
<1>1. ssi_pc = "serve" => ssi_msg \in Request
  BY DEF TypeOK, ControlTypes
<1>2. Inbox(tcb_SSI) \ {Tick} \subseteq Request
  BY SsiInbox
<1> QED
  BY <1>1, <1>2 DEF Unserved, Inbox

\* A request is in the inbox of the SSI, or being served.
LEMMA CalledAsks ==
    ASSUME TypeOK, NEW t \in UserTcb
    PROVE  /\ Asking(t) # 0 <=> \E i \in 1 .. Len(t_inbox[tcb_SSI]) :
                                    t_inbox[tcb_SSI][i].sender = t
           /\ Called(t) <=> Asking(t) # 0 \/ (ssi_pc = "serve" /\ ssi_msg.sender = t)
<1> USE TcbFacts
<1> DEFINE s == t_inbox[tcb_SSI]
           P == Positions(s, {m \in Msg : m.sender = t})
<1>1. s \in Seq(Msg) /\ Tick.sender # t
  BY SsiInbox DEF Tick
<1>2. IsFiniteSet(P) /\ Asking(t) = Cardinality(P)
  BY <1>1, PositionsFinite DEF Asking
<1>3. Asking(t) # 0 <=> P # {}
  <2> HIDE DEF P
  <2> QED BY <1>2, FS_EmptySet
<1>4. P # {} <=> \E i \in 1 .. Len(s) : s[i].sender = t
  <2>1. \A i \in 1 .. Len(s) : s[i] \in Msg
    BY <1>1, ElementOfSeq
  <2> QED BY <2>1 DEF Positions
<1>5. (\E i \in 1 .. Len(s) : s[i].sender = t)
         <=> (\E m \in ToSet(s) \ {Tick} : m.sender = t)
  BY <1>1, SsiInbox DEF Inbox
<1> QED
  BY <1>3, <1>4, <1>5 DEF Called, Unserved

\* Where the only request of a thread is, its status says.
LEMMA StatusFacts ==
    ASSUME TypeOK, RequestPending, NEW t \in UserTcb
    PROVE  /\ Called(t) => /\ StatusOf(t) = "called" /\ t \notin Sleeping
                           /\ Answers(t) = 0 /\ ssi_temp # t
           /\ t \in Sleeping => StatusOf(t) = "asleep" /\ Answers(t) = 0 /\ ssi_temp # t
           /\ pc[t] # SSI_MAGIC <=> StatusOf(t) = "idle"
           /\ pc[t] = SSI_MAGIC /\ ~Called(t) /\ t \notin Sleeping => StatusOf(t) = "served"
           /\ pc[t] # SSI_MAGIC => ~Called(t) /\ t \notin Sleeping /\ Answers(t) = 0
           /\ ssi_pc = "serve" /\ ssi_msg.sender = t => Asking(t) = 0
<1>1. /\ Outstanding(t) = Asking(t) + Served(t) + Asleep(t) + Rising(t) + Answers(t)
      /\ Asking(t) \in Nat /\ Answers(t) \in Nat
      /\ Served(t) \in {0, 1} /\ Asleep(t) \in {0, 1} /\ Rising(t) \in {0, 1}
  BY OutstandingTerms DEF Sums
<1>2. /\ pc[t] = SSI_MAGIC => Outstanding(t) = 1
      /\ pc[t] # SSI_MAGIC => Outstanding(t) = 0
  BY DEF RequestPending, Count
<1>3. /\ Asleep(t) = 1 <=> t \in Sleeping
      /\ Rising(t) = 1 <=> ssi_temp = t
      /\ ssi_pc = "serve" /\ ssi_msg.sender = t => Served(t) = 1
  BY DEF Asleep, Rising, Served, Count
<1>4. Called(t) <=> Asking(t) # 0 \/ (ssi_pc = "serve" /\ ssi_msg.sender = t)
  BY CalledAsks
<1>5. Called(t) => Asking(t) + Served(t) >= 1
  BY <1>1, <1>3, <1>4
<1>6. /\ Called(t) => t \notin Sleeping /\ Answers(t) = 0 /\ ssi_temp # t /\ pc[t] = SSI_MAGIC
      /\ t \in Sleeping => Answers(t) = 0 /\ ssi_temp # t /\ pc[t] = SSI_MAGIC
      /\ pc[t] # SSI_MAGIC => Answers(t) = 0
      /\ Served(t) = 1 => Asking(t) = 0
  BY <1>1, <1>2, <1>3, <1>5
<1>7. StatusOf(t) = IF pc[t] # SSI_MAGIC THEN "idle"
                    ELSE IF Called(t) THEN "called"
                    ELSE IF t \in Sleeping THEN "asleep" ELSE "served"
  BY DEF StatusOf, Called
<1> QED
  BY <1>3, <1>6, <1>7

-----------------------------------------------------------------------------
(* Steps of the nucleus that are none of Rpc. *)

\* A step that neither adds nor takes a request keeps the status of t.
LEMMA StatusSame ==
    ASSUME NEW t, Called(t)' <=> Called(t), t \in Sleeping' <=> t \in Sleeping,
           pc'[t] = SSI_MAGIC <=> pc[t] = SSI_MAGIC
    PROVE  StatusOf(t)' = StatusOf(t)
  BY DEF StatusOf, Called

\* The statuses are those of the threads.
LEMMA StatusesSet ==
    ASSUME NEW t \in UserTcb, NEW x,
           \A u \in UserTcb : StatusOf(u)' = IF u = t THEN x ELSE StatusOf(u)
    PROVE  StatusesOf' = [StatusesOf EXCEPT ![t] = x]
  BY DEF StatusesOf

\* Likewise if none changes.
LEMMA StatusesSame ==
    ASSUME \A u \in UserTcb : StatusOf(u)' = StatusOf(u)
    PROVE  StatusesOf' = StatusesOf
  BY DEF StatusesOf

\* A step that leaves the requests alone, the sleepers, and who is in
\* SSIRequest, is none of Rpc.
LEMMA RpcSame ==
    ASSUME t_inbox'[tcb_SSI] = t_inbox[tcb_SSI], ssi_pc' = "serve" <=> ssi_pc = "serve",
           ssi_pc = "serve" => ssi_msg' = ssi_msg, Sleeping' = Sleeping,
           \A t \in UserTcb : pc'[t] = SSI_MAGIC <=> pc[t] = SSI_MAGIC,
           UNCHANGED threadCount
    PROVE  UNCHANGED Abstract!rpcVars
<1>1. Unserved' = Unserved
  BY DEF Unserved
<1>2. CallsOf' = CallsOf
  BY <1>1 DEF CallsOf
<1>3. BeforeOf' = BeforeOf
  BY DEF BeforeOf, Precedes
<1>4. StatusesOf' = StatusesOf
  BY <1>1, StatusSame, StatusesSame DEF Called
<1> QED
  BY <1>2, <1>3, <1>4 DEF Abstract!rpcVars

\* A tick comes behind the requests and is none of them.
LEMMA TickIsNoCall ==
    ASSUME TypeOK, insertMessage(tcb_SSI, Tick), UNCHANGED <<ssi_pc, ssi_msg, pc, threadCount>>,
           Sleeping' = Sleeping
    PROVE  UNCHANGED Abstract!rpcVars
<1> USE TcbFacts
<1> DEFINE s == t_inbox[tcb_SSI]
<1>1. /\ s \in Seq(Msg) /\ Tick \in Msg /\ s' = Append(s, Tick)
      /\ \A t \in UserTcb : Tick.sender # t
  BY SsiInbox, MsgTypes DEF insertMessage, Tick
<1>2. Unserved' = Unserved
  <2>1. ToSet(s') = ToSet(s) \cup {Tick}
    BY <1>1, ToSetAppend
  <2> QED BY <2>1 DEF Unserved
<1>3. ASSUME NEW t \in UserTcb, NEW u \in UserTcb
      PROVE Precedes(t, u)' <=> Precedes(t, u)
  <2>1. /\ Len(s) \in Nat /\ Len(s') = Len(s) + 1 /\ s'[Len(s) + 1] = Tick
        /\ \A i \in 1 .. Len(s) : s'[i] = s[i]
    BY <1>1, LenProperties, AppendProperties
  <2> HIDE DEF s
  <2>2. /\ Precedes(t, u) <=> \E j \in 1 .. Len(s) :
              s[j].sender = u /\ (\/ ssi_pc = "serve" /\ ssi_msg.sender = t
                                  \/ \E i \in 1 .. j - 1 : s[i].sender = t)
        /\ Precedes(t, u)' <=> \E j \in 1 .. Len(s') :
              s'[j].sender = u /\ (\/ ssi_pc = "serve" /\ ssi_msg.sender = t
                                   \/ \E i \in 1 .. j - 1 : s'[i].sender = t)
    BY DEF Precedes, s
  <2> QED BY <1>1, <2>1, <2>2
<1>4. CallsOf' = CallsOf /\ BeforeOf' = BeforeOf
  BY <1>2, <1>3 DEF CallsOf, BeforeOf
<1>5. StatusesOf' = StatusesOf
  BY <1>2, StatusSame, StatusesSame DEF Called
<1> QED
  BY <1>4, <1>5 DEF Abstract!rpcVars

\* The SSI takes the first message of its inbox, be it a request or a tick.
LEMMA SsiReceiveSame ==
    ASSUME TypeOK, NoForgedTick, SsiReceive
    PROVE  UNCHANGED Abstract!rpcVars
<1> USE TcbFacts
<1> DEFINE s == t_inbox[tcb_SSI]
           i == popMessage(s, NULL)
           m == s[i]
           n == Len(s) - 1
<1>1. /\ Receive(tcb_SSI, NULL) /\ tcb_SSI \in Threads /\ ssi_pc = "recv"
      /\ UNCHANGED <<pc, threadCount, waitForPseudoClockQueue>>
      /\ IF m.service = "WAKE_UP_PSEUDO_CLOCK"
         THEN ssi_pc' = "wake" ELSE ssi_pc' = "serve" /\ ssi_msg' = m
  BY DEF SsiReceive, SsiAt, Goes, Threads, queueVars, countVars
<1>2. /\ s \in Seq(Msg) /\ s' = RemoveAt(s, i) /\ Len(s) \in Nat
  BY <1>1, SsiInbox, LenProperties DEF Receive
<1>3. i = 1 /\ 1 \in 1 .. Len(s)
  <2>1. i \in 1 .. Len(s) /\ i \in Matching(s, NULL)
    BY <1>1, ReceiveTypes
  <2>2. Matching(s, NULL) = 1 .. Len(s)
    BY DEF Matching, Accepts
  <2> HIDE DEF s, i
  <2>3. 1 \in 1 .. Len(s) /\ \A j \in 1 .. Len(s) : 1 <= j
    BY <1>2, <2>1
  <2>4. popMessage(s, NULL) = CHOOSE k \in 1 .. Len(s) : \A j \in 1 .. Len(s) : k <= j
    BY <2>2 DEF popMessage
  <2>5. \A j \in 1 .. Len(s) : popMessage(s, NULL) <= j
    BY <2>3, <2>4
  <2>6. i <= 1
    BY <2>3, <2>5 DEF i
  <2> QED BY <1>2, <2>1, <2>3, <2>6
<1> HIDE DEF i
<1>4. /\ n \in Nat /\ Len(s') = n /\ \A j \in 1 .. n : s'[j] = s[j + 1]
      /\ m = s[1] /\ DOMAIN s = 1 .. n + 1 /\ DOMAIN s' = 1 .. n
  BY <1>2, <1>3, RemoveAtProperties, LenProperties
<1>5. m \in Request \cup {Tick} /\ (m.service = "WAKE_UP_PSEUDO_CLOCK" => m = Tick)
      /\ (m = Tick => m.service = "WAKE_UP_PSEUDO_CLOCK")
      /\ \A t \in UserTcb : Tick.sender # t
  BY <1>3, SsiInbox DEF NoForgedTick, Tick
<1>6. ToSet(s) = ToSet(s') \cup {m}
  <2>1. \A j \in 1 .. n + 1 : j = 1 \/ (j - 1 \in 1 .. n /\ s'[j - 1] = s[j])
    <3> HIDE DEF s, n, m
    <3>1. \A j \in 1 .. n + 1 : j = 1 \/ (j - 1 \in 1 .. n /\ (j - 1) + 1 = j)
      BY <1>4
    <3> QED BY <1>4, <3>1
  <2>2. \A j \in 1 .. n : j + 1 \in 1 .. n + 1 /\ 1 \in 1 .. n + 1
    BY <1>4
  <2> HIDE DEF s, n, m
  <2>3. ToSet(s) \subseteq ToSet(s') \cup {m}
    <3> SUFFICES ASSUME NEW j \in 1 .. n + 1 PROVE s[j] \in ToSet(s') \cup {m}
      BY <1>4 DEF ToSet
    <3> QED BY <1>4, <2>1 DEF ToSet
  <2>4. ToSet(s') \cup {m} \subseteq ToSet(s)
    <3>1. n + 1 \in Nat /\ 1 \in 1 .. n + 1
      BY <1>4
    <3> QED BY <1>4, <2>2, <3>1 DEF ToSet
  <2> QED BY <2>3, <2>4
<1>7. Unserved' = Unserved
  BY <1>1, <1>5, <1>6 DEF Unserved
<1>8. ASSUME NEW t \in UserTcb, NEW u \in UserTcb
      PROVE Precedes(t, u)' <=> Precedes(t, u)
  <2>1. Precedes(t, u) <=> \E j \in 1 .. n + 1 : s[j].sender = u
                              /\ \E k \in 1 .. j - 1 : s[k].sender = t
    BY <1>1, <1>4 DEF Precedes
  <2>2. Precedes(t, u)' <=> \E j \in 1 .. n : s[j + 1].sender = u
                              /\ (m.sender = t \/ \E k \in 1 .. j - 1 : s[k + 1].sender = t)
    <3>1. Precedes(t, u)' <=> \E j \in 1 .. n : s'[j].sender = u
              /\ \/ ssi_pc' = "serve" /\ ssi_msg'.sender = t
                 \/ \E k \in 1 .. j - 1 : s'[k].sender = t
      BY <1>4 DEF Precedes
    <3>2. (ssi_pc' = "serve" /\ ssi_msg'.sender = t) <=> m.sender = t
      BY <1>1, <1>5
    <3>3. \A j \in 1 .. n : \A k \in 1 .. j - 1 : s'[k] = s[k + 1]
      <4> HIDE DEF s, n, m
      <4>1. \A j \in 1 .. n : \A k \in 1 .. j - 1 : k \in 1 .. n
        BY <1>4
      <4> QED BY <1>4, <4>1
    <3> HIDE DEF s, n, m
    <3> QED BY <1>4, <3>1, <3>2, <3>3
  <2> HIDE DEF s, n, m
  <2>3. Precedes(t, u)' => Precedes(t, u)
    <3> SUFFICES ASSUME NEW j \in 1 .. n, s[j + 1].sender = u,
                        m.sender = t \/ \E k \in 1 .. j - 1 : s[k + 1].sender = t
                 PROVE  Precedes(t, u)
      BY <2>2
    <3>1. j + 1 \in 1 .. n + 1 /\ 1 \in 1 .. (j + 1) - 1
          /\ \A k \in 1 .. j - 1 : k + 1 \in 1 .. (j + 1) - 1
      BY <1>4
    <3> QED BY <1>4, <2>1, <3>1
  <2>4. Precedes(t, u) => Precedes(t, u)'
    <3> SUFFICES ASSUME NEW j \in 1 .. n + 1, s[j].sender = u,
                        NEW k \in 1 .. j - 1, s[k].sender = t
                 PROVE  Precedes(t, u)'
      BY <2>1
    <3>1. j - 1 \in 1 .. n /\ (j - 1) + 1 = j
          /\ (k = 1 \/ (k - 1 \in 1 .. (j - 1) - 1 /\ (k - 1) + 1 = k))
      BY <1>4
    <3> QED BY <1>4, <2>2, <3>1
  <2> QED BY <2>3, <2>4
<1>9. CallsOf' = CallsOf /\ BeforeOf' = BeforeOf
  BY <1>7, <1>8 DEF CallsOf, BeforeOf
<1>10. StatusesOf' = StatusesOf
  <2>1. Sleeping' = Sleeping
    BY <1>1 DEF Sleeping
  <2> QED BY <1>1, <1>7, <2>1, StatusSame, StatusesSame DEF Called
<1> QED
  BY <1>1, <1>9, <1>10 DEF Abstract!rpcVars

-----------------------------------------------------------------------------
(* Calls, and what ends them. *)

\* The clients with a request not yet served.
LEMMA CallersOf ==
    ASSUME TypeOK
    PROVE  {call.client : call \in CallsOf} = {t \in UserTcb : Called(t)}
<1>1. \A m \in Unserved : m.sender \in UserTcb
  BY UnservedRequests DEF Request
<1> DEFINE C == {call.client : call \in CallsOf}
<1>2. \A m \in Unserved : [client |-> m.sender, service |-> m.service].client = m.sender
  OBVIOUS
<1>3. \A t : t \in C <=> \E m \in Unserved : t = m.sender
  BY <1>2 DEF CallsOf
<1> HIDE DEF C
<1>4. C = {t \in UserTcb : Called(t)}
  BY <1>1, <1>3 DEF Called
<1> QED
  BY <1>4 DEF C

\* The request of an SSIRequest is queued behind those not yet served.
LEMMA RequestIsCall ==
    ASSUME TypeOK, RequestPending, msgFree # 0, NEW t \in UserTcb,
           NEW service \in Services, NEW payload \in issued \cup {NULL},
           SendSsi(t, service, payload)
    PROVE  Abstract!Call(t, service)
<1> USE TcbFacts
<1> DEFINE s == t_inbox[tcb_SSI]
           m == RequestMsg(t, service, payload)
<1>1. /\ insertMessage(tcb_SSI, m) /\ pc' = [pc EXCEPT ![t] = SSI_MAGIC] /\ pc[t] = "run"
      /\ UNCHANGED <<ssi_pc, ssi_msg, threadCount, waitForPseudoClockQueue>>
      /\ "run" # SSI_MAGIC
  BY TagAssumption DEF SendSsi, Makes, Deliver, ssiVars
<1>2. /\ m \in Request /\ m \in Msg /\ m.sender = t /\ m.service = service /\ m # Tick
  <2>1. payload \in UserTcb \cup {NULL}
    BY DEF TypeOK, TreeTypes
  <2> QED BY <2>1, MsgTypes DEF RequestMsg, Tick
<1> HIDE DEF m
<1>3. /\ s \in Seq(Msg) /\ s' = Append(s, m)
  BY <1>1, <1>2, SsiInbox DEF insertMessage
<1>4. Unserved' = Unserved \cup {m}
  <2>1. ToSet(s') = ToSet(s) \cup {m}
    BY <1>2, <1>3, ToSetAppend
  <2> QED BY <1>1, <1>2, <2>1 DEF Unserved
<1>5. ~Called(t) /\ StatusOf(t) = "idle"
  BY <1>1, StatusFacts
<1>6. CallsOf' = CallsOf \cup {[client |-> t, service |-> service]}
  BY <1>2, <1>4 DEF CallsOf
<1>7. ASSUME NEW u \in UserTcb, NEW v \in UserTcb
      PROVE Precedes(u, v)' <=> Precedes(u, v) \/ (v = t /\ Called(u))
  <2>1. /\ Len(s) \in Nat /\ Len(s') = Len(s) + 1 /\ s'[Len(s) + 1] = m
        /\ \A i \in 1 .. Len(s) : s'[i] = s[i]
    BY <1>2, <1>3, LenProperties, AppendProperties
  <2>2. Called(u) <=> (ssi_pc = "serve" /\ ssi_msg.sender = u)
                         \/ \E i \in 1 .. Len(s) : s[i].sender = u
    BY CalledAsks
  <2> HIDE DEF s
  <2>3. /\ Precedes(u, v) <=> \E j \in 1 .. Len(s) :
              s[j].sender = v /\ (\/ ssi_pc = "serve" /\ ssi_msg.sender = u
                                  \/ \E i \in 1 .. j - 1 : s[i].sender = u)
        /\ Precedes(u, v)' <=> \E j \in 1 .. Len(s') :
              s'[j].sender = v /\ (\/ ssi_pc = "serve" /\ ssi_msg.sender = u
                                   \/ \E i \in 1 .. j - 1 : s'[i].sender = u)
    BY <1>1 DEF Precedes, s
  <2> DEFINE First(j) == \/ ssi_pc = "serve" /\ ssi_msg.sender = u
                         \/ \E i \in 1 .. j - 1 : s[i].sender = u
  <2>4. \A j \in 1 .. Len(s) + 1 :
            (\E i \in 1 .. j - 1 : s'[i].sender = u) <=> (\E i \in 1 .. j - 1 : s[i].sender = u)
    <3>1. \A j \in 1 .. Len(s) + 1 : \A i \in 1 .. j - 1 : i \in 1 .. Len(s)
      BY <2>1
    <3> QED BY <2>1, <3>1
  <2>5. Precedes(u, v)' <=> \E j \in 1 .. Len(s) + 1 : s'[j].sender = v /\ First(j)
    BY <2>1, <2>3, <2>4
  <2>6. First(Len(s) + 1) <=> Called(u)
    <3>1. (Len(s) + 1) - 1 = Len(s)
      BY <2>1
    <3> QED BY <2>2, <3>1
  <2>7. Precedes(u, v) <=> \E j \in 1 .. Len(s) : s[j].sender = v /\ First(j)
    BY <2>3
  <2> HIDE DEF First
  <2>8. \A j \in 1 .. Len(s) + 1 : j \in 1 .. Len(s) \/ j = Len(s) + 1
    BY <2>1
  <2>9. Len(s) + 1 \in 1 .. Len(s) + 1 /\ \A j \in 1 .. Len(s) : j \in 1 .. Len(s) + 1
    BY <2>1
  <2> QED BY <1>2, <2>1, <2>5, <2>6, <2>7, <2>8, <2>9
<1>8. BeforeOf' = BeforeOf \cup ({call.client : call \in CallsOf} \X {t})
  <2>1. {call.client : call \in CallsOf} = {u \in UserTcb : Called(u)}
    BY CallersOf
  <2> QED BY <1>7, <2>1 DEF BeforeOf
<1>9. StatusesOf' = [StatusesOf EXCEPT ![t] = "called"]
  <2>1. ASSUME NEW u \in UserTcb
        PROVE StatusOf(u)' = IF u = t THEN "called" ELSE StatusOf(u)
    <3>1. Called(u)' <=> Called(u) \/ u = t
      BY <1>2, <1>4 DEF Called
    <3>2. Sleeping' = Sleeping /\ pc'[u] = IF u = t THEN SSI_MAGIC ELSE pc[u]
      BY <1>1 DEF Sleeping, TypeOK, ControlTypes
    <3>3. CASE u = t
      BY <3>1, <3>2, <3>3 DEF StatusOf, Called
    <3>4. CASE u # t
      BY <3>1, <3>2, <3>4, StatusSame
    <3> QED BY <3>3, <3>4
  <2> QED BY <2>1, StatusesSet
<1> QED
  BY <1>1, <1>5, <1>6, <1>8, <1>9 DEF Abstract!Call, Abstract!Callers, StatusesOf

\* The SSI serves the request it has received last: the first call.
LEMMA ServiceIsServe ==
    ASSUME TypeOK, RequestPending, ssi_pc = "serve", ssi_pc' # "serve",
           t_inbox'[tcb_SSI] = t_inbox[tcb_SSI],
           \A u \in UserTcb : pc'[u] = SSI_MAGIC <=> pc[u] = SSI_MAGIC,
           Sleeping' = IF ssi_msg.service = "WAITFORCLOCK"
                       THEN Sleeping \cup {ssi_msg.sender} ELSE Sleeping,
           threadCount' = IF /\ ssi_msg.service \in {"CREATESON", "CREATEBROTHER"}
                             /\ threadCount < Len(BootFree) + 2
                          THEN threadCount + 1 ELSE threadCount
    PROVE  Abstract!Serve
<1> USE TcbFacts
<1> DEFINE s == t_inbox[tcb_SSI]
           c == ssi_msg.sender
           call == [client |-> c, service |-> ssi_msg.service]
<1>1. c \in UserTcb /\ ssi_msg \in Unserved /\ Called(c)
  BY ServedRequest DEF Unserved, Called
<1>2. Asking(c) = 0 /\ pc[c] = SSI_MAGIC /\ c \notin Sleeping /\ StatusOf(c) = "called"
  BY <1>1, StatusFacts
<1>3. \A i \in 1 .. Len(s) : s[i].sender # c
  BY <1>1, <1>2, CalledAsks
<1>4. \A m \in ToSet(s) : m.sender # c
  BY <1>3, SsiInbox DEF Inbox
<1>5. /\ Unserved' = Unserved \ {ssi_msg}
      /\ \A m \in Unserved : m.sender = c => m = ssi_msg
  BY <1>4 DEF Unserved
<1>6. call \in CallsOf /\ CallsOf' = CallsOf \ {call}
  <2>1. call \in CallsOf
    BY <1>1 DEF CallsOf
  <2>2. CallsOf' = {[client |-> m.sender, service |-> m.service] : m \in Unserved \ {ssi_msg}}
    BY <1>5 DEF CallsOf
  <2>3. \A m \in Unserved \ {ssi_msg} :
            [client |-> m.sender, service |-> m.service] # call
    <3> SUFFICES ASSUME NEW m \in Unserved \ {ssi_msg},
                        [client |-> m.sender, service |-> m.service] = call
                 PROVE  FALSE
      OBVIOUS
    <3>1. [client |-> m.sender, service |-> m.service].client = call.client
      OBVIOUS
    <3>2. m.sender = c
      BY <3>1
    <3> QED BY <1>5, <3>2
  <2> HIDE DEF c
  <2> QED BY <2>1, <2>2, <2>3 DEF CallsOf, call
<1>7. ASSUME NEW u \in UserTcb, NEW v \in UserTcb
      PROVE /\ Precedes(u, v)' <=> Precedes(u, v) /\ u # c
            /\ ~Precedes(u, c)
  <2>1. Precedes(u, v)' <=> \E j \in 1 .. Len(s) :
            s[j].sender = v /\ \E i \in 1 .. j - 1 : s[i].sender = u
    BY DEF Precedes
  <2>2. Precedes(u, v) <=> \E j \in 1 .. Len(s) :
            s[j].sender = v /\ (u = c \/ \E i \in 1 .. j - 1 : s[i].sender = u)
    BY DEF Precedes
  <2>3. \A j \in 1 .. Len(s) : \A i \in 1 .. j - 1 : s[i].sender # c
    <3>1. Len(s) \in Nat
      BY SsiInbox, LenProperties
    <3> HIDE DEF s, c
    <3>2. \A j \in 1 .. Len(s) : \A i \in 1 .. j - 1 : i \in 1 .. Len(s)
      BY <3>1
    <3> QED BY <1>3, <3>2
  <2>4. ~Precedes(u, c)
    BY <1>3 DEF Precedes
  <2> HIDE DEF s, c
  <2> QED BY <2>1, <2>2, <2>3, <2>4
<1>8. /\ BeforeOf' = BeforeOf \ ({c} \X UserTcb)
      /\ \A u \in UserTcb : <<u, c>> \notin BeforeOf
  <2> HIDE DEF c
  <2> QED BY <1>1, <1>7 DEF BeforeOf
<1>9. StatusesOf' = [StatusesOf EXCEPT ![c] =
                         IF ssi_msg.service = "WAITFORCLOCK" THEN "asleep" ELSE "served"]
  <2> DEFINE x == IF ssi_msg.service = "WAITFORCLOCK" THEN "asleep" ELSE "served"
  <2>1. ASSUME NEW u \in UserTcb
        PROVE StatusOf(u)' = IF u = c THEN x ELSE StatusOf(u)
    <3>1. Called(u)' <=> Called(u) /\ u # c
      BY <1>5 DEF Called
    <3>2. CASE u = c
      BY <1>2, <3>1, <3>2 DEF StatusOf, Called
    <3>3. CASE u # c
      BY <3>1, <3>3, StatusSame
    <3> QED BY <3>2, <3>3
  <2> HIDE DEF c, x
  <2>2. StatusesOf' = [StatusesOf EXCEPT ![c] = x]
    BY <1>1, <2>1, StatusesSet
  <2> QED BY <2>2 DEF x
<1>10. \A u \in {k.client : k \in CallsOf} : <<u, c>> \notin BeforeOf
  BY <1>8, CallersOf
<1>11. call.client = c /\ call.service = ssi_msg.service
  OBVIOUS
<1> HIDE DEF c, call, s
<1> QED
  BY <1>6, <1>8, <1>9, <1>10, <1>11 DEF Abstract!Serve, Abstract!Callers

\* A RECV can take the answer to a request only, and ends the call.
LEMMA AnswerIsReturn ==
    ASSUME TypeOK, RequestPending, OnlyAnswers, NEW t \in UserTcb,
           NEW source \in issued \cup {NULL, SSI_MAGIC}, RecvTake(t, source)
    PROVE  Abstract!Return(t)
<1> USE TcbFacts
<1> DEFINE i == popMessage(t_inbox[t], source)
<1>1. /\ Receive(t, source) /\ RecvFrom(t, source) /\ pc' = [pc EXCEPT ![t] = "run"]
      /\ t_inbox' = [t_inbox EXCEPT ![t] = RemoveAt(@, i)]
      /\ UNCHANGED <<ssi_pc, ssi_msg, waitForPseudoClockQueue, threadCount>>
      /\ "run" # SSI_MAGIC
  BY TagAssumption DEF RecvTake, Receive, ssiVars, queueVars, countVars
<1>2. /\ i \in 1 .. Len(t_inbox[t]) /\ t_inbox[t] \in Seq(Msg) /\ t_inbox[t][i] \in Msg
  BY <1>1, ReceiveTypes, ElementOfSeq DEF TypeOK, MailTypes, Threads
<1> HIDE DEF i
<1>3. Answers(t) # 0
  <2> DEFINE P == Positions(t_inbox[t], {m \in Msg : m.m_sender = SSI_MAGIC})
  <2>1. t_inbox[t][i] \in Inbox(t) /\ t \in Tcb \ {tcb_SSI}
    BY <1>2, LenProperties DEF Inbox, ToSet
  <2>2. i \in P
    BY <1>2, <2>1 DEF OnlyAnswers, Positions
  <2>3. IsFiniteSet(P) /\ Answers(t) = Cardinality(P)
    BY <1>2, PositionsFinite DEF Answers
  <2> HIDE DEF P
  <2> QED BY <2>2, <2>3, FS_EmptySet
<1>4. pc[t] = SSI_MAGIC /\ ~Called(t) /\ t \notin Sleeping /\ StatusOf(t) = "served"
  BY <1>3, StatusFacts
<1>5. t_inbox'[tcb_SSI] = t_inbox[tcb_SSI] /\ Unserved' = Unserved /\ Sleeping' = Sleeping
  BY <1>1 DEF TypeOK, MailTypes, Unserved, Sleeping
<1>6. CallsOf' = CallsOf /\ BeforeOf' = BeforeOf
  BY <1>1, <1>5 DEF CallsOf, BeforeOf, Precedes
<1>7. StatusesOf' = [StatusesOf EXCEPT ![t] = "idle"]
  <2>1. ASSUME NEW u \in UserTcb
        PROVE StatusOf(u)' = IF u = t THEN "idle" ELSE StatusOf(u)
    <3>1. Called(u)' <=> Called(u)
      BY <1>5 DEF Called
    <3>2. pc'[u] = IF u = t THEN "run" ELSE pc[u]
      BY <1>1 DEF TypeOK, ControlTypes
    <3>3. CASE u = t
      BY <1>1, <3>2, <3>3 DEF StatusOf
    <3>4. CASE u # t
      BY <1>5, <3>1, <3>2, <3>4, StatusSame
    <3> QED BY <3>3, <3>4
  <2> QED BY <2>1, StatusesSet
<1> QED
  BY <1>1, <1>4, <1>6, <1>7 DEF Abstract!Return, StatusesOf

\* The thread wakeUpPseudoClock takes out of the queue sleeps no longer.
LEMMA RiseIsWake ==
    ASSUME TypeOK, Partition, RequestPending, wakeUpPseudoClock,
           waitForPseudoClockQueue # <<>>
    PROVE  Abstract!Wake(Head(waitForPseudoClockQueue))
<1> DEFINE h == Head(waitForPseudoClockQueue)
<1>1. /\ waitForPseudoClockQueue' = Tail(waitForPseudoClockQueue)
      /\ ssi_pc = "wake" /\ ssi_pc' = "wakeSend"
      /\ UNCHANGED <<t_inbox, pc, threadCount>>
  BY DEF wakeUpPseudoClock, SsiAt, Goes, mailVars, countVars
<1>2. h \in UserTcb /\ h \in Sleeping /\ Sleeping' = Sleeping \ {h}
  BY <1>1, HeadTailPlaces DEF TypeOK, QueueTypes, Partition, Sleeping
<1> HIDE DEF h
<1>3. StatusOf(h) = "asleep" /\ ~Called(h) /\ pc[h] = SSI_MAGIC
  BY <1>2, StatusFacts
<1>4. Unserved' = Unserved
  BY <1>1 DEF Unserved
<1>5. CallsOf' = CallsOf /\ BeforeOf' = BeforeOf
  BY <1>1, <1>4 DEF CallsOf, BeforeOf, Precedes
<1>6. StatusesOf' = [StatusesOf EXCEPT ![h] = "served"]
  <2>1. ASSUME NEW u \in UserTcb
        PROVE StatusOf(u)' = IF u = h THEN "served" ELSE StatusOf(u)
    <3>1. Called(u)' <=> Called(u)
      BY <1>4 DEF Called
    <3>2. CASE u = h
      BY <1>1, <1>2, <1>3, <3>1, <3>2 DEF StatusOf, Called
    <3>3. CASE u # h
      BY <1>1, <1>2, <3>1, <3>3, StatusSame
    <3> QED BY <3>2, <3>3
  <2> QED BY <1>2, <2>1, StatusesSet
<1> QED
  BY <1>1, <1>2, <1>3, <1>5, <1>6 DEF Abstract!Wake, StatusesOf, h

-----------------------------------------------------------------------------
(* As many threads as there are TCBs. *)

\* A TCB is that of a thread, or free.
FreeCount == threadCount + Len(tcbFree) = Len(BootFree) + 2

\* So it is at boot.
LEMMA InitFreeCount == Init => FreeCount
  BY TcbAssumption, LenProperties DEF Init, FreeCount

\* What creating a thread changes.
LEMMA CreateCounts ==
    ASSUME TypeOK, Partition, Deathless, RequestPending, ThreadCountExact, FreeCount,
           NEW p, NEW parent, Create(p, parent)
    PROVE  /\ FreeCount'
           /\ threadCount' = IF threadCount < Len(BootFree) + 2 THEN threadCount + 1
                             ELSE threadCount
           /\ t_inbox'[tcb_SSI] = t_inbox[tcb_SSI]
           /\ \A u \in UserTcb : pc'[u] = SSI_MAGIC <=> pc[u] = SSI_MAGIC
<1> USE TcbFacts
<1>0. threadCount \in Nat /\ Len(tcbFree) \in Nat /\ Len(BootFree) \in Nat
  BY TcbAssumption, LenProperties DEF TypeOK, CountTypes, QueueTypes
<1>1. CASE tcbFree = <<>>
  BY <1>0, <1>1 DEF Create, FreeCount, treeVars, mailVars
<1>2. CASE tcbFree # <<>>
  <2> DEFINE new == Head(tcbFree)
  <2>1. /\ tcbFree' = Tail(tcbFree) /\ threadCount' = Inc(threadCount)
        /\ t_inbox' = [t_inbox EXCEPT ![new] = <<>>] /\ pc' = [pc EXCEPT ![new] = "run"]
    BY <1>2 DEF Create
  <2>2. /\ new \in UserTcb /\ new \in Free
        /\ Len(tcbFree') = Len(tcbFree) - 1 /\ Len(tcbFree) > 0
    BY <1>2, <2>1, EmptySeq, HeadTailProperties, HeadTailPlaces
    DEF Partition, Free, TypeOK, QueueTypes
  <2> HIDE DEF new
  <2>3. threadCount # Word - 1
    <3>1. new \notin Live /\ Live \cup {new} \subseteq Threads
      BY <2>2 DEF Live, Threads
    <3>2. Cardinality(Live \cup {new}) = Cardinality(Live) + 1
      BY <3>1, LiveFinite, AddOne
    <3>3. Cardinality(Live \cup {new}) \in 0 .. Word - 1
      BY <3>1, ThreadsFinite
    <3> QED BY <3>2, <3>3, LiveFinite, SchedulerAssumption DEF ThreadCountExact
  <2>4. threadCount' = threadCount + 1
    BY <2>1, <2>3 DEF Inc
  <2>5. pc[new] # SSI_MAGIC
    <3>1. Outstanding(new) = 0
      BY <2>2, FreeAsksNothing
    <3> QED BY <2>2, <3>1 DEF RequestPending, Count
  <2>6. /\ t_inbox'[tcb_SSI] = t_inbox[tcb_SSI]
        /\ \A u \in UserTcb : pc'[u] = SSI_MAGIC <=> pc[u] = SSI_MAGIC
    <3>1. "run" # SSI_MAGIC
      BY TagAssumption
    <3> QED BY <2>1, <2>2, <2>5, <3>1 DEF TypeOK, MailTypes, ControlTypes
  <2> QED BY <1>0, <2>2, <2>4, <2>6 DEF FreeCount
<1> QED
  BY <1>1, <1>2

\* What is known of the TCBs allocated, and of the requests.
RpcInv == PoolInv /\ ThreadCountExact /\ FreeCount

\* The steps of the SSI are those of Rpc, or none.
LEMMA SsiStepRpc ==
    ASSUME RequestsOnly, RpcInv, SsiStep
    PROVE  FreeCount' /\ (Abstract!Next \/ UNCHANGED Abstract!rpcVars)
<1> USE TcbFacts DEF RpcInv, PoolInv, RequestInv
<1>0. tcbFree' = tcbFree /\ threadCount' = threadCount => FreeCount'
  BY DEF FreeCount
<1>1. CASE SsiReceive
  BY <1>0, <1>1, SsiReceiveSame DEF SsiReceive, treeVars, countVars
<1>2. CASE SsiBlock
  <2>1. UNCHANGED <<t_inbox, ssi_pc, ssi_msg, waitForPseudoClockQueue, pc, threadCount,
                    tcbFree>>
    BY <1>2 DEF SsiBlock, Await, Block, treeVars, mailVars, ssiVars
  <2>2. Sleeping' = Sleeping
    BY <2>1 DEF Sleeping
  <2> QED BY <1>0, <2>1, <2>2, RpcSame
<1>3. ASSUME NEW service \in {"CREATESON", "CREATEBROTHER"}, NEW p, NEW parent,
             ServeCreate(service, p, parent)
      PROVE FreeCount' /\ Abstract!Serve
  <2>1. /\ Create(p, parent) /\ ssi_pc = "serve" /\ ssi_pc' # "serve"
        /\ ssi_msg.service = service /\ Sleeping' = Sleeping
    BY <1>3 DEF ServeCreate, Serves, SsiAt, Goes, Sleeping
  <2>2. service # "WAITFORCLOCK"
    OBVIOUS
  <2> QED BY <2>1, <2>2, CreateCounts, ServiceIsServe
<1>4. CASE createSon \/ createBrother
  BY <1>3, <1>4 DEF createSon, createBrother, Abstract!Next
<1>5. CASE getCpuTime
  <2>1. /\ ssi_pc = "serve" /\ ssi_pc' # "serve" /\ ssi_msg.service = "GETCPUTIME"
        /\ Sleeping' = Sleeping /\ UNCHANGED <<t_inbox, pc, threadCount, tcbFree>>
    BY <1>5 DEF getCpuTime, Serves, SsiAt, Goes, Sleeping, queueVars, countVars, treeVars,
                mailVars
  <2>2. Abstract!Serve
    BY <2>1, ServiceIsServe
  <2> QED BY <1>0, <2>1, <2>2 DEF Abstract!Next
<1>6. CASE waitForClock
  <2> DEFINE s == ssi_msg.sender
  <2>1. /\ ssi_pc = "serve" /\ ssi_pc' # "serve" /\ ssi_msg.service = "WAITFORCLOCK"
        /\ tcbFree' = RemoveFirst(tcbFree, s)
        /\ waitForPseudoClockQueue' = Append(RemoveFirst(waitForPseudoClockQueue, s), s)
        /\ UNCHANGED <<t_inbox, pc, threadCount>>
    BY <1>6 DEF waitForClock, Serves, SsiAt, Goes, outThread, insertThread, mailVars, countVars
  <2>2. s \in UserTcb /\ s \notin Free
    BY <2>1, ServedRequest DEF Deathless
  <2> HIDE DEF s
  <2>3. tcbFree' = tcbFree
    BY <2>1, <2>2, OutThreadLength DEF Free, TypeOK, QueueTypes
  <2>4. Sleeping' = Sleeping \cup {s}
    <3> DEFINE r == RemoveFirst(waitForPseudoClockQueue, s)
    <3>1. r \in Seq(UserTcb) /\ ToSet(r) = Sleeping \ {s}
      BY OutThreadType, OutThreadPlaces DEF TypeOK, QueueTypes, Partition, Sleeping
    <3> HIDE DEF r
    <3>2. ToSet(Append(r, s)) = ToSet(r) \cup {s}
      BY <2>2, <3>1, ToSetAppend
    <3> QED BY <2>1, <3>1, <3>2 DEF r, Sleeping
  <2>5. Abstract!Serve
    BY <2>1, <2>4, ServiceIsServe DEF s
  <2> QED BY <1>0, <2>1, <2>3, <2>5 DEF Abstract!Next
<1>7. CASE reply
  <2>1. /\ ssi_pc = "reply" /\ ssi_pc' = "recv" /\ Sleeping' = Sleeping
        /\ UNCHANGED <<pc, threadCount, tcbFree>>
        /\ \/ UNCHANGED t_inbox
           \/ insertMessage(ssi_msg.sender, [ssi_msg EXCEPT !.m_sender = SSI_MAGIC])
    BY <1>7 DEF reply, SsiAt, Goes, SsiSend, Deliver, mailVars, Sleeping, treeVars
  <2>2. ssi_msg.sender \in UserTcb
    BY <2>1, ServedRequest
  <2>3. t_inbox'[tcb_SSI] = t_inbox[tcb_SSI]
    BY <2>1, <2>2 DEF insertMessage, TypeOK, MailTypes
  <2> QED BY <1>0, <2>1, <2>3, RpcSame
<1>8. CASE wakeUpPseudoClock
  <2>1. UNCHANGED <<t_inbox, pc, threadCount, tcbFree>> /\ ssi_pc = "wake"
    BY <1>8 DEF wakeUpPseudoClock, SsiAt, treeVars, mailVars, countVars
  <2>2. CASE waitForPseudoClockQueue = <<>>
    <3>1. ssi_pc' = "recv" /\ Sleeping' = Sleeping
      BY <1>8, <2>2 DEF wakeUpPseudoClock, Goes, Sleeping
    <3> QED BY <1>0, <2>1, <3>1, RpcSame
  <2>3. CASE waitForPseudoClockQueue # <<>>
    <3>1. Head(waitForPseudoClockQueue) \in UserTcb
      BY <2>3, HeadTailProperties DEF TypeOK, QueueTypes
    <3> QED BY <1>0, <1>8, <2>1, <2>3, <3>1, RiseIsWake DEF Abstract!Next
  <2> QED BY <2>2, <2>3
<1>9. CASE wakeUpSend
  <2>1. /\ ssi_pc = "wakeSend" /\ ssi_pc' = "wake" /\ Sleeping' = Sleeping
        /\ UNCHANGED <<pc, threadCount, tcbFree>>
        /\ UNCHANGED t_inbox \/ insertMessage(ssi_temp, WakeMsg)
    BY <1>9 DEF wakeUpSend, SsiAt, Goes, mailVars, Sleeping, treeVars
  <2>2. ssi_temp \in UserTcb
    BY <2>1 DEF TypeOK, ControlTypes
  <2>3. t_inbox'[tcb_SSI] = t_inbox[tcb_SSI]
    BY <2>1, <2>2 DEF insertMessage, TypeOK, MailTypes
  <2> QED BY <1>0, <2>1, <2>3, RpcSame
\* No request is deadly.
<1>10. ~ssiTerminate /\ \A service \in SpecServices : ~specMgr(service)
  <2>1. Calls \cap Deadly = {}
    BY DEF RequestsOnly
  <2> QED BY <2>1 DEF ssiTerminate, specMgr, Serves, SsiAt, Requested, Deadly, SpecServices
<1> QED
  BY <1>1, <1>2, <1>4, <1>5, <1>6, <1>7, <1>8, <1>9, <1>10 DEF SsiStep

\* A step of a thread that makes requests only is a call, a return, or none.
LEMMA UserStepRpc ==
    ASSUME RequestsOnly, MAXMESSAGES >= Cardinality(UserTcb) + MaxTicks, RpcInv,
           NEW t \in UserTcb, UserStep(t)
    PROVE  FreeCount' /\ (Abstract!Next \/ UNCHANGED Abstract!rpcVars)
<1> USE TcbFacts DEF RpcInv, PoolInv, RequestInv
<1>0. /\ {"manage", "send"} \cap Calls = {} /\ Traps \cap Calls = {}
      /\ \A u \in UserTcb : pc[u] # "sys"
      /\ issued \subseteq UserTcb /\ SSI_MAGIC \notin UserTcb \cup {NULL} /\ "run" # SSI_MAGIC
  BY MsgAssumption, TagAssumption DEF RequestsOnly, Deadly, Traps, Deathless, TypeOK, TreeTypes
<1>1. UNCHANGED <<threadCount, tcbFree>> => FreeCount'
  BY DEF FreeCount
<1>2. ASSUME NEW d \in issued, Send(t, d) \/ SendOther(t, d) \/ SendContinue(t, d)
                                \/ SendTerminate(t, d)
      PROVE FALSE
  BY <1>0, <1>2 DEF Send, SendOther, SendContinue, SendTerminate, Verdict, Makes
<1>3. ASSUME NEW service \in Services, NEW payload \in issued \cup {NULL},
             SendSsi(t, service, payload)
      PROVE FreeCount' /\ Abstract!Next
  <2>1. pc[t] = "run" /\ service \in Calls /\ UNCHANGED <<threadCount, tcbFree>>
    BY <1>3 DEF SendSsi, Makes, treeVars
  <2>2. msgFree # 0
    <3>1. Asking(t) = 0 /\ Answers(t) = 0
      <4>1. ~Called(t) /\ Answers(t) = 0
        BY <1>0, <2>1, StatusFacts
      <4> QED BY <4>1, CalledAsks
    <3> QED BY <3>1, PoolSuffices
  <2>3. Abstract!Call(t, service)
    BY <1>3, <2>2, RequestIsCall
  <2> QED BY <1>1, <2>1, <2>3 DEF Abstract!Next
<1>4. ASSUME NEW source \in issued \cup {NULL, SSI_MAGIC}, RecvTake(t, source)
      PROVE FreeCount' /\ Abstract!Next
  <2>1. Abstract!Return(t) /\ UNCHANGED <<threadCount, tcbFree>>
    BY <1>4, AnswerIsReturn DEF RecvTake, treeVars, countVars
  <2> QED BY <1>1, <2>1 DEF Abstract!Next
<1>5. ASSUME NEW source \in issued \cup {NULL, SSI_MAGIC}, RecvBlock(t, source)
      PROVE FreeCount' /\ UNCHANGED Abstract!rpcVars
  <2>1. /\ UNCHANGED <<t_inbox, ssi_pc, ssi_msg, waitForPseudoClockQueue, threadCount, tcbFree>>
        /\ pc' = [pc EXCEPT ![t] = source] /\ RecvFrom(t, source)
    BY <1>5 DEF RecvBlock, Await, Block, treeVars, mailVars, ssiVars
  <2>2. \A u \in UserTcb : pc'[u] = SSI_MAGIC <=> pc[u] = SSI_MAGIC
    BY <1>0, <2>1 DEF RecvFrom, TypeOK, ControlTypes
  <2>3. Sleeping' = Sleeping
    BY <2>1 DEF Sleeping
  <2> QED BY <1>1, <2>1, <2>2, <2>3, RpcSame
<1>6. ASSUME NEW trap \in Traps, TrapKill(t, trap) \/ TrapFault(t, trap) \/ TrapPassUp(t, trap)
      PROVE FALSE
  BY <1>0, <1>6 DEF TrapKill, TrapFault, TrapPassUp, TrapRaised
<1> QED
  BY <1>2, <1>3, <1>4, <1>5, <1>6 DEF UserStep

\* Every step of the nucleus is one of Rpc, or none.
LEMMA NextRpc ==
    ASSUME RequestsOnly, MAXMESSAGES >= Cardinality(UserTcb) + MaxTicks
    PROVE  RpcInv /\ [Next]_vars => RpcInv' /\ (Abstract!Next \/ UNCHANGED Abstract!rpcVars)
<1> SUFFICES ASSUME RpcInv, [Next]_vars
             PROVE  RpcInv' /\ (Abstract!Next \/ UNCHANGED Abstract!rpcVars)
  OBVIOUS
<1>1. PoolInv' /\ ThreadCountExact'
  <2>1. waitForClock => ssi_msg.sender \notin Free
    BY DEF RpcInv, PoolInv, RequestInv, Deathless, waitForClock, Serves, SsiAt
  <2> QED BY <2>1, NextPoolInv, NextThreadCount DEF RpcInv, PoolInv, RequestInv
<1> SUFFICES FreeCount' /\ (Abstract!Next \/ UNCHANGED Abstract!rpcVars)
  BY <1>1 DEF RpcInv
<1>2. ASSUME UNCHANGED <<t_inbox, ssi_pc, ssi_msg, waitForPseudoClockQueue, threadCount,
                         tcbFree, pc>>
      PROVE FreeCount' /\ UNCHANGED Abstract!rpcVars
  <2>1. Sleeping' = Sleeping /\ FreeCount'
    BY <1>2 DEF Sleeping, FreeCount, RpcInv
  <2> QED BY <1>2, <2>1, RpcSame
<1>3. CASE TimerSlice \/ TimerFault
  BY <1>2, <1>3 DEF TimerSlice, TimerFault, queueVars, countVars, treeVars, mailVars, ssiVars
<1>4. CASE TimerTick
  <2>1. /\ insertMessage(tcb_SSI, Tick)
        /\ UNCHANGED <<ssi_pc, ssi_msg, pc, waitForPseudoClockQueue, threadCount, tcbFree>>
    BY <1>4 DEF TimerTick, fakeSend, countVars, treeVars, ssiVars
  <2>2. Sleeping' = Sleeping /\ FreeCount'
    BY <2>1 DEF Sleeping, FreeCount, RpcInv
  <2> QED BY <2>1, <2>2, TickIsNoCall DEF RpcInv, PoolInv, RequestInv
<1>5. CASE KillStep
  BY <1>5 DEF KillStep, killChild, killThread, killCorrupt, killPanic, Killing,
              RpcInv, PoolInv, RequestInv, Deathless
<1>6. CASE UNCHANGED vars
  BY <1>2, <1>6 DEF vars, queueVars, countVars, treeVars, mailVars, ssiVars
<1> QED
  BY <1>3, <1>4, <1>5, <1>6, UserStepRpc, SsiStepRpc DEF Next, PowerOff

\* At boot nothing is called.
LEMMA InitRpc == Init => RpcInv /\ Abstract!Init
<1> SUFFICES ASSUME Init PROVE RpcInv /\ Abstract!Init
  OBVIOUS
<1>1. RpcInv
  BY InitPoolInv, InitThreadCount, InitFreeCount DEF RpcInv
<1>2. /\ t_inbox[tcb_SSI] = <<>> /\ ssi_pc = "recv" /\ threadCount = 2
      /\ \A t \in UserTcb : pc[t] # SSI_MAGIC
  BY TcbFacts, TagAssumption DEF Init
<1>3. CallsOf = {} /\ BeforeOf = {}
  BY <1>2 DEF CallsOf, Unserved, BeforeOf, Precedes, ToSet
<1>4. StatusesOf = [t \in UserTcb |-> "idle"]
  BY <1>2 DEF StatusesOf, StatusOf
<1> QED
  BY <1>1, <1>2, <1>3, <1>4 DEF Abstract!Init

\* Threads that make requests only have them served like procedure calls: in
\* the order they were made, each once and to its end, wherever the requests
\* and the answers are queued, whom the timer preempts and how many threads
\* ask at a time.
THEOREM RequestsAreCalls ==
    ASSUME RequestsOnly, MAXMESSAGES >= Cardinality(UserTcb) + MaxTicks
    PROVE  Spec => ServesInOrder
<1>1. Init => RpcInv /\ Abstract!Init
  BY InitRpc
<1>2. RpcInv /\ [Next]_vars => RpcInv' /\ [Abstract!Next]_(Abstract!rpcVars)
  BY NextRpc
<1> QED
  BY <1>1, <1>2, PTL DEF Spec, ServesInOrder, Abstract!SafeSpec

=============================================================================
