---------------------------- MODULE NucleusProofs ----------------------------
(***************************************************************************)
(* What the nucleus keeps of its messages and its threads: none is lost    *)
(* but those the code loses, how many messages are free, how many threads  *)
(* are alive and how many blocked, and the process tree, for any number of *)
(* TCBs and messages.                                                      *)
(***************************************************************************)
EXTENDS KernelProofs

-----------------------------------------------------------------------------
(* Finite sets that grow and shrink. *)

\* A set that gains an element.
LEMMA AddOne ==
    ASSUME NEW S, NEW x, IsFiniteSet(S), x \notin S
    PROVE  /\ IsFiniteSet(S \cup {x}) /\ Cardinality(S \cup {x}) = Cardinality(S) + 1
           /\ Cardinality(S) \in Nat
  BY FS_AddElement, FS_CardinalityType

\* A set that loses an element.
LEMMA RemoveOne ==
    ASSUME NEW S, NEW x \in S, IsFiniteSet(S)
    PROVE  /\ IsFiniteSet(S \ {x}) /\ Cardinality(S \ {x}) = Cardinality(S) - 1
           /\ Cardinality(S) \in Nat
  BY FS_RemoveElement, FS_CardinalityType

\* A set that loses a part of it.
LEMMA RemoveSome ==
    ASSUME NEW S, NEW T, T \subseteq S, IsFiniteSet(S)
    PROVE  /\ IsFiniteSet(S \ T) /\ Cardinality(S \ T) = Cardinality(S) - Cardinality(T)
           /\ Cardinality(S) \in Nat
<1>1. IsFiniteSet(T) /\ IsFiniteSet(S \ T)
  BY FS_Subset
<1>2. Cardinality(T) \in Nat /\ Cardinality(S \ T) \in Nat /\ Cardinality(S) \in Nat
  BY <1>1, FS_CardinalityType
<1>3. S = T \cup (S \ T) /\ T \cap (S \ T) = {}
  OBVIOUS
<1>4. Cardinality(S) = Cardinality(T) + Cardinality(S \ T) - Cardinality({})
  BY <1>1, <1>3, FS_Union
<1> QED
  BY <1>1, <1>2, <1>4, FS_EmptySet

-----------------------------------------------------------------------------
(* The messages in the inboxes and in the pool. *)

\* The messages of one inbox.
Slice(t) == {t} \X (1 .. Len(t_inbox[t]))

\* A message queued is the position of one in the inbox of a TCB.
LEMMA MailElements ==
    \A x : x \in Mail <=> \E t \in Tcb : \E i \in 1 .. Len(t_inbox[t]) : x = <<t, i>>
  BY DEF Mail

\* There are as many pairs <<t, i>> as the inbox of t is long.
LEMMA SliceSize ==
    ASSUME NEW t, Len(t_inbox[t]) \in Nat
    PROVE  IsFiniteSet(Slice(t)) /\ Cardinality(Slice(t)) = Len(t_inbox[t])
<1> DEFINE n == Len(t_inbox[t])
           f == [i \in 1 .. n |-> <<t, i>>]
<1>1. IsFiniteSet(1 .. n) /\ Cardinality(1 .. n) = n
  <2> HIDE DEF f
  <2>1. n \in Nat /\ n \in Int /\ 1 \in Int
    OBVIOUS
  <2> HIDE DEF n
  <2> QED BY <2>1, FS_Interval
<1>2. f \in Bijection(1 .. n, Slice(t))
  <2>1. f \in [1 .. n -> Slice(t)]
    BY DEF Slice
  <2>2. \A i, j \in 1 .. n : f[i] = f[j] => i = j
    OBVIOUS
  <2>3. \A x \in Slice(t) : \E i \in 1 .. n : f[i] = x
    BY DEF Slice
  <2> QED BY <2>1, <2>2, <2>3 DEF Bijection, Injection, Surjection, IsInjective
<1>3. ExistsBijection(1 .. n, Slice(t))
  BY <1>2 DEF ExistsBijection
<1> QED
  BY <1>1, <1>3, FS_Bijection

\* The messages in the inboxes can be counted.
LEMMA MailFinite == TypeOK => IsFiniteSet(Mail)
<1> SUFFICES ASSUME TypeOK PROVE IsFiniteSet(Mail)
  OBVIOUS
<1> DEFINE slices == {Slice(t) : t \in Tcb}
           f == [t \in Tcb |-> Slice(t)]
<1>1. IsFiniteSet(Tcb)
  BY TcbAssumption
<1>2. f \in Surjection(Tcb, slices)
  BY DEF Surjection
<1>3. IsFiniteSet(slices)
  <2> HIDE DEF slices, f
  <2> QED BY <1>1, <1>2, FS_Surjection
<1>4. \A S \in slices : IsFiniteSet(S)
  <2>1. \A t \in Tcb : Len(t_inbox[t]) \in Nat
    BY LenProperties DEF TypeOK, MailTypes
  <2> QED BY <2>1, SliceSize
<1>5. IsFiniteSet(UNION slices)
  <2> HIDE DEF slices
  <2> QED BY <1>3, <1>4, FS_UNION
<1>6. Mail = UNION slices
  BY DEF Mail, Slice
<1> QED
  BY <1>5, <1>6

\* How many messages are in the inboxes.
LEMMA QueuedType == TypeOK => Queued \in Nat /\ msgFree \in Nat
  BY MailFinite, FS_CardinalityType DEF Queued, TypeOK, MailTypes

\* A step that takes and gives back messages, and loses none.
Kept == msgFree' + Queued' = msgFree + Queued

\* A step that queues none, and gives none back: it may lose some.
Wastes == Mail' \subseteq Mail /\ msgFree' <= msgFree

\* It leaves the inboxes and the pool alone.
LEMMA KeptSame == ASSUME UNCHANGED mailVars PROVE Kept
  BY DEF Kept, Queued, Mail, mailVars

\* A message of the pool is queued.
LEMMA KeptInsert ==
    ASSUME TypeOK, NEW d \in Tcb, NEW m, insertMessage(d, m)
    PROVE  Kept
<1> DEFINE n == Len(t_inbox[d])
<1>1. /\ t_inbox' = [t_inbox EXCEPT ![d] = Append(@, m)]
      /\ msgFree' = msgFree - 1 /\ msgFree \in Nat
      /\ t_inbox \in [Tcb -> Seq(Msg)] /\ n \in Nat
  BY LenProperties DEF insertMessage, TypeOK, MailTypes
<1>2. /\ Len(t_inbox'[d]) = n + 1
      /\ \A t \in Tcb \ {d} : t_inbox'[t] = t_inbox[t]
  BY <1>1
<1> HIDE DEF n
<1>3. Mail' = Mail \cup {<<d, n + 1>>}
  <2>1. ASSUME NEW t \in Tcb, NEW i \in 1 .. Len(t_inbox'[t])
        PROVE  <<t, i>> \in Mail \cup {<<d, n + 1>>}
    BY <1>1, <1>2, MailElements DEF n
  <2>2. ASSUME NEW t \in Tcb, NEW i \in 1 .. Len(t_inbox[t])
        PROVE  i \in 1 .. Len(t_inbox'[t])
    BY <1>1, <1>2 DEF n
  <2>3. n + 1 \in 1 .. Len(t_inbox'[d])
    BY <1>1, <1>2
  <2>4. \A x : x \in Mail' <=> \E t \in Tcb : \E i \in 1 .. Len(t_inbox'[t]) : x = <<t, i>>
    BY DEF Mail
  <2> QED BY <2>1, <2>2, <2>3, <2>4, MailElements
<1>4. <<d, n + 1>> \notin Mail
  BY <1>1, MailElements DEF n
<1>5. Cardinality(Mail') = Cardinality(Mail) + 1 /\ Cardinality(Mail) \in Nat
  BY <1>3, <1>4, MailFinite, AddOne
<1> QED
  BY <1>1, <1>5 DEF Kept, Queued

\* A message is taken out of an inbox, and freed.
LEMMA KeptReceive ==
    ASSUME TypeOK, NEW t \in Threads, NEW source, Receive(t, source)
    PROVE  Kept
<1> DEFINE n == Len(t_inbox[t])
           i == popMessage(t_inbox[t], source)
<1>1. /\ t \in Tcb /\ t_inbox \in [Tcb -> Seq(Msg)] /\ n \in Nat /\ msgFree \in Nat
      /\ t_inbox[t] \in Seq(Msg)
  BY TcbFacts, LenProperties DEF TypeOK, MailTypes, Threads
<1>2. i \in 1 .. n /\ t_inbox' = [t_inbox EXCEPT ![t] = RemoveAt(@, i)] /\ msgFree' = msgFree + 1
  BY ReceiveTypes DEF Receive, Matching
<1>3. /\ Len(t_inbox'[t]) = n - 1
      /\ \A u \in Tcb \ {t} : t_inbox'[u] = t_inbox[u]
  BY <1>1, <1>2, RemoveAtProperties
<1>4. 1 <= n /\ n \in 1 .. n
  BY <1>1, <1>2
<1> HIDE DEF n, i
<1>5. Mail' = Mail \ {<<t, n>>}
  <2>1. \A x : x \in Mail' <=> \E u \in Tcb : \E j \in 1 .. Len(t_inbox'[u]) : x = <<u, j>>
    BY DEF Mail
  <2>2. ASSUME NEW u \in Tcb, NEW j
        PROVE  j \in 1 .. Len(t_inbox'[u]) <=> j \in 1 .. Len(t_inbox[u]) /\ <<u, j>> # <<t, n>>
    <3>1. CASE u = t
      BY <1>1, <1>3, <1>4, <3>1 DEF n
    <3>2. CASE u # t
      BY <1>3, <3>2
    <3> QED BY <3>1, <3>2
  <2> QED BY <2>1, <2>2, MailElements
<1>6. <<t, n>> \in Mail
  BY <1>1, <1>4, MailElements DEF n
<1>7. Cardinality(Mail') = Cardinality(Mail) - 1 /\ Cardinality(Mail) \in Nat
  BY <1>5, <1>6, MailFinite, RemoveOne
<1> QED
  BY <1>1, <1>2, <1>7 DEF Kept, Queued

\* A thread dies: its messages go back to the pool.
LEMMA KeptRelease ==
    ASSUME TypeOK, NEW k \in UserTcb, release(k)
    PROVE  Kept
<1> DEFINE n == Len(t_inbox[k])
<1>1. /\ k \in Tcb /\ t_inbox \in [Tcb -> Seq(Msg)] /\ n \in Nat /\ msgFree \in Nat
      /\ t_inbox' = [t_inbox EXCEPT ![k] = <<>>] /\ msgFree' = msgFree + n
  BY TcbFacts, LenProperties DEF TypeOK, MailTypes, release
<1>2. Mail' = Mail \ Slice(k) /\ Slice(k) \subseteq Mail
  <2>1. /\ Len(t_inbox'[k]) = 0
        /\ \A u \in Tcb \ {k} : t_inbox'[u] = t_inbox[u]
    BY <1>1
  <2>2. \A x : x \in Mail' <=> \E u \in Tcb : \E j \in 1 .. Len(t_inbox'[u]) : x = <<u, j>>
    BY DEF Mail
  <2>3. \A x : x \in Slice(k) <=> \E j \in 1 .. Len(t_inbox[k]) : x = <<k, j>>
    BY DEF Slice
  <2> QED BY <1>1, <2>1, <2>2, <2>3, MailElements
<1>3. IsFiniteSet(Slice(k)) /\ Cardinality(Slice(k)) = n
  BY <1>1, SliceSize
<1> HIDE DEF n
<1>4. Cardinality(Mail') = Cardinality(Mail) - n /\ Cardinality(Mail) \in Nat
  BY <1>2, <1>3, MailFinite, RemoveSome
<1> QED
  BY <1>1, <1>4 DEF Kept, Queued

-----------------------------------------------------------------------------
(* The pool, one step per action. *)

\* A message sent, or not for want of a free one.
LEMMA KeptSend ==
    ASSUME TypeOK, NEW d \in Threads, NEW m, Deliver(d, m) \/ UNCHANGED mailVars
    PROVE  Kept
  BY KeptInsert, KeptSame, TcbFacts DEF Deliver, Threads

\* A user thread loses a message by the verdict of a manager only.
LEMMA UserStepKept ==
    ASSUME TypeOK, NEW t \in UserTcb, UserStep(t)
    PROVE  Kept \/ (Wastes /\ \E d \in UserTcb : Verdict(t, d))
<1> USE TcbFacts DEF Threads
<1>0. issued \subseteq UserTcb /\ msgFree \in Nat
  BY DEF TypeOK, TreeTypes, MailTypes
<1>1. ASSUME NEW d \in issued, Send(t, d) PROVE Kept
  <2>1. d \in Threads /\ Deliver(d, UserMsg(t))
    BY <1>0, <1>1 DEF Send
  <2> QED BY <2>1, KeptSend
<1>2. ASSUME NEW d \in issued,
             SendOther(t, d) \/ SendContinue(t, d) \/ SendTerminate(t, d)
      PROVE Wastes /\ d \in UserTcb /\ Verdict(t, d)
  <2>1. Verdict(t, d) /\ UNCHANGED t_inbox
    BY <1>2 DEF SendOther, SendContinue, SendTerminate
  <2>2. msgFree' <= msgFree
    BY <1>0, <2>1 DEF Verdict
  <2>3. Mail' = Mail
    BY <2>1 DEF Mail
  <2> QED BY <1>0, <2>1, <2>2, <2>3 DEF Wastes
<1>3. ASSUME NEW service \in Services, NEW payload \in issued \cup {NULL},
             SendSsi(t, service, payload)
      PROVE Kept
  <2>1. Deliver(tcb_SSI, RequestMsg(t, service, payload)) \/ UNCHANGED mailVars
    BY <1>3 DEF SendSsi
  <2> QED BY <2>1, KeptSend
<1>4. ASSUME NEW source, RecvTake(t, source) PROVE Kept
  BY <1>4, KeptReceive DEF RecvTake
<1>5. ASSUME NEW source, RecvBlock(t, source) PROVE Kept
  BY <1>5, KeptSame DEF RecvBlock
<1>6. ASSUME NEW trap \in Traps, TrapKill(t, trap) \/ TrapFault(t, trap) PROVE Kept
  BY <1>6, KeptSame DEF TrapKill, TrapFault
<1>7. ASSUME NEW trap \in Traps, TrapPassUp(t, trap) PROVE Kept
  <2> DEFINE m == mgr[t]["sys"]
  <2>1. m # NULL /\ insertMessage(m, UserMsg(t))
    BY <1>7 DEF TrapPassUp
  <2>2. m \in Tcb
    BY <2>1 DEF TypeOK, TreeTypes, Traps
  <2> HIDE DEF m
  <2> QED BY <2>1, <2>2, KeptInsert
<1> QED
  BY <1>1, <1>2, <1>3, <1>4, <1>5, <1>6, <1>7 DEF UserStep

\* The SSI loses messages by allocating a TCB that was sent some.
LEMMA SsiStepKept ==
    ASSUME TypeOK, SsiStep
    PROVE  Kept \/ (Wastes /\ (createSon \/ createBrother) /\ tcbFree # <<>>
                      /\ t_inbox[Head(tcbFree)] # <<>>)
<1> USE TcbFacts DEF Threads
<1>1. CASE SsiReceive
  BY <1>1, KeptReceive DEF SsiReceive
<1>2. CASE SsiBlock \/ getCpuTime \/ waitForClock \/ ssiTerminate \/ wakeUpPseudoClock
  BY <1>2, KeptSame DEF SsiBlock, getCpuTime, waitForClock, ssiTerminate, wakeUpPseudoClock
<1>3. ASSUME NEW service, NEW p, NEW parent, ServeCreate(service, p, parent)
      PROVE Kept \/ (Wastes /\ tcbFree # <<>> /\ t_inbox[Head(tcbFree)] # <<>>)
  <2>1. Create(p, parent)
    BY <1>3 DEF ServeCreate
  <2>2. CASE tcbFree = <<>>
    BY <2>1, <2>2, KeptSame DEF Create
  <2>3. CASE tcbFree # <<>>
    <3> DEFINE new == Head(tcbFree)
    <3>1. t_inbox' = [t_inbox EXCEPT ![new] = <<>>] /\ msgFree' = msgFree
      BY <2>1, <2>3 DEF Create
    <3>2. t_inbox \in [Tcb -> Seq(Msg)] /\ msgFree \in Nat
      BY DEF TypeOK, MailTypes
    <3>3. CASE t_inbox[new] = <<>>
      <4> HIDE DEF new
      <4>1. t_inbox' = t_inbox
        BY <3>1, <3>2, <3>3
      <4> QED BY <3>1, <4>1, KeptSame DEF mailVars
    <3>4. CASE t_inbox[new] # <<>>
      <4>1. ASSUME NEW u \in Tcb, NEW i \in 1 .. Len(t_inbox'[u])
            PROVE  i \in 1 .. Len(t_inbox[u])
        <5> HIDE DEF new
        <5>1. CASE u = new
          BY <3>1, <3>2, <4>1, <5>1
        <5>2. CASE u # new
          BY <3>1, <3>2, <4>1, <5>2
        <5> QED BY <5>1, <5>2
      <4>2. \A x : x \in Mail' <=> \E u \in Tcb : \E j \in 1 .. Len(t_inbox'[u]) : x = <<u, j>>
        BY DEF Mail
      <4>3. Mail' \subseteq Mail
        BY <4>1, <4>2, MailElements
      <4> QED BY <2>3, <3>1, <3>2, <3>4, <4>3 DEF Wastes
    <3> QED BY <3>3, <3>4
  <2> QED BY <2>2, <2>3
<1>4. ASSUME NEW service \in SpecServices, specMgr(service) PROVE Kept
  BY <1>4, KeptSame DEF specMgr
<1>5. CASE reply
  <2> DEFINE s == ssi_msg.sender
             m == [ssi_msg EXCEPT !.m_sender = SSI_MAGIC]
  <2>1. ssi_pc = "reply" /\ SsiSend(s, m)
    BY <1>5 DEF reply, SsiAt
  <2>2. s \in Threads
    BY <2>1, ServedRequest
  <2> HIDE DEF s, m
  <2> QED BY <2>1, <2>2, KeptSend DEF SsiSend
<1>6. CASE wakeUpSend
  <2>1. ssi_temp \in Tcb
    BY <1>6 DEF wakeUpSend, SsiAt, TypeOK, ControlTypes
  <2>2. UNCHANGED mailVars \/ insertMessage(ssi_temp, WakeMsg)
    BY <1>6 DEF wakeUpSend
  <2> QED BY <2>1, <2>2, KeptInsert, KeptSame
<1>7. CASE createSon
  BY <1>3, <1>7 DEF createSon
<1>8. CASE createBrother
  BY <1>3, <1>8 DEF createBrother
<1> QED
  BY <1>1, <1>2, <1>4, <1>5, <1>6, <1>7, <1>8 DEF SsiStep

\* terminate() gives each message of the dead back once.
LEMMA KillStepKept ==
    ASSUME TypeOK, NEW k \in UserTcb,
           killChild(k) \/ killThread(k) \/ killCorrupt(k) \/ killPanic(k)
    PROVE  Kept
<1>1. CASE killChild(k) \/ killCorrupt(k) \/ killPanic(k)
  BY <1>1, KeptSame DEF killChild, killCorrupt, killPanic
<1>2. CASE killThread(k)
  BY <1>2, KeptRelease DEF killThread
<1> QED
  BY <1>1, <1>2

\* A tick takes a message of the pool.
LEMMA TimerStepKept ==
    ASSUME TypeOK, TimerSlice \/ TimerTick \/ TimerFault
    PROVE  Kept
<1>1. CASE TimerSlice \/ TimerFault
  BY <1>1, KeptSame DEF TimerSlice, TimerFault
<1>2. CASE TimerTick
  BY <1>2, TcbFacts, KeptInsert DEF TimerTick, fakeSend
<1> QED
  BY <1>1, <1>2

\* The steps that may lose messages.
Loses ==
    \/ \E t, d \in UserTcb : Verdict(t, d)
    \/ (createSon \/ createBrother) /\ tcbFree # <<>> /\ t_inbox[Head(tcbFree)] # <<>>

\* No other step does.
LEMMA NextKept == TypeOK /\ [Next]_vars => Kept \/ (Wastes /\ Loses)
<1> SUFFICES ASSUME TypeOK, [Next]_vars PROVE Kept \/ (Wastes /\ Loses)
  OBVIOUS
<1>1. ASSUME NEW t \in UserTcb, UserStep(t) PROVE Kept \/ (Wastes /\ Loses)
  BY <1>1, UserStepKept DEF Loses
<1>2. CASE SsiStep
  BY <1>2, SsiStepKept DEF Loses
<1>3. CASE KillStep
  BY <1>3, KillStepKept DEF KillStep
<1>4. CASE TimerSlice \/ TimerTick \/ TimerFault
  BY <1>4, TimerStepKept
<1>5. CASE UNCHANGED vars
  BY <1>5, KeptSame DEF vars
<1> QED
  BY <1>1, <1>2, <1>3, <1>4, <1>5 DEF Next, PowerOff

\* Messages are lost in two ways only, in any order of messages, receives,
\* ticks, traps, creations and terminations: by the verdict of a manager, and
\* when the TCB of a dead thread that was sent some is allocated again.
THEOREM NoOtherMessageIsLost == Spec => MessagesKept
<1>1. TypeOK /\ [Next]_vars
         => [\/ msgFree' + Queued' = msgFree + Queued
             \/ \E t, d \in UserTcb : Verdict(t, d)
             \/ (createSon \/ createBrother) /\ t_inbox[Head(tcbFree)] # <<>>]_vars
  BY NextKept DEF Kept, Loses
<1> QED
  BY <1>1, TypeCorrect, PTL DEF Spec, MessagesKept

\* At boot every message is free.
LEMMA InitMail == Init => msgFree = MAXMESSAGES /\ Queued = 0
<1> SUFFICES ASSUME Init PROVE msgFree = MAXMESSAGES /\ Queued = 0
  OBVIOUS
<1>1. Mail = {}
  BY DEF Init, Mail
<1>2. msgFree = MAXMESSAGES
  BY DEF Init
<1> QED
  BY <1>1, <1>2, FS_EmptySet DEF Queued

\* A wasteful step leaves no more messages in the inboxes and the pool.
LEMMA WastesBound ==
    ASSUME TypeOK, TypeOK', Wastes
    PROVE  msgFree' + Queued' <= msgFree + Queued
<1>1. Queued' <= Queued
  BY MailFinite, FS_Subset DEF Wastes, Queued
<1>2. Queued \in Nat /\ msgFree \in Nat
  BY QueuedType
<1>3. Queued' \in Nat /\ msgFree' \in Nat
  <2>1. (TypeOK => Queued \in Nat /\ msgFree \in Nat)'
    BY QueuedType, PTL
  <2> QED BY <2>1
<1>4. msgFree' <= msgFree
  BY DEF Wastes
<1>5. \A m, n, i, j \in Nat : m <= n /\ i <= j => m + i <= n + j
  OBVIOUS
<1> QED
  BY <1>1, <1>2, <1>3, <1>4, <1>5

\* No message is freed twice: those in the inboxes, the inboxes of the dead
\* included, and those in the pool are never more than MAXMESSAGES, whichever
\* threads die with messages in their inbox and whatever is sent to them then.
THEOREM PoolNeverGrows == Spec => []PoolBound
<1>1. Init => TypeOK /\ PoolBound
  BY InitTypes, InitMail, MsgAssumption DEF PoolBound
<1>2. TypeOK /\ PoolBound /\ [Next]_vars => (TypeOK /\ PoolBound)'
  <2> SUFFICES ASSUME TypeOK, PoolBound, [Next]_vars PROVE TypeOK' /\ PoolBound'
    OBVIOUS
  <2>1. TypeOK'
    BY NextTypes
  <2>2. Queued \in Nat /\ msgFree \in Nat
    BY QueuedType
  <2>3. Queued' \in Nat /\ msgFree' \in Nat
    <3>1. (TypeOK => Queued \in Nat /\ msgFree \in Nat)'
      BY QueuedType, PTL
    <3> QED BY <2>1, <3>1
  <2>4. msgFree' + Queued' <= msgFree + Queued
    BY <2>1, <2>2, NextKept, WastesBound DEF Kept
  <2>5. \A m, n, i, j \in Nat, k \in Nat :
           m + n <= k /\ i + j <= m + n => i + j <= k
    OBVIOUS
  <2>6. msgFree' + Queued' <= MAXMESSAGES
    BY <2>2, <2>3, <2>4, <2>5, MsgAssumption DEF PoolBound
  <2> QED BY <2>1, <2>6 DEF PoolBound
<1> QED
  BY <1>1, <1>2, PTL DEF Spec

-----------------------------------------------------------------------------
(* What the SSI is asked for.                                              *)

Inbox(t) == ToSet(t_inbox[t])

\* The requests the current thread may make.
MayAsk == {m \in Request : m.service \in Calls /\ m.sender = currentThread}

\* What a step does to the SSI: requests come from the current thread, ticks
\* from the timer, and what is served was in the inbox.
Asked ==
    /\ Inbox(tcb_SSI)' \subseteq Inbox(tcb_SSI) \cup MayAsk \cup {Tick}
    /\ ssi_pc' \in {"serve", "reply"} =>
          \/ ssi_pc \in {"serve", "reply"} /\ ssi_msg' = ssi_msg
          \/ ssi_msg' \in Inbox(tcb_SSI) /\ ssi_msg'.service # "WAKE_UP_PSEUDO_CLOCK"

\* A step that concerns neither the inbox of the SSI nor what it serves.
LEMMA AskedSame ==
    ASSUME t_inbox'[tcb_SSI] = t_inbox[tcb_SSI], ssi_msg' = ssi_msg,
           ssi_pc' \in {"serve", "reply"} => ssi_pc \in {"serve", "reply"}
    PROVE  Asked
  BY DEF Asked, Inbox

\* The same, after a message to a user thread.
LEMMA AskedInsert ==
    ASSUME TypeOK, NEW d \in UserTcb, NEW m, insertMessage(d, m), ssi_msg' = ssi_msg,
           ssi_pc' \in {"serve", "reply"} => ssi_pc \in {"serve", "reply"}
    PROVE  Asked
<1>1. t_inbox'[tcb_SSI] = t_inbox[tcb_SSI]
  BY TcbFacts, InsertInbox
<1> QED
  BY <1>1, AskedSame

\* The same, when nothing is served afterwards.
LEMMA AskedIdle ==
    ASSUME TypeOK, UNCHANGED mailVars \/ \E d \in UserTcb, m \in Msg : insertMessage(d, m),
           ssi_pc' \notin {"serve", "reply"}
    PROVE  Asked
<1>1. t_inbox'[tcb_SSI] = t_inbox[tcb_SSI]
  BY TcbFacts, InsertInbox DEF mailVars
<1> QED
  BY <1>1 DEF Asked, Inbox

\* A message to the SSI.
LEMMA AskedSsi ==
    ASSUME TypeOK, NEW m \in Msg, insertMessage(tcb_SSI, m), UNCHANGED ssiVars,
           m \in MayAsk \cup {Tick}
    PROVE  Asked
<1>1. t_inbox[tcb_SSI] \in Seq(Msg) /\ t_inbox'[tcb_SSI] = Append(t_inbox[tcb_SSI], m)
  BY TcbFacts DEF TypeOK, MailTypes, insertMessage
<1>2. Inbox(tcb_SSI)' = Inbox(tcb_SSI) \cup {m}
  BY <1>1, ToSetAppend DEF Inbox
<1> QED
  BY <1>2 DEF Asked, ssiVars

\* A user thread asks for what it may.
LEMMA UserStepAsked ==
    ASSUME TypeOK, NEW t \in UserTcb, UserStep(t)
    PROVE  Asked
<1> USE TcbFacts
<1>0. issued \subseteq UserTcb
  BY DEF TypeOK, TreeTypes
<1>1. ASSUME NEW d \in issued, Send(t, d) PROVE Asked
  <2>1. d \in UserTcb /\ insertMessage(d, UserMsg(t)) /\ UNCHANGED ssiVars
    BY <1>0, <1>1 DEF Send, Deliver
  <2> QED BY <2>1, AskedInsert DEF ssiVars
<1>2. ASSUME NEW d, SendOther(t, d) \/ SendContinue(t, d) \/ SendTerminate(t, d) PROVE Asked
  <2>1. UNCHANGED t_inbox /\ UNCHANGED ssiVars
    BY <1>2 DEF SendOther, SendContinue, SendTerminate
  <2> QED BY <2>1, AskedSame DEF ssiVars
<1>3. ASSUME NEW service \in Services, NEW payload \in issued \cup {NULL},
             SendSsi(t, service, payload)
      PROVE Asked
  <2> DEFINE m == RequestMsg(t, service, payload)
  <2>1. UNCHANGED ssiVars /\ service \in Calls /\ currentThread = t
    BY <1>3 DEF SendSsi, Makes, UserRuns, Running
  <2>2. CASE msgFree = 0
    <3>1. UNCHANGED t_inbox
      BY <1>3, <2>2 DEF SendSsi, mailVars
    <3> QED BY <2>1, <3>1, AskedSame DEF ssiVars
  <2>3. CASE msgFree # 0
    <3>1. insertMessage(tcb_SSI, m)
      BY <1>3, <2>3 DEF SendSsi, Deliver
    <3>2. m \in Request /\ m \in Msg /\ m.service = service /\ m.sender = t
      BY <1>0, MsgTypes DEF RequestMsg
    <3> HIDE DEF m
    <3> QED BY <2>1, <3>1, <3>2, AskedSsi DEF MayAsk
  <2> QED BY <2>2, <2>3
<1>4. ASSUME NEW source, RecvTake(t, source) PROVE Asked
  <2>1. /\ UNCHANGED ssiVars
        /\ \E i : t_inbox' = [t_inbox EXCEPT ![t] = RemoveAt(@, i)]
    BY <1>4 DEF RecvTake, Receive
  <2>2. t_inbox'[tcb_SSI] = t_inbox[tcb_SSI]
    BY <2>1 DEF TypeOK, MailTypes
  <2> QED BY <2>1, <2>2, AskedSame DEF ssiVars
<1>5. ASSUME NEW source, RecvBlock(t, source) PROVE Asked
  BY <1>5, AskedSame DEF RecvBlock, ssiVars, mailVars
<1>6. ASSUME NEW trap \in Traps, TrapKill(t, trap) \/ TrapFault(t, trap) PROVE Asked
  BY <1>6, AskedSame DEF TrapKill, TrapFault, ssiVars, mailVars
<1>7. ASSUME NEW trap \in Traps, TrapPassUp(t, trap) PROVE Asked
  <2> DEFINE m == mgr[t]["sys"]
  <2>1. m # NULL /\ insertMessage(m, UserMsg(t)) /\ UNCHANGED ssiVars
    BY <1>7 DEF TrapPassUp
  <2>2. m \in UserTcb
    BY <2>1 DEF TypeOK, TreeTypes, Traps
  <2> HIDE DEF m
  <2> QED BY <2>1, <2>2, AskedInsert DEF ssiVars
<1> QED
  BY <1>1, <1>2, <1>3, <1>4, <1>5, <1>6, <1>7 DEF UserStep

\* The SSI takes what it serves out of its inbox.
LEMMA SsiStepAsked ==
    ASSUME TypeOK, SsiStep
    PROVE  Asked
<1> USE TcbFacts
<1>1. CASE SsiReceive
  <2> DEFINE i == popMessage(t_inbox[tcb_SSI], NULL)
             m == t_inbox[tcb_SSI][i]
  <2>1. /\ t_inbox' = [t_inbox EXCEPT ![tcb_SSI] = RemoveAt(@, i)]
        /\ Receive(tcb_SSI, NULL)
        /\ IF m.service = "WAKE_UP_PSEUDO_CLOCK"
           THEN ssi_pc' = "wake"
           ELSE ssi_pc' = "serve" /\ ssi_msg' = m
    BY <1>1 DEF SsiReceive, Receive, Goes
  <2>2. t_inbox[tcb_SSI] \in Seq(Msg) /\ i \in 1 .. Len(t_inbox[tcb_SSI])
    BY <2>1, ReceiveTypes DEF TypeOK, MailTypes, Threads, Receive, Matching
  <2> HIDE DEF i
  <2>3. Inbox(tcb_SSI)' \subseteq Inbox(tcb_SSI)
    <3>1. t_inbox'[tcb_SSI] = RemoveAt(t_inbox[tcb_SSI], i)
      BY <2>1 DEF TypeOK, MailTypes
    <3> QED BY <2>2, <3>1, ToSetRemoveAt DEF Inbox
  <2>4. m \in Inbox(tcb_SSI)
    BY <2>2, LenProperties DEF Inbox, ToSet
  <2> HIDE DEF m
  <2> QED BY <2>1, <2>3, <2>4 DEF Asked
<1>2. CASE SsiBlock
  BY <1>2, AskedSame DEF SsiBlock, mailVars, ssiVars
<1>3. ASSUME NEW service, NEW p, NEW parent, ServeCreate(service, p, parent)
      PROVE Asked
  <2>1. Create(p, parent) /\ ssi_msg' = ssi_msg /\ ssi_pc = "serve"
    BY <1>3 DEF ServeCreate, Serves, SsiAt
  <2>2. t_inbox'[tcb_SSI] = t_inbox[tcb_SSI]
    <3>1. CASE tcbFree = <<>>
      BY <2>1, <3>1 DEF Create, mailVars
    <3>2. CASE tcbFree # <<>>
      <4>1. Head(tcbFree) \in UserTcb
        BY <3>2, HeadTailProperties DEF TypeOK, QueueTypes
      <4>2. t_inbox' = [t_inbox EXCEPT ![Head(tcbFree)] = <<>>]
        BY <2>1, <3>2 DEF Create
      <4> QED BY <4>1, <4>2 DEF TypeOK, MailTypes
    <3> QED BY <3>1, <3>2
  <2> QED BY <2>1, <2>2, AskedSame
<1>4. CASE getCpuTime \/ ssiTerminate
  BY <1>4, AskedSame DEF getCpuTime, ssiTerminate, mailVars, Serves, SsiAt
<1>5. CASE waitForClock \/ wakeUpPseudoClock
  BY <1>5, AskedIdle DEF waitForClock, wakeUpPseudoClock, Goes
<1>6. ASSUME NEW service \in SpecServices, specMgr(service) PROVE Asked
  <2>1. UNCHANGED mailVars /\ ssi_pc = "serve"
        /\ (ssi_pc' = "recv" \/ ssi_msg' = ssi_msg)
    BY <1>6 DEF specMgr, Serves, SsiAt, Goes
  <2>2. CASE ssi_pc' = "recv"
    BY <2>1, <2>2, AskedIdle
  <2>3. CASE ssi_msg' = ssi_msg
    BY <2>1, <2>3, AskedSame DEF mailVars
  <2> QED BY <2>1, <2>2, <2>3
<1>7. CASE reply
  <2> DEFINE s == ssi_msg.sender
             m == [ssi_msg EXCEPT !.m_sender = SSI_MAGIC]
  <2>1. ssi_pc = "reply" /\ SsiSend(s, m) /\ ssi_pc' = "recv"
    BY <1>7 DEF reply, SsiAt, Goes
  <2>2. s \in UserTcb
    BY <2>1, ServedRequest
  <2> HIDE DEF s, m
  <2>3. t_inbox'[tcb_SSI] = t_inbox[tcb_SSI]
    BY <2>1, <2>2, InsertInbox DEF SsiSend, Deliver, mailVars
  <2> QED BY <2>1, <2>3 DEF Asked, Inbox
<1>8. CASE wakeUpSend
  <2>1. ssi_temp \in UserTcb /\ ssi_pc' = "wake" /\ WakeMsg \in Msg
    BY <1>8, MsgTypes DEF wakeUpSend, SsiAt, TypeOK, ControlTypes, Goes
  <2>2. UNCHANGED mailVars \/ insertMessage(ssi_temp, WakeMsg)
    BY <1>8 DEF wakeUpSend
  <2> QED BY <2>1, <2>2, AskedIdle
<1> QED
  BY <1>1, <1>2, <1>3, <1>4, <1>5, <1>6, <1>7, <1>8 DEF SsiStep, createSon, createBrother

\* No step makes the SSI serve what no thread asked for.
LEMMA NextAsked == TypeOK /\ [Next]_vars => Asked
<1> SUFFICES ASSUME TypeOK, [Next]_vars PROVE Asked
  OBVIOUS
<1>1. ASSUME NEW t \in UserTcb, UserStep(t) PROVE Asked
  BY <1>1, UserStepAsked
<1>2. CASE SsiStep
  BY <1>2, SsiStepAsked
<1>3. ASSUME NEW k \in UserTcb, killChild(k) \/ killCorrupt(k) \/ killPanic(k) PROVE Asked
  BY <1>3, AskedSame DEF killChild, killCorrupt, killPanic, mailVars, ssiVars
<1>4. ASSUME NEW k \in UserTcb, killThread(k) PROVE Asked
  <2>1. UNCHANGED ssiVars /\ t_inbox' = [t_inbox EXCEPT ![k] = <<>>]
    BY <1>4 DEF killThread, release
  <2>2. t_inbox'[tcb_SSI] = t_inbox[tcb_SSI]
    BY <2>1, TcbFacts DEF TypeOK, MailTypes
  <2> QED BY <2>1, <2>2, AskedSame DEF ssiVars
<1>5. CASE TimerSlice \/ TimerFault
  BY <1>5, AskedSame DEF TimerSlice, TimerFault, mailVars, ssiVars
<1>6. CASE TimerTick
  BY <1>6, MsgTypes, AskedSsi DEF TimerTick, fakeSend
<1>7. CASE UNCHANGED vars
  BY <1>7, AskedSame DEF vars, mailVars, ssiVars
<1> QED
  BY <1>1, <1>2, <1>3, <1>4, <1>5, <1>6, <1>7 DEF Next, KillStep, PowerOff

\* What waits for the SSI, and what it serves, was asked for by some thread.
Requested ==
    /\ \A m \in Inbox(tcb_SSI) : m.service \in Calls \cup {"WAKE_UP_PSEUDO_CLOCK"}
    /\ ssi_pc \in {"serve", "reply"} => ssi_msg.service \in Calls

\* Threads are served what they may ask for, in every state.
LEMMA NextRequested == TypeOK /\ Requested /\ [Next]_vars => Requested'
<1> SUFFICES ASSUME TypeOK, Requested, [Next]_vars PROVE Requested'
  OBVIOUS
<1>1. Asked
  BY NextAsked
<1>2. Tick.service = "WAKE_UP_PSEUDO_CLOCK"
  BY DEF Tick
<1>3. \A m \in Inbox(tcb_SSI)' : m.service \in Calls \cup {"WAKE_UP_PSEUDO_CLOCK"}
  BY <1>1, <1>2 DEF Asked, Requested, MayAsk
<1>4. ssi_pc' \in {"serve", "reply"} => ssi_msg'.service \in Calls
  BY <1>1 DEF Asked, Requested
<1> QED
  BY <1>3, <1>4 DEF Requested

\* At boot nothing is asked for.
LEMMA InitRequested == Init => Requested
  BY TcbFacts DEF Init, Requested, Inbox, ToSet

-----------------------------------------------------------------------------
(* Workloads in which no thread dies.                                      *)

\* The calls that may end in terminate(): a service that kills its caller, a
\* verdict, a trap without a manager, a manager named twice.
Deadly == {"TERMINATE", "BAD", "manage", "prg", "tlb", "sys"} \cup SpecServices

\* Without them no thread dies, and no TCB in the free list is known to
\* anyone, so that none of them has messages.
Deathless ==
    /\ killing = <<>>
    /\ issued \cap Free = {}
    /\ \A t \in Tcb : pc[t] # "sys"
    /\ \A m \in Inbox(tcb_SSI) : m.sender \notin Free
    /\ ssi_pc \in {"serve", "reply"} => ssi_msg.sender \notin Free
    /\ ssi_pc = "wakeSend" => ssi_temp \notin Free
    /\ \A t \in Free : t_inbox[t] = <<>>

\* What is left to show of a step: the rest is the lemma NextAsked.
LEMMA DeathlessFrame ==
    ASSUME TypeOK, Partition, Deathless, Asked,
           killing' = <<>>, Free' \subseteq Free, issued' \cap Free' = {},
           \A t \in Tcb : pc'[t] # "sys",
           ssi_pc' = "wakeSend" => ssi_temp' \notin Free,
           \A t \in Free' : t_inbox'[t] = t_inbox[t]
    PROVE  Deathless'
<1>1. \A m \in MayAsk : m.sender \notin Free
  BY TcbFacts, PlaceTypes DEF MayAsk, Partition, Current
<1>2. Tick.sender \notin Free
  BY TcbFacts, PlaceTypes DEF Tick
<1>3. \A m \in Inbox(tcb_SSI)' : m.sender \notin Free'
  BY <1>1, <1>2 DEF Asked, Deathless
<1>4. ssi_pc' \in {"serve", "reply"} => ssi_msg'.sender \notin Free'
  BY DEF Asked, Deathless
<1> QED
  BY <1>3, <1>4 DEF Deathless

\* A step that allocates no TCB and makes no thread repeat a system call.
LEMMA DeathlessSame ==
    ASSUME TypeOK, Partition, Deathless, Asked,
           UNCHANGED <<killing, tcbFree, issued, pc>>,
           ssi_pc' = "wakeSend" => ssi_temp' \notin Free,
           UNCHANGED t_inbox \/ \E d \in Tcb \ Free : \E m : insertMessage(d, m)
    PROVE  Deathless'
<1>1. Free' = Free /\ Free \subseteq Tcb
  BY PlaceTypes, TcbFacts DEF Free
<1>2. \A t \in Free : t_inbox'[t] = t_inbox[t]
  BY <1>1, InsertInbox
<1> QED
  BY <1>1, <1>2, DeathlessFrame DEF Deathless

\* The current thread is not free.
LEMMA CurrentAlive == ASSUME Partition, currentThread # NULL PROVE currentThread \notin Free
  BY DEF Partition, Current

\* The tag "sys" is neither the source of a RECV nor another tag.
LEMMA Tags == "sys" \notin UserTcb \cup {NULL, SSI_MAGIC, "run"}
  BY TagAssumption, TcbFacts

\* Without deadly calls no step of a user thread kills.
LEMMA UserStepDeathless ==
    ASSUME Calls \cap Deadly = {}, TypeOK, Partition, Deathless, Asked,
           NEW t \in UserTcb, UserStep(t)
    PROVE  Deathless'
<1> USE TcbFacts
<1>0. /\ issued \subseteq UserTcb /\ Free \subseteq Tcb /\ t # NULL
      /\ tcb_SSI \notin Free
      /\ "manage" \notin Calls /\ \A trap \in Traps : trap \notin Calls
      /\ pc \in [Tcb -> {"run", "sys", SSI_MAGIC, NULL} \cup UserTcb]
  BY PlaceTypes DEF TypeOK, TreeTypes, ControlTypes, Deadly, Traps
<1>1. ASSUME NEW d \in issued, Send(t, d) PROVE Deathless'
  <2>1. /\ d \in Tcb \ Free /\ insertMessage(d, UserMsg(t))
        /\ UNCHANGED <<killing, tcbFree, issued, pc, ssi_pc, ssi_temp>>
    BY <1>0, <1>1 DEF Send, Deliver, Deathless, treeVars, ssiVars
  <2> QED BY <2>1, DeathlessSame DEF Deathless
<1>2. ASSUME NEW d, SendOther(t, d) \/ SendContinue(t, d) \/ SendTerminate(t, d) PROVE FALSE
  BY <1>0, <1>2 DEF SendOther, SendContinue, SendTerminate, Verdict, Makes
<1>3. ASSUME NEW service \in Services, NEW payload \in issued \cup {NULL},
             SendSsi(t, service, payload)
      PROVE Deathless'
  <2>1. /\ UNCHANGED <<killing, tcbFree, issued, ssi_pc, ssi_temp>>
        /\ pc' = [pc EXCEPT ![t] = SSI_MAGIC]
        /\ UNCHANGED mailVars \/ insertMessage(tcb_SSI, RequestMsg(t, service, payload))
    BY <1>3 DEF SendSsi, Deliver, treeVars, ssiVars
  <2>2. \A u \in Tcb : pc'[u] # "sys"
    BY <1>0, <2>1, Tags DEF Deathless
  <2>3. \A u \in Free : t_inbox'[u] = t_inbox[u]
    BY <1>0, <2>1, InsertInbox DEF mailVars
  <2>4. Free' = Free
    BY <2>1 DEF Free
  <2> QED BY <2>1, <2>2, <2>3, <2>4, DeathlessFrame DEF Deathless
<1>4. ASSUME NEW source \in issued \cup {NULL, SSI_MAGIC},
             RecvTake(t, source) \/ RecvBlock(t, source)
      PROVE Deathless'
  <2>1. /\ UNCHANGED <<killing, tcbFree, issued, ssi_pc, ssi_temp>>
        /\ \/ pc' = [pc EXCEPT ![t] = "run"]
           \/ pc' = [pc EXCEPT ![t] = source]
        /\ UNCHANGED t_inbox \/ \E i : t_inbox' = [t_inbox EXCEPT ![t] = RemoveAt(@, i)]
        /\ currentThread = t
    BY <1>4 DEF RecvTake, RecvBlock, Receive, RecvFrom, UserRuns, Running, treeVars, ssiVars,
                mailVars
  <2>2. \A u \in Tcb : pc'[u] # "sys"
    BY <1>0, <2>1, Tags DEF Deathless
  <2>3. \A u \in Free : t_inbox'[u] = t_inbox[u]
    BY <1>0, <2>1, CurrentAlive DEF TypeOK, MailTypes
  <2>4. Free' = Free
    BY <2>1 DEF Free
  <2> QED BY <2>1, <2>2, <2>3, <2>4, DeathlessFrame DEF Deathless
<1>5. ASSUME NEW trap \in Traps, TrapKill(t, trap) \/ TrapFault(t, trap) \/ TrapPassUp(t, trap)
      PROVE FALSE
  BY <1>0, <1>5 DEF TrapKill, TrapFault, TrapPassUp, TrapRaised, Deathless
<1> QED
  BY <1>1, <1>2, <1>3, <1>4, <1>5 DEF UserStep

\* Nor does the SSI, which is asked for no service that kills.
LEMMA SsiStepDeathless ==
    ASSUME Calls \cap Deadly = {}, TypeOK, Partition, Requested, Deathless, Asked, SsiStep
    PROVE  Deathless'
<1> USE TcbFacts
<1>0. tcb_SSI \notin Free /\ Free \subseteq Tcb /\ tcbFree \in Seq(UserTcb)
  BY PlaceTypes DEF TypeOK, QueueTypes
<1>1. CASE SsiReceive
  <2>1. /\ UNCHANGED <<killing, tcbFree, issued, pc>> /\ ssi_pc' # "wakeSend"
        /\ \E i : t_inbox' = [t_inbox EXCEPT ![tcb_SSI] = RemoveAt(@, i)]
    BY <1>1 DEF SsiReceive, Receive, Goes, treeVars
  <2>2. \A u \in Free : t_inbox'[u] = t_inbox[u]
    BY <1>0, <2>1 DEF TypeOK, MailTypes
  <2>3. Free' = Free
    BY <2>1 DEF Free
  <2> QED BY <2>1, <2>2, <2>3, DeathlessFrame DEF Deathless
<1>2. CASE SsiBlock \/ getCpuTime
  <2>1. UNCHANGED <<killing, tcbFree, issued, pc, t_inbox>> /\ ssi_pc' # "wakeSend"
    BY <1>2 DEF SsiBlock, getCpuTime, SsiAt, Serves, Goes, treeVars, ssiVars, mailVars
  <2> QED BY <2>1, DeathlessSame
<1>3. ASSUME NEW service, NEW p, NEW parent, ServeCreate(service, p, parent)
      PROVE Deathless'
  <2>1. Create(p, parent) /\ UNCHANGED killing /\ ssi_pc' = "reply"
    BY <1>3 DEF ServeCreate, Goes
  <2>2. CASE tcbFree = <<>>
    BY <2>1, <2>2, DeathlessSame DEF Create, treeVars, mailVars
  <2>3. CASE tcbFree # <<>>
    <3> DEFINE new == Head(tcbFree)
    <3>1. /\ tcbFree' = Tail(tcbFree) /\ issued' = issued \cup {new}
          /\ t_inbox' = [t_inbox EXCEPT ![new] = <<>>] /\ pc' = [pc EXCEPT ![new] = "run"]
      BY <2>1, <2>3 DEF Create
    <3>2. new \in UserTcb /\ Free' = Free \ {new}
      BY <1>0, <2>3, <3>1, HeadTailPlaces DEF Partition, Free
    <3> HIDE DEF new
    <3>3. \A u \in Tcb : pc'[u] # "sys"
      BY <3>1, <3>2, Tags DEF Deathless, TypeOK, ControlTypes
    <3>4. \A u \in Free' : t_inbox'[u] = t_inbox[u]
      BY <1>0, <3>1, <3>2 DEF TypeOK, MailTypes
    <3>5. issued' \cap Free' = {}
      BY <3>1, <3>2 DEF Deathless
    <3> QED BY <2>1, <3>2, <3>3, <3>4, <3>5, DeathlessFrame DEF Deathless
  <2> QED BY <2>2, <2>3
<1>4. CASE waitForClock
  <2>1. /\ tcbFree' = RemoveFirst(tcbFree, ssi_msg.sender)
        /\ UNCHANGED <<killing, issued, pc, t_inbox>> /\ ssi_pc' = "recv"
    BY <1>4 DEF waitForClock, outThread, Goes, mailVars
  <2>2. Free' = Free \ {ssi_msg.sender}
    BY <1>0, <2>1, OutThreadPlaces DEF Partition, Free
  <2> QED BY <2>1, <2>2, DeathlessFrame DEF Deathless
<1>5. CASE ssiTerminate
  BY <1>5 DEF ssiTerminate, Serves, SsiAt, Requested, Deadly
<1>6. ASSUME NEW service \in SpecServices, specMgr(service) PROVE FALSE
  BY <1>6 DEF specMgr, Serves, SsiAt, Requested, Deadly
<1>7. CASE reply
  <2> DEFINE s == ssi_msg.sender
             m == [ssi_msg EXCEPT !.m_sender = SSI_MAGIC]
  <2>1. /\ ssi_pc = "reply" /\ SsiSend(s, m) /\ ssi_pc' = "recv"
        /\ UNCHANGED <<killing, tcbFree, issued, pc>>
    BY <1>7 DEF reply, SsiAt, Goes, treeVars
  <2>2. s \in Tcb \ Free
    BY <2>1, ServedRequest DEF Deathless
  <2> HIDE DEF s, m
  <2>3. UNCHANGED t_inbox \/ insertMessage(s, m)
    BY <2>1 DEF SsiSend, Deliver, mailVars
  <2> QED BY <2>1, <2>2, <2>3, DeathlessSame
<1>8. CASE wakeUpPseudoClock
  <2>1. /\ UNCHANGED <<killing, tcbFree, issued, pc, t_inbox>>
        /\ \/ ssi_pc' = "recv"
           \/ waitForPseudoClockQueue # <<>> /\ ssi_temp' = Head(waitForPseudoClockQueue)
    BY <1>8 DEF wakeUpPseudoClock, Goes, treeVars, mailVars
  <2>2. waitForPseudoClockQueue # <<>> => Head(waitForPseudoClockQueue) \notin Free
    <3>1. waitForPseudoClockQueue # <<>> => Head(waitForPseudoClockQueue) \in Sleeping
      BY PlaceTypes, HeadTailPlaces DEF Partition, Sleeping
    <3> QED BY <3>1 DEF Partition
  <2>3. ssi_pc' = "wakeSend" => ssi_temp' \notin Free
    BY <2>1, <2>2
  <2> QED BY <2>1, <2>3, DeathlessSame
<1>9. CASE wakeUpSend
  <2>1. /\ ssi_temp \in Tcb \ Free /\ ssi_pc' = "wake"
        /\ UNCHANGED <<killing, tcbFree, issued, pc>>
        /\ UNCHANGED mailVars \/ insertMessage(ssi_temp, WakeMsg)
    BY <1>9 DEF wakeUpSend, SsiAt, Deathless, TypeOK, ControlTypes, Goes, treeVars
  <2> QED BY <2>1, DeathlessSame DEF mailVars
<1> QED
  BY <1>1, <1>2, <1>3, <1>4, <1>5, <1>6, <1>7, <1>8, <1>9 DEF SsiStep, createSon, createBrother

\* Nor does any step.
LEMMA NextDeathless ==
    ASSUME Calls \cap Deadly = {}
    PROVE  TypeOK /\ Partition /\ Requested /\ Deathless /\ [Next]_vars => Deathless'
<1> SUFFICES ASSUME TypeOK, Partition, Requested, Deathless, [Next]_vars PROVE Deathless'
  OBVIOUS
<1>0. Asked /\ tcb_SSI \in Tcb \ Free
  BY NextAsked, PlaceTypes, TcbFacts
<1>1. ASSUME NEW t \in UserTcb, UserStep(t) PROVE Deathless'
  BY <1>0, <1>1, UserStepDeathless
<1>2. CASE SsiStep
  BY <1>0, <1>2, SsiStepDeathless
<1>3. CASE KillStep
  BY <1>3 DEF KillStep, killChild, killThread, killCorrupt, killPanic, Killing, Deathless
<1>4. CASE TimerSlice \/ TimerFault
  <2>1. UNCHANGED <<killing, tcbFree, issued, pc, t_inbox, ssi_pc, ssi_temp>>
    BY <1>4 DEF TimerSlice, TimerFault, treeVars, ssiVars, mailVars
  <2> QED BY <1>0, <2>1, DeathlessSame DEF Deathless
<1>5. CASE TimerTick
  <2>1. /\ UNCHANGED <<killing, tcbFree, issued, pc, ssi_pc, ssi_temp>>
        /\ insertMessage(tcb_SSI, Tick)
    BY <1>5 DEF TimerTick, fakeSend, treeVars, ssiVars
  <2> QED BY <1>0, <2>1, DeathlessSame DEF Deathless
<1>6. CASE UNCHANGED vars
  <2>1. UNCHANGED <<killing, tcbFree, issued, pc, t_inbox, ssi_pc, ssi_temp>>
    BY <1>6 DEF vars, treeVars, ssiVars, mailVars
  <2> QED BY <1>0, <2>1, DeathlessSame DEF Deathless
<1> QED
  BY <1>1, <1>2, <1>3, <1>4, <1>5, <1>6 DEF Next, PowerOff

\* At boot only the test thread is known, and it is alive.
LEMMA InitDeathless == Init => Deathless
<1> SUFFICES ASSUME Init PROVE Deathless
  OBVIOUS
<1>1. Free = Tcb \ {tcb_init, tcb_SSI, tcb_test, tcb_lost} /\ Inbox(tcb_SSI) = {}
  BY TcbAssumption DEF Init, Free, Inbox, ToSet
<1>2. \A t \in Tcb : t_inbox[t] = <<>> /\ pc[t] = "run"
  BY DEF Init
<1>3. /\ killing = <<>> /\ issued = {tcb_test} /\ ssi_pc = "recv"
  BY DEF Init
<1> QED
  BY <1>1, <1>2, <1>3 DEF Deathless

\* Without deadly calls no message is lost.
LEMMA NextConserved ==
    ASSUME Calls \cap Deadly = {}, TypeOK, Partition, Deathless, MessagesConserved,
           [Next]_vars
    PROVE  MessagesConserved'
<1>1. ~Loses
  <2>1. ASSUME NEW t, NEW d, Verdict(t, d) PROVE FALSE
    BY <2>1 DEF Verdict, Makes, Deadly
  <2>2. tcbFree # <<>> => t_inbox[Head(tcbFree)] = <<>>
    BY PlaceTypes, HeadTailPlaces DEF Partition, Free, Deathless
  <2> QED BY <2>1, <2>2 DEF Loses
<1> QED
  BY <1>1, NextKept DEF Kept, MessagesConserved

\* In programs whose threads neither trap, nor kill, nor manage others, every
\* message is in an inbox or in the pool, for ever, whatever else they call.
THEOREM MessagesAreConserved ==
    ASSUME Calls \cap Deadly = {}
    PROVE  Spec => []MessagesConserved
<1> DEFINE I == TypeOK /\ Partition /\ Requested /\ Deathless /\ MessagesConserved
<1>1. Init => I
  BY InitTypes, InitPlaces, InitRequested, InitDeathless, InitMail, MsgAssumption
  DEF MessagesConserved
<1>2. I /\ [Next]_vars => I'
  BY NextTypes, NextPlaces, NextRequested, NextDeathless, NextConserved
<1>3. I => MessagesConserved
  OBVIOUS
<1> QED
  BY <1>1, <1>2, <1>3, PTL DEF Spec

-----------------------------------------------------------------------------
(* The threads alive. *)

\* There are fewer threads than a counter can count.
LEMMA ThreadsFinite ==
    ASSUME NEW S, S \subseteq Threads
    PROVE  IsFiniteSet(S) /\ Cardinality(S) \in 0 .. Word - 1
<1>1. IsFiniteSet(Tcb) /\ S \subseteq Tcb
  BY TcbAssumption, TcbFacts DEF Threads
<1>2. IsFiniteSet(S) /\ Cardinality(S) <= Cardinality(Tcb)
  BY <1>1, FS_Subset
<1> QED
  BY <1>1, <1>2, FS_CardinalityType, SchedulerAssumption

\* The same of the threads alive.
LEMMA LiveFinite == IsFiniteSet(Live) /\ Cardinality(Live) \in 0 .. Word - 1
  BY ThreadsFinite DEF Live, Threads

\* A step that frees no TCB, allocates none, and leaves the counter alone.
LEMMA ThreadCountSame ==
    ASSUME ThreadCountExact, UNCHANGED threadCount, Free' = Free
    PROVE  ThreadCountExact'
  BY DEF ThreadCountExact, Live

\* A TCB is allocated.
LEMMA ThreadCountCreate ==
    ASSUME TypeOK, Partition, ThreadCountExact, NEW p, NEW parent, Create(p, parent)
    PROVE  ThreadCountExact'
<1>1. CASE tcbFree = <<>>
  BY <1>1, ThreadCountSame DEF Create, treeVars, Free
<1>2. CASE tcbFree # <<>>
  <2> DEFINE new == Head(tcbFree)
  <2>1. tcbFree' = Tail(tcbFree) /\ threadCount' = Inc(threadCount)
    BY <1>2 DEF Create
  <2>2. new \in Free /\ new \in Threads /\ Free' = Free \ {new}
    BY <1>2, <2>1, PlaceTypes, HeadTailPlaces DEF Partition, Free
  <2> HIDE DEF new
  <2>3. Live' = Live \cup {new} /\ new \notin Live
    BY <2>2 DEF Live, Threads
  <2>4. Cardinality(Live') = Cardinality(Live) + 1
    BY <2>3, LiveFinite, AddOne
  <2>5. Cardinality(Live') \in 0 .. Word - 1
    BY ThreadsFinite DEF Live, Threads
  <2> QED
    BY <2>1, <2>4, <2>5, LiveFinite, SchedulerAssumption DEF ThreadCountExact, Inc
<1> QED
  BY <1>1, <1>2

\* terminate() counts each thread it frees once: it was alive.
LEMMA ThreadCountKill ==
    ASSUME TypeOK, Partition, ThreadCountExact, NEW k \in UserTcb, killThread(k)
    PROVE  ThreadCountExact'
<1>1. /\ k = currentThread \/ InSomeQueue(k)
      /\ tcbFree' = <<k>> \o tcbFree /\ threadCount' = Dec(threadCount)
  BY Zenon DEF killThread, release
<1>2. \A q : Contains(q, k) <=> k \in ToSet(q)
  BY DEF Contains, ToSet
<1>3. k \notin Free
  BY <1>1, <1>2, TcbFacts DEF InSomeQueue, Partition, Sleeping, Ready, Current
<1>4. Free' = Free \cup {k}
  BY <1>1, <1>3, PlaceTypes, PushPlaces DEF Partition, Free, Threads
<1>5. k \in Live /\ Live' = Live \ {k}
  BY <1>3, <1>4 DEF Live
<1>6. Cardinality(Live') = Cardinality(Live) - 1 /\ Cardinality(Live) # 0
  BY <1>5, LiveFinite, RemoveOne, FS_EmptySet
<1> QED
  BY <1>1, <1>6, LiveFinite, SchedulerAssumption DEF ThreadCountExact, Dec

\* The threads alive are counted in every step, unless the SSI puts to sleep
\* a thread that has died, whose TCB leaves the free list.
LEMMA NextThreadCount ==
    ASSUME TypeOK, Partition, ThreadCountExact, [Next]_vars,
           waitForClock => ssi_msg.sender \notin Free
    PROVE  ThreadCountExact'
<1>0. tcbFree' = tcbFree => Free' = Free
  BY DEF Free
<1>1. ASSUME NEW t \in UserTcb, UserStep(t) PROVE ThreadCountExact'
  <2>1. UNCHANGED <<threadCount, tcbFree>>
    BY <1>1 DEF UserStep, Send, SendOther, SendContinue, SendTerminate, SendSsi, RecvTake,
                RecvBlock, Await, Block, TrapKill, TrapFault, TrapPassUp, treeVars, countVars
  <2> QED BY <1>0, <2>1, ThreadCountSame
<1>2. CASE SsiStep
  <2>1. CASE createSon \/ createBrother
    BY <2>1, ThreadCountCreate DEF createSon, createBrother, ServeCreate
  <2>2. CASE waitForClock
    <3>1. tcbFree' = RemoveFirst(tcbFree, ssi_msg.sender) /\ UNCHANGED threadCount
      BY <2>2 DEF waitForClock, outThread, countVars
    <3>2. Free' = Free \ {ssi_msg.sender}
      BY <3>1, PlaceTypes, OutThreadPlaces DEF Partition, Free
    <3> QED BY <2>2, <3>1, <3>2, ThreadCountSame
  <2>3. CASE ~(createSon \/ createBrother \/ waitForClock)
    <3>1. UNCHANGED <<threadCount, tcbFree>>
      BY <1>2, <2>3 DEF SsiStep, SsiReceive, SsiBlock, Await, Block, getCpuTime, ssiTerminate,
                        specMgr, reply, wakeUpPseudoClock, wakeUpSend, treeVars, countVars
    <3> QED BY <1>0, <3>1, ThreadCountSame
  <2> QED BY <2>1, <2>2, <2>3
<1>3. ASSUME NEW k \in UserTcb,
             killChild(k) \/ killThread(k) \/ killCorrupt(k) \/ killPanic(k)
      PROVE ThreadCountExact'
  BY <1>0, <1>3, ThreadCountKill, ThreadCountSame
  DEF killChild, killCorrupt, killPanic, treeVars, countVars
<1>4. CASE TimerSlice \/ TimerTick \/ TimerFault
  BY <1>0, <1>4, ThreadCountSame DEF TimerSlice, TimerTick, TimerFault, treeVars, countVars
<1>5. CASE UNCHANGED vars
  BY <1>0, <1>5, ThreadCountSame DEF vars, treeVars, countVars
<1> QED
  BY <1>1, <1>2, <1>3, <1>4, <1>5 DEF Next, KillStep, PowerOff

\* At boot two threads are alive, and counted.
LEMMA InitThreadCount == Init => ThreadCountExact
<1> SUFFICES ASSUME Init PROVE ThreadCountExact
  OBVIOUS
<1>1. Free = Tcb \ {tcb_init, tcb_SSI, tcb_test, tcb_lost}
  BY TcbAssumption DEF Init, Free
<1>2. Live = {tcb_SSI} \cup {tcb_test} /\ tcb_test \notin {tcb_SSI}
  BY <1>1, TcbAssumption DEF Live, UserTcb
<1>3. IsFiniteSet({tcb_SSI}) /\ Cardinality({tcb_SSI}) = 1
  BY FS_Singleton
<1> DEFINE S == {tcb_SSI}
<1>4. Live = S \cup {tcb_test} /\ tcb_test \notin S /\ IsFiniteSet(S) /\ Cardinality(S) = 1
  BY <1>2, <1>3
<1> HIDE DEF S
<1>5. Cardinality(S \cup {tcb_test}) = Cardinality(S) + 1
  BY <1>4, AddOne
<1>6. Cardinality(Live) = 2
  BY <1>4, <1>5
<1> QED
  BY <1>6 DEF Init, ThreadCountExact

\* threadCount is the number of threads alive in every state of a workload
\* that does not put a dead thread to sleep: one without WAITFORCLOCK, or
\* without the calls that kill.
THEOREM ThreadsAreCounted ==
    ASSUME "WAITFORCLOCK" \notin Calls \/ Calls \cap Deadly = {}
    PROVE  Spec => []ThreadCountExact
<1>1. CASE "WAITFORCLOCK" \notin Calls
  <2> DEFINE I == TypeOK /\ Partition /\ Requested /\ ThreadCountExact
  <2>1. Init => I
    BY InitTypes, InitPlaces, InitRequested, InitThreadCount
  <2>2. I /\ [Next]_vars => I'
    <3> SUFFICES ASSUME TypeOK, Partition, Requested, ThreadCountExact, [Next]_vars
                 PROVE  I'
      OBVIOUS
    <3>1. TypeOK' /\ Partition' /\ Requested'
      BY NextTypes, NextPlaces, NextRequested
    <3>2. ~waitForClock
      BY <1>1 DEF waitForClock, Serves, SsiAt, Requested
    <3> QED BY <3>1, <3>2, NextThreadCount
  <2>3. I => ThreadCountExact
    OBVIOUS
  <2> QED
    BY <2>1, <2>2, <2>3, PTL DEF Spec
<1>2. CASE Calls \cap Deadly = {}
  <2> DEFINE I == TypeOK /\ Partition /\ Requested /\ Deathless /\ ThreadCountExact
  <2>1. Init => I
    BY InitTypes, InitPlaces, InitRequested, InitDeathless, InitThreadCount
  <2>2. I /\ [Next]_vars => I'
    <3> SUFFICES ASSUME TypeOK, Partition, Requested, Deathless, ThreadCountExact,
                        [Next]_vars
                 PROVE  I'
      OBVIOUS
    <3>1. TypeOK' /\ Partition' /\ Requested' /\ Deathless'
      BY <1>2, NextTypes, NextPlaces, NextRequested, NextDeathless
    <3>2. waitForClock => ssi_msg.sender \notin Free
      BY DEF waitForClock, Serves, SsiAt, Deathless
    <3> QED BY <3>1, <3>2, NextThreadCount
  <2>3. I => ThreadCountExact
    OBVIOUS
  <2> QED
    BY <2>1, <2>2, <2>3, PTL DEF Spec
<1> QED
  BY <1>1, <1>2

-----------------------------------------------------------------------------
(* The threads blocked. *)

\* The sleeper wakeUpPseudoClock has not yet accounted for.
Waking == IF ssi_pc = "wakeSend" THEN 1 ELSE 0

\* What is counted of the blocked threads.
LEMMA WaitFinite ==
    ASSUME TypeOK
    PROVE  /\ IsFiniteSet(waitQueue) /\ Cardinality(waitQueue) \in 0 .. Word - 1
           /\ Len(waitForPseudoClockQueue) \in Nat /\ softBlockCount \in 0 .. Word - 1
           /\ Blocked = Cardinality(waitQueue) + Len(waitForPseudoClockQueue) + Waking
<1>1. IsFiniteSet(waitQueue) /\ Cardinality(waitQueue) \in 0 .. Word - 1
  BY PlaceTypes, ThreadsFinite
<1>2. Len(waitForPseudoClockQueue) \in Nat
  BY LenProperties DEF TypeOK, QueueTypes
<1> QED
  BY <1>1, <1>2 DEF TypeOK, CountTypes, Blocked, Waking

\* The count and the threads blocked change by the same, up to a wrap.
Together ==
    \/ softBlockCount' = softBlockCount /\ Blocked' = Blocked
    \/ softBlockCount' = Inc(softBlockCount) /\ Blocked' = Blocked + 1
    \/ softBlockCount' = Dec(softBlockCount) /\ Blocked' = Blocked - 1
    \/ softBlockCount' = Dec(Dec(softBlockCount)) /\ Blocked' = Blocked - 2

\* A step that neither blocks nor wakes anyone.
LEMMA TogetherSame ==
    ASSUME UNCHANGED <<waitQueue, waitForPseudoClockQueue, softBlockCount>>, Waking' = Waking
    PROVE  Together
  BY DEF Together, Blocked, Waking

\* A message wakes the thread it is queued for, or no one.
LEMMA TogetherWoken ==
    ASSUME TypeOK, TypeOK', NEW d, waitQueue' = waitQueue \ {d},
           softBlockCount' = SoftAfterWaking(d),
           UNCHANGED waitForPseudoClockQueue, Waking' = Waking
    PROVE  Together
<1>1. CASE d \in waitQueue
  <2>1. Cardinality(waitQueue') = Cardinality(waitQueue) - 1
    BY <1>1, WaitFinite, RemoveOne
  <2>2. Blocked' = Blocked - 1
    <3>1. Blocked' = Cardinality(waitQueue') + Len(waitForPseudoClockQueue') + Waking'
      BY DEF Blocked, Waking
    <3> QED BY <2>1, <3>1, WaitFinite DEF Waking
  <2> QED BY <1>1, <2>2 DEF Together, SoftAfterWaking
<1>2. CASE d \notin waitQueue
  <2>1. waitQueue' = waitQueue
    BY <1>2
  <2> QED BY <1>2, <2>1, TogetherSame DEF SoftAfterWaking
<1> QED
  BY <1>1, <1>2

\* The current thread blocks.
LEMMA TogetherBlocked ==
    ASSUME TypeOK, NEW t, t \notin waitQueue, waitQueue' = waitQueue \cup {t},
           softBlockCount' = Inc(softBlockCount),
           UNCHANGED waitForPseudoClockQueue, Waking' = Waking
    PROVE  Together
<1>1. Cardinality(waitQueue') = Cardinality(waitQueue) + 1
  BY WaitFinite, AddOne
<1>2. Blocked' = Cardinality(waitQueue') + Len(waitForPseudoClockQueue') + Waking'
  BY DEF Blocked, Waking
<1>3. Blocked' = Blocked + 1
  BY <1>1, <1>2, WaitFinite DEF Waking
<1> QED
  BY <1>3 DEF Together

\* The current thread blocks, and wakes another.
LEMMA TogetherPassed ==
    ASSUME TypeOK, Partition, NEW t, t \notin waitQueue, NEW d,
           waitQueue' = (waitQueue \ {d}) \cup {t},
           softBlockCount' = Inc(SoftAfterWaking(d)),
           UNCHANGED waitForPseudoClockQueue, Waking' = Waking
    PROVE  Together
<1>1. CASE d \in waitQueue
  <2> DEFINE W == waitQueue \ {d}
  <2>1. IsFiniteSet(W) /\ Cardinality(W) = Cardinality(waitQueue) - 1 /\ t \notin W
    BY <1>1, WaitFinite, RemoveOne
  <2>2. waitQueue' = W \cup {t}
    OBVIOUS
  <2> HIDE DEF W
  <2>3. Cardinality(waitQueue') = Cardinality(waitQueue)
    <3>1. Cardinality(W \cup {t}) = Cardinality(W) + 1
      BY <2>1, AddOne
    <3>2. Cardinality(waitQueue') = Cardinality(W) + 1
      BY <2>2, <3>1, Zenon
    <3>3. Cardinality(waitQueue) \in Int
      BY WaitFinite
    <3> QED BY <2>1, <3>2, <3>3
  <2>4. softBlockCount' = softBlockCount
    BY <1>1, WaitFinite, SchedulerAssumption DEF SoftAfterWaking, Inc, Dec
  <2> QED BY <2>3, <2>4 DEF Together, Blocked, Waking
<1>2. CASE d \notin waitQueue
  <2>1. waitQueue' = waitQueue \cup {t}
    BY <1>2
  <2> QED BY <1>2, <2>1, TogetherBlocked DEF SoftAfterWaking
<1> QED
  BY <1>1, <1>2

\* What makes the two part: a tick that wakes the SSI, a WAITFORCLOCK of a
\* thread that does not wait, a null pointer.
Parts ==
    \/ TimerTick /\ tcb_SSI \in waitQueue
    \/ waitForClock /\ ssi_msg.sender \notin waitQueue
    \/ power' = "faulted"

\* The steps of a user thread.
LEMMA UserStepTogether ==
    ASSUME TypeOK, TypeOK', Partition, NEW t \in UserTcb, UserStep(t)
    PROVE  Together \/ Parts
<1>0. ssi_pc' = ssi_pc /\ currentThread = t
  BY DEF UserStep, Send, SendOther, SendContinue, SendTerminate, Verdict, Makes, SendSsi,
         RecvTake, RecvBlock, RecvFrom, TrapKill, TrapFault, TrapPassUp, TrapRaised,
         UserRuns, Running, ssiVars
<1>1. Waking' = Waking
  BY <1>0 DEF Waking
<1>2. t \notin waitQueue
  BY <1>0, TcbFacts DEF Partition, Current
<1>3. ASSUME NEW d, Send(t, d) PROVE Together
  BY <1>1, <1>3, TogetherWoken DEF Send, Deliver
<1>4. ASSUME NEW d, SendOther(t, d) \/ SendTerminate(t, d) PROVE Together
  BY <1>1, <1>4, TogetherSame DEF SendOther, SendTerminate, queueVars, countVars
<1>5. ASSUME NEW d, SendContinue(t, d) PROVE Together \/ power' = "faulted"
  <2>1. startThread(d) /\ UNCHANGED waitForPseudoClockQueue
    BY <1>5 DEF SendContinue
  <2>2. CASE d \in waitQueue
    BY <1>1, <2>1, <2>2, TogetherWoken DEF startThread, SoftAfterWaking
  <2>3. CASE d \notin waitQueue
    BY <2>1, <2>3 DEF startThread
  <2> QED BY <2>2, <2>3
<1>6. ASSUME NEW service, NEW payload, SendSsi(t, service, payload) PROVE Together
  <2>1. CASE msgFree = 0
    BY <1>1, <1>6, <2>1, TogetherSame DEF SendSsi
  <2>2. CASE msgFree # 0
    BY <1>1, <1>6, <2>2, TogetherWoken DEF SendSsi, Deliver
  <2> QED BY <2>1, <2>2
<1>7. ASSUME NEW source, RecvTake(t, source) PROVE Together
  BY <1>1, <1>7, TogetherSame DEF RecvTake, queueVars, countVars
<1>8. ASSUME NEW source, RecvBlock(t, source) PROVE Together
  BY <1>1, <1>2, <1>8, TogetherBlocked DEF RecvBlock, Await, Block
<1>9. ASSUME NEW trap, TrapKill(t, trap) \/ TrapFault(t, trap) PROVE Together
  BY <1>1, <1>9, TogetherSame DEF TrapKill, TrapFault, queueVars, countVars
<1>10. ASSUME NEW trap, TrapPassUp(t, trap) PROVE Together
  BY <1>1, <1>2, <1>10, TogetherPassed DEF TrapPassUp, Block
<1> QED
  BY <1>3, <1>4, <1>5, <1>6, <1>7, <1>8, <1>9, <1>10 DEF UserStep, Parts

\* The steps of the SSI.
LEMMA SsiStepTogether ==
    ASSUME TypeOK, TypeOK', Partition, SsiStep
    PROVE  Together \/ Parts
<1>0. currentThread = tcb_SSI /\ tcb_SSI \notin waitQueue
  <2>1. currentThread = tcb_SSI
    BY DEF SsiStep, SsiReceive, SsiBlock, createSon, createBrother, ServeCreate, getCpuTime,
           waitForClock, ssiTerminate, specMgr, reply, wakeUpPseudoClock, wakeUpSend,
           Serves, SsiAt, Running
  <2> QED BY <2>1, TcbFacts DEF Partition, Current
<1>1. CASE SsiReceive \/ createSon \/ createBrother \/ getCpuTime \/ ssiTerminate
  BY <1>1, TogetherSame
  DEF SsiReceive, createSon, createBrother, ServeCreate, getCpuTime, ssiTerminate, Serves,
      SsiAt, Goes, Waking, queueVars, countVars
<1>2. CASE SsiBlock
  BY <1>0, <1>2, TogetherBlocked DEF SsiBlock, Await, Block, Waking, ssiVars
<1>3. CASE waitForClock
  <2> DEFINE s == ssi_msg.sender
             q == RemoveFirst(waitForPseudoClockQueue, s)
  <2>1. /\ waitQueue' = waitQueue \ {s} /\ waitForPseudoClockQueue' = Append(q, s)
        /\ UNCHANGED softBlockCount /\ Waking = 0 /\ Waking' = 0
    BY <1>3 DEF waitForClock, outThread, insertThread, Serves, SsiAt, Goes, Waking, countVars
  <2>2. CASE s \in waitQueue
    <3>1. q = waitForPseudoClockQueue
      <4>1. s \notin Sleeping
        BY <2>2 DEF Partition
      <4> QED BY <4>1, PlaceTypes, OutThreadLength DEF Sleeping
    <3>2. Len(waitForPseudoClockQueue') = Len(waitForPseudoClockQueue) + 1
      <4>1. waitForPseudoClockQueue \in Seq(Threads) /\ s \in Threads
        BY <2>2, PlaceTypes
      <4> HIDE DEF s
      <4> QED BY <2>1, <3>1, <4>1, AppendProperties
    <3> HIDE DEF s, q
    <3>3. Cardinality(waitQueue') = Cardinality(waitQueue) - 1
      BY <2>1, <2>2, WaitFinite, RemoveOne
    <3>4. Blocked' = Cardinality(waitQueue') + Len(waitForPseudoClockQueue') + Waking'
      BY DEF Blocked, Waking
    <3>5. Blocked' = Blocked
      BY <2>1, <3>2, <3>3, <3>4, WaitFinite
    <3> QED BY <2>1, <3>5 DEF Together
  <2> QED BY <1>3, <2>2 DEF Parts
<1>4. ASSUME NEW service \in SpecServices, specMgr(service) PROVE Together
  <2>1. UNCHANGED <<queueVars, countVars>> /\ Waking = 0 /\ Waking' = 0
    BY <1>4 DEF specMgr, Serves, SsiAt, Goes, Waking
  <2> QED BY <2>1, TogetherSame DEF queueVars, countVars
<1>5. CASE reply
  <2>1. /\ SsiSend(ssi_msg.sender, [ssi_msg EXCEPT !.m_sender = SSI_MAGIC])
        /\ UNCHANGED waitForPseudoClockQueue /\ Waking = 0 /\ Waking' = 0
    BY <1>5 DEF reply, SsiAt, Goes, Waking
  <2>2. CASE msgFree = 0
    BY <2>1, <2>2, TogetherSame DEF SsiSend
  <2>3. CASE msgFree # 0
    BY <2>1, <2>3, TogetherWoken DEF SsiSend, Deliver
  <2> QED BY <2>2, <2>3
<1>6. CASE wakeUpPseudoClock
  <2>1. UNCHANGED <<waitQueue, softBlockCount>> /\ Waking = 0
    BY <1>6 DEF wakeUpPseudoClock, SsiAt, Waking, countVars
  <2>2. CASE waitForPseudoClockQueue = <<>>
    <3>1. UNCHANGED waitForPseudoClockQueue /\ Waking' = 0
      BY <1>6, <2>2 DEF wakeUpPseudoClock, Goes, Waking
    <3> QED BY <2>1, <3>1, TogetherSame
  <2>3. CASE waitForPseudoClockQueue # <<>>
    <3>1. waitForPseudoClockQueue' = Tail(waitForPseudoClockQueue) /\ Waking' = 1
      BY <1>6, <2>3 DEF wakeUpPseudoClock, Goes, Waking
    <3>2. Len(waitForPseudoClockQueue') = Len(waitForPseudoClockQueue) - 1
      BY <2>3, <3>1, HeadTailProperties DEF TypeOK, QueueTypes
    <3>3. Blocked' = Cardinality(waitQueue') + Len(waitForPseudoClockQueue') + Waking'
      BY DEF Blocked, Waking
    <3>4. Blocked' = Blocked
      BY <2>1, <3>1, <3>2, <3>3, WaitFinite
    <3> QED BY <2>1, <3>4 DEF Together
  <2> QED BY <2>2, <2>3
<1>7. CASE wakeUpSend
  <2>1. UNCHANGED waitForPseudoClockQueue /\ Waking = 1 /\ Waking' = 0
    BY <1>7 DEF wakeUpSend, SsiAt, Goes, Waking
  <2>2. Blocked' = Cardinality(waitQueue') + Len(waitForPseudoClockQueue') + Waking'
    BY DEF Blocked, Waking
  <2>3. CASE msgFree > 0 /\ ssi_temp \in waitQueue
    <3>1. waitQueue' = waitQueue \ {ssi_temp} /\ softBlockCount' = Dec(Dec(softBlockCount))
      BY <1>7, <2>3 DEF wakeUpSend
    <3>2. Cardinality(waitQueue') = Cardinality(waitQueue) - 1
      BY <2>3, <3>1, WaitFinite, RemoveOne
    <3>3. Blocked' = Blocked - 2
      BY <2>1, <2>2, <3>2, WaitFinite
    <3> QED BY <3>1, <3>3 DEF Together
  <2>4. CASE ~(msgFree > 0 /\ ssi_temp \in waitQueue)
    <3>1. waitQueue' = waitQueue /\ softBlockCount' = Dec(softBlockCount)
      BY <1>7, <2>4 DEF wakeUpSend
    <3>2. Blocked' = Blocked - 1
      BY <2>1, <2>2, <3>1, WaitFinite
    <3> QED BY <3>1, <3>2 DEF Together
  <2> QED BY <2>3, <2>4
<1> QED
  BY <1>1, <1>2, <1>3, <1>4, <1>5, <1>6, <1>7 DEF SsiStep

\* A thread that dies blocked is no longer counted as blocked.
LEMMA KillTogether ==
    ASSUME TypeOK, TypeOK', Partition, NEW k \in UserTcb, killThread(k)
    PROVE  Together
<1> DEFINE wait == k # currentThread /\ k \in waitQueue
           clock == k # currentThread /\ ~wait /\ Contains(waitForPseudoClockQueue, k)
<1>1. /\ waitQueue' = IF wait THEN waitQueue \ {k} ELSE waitQueue
      /\ waitForPseudoClockQueue' = IF clock THEN outThread(waitForPseudoClockQueue, k)
                                    ELSE waitForPseudoClockQueue
      /\ softBlockCount' = IF wait \/ clock THEN Dec(softBlockCount) ELSE softBlockCount
      /\ UNCHANGED ssi_pc
  BY Zenon DEF killThread, ssiVars
<1>2. Waking' = Waking
  BY <1>1 DEF Waking
<1>3. CASE wait
  BY <1>1, <1>2, <1>3, TogetherWoken DEF SoftAfterWaking
<1>4. CASE clock
  <2>1. k \in Sleeping
    BY <1>4 DEF Contains, Sleeping, ToSet
  <2>2. Len(waitForPseudoClockQueue') = Len(waitForPseudoClockQueue) - 1
    BY <1>1, <1>4, <2>1, PlaceTypes, OutThreadLength DEF Sleeping, outThread
  <2>3. waitQueue' = waitQueue /\ softBlockCount' = Dec(softBlockCount)
    BY <1>1, <1>4
  <2>4. Blocked' = Cardinality(waitQueue') + Len(waitForPseudoClockQueue') + Waking'
    BY DEF Blocked, Waking
  <2>5. Blocked' = Blocked - 1
    BY <1>2, <2>2, <2>3, <2>4, WaitFinite DEF Waking
  <2> QED BY <2>3, <2>5 DEF Together
<1>5. CASE ~wait /\ ~clock
  BY <1>1, <1>2, <1>5, TogetherSame
<1> QED
  BY <1>3, <1>4, <1>5

\* The count and the threads blocked move together in every other step.
LEMMA NextTogether ==
    ASSUME TypeOK, TypeOK', Partition, [Next]_vars
    PROVE  Together \/ Parts
<1>1. ASSUME NEW t \in UserTcb, UserStep(t) PROVE Together \/ Parts
  BY <1>1, UserStepTogether
<1>2. CASE SsiStep
  BY <1>2, SsiStepTogether
<1>3. ASSUME NEW k \in UserTcb,
             killChild(k) \/ killThread(k) \/ killCorrupt(k) \/ killPanic(k)
      PROVE Together
  BY <1>3, KillTogether, TogetherSame
  DEF killChild, killCorrupt, killPanic, queueVars, countVars, ssiVars, Waking
<1>4. CASE TimerSlice \/ TimerFault
  BY <1>4, TogetherSame DEF TimerSlice, TimerFault, queueVars, countVars, ssiVars, Waking
<1>5. CASE TimerTick
  <2>1. CASE tcb_SSI \in waitQueue
    BY <1>5, <2>1 DEF Parts
  <2>2. CASE tcb_SSI \notin waitQueue
    <3>1. waitQueue' = waitQueue
      BY <1>5, <2>2 DEF TimerTick, fakeSend
    <3> QED BY <1>5, <3>1, TogetherSame DEF TimerTick, countVars, ssiVars, Waking
  <2> QED BY <2>1, <2>2
<1>6. CASE UNCHANGED vars
  BY <1>6, TogetherSame DEF vars, queueVars, countVars, ssiVars, Waking
<1> QED
  BY <1>1, <1>2, <1>3, <1>4, <1>5, <1>6 DEF Next, KillStep, PowerOff

\* Counting a word further comes to the same.
LEMMA WordWraps == ASSUME NEW x \in Int PROVE (x + Word) % Word = x % Word
<1> DEFINE q == x \div Word
           r == x % Word
<1>1. Word \in Nat /\ Word > 0
  BY SchedulerAssumption
<1>2. q \in Int /\ r \in 0 .. Word - 1 /\ x = q * Word + r
  BY <1>1
<1> HIDE DEF q, r
<1>3. \A p \in Int : (p * Word + r) % Word = r
  BY <1>1, <1>2
<1>4. x + Word = (q + 1) * Word + r
  BY <1>1, <1>2
<1>5. q + 1 \in Int
  BY <1>2
<1> QED
  BY <1>2, <1>3, <1>4, <1>5

\* What moves together stays congruent.
LEMMA TogetherCongruent ==
    ASSUME TypeOK, TypeOK', Together
    PROVE  (softBlockCount' + Blocked) % Word = (softBlockCount + Blocked') % Word
<1> DEFINE a == softBlockCount' + Blocked
           b == softBlockCount + Blocked'
<1>1. /\ Word \in Nat /\ Word > 2 /\ softBlockCount \in 0 .. Word - 1
      /\ Blocked \in Int
  BY WaitFinite, SchedulerAssumption DEF Waking
<1>2. a \in Int /\ b \in Int /\ (a = b \/ a = b + Word \/ b = a + Word)
  BY <1>1 DEF Together, Inc, Dec
<1> HIDE DEF a, b
<1>3. a % Word = b % Word
  BY <1>2, WordWraps
<1> QED
  BY <1>3 DEF a, b

\* softBlockCount and the number of blocked threads part in the three ways
\* of SoftBlockDrift only, whatever the programs do.
THEOREM SoftBlocksDriftOnly == Spec => SoftBlockDrift
<1>1. TypeOK /\ Partition /\ TypeOK' /\ [Next]_vars
         => [\/ (softBlockCount' + Blocked) % Word = (softBlockCount + Blocked') % Word
             \/ TimerTick /\ tcb_SSI \in waitQueue
             \/ waitForClock /\ ssi_msg.sender \notin waitQueue
             \/ power' = "faulted"]_vars
  BY NextTogether, TogetherCongruent DEF Parts
<1>2. Init => TypeOK /\ Partition
  BY InitTypes, InitPlaces
<1>3. TypeOK /\ Partition /\ [Next]_vars => (TypeOK /\ Partition)'
  BY NextTypes, NextPlaces
<1> QED
  BY <1>1, <1>2, <1>3, PTL DEF Spec, SoftBlockDrift

-----------------------------------------------------------------------------
(* Workloads in which no thread sleeps. *)

\* The pseudo clock queue is empty, and the SSI wakes no one.
Sleepless == waitForPseudoClockQueue = <<>> /\ ssi_pc # "wakeSend"

\* Without WAITFORCLOCK it stays so.
LEMMA NextSleepless ==
    ASSUME "WAITFORCLOCK" \notin Calls, TypeOK, Requested, Sleepless, [Next]_vars
    PROVE  Sleepless' /\ ~waitForClock /\ ~TimerTick
<1>1. ~waitForClock
  BY DEF waitForClock, Serves, SsiAt, Requested
<1>2. ~TimerTick
  BY DEF TimerTick, MayTick, Sleepless
<1> SUFFICES Sleepless'
  BY <1>1, <1>2
<1>3. ASSUME NEW t \in UserTcb, UserStep(t) PROVE Sleepless'
  BY <1>3 DEF UserStep, Send, SendOther, SendContinue, SendTerminate, SendSsi, RecvTake,
              RecvBlock, TrapKill, TrapFault, TrapPassUp, queueVars, ssiVars, Sleepless
<1>4. CASE SsiStep
  <2>1. ASSUME NEW service, NEW p, NEW parent, ServeCreate(service, p, parent)
        PROVE Sleepless'
    BY <2>1 DEF ServeCreate, Goes, Sleepless
  <2>2. ASSUME NEW service, specMgr(service) PROVE Sleepless'
    BY <2>2 DEF specMgr, Goes, queueVars, Sleepless
  <2>3. ASSUME SsiReceive \/ SsiBlock \/ getCpuTime \/ ssiTerminate \/ reply
        PROVE  Sleepless'
    <3>1. UNCHANGED waitForPseudoClockQueue /\ (ssi_pc' = ssi_pc \/ ssi_pc' # "wakeSend")
      BY <2>3 DEF SsiReceive, SsiBlock, getCpuTime, ssiTerminate, reply, Goes, queueVars,
                  ssiVars
    <3> QED BY <3>1 DEF Sleepless
  <2>4. CASE wakeUpPseudoClock
    BY <2>4 DEF wakeUpPseudoClock, Goes, Sleepless
  <2>5. ~wakeUpSend
    BY DEF wakeUpSend, SsiAt, Sleepless
  <2> QED
    BY <1>1, <1>4, <2>1, <2>2, <2>3, <2>4, <2>5 DEF SsiStep, createSon, createBrother
<1>5. ASSUME NEW k \in UserTcb,
             killChild(k) \/ killThread(k) \/ killCorrupt(k) \/ killPanic(k)
      PROVE Sleepless'
  <2>1. CASE killThread(k)
    <3>1. ssi_pc' = ssi_pc /\ (~Contains(waitForPseudoClockQueue, k)
              => waitForPseudoClockQueue' = waitForPseudoClockQueue)
      BY <2>1, Zenon DEF killThread, ssiVars
    <3>2. ~Contains(waitForPseudoClockQueue, k)
      BY DEF Sleepless, Contains
    <3> QED BY <3>1, <3>2 DEF Sleepless
  <2>2. CASE killChild(k) \/ killCorrupt(k) \/ killPanic(k)
    BY <2>2 DEF killChild, killCorrupt, killPanic, queueVars, ssiVars, Sleepless
  <2> QED BY <1>5, <2>1, <2>2
<1>6. CASE TimerSlice \/ TimerFault
  <2>1. UNCHANGED <<waitForPseudoClockQueue, ssi_pc>>
    BY <1>6 DEF TimerSlice, TimerFault, queueVars, ssiVars
  <2> QED BY <2>1 DEF Sleepless
<1>7. CASE UNCHANGED vars
  <2>1. UNCHANGED <<waitForPseudoClockQueue, ssi_pc>>
    BY <1>7 DEF vars, queueVars, ssiVars
  <2> QED BY <2>1 DEF Sleepless
<1> QED
  BY <1>1, <1>2, <1>3, <1>4, <1>5, <1>6, <1>7 DEF Next, KillStep, PowerOff

\* Without sleepers softBlockCount is the number of threads that wait, for
\* ever, so that schedule() panics exactly when no thread can be woken.
THEOREM BlockedThreadsAreCounted ==
    ASSUME "WAITFORCLOCK" \notin Calls
    PROVE  Spec => []SoftBlockExact
<1> DEFINE I == TypeOK /\ Partition /\ Requested /\ Sleepless /\ SoftBlockExact
<1>1. Init => I
  <2> SUFFICES ASSUME Init PROVE Sleepless /\ SoftBlockExact
    BY InitTypes, InitPlaces, InitRequested
  <2>1. /\ waitQueue = {} /\ waitForPseudoClockQueue = <<>> /\ ssi_pc = "recv"
        /\ softBlockCount = 0
    BY DEF Init
  <2>2. Cardinality(waitQueue) = 0 /\ Len(waitForPseudoClockQueue) = 0
    BY <2>1, FS_EmptySet
  <2> QED BY <2>1, <2>2 DEF Sleepless, SoftBlockExact, Blocked
<1>2. I /\ [Next]_vars => I'
  <2> SUFFICES ASSUME TypeOK, Partition, Requested, Sleepless, SoftBlockExact, [Next]_vars
               PROVE  I'
    OBVIOUS
  <2>1. TypeOK' /\ Partition' /\ Requested'
    BY NextTypes, NextPlaces, NextRequested
  <2>2. Sleepless' /\ ~waitForClock /\ ~TimerTick
    BY NextSleepless
  <2>3. Together \/ power' = "faulted"
    BY <2>1, <2>2, NextTogether DEF Parts
  <2>4. Blocked \in 0 .. Word - 1 /\ Blocked' \in 0 .. Word - 1
    <3>1. waitQueue \subseteq Threads /\ waitQueue' \subseteq Threads
      BY <2>1 DEF TypeOK, QueueTypes, Threads
    <3>2. Blocked = Cardinality(waitQueue) + 0 + 0
      BY DEF Blocked, Sleepless
    <3>3. Blocked' = Cardinality(waitQueue') + 0 + 0
      BY <2>2 DEF Blocked, Sleepless
    <3> QED BY <3>1, <3>2, <3>3, ThreadsFinite
  <2>5. CASE power = "faulted"
    <3>1. power' = "faulted"
      BY <2>5, OffLasts DEF vars
    <3> QED BY <2>1, <2>2, <3>1 DEF SoftBlockExact
  <2>6. CASE power # "faulted"
    <3>1. Together => softBlockCount' = Blocked'
      BY <2>4, <2>6, SchedulerAssumption DEF SoftBlockExact, Together, Inc, Dec
    <3> QED BY <2>1, <2>2, <2>3, <3>1 DEF SoftBlockExact
  <2> QED BY <2>5, <2>6
<1>3. I => SoftBlockExact
  OBVIOUS
<1> QED
  BY <1>1, <1>2, <1>3, PTL DEF Spec

-----------------------------------------------------------------------------
(* The process tree: its links agree with each other, over any order of     *)
(* creations and terminations.                                             *)

\* The links agree; a TCB in the free list is nobody's child, although
\* createBrother may have named tcb_init as the parent of a dead sender.
Linked ==
    /\ \A p \in Tcb : IsInjective(t_child[p])
    /\ \A p, c \in Tcb : c \in ToSet(t_child[p]) => t_parent[c] = p
    /\ \A p, c \in Tcb : t_parent[c] = p /\ p # tcb_init => c \in ToSet(t_child[p])
    /\ \A t \in Free : t_parent[t] \in {NULL, tcb_init}
    /\ \A t \in Free, p \in Tcb : t \notin ToSet(t_child[p])

\* Inductive: the model stops where the sibling links are corrupted.
TreeInv == power # "corrupt" => Linked

\* It says more than the property.
LEMMA LinkedIsConsistent == TreeInv => TreeConsistent
  BY DEF TreeInv, Linked, TreeConsistent, Contains, ToSet

\* A step that frees no TCB and leaves the tree alone.
LEMMA LinkedSame ==
    ASSUME Linked, UNCHANGED <<t_parent, t_child>>, Free' \subseteq Free
    PROVE  Linked'
  BY DEF Linked

\* What the types say of the tree.
LEMMA TreeFacts ==
    ASSUME TypeOK
    PROVE  /\ t_parent \in [Tcb -> UserTcb \cup {tcb_init, NULL}]
           /\ t_child \in [Tcb -> Seq(UserTcb)]
           /\ Free \subseteq Tcb
  BY PlaceTypes, TcbFacts DEF TypeOK, TreeTypes

\* A new child of p, taken from the free list, goes to the head of the list
\* of its siblings; s may be adopted by tcb_init.
LEMMA CreateLinked ==
    ASSUME TypeOK, Partition, Linked, NEW s \in UserTcb, NEW p \in UserTcb \cup {tcb_init},
           NEW parent, Create(p, parent),
           \/ parent = t_parent
           \/ t_parent[s] = NULL /\ p = tcb_init /\ parent = [t_parent EXCEPT ![s] = p]
    PROVE  Linked' \/ power' = "corrupt"
<1> USE TcbFacts
<1>1. CASE tcbFree = <<>>
  BY <1>1, LinkedSame DEF Create, treeVars, Free
<1>2. CASE tcbFree # <<>> /\ t_child[Head(tcbFree)] # <<>>
  BY <1>2 DEF Create
<1>3. CASE tcbFree # <<>> /\ t_child[Head(tcbFree)] = <<>>
  <2> DEFINE new == Head(tcbFree)
  <2>1. /\ tcbFree' = Tail(tcbFree)
        /\ t_parent' = [parent EXCEPT ![new] = p]
        /\ t_child' = [[t_child EXCEPT ![new] = <<>>] EXCEPT ![p] = <<new>> \o @]
    BY <1>3 DEF Create, insertChild
  <2>2. new \in UserTcb /\ new \in Free /\ Free' = Free \ {new} /\ Free \subseteq Tcb
    BY <1>3, <2>1, PlaceTypes, HeadTailPlaces DEF Partition, Free, TypeOK, QueueTypes
  <2>3. t_child[new] = <<>>
    BY <1>3
  <2> HIDE DEF new
  <2>4. p \in Tcb /\ new \in Tcb /\ t_child \in [Tcb -> Seq(UserTcb)]
    BY <2>2, TreeFacts
  <2>5. t_child' = [t_child EXCEPT ![p] = <<new>> \o @]
    BY <2>1, <2>3, <2>4
  <2>6. /\ IsInjective(t_child'[p]) /\ ToSet(t_child'[p]) = ToSet(t_child[p]) \cup {new}
        /\ \A q \in Tcb \ {p} : t_child'[q] = t_child[q]
    <3>1. IsInjective(t_child[p]) /\ new \notin ToSet(t_child[p])
      BY <2>2, <2>4 DEF Linked
    <3> QED BY <2>2, <2>4, <2>5, <3>1, PushPlaces
  <2>7. /\ t_parent'[new] = p
        /\ \A c \in Tcb \ {new} : \/ t_parent'[c] = t_parent[c]
                                  \/ t_parent[c] = NULL /\ t_parent'[c] = tcb_init
    BY <2>1, <2>4, TreeFacts
  <2>8. ASSUME NEW q \in Tcb, NEW c \in Tcb, c \in ToSet(t_child'[q])
        PROVE  t_parent'[c] = q
    <3>1. CASE c = new
      BY <2>2, <2>4, <2>6, <2>7, <2>8, <3>1 DEF Linked
    <3>2. CASE c # new
      <4>1. t_parent[c] = q
        BY <2>6, <2>8, <3>2 DEF Linked
      <4> QED BY <2>7, <3>2, <4>1
    <3> QED BY <3>1, <3>2
  <2>9. ASSUME NEW q \in Tcb, NEW c \in Tcb, t_parent'[c] = q, q # tcb_init
        PROVE  c \in ToSet(t_child'[q])
    <3>1. CASE c = new
      BY <2>4, <2>6, <2>7, <2>9, <3>1
    <3>2. CASE c # new
      <4>1. t_parent[c] = q
        BY <2>7, <2>9, <3>2
      <4> QED BY <2>6, <2>9, <4>1 DEF Linked
    <3> QED BY <3>1, <3>2
  <2>10. \A t \in Free' : t_parent'[t] \in {NULL, tcb_init}
    BY <2>2, <2>7 DEF Linked
  <2>11. \A t \in Free', q \in Tcb : t \notin ToSet(t_child'[q])
    BY <2>2, <2>6 DEF Linked
  <2>12. \A q \in Tcb : IsInjective(t_child'[q])
    BY <2>6 DEF Linked
  <2> QED BY <2>8, <2>9, <2>10, <2>11, <2>12 DEF Linked
<1> QED
  BY <1>1, <1>2, <1>3

\* The steps of the SSI.
LEMMA SsiStepLinked ==
    ASSUME TypeOK, Partition, Linked, SsiStep
    PROVE  Linked' \/ power' = "corrupt"
<1> USE TcbFacts
<1> DEFINE s == ssi_msg.sender
<1>1. CASE createSon
  <2>1. Create(s, t_parent) /\ ssi_pc = "serve"
    BY <1>1 DEF createSon, ServeCreate, Serves, SsiAt
  <2>2. s \in UserTcb
    BY <2>1, ServedRequest
  <2> HIDE DEF s
  <2> QED BY <2>1, <2>2, CreateLinked
<1>2. CASE createBrother
  <2> DEFINE p == IF t_parent[s] = NULL THEN tcb_init ELSE t_parent[s]
             parent == [t_parent EXCEPT ![s] = p]
  <2>1. Create(p, parent) /\ ssi_pc = "serve"
    BY <1>2 DEF createBrother, ServeCreate, Serves, SsiAt
  <2>2. s \in UserTcb
    BY <2>1, ServedRequest
  <2>3. /\ p \in UserTcb \cup {tcb_init}
        /\ \/ parent = t_parent
           \/ t_parent[s] = NULL /\ p = tcb_init
    <3> HIDE DEF s
    <3> QED BY <2>2, TreeFacts
  <2>4. parent = [t_parent EXCEPT ![s] = p]
    OBVIOUS
  <2> HIDE DEF s, p, parent
  <2> QED BY <2>1, <2>2, <2>3, <2>4, CreateLinked
<1>3. CASE waitForClock
  <2>1. tcbFree' = RemoveFirst(tcbFree, s) /\ UNCHANGED <<t_parent, t_child>>
    BY <1>3 DEF waitForClock, outThread
  <2>2. Free' \subseteq Free
    BY <2>1, PlaceTypes, OutThreadPlaces DEF Partition, Free
  <2> QED BY <2>1, <2>2, LinkedSame
<1>4. CASE ~(createSon \/ createBrother \/ waitForClock)
  <2>1. UNCHANGED <<t_parent, t_child, tcbFree>>
    BY <1>4 DEF SsiStep, SsiReceive, SsiBlock, getCpuTime, ssiTerminate, specMgr, reply,
                wakeUpPseudoClock, wakeUpSend, treeVars
  <2> QED BY <2>1, LinkedSame DEF Free
<1> QED
  BY <1>1, <1>2, <1>3, <1>4

\* A step that detaches c from its parent, and may free it.
LEMMA DetachLinked ==
    ASSUME Linked, NEW c \in Tcb, Free \subseteq Tcb, Free' \subseteq Free \cup {c},
           t_parent'[c] = NULL, \A d \in Tcb \ {c} : t_parent'[d] = t_parent[d],
           \A p \in Tcb : /\ IsInjective(t_child'[p])
                         /\ ToSet(t_child'[p]) = ToSet(t_child[p]) \ {c}
    PROVE  Linked'
<1>1. ASSUME NEW p \in Tcb, NEW d \in Tcb, d \in ToSet(t_child'[p])
      PROVE  t_parent'[d] = p
  BY <1>1 DEF Linked
<1>2. ASSUME NEW p \in Tcb, NEW d \in Tcb, t_parent'[d] = p, p # tcb_init
      PROVE  d \in ToSet(t_child'[p])
  BY <1>2, TcbFacts DEF Linked
<1>3. ASSUME NEW t \in Free'
      PROVE  /\ t_parent'[t] \in {NULL, tcb_init}
             /\ \A p \in Tcb : t \notin ToSet(t_child'[p])
  BY <1>3 DEF Linked
<1> QED
  BY <1>1, <1>2, <1>3 DEF Linked

\* terminate() detaches the first child of k.
LEMMA KillChildLinked ==
    ASSUME TypeOK, Linked, NEW k \in UserTcb, killChild(k)
    PROVE  Linked'
<1> USE TcbFacts
<1> DEFINE c == Head(t_child[k])
           q == t_child[k]
<1>1. /\ q # <<>> /\ UNCHANGED tcbFree
      /\ t_child' = [t_child EXCEPT ![k] = Tail(@)]
      /\ t_parent' = [t_parent EXCEPT ![c] = NULL]
  BY DEF killChild
<1>2. k \in Tcb /\ q \in Seq(UserTcb) /\ IsInjective(q) /\ Free' = Free
  BY <1>1, TreeFacts DEF Linked, Free
<1>3. /\ c \in UserTcb /\ c \in ToSet(q) /\ IsInjective(Tail(q))
      /\ ToSet(Tail(q)) = ToSet(q) \ {c}
  BY <1>1, <1>2, HeadTailPlaces
<1>4. /\ t_child'[k] = Tail(q) /\ \A p \in Tcb \ {k} : t_child'[p] = t_child[p]
      /\ t_parent'[c] = NULL /\ \A d \in Tcb \ {c} : t_parent'[d] = t_parent[d]
      /\ t_parent[c] = k
  <2> HIDE DEF c
  <2> QED BY <1>1, <1>2, <1>3, TreeFacts DEF Linked
<1> HIDE DEF c
<1>5. \A p \in Tcb : IsInjective(t_child'[p]) /\ ToSet(t_child'[p]) = ToSet(t_child[p]) \ {c}
  <2>1. \A p \in Tcb \ {k} : c \notin ToSet(t_child[p])
    BY <1>3, <1>4 DEF Linked
  <2> QED BY <1>3, <1>4, <2>1 DEF Linked
<1> QED
  BY <1>2, <1>3, <1>4, <1>5, TreeFacts, DetachLinked

\* A thread that dies is taken from the list of its parent, and freed.
LEMMA KillThreadLinked ==
    ASSUME TypeOK, Partition, Linked, NEW k \in UserTcb, killThread(k)
    PROVE  Linked'
<1> USE TcbFacts
<1> DEFINE p == t_parent[k]
<1>1. /\ k = currentThread \/ InSomeQueue(k)
      /\ tcbFree' = <<k>> \o tcbFree
      /\ t_child' = outChild(t_child, t_parent, k)
      /\ t_parent' = [t_parent EXCEPT ![k] = NULL]
  BY Zenon DEF killThread, release
<1>2. \A q : Contains(q, k) <=> k \in ToSet(q)
  BY DEF Contains, ToSet
<1>3. k \notin Free
  BY <1>1, <1>2 DEF InSomeQueue, Partition, Sleeping, Ready, Current
<1>4. Free' = Free \cup {k} /\ k \in Tcb
  BY <1>1, <1>3, PlaceTypes, PushPlaces DEF Partition, Free, Threads
<1>5. \A q \in Tcb : IsInjective(t_child'[q]) /\ ToSet(t_child'[q]) = ToSet(t_child[q]) \ {k}
  <2>1. \A q \in Tcb : q # p => k \notin ToSet(t_child[q])
    BY <1>4 DEF Linked
  <2>2. CASE p = NULL
    BY <1>1, <2>1, <2>2 DEF outChild, Linked
  <2>3. CASE p # NULL
    <3>1. p \in Tcb /\ t_child[p] \in Seq(UserTcb) /\ IsInjective(t_child[p])
      BY <1>4, <2>3, TreeFacts DEF Linked
    <3>2. t_child' = [t_child EXCEPT ![p] = RemoveFirst(@, k)]
      BY <1>1, <2>3 DEF outChild
    <3> HIDE DEF p
    <3>3. /\ t_child'[p] = RemoveFirst(t_child[p], k)
          /\ \A q \in Tcb \ {p} : t_child'[q] = t_child[q]
      BY <3>1, <3>2, TreeFacts
    <3> QED BY <2>1, <3>1, <3>3, OutThreadPlaces DEF Linked
  <2> QED BY <2>2, <2>3
<1>6. t_parent'[k] = NULL /\ \A c \in Tcb \ {k} : t_parent'[c] = t_parent[c]
  BY <1>1, <1>4, TreeFacts
<1> QED
  BY <1>4, <1>5, <1>6, TreeFacts, DetachLinked

\* No step makes the links disagree.
LEMMA NextLinked == TypeOK /\ Partition /\ TreeInv /\ [Next]_vars => TreeInv'
<1> SUFFICES ASSUME TypeOK, Partition, TreeInv, [Next]_vars PROVE TreeInv'
  OBVIOUS
<1>1. CASE power # "on"
  <2>1. UNCHANGED <<power, t_parent, t_child, tcbFree>>
    BY <1>1, OffLasts DEF vars, treeVars
  <2> QED BY <2>1, LinkedSame DEF TreeInv, Free
<1>2. CASE power = "on"
  <2>0. Linked
    BY <1>2 DEF TreeInv
  <2> SUFFICES Linked' \/ power' = "corrupt"
    BY DEF TreeInv
  <2>1. ASSUME NEW t \in UserTcb, UserStep(t) PROVE Linked'
    <3>1. UNCHANGED <<t_parent, t_child, tcbFree>>
      BY <2>1 DEF UserStep, Send, SendOther, SendContinue, SendTerminate, SendSsi, RecvTake,
                  RecvBlock, TrapKill, TrapFault, TrapPassUp, treeVars
    <3> QED BY <2>0, <3>1, LinkedSame DEF Free
  <2>2. CASE SsiStep
    BY <2>0, <2>2, SsiStepLinked
  <2>3. ASSUME NEW k \in UserTcb, killChild(k) \/ killThread(k) PROVE Linked'
    BY <2>0, <2>3, KillChildLinked, KillThreadLinked
  <2>4. ASSUME NEW k \in UserTcb, killCorrupt(k) \/ killPanic(k) PROVE Linked'
    BY <2>0, <2>4, LinkedSame DEF killCorrupt, killPanic, treeVars, Free
  <2>5. CASE TimerSlice \/ TimerTick \/ TimerFault
    BY <2>0, <2>5, LinkedSame DEF TimerSlice, TimerTick, TimerFault, treeVars, Free
  <2>6. CASE UNCHANGED vars
    BY <2>0, <2>6, LinkedSame DEF vars, treeVars, Free
  <2> QED
    BY <2>1, <2>2, <2>3, <2>4, <2>5, <2>6 DEF Next, KillStep, PowerOff
<1> QED
  BY <1>1, <1>2

\* The children of a thread are listed once, name it as their parent, and no
\* others do, until a TCB is allocated with children or freed unlinked, which
\* is where the model stops.
THEOREM TreeStaysConsistent == Spec => []TreeConsistent
<1> DEFINE I == TypeOK /\ Partition /\ TreeInv
<1>1. Init => I
  <2>1. ASSUME Init PROVE Linked
    <3>1. /\ \A t \in Tcb : t_parent[t] = NULL /\ t_child[t] = <<>>
          /\ Free \subseteq Tcb
      BY <2>1, TcbAssumption DEF Init, Free
    <3>2. ToSet(<<>>) = {} /\ IsInjective(<<>>)
      BY DEF ToSet, IsInjective
    <3> QED BY <3>1, <3>2, TcbFacts DEF Linked
  <2> QED BY <2>1, InitTypes, InitPlaces DEF TreeInv
<1>2. I /\ [Next]_vars => I'
  BY NextTypes, NextPlaces, NextLinked
<1>3. I => TreeConsistent
  BY LinkedIsConsistent
<1> QED
  BY <1>1, <1>2, <1>3, PTL DEF Spec

=============================================================================
