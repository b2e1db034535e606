--------------------------- MODULE MsgListProofs ----------------------------
(***************************************************************************)
(* The lists of msg.c implement the pool and the queues of MsgQueues, step *)
(* by step, for any table of messages and any number of threads, and only  *)
(* the interrupt in the freeMsg() of the SSI damages them.                 *)
(***************************************************************************)
EXTENDS MsgLists, ListProofs, TLAPS

-----------------------------------------------------------------------------
(* Links that are the lists of the heads. *)

\* l links the messages of w[h] at each head h, and no message twice.
Lists(l, w) == ListsOf(Heads, Message, l, w)

\* x is in none of these lists.
Loose(w, x) == LooseOf(Heads, Message, w, x)

\* Messages and heads are different nodes.
LEMMA NodeFacts ==
    /\ Message \subseteq Node /\ Heads \subseteq Node /\ Message \cap Heads = {}
    /\ NIL \notin Node /\ tcb_SSI \in Inbox /\ Inbox \subseteq Heads /\ msgFree_h \in Heads
    /\ msgFree_h \notin Inbox
  BY MsgListsAssumption, NodeAssumption DEF Message, Heads

\* The same in the words of ListProofs.
LEMMA KindsOfLists == Kinds(Heads, Message)
  BY NodeFacts DEF Kinds

\* A list of messages is a list of nodes.
LEMMA ListNodes ==
    ASSUME NEW l, NEW w, Lists(l, w), NEW h \in Heads
    PROVE  /\ w[h] \in Seq(Node) /\ h \in Node /\ ToSet(w[h]) \subseteq Message
           /\ IsInjective(w[h]) /\ h \notin ToSet(w[h]) /\ Len(w[h]) \in Nat
           /\ \A i \in 1 .. Len(w[h]) : w[h][i] \in ToSet(w[h])
  BY KindsOfLists, ListsNodes DEF Lists

\* A list of w other than that of h is not at the nodes of h's list.
LEMMA OtherList ==
    ASSUME NEW l, NEW w, Lists(l, w), NEW h \in Heads, NEW g \in Heads, g # h
    PROVE  (ToSet(w[g]) \cup {g}) \cap (ToSet(w[h]) \cup {h}) = {}
  BY KindsOfLists, ListsApart DEF Lists

\* Unlinking a message takes it out of its list, and leaves the others.
LEMMA UnlinkLists ==
    ASSUME NEW l, NEW w, Lists(l, w), NEW h \in Heads, NEW i \in 1 .. Len(w[h])
    PROVE  LET x == w[h][i]
               v == [w EXCEPT ![h] = RemoveAt(@, i)]
           IN Lists(list_del(l, x), v) /\ Loose(v, x)
  BY KindsOfLists, ListsUnlink DEF Lists, Loose

\* Links of a loose message are in no list.
LEMMA InitLists ==
    ASSUME NEW l, NEW w, Lists(l, w), NEW x, Loose(w, x)
    PROVE  Lists(INIT_LIST_HEAD(l, x), w)
  BY KindsOfLists, ListsInit DEF Lists, Loose

\* list_add_tail and list_add, of a loose message.
LEMMA AddLists ==
    ASSUME NEW l, NEW w, Lists(l, w), NEW x, Loose(w, x), NEW h \in Heads
    PROVE  /\ Lists(list_add_tail(l, x, h), [w EXCEPT ![h] = Append(@, x)])
           /\ Lists(list_add(l, x, h), [w EXCEPT ![h] = <<x>> \o @])
  BY KindsOfLists, ListsAdd DEF Lists, Loose

\* What a walk from a head meets.
LEMMA ListsWalk ==
    ASSUME NEW l, NEW w, Lists(l, w), NEW h \in Heads
    PROVE  Walk(l, h) = w[h] /\ Returns(l, h)
  BY KindsOfLists, ListsWalked DEF Lists

\* What Intact asks of the links when freeMsg() has ended, by the lists and not
\* by the walks.
Sound(l) == SoundOf(Heads, Message, l)

\* The lists are those that are walked.
LEMMA SoundLists ==
    ASSUME NEW l \in Links PROVE Sound(l) <=> \E w : Lists(l, w)
  BY KindsOfLists, ListsSound DEF Sound, Lists

-----------------------------------------------------------------------------
(* What initMsg() makes. *)

\* The fold of initMsg(): its recursion has a solution.
LEMMA FoldRecursion ==
    ASSUME NEW n \in Nat, msgTable \in Seq(Node), Len(msgTable) = n
    PROVE  \E f :
              /\ initMsg = f[1 .. n]
              /\ \A t \in SUBSET (1 .. n) :
                    f[t] = IF t = {} THEN Initialised
                           ELSE freeMsg(f[t \ {Max(t)}], msgTable[Max(t)])
<1> DEFINE step(f, t) == IF t = {} THEN Initialised
                         ELSE freeMsg(f[t \ {Max(t)}], msgTable[Max(t)])
           Solves(f, k) == f = [t \in SUBSET (1 .. k) |-> step(f, t)]
           J == {k \in 1 .. n + 1 : \E f : Solves(f, k - 1)}
<1>0. \A k \in Nat : \A t \in SUBSET (1 .. k) : t # {} => Max(t) \in t /\ \A i \in t : i <= Max(t)
  <2> SUFFICES ASSUME NEW k \in Nat, NEW t \in SUBSET (1 .. k), t # {}
               PROVE  Max(t) \in t /\ \A i \in t : i <= Max(t)
    OBVIOUS
  <2>1. \E g \in t : \A j \in t : j <= g
    BY GreatestPosition
  <2>2. \A i, j \in t : i <= j <=> j >= i
    OBVIOUS
  <2> QED BY <2>1, <2>2 DEF Max
<1>1. 1 \in J
  <2> DEFINE f == [t \in SUBSET (1 .. 0) |-> Initialised]
  <2>1. SUBSET (1 .. 0) = {{}}
    OBVIOUS
  <2>2. \A t \in SUBSET (1 .. 0) : step(f, t) = Initialised
    BY <2>1
  <2>3. f = [t \in SUBSET (1 .. 0) |-> step(f, t)]
    <3> HIDE DEF step
    <3> QED BY <2>2
  <2> HIDE DEF f
  <2>4. Solves(f, 1 - 1)
    BY <2>3
  <2> HIDE DEF Solves
  <2> QED BY <2>4
<1>2. PICK g \in J : \A k \in J : k <= g
  <2> HIDE DEF Solves
  <2>1. J \subseteq 1 .. n + 1 /\ n + 1 \in Nat
    OBVIOUS
  <2> HIDE DEF J
  <2>2. J # {}
    BY <1>1
  <2> QED BY <2>1, <2>2, GreatestPosition
<1>3. g = n + 1
  <2> SUFFICES ASSUME g # n + 1 PROVE FALSE
    OBVIOUS
  <2> DEFINE k == g - 1
  <2>1. g \in 1 .. n + 1 /\ k \in 0 .. n - 1 /\ k + 1 \in 1 .. n /\ k \in Nat
        /\ g + 1 \in 1 .. n + 1 /\ (g + 1) - 1 = k + 1
    BY <1>2
  <2>2. PICK f : Solves(f, k)
    BY <1>2
  <2> HIDE DEF k
  <2> DEFINE h == [t \in SUBSET (1 .. k + 1) |->
                      IF k + 1 \in t THEN freeMsg(f[t \ {k + 1}], msgTable[k + 1]) ELSE f[t]]
  <2>3. \A t \in SUBSET (1 .. k + 1) : k + 1 \notin t <=> t \in SUBSET (1 .. k)
    BY <2>1
  <2>4. \A t \in SUBSET (1 .. k) : h[t] = f[t] /\ f[t] = step(f, t)
    <3> SUFFICES ASSUME NEW t \in SUBSET (1 .. k) PROVE h[t] = f[t] /\ f[t] = step(f, t)
      OBVIOUS
    <3>1. t \in SUBSET (1 .. k + 1) /\ k + 1 \notin t
      BY <2>1
    <3>2. h[t] = f[t]
      BY <3>1
    <3>3. f[t] = step(f, t)
      <4> HIDE DEF step
      <4> QED BY <2>2
    <3> QED BY <3>2, <3>3
  <2>5. ASSUME NEW t \in SUBSET (1 .. k + 1) PROVE h[t] = step(h, t)
    <3>1. CASE k + 1 \in t
      <4>1. Max(t) = k + 1
        <5>1. k + 1 \in Nat
          BY <2>1
        <5>2. t # {}
          BY <3>1
        <5>3. Max(t) \in t /\ \A i \in t : i <= Max(t)
          BY <1>0, <5>1, <5>2
        <5>4. Max(t) \in 1 .. k + 1 /\ k + 1 <= Max(t)
          BY <3>1, <5>3
        <5> QED BY <5>1, <5>4
      <4>2. t \ {k + 1} \in SUBSET (1 .. k)
        BY <2>1
      <4>3. h[t \ {k + 1}] = f[t \ {k + 1}]
        BY <2>4, <4>2
      <4>4. h[t] = freeMsg(f[t \ {k + 1}], msgTable[k + 1])
        BY <3>1
      <4> HIDE DEF h
      <4> QED BY <3>1, <4>1, <4>3, <4>4
    <3>2. CASE k + 1 \notin t
      <4>1. t \in SUBSET (1 .. k)
        BY <2>3, <3>2
      <4>2. h[t] = step(f, t)
        <5> HIDE DEF h, step
        <5> QED BY <2>4, <4>1
      <4>3. t \ {Max(t)} \in SUBSET (1 .. k)
        BY <4>1
      <4>4. h[t \ {Max(t)}] = f[t \ {Max(t)}]
        <5> HIDE DEF h, step
        <5> QED BY <2>4, <4>3
      <4> HIDE DEF h
      <4> QED BY <4>2, <4>4
    <3> QED BY <3>1, <3>2
  <2>6. h = [t \in SUBSET (1 .. k + 1) |-> h[t]]
    OBVIOUS
  <2> HIDE DEF h
  <2>7. Solves(h, (g + 1) - 1)
    <3> HIDE DEF step
    <3> QED BY <2>1, <2>5, <2>6
  <2>8. g + 1 \in J
    <3> HIDE DEF Solves
    <3> QED BY <2>1, <2>7
  <2> HIDE DEF J
  <2> QED BY <1>2, <2>1, <2>8
<1>4. \E f : Solves(f, n)
  <2> HIDE DEF Solves
  <2>1. \E f : Solves(f, g - 1)
    BY <1>2
  <2>2. g - 1 = n
    BY <1>3
  <2> QED BY <2>1, <2>2
<1> DEFINE iter == CHOOSE f : Solves(f, n)
<1>5. Solves(iter, n)
  <2> HIDE DEF Solves
  <2> QED BY <1>4
<1>6. DOMAIN msgTable = 1 .. n
  BY LenProperties
<1>7. initMsg = iter[1 .. n]
  BY <1>6 DEF initMsg, FoldLeft, MapThenFoldSet
<1> HIDE DEF iter
<1>8. \A t \in SUBSET (1 .. n) : iter[t] = step(iter, t)
  <2> HIDE DEF step
  <2> QED BY <1>5
<1> QED
  BY <1>7, <1>8

\* The lists when i messages of the table are free.
Freed(i) == [h \in Heads |->
                IF h = msgFree_h THEN [j \in 1 .. i |-> msgTable[(i - j) + 1]] ELSE <<>>]

\* One more is put in front of them.
LEMMA FreedNext ==
    ASSUME NEW i \in 1 .. Len(msgTable)
    PROVE  /\ Freed(i) = [Freed(i - 1) EXCEPT ![msgFree_h] = <<msgTable[i]>> \o @]
           /\ Loose(Freed(i - 1), msgTable[i])
<1> DEFINE T == msgTable
           u == [j \in 1 .. i - 1 |-> T[((i - 1) - j) + 1]]
           v == [j \in 1 .. i |-> T[(i - j) + 1]]
           x == T[i]
<1>0. /\ T \in Seq(Node) /\ Len(T) \in Nat /\ DOMAIN T = 1 .. Len(T)
      /\ \A j \in 1 .. Len(T) : T[j] \in Node /\ T[j] \in Message
      /\ \A j, k \in 1 .. Len(T) : T[j] = T[k] => j = k
  <2>1. T \in Seq(Node)
    BY MsgListsAssumption
  <2>2. Len(T) \in Nat /\ DOMAIN T = 1 .. Len(T) /\ \A j \in 1 .. Len(T) : T[j] \in Node
    BY <2>1, LenProperties, ElementOfSeq
  <2>3. \A j \in 1 .. Len(T) : T[j] \in Message
    BY <2>2 DEF Message, ToSet
  <2>4. \A j, k \in 1 .. Len(T) : T[j] = T[k] => j = k
    BY <2>2, MsgListsAssumption DEF IsInjective
  <2> QED BY <2>1, <2>2, <2>3, <2>4
<1>1. i \in Nat /\ i - 1 \in Nat
  BY <1>0
<1>2. \A j \in 1 .. i : (i - j) + 1 \in 1 .. Len(T)
  BY <1>0
<1>3. \A j \in 1 .. i - 1 : ((i - 1) - j) + 1 \in 1 .. Len(T) /\ ((i - 1) - j) + 1 # i
  BY <1>0
<1>4. u \in Seq(Node) /\ Len(u) = i - 1 /\ DOMAIN u = 1 .. i - 1
  <2>1. u \in [1 .. i - 1 -> Node]
    BY <1>0, <1>3
  <2>2. u \in Seq(Node)
    BY <1>1, <2>1, SeqDef
  <2> QED BY <1>1, <2>1, <2>2, LenProperties
<1>5. v \in Seq(Node) /\ Len(v) = i
  <2>1. v \in [1 .. i -> Node]
    BY <1>0, <1>2
  <2>2. v \in Seq(Node)
    BY <1>1, <2>1, SeqDef
  <2> QED BY <1>1, <2>1, <2>2, LenProperties
<1>6. /\ <<x>> \o u \in Seq(Node) /\ Len(<<x>> \o u) = i
      /\ \A j \in 1 .. i : (<<x>> \o u)[j] = v[j]
  <2> DEFINE y == <<x>>
  <2>1. y \in Seq(Node) /\ Len(y) = 1 /\ y[1] = x
    BY <1>0
  <2>2. \A j \in 1 .. i : v[j] = T[(i - j) + 1]
    OBVIOUS
  <2>3. \A j \in 1 .. i - 1 : u[j] = T[((i - 1) - j) + 1]
    OBVIOUS
  <2> HIDE DEF u, v, y
  <2>4. /\ y \o u \in Seq(Node) /\ Len(y \o u) = Len(y) + Len(u)
        /\ \A j \in 1 .. Len(y) + Len(u) :
              (y \o u)[j] = IF j <= Len(y) THEN y[j] ELSE u[j - Len(y)]
    BY <1>4, <2>1, ConcatProperties
  <2>5. ASSUME NEW j \in 1 .. i PROVE (y \o u)[j] = v[j]
    <3>1. (y \o u)[j] = IF j <= 1 THEN y[j] ELSE u[j - 1]
      BY <1>1, <1>4, <2>1, <2>4
    <3>2. CASE j = 1
      <4>1. (i - j) + 1 = i
        BY <1>1, <3>2
      <4> QED BY <2>1, <2>2, <3>1, <3>2, <4>1
    <3>3. CASE j # 1
      <4>1. j - 1 \in 1 .. i - 1 /\ ((i - 1) - (j - 1)) + 1 = (i - j) + 1 /\ ~(j <= 1)
        BY <1>1, <3>3
      <4> QED BY <2>2, <2>3, <3>1, <4>1
    <3> QED BY <3>2, <3>3
  <2> QED BY <1>1, <1>4, <2>1, <2>4, <2>5 DEF y
<1>7. <<x>> \o u = v
  BY <1>5, <1>6, SeqEqual
<1>8. Freed(i - 1)[msgFree_h] = u /\ \A h \in Heads : h # msgFree_h => Freed(i - 1)[h] = <<>>
  BY NodeFacts DEF Freed
<1>9. Freed(i) = [h \in Heads |-> IF h = msgFree_h THEN v ELSE <<>>]
  BY DEF Freed
<1>10. x \notin ToSet(u)
  <2>1. \A j \in 1 .. i - 1 : u[j] = T[((i - 1) - j) + 1]
    OBVIOUS
  <2> HIDE DEF u
  <2> QED BY <1>0, <1>3, <1>4, <2>1 DEF ToSet
<1>11. Loose(Freed(i - 1), x)
  <2>1. ToSet(<<>>) = {} /\ x \in Message
    BY <1>0 DEF ToSet
  <2> HIDE DEF u, x
  <2> QED BY <1>8, <1>10, <2>1 DEF Loose, LooseOf
<1>12. Freed(i) = [Freed(i - 1) EXCEPT ![msgFree_h] = <<x>> \o @]
  <2> HIDE DEF u, v, x
  <2>1. DOMAIN Freed(i - 1) = Heads
    BY DEF Freed
  <2>2. Freed(i - 1) = [h \in Heads |-> Freed(i - 1)[h]]
    BY DEF Freed
  <2> QED BY <1>7, <1>8, <1>9, <2>1, <2>2
<1> QED
  BY <1>11, <1>12

\* At boot the messages are free, the last of the table first.
LEMMA InitMsgLists ==
    Lists(initMsg, [h \in Heads |-> IF h = msgFree_h THEN Reverse(msgTable) ELSE <<>>])
<1> DEFINE n == Len(msgTable)
<1>1. msgTable \in Seq(Node) /\ n \in Nat
  BY MsgListsAssumption, LenProperties
<1>2. PICK f : /\ initMsg = f[1 .. n]
               /\ \A t \in SUBSET (1 .. n) :
                     f[t] = IF t = {} THEN Initialised
                            ELSE freeMsg(f[t \ {Max(t)}], msgTable[Max(t)])
  BY <1>1, FoldRecursion
<1>3. Lists(f[1 .. 0], Freed(0))
  <2>1. 1 .. 0 = {} /\ {} \in SUBSET (1 .. n)
    OBVIOUS
  <2>2. f[1 .. 0] = Initialised
    BY <1>2, <2>1
  <2>3. \A h \in Heads : Freed(0)[h] = <<>>
    BY DEF Freed
  <2>4. Freed(0) \in [Heads -> Seq(Message)]
    <3>1. Freed(0) = [h \in Heads |-> Freed(0)[h]]
      BY DEF Freed
    <3>2. <<>> \in Seq(Message)
      OBVIOUS
    <3> QED BY <2>3, <3>1, <3>2
  <2>5. Initialised \in Links
    BY DEF Initialised, Links
  <2>6. \A h \in Heads : Represents(Initialised, h, <<>>)
    <3> SUFFICES ASSUME NEW h \in Heads PROVE Represents(Initialised, h, <<>>)
      OBVIOUS
    <3>1. IsInjective(<<>>) /\ h \notin ToSet(<<>>) /\ h \in Node /\ Len(<<>>) = 0
      BY NodeFacts DEF IsInjective, ToSet
    <3>2. \A i : Position(h, <<>>, i) = h
      BY <3>1 DEF Position
    <3> QED BY <3>1, <3>2 DEF Represents, Initialised
  <2>7. ToSet(<<>>) = {}
    BY DEF ToSet
  <2> QED BY <2>2, <2>3, <2>4, <2>5, <2>6, <2>7 DEF Lists, ListsOf
<1>4. ASSUME NEW i \in 1 .. n, Lists(f[1 .. i - 1], Freed(i - 1))
      PROVE  Lists(f[1 .. i], Freed(i))
  <2>1. 1 .. i \in SUBSET (1 .. n) /\ 1 .. i # {} /\ (1 .. i) \ {i} = 1 .. i - 1
    <3>1. i \in Nat /\ i >= 1 /\ i <= n
      BY <1>1
    <3> HIDE DEF n
    <3>2. \A j : j \in (1 .. i) \ {i} <=> j \in 1 .. i - 1
      BY <3>1
    <3>3. \A j \in 1 .. i : j \in 1 .. n
      BY <1>1, <3>1
    <3>4. i \in 1 .. i
      BY <3>1
    <3> QED BY <3>2, <3>3, <3>4
  <2>2. Max(1 .. i) = i
    <3>1. i \in 1 .. i /\ \A j \in 1 .. i : i >= j
      OBVIOUS
    <3>2. \A x \in 1 .. i : (\A j \in 1 .. i : x >= j) => x = i
      OBVIOUS
    <3> QED BY <3>1, <3>2 DEF Max
  <2>3. f[1 .. i] = freeMsg(f[1 .. i - 1], msgTable[i])
    BY <1>2, <2>1, <2>2
  <2>4. /\ Freed(i) = [Freed(i - 1) EXCEPT ![msgFree_h] = <<msgTable[i]>> \o @]
        /\ Loose(Freed(i - 1), msgTable[i])
    BY FreedNext
  <2> DEFINE w == Freed(i - 1)
             l == f[1 .. i - 1]
             x == msgTable[i]
  <2> HIDE DEF w, l, x
  <2>5. Lists(l, w) /\ Loose(w, x) /\ msgFree_h \in Heads
    BY <1>4, <2>4, NodeFacts DEF w, l, x
  <2>6. Lists(list_add(l, x, msgFree_h), [w EXCEPT ![msgFree_h] = <<x>> \o @])
    BY <2>5, AddLists
  <2> QED BY <2>3, <2>4, <2>6 DEF freeMsg, w, l, x
<1>5. \A i \in 1 .. n : Lists(f[1 .. i], Freed(i))
  <2> DEFINE B == {i \in 1 .. n : ~Lists(f[1 .. i], Freed(i))}
  <2> SUFFICES ASSUME B # {} PROVE FALSE
    OBVIOUS
  <2>1. PICK b \in B : \A i \in B : b <= i
    <3>1. B \subseteq 1 .. n
      OBVIOUS
    <3> HIDE DEF B
    <3> QED BY <1>1, <3>1, LeastPosition
  <2>2. CASE b = 1
    <3>1. b \in 1 .. n /\ b - 1 = 0
      BY <2>2
    <3>2. Lists(f[1 .. b - 1], Freed(b - 1))
      BY <1>3, <3>1
    <3> QED BY <1>4, <2>1, <3>1, <3>2
  <2>3. CASE b # 1
    <3>1. b \in 1 .. n /\ b - 1 \in 1 .. n /\ ~(b <= b - 1)
      BY <1>1, <2>1, <2>3
    <3>2. Lists(f[1 .. b - 1], Freed(b - 1))
      BY <2>1, <3>1
    <3> QED BY <1>4, <2>1, <3>1, <3>2
  <2> QED BY <2>2, <2>3
<1>6. Lists(f[1 .. n], Freed(n))
  <2>1. n = 0 \/ n \in 1 .. n
    BY <1>1
  <2> QED BY <1>3, <1>5, <2>1
<1>7. Freed(n) = [h \in Heads |-> IF h = msgFree_h THEN Reverse(msgTable) ELSE <<>>]
  BY DEF Freed, Reverse
<1> QED
  BY <1>2, <1>6, <1>7

-----------------------------------------------------------------------------
(* What a send and a receive make of the lists. *)

\* The first element of a list, by its head.
LEMMA FirstOfList ==
    ASSUME NEW l, NEW w, Lists(l, w), NEW h \in Heads
    PROVE  /\ list_empty(l, h) <=> w[h] = <<>>
           /\ w[h] # <<>> => /\ l.next[h] = Head(w[h]) /\ l.next[h] = w[h][1]
                             /\ 1 \in 1 .. Len(w[h]) /\ l.next[h] \in Message
  BY KindsOfLists, ListsFirst DEF Lists

\* A message of the pool is allocated and queued.
LEMMA QueueLists ==
    ASSUME NEW l, NEW w, Lists(l, w), NEW d \in Inbox, NEW i \in 1 .. Len(w[msgFree_h])
    PROVE  LET x == w[msgFree_h][i]
           IN Lists(insertMessage(INIT_LIST_HEAD(list_del(l, x), x), d, x),
                    [w EXCEPT ![msgFree_h] = RemoveAt(@, i), ![d] = Append(@, x)])
<1> DEFINE x == w[msgFree_h][i]
           v == [w EXCEPT ![msgFree_h] = RemoveAt(@, i)]
           k == list_del(l, x)
<1>1. Lists(k, v) /\ Loose(v, x)
  BY NodeFacts, UnlinkLists
<1>2. [v EXCEPT ![d] = Append(@, x)]
         = [w EXCEPT ![msgFree_h] = RemoveAt(@, i), ![d] = Append(@, x)]
  BY NodeFacts
<1> HIDE DEF x, v, k
<1>3. Lists(INIT_LIST_HEAD(k, x), v)
  BY <1>1, InitLists
<1>4. Lists(list_add_tail(INIT_LIST_HEAD(k, x), x, d), [v EXCEPT ![d] = Append(@, x)])
  BY <1>1, <1>3, NodeFacts, AddLists
<1> QED
  BY <1>2, <1>4 DEF insertMessage, x, k

\* A message is taken out of an inbox and freed.
LEMMA TakeLists ==
    ASSUME NEW l, NEW w, Lists(l, w), NEW d \in Inbox, NEW i \in 1 .. Len(w[d])
    PROVE  LET x == w[d][i]
           IN Lists(freeMsg(list_del(l, x), x),
                    [w EXCEPT ![d] = RemoveAt(@, i), ![msgFree_h] = <<x>> \o @])
<1> DEFINE x == w[d][i]
           v == [w EXCEPT ![d] = RemoveAt(@, i)]
           k == list_del(l, x)
<1>1. Lists(k, v) /\ Loose(v, x)
  BY NodeFacts, UnlinkLists
<1>2. [v EXCEPT ![msgFree_h] = <<x>> \o @]
         = [w EXCEPT ![d] = RemoveAt(@, i), ![msgFree_h] = <<x>> \o @]
  BY NodeFacts
<1> HIDE DEF x, v, k
<1>3. Lists(list_add(k, x, msgFree_h), [v EXCEPT ![msgFree_h] = <<x>> \o @])
  BY <1>1, NodeFacts, AddLists
<1> QED
  BY <1>2, <1>3 DEF freeMsg, x, k

-----------------------------------------------------------------------------
(* The invariant, and the steps. *)

LinkTypes ==
    /\ links \in Links /\ m_sender \in [Message -> Sender \cup {NIL}]
    /\ killed \in Inbox \cup {NIL} /\ m \in Message \cup {NIL} /\ next \in Node \cup {NIL}
    /\ stores \in 0 .. 3 /\ late \in Nat
    /\ m # NIL => killed # NIL
    /\ next # NIL => m # NIL
    /\ next = NIL => stores = 0

\* How far __list_add has come, when no interrupt came between its stores.
Under ==
    next # NIL /\ late = 0 =>
        /\ links.next[msgFree_h] = next /\ next # m
        /\ stores > 0 => links.prev[next] = m
        /\ stores > 1 => links.next[m] = next
        /\ stores > 2 => links.prev[m] = msgFree_h

\* The message that freeTcb() has in its hand is in no list.
Hand ==
    Intact /\ m # NIL /\ next = NIL => \E w : Lists(links, w) /\ Loose(w, m)

LinkInv == LinkTypes /\ Under /\ Hand

\* Intact, by the lists.
LEMMA IntactSound == Intact <=> late < 2 /\ Sound(Ended)
  BY DEF Intact, Sound, SoundOf

\* The stores of __list_add lead from links to links.
LEMMA StoresType ==
    ASSUME NEW l \in Links, NEW x \in Node, NEW y \in Node, NEW p \in Node
    PROVE  /\ [l EXCEPT !.prev[y] = x] \in Links /\ [l EXCEPT !.next[y] = x] \in Links
  BY DEF Links

\* So what freeMsg() will leave is links too.
LEMMA EndedType ==
    ASSUME LinkTypes PROVE Ended \in Links
<1>1. CASE next = NIL
  BY <1>1 DEF Ended, LinkTypes
<1>2. CASE next # NIL
  <2>1. /\ links \in Links /\ m \in Node /\ next \in Node /\ msgFree_h \in Node
    BY <1>2, NodeFacts DEF LinkTypes
  <2> DEFINE l1 == IF stores > 0 THEN links ELSE [links EXCEPT !.prev[next] = m]
             l2 == IF stores > 1 THEN l1 ELSE [l1 EXCEPT !.next[m] = next]
             l3 == IF stores > 2 THEN l2 ELSE [l2 EXCEPT !.prev[m] = msgFree_h]
  <2>2. l1 \in Links
    BY <2>1, StoresType
  <2> HIDE DEF l1
  <2>3. l2 \in Links
    BY <2>1, <2>2, StoresType
  <2> HIDE DEF l2
  <2>4. l3 \in Links
    BY <2>1, <2>3, StoresType
  <2> HIDE DEF l3
  <2>5. [l3 EXCEPT !.next[msgFree_h] = m] \in Links
    BY <2>1, <2>4, StoresType
  <2>6. Ended = [l3 EXCEPT !.next[msgFree_h] = m]
    BY <1>2 DEF Ended, StoresFrom, l3, l2, l1
  <2> QED BY <2>5, <2>6
<1> QED BY <1>1, <1>2

\* Sound links, with nothing under way, and the message in hand.
LEMMA HandLists ==
    ASSUME LinkInv, Intact, next = NIL
    PROVE  \E w : Lists(links, w) /\ (m # NIL => Loose(w, m))
<1>1. CASE m = NIL
  <2>1. Sound(links) /\ links \in Links
    BY IntactSound DEF Ended, LinkInv, LinkTypes
  <2> QED BY <1>1, <2>1, SoundLists
<1>2. CASE m # NIL
  BY <1>2 DEF LinkInv, Hand
<1> QED BY <1>1, <1>2

\* What the refinement shows of lists.
LEMMA ShownLists ==
    ASSUME NEW l, NEW w, Lists(l, w)
    PROVE  Sound(l) /\ \A h \in Heads : Walk(l, h) = w[h]
  BY ListsWalk, SoundLists DEF Lists, ListsOf

\* initMsg() makes the lists that MsgQueues begins with.
LEMMA LinksInit ==
    ASSUME Init PROVE LinkInv /\ Queues!QInit
<1> DEFINE w == [h \in Heads |-> IF h = msgFree_h THEN Reverse(msgTable) ELSE <<>>]
<1>1. Ended = links /\ links = initMsg /\ next = NIL
  BY DEF Init, Ended
<1>2. Lists(links, w)
  BY <1>1, InitMsgLists
<1>3. Sound(links) /\ \A h \in Heads : Walk(links, h) = w[h]
  <2> HIDE DEF w
  <2> QED BY <1>2, ShownLists
<1>4. LinkInv
  BY <1>2, NodeFacts DEF Init, LinkInv, LinkTypes, Under, Hand, Lists, ListsOf
<1>5. Intact
  BY <1>1, <1>3, IntactSound DEF Init
<1>6. Chain(msgFree_h) = Reverse(msgTable) /\ \A d \in Inbox : Chain(d) = <<>>
  BY <1>1, <1>3, NodeFacts DEF Chain
<1>7. Queues!QInit
  <2>1. Chain(msgFree_h) = Queues!Reverse(msgTable)
    BY <1>6 DEF Reverse, Queues!Reverse
  <2>2. [d \in Inbox |-> Chain(d)] = [d \in Inbox |-> <<>>]
    BY <1>6
  <2>3. m_sender = [x \in Queues!ToSet(msgTable) |-> NIL] /\ m = NIL
    BY DEF Init, Message, ToSet, Queues!ToSet
  <2>4. Intact = TRUE
    BY <1>5
  <2> QED BY <2>1, <2>2, <2>3, <2>4, Zenon DEF Queues!QInit
<1> QED BY <1>4, <1>7

\* A message is sent while no freeMsg() has begun.
LEMMA QueueStep ==
    ASSUME LinkInv, Intact, next = NIL, NEW d \in Inbox, NEW s \in Sender, Queue(d, s),
           UNCHANGED <<killed, m, next, stores>>, late' \in {0, late}
    PROVE  LinkInv' /\ Intact' /\ Queues!QNext
<1>1. PICK w : Lists(links, w) /\ (m # NIL => Loose(w, m))
  BY HandLists
<1> DEFINE msg == links.next[msgFree_h]
           f == w[msgFree_h]
           v == [w EXCEPT ![msgFree_h] = RemoveAt(@, 1), ![d] = Append(@, w[msgFree_h][1])]
<1>2. /\ ~list_empty(links, msgFree_h)
      /\ links' = insertMessage(INIT_LIST_HEAD(list_del(links, msg), msg), d, msg)
      /\ m_sender' = [m_sender EXCEPT ![msg] = s]
  BY DEF Queue, allocMsg
<1>3. /\ f # <<>> /\ msg = Head(f) /\ msg = f[1] /\ 1 \in 1 .. Len(f) /\ msg \in Message
  BY <1>1, <1>2, NodeFacts, FirstOfList
<1>4. Lists(links', v)
  BY <1>1, <1>2, <1>3, QueueLists
<1>5. w \in [Heads -> Seq(Message)] /\ f \in Seq(Message) /\ w[d] \in Seq(Message)
  BY <1>1, NodeFacts DEF Lists, ListsOf
<1>6. RemoveAt(f, 1) = Tail(f)
  BY <1>3, <1>5, FirstOut
<1>7. /\ v[msgFree_h] = Tail(f) /\ v[d] = Append(w[d], msg)
      /\ \A g \in Heads : g # msgFree_h /\ g # d => v[g] = w[g]
  BY <1>3, <1>5, <1>6, NodeFacts
<1> HIDE DEF v
<1>8. Ended = links /\ Ended' = links' /\ next' = NIL
  BY DEF Ended
<1>9. Sound(links) /\ \A h \in Heads : Walk(links, h) = w[h]
  BY <1>1, ShownLists
<1>10. Sound(links') /\ \A h \in Heads : Walk(links', h) = v[h]
  BY <1>4, ShownLists
<1>11. late' < 2 /\ late' \in Nat
  BY IntactSound DEF LinkInv, LinkTypes
<1>12. Intact'
  BY <1>8, <1>10, <1>11 DEF Intact, Sound, SoundOf
<1>13. LinkTypes'
  BY <1>2, <1>3, <1>4, <1>11 DEF LinkInv, LinkTypes, Lists, ListsOf
<1>14. Under'
  BY <1>8 DEF Under
<1>15. Hand'
  <2> SUFFICES ASSUME m # NIL PROVE Loose(v, m)
    BY <1>4 DEF Hand
  <2>1. Loose(w, m)
    BY <1>1
  <2>2. ToSet(Tail(f)) \subseteq ToSet(f) /\ msg \in ToSet(f)
    <3>1. f \in Seq(Node) /\ \A i \in 1 .. Len(f) : f[i] \in ToSet(f)
      BY <1>1, ListNodes, NodeFacts
    <3>2. ToSet(RemoveAt(f, 1)) \subseteq ToSet(f)
      BY <1>3, <3>1, ToSetRemoveAt
    <3> QED BY <1>3, <1>6, <3>1, <3>2
  <2>3. ToSet(Append(w[d], msg)) = ToSet(w[d]) \cup {msg}
    BY <1>3, <1>5, ToSetAppend
  <2>4. m # msg
    BY <2>1, <2>2, NodeFacts DEF Loose, LooseOf
  <2> QED BY <1>7, <2>1, <2>2, <2>3, <2>4, NodeFacts DEF Loose, LooseOf
<1>16. /\ Chain(msgFree_h) = f /\ Chain(msgFree_h)' = Tail(f)
       /\ \A g \in Inbox : Chain(g) = w[g]
       /\ \A g \in Inbox : Chain(g)' = v[g]
  BY <1>7, <1>8, <1>9, <1>10, NodeFacts DEF Chain
<1>17. [g \in Inbox |-> Chain(g)]' = [[g \in Inbox |-> Chain(g)] EXCEPT ![d] = Append(@, Head(f))]
  BY <1>3, <1>7, <1>16, NodeFacts
<1>18. Queues!Post(d, s)
  BY <1>2, <1>3, <1>16, <1>17 DEF Queues!Post
<1>19. Queues!QNext
  BY <1>12, <1>18 DEF Queues!QNext
<1> QED BY <1>12, <1>13, <1>14, <1>15, <1>19 DEF LinkInv

\* A message is received.
LEMMA RecvStep ==
    ASSUME LinkInv, NEW d \in Inbox, NEW source \in Sender \cup {NIL}, Recv(d, source)
    PROVE  LinkInv' /\ Intact' /\ Queues!QNext
<1>1. Intact /\ killed = NIL /\ m = NIL /\ next = NIL
  BY DEF Recv, Handler, LinkInv, LinkTypes
<1>2. PICK w : Lists(links, w)
  BY <1>1, HandLists
<1> DEFINE queue == w[d]
           found == {i \in 1 .. Len(queue) : source = NIL \/ m_sender[queue[i]] = source}
           i == Min(found)
           msg == queue[i]
           v == [w EXCEPT ![d] = RemoveAt(@, i), ![msgFree_h] = <<w[d][i]>> \o @]
<1>3. Ended = links /\ Ended' = links' /\ next' = NIL /\ m' = NIL
  BY <1>1 DEF Ended, Recv
<1>4. Sound(links) /\ \A h \in Heads : Walk(links, h) = w[h]
  BY <1>2, ShownLists
<1>5. w \in [Heads -> Seq(Message)] /\ queue \in Seq(Message) /\ Len(queue) \in Nat
  BY <1>2, NodeFacts, LenProperties DEF Lists, ListsOf
<1>6. /\ found # {} /\ links' = freeMsg(list_del(links, msg), msg)
      /\ UNCHANGED <<m_sender, killed, m, next, stores, late>>
  BY <1>4, NodeFacts DEF Recv, popMessage
<1>7. i \in found /\ \A j \in found : i <= j
  <2>1. found \subseteq 1 .. Len(queue)
    OBVIOUS
  <2> HIDE DEF found
  <2>2. \E b \in found : \A j \in found : b <= j
    BY <1>5, <1>6, <2>1, LeastPosition
  <2> QED BY <2>2 DEF Min
<1>8. i \in 1 .. Len(queue)
  BY <1>7
<1> HIDE DEF i, found
<1>9. Lists(links', v)
  BY <1>2, <1>6, <1>8, TakeLists
<1>10. /\ v[d] = RemoveAt(queue, i) /\ v[msgFree_h] = <<msg>> \o w[msgFree_h]
       /\ \A g \in Heads : g # msgFree_h /\ g # d => v[g] = w[g]
  BY <1>5, NodeFacts
<1> HIDE DEF v
<1>11. Sound(links') /\ \A h \in Heads : Walk(links', h) = v[h]
  BY <1>9, ShownLists
<1>12. Intact'
  BY <1>1, <1>3, <1>6, <1>11 DEF Intact, Sound, SoundOf
<1>13. LinkInv'
  BY <1>3, <1>6, <1>9 DEF LinkInv, LinkTypes, Under, Hand, Lists, ListsOf
<1>14. /\ Chain(msgFree_h) = w[msgFree_h] /\ Chain(msgFree_h)' = <<msg>> \o w[msgFree_h]
       /\ \A g \in Inbox : Chain(g) = w[g]
       /\ \A g \in Inbox : Chain(g)' = v[g]
  BY <1>1, <1>3, <1>4, <1>10, <1>11, NodeFacts DEF Chain
<1>15. [g \in Inbox |-> Chain(g)]' = [[g \in Inbox |-> Chain(g)] EXCEPT ![d] = RemoveAt(@, i)]
  BY <1>10, <1>14, NodeFacts
<1>16. Queues!From(d, source) = found
  BY <1>14 DEF Queues!From, found
<1>17. Queues!RemoveAt(queue, i) = RemoveAt(queue, i)
  BY DEF RemoveAt, Queues!RemoveAt
<1>18. Queues!Take(d, source)
  <2>1. /\ [g \in Inbox |-> Chain(g)][d] = queue
    BY <1>14
  <2>2. [g \in Inbox |-> Chain(g)]'
          = [[g \in Inbox |-> Chain(g)] EXCEPT ![d] = Queues!RemoveAt(@, i)]
    BY <1>15, <1>17, <2>1
  <2>3. Chain(msgFree_h)' = <<[g \in Inbox |-> Chain(g)][d][i]>> \o Chain(msgFree_h)
    BY <1>14, <2>1
  <2> QED BY <1>6, <1>7, <1>16, <2>2, <2>3 DEF Queues!Take
<1>19. Queues!QNext
  BY <1>1, <1>12, <1>18 DEF Queues!QNext
<1> QED BY <1>12, <1>13, <1>19

\* The refinement does not see a step that leaves the lists alone.
LEMMA SameShown ==
    ASSUME Intact, Intact', UNCHANGED m_sender, m' = m,
           \A h \in Heads : Chain(h)' = Chain(h)
    PROVE  UNCHANGED Queues!qvars
  BY NodeFacts DEF Queues!qvars

\* terminate() calls freeTcb().
LEMMA FreeTcbStep ==
    ASSUME LinkInv, NEW d \in Inbox, FreeTcb(d)
    PROVE  LinkInv' /\ Intact' /\ UNCHANGED Queues!qvars
<1>1. /\ Intact /\ m = NIL /\ next = NIL /\ UNCHANGED <<links, m_sender, m, next, stores, late>>
      /\ killed' = d
  BY DEF FreeTcb, Handler, LinkInv, LinkTypes
<1>2. Ended' = Ended
  BY <1>1 DEF Ended
<1>3. Intact'
  BY <1>1, <1>2 DEF Intact
<1>4. LinkInv'
  BY <1>1, <1>2 DEF LinkInv, LinkTypes, Under, Hand
<1>5. \A h \in Heads : Chain(h)' = Chain(h)
  BY <1>1, <1>2 DEF Chain
<1> QED BY <1>1, <1>3, <1>4, <1>5, SameShown

\* The loop of freeTcb() ends, or takes the first message.
LEMMA PopStep ==
    ASSUME LinkInv, Pop
    PROVE  LinkInv' /\ Intact' /\ [Queues!QNext]_(Queues!qvars)
<1>1. /\ Intact /\ m = NIL /\ next = NIL /\ killed \in Inbox
      /\ UNCHANGED <<m_sender, next, stores, late>>
  BY DEF Pop, LinkInv, LinkTypes
<1>2. PICK w : Lists(links, w)
  BY <1>1, HandLists
<1> DEFINE queue == w[killed]
           v == [w EXCEPT ![killed] = RemoveAt(@, 1)]
<1>3. Ended = links /\ Ended' = links' /\ next' = NIL
  BY <1>1 DEF Ended
<1>4. CASE list_empty(links, killed)
  <2>1. killed' = NIL /\ UNCHANGED <<links, m>>
    BY <1>4 DEF Pop
  <2>2. Intact'
    BY <1>1, <1>3, <2>1 DEF Intact
  <2>3. LinkInv'
    BY <1>1, <1>3, <2>1 DEF LinkInv, LinkTypes, Under, Hand
  <2>4. \A h \in Heads : Chain(h)' = Chain(h)
    BY <1>1, <1>3, <2>1 DEF Chain
  <2> QED BY <1>1, <2>1, <2>2, <2>3, <2>4, SameShown
<1>5. CASE ~list_empty(links, killed)
  <2>1. m' = links.next[killed] /\ links' = list_del(links, m') /\ killed' = killed
    BY <1>5 DEF Pop
  <2>2. queue # <<>> /\ m' = Head(queue) /\ m' = queue[1] /\ 1 \in 1 .. Len(queue) /\ m' \in Message
    BY <1>1, <1>2, <1>5, <2>1, NodeFacts, FirstOfList
  <2>3. Lists(links', v) /\ Loose(v, m')
    BY <1>1, <1>2, <2>1, <2>2, NodeFacts, UnlinkLists
  <2>4. w \in [Heads -> Seq(Message)] /\ queue \in Seq(Message)
    BY <1>1, <1>2, NodeFacts DEF Lists, ListsOf
  <2>5. RemoveAt(queue, 1) = Tail(queue)
    BY <2>2, <2>4, FirstOut
  <2>6. v[killed] = Tail(queue) /\ \A g \in Heads : g # killed => v[g] = w[g]
    BY <1>1, <2>4, <2>5, NodeFacts
  <2> HIDE DEF v
  <2>7. Sound(links) /\ \A h \in Heads : Walk(links, h) = w[h]
    BY <1>2, ShownLists
  <2>8. Sound(links') /\ \A h \in Heads : Walk(links', h) = v[h]
    BY <2>3, ShownLists
  <2>9. Intact'
    BY <1>1, <1>3, <2>8, IntactSound DEF Intact, Sound, SoundOf
  <2>10. LinkInv'
    BY <1>1, <1>3, <2>1, <2>2, <2>3, NodeFacts DEF LinkInv, LinkTypes, Under, Hand, Lists, ListsOf
  <2>11. /\ Chain(msgFree_h)' = Chain(msgFree_h)
         /\ \A g \in Inbox : Chain(g) = w[g]
         /\ \A g \in Inbox : Chain(g)' = v[g]
    BY <1>1, <1>3, <2>6, <2>7, <2>8, NodeFacts DEF Chain
  <2>12. [g \in Inbox |-> Chain(g)]'
           = [[g \in Inbox |-> Chain(g)] EXCEPT ![killed] = Tail(@)]
    BY <1>1, <2>6, <2>11, NodeFacts
  <2>13. Queues!Pull(killed)
    BY <1>1, <2>2, <2>11, <2>12 DEF Queues!Pull
  <2>14. Queues!QNext
    BY <1>1, <2>9, <2>13 DEF Queues!QNext
  <2> QED BY <2>9, <2>10, <2>14
<1> QED BY <1>4, <1>5

\* freeMsg() reads the head of the pool.
LEMMA ReadHeadStep ==
    ASSUME LinkInv, ReadHead
    PROVE  LinkInv' /\ Intact' /\ UNCHANGED Queues!qvars
<1>1. /\ Intact /\ m # NIL /\ next = NIL /\ stores = 0 /\ next' = links.next[msgFree_h] /\ late' = 0
      /\ UNCHANGED <<links, m_sender, killed, m, stores>>
  BY DEF ReadHead, LinkInv, LinkTypes
<1>2. PICK w : Lists(links, w) /\ Loose(w, m)
  BY <1>1, HandLists
<1> DEFINE f == w[msgFree_h]
           v == [w EXCEPT ![msgFree_h] = <<m>> \o @]
<1>3. /\ links \in Links /\ w \in [Heads -> Seq(Message)] /\ f \in Seq(Message)
      /\ m \in Message /\ m \in Node /\ msgFree_h \in Node
  BY <1>2, NodeFacts DEF Lists, ListsOf, Loose, LooseOf
<1>4. next' \in Node /\ next' # m /\ next' # NIL
  <2>1. links.next[msgFree_h] \in ToSet(f) \cup {msgFree_h} /\ ToSet(f) \subseteq Message
    BY <1>2, ListNodes, NodeFacts, Neighbours DEF Lists, ListsOf
  <2> QED BY <1>1, <1>2, <1>3, <2>1, NodeFacts DEF Loose, LooseOf
<1>5. Ended = links /\ Ended' = list_add(links, m, msgFree_h)
  <2>1. Ended' = StoresFrom(stores, links)'
    BY <1>4 DEF Ended
  <2> QED BY <1>1, <2>1 DEF Ended, StoresFrom, list_add, ListAddBetween
<1>6. Lists(Ended', v)
  BY <1>2, <1>5, NodeFacts, AddLists
<1>7. /\ Tail(<<m>> \o f) = f /\ v[msgFree_h] = <<m>> \o f
      /\ \A g \in Inbox : v[g] = w[g]
  BY <1>3, NodeFacts, FirstIn
<1> HIDE DEF v
<1>8. Sound(links) /\ \A h \in Heads : Walk(links, h) = w[h]
  BY <1>2, ShownLists
<1>9. Sound(Ended') /\ \A h \in Heads : Walk(Ended', h) = v[h]
  BY <1>6, ShownLists
<1>10. Intact'
  BY <1>1, <1>9 DEF Intact, Sound, SoundOf
<1>11. \A h \in Heads : Chain(h)' = Chain(h)
  BY <1>1, <1>4, <1>5, <1>7, <1>8, <1>9, NodeFacts DEF Chain, Heads
<1>12. LinkInv'
  BY <1>1, <1>4 DEF LinkInv, LinkTypes, Under, Hand
<1> QED BY <1>1, <1>10, <1>11, <1>12, SameShown

\* One more store leaves what __list_add will have made as it was.
LEMMA StoreEnded ==
    ASSUME LinkTypes, Store PROVE Ended' = Ended /\ LinkTypes' /\ UNCHANGED <<m_sender, late>>
<1>1. /\ next \in Node /\ next # NIL /\ m \in Node /\ m # NIL /\ msgFree_h \in Node
      /\ m \in Message /\ links \in Links /\ UNCHANGED <<m_sender, killed, late>>
  BY NodeFacts DEF Store, LinkTypes
<1>2. CASE stores = 0
  <2>1. links' = [links EXCEPT !.prev[next] = m] /\ stores' = 1 /\ UNCHANGED <<m, next>>
    BY <1>2 DEF Store
  <2>2. links' \in Links
    BY <1>1, <2>1, StoresType
  <2>3. Ended' = Ended
    BY <1>1, <1>2, <2>1 DEF Ended, StoresFrom
  <2> QED BY <1>1, <2>1, <2>2, <2>3 DEF LinkTypes
<1>3. CASE stores = 1
  <2>1. links' = [links EXCEPT !.next[m] = next] /\ stores' = 2 /\ UNCHANGED <<m, next>>
    BY <1>3 DEF Store
  <2>2. links' \in Links
    BY <1>1, <2>1, StoresType
  <2>3. Ended' = Ended
    BY <1>1, <1>3, <2>1 DEF Ended, StoresFrom
  <2> QED BY <1>1, <2>1, <2>2, <2>3 DEF LinkTypes
<1>4. CASE stores = 2
  <2>1. links' = [links EXCEPT !.prev[m] = msgFree_h] /\ stores' = 3 /\ UNCHANGED <<m, next>>
    BY <1>4 DEF Store
  <2>2. links' \in Links
    BY <1>1, <2>1, StoresType
  <2>3. Ended' = Ended
    BY <1>1, <1>4, <2>1 DEF Ended, StoresFrom
  <2> QED BY <1>1, <2>1, <2>2, <2>3 DEF LinkTypes
<1>5. CASE stores = 3
  <2>1. links' = [links EXCEPT !.next[msgFree_h] = m] /\ stores' = 0 /\ m' = NIL /\ next' = NIL
    BY <1>5 DEF Store
  <2>2. links' \in Links
    BY <1>1, <2>1, StoresType
  <2>3. Ended' = Ended
    BY <1>1, <1>5, <2>1 DEF Ended, StoresFrom
  <2> QED BY <1>1, <2>1, <2>2, <2>3 DEF LinkTypes
<1> QED BY <1>2, <1>3, <1>4, <1>5 DEF LinkTypes

\* The links then begin the pool with the message.
LEMMA EndedHead ==
    ASSUME LinkTypes, next # NIL
    PROVE  Ended.next[msgFree_h] = m /\ m \in Message /\ m # msgFree_h
<1>1. m \in Message /\ m # msgFree_h /\ msgFree_h \in Node /\ m \in Node /\ next \in Node
      /\ links \in Links
  BY NodeFacts DEF LinkTypes
<1> DEFINE l1 == IF stores > 0 THEN links ELSE [links EXCEPT !.prev[next] = m]
           l2 == IF stores > 1 THEN l1 ELSE [l1 EXCEPT !.next[m] = next]
           l3 == IF stores > 2 THEN l2 ELSE [l2 EXCEPT !.prev[m] = msgFree_h]
<1>2. l1 \in Links
  BY <1>1, StoresType
<1> HIDE DEF l1
<1>3. l2 \in Links
  BY <1>1, <1>2, StoresType
<1> HIDE DEF l2
<1>4. l3 \in Links
  BY <1>1, <1>3, StoresType
<1> HIDE DEF l3
<1>5. Ended = [l3 EXCEPT !.next[msgFree_h] = m]
  BY DEF Ended, StoresFrom, l3, l2, l1
<1> QED BY <1>1, <1>4, <1>5 DEF Links

\* A store is made; the last one gives the message back.
LEMMA StoreStep ==
    ASSUME LinkInv, Store
    PROVE  LinkInv' /\ (Intact' <=> Intact) /\ [Queues!QNext]_(Queues!qvars)
<1>1. /\ Ended' = Ended /\ LinkTypes' /\ UNCHANGED <<m_sender, late>>
      /\ next # NIL /\ m # NIL /\ m \in Message
  BY StoreEnded, NodeFacts DEF LinkInv, LinkTypes, Store
<1>2. Intact' <=> Intact
  BY <1>1 DEF Intact
<1>3. Under'
  <2>1. links \in Links /\ next \in Node /\ m \in Node /\ msgFree_h \in Node /\ m # msgFree_h
        /\ stores \in 0 .. 3
    BY <1>1, NodeFacts DEF LinkInv, LinkTypes
  <2> SUFFICES ASSUME next' # NIL, late = 0
               PROVE  /\ links'.next[msgFree_h] = next' /\ next' # m'
                      /\ stores' > 0 => links'.prev[next'] = m'
                      /\ stores' > 1 => links'.next[m'] = next'
                      /\ stores' > 2 => links'.prev[m'] = msgFree_h
    BY <1>1 DEF Under
  <2>2. /\ links.next[msgFree_h] = next /\ next # m
        /\ stores > 0 => links.prev[next] = m
        /\ stores > 1 => links.next[m] = next
    BY <1>1 DEF LinkInv, Under
  <2>3. stores # 3 /\ UNCHANGED <<m, next>>
    BY <2>1 DEF Store
  <2>4. CASE stores = 0
    BY <2>1, <2>2, <2>3, <2>4 DEF Store, Links
  <2>5. CASE stores = 1
    BY <2>1, <2>2, <2>3, <2>5 DEF Store, Links
  <2>6. CASE stores = 2
    BY <2>1, <2>2, <2>3, <2>6 DEF Store, Links
  <2> QED BY <2>1, <2>3, <2>4, <2>5, <2>6
<1>4. Hand'
  BY <1>1 DEF Hand, Store
<1>5. [Queues!QNext]_(Queues!qvars)
  <2>1. CASE ~Intact
    <3>1. Intact' = FALSE
      BY <1>2, <2>1
    <3> QED BY <3>1 DEF Queues!QNext
  <2>2. CASE Intact /\ stores # 3
    <3>1. UNCHANGED <<m, next>>
      BY <2>2 DEF Store
    <3>2. \A h \in Heads : Chain(h)' = Chain(h)
      BY <1>1, <3>1 DEF Chain
    <3> QED BY <1>1, <1>2, <2>2, <3>1, <3>2, SameShown
  <2>3. CASE Intact /\ stores = 3
    <3>1. m' = NIL /\ next' = NIL
      BY <2>3 DEF Store
    <3>2. PICK w : Lists(Ended, w)
      BY <2>3, EndedType, IntactSound, SoundLists DEF LinkInv
    <3> DEFINE f == w[msgFree_h]
    <3>3. f # <<>> /\ m = Head(f) /\ f \in Seq(Message)
      BY <1>1, <3>2, EndedHead, NodeFacts, FirstOfList DEF LinkInv, Lists, ListsOf, list_empty
    <3>4. f = <<m>> \o Tail(f)
      BY <3>3
    <3>5. \A h \in Heads : Walk(Ended, h) = w[h]
      BY <3>2, ShownLists
    <3>6. /\ Chain(msgFree_h) = Tail(f) /\ Chain(msgFree_h)' = f
          /\ \A g \in Inbox : Chain(g)' = Chain(g)
      BY <1>1, <3>1, <3>5, NodeFacts DEF Chain
    <3>7. [g \in Inbox |-> Chain(g)]' = [g \in Inbox |-> Chain(g)]
      BY <3>6
    <3>8. Queues!PutBack
      BY <1>1, <3>1, <3>4, <3>6, <3>7 DEF Queues!PutBack
    <3>9. Intact' = Intact
      BY <1>2, <2>3
    <3> QED BY <2>3, <3>8, <3>9 DEF Queues!QNext
  <2> QED BY <2>1, <2>2, <2>3
<1> QED BY <1>1, <1>2, <1>3, <1>4, <1>5 DEF LinkInv

\* What fakeSend() does to the links when the first message of the pool is x.
Queued(l, d, x) == insertMessage(INIT_LIST_HEAD(list_del(l, x), x), d, x)

\* The links it leaves, store by store; t is the last of the queue.
LEMMA QueuedLinks ==
    ASSUME NEW l \in Links, NEW d \in Node, NEW x \in Node,
           NEW p, p = l.prev[x], NEW q, q = l.next[x], NEW t, t = l.prev[d]
    PROVE  LET k == Queued(l, d, x)
           IN /\ k \in Links /\ (x # d => k.prev[d] = x)
              /\ x # d /\ q # d => \A y \in Node :
                    /\ k.next[y] = IF y = t THEN x ELSE IF y = x THEN d
                                   ELSE IF y = p THEN q ELSE l.next[y]
                    /\ k.prev[y] = IF y = x THEN t ELSE IF y = d THEN x
                                   ELSE IF y = q THEN p ELSE l.prev[y]
<1> DEFINE y == l.prev[x]
           z == l.next[x]
           a == list_del(l, x)
           b == INIT_LIST_HEAD(a, x)
           c == b.prev[d]
           k == ListAddBetween(b, x, c, d)
<1>1. y \in Node /\ z \in Node
  BY DEF Links
<1>2. /\ a \in Links
      /\ \A n \in Node :
            /\ a.next[n] = IF n = y THEN z ELSE l.next[n]
            /\ a.prev[n] = IF n = z THEN y ELSE l.prev[n]
  <2> DEFINE e == ListDelBetween(l, y, z)
  <2>1. /\ e \in Links
        /\ \A n \in Node :
              /\ e.next[n] = IF n = y THEN z ELSE l.next[n]
              /\ e.prev[n] = IF n = z THEN y ELSE l.prev[n]
    <3> HIDE DEF y, z
    <3> QED BY <1>1, DelBetween
  <2>2. a = e
    BY DEF list_del
  <2> HIDE DEF a, e, y, z
  <2> QED BY <2>1, <2>2
<1> HIDE DEF a
<1>3. /\ b \in Links
      /\ \A n \in Node :
            /\ b.next[n] = IF n = x THEN x ELSE a.next[n]
            /\ b.prev[n] = IF n = x THEN x ELSE a.prev[n]
  BY <1>2 DEF INIT_LIST_HEAD, Links
<1> HIDE DEF b
<1>4. c \in Node
  BY <1>3 DEF Links
<1>5. /\ k \in Links
      /\ \A n \in Node :
            /\ k.next[n] = IF n = c THEN x ELSE IF n = x THEN d ELSE b.next[n]
            /\ k.prev[n] = IF n = x THEN c ELSE IF n = d THEN x ELSE b.prev[n]
  <2> HIDE DEF c
  <2> QED BY <1>3, <1>4, AddBetween
<1>6. Queued(l, d, x) = k
  BY DEF Queued, insertMessage, list_add_tail, k, c, b, a
<1> HIDE DEF k
<1>7. p = y /\ q = z /\ (x # d /\ q # d => t = c)
  BY <1>2, <1>3
<1> HIDE DEF c, y, z
<1>8. x # d => k.prev[d] = x
  BY <1>5
<1>9. ASSUME x # d, q # d, NEW n \in Node
      PROVE  /\ k.next[n] = IF n = t THEN x ELSE IF n = x THEN d
                            ELSE IF n = p THEN q ELSE l.next[n]
             /\ k.prev[n] = IF n = x THEN t ELSE IF n = d THEN x
                            ELSE IF n = q THEN p ELSE l.prev[n]
  BY <1>2, <1>3, <1>5, <1>7, <1>9
<1> QED BY <1>5, <1>6, <1>8, <1>9

\* An interrupt in freeMsg() leaves links.
LEMMA InterruptTypes ==
    ASSUME LinkInv, next # NIL, Interrupt
    PROVE  LinkInv' /\ late' = late + 1
<1> DEFINE x == links.next[msgFree_h]
<1>1. /\ links' = Queued(links, tcb_SSI, x) /\ m_sender' = [m_sender EXCEPT ![x] = tcb_SSI]
      /\ UNCHANGED <<killed, m, next, stores>> /\ late' = late + 1
  BY DEF Interrupt, Queue, allocMsg, Queued
<1>2. links \in Links /\ x \in Node /\ tcb_SSI \in Node /\ tcb_SSI \in Sender
  BY MsgListsAssumption, NodeFacts DEF LinkInv, LinkTypes, Links
<1> HIDE DEF x
<1>3. links' \in Links
  BY <1>1, <1>2, QueuedLinks
<1>4. m_sender' \in [Message -> Sender \cup {NIL}]
  BY <1>1, <1>2 DEF LinkInv, LinkTypes
<1>5. LinkTypes'
  BY <1>1, <1>3, <1>4 DEF LinkInv, LinkTypes
<1>6. late' # 0
  BY <1>1 DEF LinkInv, LinkTypes
<1>7. Under' /\ Hand'
  BY <1>1, <1>6 DEF Under, Hand
<1> QED BY <1>1, <1>5, <1>7 DEF LinkInv

\* An interrupt before the third store: the message it takes is also the one
\* that freeMsg() links behind m, so it ends up in two lists.
LEMMA EarlyInterrupt ==
    ASSUME LinkInv, next # NIL, late = 0, stores < 2, Interrupt
    PROVE  ~Sound(Ended')
<1>1. /\ links \in Links /\ m \in Message /\ m \in Node /\ next \in Node /\ msgFree_h \in Node
      /\ tcb_SSI \in Node /\ m # msgFree_h /\ m # tcb_SSI /\ tcb_SSI # msgFree_h
      /\ tcb_SSI \in Heads /\ msgFree_h \in Heads /\ stores \in {0, 1} /\ next # NIL
  BY NodeFacts DEF LinkInv, LinkTypes, Heads
<1>2. links.next[msgFree_h] = next /\ next # m
  BY DEF LinkInv, Under
<1>3. /\ next # msgFree_h
      /\ links' = Queued(links, tcb_SSI, next)
      /\ UNCHANGED <<m, next, stores>>
  BY <1>2 DEF Interrupt, Queue, list_empty, allocMsg, Queued
<1> DEFINE l1 == IF stores > 0 THEN links' ELSE [links' EXCEPT !.prev[next] = m]
           e == [[[l1 EXCEPT !.next[m] = next] EXCEPT !.prev[m] = msgFree_h]
                    EXCEPT !.next[msgFree_h] = m]
<1>4. Ended' = e
  <2>1. next' = next /\ m' = m /\ stores' = stores /\ ~(stores > 1) /\ ~(stores > 2)
    BY <1>1, <1>3
  <2>2. Ended' = (StoresFrom(stores, links))'
    BY <1>1, <2>1 DEF Ended
  <2> QED BY <2>1, <2>2 DEF StoresFrom
<1>5. links' \in Links /\ (next # tcb_SSI => links'.prev[tcb_SSI] = next)
  BY <1>1, <1>3, QueuedLinks
<1>6. e.next[msgFree_h] = m /\ e.next[m] = next
      /\ (next # tcb_SSI => e.prev[tcb_SSI] = next)
  <2>1. l1 \in Links /\ (next # tcb_SSI => l1.prev[tcb_SSI] = next)
    BY <1>1, <1>5 DEF Links
  <2> HIDE DEF l1
  <2> QED BY <1>1, <2>1 DEF Links
<1>7. e \in Links
  <2>1. l1 \in Links
    BY <1>1, <1>5, StoresType
  <2> HIDE DEF l1
  <2>2. [l1 EXCEPT !.next[m] = next] \in Links
    BY <1>1, <2>1, StoresType
  <2>3. [[l1 EXCEPT !.next[m] = next] EXCEPT !.prev[m] = msgFree_h] \in Links
    BY <1>1, <2>2, StoresType
  <2> QED BY <1>1, <2>3, StoresType
<1> HIDE DEF e
<1> SUFFICES ASSUME Sound(e) PROVE FALSE
  BY <1>4
<1>8. PICK w : Lists(e, w)
  BY <1>7, SoundLists
<1> DEFINE f == w[msgFree_h]
<1>9. next \in ToSet(f) /\ next \in Message
  <2>1. f # <<>> /\ f[1] = m /\ 1 \in 1 .. Len(f)
    BY <1>1, <1>6, <1>8, FirstOfList DEF list_empty
  <2>2. /\ f \in Seq(Node) /\ ToSet(f) \subseteq Message /\ Represents(e, msgFree_h, f)
    BY <1>1, <1>8, ListNodes DEF Lists, ListsOf
  <2>3. e.next[f[1]] \in ToSet(f) \cup {msgFree_h}
    BY <1>1, <1>7, <2>1, <2>2, Neighbours
  <2> QED BY <1>3, <1>6, <2>1, <2>2, <2>3
<1>10. e.prev[tcb_SSI] = next
  BY <1>1, <1>6, <1>9, NodeFacts
<1>11. next \in ToSet(w[tcb_SSI]) \cup {tcb_SSI}
  <2>1. w[tcb_SSI] \in Seq(Node) /\ Represents(e, tcb_SSI, w[tcb_SSI])
    BY <1>1, <1>8, ListNodes DEF Lists, ListsOf
  <2>2. e.prev[tcb_SSI] \in ToSet(w[tcb_SSI]) \cup {tcb_SSI}
    BY <1>1, <1>7, <2>1, Neighbours
  <2> QED BY <1>10, <2>2
<1> QED BY <1>1, <1>8, <1>9, <1>11, OtherList

\* After the second store the message it takes is the second of the pool that
\* freeMsg() leaves.
LEMMA LateInterrupt ==
    ASSUME LinkInv, next # NIL, late = 0, stores >= 2, Intact, Interrupt
    PROVE  \E w : /\ Lists(Ended, w) /\ Head(w[msgFree_h]) = m
                  /\ 2 \in 1 .. Len(w[msgFree_h]) /\ w[msgFree_h][2] = next
                  /\ Lists(Ended', [w EXCEPT ![msgFree_h] = RemoveAt(@, 2),
                                             ![tcb_SSI] = Append(@, next)])
                  /\ m_sender' = [m_sender EXCEPT ![next] = tcb_SSI]
<1>1. /\ links \in Links /\ m \in Message /\ m \in Node /\ next \in Node /\ msgFree_h \in Node
      /\ tcb_SSI \in Node /\ m # msgFree_h /\ m # tcb_SSI /\ tcb_SSI # msgFree_h
      /\ tcb_SSI \in Heads /\ msgFree_h \in Heads /\ stores \in {2, 3} /\ next # NIL
      /\ tcb_SSI \in Inbox
  BY NodeFacts DEF LinkInv, LinkTypes, Heads
<1>2. /\ links.next[msgFree_h] = next /\ next # m /\ links.prev[next] = m /\ links.next[m] = next
      /\ stores = 3 => links.prev[m] = msgFree_h
  BY <1>1 DEF LinkInv, Under
<1>3. /\ next # msgFree_h
      /\ links' = Queued(links, tcb_SSI, next)
      /\ m_sender' = [m_sender EXCEPT ![next] = tcb_SSI]
      /\ UNCHANGED <<m, next, stores>>
  BY <1>2 DEF Interrupt, Queue, list_empty, allocMsg, Queued
<1> DEFINE e == Ended
           k == Queued(e, tcb_SSI, next)
           q == links.next[next]
           t == links.prev[tcb_SSI]
<1>4. /\ e \in Links
      /\ \A y \in Node :
            /\ e.next[y] = IF y = msgFree_h THEN m ELSE links.next[y]
            /\ e.prev[y] = IF y = m THEN msgFree_h ELSE links.prev[y]
  <2>1. e \in Links
    BY EndedType DEF LinkInv
  <2>2. CASE stores = 2
    <3>1. e = [[links EXCEPT !.prev[m] = msgFree_h] EXCEPT !.next[msgFree_h] = m]
      BY <1>1, <2>2 DEF Ended, StoresFrom
    <3> QED BY <1>1, <2>1, <3>1 DEF Links
  <2>3. CASE stores = 3
    <3>1. e = [links EXCEPT !.next[msgFree_h] = m]
      BY <1>1, <2>3 DEF Ended, StoresFrom
    <3> QED BY <1>1, <1>2, <2>1, <2>3, <3>1 DEF Links
  <2> QED BY <1>1, <2>2, <2>3
<1> HIDE DEF e
<1>5. PICK w : Lists(e, w)
  BY <1>4, IntactSound, SoundLists DEF e
<1> DEFINE f == w[msgFree_h]
<1>6. /\ f # <<>> /\ f[1] = m /\ Head(f) = m /\ 1 \in 1 .. Len(f)
  BY <1>1, <1>4, <1>5, FirstOfList DEF list_empty
<1>7. /\ f \in Seq(Node) /\ ToSet(f) \subseteq Message /\ Represents(e, msgFree_h, f)
      /\ Len(f) \in Nat /\ IsInjective(f) /\ DOMAIN f = 1 .. Len(f)
      /\ \A i \in 1 .. Len(f) : f[i] \in ToSet(f)
  BY <1>1, <1>5, ListNodes, LenProperties DEF Lists, ListsOf
<1>8. 2 \in 1 .. Len(f) /\ f[2] = next
  <2>1. e.next[f[1]] = Position(msgFree_h, f, 1 + 1)
    BY <1>1, <1>4, <1>6, <1>7, Neighbours
  <2>2. Position(msgFree_h, f, 2) = next
    BY <1>1, <1>2, <1>4, <1>6, <2>1
  <2> QED BY <1>3, <2>2 DEF Position
<1>9. q # tcb_SSI /\ q # m
  <2>1. /\ e.next[f[2]] \in ToSet(f) \cup {msgFree_h}
        /\ e.next[f[2]] = Position(msgFree_h, f, 2 + 1)
    BY <1>1, <1>4, <1>7, <1>8, Neighbours
  <2>2. e.next[f[2]] = q
    BY <1>1, <1>3, <1>4, <1>8
  <2>3. q # m
    <3>1. CASE 3 \in 1 .. Len(f)
      <4>1. q = f[3]
        BY <2>1, <2>2, <3>1 DEF Position
      <4> QED BY <1>6, <1>7, <3>1, <4>1 DEF IsInjective
    <3>2. CASE 3 \notin 1 .. Len(f)
      BY <1>1, <2>1, <2>2, <3>2 DEF Position
    <3> QED BY <3>1, <3>2
  <2> QED BY <1>1, <1>7, <2>1, <2>2, <2>3, NodeFacts
<1>10. t # msgFree_h /\ t \in Node /\ q \in Node
  <2>1. w[tcb_SSI] \in Seq(Node) /\ Represents(e, tcb_SSI, w[tcb_SSI])
        /\ ToSet(w[tcb_SSI]) \subseteq Message
    BY <1>1, <1>5, ListNodes DEF Lists, ListsOf
  <2>2. e.prev[tcb_SSI] \in ToSet(w[tcb_SSI]) \cup {tcb_SSI}
    BY <1>1, <1>4, <2>1, Neighbours
  <2>3. e.prev[tcb_SSI] = t
    BY <1>1, <1>4
  <2> QED BY <1>1, <2>1, <2>2, <2>3, NodeFacts DEF Links
<1>11. next # tcb_SSI
  BY <1>7, <1>8, NodeFacts
<1>12. /\ links' \in Links
       /\ \A y \in Node :
             /\ links'.next[y] = IF y = t THEN next ELSE IF y = next THEN tcb_SSI
                                 ELSE IF y = m THEN q ELSE links.next[y]
             /\ links'.prev[y] = IF y = next THEN t ELSE IF y = tcb_SSI THEN next
                                 ELSE IF y = q THEN m ELSE links.prev[y]
  BY <1>1, <1>2, <1>3, <1>9, <1>11, QueuedLinks
<1>13. /\ k \in Links
       /\ \A y \in Node :
             /\ k.next[y] = IF y = t THEN next ELSE IF y = next THEN tcb_SSI
                            ELSE IF y = m THEN q ELSE e.next[y]
             /\ k.prev[y] = IF y = next THEN t ELSE IF y = tcb_SSI THEN next
                            ELSE IF y = q THEN m ELSE e.prev[y]
  <2>1. e.prev[next] = m /\ e.next[next] = q /\ e.prev[tcb_SSI] = t
    BY <1>1, <1>2, <1>3, <1>4
  <2> QED BY <1>1, <1>4, <1>9, <1>11, <2>1, QueuedLinks
<1> HIDE DEF k, q, t
<1>14. /\ Ended' \in Links
       /\ \A y \in Node :
             /\ Ended'.next[y] = IF y = msgFree_h THEN m ELSE links'.next[y]
             /\ Ended'.prev[y] = IF y = m THEN msgFree_h ELSE links'.prev[y]
  <2>1. next' = next /\ m' = m /\ stores' = stores
    BY <1>3
  <2>2. Ended' = (StoresFrom(stores, links))'
    BY <1>1, <2>1 DEF Ended
  <2>3. CASE stores = 2
    <3>1. Ended' = [[links' EXCEPT !.prev[m] = msgFree_h] EXCEPT !.next[msgFree_h] = m]
      BY <2>1, <2>2, <2>3 DEF StoresFrom
    <3> QED BY <1>1, <1>12, <3>1 DEF Links
  <2>4. CASE stores = 3
    <3>1. Ended' = [links' EXCEPT !.next[msgFree_h] = m]
      BY <2>1, <2>2, <2>4 DEF StoresFrom
    <3>2. links'.prev[m] = msgFree_h
      BY <1>1, <1>2, <1>9, <1>12, <2>4
    <3> QED BY <1>1, <1>12, <3>1, <3>2 DEF Links
  <2> QED BY <1>1, <2>3, <2>4
<1>15. Ended' = k
  <2>1. \A y \in Node : Ended'.next[y] = k.next[y] /\ Ended'.prev[y] = k.prev[y]
    BY <1>1, <1>2, <1>3, <1>4, <1>9, <1>10, <1>12, <1>13, <1>14
  <2> QED BY <1>13, <1>14, <2>1 DEF Links
<1>16. Lists(k, [w EXCEPT ![msgFree_h] = RemoveAt(@, 2), ![tcb_SSI] = Append(@, next)])
  BY <1>1, <1>5, <1>8, QueueLists DEF k, Queued
<1> QED BY <1>3, <1>5, <1>6, <1>8, <1>15, <1>16 DEF e

\* fakeSend() interrupts freeMsg(): between the second store and the last it
\* takes the message behind the one in hand, and otherwise damages the links.
LEMMA InterruptStep ==
    ASSUME LinkInv, next # NIL, Interrupt
    PROVE  /\ LinkInv' /\ Queues!QNext
           /\ ~Intact' => stores < 2 \/ late > 0
<1>1. LinkInv' /\ late' = late + 1 /\ late \in Nat /\ stores \in 0 .. 3 /\ Intact
      /\ UNCHANGED <<m, next, stores>>
  BY InterruptTypes DEF LinkInv, LinkTypes, Interrupt
<1>2. CASE late > 0
  <2>1. Intact' = FALSE
    BY <1>1, <1>2 DEF Intact
  <2> QED BY <1>1, <1>2, <2>1 DEF Queues!QNext
<1>3. CASE late = 0 /\ stores < 2
  <2>1. ~Sound(Ended')
    BY <1>3, EarlyInterrupt
  <2>2. Intact' = FALSE
    BY <2>1 DEF Intact, Sound, SoundOf
  <2> QED BY <1>1, <1>3, <2>2 DEF Queues!QNext
<1>4. CASE late = 0 /\ stores >= 2
  <2>1. PICK w : /\ Lists(Ended, w) /\ Head(w[msgFree_h]) = m
                 /\ 2 \in 1 .. Len(w[msgFree_h]) /\ w[msgFree_h][2] = next
                 /\ Lists(Ended', [w EXCEPT ![msgFree_h] = RemoveAt(@, 2),
                                            ![tcb_SSI] = Append(@, next)])
                 /\ m_sender' = [m_sender EXCEPT ![next] = tcb_SSI]
    BY <1>1, <1>4, LateInterrupt
  <2> DEFINE f == w[msgFree_h]
             v == [w EXCEPT ![msgFree_h] = RemoveAt(@, 2), ![tcb_SSI] = Append(@, next)]
  <2>2. w \in [Heads -> Seq(Message)] /\ f \in Seq(Message) /\ Len(f) \in Nat /\ f # <<>>
    <3>1. w \in [Heads -> Seq(Message)] /\ f \in Seq(Message)
      BY <2>1, NodeFacts DEF Lists, ListsOf
    <3>2. Len(f) \in Nat /\ f # <<>>
      BY <2>1, <3>1
    <3> QED BY <3>1, <3>2
  <2>3. /\ v[msgFree_h] = RemoveAt(f, 2) /\ v[tcb_SSI] = Append(w[tcb_SSI], next)
        /\ \A g \in Inbox : g # tcb_SSI => v[g] = w[g]
    BY <2>2, NodeFacts
  <2>4. Lists(Ended', v)
    BY <2>1
  <2> HIDE DEF v
  <2>5. /\ Tail(f) # <<>> /\ Head(Tail(f)) = next /\ Tail(RemoveAt(f, 2)) = Tail(Tail(f))
    <3>1. /\ Tail(f) \in Seq(Message) /\ Len(Tail(f)) = Len(f) - 1 /\ Len(f) >= 2
          /\ \A j \in 1 .. Len(f) - 1 : Tail(f)[j] = f[j + 1]
      BY <2>1, <2>2, HeadTailProperties
    <3>2. Tail(f) # <<>> /\ Head(Tail(f)) = next
      <4>1. Tail(f) # <<>>
        <5> DEFINE r == Tail(f)
        <5>1. r \in Seq(Message) /\ Len(r) = Len(f) - 1 /\ Len(f) >= 2
          BY <3>1
        <5> HIDE DEF r
        <5>2. Len(r) # 0
          BY <2>2, <5>1
        <5>3. r # <<>>
          BY <5>2, EmptySeq
        <5> QED BY <5>3 DEF r
      <4>2. Tail(f)[1] = f[2]
        BY <2>2, <3>1
      <4> QED BY <2>1, <3>1, <4>1, <4>2
    <3>3. /\ Tail(Tail(f)) \in Seq(Message) /\ Len(Tail(Tail(f))) = Len(f) - 2
          /\ \A j \in 1 .. Len(f) - 2 : Tail(Tail(f))[j] = f[j + 2]
      <4> DEFINE r == Tail(f)
      <4>1. r \in Seq(Message) /\ r # <<>> /\ Len(r) = Len(f) - 1
            /\ \A j \in 1 .. Len(f) - 1 : r[j] = f[j + 1]
        BY <3>1, <3>2
      <4> HIDE DEF r
      <4>2. /\ Tail(r) \in Seq(Message) /\ Len(Tail(r)) = Len(r) - 1
            /\ \A j \in 1 .. Len(r) - 1 : Tail(r)[j] = r[j + 1]
        BY <4>1, HeadTailProperties
      <4>3. \A j \in 1 .. Len(f) - 2 : Tail(r)[j] = f[j + 2]
        BY <2>2, <4>1, <4>2
      <4> QED BY <2>2, <4>1, <4>2, <4>3 DEF r
    <3> DEFINE o == RemoveAt(f, 2)
    <3>4. /\ o \in Seq(Message) /\ Len(o) = Len(f) - 1
          /\ \A j \in 1 .. Len(f) - 1 : o[j] = IF j < 2 THEN f[j] ELSE f[j + 1]
      BY <2>1, <2>2, RemoveAtProperties
    <3> HIDE DEF o
    <3>5. o # <<>>
      BY <2>2, <3>1, <3>4
    <3>6. /\ Tail(o) \in Seq(Message) /\ Len(Tail(o)) = Len(o) - 1
          /\ \A j \in 1 .. Len(o) - 1 : Tail(o)[j] = o[j + 1]
      BY <3>4, <3>5, HeadTailProperties
    <3>7. Len(Tail(o)) = Len(f) - 2 /\ \A j \in 1 .. Len(f) - 2 : Tail(o)[j] = f[j + 2]
      BY <2>2, <3>1, <3>4, <3>6
    <3>8. Tail(o) = Tail(Tail(f))
      BY <3>3, <3>6, <3>7, SeqEqual
    <3> QED BY <3>2, <3>8 DEF o
  <2>6. \A h \in Heads : Walk(Ended, h) = w[h]
    BY <2>1, ShownLists
  <2>7. Sound(Ended') /\ \A h \in Heads : Walk(Ended', h) = v[h]
    BY <2>4, ShownLists
  <2>8. Intact' = TRUE /\ Intact = TRUE
    BY <1>1, <1>4, <2>7 DEF Intact, Sound, SoundOf
  <2>9. /\ Chain(msgFree_h) = Tail(f) /\ Chain(msgFree_h)' = Tail(RemoveAt(f, 2))
        /\ \A g \in Inbox : Chain(g) = w[g]
        /\ \A g \in Inbox : Chain(g)' = v[g]
    BY <1>1, <2>3, <2>6, <2>7, NodeFacts DEF Chain
  <2>10. [g \in Inbox |-> Chain(g)]'
            = [[g \in Inbox |-> Chain(g)] EXCEPT ![tcb_SSI] = Append(@, Head(Tail(f)))]
    BY <2>3, <2>5, <2>9, NodeFacts
  <2>11. Queues!Post(tcb_SSI, tcb_SSI)
    BY <1>1, <2>1, <2>5, <2>9, <2>10 DEF Queues!Post
  <2>12. Queues!QNext
    BY <2>8, <2>11, MsgListsAssumption DEF Queues!QNext
  <2> QED BY <1>1, <1>4, <2>8, <2>12
<1> QED BY <1>1, <1>2, <1>3, <1>4

\* Every step keeps the invariant, is one of the queues or none, and damages
\* the links only as DamageIsRace says.
LEMMA LinkStep ==
    ASSUME LinkInv, [Next]_vars
    PROVE  /\ LinkInv' /\ [Queues!QNext]_(Queues!qvars)
           /\ Intact /\ ~Intact' => Interrupt /\ next # NIL /\ (stores < 2 \/ late > 0)
<1>1. ASSUME NEW d \in Inbox, NEW s \in Sender, Send(d, s)
      PROVE  LinkInv' /\ Intact' /\ Queues!QNext
  <2>1. Intact /\ next = NIL /\ Queue(d, s) /\ UNCHANGED <<killed, m, next, stores, late>>
    BY <1>1 DEF Send, Handler, LinkInv, LinkTypes
  <2> QED BY <2>1, QueueStep
<1>2. ASSUME NEW d \in Inbox, NEW source \in Sender \cup {NIL}, Recv(d, source)
      PROVE  LinkInv' /\ Intact' /\ Queues!QNext
  BY <1>2, RecvStep
<1>3. ASSUME Interrupt, next = NIL PROVE LinkInv' /\ Intact' /\ Queues!QNext
  <2>1. Intact /\ Queue(tcb_SSI, tcb_SSI) /\ UNCHANGED <<killed, m, next, stores>> /\ late' = 0
    BY <1>3 DEF Interrupt
  <2> QED BY <1>3, <2>1, MsgListsAssumption, QueueStep
<1>4. ASSUME NEW d \in Inbox, FreeTcb(d)
      PROVE  LinkInv' /\ Intact' /\ UNCHANGED Queues!qvars
  BY <1>4, FreeTcbStep
<1>5. CASE UNCHANGED vars
  <2>1. UNCHANGED <<links, m_sender, killed, m, next, stores, late>>
    BY <1>5 DEF vars
  <2>2. Ended' = Ended
    BY <2>1 DEF Ended, StoresFrom
  <2>3. Intact' <=> Intact
    BY <2>1, <2>2 DEF Intact
  <2>4. LinkInv'
    BY <2>1, <2>3 DEF LinkInv, LinkTypes, Under, Hand
  <2>5. \A h \in Heads : Chain(h)' = Chain(h)
    BY <2>1, <2>2 DEF Chain
  <2>6. CASE Intact
    BY <2>1, <2>3, <2>4, <2>5, <2>6, SameShown
  <2>7. CASE ~Intact
    <3>1. Intact' = FALSE
      BY <2>3, <2>7
    <3> QED BY <2>4, <2>7, <3>1 DEF Queues!QNext
  <2> QED BY <2>6, <2>7
<1>6. CASE Pop
  BY <1>6, PopStep
<1>7. CASE ReadHead
  BY <1>7, ReadHeadStep
<1>8. CASE Store
  BY <1>8, StoreStep
<1>9. CASE Damaged
  BY <1>5, <1>9 DEF Damaged
<1>10. CASE Interrupt /\ next # NIL
  BY <1>10, InterruptStep
<1> QED BY <1>1, <1>2, <1>3, <1>4, <1>5, <1>6, <1>7, <1>8, <1>9, <1>10 DEF Next

\* In every reachable state the links are as LinkInv says.
THEOREM LinksAlways == Spec => []LinkInv
<1>1. Init => LinkInv
  BY LinksInit
<1>2. LinkInv /\ [Next]_vars => LinkInv'
  BY LinkStep
<1> QED BY <1>1, <1>2, PTL DEF Spec

\* While the links are intact, msg.c on the lists of listx.h is a pool and a
\* queue for each thread: whatever order the sends, the receives, the deaths and
\* the interrupts come in, also one between the stores of __list_add.
THEOREM ListsImplementQueues == Spec => ImplementsQueues
<1>1. Init => Queues!QInit
  BY LinksInit
<1>2. LinkInv /\ [Next]_vars => [Queues!QNext]_(Queues!qvars)
  BY LinkStep
<1> QED BY <1>1, <1>2, LinksAlways, PTL DEF Spec, ImplementsQueues, Queues!QSpec

\* The one step that damages the links is the interrupt that sends to the SSI
\* in the middle of its freeMsg().
THEOREM OnlyTheRaceDamages == Spec => DamageIsRace
<1>1. LinkInv /\ [Next]_vars
        => [Intact /\ ~Intact' => Interrupt /\ next # NIL /\ (stores < 2 \/ late > 0)]_vars
  BY LinkStep
<1> QED BY <1>1, LinksAlways, PTL DEF Spec, DamageIsRace

=============================================================================
