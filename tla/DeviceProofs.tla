----------------------------- MODULE DeviceProofs -----------------------------
(***************************************************************************)
(* Proofs about module Deaths, and so about module Devices, whose steps it *)
(* takes. What the properties rest on is Good: the links are lists, the    *)
(* lists hold the threads they should, and what is asked, completed and    *)
(* answered for a thread is so once and in its turn. Every step keeps it   *)
(* until waitForIO links a thread that is not in the ready queue.          *)
(***************************************************************************)
EXTENDS Deaths, ListProofs, TLAPS

\* The heads of the lists of threads, what a list holds, and that the links are
\* lists.
AllHeads == Heads \cup {tcbFree}
Held(l, h) == ToSet(Walk(l, h))
Ordered(l) == l \in Links /\ SoundOf(AllHeads, Threads, l)

\* What a status register holds.
Statuses == {0, 1, 3, 5}

\* The messages to the SSI: that the operation of d is over, and what t asks.
Completion(d, status) ==
    [service |-> "WAKE_UP_FROM_IO", sender |-> DEV_ADDR_BASE(d[1], d[2]), payload |-> status]
Completions(d) == {Completion(d, status) : status \in Statuses}
ToDie(t, service) == [service |-> service, sender |-> t, payload |-> 0]
LastRequests(t) == {ToDie(t, "TERMINATE"), ToDie(t, "TERMINATED")}
RequestsOf(t) == {WaitForIO(t)} \cup LastRequests(t)
Letters == UNION ({Completions(d) : d \in Lines \X {0, 7}} \cup {RequestsOf(t) : t \in Users})

\* The message the SSI serves and those in its inbox.
Unserved == IF ssi_msg = NIL THEN inbox ELSE <<ssi_msg>> \o inbox

\* The sequence q has an element in M; it has no two.
Holds(q, M) == \E i \in 1 .. Len(q) : q[i] \in M
Once(q, M) == \A i, j \in 1 .. Len(q) : q[i] \in M /\ q[j] \in M => i = j

\* t waits in the queue of its device.
Waits(t) == t \in Held(links, uses[t])

\* What the variables hold, and that the processor neither hangs nor runs wild.
Typed ==
    /\ uses \in Injection(Users, Device)
    /\ pc \in [Users -> {"print", "send", "recv", "ack", "end"}]
    /\ answer \in [Users -> Seq(Statuses)]
    /\ device \in [Device -> {"ready", "busy", "done"}]
    /\ inbox \in Seq(Letters) /\ ssi_msg \in Letters \cup {NIL}
    /\ power \in {"on", "panicked", "faulted", "aborted"}
    /\ dead \subseteq Users

\* Only the number of no device, 3, is computed from a status.
Remembered ==
    /\ term \in [0 .. 7 -> Statuses \cup {NIL}]
    /\ \A n \in 0 .. 7 : n # 3 => term[n] = NIL

\* Every thread but the one that runs, cur, is in a list, tcb_test in waitQueue;
\* the lists of the devices hold the threads that use them.
Arranged(l, cur, u) ==
    /\ Ordered(l) /\ cur \in Threads \cup {NIL}
    /\ \A h \in AllHeads : cur \notin Held(l, h)
    /\ \A t \in Threads : t = cur \/ \E h \in AllHeads : t \in Held(l, h)
    /\ tcb_test \in Held(l, waitQueue)
    /\ \A d \in DeviceQueues : \A t \in Held(l, d) : t \in Users /\ u[t] = d

\* The dead are on the list of free TCBs.
Placed ==
    /\ Arranged(links, currentThread, uses)
    /\ power # "aborted" => Held(links, tcbFree) = dead

\* What a thread asks for, it asks for once, and has not got.
AskedOf(t) ==
    /\ Once(Unserved, RequestsOf(t)) /\ Len(answer[t]) <= 1
    /\ Holds(Unserved, RequestsOf(t)) \/ answer[t] # <<>> \/ Waits(t) => pc[t] = "recv"
    /\ Holds(Unserved, RequestsOf(t)) => answer[t] = <<>> /\ ~Waits(t)
    /\ answer[t] # <<>> => ~Waits(t)

\* The operation of a thread is over when its completion is under way, and both
\* when it is answered, unless it can be told of another's.
TimelyOf(t) ==
    uses[t][2] \notin {3, 7} =>
        /\ Once(Unserved, Completions(uses[t]))
        /\ Holds(Unserved, Completions(uses[t])) => device[uses[t]] = "ready"
        /\ pc[t] \in {"print", "ack", "end"} \/ answer[t] # <<>>
               \/ Holds(Unserved, LastRequests(t))
              => device[uses[t]] = "ready" /\ ~Holds(Unserved, Completions(uses[t]))

\* A thread that waits for its completion, or will, has it to come, or it came
\* early.
KeptOf(t) ==
    pc[t] = "send" \/ Holds(Unserved, {WaitForIO(t)}) \/ Waits(t)
        => device[uses[t]] # "ready" \/ Holds(Unserved, Completions(uses[t])) \/ t \in early

\* The same of all threads.
Asked == \A t \in Users : AskedOf(t)
Timely == \A t \in Users : TimelyOf(t)
Kept == \A t \in Users : KeptOf(t)

\* A step forgets that a completion came early only when its device is at work.
Recalled == \A t \in Users : t \in early => t \in early' \/ device'[uses[t]] # "ready"

\* Only devices in use work, and only their completions are sent if all have
\* number 0.
Few ==
    /\ \A d \in Device : device[d] # "ready" => \E t \in Users : uses[t] = d
    /\ (\A t \in Users : uses[t][2] = 0) =>
          \A d \in Lines \X {0, 7} :
             Holds(Unserved, Completions(d)) => \E t \in Users : uses[t] = d

\* The invariant.
Told == Asked /\ Timely /\ Kept /\ Few
Good == Typed /\ Remembered /\ Placed /\ Told
GoodInv == broken \in BOOLEAN /\ (~broken => Good)

-----------------------------------------------------------------------------
(* The lists as sets.                                                      *)

\* The heads and the threads are different nodes.
LEMMA NodeFacts ==
    /\ Kinds(AllHeads, Threads)
    /\ {readyQueue, waitQueue, tcbFree} \cup DeviceQueues = AllHeads
    /\ readyQueue # waitQueue /\ tcbFree \notin Heads
    /\ readyQueue \notin DeviceQueues /\ waitQueue \notin DeviceQueues
    /\ tcb_SSI \in Threads /\ Users \subseteq Threads /\ tcb_SSI \notin Users
    /\ tcb_test \in Threads \ Users /\ tcb_test # tcb_SSI
    /\ NIL \notin Threads
<1>1. Threads \subseteq Node /\ Heads \subseteq Node /\ tcbFree \in Node /\ tcbFree \notin Threads
      /\ tcbFree \notin Heads
  BY DevicesAssumption, DeathsAssumption DEF Heads
<1>2. Threads \cap Heads = {}
  BY DevicesAssumption DEF Heads
<1>3. Kinds(AllHeads, Threads)
  BY <1>1, <1>2 DEF Kinds, AllHeads
<1>4. {readyQueue, waitQueue, tcbFree} \cup DeviceQueues = AllHeads
  BY DEF AllHeads, Heads
<1> QED
  BY <1>1, <1>3, <1>4, DevicesAssumption, NodeAssumption DEF Threads

\* Lists in order are the sequences that are walked.
LEMMA OrderedLists ==
    ASSUME NEW l, Ordered(l)
    PROVE  \E w : /\ ListsOf(AllHeads, Threads, l, w)
                  /\ \A h \in AllHeads : w[h] = Walk(l, h) /\ Returns(l, h)
<1>1. l \in Links /\ Kinds(AllHeads, Threads)
  BY NodeFacts DEF Ordered
<1>2. PICK w : ListsOf(AllHeads, Threads, l, w)
  BY <1>1, ListsSound DEF Ordered
<1> QED
  BY <1>1, <1>2, ListsWalked

\* Sequences that are linked are lists in order.
LEMMA ListsOrdered ==
    ASSUME NEW l, NEW w, ListsOf(AllHeads, Threads, l, w)
    PROVE  /\ Ordered(l)
           /\ \A h \in AllHeads : w[h] = Walk(l, h) /\ Held(l, h) = ToSet(w[h])
<1>1. l \in Links /\ Kinds(AllHeads, Threads)
  BY NodeFacts DEF ListsOf
<1>2. SoundOf(AllHeads, Threads, l)
  BY <1>1, ListsSound
<1>3. \A h \in AllHeads : w[h] = Walk(l, h)
  BY <1>1, ListsWalked
<1> QED
  BY <1>1, <1>2, <1>3 DEF Ordered, Held

\* No thread is in two lists, and a search finds the threads of its list.
LEMMA HeldFacts ==
    ASSUME NEW l, Ordered(l), NEW h \in AllHeads
    PROVE  /\ Held(l, h) \subseteq Threads
           /\ \A k \in AllHeads : k # h => Held(l, h) \cap Held(l, k) = {}
           /\ \A t \in Threads : Linked(l, h, t) <=> t \in Held(l, h)
           /\ \A t : ~Loops(l, h, t)
           /\ \A t : Contains(Walk(l, h), t) <=> t \in Held(l, h)
<1>1. PICK w : /\ ListsOf(AllHeads, Threads, l, w)
               /\ \A g \in AllHeads : w[g] = Walk(l, g) /\ Returns(l, g)
  BY OrderedLists
<1>2. \A g \in AllHeads : Held(l, g) = ToSet(w[g])
  BY <1>1 DEF Held
<1>3. Kinds(AllHeads, Threads)
  BY NodeFacts
<1>4. w[h] \in Seq(Node) /\ h \in Node /\ ToSet(w[h]) \subseteq Threads
  BY <1>1, <1>3, ListsNodes
<1>5. \A k \in AllHeads : k # h => Held(l, h) \cap Held(l, k) = {}
  BY <1>1, <1>2 DEF ListsOf
<1>6. \A t : ~Loops(l, h, t)
  BY <1>1 DEF Loops
<1>7. \A t : Contains(Walk(l, h), t) <=> t \in Held(l, h)
  BY DEF Contains, Held, ToSet
<1>8. ASSUME NEW t \in Threads PROVE Linked(l, h, t) <=> t \in Held(l, h)
  <2> DEFINE r == Trail(l, h)
  <2>1. r \in Seq(Node) /\ Len(r) \in Nat /\ Len(r) >= 1
    <3>1. l \in Links
      BY DEF Ordered
    <3>2. r \in Seq(Node) /\ Len(r) \in 1 .. Cardinality(Node)
      BY <1>4, <3>1, TrailPath
    <3>3. Cardinality(Node) \in Nat
      BY NodeAssumption, FS_CardinalityType
    <3> QED BY <3>2, <3>3
  <2>2. r[Len(r)] = h
    BY <1>1 DEF Returns, Last
  <2>3. Walk(l, h) = Front(r)
    BY DEF Walk
  <2> HIDE DEF r
  <2>4. Len(Front(r)) = Len(r) - 1 /\ \A i \in 1 .. Len(r) - 1 : Front(r)[i] = r[i]
    <3>1. Len(r) - 1 \in Int /\ \A i \in 1 .. Len(r) - 1 : r[i] \in Node
      BY <2>1
    <3> DEFINE n == Len(r) - 1
               f == SubSeq(r, 1, n)
    <3>2. n \in Nat /\ n - 1 + 1 = n /\ \A i \in 1 .. n : 1 + i - 1 = i
      BY <2>1
    <3>3. Front(r) = f
      BY <2>1 DEF Front
    <3> HIDE DEF n
    <3>4. /\ Len(f) = (IF 1 <= n THEN n - 1 + 1 ELSE 0)
          /\ \A i \in 1 .. n - 1 + 1 : f[i] = r[1 + i - 1]
      BY <3>1, <3>2, SubSeqProperties DEF n
    <3> HIDE DEF f
    <3>5. Len(f) = n
      BY <3>2, <3>4
    <3>6. \A i \in 1 .. n : f[i] = r[i]
      BY <3>2, <3>4
    <3> QED BY <3>3, <3>5, <3>6 DEF n
  <2>5. t # h
    BY <1>3 DEF Kinds
  <2>6. Contains(r, t) <=> \E i \in 1 .. Len(r) - 1 : r[i] = t
    BY <2>1, <2>2, <2>5 DEF Contains
  <2>7. Contains(Front(r), t) <=> \E i \in 1 .. Len(r) - 1 : r[i] = t
    BY <2>4 DEF Contains
  <2> QED BY <1>7, <2>3, <2>6, <2>7 DEF Linked, r
<1> QED
  BY <1>2, <1>4, <1>5, <1>6, <1>7, <1>8

\* t is in none of the lists.
Loose(l, t) == t \in Threads /\ \A h \in AllHeads : t \notin Held(l, h)

\* m holds what l holds, except that t is in the list h alone; or, in no list.
Puts(l, m, t, h) ==
    /\ Ordered(m)
    /\ \A k \in AllHeads : Held(m, k) = IF k = h THEN Held(l, k) \cup {t} ELSE Held(l, k) \ {t}
Takes(l, m, t) == Ordered(m) /\ \A k \in AllHeads : Held(m, k) = Held(l, k) \ {t}

\* insertThread and freeTcb put a thread that is in no list in theirs.
LEMMA LoosePut ==
    ASSUME NEW l, Ordered(l), NEW t, Loose(l, t), NEW h \in AllHeads
    PROVE  Puts(l, list_add_tail(l, t, h), t, h) /\ Puts(l, list_add(l, t, h), t, h)
<1>1. PICK w : /\ ListsOf(AllHeads, Threads, l, w)
               /\ \A g \in AllHeads : w[g] = Walk(l, g) /\ Returns(l, g)
  BY OrderedLists
<1>2. Kinds(AllHeads, Threads) /\ LooseOf(AllHeads, Threads, w, t)
  BY <1>1, NodeFacts DEF LooseOf, Loose, Held
<1>3. /\ ListsOf(AllHeads, Threads, list_add_tail(l, t, h), [w EXCEPT ![h] = Append(@, t)])
      /\ ListsOf(AllHeads, Threads, list_add(l, t, h), [w EXCEPT ![h] = <<t>> \o @])
  BY <1>1, <1>2, ListsAdd
<1>4. w[h] \in Seq(Node) /\ IsInjective(w[h]) /\ DOMAIN w = AllHeads
      /\ t \in Node /\ t \notin ToSet(w[h])
  BY <1>1, <1>2, ListsNodes DEF ListsOf, LooseOf, Kinds
<1>5. ToSet(Append(w[h], t)) = ToSet(w[h]) \cup {t} /\ ToSet(<<t>> \o w[h]) = ToSet(w[h]) \cup {t}
  BY <1>4, InsertThreadPlaces, PushPlaces
<1>6. \A k \in AllHeads : Held(l, k) = ToSet(w[k]) /\ t \notin Held(l, k)
  BY <1>1 DEF Held, Loose
<1>7. ASSUME NEW m, NEW s, ListsOf(AllHeads, Threads, m, [w EXCEPT ![h] = s]),
             ToSet(s) = ToSet(w[h]) \cup {t}
      PROVE  Puts(l, m, t, h)
  <2>1. Ordered(m) /\ \A k \in AllHeads : Held(m, k) = ToSet([w EXCEPT ![h] = s][k])
    BY <1>7, ListsOrdered
  <2> QED BY <1>4, <1>6, <1>7, <2>1 DEF Puts
<1> QED
  BY <1>3, <1>5, <1>7

\* A thread taken out of its list is in none, and keeps no other one.
LEMMA Unlinked ==
    ASSUME NEW l, Ordered(l), NEW h \in AllHeads, NEW t \in Held(l, h)
    PROVE  Takes(l, list_del(l, t), t) /\ Loose(list_del(l, t), t)
<1>1. PICK w : /\ ListsOf(AllHeads, Threads, l, w)
               /\ \A g \in AllHeads : w[g] = Walk(l, g) /\ Returns(l, g)
  BY OrderedLists
<1>2. Kinds(AllHeads, Threads)
  BY NodeFacts
<1>3. \A k \in AllHeads : Held(l, k) = ToSet(w[k])
  BY <1>1 DEF Held
<1>4. w[h] \in Seq(Node) /\ DOMAIN w = AllHeads /\ ToSet(w[h]) \subseteq Threads
  BY <1>1, <1>2, ListsNodes DEF ListsOf
<1>5. PICK i \in 1 .. Len(w[h]) : w[h][i] = t
  BY <1>3, <1>4, LenProperties DEF ToSet
<1> DEFINE m == list_del(l, t)
           v == [w EXCEPT ![h] = RemoveAt(@, i)]
<1>6. ListsOf(AllHeads, Threads, m, v) /\ LooseOf(AllHeads, Threads, v, t)
  BY <1>1, <1>2, <1>5, ListsUnlink
<1>7. \A k \in AllHeads : v[k] = IF k = h THEN RemoveAt(w[h], i) ELSE w[k]
  BY <1>4
<1> HIDE DEF m, v
<1>8. Ordered(m) /\ \A k \in AllHeads : Held(m, k) = ToSet(v[k])
  BY <1>6, ListsOrdered
<1>9. Loose(m, t)
  BY <1>6, <1>8 DEF Loose, LooseOf
<1>10. ToSet(w[h]) \ {t} \subseteq ToSet(RemoveAt(w[h], i))
  <2> DEFINE r == RemoveAt(w[h], i)
  <2>1. /\ Len(r) = Len(w[h]) - 1 /\ r \in Seq(Node) /\ Len(w[h]) \in Nat
        /\ \A j \in 1 .. Len(w[h]) - 1 : r[j] = IF j < i THEN w[h][j] ELSE w[h][j + 1]
    BY <1>4, RemoveAtProperties, LenProperties
  <2>2. DOMAIN r = 1 .. Len(w[h]) - 1 /\ DOMAIN (w[h]) = 1 .. Len(w[h])
    BY <1>4, <2>1, LenProperties
  <2> HIDE DEF r
  <2>3. ASSUME NEW j \in 1 .. Len(w[h]), w[h][j] # t PROVE w[h][j] \in ToSet(r)
    <3>1. CASE j < i
      <4>1. j \in 1 .. Len(w[h]) - 1 /\ r[j] = w[h][j]
        BY <1>5, <2>1, <3>1
      <4> QED BY <2>2, <4>1 DEF ToSet
    <3>2. CASE j > i
      <4>1. j - 1 \in 1 .. Len(w[h]) - 1 /\ ~(j - 1 < i) /\ (j - 1) + 1 = j
        BY <1>5, <2>1, <3>2
      <4>2. r[j - 1] = w[h][j]
        BY <2>1, <4>1
      <4> QED BY <2>2, <4>1, <4>2 DEF ToSet
    <3> QED BY <1>5, <2>1, <2>3, <3>1, <3>2
  <2> QED BY <2>2, <2>3 DEF ToSet, r
<1>11. ToSet(RemoveAt(w[h], i)) \subseteq ToSet(w[h])
  BY <1>4, ToSetRemoveAt
<1>12. \A k \in AllHeads : k # h => t \notin Held(l, k)
  BY HeldFacts
<1>13. \A k \in AllHeads : Held(m, k) = Held(l, k) \ {t}
  BY <1>3, <1>7, <1>8, <1>9, <1>10, <1>11, <1>12 DEF Loose
<1> QED
  BY <1>8, <1>9, <1>13 DEF Takes, m

\* outThread takes out the thread it finds.
LEMMA OutTaken ==
    ASSUME NEW l, Ordered(l), NEW h \in AllHeads, NEW t \in Threads
    PROVE  /\ t \notin Held(l, h) => outThread(l, h, t) = l
           /\ t \in Held(l, h) => Takes(l, outThread(l, h, t), t) /\ Loose(outThread(l, h, t), t)
<1>1. Linked(l, h, t) <=> t \in Held(l, h)
  BY HeldFacts
<1>2. CASE t \in Held(l, h)
  <2> DEFINE m == list_del(l, t)
  <2>1. Takes(l, m, t) /\ Loose(m, t)
    BY <1>2, Unlinked
  <2>2. outThread(l, h, t) = INIT_LIST_HEAD(m, t)
    BY <1>1, <1>2 DEF outThread
  <2> HIDE DEF m
  <2>3. PICK w : /\ ListsOf(AllHeads, Threads, m, w)
                 /\ \A g \in AllHeads : w[g] = Walk(m, g) /\ Returns(m, g)
    BY <2>1, OrderedLists DEF Takes
  <2>4. Kinds(AllHeads, Threads) /\ LooseOf(AllHeads, Threads, w, t)
    BY <2>1, <2>3, NodeFacts DEF LooseOf, Loose, Held
  <2> DEFINE n == INIT_LIST_HEAD(m, t)
  <2>5. ListsOf(AllHeads, Threads, n, w)
    BY <2>3, <2>4, ListsInit
  <2> HIDE DEF n
  <2>6. Ordered(n) /\ \A g \in AllHeads : Held(n, g) = Held(m, g)
    BY <2>3, <2>5, ListsOrdered DEF Held
  <2> QED BY <1>2, <2>1, <2>2, <2>6 DEF Takes, Loose, n
<1> QED
  BY <1>1, <1>2 DEF outThread

\* removeThread takes out the first thread of a list that has one.
LEMMA FirstTaken ==
    ASSUME NEW l, Ordered(l), NEW h \in AllHeads
    PROVE  /\ list_empty(l, h) <=> Held(l, h) = {}
           /\ ~list_empty(l, h) =>
                 /\ l.next[h] \in Held(l, h) /\ Takes(l, removeThread(l, h), l.next[h])
                 /\ Loose(removeThread(l, h), l.next[h])
<1>1. PICK w : /\ ListsOf(AllHeads, Threads, l, w)
               /\ \A g \in AllHeads : w[g] = Walk(l, g) /\ Returns(l, g)
  BY OrderedLists
<1>2. Kinds(AllHeads, Threads)
  BY NodeFacts
<1>3. Held(l, h) = ToSet(w[h])
  BY <1>1 DEF Held
<1>4. /\ list_empty(l, h) <=> w[h] = <<>>
      /\ w[h] # <<>> => l.next[h] = w[h][1] /\ 1 \in 1 .. Len(w[h])
  BY <1>1, <1>2, ListsFirst
<1>5. DOMAIN (w[h]) = 1 .. Len(w[h])
  BY <1>1, <1>2, ListsNodes, LenProperties
<1>6. w[h] # <<>> => l.next[h] \in Held(l, h)
  BY <1>3, <1>4, <1>5 DEF ToSet
<1>7. w[h] = <<>> => Held(l, h) = {}
  BY <1>3 DEF ToSet
<1>8. CASE ~list_empty(l, h)
  <2>1. removeThread(l, h) = list_del(l, l.next[h])
    BY <1>8 DEF removeThread, list_next
  <2> QED BY <1>4, <1>6, <1>8, <2>1, Unlinked
<1> QED
  BY <1>4, <1>6, <1>7, <1>8

\* A thread moves from one list to another.
LEMMA MovedPut ==
    ASSUME NEW l, Ordered(l), NEW m, NEW t, Takes(l, m, t), Loose(m, t), NEW k \in AllHeads
    PROVE  Puts(l, insertThread(m, k, t), t, k) /\ Puts(l, freeTcb(m, t), t, tcbFree)
<1>1. Ordered(m) /\ \A g \in AllHeads : Held(m, g) = Held(l, g) \ {t}
  BY DEF Takes
<1>2. tcbFree \in AllHeads
  BY DEF AllHeads
<1>3. Puts(m, insertThread(m, k, t), t, k) /\ Puts(m, freeTcb(m, t), t, tcbFree)
  BY <1>1, <1>2, LoosePut DEF insertThread, freeTcb
<1> QED
  BY <1>1, <1>3 DEF Puts

\* A SEND makes a thread ready if it is blocked; the search for it ends.
LEMMA WokenPut ==
    ASSUME NEW l, Ordered(l), NEW t \in Threads
    PROVE  /\ t \in Held(l, waitQueue) => Puts(l, Woken(l, t), t, readyQueue)
           /\ t \notin Held(l, waitQueue) => Woken(l, t) = l
           /\ \A h \in AllHeads : PowerAfter(l, h, t) = power
<1>1. waitQueue \in AllHeads /\ readyQueue \in AllHeads
  BY NodeFacts
<1>2. Linked(l, waitQueue, t) <=> t \in Held(l, waitQueue)
  BY <1>1, HeldFacts
<1>3. \A h \in AllHeads : PowerAfter(l, h, t) = power
  BY HeldFacts DEF PowerAfter
<1> QED
  BY <1>1, <1>2, <1>3, OutTaken, MovedPut DEF Woken

-----------------------------------------------------------------------------
(* Where the threads are.                                                  *)

\* The threads that wait for a device, and the free ones, are the same.
Aside(l, m) == \A k \in DeviceQueues \cup {tcbFree} : Held(m, k) = Held(l, k)

\* A thread that is in a list goes to a list.
LEMMA ArrangedPut ==
    ASSUME NEW l, NEW cur, NEW u, Arranged(l, cur, u), NEW t \in Threads, t # cur,
           t # tcb_test, NEW h \in AllHeads, h \in DeviceQueues => t \in Users /\ u[t] = h,
           NEW m, Puts(l, m, t, h)
    PROVE  Arranged(m, cur, u)
<1>1. \A k \in AllHeads : Held(m, k) = IF k = h THEN Held(l, k) \cup {t} ELSE Held(l, k) \ {t}
  BY DEF Puts
<1>2. \A d \in DeviceQueues : d \in AllHeads
  BY NodeFacts
<1>3. \A x \in Threads : x = cur \/ \E k \in AllHeads : x \in Held(m, k)
  <2> SUFFICES ASSUME NEW x \in Threads, x # cur PROVE \E k \in AllHeads : x \in Held(m, k)
    OBVIOUS
  <2>1. PICK k \in AllHeads : x \in Held(l, k)
    BY DEF Arranged
  <2> QED BY <1>1, <2>1
<1>4. tcb_test \in Held(m, waitQueue)
  BY <1>1, NodeFacts DEF Arranged
<1> QED
  BY <1>1, <1>2, <1>3, <1>4 DEF Arranged, Puts

\* The thread that runs goes to a list, and none runs.
LEMMA ArrangedStop ==
    ASSUME NEW l, NEW cur, NEW u, Arranged(l, cur, u), cur \in Threads,
           NEW h \in AllHeads \ DeviceQueues
    PROVE  /\ Arranged(insertThread(l, h, cur), NIL, u)
           /\ h # tcbFree => Aside(l, insertThread(l, h, cur))
<1> DEFINE m == insertThread(l, h, cur)
<1>1. Loose(l, cur) /\ Ordered(l)
  BY DEF Arranged, Loose
<1>2. Puts(l, m, cur, h)
  BY <1>1, LoosePut DEF insertThread
<1> HIDE DEF m
<1>3. /\ Ordered(m)
      /\ \A k \in AllHeads :
            Held(m, k) = IF k = h THEN Held(l, k) \cup {cur} ELSE Held(l, k) \ {cur}
  BY <1>2 DEF Puts
<1>4. (\A d \in DeviceQueues : d \in AllHeads) /\ NIL \notin Threads /\ tcbFree \in AllHeads
  BY NodeFacts
<1>5. \A k \in AllHeads : NIL \notin Held(m, k)
  BY <1>3, <1>4, HeldFacts
<1>6. \A x \in Threads : \E k \in AllHeads : x \in Held(m, k)
  <2> SUFFICES ASSUME NEW x \in Threads PROVE \E k \in AllHeads : x \in Held(m, k)
    OBVIOUS
  <2>1. CASE x = cur
    BY <1>3, <2>1
  <2>2. CASE x # cur
    <3>1. PICK k \in AllHeads : x \in Held(l, k)
      BY <2>2 DEF Arranged
    <3> QED BY <1>3, <2>2, <3>1
  <2> QED BY <2>1, <2>2
<1>7. \A d \in DeviceQueues : \A t \in Held(m, d) : t \in Users /\ u[t] = d
  BY <1>3, <1>4 DEF Arranged
<1>8. h # tcbFree => Aside(l, m)
  BY <1>1, <1>3, <1>4 DEF Aside, Loose
<1>9. tcb_test \in Held(m, waitQueue)
  BY <1>1, <1>3, NodeFacts DEF Arranged, Loose
<1> QED
  BY <1>3, <1>5, <1>6, <1>7, <1>8, <1>9 DEF Arranged, m

\* schedule() runs the first thread that is ready, if none runs.
LEMMA Scheduled ==
    ASSUME NEW l, NEW cur, NEW u, Arranged(l, cur, u), NEW soft, schedule(l, cur, soft)
    PROVE  /\ Arranged(links', currentThread', u) /\ Aside(l, links')
           /\ power' \in {power, "panicked"}
<1> DEFINE first == l.next[readyQueue]
           switches == cur = NIL /\ ~list_empty(l, readyQueue)
<1>1. /\ links' = IF switches THEN removeThread(l, readyQueue) ELSE l
      /\ currentThread' = IF switches THEN first ELSE cur
      /\ power' = CASE switches /\ first \notin Users \cup {tcb_SSI} -> "wild"
                    [] cur = NIL /\ ~switches /\ soft = 0 -> "panicked"
                    [] OTHER -> power
  BY DEF schedule
<1>2. CASE ~switches
  BY <1>1, <1>2 DEF Aside
<1>3. CASE switches
  <2>1. readyQueue \in AllHeads /\ Ordered(l)
    BY NodeFacts DEF Arranged
  <2>2. first \in Held(l, readyQueue) /\ Takes(l, removeThread(l, readyQueue), first)
        /\ Loose(removeThread(l, readyQueue), first)
    BY <1>3, <2>1, FirstTaken
  <2>3. /\ first \in Threads /\ \A k \in AllHeads : k # readyQueue => first \notin Held(l, k)
        /\ first # tcb_test
    <3>1. first \in Threads /\ \A k \in AllHeads : k # readyQueue => first \notin Held(l, k)
      BY <2>1, <2>2, HeldFacts
    <3> QED BY <3>1, NodeFacts DEF Arranged
  <2>4. links' = removeThread(l, readyQueue) /\ currentThread' = first /\ power' = power
    BY <1>1, <1>3, <2>3 DEF Threads
  <2> HIDE DEF first
  <2>5. Ordered(links') /\ \A k \in AllHeads : Held(links', k) = Held(l, k) \ {first}
    BY <2>2, <2>4 DEF Takes
  <2>6. \A k \in AllHeads : first \notin Held(links', k)
    BY <2>5
  <2>7. ASSUME NEW x \in Threads, x # first PROVE \E k \in AllHeads : x \in Held(links', k)
    <3>1. x # cur
      BY <1>3, NodeFacts
    <3>2. PICK k \in AllHeads : x \in Held(l, k)
      BY <3>1 DEF Arranged
    <3> QED BY <2>5, <2>7, <3>2
  <2>8. \A d \in DeviceQueues \cup {tcbFree} : d \in AllHeads /\ d # readyQueue
    BY NodeFacts, <2>1 DEF Heads
  <2>9. Aside(l, links')
    BY <2>3, <2>5, <2>8 DEF Aside
  <2>10. \A d \in DeviceQueues : \A t \in Held(links', d) : t \in Users /\ u[t] = d
    BY <2>5, <2>8 DEF Arranged
  <2>11. tcb_test \in Held(links', waitQueue)
    BY <2>3, <2>5, NodeFacts DEF Arranged
  <2> QED BY <2>3, <2>4, <2>5, <2>6, <2>7, <2>9, <2>10, <2>11 DEF Arranged
<1> QED
  BY <1>2, <1>3

\* The thread that runs blocks.
LEMMA Blocked ==
    ASSUME NEW u, Arranged(links, currentThread, u), currentThread \in Threads,
           Block(currentThread)
    PROVE  /\ Arranged(links', currentThread', u) /\ Aside(links, links')
           /\ power' \in {power, "panicked"}
<1> DEFINE m == insertThread(links, waitQueue, currentThread)
<1>1. waitQueue \in AllHeads \ DeviceQueues /\ waitQueue # tcbFree
  BY NodeFacts DEF Heads
<1>2. Arranged(m, NIL, u) /\ Aside(links, m)
  BY <1>1, ArrangedStop
<1>3. schedule(m, NIL, softBlockCount')
  BY DEF Block
<1> HIDE DEF m
<1>4. /\ Arranged(links', currentThread', u) /\ Aside(m, links')
      /\ power' \in {power, "panicked"}
  BY <1>2, <1>3, Scheduled
<1> QED
  BY <1>2, <1>4 DEF Aside

\* A thread that is not running is made ready, if it is blocked.
LEMMA WokenArranged ==
    ASSUME NEW l, NEW cur, NEW u, Arranged(l, cur, u), NEW t \in Threads, t # tcb_test
    PROVE  Arranged(Woken(l, t), cur, u) /\ Aside(l, Woken(l, t))
<1>1. Ordered(l) /\ waitQueue \in AllHeads /\ readyQueue \in AllHeads
      /\ readyQueue \notin DeviceQueues
  BY NodeFacts DEF Arranged
<1>2. CASE t \notin Held(l, waitQueue)
  BY <1>1, <1>2, WokenPut DEF Aside
<1>3. CASE t \in Held(l, waitQueue)
  <2> DEFINE m == Woken(l, t)
  <2>1. Puts(l, m, t, readyQueue)
    BY <1>1, <1>3, WokenPut
  <2> HIDE DEF m
  <2>2. t # cur
    BY <1>1, <1>3 DEF Arranged
  <2>3. Arranged(m, cur, u)
    BY <1>1, <2>1, <2>2, ArrangedPut
  <2>4. \A k \in DeviceQueues \cup {tcbFree} : k \in AllHeads /\ k # readyQueue /\ k # waitQueue
    BY NodeFacts DEF Heads
  <2>5. \A k \in AllHeads : k # waitQueue => t \notin Held(l, k)
    BY <1>1, <1>3, HeldFacts
  <2>6. Aside(l, m)
    BY <2>1, <2>4, <2>5 DEF Aside, Puts
  <2> QED BY <2>3, <2>6 DEF m
<1> QED
  BY <1>2, <1>3

-----------------------------------------------------------------------------
(* The messages to the SSI.                                                *)

\* The queue of a device is found from the address of its register and of its
\* status, its number from that of its status; a status has the number 3.
LEMMA Addresses ==
    ASSUME NEW d \in (3 .. 7) \X (0 .. 7)
    PROVE  /\ DEV_ADDR_BASE(d[1], d[2]) \in Nat /\ StatusAddr(d) \in Nat
           /\ select_io_queue_from_status_addr(DEV_ADDR_BASE(d[1], d[2])) = d
           /\ select_io_queue_from_status_addr(StatusAddr(d)) = d
           /\ DEVICE_N_FROM_REGSTATUS(StatusAddr(d)) = d[2]
           /\ \A status \in Statuses : DEVICE_N_FROM_REGSTATUS(status) = 3
<1> DEFINE line == d[1]
           n == d[2]
<1>1. line \in 3 .. 7 /\ n \in 0 .. 7 /\ d = <<line, n>>
  OBVIOUS
<1> HIDE DEF line, n
<1>2. LET a == DEV_ADDR_BASE(line, n)
      IN a \in Nat /\ DEVICE_N_FROM_REGSTATUS(a) = n /\ LineOfStatus(a) = line
  BY <1>1 DEF DEV_ADDR_BASE, DEV_REGS_START, DEVICE_N_FROM_REGSTATUS, LineOfStatus, TERMINAL0ADDR,
              INT_TERMINAL
<1>3. LET a == StatusAddr(d)
      IN a \in Nat /\ DEVICE_N_FROM_REGSTATUS(a) = n /\ LineOfStatus(a) = line
  <2>1. StatusAddr(d) = DEV_ADDR_BASE(line, n) + (IF line = 7 THEN 8 ELSE 0)
    BY DEF StatusAddr, INT_TERMINAL, line, n
  <2> QED BY <1>1, <2>1 DEF DEV_ADDR_BASE, DEV_REGS_START, DEVICE_N_FROM_REGSTATUS, LineOfStatus,
                            TERMINAL0ADDR, INT_TERMINAL
<1>4. \A status \in Statuses : DEVICE_N_FROM_REGSTATUS(status) = 3
  BY DEF Statuses, DEVICE_N_FROM_REGSTATUS, DEV_REGS_START
<1> QED
  BY <1>1, <1>2, <1>3, <1>4 DEF select_io_queue_from_status_addr, line, n

\* Each thread has a device of its own, with a queue.
LEMMA UsesFacts ==
    ASSUME Typed
    PROVE  /\ DeviceQueues \subseteq (3 .. 7) \X (0 .. 7) /\ DeviceQueues \subseteq AllHeads
           /\ \A t \in Users : uses[t] \in Device /\ uses[t] \in DeviceQueues
           /\ \A t, u \in Users : uses[t] = uses[u] => t = u
           /\ \A d \in Lines \X {0, 7} : d \in DeviceQueues
<1>1. Device \subseteq (3 .. 7) \X (0 .. 7)
  BY DevicesAssumption
<1>2. \A d \in Device : d \in DeviceQueues
  BY <1>1 DEF DeviceQueues, Lines
<1>3. uses \in [Users -> Device] /\ \A t, u \in Users : uses[t] = uses[u] => t = u
  BY DEF Typed, Injection, IsInjective
<1> QED
  BY <1>2, <1>3, NodeFacts DEF DeviceQueues, Lines

\* A message to the SSI tells of one device, or is of one thread.
LEMMA LetterFacts ==
    ASSUME Typed
    PROVE  /\ NIL \notin Letters
           /\ \A m \in Letters : \/ \E d \in Lines \X {0, 7} : m \in Completions(d)
                                 \/ \E t \in Users : m \in RequestsOf(t)
           /\ \A d \in Lines \X {0, 7} : Completions(d) \subseteq Letters
           /\ \A t \in Users : RequestsOf(t) \subseteq Letters
           /\ \A d, e \in DeviceQueues : d # e => Completions(d) \cap Completions(e) = {}
           /\ \A d, t : Completions(d) \cap RequestsOf(t) = {}
           /\ \A t, u : t # u => RequestsOf(t) \cap RequestsOf(u) = {}
<1>1. ASSUME NEW d \in Lines \X {0, 7} PROVE Completions(d) \subseteq Message
  <2>1. DEV_ADDR_BASE(d[1], d[2]) \in Nat
    BY UsesFacts, Addresses
  <2>2. ASSUME NEW status \in Statuses PROVE Completion(d, status) \in Message
    <3>1. status \in Nat
      BY DEF Statuses
    <3> DEFINE a == DEV_ADDR_BASE(d[1], d[2])
    <3>2. a \in Nat
      BY <2>1
    <3> HIDE DEF a
    <3>3. [service |-> "WAKE_UP_FROM_IO", sender |-> a, payload |-> status] \in Message
      BY <3>1, <3>2 DEF Message, Service
    <3> QED BY <3>3 DEF Completion, a
  <2> QED BY <2>2 DEF Completions
<1>2. ASSUME NEW t \in Users PROVE RequestsOf(t) \subseteq Message
  <2>1. StatusAddr(uses[t]) \in Nat
    BY UsesFacts, Addresses
  <2>2. WaitForIO(t) \in Message
    BY <2>1 DEF WaitForIO, Message, Service
  <2>3. ToDie(t, "TERMINATE") \in Message /\ ToDie(t, "TERMINATED") \in Message
    BY DEF ToDie, Message, Service
  <2> QED BY <2>2, <2>3 DEF RequestsOf, LastRequests
<1>3. NIL \notin Letters
  BY <1>1, <1>2, DevicesAssumption DEF Letters
<1>4. ASSUME NEW d \in DeviceQueues, NEW e \in DeviceQueues, d # e
      PROVE  Completions(d) \cap Completions(e) = {}
  <2>1. DEV_ADDR_BASE(d[1], d[2]) # DEV_ADDR_BASE(e[1], e[2])
    BY <1>4, UsesFacts, Addresses
  <2> QED BY <2>1 DEF Completions, Completion
<1>5. \A d, t : Completions(d) \cap RequestsOf(t) = {}
  BY DEF Completions, Completion, RequestsOf, LastRequests, WaitForIO, ToDie
<1>6. \A t, u : t # u => RequestsOf(t) \cap RequestsOf(u) = {}
  BY DEF RequestsOf, LastRequests, WaitForIO, ToDie
<1>7. \A m \in Letters : \/ \E d \in Lines \X {0, 7} : m \in Completions(d)
                         \/ \E t \in Users : m \in RequestsOf(t)
  BY DEF Letters
<1>8. (\A d \in Lines \X {0, 7} : Completions(d) \subseteq Letters)
      /\ \A t \in Users : RequestsOf(t) \subseteq Letters
  BY DEF Letters
<1> QED
  BY <1>3, <1>4, <1>5, <1>6, <1>7, <1>8

\* A message at the end of a sequence, or at its beginning.
LEMMA AppendHolds ==
    ASSUME NEW S, NEW q \in Seq(S), NEW m \in S, NEW M
    PROVE  /\ Holds(Append(q, m), M) <=> Holds(q, M) \/ m \in M
           /\ Once(Append(q, m), M) <=> Once(q, M) /\ (m \in M => ~Holds(q, M))
<1> DEFINE r == Append(q, m)
           n == Len(q)
<1>1. /\ n \in Nat /\ Len(r) = n + 1 /\ r[n + 1] = m
      /\ \A i \in 1 .. n : r[i] = q[i]
  BY AppendProperties, LenProperties
<1> HIDE DEF r, n
<1>2. 1 .. Len(r) = (1 .. n) \cup {n + 1} /\ n + 1 \notin 1 .. n
  BY <1>1
<1>3. Holds(r, M) <=> Holds(q, M) \/ m \in M
  BY <1>1, <1>2 DEF Holds, n
<1>4. Once(r, M) <=> Once(q, M) /\ (m \in M => ~Holds(q, M))
  BY <1>1, <1>2 DEF Once, Holds, n
<1> QED
  BY <1>3, <1>4 DEF r

\* What a sequence has with one more message in front.
LEMMA PushHolds ==
    ASSUME NEW S, NEW q \in Seq(S), NEW m \in S, NEW M
    PROVE  /\ Holds(<<m>> \o q, M) <=> Holds(q, M) \/ m \in M
           /\ Once(<<m>> \o q, M) <=> Once(q, M) /\ (m \in M => ~Holds(q, M))
<1> DEFINE r == <<m>> \o q
           n == Len(q)
<1>1. <<m>> \in Seq(S) /\ Len(<<m>>) = 1 /\ <<m>>[1] = m
  OBVIOUS
<1>2. /\ n \in Nat /\ Len(r) = 1 + n
      /\ \A i \in 1 .. 1 + n : r[i] = IF i <= 1 THEN <<m>>[i] ELSE q[i - 1]
  BY <1>1, ConcatProperties, LenProperties
<1> HIDE DEF r, n
<1>3. /\ 1 \in 1 .. 1 + n
      /\ \A i \in 1 .. n : i + 1 \in 1 .. 1 + n /\ ~(i + 1 <= 1) /\ (i + 1) - 1 = i
      /\ \A j \in 1 .. 1 + n : j = 1 \/ (j - 1 \in 1 .. n /\ (j - 1) + 1 = j /\ ~(j <= 1))
  <2>1. n \in Nat
    BY <1>2
  <2> QED BY <2>1
<1>4. r[1] = m /\ \A i \in 1 .. n : r[i + 1] = q[i]
  <2>1. 1 <= 1
    OBVIOUS
  <2> QED BY <1>1, <1>2, <1>3, <2>1
<1>5. Holds(r, M) <=> Holds(q, M) \/ m \in M
  <2>1. ASSUME NEW i \in 1 .. n, q[i] \in M PROVE Holds(r, M)
    BY <1>2, <1>3, <1>4, <2>1 DEF Holds
  <2>2. ASSUME NEW j \in 1 .. 1 + n, r[j] \in M, m \notin M PROVE Holds(q, M)
    BY <1>3, <1>4, <2>2 DEF Holds, n
  <2>3. m \in M => Holds(r, M)
    BY <1>2, <1>3, <1>4 DEF Holds
  <2> QED BY <1>2, <2>1, <2>2, <2>3 DEF Holds, n
<1>6. ASSUME Once(r, M) PROVE Once(q, M) /\ (m \in M => ~Holds(q, M))
  <2>1. ASSUME NEW i \in 1 .. n, NEW j \in 1 .. n, q[i] \in M, q[j] \in M PROVE i = j
    <3>1. i + 1 = j + 1
      BY <1>2, <1>3, <1>4, <1>6, <2>1 DEF Once
    <3> QED BY <1>2, <3>1
  <2>2. ASSUME m \in M, NEW i \in 1 .. n, q[i] \in M PROVE FALSE
    <3>1. i + 1 = 1
      BY <1>2, <1>3, <1>4, <1>6, <2>2 DEF Once
    <3> QED BY <1>2, <3>1
  <2> QED BY <2>1, <2>2 DEF Once, Holds, n
<1>7. ASSUME Once(q, M), m \in M => ~Holds(q, M) PROVE Once(r, M)
  <2> SUFFICES ASSUME NEW i \in 1 .. 1 + n, NEW j \in 1 .. 1 + n, r[i] \in M, r[j] \in M
               PROVE  i = j
    BY <1>2 DEF Once
  <2>0. \A k \in 1 .. 1 + n : k = 1 \/ (k - 1 \in 1 .. n /\ r[k] = q[k - 1])
    BY <1>2, <1>3
  <2>1. i = 1 \/ (i - 1 \in 1 .. n /\ q[i - 1] \in M)
    BY <2>0
  <2>2. j = 1 \/ (j - 1 \in 1 .. n /\ q[j - 1] \in M)
    BY <2>0
  <2>3. ~(i = 1 /\ j # 1) /\ ~(j = 1 /\ i # 1)
    BY <1>4, <1>7, <2>1, <2>2 DEF Holds, n
  <2>4. i # 1 /\ j # 1 => i - 1 = j - 1
    BY <1>7, <2>1, <2>2 DEF Once, n
  <2> QED BY <1>2, <2>3, <2>4
<1> QED
  BY <1>5, <1>6, <1>7 DEF r

\* What is unserved after a message is sent, received, served.
LEMMA UnservedSteps ==
    ASSUME Typed
    PROVE  /\ Unserved \in Seq(Letters)
           /\ \A m \in Letters :
                 inbox' = Append(inbox, m) /\ UNCHANGED ssi_msg => Unserved' = Append(Unserved, m)
           /\ UNCHANGED <<inbox, ssi_msg>> => Unserved' = Unserved
           /\ ssi_msg = NIL /\ inbox # <<>> /\ ssi_msg' = Head(inbox) /\ inbox' = Tail(inbox)
                 => /\ Unserved' = Unserved
                    /\ inbox' \in Seq(Letters) /\ ssi_msg' \in Letters
           /\ ssi_msg # NIL /\ ssi_msg' = NIL /\ UNCHANGED inbox
                 => /\ ssi_msg \in Letters /\ Unserved' \in Seq(Letters)
                    /\ Unserved = <<ssi_msg>> \o Unserved'
<1>1. NIL \notin Letters /\ inbox \in Seq(Letters) /\ ssi_msg \in Letters \cup {NIL}
  BY LetterFacts DEF Typed
<1>2. Unserved \in Seq(Letters)
  BY <1>1 DEF Unserved
<1>3. ASSUME NEW m \in Letters, inbox' = Append(inbox, m), UNCHANGED ssi_msg
      PROVE  Unserved' = Append(Unserved, m)
  <2>1. CASE ssi_msg = NIL
    BY <1>3, <2>1 DEF Unserved
  <2>2. CASE ssi_msg # NIL
    <3>1. <<ssi_msg>> \o Append(inbox, m) = Append(<<ssi_msg>> \o inbox, m)
      <4>1. <<ssi_msg>> \in Seq(Letters) /\ <<m>> \in Seq(Letters)
        BY <1>1, <2>2
      <4>2. Append(inbox, m) = inbox \o <<m>>
        BY <1>1, AppendIsConcat
      <4>3. <<ssi_msg>> \o inbox \in Seq(Letters)
        BY <1>1, <4>1, ConcatProperties
      <4>4. Append(<<ssi_msg>> \o inbox, m) = (<<ssi_msg>> \o inbox) \o <<m>>
        BY <4>3, AppendIsConcat
      <4> QED BY <1>1, <4>1, <4>2, <4>4, ConcatAssociative
    <3> QED BY <1>3, <2>2, <3>1 DEF Unserved
  <2> QED BY <2>1, <2>2
<1>4. ASSUME ssi_msg = NIL, inbox # <<>>, ssi_msg' = Head(inbox), inbox' = Tail(inbox)
      PROVE  /\ Unserved' = Unserved
             /\ inbox' \in Seq(Letters) /\ ssi_msg' \in Letters
  <2>1. /\ Head(inbox) \in Letters /\ Tail(inbox) \in Seq(Letters)
        /\ <<Head(inbox)>> \o Tail(inbox) = inbox
    BY <1>1, <1>4
  <2> QED BY <1>1, <1>4, <2>1 DEF Unserved
<1> QED
  BY <1>1, <1>2, <1>3, <1>4 DEF Unserved

-----------------------------------------------------------------------------
(* What the steps do to the operations and the messages.                   *)

\* The requests and the queues are those of the same devices.
LEMMA SameUses ==
    ASSUME Typed, UNCHANGED uses
    PROVE  /\ Letters' = Letters /\ (\A t : (WaitForIO(t))' = WaitForIO(t))
           /\ \A t : (RequestsOf(t))' = RequestsOf(t)
           /\ Aside(links, links') => \A t \in Users : (Waits(t))' <=> Waits(t)
<1>1. \A t : (WaitForIO(t))' = WaitForIO(t)
  BY DEF WaitForIO
<1>2. \A t : (RequestsOf(t))' = RequestsOf(t)
  BY <1>1 DEF RequestsOf
<1>3. Letters' = Letters
  BY <1>2 DEF Letters
<1>4. Aside(links, links') => \A t \in Users : (Waits(t))' <=> Waits(t)
  BY UsesFacts DEF Aside, Waits
<1> QED
  BY <1>1, <1>2, <1>3, <1>4

\* A step that leaves all of them.
LEMMA SameTold ==
    ASSUME Typed, Told, Recalled, UNCHANGED <<uses, pc, answer, device>>, Unserved' = Unserved,
           Aside(links, links')
    PROVE  Told'
<1>1. /\ \A t : (WaitForIO(t))' = WaitForIO(t) /\ (RequestsOf(t))' = RequestsOf(t)
      /\ \A t \in Users : (Waits(t))' <=> Waits(t)
  BY SameUses
<1>2. Asked'
  BY <1>1 DEF Told, Asked, AskedOf
<1>3. Timely'
  BY DEF Told, Timely, TimelyOf
<1>4. Kept'
  BY <1>1 DEF Told, Kept, KeptOf, Recalled
<1>5. Few'
  BY DEF Told, Few
<1> QED
  BY <1>2, <1>3, <1>4, <1>5 DEF Told

\* putChar: only the device of t is made busy.
LEMMA PutCharTold ==
    ASSUME Typed, Told, Recalled, NEW t \in Users, pc[t] \in {"print", "ack", "end"},
           UNCHANGED <<uses, answer, links>>, Unserved' = Unserved,
           pc' = [pc EXCEPT ![t] = "send"], device' = [device EXCEPT ![uses[t]] = "busy"]
    PROVE  Told'
<1>2. /\ \A u : (WaitForIO(u))' = WaitForIO(u) /\ (RequestsOf(u))' = RequestsOf(u)
      /\ \A u \in Users : (Waits(u))' <=> Waits(u)
  BY SameUses DEF Aside
<1>3. \A u \in Users : uses[u] \in Device /\ (uses[u] = uses[t] => u = t)
  BY UsesFacts
<1>4. /\ \A u \in Users : pc'[u] = IF u = t THEN "send" ELSE pc[u]
      /\ \A d \in Device : device'[d] = IF d = uses[t] THEN "busy" ELSE device[d]
  BY <1>3 DEF Typed
<1>5. ~Holds(Unserved, RequestsOf(t)) /\ answer[t] = <<>> /\ ~Waits(t)
  BY DEF Told, Asked, AskedOf
<1>6. ~Holds(Unserved, LastRequests(t)) /\ ~Holds(Unserved, {WaitForIO(t)})
  BY <1>5 DEF Holds, RequestsOf
<1>7. Asked'
  BY <1>2, <1>4, <1>5 DEF Told, Asked, AskedOf
<1>8. Timely'
  <2> SUFFICES ASSUME NEW u \in Users PROVE (TimelyOf(u))'
    BY DEF Timely
  <2>1. TimelyOf(u)
    BY DEF Told, Timely
  <2>2. CASE u = t
    <3>0. pc[u] \in {"print", "ack", "end"}
      BY <2>2
    <3>1. uses[u][2] \notin {3, 7} => ~Holds(Unserved, Completions(uses[u]))
      BY <2>1, <3>0 DEF TimelyOf
    <3>2. pc'[u] = "send" /\ ~Holds(Unserved', LastRequests(u)) /\ answer'[u] = <<>>
      BY <1>4, <1>5, <1>6, <2>2
    <3> QED BY <2>1, <2>2, <3>1, <3>2 DEF TimelyOf
  <2>3. CASE u # t
    <3>1. pc'[u] = pc[u] /\ device'[uses[u]] = device[uses[u]]
      BY <1>3, <1>4, <2>3
    <3> QED BY <2>1, <3>1 DEF TimelyOf
  <2> QED BY <2>2, <2>3
<1>9. Kept'
  BY <1>2, <1>3, <1>4 DEF Told, Kept, KeptOf, Recalled
<1>10. Few'
  BY <1>4 DEF Told, Few
<1> QED
  BY <1>7, <1>8, <1>9, <1>10 DEF Told

\* A request is sent, or lost: the first of its thread.
LEMMA RequestTold ==
    ASSUME Typed, Told, Recalled, NEW t \in Users, NEW m, Request(t, m), Aside(links, links'),
           \/ m = WaitForIO(t) /\ pc[t] = "send"
           \/ m = ToDie(t, "TERMINATE") /\ pc[t] = "print",
           UNCHANGED uses
    PROVE  Told'
<1>1. /\ UNCHANGED <<uses, answer, device, term, ssi_msg>> /\ pc' = [pc EXCEPT ![t] = "recv"]
      /\ inbox' = Append(inbox, m) \/ UNCHANGED inbox
  BY DEF Request, Goes, deviceVars
<1>2. m \in Letters /\ m \in RequestsOf(t)
  BY LetterFacts DEF RequestsOf, LastRequests
<1>3. /\ \A u : (WaitForIO(u))' = WaitForIO(u) /\ (RequestsOf(u))' = RequestsOf(u)
      /\ \A u \in Users : (Waits(u))' <=> Waits(u)
  BY <1>1, SameUses
<1>4. \A u \in Users : pc'[u] = IF u = t THEN "recv" ELSE pc[u]
  BY <1>1 DEF Typed
<1>5. Unserved' = Append(Unserved, m) \/ Unserved' = Unserved
  BY <1>1, <1>2, UnservedSteps
<1>6. \A M : /\ Holds(Unserved', M) => Holds(Unserved, M) \/ m \in M
             /\ m \notin M => (Holds(Unserved', M) <=> Holds(Unserved, M))
                              /\ (Once(Unserved', M) <=> Once(Unserved, M))
             /\ ~Holds(Unserved, M) /\ Once(Unserved, M) => Once(Unserved', M)
  <2>1. Unserved \in Seq(Letters)
    BY UnservedSteps
  <2>2. \A M : /\ Holds(Append(Unserved, m), M) <=> Holds(Unserved, M) \/ m \in M
               /\ Once(Append(Unserved, m), M)
                     <=> Once(Unserved, M) /\ (m \in M => ~Holds(Unserved, M))
    BY <1>2, <2>1, AppendHolds
  <2> QED BY <1>5, <2>2
<1>7. ~Holds(Unserved, RequestsOf(t)) /\ answer[t] = <<>> /\ ~Waits(t)
  BY DEF Told, Asked, AskedOf
<1>8. \A u : u # t => m \notin RequestsOf(u)
  BY <1>2, LetterFacts
<1>9. \A d : m \notin Completions(d)
  BY <1>2, LetterFacts
<1>10. /\ m = WaitForIO(t) => \A u : m \notin LastRequests(u)
       /\ m # WaitForIO(t) => \A u : m # WaitForIO(u)
       /\ \A u : LastRequests(u) \subseteq RequestsOf(u) /\ WaitForIO(u) \in RequestsOf(u)
  BY DEF WaitForIO, ToDie, LastRequests, RequestsOf
<1>11. Asked'
  <2> SUFFICES ASSUME NEW u \in Users PROVE (AskedOf(u))'
    BY DEF Asked
  <2>1. AskedOf(u)
    BY DEF Told, Asked
  <2>2. CASE u = t
    BY <1>1, <1>3, <1>4, <1>6, <1>7, <2>1, <2>2 DEF AskedOf
  <2>3. CASE u # t
    BY <1>1, <1>3, <1>4, <1>6, <1>8, <2>1, <2>3 DEF AskedOf
  <2> QED BY <2>2, <2>3
<1>12. Timely'
  <2> SUFFICES ASSUME NEW u \in Users PROVE (TimelyOf(u))'
    BY DEF Timely
  <2>1. TimelyOf(u)
    BY DEF Told, Timely
  <2>2. /\ Once(Unserved', Completions(uses[u])) <=> Once(Unserved, Completions(uses[u]))
        /\ Holds(Unserved', Completions(uses[u])) <=> Holds(Unserved, Completions(uses[u]))
    BY <1>6, <1>9
  <2>3. Holds(Unserved', LastRequests(u))
           => Holds(Unserved, LastRequests(u)) \/ (u = t /\ pc[t] = "print")
    BY <1>6, <1>8, <1>10
  <2>4. pc'[u] \in {"print", "ack", "end"} => pc[u] \in {"print", "ack", "end"}
    BY <1>4
  <2>5. u = t /\ pc[t] = "print" => pc[u] \in {"print", "ack", "end"}
    OBVIOUS
  <2> SUFFICES ASSUME uses[u][2] \notin {3, 7}
               PROVE  /\ Once(Unserved', Completions(uses[u]))
                      /\ Holds(Unserved', Completions(uses[u])) => device[uses[u]] = "ready"
                      /\ pc'[u] \in {"print", "ack", "end"} \/ answer[u] # <<>>
                            \/ Holds(Unserved', LastRequests(u))
                          => device[uses[u]] = "ready" /\ ~Holds(Unserved', Completions(uses[u]))
    BY <1>1 DEF TimelyOf
  <2>6. /\ Once(Unserved, Completions(uses[u]))
        /\ Holds(Unserved, Completions(uses[u])) => device[uses[u]] = "ready"
        /\ pc[u] \in {"print", "ack", "end"} \/ answer[u] # <<>>
              \/ Holds(Unserved, LastRequests(u))
            => device[uses[u]] = "ready" /\ ~Holds(Unserved, Completions(uses[u]))
    BY <2>1 DEF TimelyOf
  <2> QED BY <2>2, <2>3, <2>4, <2>5, <2>6
<1>13. Kept'
  <2> SUFFICES ASSUME NEW u \in Users PROVE (KeptOf(u))'
    BY <1>1 DEF Kept
  <2>1. KeptOf(u)
    BY DEF Told, Kept
  <2>2. Holds(Unserved', Completions(uses[u])) <=> Holds(Unserved, Completions(uses[u]))
    BY <1>6, <1>9
  <2>3. Holds(Unserved', {WaitForIO(u)})
           => Holds(Unserved, {WaitForIO(u)}) \/ (u = t /\ pc[t] = "send")
    <3>1. m = WaitForIO(u) => u = t /\ m = WaitForIO(t)
      BY <1>8, <1>10
    <3>2. WaitForIO(t) # ToDie(t, "TERMINATE")
      BY DEF WaitForIO, ToDie
    <3> QED BY <1>6, <3>1, <3>2
  <2>4. u \in early => u \in early' \/ device'[uses'[u]] # "ready"
    BY <1>1 DEF Recalled
  <2>5. pc'[u] = "send" \/ Holds(Unserved', {WaitForIO(u)}) \/ Waits(u)
          => pc[u] = "send" \/ Holds(Unserved, {WaitForIO(u)}) \/ Waits(u)
    BY <1>4, <2>3
  <2> QED BY <1>1, <1>3, <2>1, <2>2, <2>4, <2>5 DEF KeptOf
<1>14. Few'
  BY <1>1, <1>6, <1>9 DEF Told, Few
<1> QED
  BY <1>11, <1>12, <1>13, <1>14 DEF Told

\* RecvAnswer: the answer goes, and with it what t has asked.
LEMMA RecvAnswerTold ==
    ASSUME Typed, Told, Recalled, NEW t \in Users, RecvAnswer(t)
    PROVE  Told'
<1>1. /\ UNCHANGED <<uses, device, term, links>> /\ Unserved' = Unserved
      /\ pc[t] = "recv" /\ answer[t] # <<>> /\ answer' = [answer EXCEPT ![t] = Tail(@)]
      /\ \E point \in {"ack", "end"} : pc' = [pc EXCEPT ![t] = point]
  BY DEF RecvAnswer, At, Goes, Unserved, deviceVars
<1>2. /\ \A u : (WaitForIO(u))' = WaitForIO(u) /\ (RequestsOf(u))' = RequestsOf(u)
      /\ \A u \in Users : (Waits(u))' <=> Waits(u)
  BY <1>1, SameUses DEF Aside
<1>3. ~Holds(Unserved, RequestsOf(t)) /\ Len(answer[t]) <= 1 /\ ~Waits(t)
  BY <1>1 DEF Told, Asked, AskedOf
<1>4. ~Holds(Unserved, LastRequests(t)) /\ ~Holds(Unserved, {WaitForIO(t)})
  BY <1>3 DEF Holds, RequestsOf
<1>5. Tail(answer[t]) = <<>>
  <2>1. answer[t] \in Seq(Statuses) /\ Len(answer[t]) \in Nat
    BY LenProperties DEF Typed
  <2>2. Tail(answer[t]) \in Seq(Statuses) /\ Len(Tail(answer[t])) = Len(answer[t]) - 1
    BY <1>1, <2>1, HeadTailProperties
  <2>3. Len(Tail(answer[t])) \in Nat
    BY <2>2, LenProperties
  <2>4. Len(Tail(answer[t])) = 0
    <3> DEFINE n == Len(answer[t])
               k == Len(Tail(answer[t]))
    <3>1. n \in Nat /\ n <= 1 /\ k \in Nat /\ k = n - 1
      BY <1>3, <2>1, <2>2, <2>3
    <3> HIDE DEF n, k
    <3>2. k = 0
      BY <3>1
    <3> QED BY <3>2 DEF k
  <2> QED BY <2>2, <2>4, EmptySeq
<1>6. /\ \A u \in Users : u # t => pc'[u] = pc[u] /\ answer'[u] = answer[u]
      /\ pc'[t] \in {"ack", "end"} /\ answer'[t] = <<>> /\ pc'[t] # "send"
  BY <1>1, <1>5 DEF Typed
<1>7. Len(<<>>) <= 1
  OBVIOUS
<1>8. Asked'
  <2> SUFFICES ASSUME NEW u \in Users PROVE (AskedOf(u))'
    BY DEF Asked
  <2>1. AskedOf(u)
    BY DEF Told, Asked
  <2> QED BY <1>1, <1>2, <1>3, <1>6, <1>7, <2>1 DEF AskedOf
<1>9. Timely'
  <2> SUFFICES ASSUME NEW u \in Users PROVE (TimelyOf(u))'
    BY DEF Timely
  <2>1. TimelyOf(u)
    BY DEF Told, Timely
  <2>2. CASE u = t
    BY <1>1, <2>1, <2>2 DEF TimelyOf
  <2>3. CASE u # t
    BY <1>1, <1>6, <2>1, <2>3 DEF TimelyOf
  <2> QED BY <2>2, <2>3
<1>10. Kept'
  BY <1>1, <1>2, <1>3, <1>4, <1>6 DEF Told, Kept, KeptOf, Recalled
<1>11. Few'
  BY <1>1 DEF Told, Few
<1> QED
  BY <1>8, <1>9, <1>10, <1>11 DEF Told

\* Ack, and the end of termprint(): the operation of t is over.
LEMMA PauseTold ==
    ASSUME Typed, Told, Recalled, NEW t \in Users, pc[t] \in {"print", "ack", "end"},
           UNCHANGED <<uses, answer, links>>, Unserved' = Unserved,
           NEW point \in {"print", "end"}, pc' = [pc EXCEPT ![t] = point],
           device' = device \/ device' = Acknowledged(uses[t])
    PROVE  Told'
<1>2. /\ \A u : (WaitForIO(u))' = WaitForIO(u) /\ (RequestsOf(u))' = RequestsOf(u)
      /\ \A u \in Users : (Waits(u))' <=> Waits(u)
  BY SameUses DEF Aside
<1>3. \A u \in Users : uses[u] \in Device /\ (uses[u] = uses[t] => u = t)
  BY UsesFacts
<1>4. /\ \A u \in Users : pc'[u] = IF u = t THEN point ELSE pc[u]
      /\ \A d \in Device : d # uses[t] => device'[d] = device[d]
      /\ \A d \in Device : device[d] = "ready" => device'[d] = "ready"
  BY <1>3 DEF Typed, Acknowledged
<1>5. ~Holds(Unserved, RequestsOf(t)) /\ answer[t] = <<>> /\ ~Waits(t)
  BY DEF Told, Asked, AskedOf
<1>6. ~Holds(Unserved, LastRequests(t)) /\ ~Holds(Unserved, {WaitForIO(t)})
  BY <1>5 DEF Holds, RequestsOf
<1>7. Asked'
  BY <1>2, <1>4, <1>5 DEF Told, Asked, AskedOf
<1>8. Timely'
  <2> SUFFICES ASSUME NEW u \in Users PROVE (TimelyOf(u))'
    BY DEF Timely
  <2>1. TimelyOf(u)
    BY DEF Told, Timely
  <2>2. pc'[u] \in {"print", "ack", "end"} => pc[u] \in {"print", "ack", "end"}
    BY <1>4
  <2> QED BY <1>3, <1>4, <2>1, <2>2 DEF TimelyOf
<1>9. Kept'
  <2> SUFFICES ASSUME NEW u \in Users PROVE (KeptOf(u))'
    BY DEF Kept
  <2>1. KeptOf(u)
    BY DEF Told, Kept
  <2>2. CASE u = t
    <3>1. pc'[u] # "send" /\ ~Holds(Unserved', {(WaitForIO(u))'}) /\ ~(Waits(u))'
      BY <1>2, <1>4, <1>5, <1>6, <2>2
    <3> QED BY <3>1 DEF KeptOf, Recalled
  <2>3. CASE u # t
    BY <1>2, <1>3, <1>4, <2>1, <2>3 DEF KeptOf, Recalled
  <2> QED BY <2>2, <2>3
<1>10. Few'
  BY <1>4 DEF Told, Few
<1> QED
  BY <1>7, <1>8, <1>9, <1>10 DEF Told

\* The SSI has served a message: what is left.
LEMMA ServedLeaves ==
    ASSUME Typed, ssi_msg # NIL, ssi_msg' = NIL, UNCHANGED inbox
    PROVE  /\ ssi_msg \in Letters
           /\ \A M : /\ Holds(Unserved, M) <=> Holds(Unserved', M) \/ ssi_msg \in M
                     /\ Once(Unserved, M)
                           => Once(Unserved', M) /\ (ssi_msg \in M => ~Holds(Unserved', M))
<1>1. /\ ssi_msg \in Letters /\ Unserved' \in Seq(Letters)
      /\ Unserved = <<ssi_msg>> \o Unserved'
  BY UnservedSteps
<1> QED
  BY <1>1, PushHolds

\* The SSI answers t: a request of t, which then asks nothing more, or the
\* completion of its operation, which it waits for.
LEMMA AnswerTold ==
    ASSUME Typed, Told, Recalled, NEW t \in Users, ssi_msg # NIL, ssi_msg' = NIL,
           UNCHANGED <<uses, pc, inbox, device>>, NEW status \in Statuses,
           answer' = answer \/ answer' = [answer EXCEPT ![t] = Append(@, status)],
           \/ ssi_msg \in LastRequests(t) \/ (ssi_msg = WaitForIO(t) /\ uses[t][2] = 3)
           \/ (ssi_msg \in Completions(uses[t]) /\ Waits(t) /\ ~(Waits(t))'),
           \A u \in Users : u # t \/ ssi_msg \in RequestsOf(t) => ((Waits(u))' <=> Waits(u))
    PROVE  Told'
<1>1. /\ \A u : (WaitForIO(u))' = WaitForIO(u) /\ (RequestsOf(u))' = RequestsOf(u)
  BY SameUses
<1>2. \A M : /\ Holds(Unserved, M) <=> Holds(Unserved', M) \/ ssi_msg \in M
             /\ Once(Unserved, M)
                   => Once(Unserved', M) /\ (ssi_msg \in M => ~Holds(Unserved', M))
  BY ServedLeaves
<1>3. \A u \in Users : uses[u] \in DeviceQueues /\ (uses[u] = uses[t] => u = t)
  BY UsesFacts
<1>4. \A u \in Users : u # t => ssi_msg \notin RequestsOf(u) /\ ssi_msg \notin Completions(uses[u])
  BY <1>3, LetterFacts DEF RequestsOf
<1>5. ssi_msg \in RequestsOf(t) => ssi_msg \notin Completions(uses[t])
  BY LetterFacts
<1>6. LastRequests(t) \subseteq RequestsOf(t) /\ WaitForIO(t) \in RequestsOf(t)
  BY DEF RequestsOf
<1>7. answer[t] = <<>> /\ pc[t] = "recv" /\ ~Holds(Unserved', RequestsOf(t)) /\ ~(Waits(t))'
  <2>1. AskedOf(t)
    BY DEF Told, Asked
  <2>2. CASE ssi_msg \in RequestsOf(t)
    <3>1. Holds(Unserved, RequestsOf(t)) /\ ~Holds(Unserved', RequestsOf(t))
      BY <1>2, <2>1, <2>2 DEF AskedOf
    <3> QED BY <2>1, <2>2, <3>1 DEF AskedOf
  <2>3. CASE ssi_msg \notin RequestsOf(t)
    <3>1. ssi_msg \in Completions(uses[t]) /\ Waits(t) /\ ~(Waits(t))'
      BY <1>6, <2>3
    <3>2. ~Holds(Unserved, RequestsOf(t))
      BY <2>1, <3>1 DEF AskedOf
    <3> QED BY <1>2, <2>1, <3>1, <3>2 DEF AskedOf
  <2> QED BY <2>2, <2>3
<1>8. ~Holds(Unserved', LastRequests(t)) /\ ~Holds(Unserved', {WaitForIO(t)})
  BY <1>7 DEF Holds, RequestsOf
<1>9. /\ \A u \in Users : u # t => answer'[u] = answer[u]
      /\ Len(answer'[t]) <= 1
  <2>1. Len(<<>>) <= 1 /\ Len(Append(<<>>, status)) <= 1
    OBVIOUS
  <2>2. answer'[t] = <<>> \/ answer'[t] = Append(<<>>, status)
    BY <1>7 DEF Typed
  <2>3. \A u \in Users : u # t => answer'[u] = answer[u]
    BY DEF Typed
  <2> QED BY <2>1, <2>2, <2>3
<1>10. Asked'
  <2> SUFFICES ASSUME NEW u \in Users PROVE (AskedOf(u))'
    BY DEF Asked
  <2>1. AskedOf(u)
    BY DEF Told, Asked
  <2>2. CASE u = t
    BY <1>1, <1>2, <1>7, <1>9, <2>1, <2>2 DEF AskedOf
  <2>3. CASE u # t
    BY <1>1, <1>2, <1>4, <1>9, <2>1, <2>3 DEF AskedOf
  <2> QED BY <2>2, <2>3
<1>11. Timely'
  <2> SUFFICES ASSUME NEW u \in Users, uses[u][2] \notin {3, 7} PROVE (TimelyOf(u))'
    BY DEF Timely, TimelyOf
  <2>1. TimelyOf(u)
    BY DEF Told, Timely
  <2>2. /\ Once(Unserved', Completions(uses[u]))
        /\ Holds(Unserved', Completions(uses[u])) => device[uses[u]] = "ready"
    BY <1>2, <2>1 DEF TimelyOf
  <2>3. CASE u = t
    <3>1. device[uses[t]] = "ready" /\ ~Holds(Unserved', Completions(uses[t]))
      <4>1. CASE ssi_msg \in Completions(uses[t])
        BY <1>2, <2>1, <2>3, <4>1 DEF TimelyOf
      <4>2. CASE ssi_msg \in LastRequests(t)
        BY <1>2, <2>1, <2>3, <4>2 DEF TimelyOf
      <4> QED BY <2>3, <4>1, <4>2
    <3> QED BY <2>2, <2>3, <3>1 DEF TimelyOf
  <2>4. CASE u # t
    <3>1. LastRequests(u) \subseteq RequestsOf(u)
      BY DEF RequestsOf
    <3>2. Holds(Unserved', LastRequests(u)) => Holds(Unserved, LastRequests(u))
      BY <1>2
    <3>3. Holds(Unserved', Completions(uses[u])) => Holds(Unserved, Completions(uses[u]))
      BY <1>2
    <3> QED BY <1>9, <2>1, <2>2, <2>4, <3>2, <3>3 DEF TimelyOf
  <2> QED BY <2>3, <2>4
<1>12. Kept'
  <2> SUFFICES ASSUME NEW u \in Users PROVE (KeptOf(u))'
    BY DEF Kept
  <2>1. KeptOf(u)
    BY DEF Told, Kept
  <2>2. CASE u = t
    BY <1>1, <1>7, <1>8, <2>2 DEF KeptOf, Recalled
  <2>3. CASE u # t
    <3>1. Holds(Unserved', {WaitForIO(u)}) => Holds(Unserved, {WaitForIO(u)})
      BY <1>2
    <3>2. Holds(Unserved', Completions(uses[u])) <=> Holds(Unserved, Completions(uses[u]))
      BY <1>2, <1>4, <2>3
    <3> QED BY <1>1, <2>1, <2>3, <3>1, <3>2 DEF KeptOf, Recalled
  <2> QED BY <2>2, <2>3
<1>13. Few'
  BY <1>2 DEF Told, Few
<1> QED
  BY <1>10, <1>11, <1>12, <1>13 DEF Told

\* waitForIO: t, which has asked for it, waits for its device.
LEMMA WaitTold ==
    ASSUME Typed, Told, Recalled, NEW t \in Users, ssi_msg = WaitForIO(t), ssi_msg' = NIL,
           UNCHANGED <<uses, pc, answer, inbox, device, term>>,
           \A u \in Users : u # t => ((Waits(u))' <=> Waits(u))
    PROVE  Told'
<1>0. ssi_msg # NIL
  BY LetterFacts DEF RequestsOf
<1>1. /\ \A u : (WaitForIO(u))' = WaitForIO(u) /\ (RequestsOf(u))' = RequestsOf(u)
  BY SameUses
<1>2. \A M : /\ Holds(Unserved, M) <=> Holds(Unserved', M) \/ ssi_msg \in M
             /\ Once(Unserved, M)
                   => Once(Unserved', M) /\ (ssi_msg \in M => ~Holds(Unserved', M))
  BY <1>0, ServedLeaves
<1>3. \A d : ssi_msg \notin Completions(d)
  BY LetterFacts DEF RequestsOf
<1>4. \A u \in Users : u # t => ssi_msg \notin RequestsOf(u)
  BY LetterFacts DEF RequestsOf
<1>5. ssi_msg \in RequestsOf(t)
  BY DEF RequestsOf
<1>6. Asked'
  <2> SUFFICES ASSUME NEW u \in Users PROVE (AskedOf(u))'
    BY DEF Asked
  <2>1. AskedOf(u)
    BY DEF Told, Asked
  <2>2. CASE u = t
    BY <1>1, <1>2, <1>5, <2>1, <2>2 DEF AskedOf
  <2>3. CASE u # t
    BY <1>1, <1>2, <1>4, <2>1, <2>3 DEF AskedOf
  <2> QED BY <2>2, <2>3
<1>7. Timely'
  <2> SUFFICES ASSUME NEW u \in Users PROVE (TimelyOf(u))'
    BY DEF Timely
  <2>1. TimelyOf(u)
    BY DEF Told, Timely
  <2> QED BY <1>2, <2>1 DEF TimelyOf
<1>8. Kept'
  <2> SUFFICES ASSUME NEW u \in Users PROVE (KeptOf(u))'
    BY DEF Kept
  <2>1. KeptOf(u)
    BY DEF Told, Kept
  <2>2. Holds(Unserved', Completions(uses[u])) <=> Holds(Unserved, Completions(uses[u]))
    BY <1>2, <1>3
  <2>3. Holds(Unserved', {WaitForIO(u)}) => Holds(Unserved, {WaitForIO(u)})
    BY <1>2
  <2>4. CASE u = t
    <3>1. Holds(Unserved, {WaitForIO(t)})
      BY <1>2
    <3> QED BY <2>1, <2>2, <2>4, <3>1 DEF KeptOf, Recalled
  <2>5. CASE u # t
    BY <1>1, <2>1, <2>2, <2>3, <2>5 DEF KeptOf, Recalled
  <2> QED BY <2>4, <2>5
<1>9. Few'
  BY <1>2 DEF Told, Few
<1> QED
  BY <1>6, <1>7, <1>8, <1>9 DEF Told

\* wakeUpNobody: a completion is remembered.
LEMMA RememberTold ==
    ASSUME Typed, Told, Recalled, ssi_msg # NIL, ssi_msg' = NIL, NEW d, ssi_msg \in Completions(d),
           d \in DeviceQueues, UNCHANGED <<uses, pc, answer, inbox, device, links>>,
           \A u \in Users : uses[u] = d => device[uses[u]] # "ready" \/ u \in early'
    PROVE  Told'
<1>1. /\ \A u : (WaitForIO(u))' = WaitForIO(u) /\ (RequestsOf(u))' = RequestsOf(u)
      /\ \A u \in Users : (Waits(u))' <=> Waits(u)
  BY SameUses DEF Aside
<1>2. \A M : /\ Holds(Unserved, M) <=> Holds(Unserved', M) \/ ssi_msg \in M
             /\ Once(Unserved, M) => Once(Unserved', M)
  BY ServedLeaves
<1>0. \A u \in Users : uses[u] # d => ssi_msg \notin Completions(uses[u])
  BY UsesFacts, LetterFacts
<1>3. Asked'
  <2> SUFFICES ASSUME NEW u \in Users PROVE (AskedOf(u))'
    BY DEF Asked
  <2>1. AskedOf(u)
    BY DEF Told, Asked
  <2> QED BY <1>1, <1>2, <2>1 DEF AskedOf
<1>4. Timely'
  <2> SUFFICES ASSUME NEW u \in Users PROVE (TimelyOf(u))'
    BY DEF Timely
  <2>1. TimelyOf(u)
    BY DEF Told, Timely
  <2> QED BY <1>2, <2>1 DEF TimelyOf
<1>5. Kept'
  <2> SUFFICES ASSUME NEW u \in Users PROVE (KeptOf(u))'
    BY DEF Kept
  <2>1. KeptOf(u)
    BY DEF Told, Kept
  <2>2. CASE uses[u] = d
    BY <2>2 DEF KeptOf
  <2>3. CASE uses[u] # d
    BY <1>0, <1>1, <1>2, <2>1, <2>3 DEF KeptOf, Recalled
  <2> QED BY <2>2, <2>3
<1>6. Few'
  BY <1>2 DEF Told, Few
<1> QED
  BY <1>3, <1>4, <1>5, <1>6 DEF Told

\* DeviceCompletes: the device that is done was at work.
LEMMA CompletesTold ==
    ASSUME Typed, Told, Recalled, NEW d \in Device, DeviceCompletes(d)
    PROVE  Told'
<1>1. /\ UNCHANGED <<uses, pc, answer, term, links>> /\ Unserved' = Unserved
      /\ device[d] = "busy" /\ device' = [device EXCEPT ![d] = "done"]
  BY DEF DeviceCompletes, Unserved, userVars
<1>2. /\ \A u : (WaitForIO(u))' = WaitForIO(u) /\ (RequestsOf(u))' = RequestsOf(u)
      /\ \A u \in Users : (Waits(u))' <=> Waits(u)
  BY <1>1, SameUses DEF Aside
<1>3. \A e \in Device : device'[e] = "ready" <=> device[e] = "ready"
  BY <1>1 DEF Typed
<1>4. \A u \in Users : uses[u] \in Device
  BY UsesFacts
<1>5. Asked'
  BY <1>1, <1>2 DEF Told, Asked, AskedOf
<1>6. Timely'
  BY <1>1, <1>3, <1>4 DEF Told, Timely, TimelyOf
<1>7. Kept'
  BY <1>1, <1>2, <1>3, <1>4 DEF Told, Kept, KeptOf, Recalled
<1>8. Few'
  BY <1>1, <1>3 DEF Told, Few
<1> QED
  BY <1>5, <1>6, <1>7, <1>8 DEF Told

\* The interrupt of a pending device: the handler sees its number 0, or 7.
LEMMA InterruptTold ==
    ASSUME Typed, Told, Recalled, UNCHANGED <<uses, pc, answer, term>>, Aside(links, links'),
           NEW d \in Lines \X {0, 7}, NEW m \in Completions(d), Unserved' = Append(Unserved, m),
           NEW e \in Device, device[e] = "done", e[1] = d[1],
           d[2] = IF <<d[1], 0>> \in Pending THEN 0 ELSE 7,
           device' = IF d \in Device THEN Acknowledged(d) ELSE device
    PROVE  Told'
<1>1. /\ \A u : (WaitForIO(u))' = WaitForIO(u) /\ (RequestsOf(u))' = RequestsOf(u)
      /\ \A u \in Users : (Waits(u))' <=> Waits(u)
  BY SameUses
<1>2. m \in Letters /\ Unserved \in Seq(Letters) /\ d \in DeviceQueues
  BY LetterFacts, UnservedSteps, UsesFacts
<1>3. \A M : /\ Holds(Unserved', M) <=> Holds(Unserved, M) \/ m \in M
             /\ Once(Unserved', M) <=> Once(Unserved, M) /\ (m \in M => ~Holds(Unserved, M))
  BY <1>2, AppendHolds
<1>4. /\ \A u : m \notin RequestsOf(u)
      /\ \A u : m \notin LastRequests(u) /\ m # WaitForIO(u)
  BY LetterFacts DEF RequestsOf
<1>5. \A f \in DeviceQueues : f # d => m \notin Completions(f)
  BY <1>2, LetterFacts
<1>6. \A u \in Users : uses[u] \in Device /\ uses[u] \in DeviceQueues
  BY UsesFacts
<1>7. /\ \A f \in Device : f # d => device'[f] = device[f]
      /\ \A f \in Device : device[f] = "ready" => device'[f] = "ready"
      /\ d \in Device /\ device[d] = "done" => device'[d] = "ready"
  BY DEF Typed, Acknowledged
<1>8. d[2] = 0 => d \in Device /\ device[d] = "done"
  <2>1. d = <<d[1], d[2]>>
    OBVIOUS
  <2> QED BY <2>1 DEF Pending
<1>9. Asked'
  <2> SUFFICES ASSUME NEW u \in Users PROVE (AskedOf(u))'
    BY DEF Asked
  <2>1. AskedOf(u)
    BY DEF Told, Asked
  <2> QED BY <1>1, <1>3, <1>4, <2>1 DEF AskedOf
<1>10. Timely'
  <2> SUFFICES ASSUME NEW u \in Users, uses[u][2] \notin {3, 7} PROVE (TimelyOf(u))'
    BY DEF Timely, TimelyOf
  <2>1. TimelyOf(u)
    BY DEF Told, Timely
  <2>2. Holds(Unserved', LastRequests(u)) <=> Holds(Unserved, LastRequests(u))
    BY <1>3, <1>4
  <2>3. CASE uses[u] = d
    <3>1. device[uses[u]] = "done" /\ device'[uses[u]] = "ready"
      BY <1>7, <1>8, <2>3
    <3>2. ~Holds(Unserved, Completions(uses[u])) /\ answer[u] = <<>>
          /\ pc[u] \notin {"print", "ack", "end"} /\ ~Holds(Unserved, LastRequests(u))
      BY <2>1, <3>1 DEF TimelyOf
    <3>3. Once(Unserved', Completions(uses[u]))
      BY <1>3, <2>1, <3>2 DEF TimelyOf
    <3> QED BY <2>2, <3>1, <3>2, <3>3 DEF TimelyOf
  <2>4. CASE uses[u] # d
    BY <1>3, <1>5, <1>6, <1>7, <2>1, <2>2, <2>4 DEF TimelyOf
  <2> QED BY <2>3, <2>4
<1>11. Kept'
  <2> SUFFICES ASSUME NEW u \in Users PROVE (KeptOf(u))'
    BY DEF Kept
  <2>1. KeptOf(u)
    BY DEF Told, Kept
  <2>2. Holds(Unserved', {WaitForIO(u)}) <=> Holds(Unserved, {WaitForIO(u)})
    BY <1>3, <1>4
  <2>3. CASE uses[u] = d
    BY <1>3, <2>3 DEF KeptOf, Recalled
  <2>4. CASE uses[u] # d
    BY <1>1, <1>3, <1>6, <1>7, <2>1, <2>2, <2>4 DEF KeptOf, Recalled
  <2> QED BY <2>3, <2>4
<1>12. Few'
  <2>1. \A f \in Device : device'[f] # "ready" => \E t \in Users : uses[t] = f
    BY <1>7 DEF Told, Few
  <2>2. ASSUME \A t \in Users : uses[t][2] = 0 PROVE \E t \in Users : uses[t] = d
    <3>1. PICK t \in Users : uses[t] = e
      BY DEF Told, Few
    <3>2. e = <<d[1], 0>>
      <4>1. e = <<e[1], e[2]>>
        BY DevicesAssumption
      <4> QED BY <2>2, <3>1, <4>1
    <3>3. d = e
      <4>1. d = <<d[1], d[2]>>
        OBVIOUS
      <4> QED BY <3>2, <4>1 DEF Pending
    <3> QED BY <3>1, <3>3
  <2>3. ASSUME \A t \in Users : uses[t][2] = 0, NEW f \in Lines \X {0, 7},
               Holds(Unserved', Completions(f))
        PROVE  \E t \in Users : uses[t] = f
    <3>1. f \in DeviceQueues
      BY UsesFacts
    <3>2. CASE f = d
      BY <2>2, <2>3, <3>2
    <3>3. CASE f # d
      BY <1>3, <1>5, <2>3, <3>1, <3>3 DEF Told, Few
    <3> QED BY <3>2, <3>3
  <2> QED BY <2>1, <2>3 DEF Few
<1> QED
  BY <1>9, <1>10, <1>11, <1>12 DEF Told

\* SsiTerminate: the request of a thread to die has been obeyed; what its
\* victims were told goes.
LEMMA TerminateTold ==
    ASSUME Typed, Told, Recalled, NEW t \in Users, ssi_msg = ToDie(t, "TERMINATE"),
           ssi_msg' = ToDie(t, "TERMINATED"),
           UNCHANGED <<uses, pc, inbox, device, term>>,
           \A u \in Users : answer'[u] \in {<<>>, answer[u]},
           \A u \in Users : (Waits(u))' <=> Waits(u)
    PROVE  Told'
<1> DEFINE m == ToDie(t, "TERMINATED")
<1>1. /\ \A u : (WaitForIO(u))' = WaitForIO(u) /\ (RequestsOf(u))' = RequestsOf(u)
  BY SameUses
<1>2. ssi_msg \in RequestsOf(t) /\ m \in RequestsOf(t)
  BY DEF RequestsOf, LastRequests
<1>3. /\ ssi_msg \in Letters /\ m \in Letters /\ ssi_msg # NIL /\ m # NIL
      /\ inbox \in Seq(Letters)
  BY <1>2, LetterFacts DEF Typed
<1>4. Unserved = <<ssi_msg>> \o inbox /\ Unserved' = <<m>> \o inbox
  BY <1>3 DEF Unserved
<1>5. \A M : (ssi_msg \in M <=> m \in M) => /\ Holds(Unserved', M) <=> Holds(Unserved, M)
                                            /\ Once(Unserved', M) <=> Once(Unserved, M)
  BY <1>3, <1>4, PushHolds
<1>6. ASSUME NEW u \in Users
      PROVE  /\ ssi_msg \in RequestsOf(u) <=> m \in RequestsOf(u)
             /\ ssi_msg \in LastRequests(u) <=> m \in LastRequests(u)
             /\ ssi_msg \in {WaitForIO(u)} <=> m \in {WaitForIO(u)}
             /\ ssi_msg \in Completions(uses[u]) <=> m \in Completions(uses[u])
  <2>1. ssi_msg \notin Completions(uses[u]) /\ m \notin Completions(uses[u])
    BY <1>2, LetterFacts
  <2>2. ssi_msg # WaitForIO(u) /\ m # WaitForIO(u)
    BY DEF ToDie, WaitForIO
  <2>3. ssi_msg \in LastRequests(u) <=> m \in LastRequests(u)
    BY DEF ToDie, LastRequests
  <2> QED BY <2>1, <2>2, <2>3 DEF RequestsOf
<1>7. Len(<<>>) <= 1
  OBVIOUS
<1> HIDE DEF m
<1>8. Asked'
  <2> SUFFICES ASSUME NEW u \in Users PROVE (AskedOf(u))'
    BY DEF Asked
  <2>1. AskedOf(u)
    BY DEF Told, Asked
  <2> QED BY <1>1, <1>5, <1>6, <1>7, <2>1 DEF AskedOf
<1>9. Timely'
  <2> SUFFICES ASSUME NEW u \in Users PROVE (TimelyOf(u))'
    BY DEF Timely
  <2>1. TimelyOf(u)
    BY DEF Told, Timely
  <2> QED BY <1>5, <1>6, <2>1 DEF TimelyOf
<1>10. Kept'
  <2> SUFFICES ASSUME NEW u \in Users PROVE (KeptOf(u))'
    BY DEF Kept
  <2>1. KeptOf(u)
    BY DEF Told, Kept
  <2> QED BY <1>1, <1>5, <1>6, <2>1 DEF KeptOf, Recalled
<1>11. Few'
  <2>1. \A d \in Lines \X {0, 7} : ssi_msg \notin Completions(d) /\ m \notin Completions(d)
    BY <1>2, LetterFacts
  <2> QED BY <1>5, <2>1 DEF Told, Few
<1> QED
  BY <1>8, <1>9, <1>10, <1>11 DEF Told

-----------------------------------------------------------------------------
(* What the steps do to the threads and the SSI.                           *)

\* The message the SSI serves, by its service.
LEMMA ServiceFacts ==
    ASSUME Typed, ssi_msg # NIL
    PROVE  /\ ssi_msg.service = "WAITFORIO"
                 => ssi_msg.sender \in Users /\ ssi_msg = WaitForIO(ssi_msg.sender)
                    /\ ssi_msg.payload = StatusAddr(uses[ssi_msg.sender])
           /\ ssi_msg.service = "WAKE_UP_FROM_IO"
                 => \E d \in Lines \X {0, 7} :
                       /\ ssi_msg \in Completions(d) /\ ssi_msg.payload \in Statuses
                       /\ select_io_queue_from_status_addr(ssi_msg.sender) = d
           /\ \A service \in {"TERMINATE", "TERMINATED"} :
                 ssi_msg.service = service
                    => ssi_msg.sender \in Users /\ ssi_msg = ToDie(ssi_msg.sender, service)
                       /\ ssi_msg.payload \in Statuses
<1>1. ssi_msg \in Letters
  BY DEF Typed
<1>2. CASE \E d \in Lines \X {0, 7} : ssi_msg \in Completions(d)
  <2>1. PICK d \in Lines \X {0, 7} : ssi_msg \in Completions(d)
    BY <1>2
  <2>2. PICK status \in Statuses : ssi_msg = Completion(d, status)
    BY <2>1 DEF Completions
  <2>3. /\ ssi_msg.service = "WAKE_UP_FROM_IO" /\ ssi_msg.payload = status
        /\ ssi_msg.sender = DEV_ADDR_BASE(d[1], d[2])
    BY <2>2 DEF Completion
  <2>4. select_io_queue_from_status_addr(ssi_msg.sender) = d
    BY <2>3, UsesFacts, Addresses
  <2> QED BY <2>1, <2>3, <2>4
<1>3. CASE \E t \in Users : ssi_msg \in RequestsOf(t)
  <2>1. PICK t \in Users : ssi_msg \in RequestsOf(t)
    BY <1>3
  <2>2. CASE ssi_msg = WaitForIO(t)
    BY <2>2 DEF WaitForIO
  <2>3. ASSUME NEW service \in {"TERMINATE", "TERMINATED"}, ssi_msg = ToDie(t, service)
        PROVE  /\ ssi_msg.sender = t /\ ssi_msg.service = service /\ ssi_msg.payload = 0
               /\ service \notin {"WAITFORIO", "WAKE_UP_FROM_IO"}
    BY <2>3 DEF ToDie
  <2>4. 0 \in Statuses
    BY DEF Statuses
  <2> QED BY <2>1, <2>2, <2>3, <2>4 DEF RequestsOf, LastRequests
<1> QED
  BY <1>1, <1>2, <1>3, LetterFacts

\* The threads are where they should be, if only the ready and the blocked
\* have moved.
LEMMA PlacedAside ==
    ASSUME Placed, power = "on", UNCHANGED <<uses, dead>>,
           Arranged(links', currentThread', uses), Aside(links, links')
    PROVE  Placed'
BY DEF Placed, Aside

\* A step that leaves the threads where they are.
LEMMA SamePlaced ==
    ASSUME Placed, UNCHANGED <<uses, dead, links, currentThread>>,
           power' = power \/ power = "on"
    PROVE  Placed'
BY DEF Placed

\* termprint() with its device alone.
LEMMA PutCharGood ==
    ASSUME Good, Recalled, NEW t \in Users, pc[t] \in {"print", "ack", "end"},
           UNCHANGED <<links, currentThread, uses, answer, inbox, ssi_msg, term, power, dead>>,
           \/ pc' = [pc EXCEPT ![t] = "send"] /\ device' = [device EXCEPT ![uses[t]] = "busy"]
           \/ /\ \E point \in {"print", "end"} : pc' = [pc EXCEPT ![t] = point]
              /\ device' = device \/ device' = Acknowledged(uses[t])
    PROVE  Good'
<1>1. Typed /\ Told /\ Placed /\ Remembered
  BY DEF Good
<1>2. Unserved' = Unserved
  BY DEF Unserved
<1>3. Told'
  BY <1>1, <1>2, PutCharTold, PauseTold
<1>4. uses[t] \in Device
  BY <1>1, UsesFacts
<1>5. Typed'
  <2>1. pc' \in [Users -> {"print", "send", "recv", "ack", "end"}]
    BY <1>1 DEF Typed
  <2>2. device' \in [Device -> {"ready", "busy", "done"}]
    BY <1>1, <1>4 DEF Typed, Acknowledged
  <2> QED BY <1>1, <2>1, <2>2, SameUses DEF Typed
<1>6. Placed' /\ Remembered'
  BY <1>1, SamePlaced DEF Remembered
<1> QED
  BY <1>3, <1>5, <1>6 DEF Good

\* A string starts.
LEMMA TermprintGood ==
    ASSUME Good, Recalled, NEW t \in Users, Termprint(t), UNCHANGED dead PROVE Good'
<1>1. /\ UNCHANGED <<links, currentThread, uses, answer, inbox, ssi_msg, term, power>>
      /\ pc[t] = "print"
      /\ \/ pc' = [pc EXCEPT ![t] = "send"] /\ device' = [device EXCEPT ![uses[t]] = "busy"]
         \/ pc' = [pc EXCEPT ![t] = "end"] /\ device' = device
  BY DEF Termprint, At, Goes, putChar
<1> QED
  BY <1>1, PutCharGood

\* A character has been printed, or the string has ended.
LEMMA AckGood ==
    ASSUME Good, Recalled, NEW t \in Users, Ack(t), UNCHANGED dead PROVE Good'
<1>1. /\ UNCHANGED <<links, currentThread, uses, answer, inbox, ssi_msg, term, power>>
      /\ pc[t] \in {"ack", "end"}
      /\ \/ /\ pc' = [pc EXCEPT ![t] = "send"]
            /\ device' = [Acknowledged(uses[t]) EXCEPT ![uses[t]] = "busy"]
         \/ pc' = [pc EXCEPT ![t] = "print"] /\ device' = Acknowledged(uses[t])
  BY DEF Ack, At, Goes, putChar
<1>2. [Acknowledged(uses[t]) EXCEPT ![uses[t]] = "busy"] = [device EXCEPT ![uses[t]] = "busy"]
  BY DEF Good, Typed, Acknowledged
<1> QED
  BY <1>1, <1>2, PutCharGood

\* SendRequest and AskToDie.
LEMMA RequestGood ==
    ASSUME Good, Recalled, NEW t \in Users, NEW m, Request(t, m), Runs(t), UNCHANGED <<term, dead>>,
           \/ m = WaitForIO(t) /\ pc[t] = "send"
           \/ m = ToDie(t, "TERMINATE") /\ pc[t] = "print"
    PROVE  Good'
<1>1. Typed /\ Told /\ Placed /\ Remembered
  BY DEF Good
<1>2. /\ UNCHANGED <<uses, answer, ssi_msg, device, currentThread>>
      /\ pc' = [pc EXCEPT ![t] = "recv"]
      /\ \/ /\ inbox' = Append(inbox, m) /\ links' = Woken(links, tcb_SSI)
            /\ power' = PowerAfter(links, waitQueue, tcb_SSI)
         \/ UNCHANGED <<inbox, links, power>>
  BY DEF Request, Goes, deviceVars
<1>3. Arranged(links, currentThread, uses) /\ Ordered(links) /\ tcb_SSI \in Threads \ {tcb_test}
      /\ waitQueue \in AllHeads
  BY <1>1, NodeFacts DEF Placed, Arranged
<1>4. Arranged(links', currentThread', uses) /\ Aside(links, links')
  BY <1>2, <1>3, WokenArranged DEF Aside
<1>5. power' = power /\ power = "on"
  BY <1>2, <1>3, WokenPut DEF Runs
<1>6. Told'
  BY <1>1, <1>2, <1>4, RequestTold
<1>7. m \in Letters
  BY <1>1, LetterFacts DEF RequestsOf, LastRequests
<1>8. inbox' \in Seq(Letters)
  BY <1>1, <1>2, <1>7, AppendProperties DEF Typed
<1>9. Typed'
  BY <1>1, <1>2, <1>5, <1>8, SameUses DEF Typed
<1>10. Placed'
  BY <1>1, <1>2, <1>4, <1>5, PlacedAside
<1>11. Remembered'
  BY <1>1 DEF Remembered
<1> QED
  BY <1>6, <1>9, <1>10, <1>11 DEF Good

\* A thread receives the status it waits for.
LEMMA RecvAnswerGood ==
    ASSUME Good, Recalled, NEW t \in Users, RecvAnswer(t), UNCHANGED dead PROVE Good'
<1>1. Typed /\ Told /\ Placed /\ Remembered
  BY DEF Good
<1>2. Told'
  BY <1>1, RecvAnswerTold
<1>3. /\ UNCHANGED <<uses, device, inbox, ssi_msg, power, term, links, currentThread>>
      /\ answer[t] # <<>> /\ answer' = [answer EXCEPT ![t] = Tail(@)]
      /\ \E point \in {"ack", "end"} : pc' = [pc EXCEPT ![t] = point]
  BY DEF RecvAnswer, Goes, deviceVars
<1>4. Tail(answer[t]) \in Seq(Statuses)
  BY <1>1, <1>3, HeadTailProperties DEF Typed
<1>5. Typed'
  BY <1>1, <1>3, <1>4, SameUses DEF Typed
<1>6. Placed' /\ Remembered'
  BY <1>1, <1>3, SamePlaced DEF Remembered
<1> QED
  BY <1>2, <1>5, <1>6 DEF Good

\* A step that tells nobody anything and leaves the SSI what it has to serve.
LEMMA QuietGood ==
    ASSUME Good, Recalled, UNCHANGED <<uses, pc, answer, device, term, dead>>, Unserved' = Unserved,
           inbox' \in Seq(Letters), ssi_msg' \in Letters \cup {NIL}, Aside(links, links'),
           power' \in {"on", "panicked", "faulted", "aborted"}, Placed'
    PROVE  Good'
<1>1. Typed /\ Told /\ Remembered
  BY DEF Good
<1>2. Told'
  BY <1>1, SameTold
<1>3. Typed'
  BY <1>1, SameUses DEF Typed
<1>4. Remembered'
  BY <1>1 DEF Remembered
<1> QED
  BY <1>2, <1>3, <1>4 DEF Good

\* RecvBlock and SsiBlock.
LEMMA BlockGood ==
    ASSUME Good, Recalled, NEW t \in Threads, Runs(t), Block(t), UNCHANGED dead,
           UNCHANGED <<userVars, inbox, ssi_msg, deviceVars>>
    PROVE  Good'
<1>1. Arranged(links, currentThread, uses) /\ currentThread = t /\ power = "on" /\ Placed /\ Typed
  BY DEF Good, Placed, Runs
<1>2. /\ Arranged(links', currentThread', uses) /\ Aside(links, links')
      /\ power' \in {power, "panicked"}
  BY <1>1, Blocked
<1>3. UNCHANGED <<uses, pc, answer, device, term>>
  BY DEF userVars, deviceVars
<1>4. Placed'
  BY <1>1, <1>2, <1>3, PlacedAside
<1>5. Unserved' = Unserved /\ inbox' \in Seq(Letters) /\ ssi_msg' \in Letters \cup {NIL}
  BY <1>1 DEF Unserved, Typed
<1> QED
  BY <1>1, <1>2, <1>3, <1>4, <1>5, QuietGood

\* The SSI receives a message.
LEMMA SsiReceiveGood ==
    ASSUME Good, Recalled, SsiReceive, UNCHANGED dead PROVE Good'
<1>1. /\ ssi_msg = NIL /\ inbox # <<>> /\ ssi_msg' = Head(inbox) /\ inbox' = Tail(inbox)
      /\ UNCHANGED <<links, currentThread, uses, pc, answer, device, term, power>>
  BY DEF SsiReceive, userVars, deviceVars
<1>2. Typed /\ Placed
  BY DEF Good
<1>3. Unserved' = Unserved /\ inbox' \in Seq(Letters) /\ ssi_msg' \in Letters
  BY <1>1, <1>2, UnservedSteps
<1>4. Placed'
  BY <1>1, <1>2, SamePlaced
<1> QED
  BY <1>1, <1>2, <1>3, <1>4, QuietGood DEF Aside, Typed

\* The end of the slice of a thread.
LEMMA PreemptedGood ==
    ASSUME Good, Recalled, Preempted, UNCHANGED dead PROVE Good'
<1>1. /\ power = "on" /\ currentThread \in Users
      /\ schedule(insertThread(links, readyQueue, currentThread), NIL, softBlockCount)
      /\ UNCHANGED <<uses, pc, answer, inbox, ssi_msg, device, term>>
  BY DEF Preempted, userVars, deviceVars
<1>2. Typed /\ Placed /\ Arranged(links, currentThread, uses)
  BY DEF Good, Placed
<1> DEFINE m == insertThread(links, readyQueue, currentThread)
<1>3. readyQueue \in AllHeads \ DeviceQueues /\ readyQueue # tcbFree /\ currentThread \in Threads
  BY <1>1, NodeFacts DEF Heads
<1>4. Arranged(m, NIL, uses) /\ Aside(links, m)
  BY <1>2, <1>3, ArrangedStop
<1>5. schedule(m, NIL, softBlockCount)
  BY <1>1
<1> HIDE DEF m
<1>6. /\ Arranged(links', currentThread', uses) /\ Aside(m, links')
      /\ power' \in {power, "panicked"}
  BY <1>4, <1>5, Scheduled
<1>7. Aside(links, links')
  BY <1>4, <1>6 DEF Aside
<1>8. Placed'
  BY <1>1, <1>2, <1>6, <1>7, PlacedAside
<1>9. Unserved' = Unserved /\ inbox' \in Seq(Letters) /\ ssi_msg' \in Letters \cup {NIL}
  BY <1>1, <1>2 DEF Unserved, Typed
<1> QED
  BY <1>1, <1>6, <1>7, <1>8, <1>9, QuietGood

\* An interrupt without a free message.
LEMMA FaultGood ==
    ASSUME Good, Recalled, InterruptFault, UNCHANGED dead PROVE Good'
<1>1. /\ power = "on" /\ power' = "faulted"
      /\ UNCHANGED <<links, currentThread, uses, pc, answer, inbox, ssi_msg, device, term>>
  BY DEF InterruptFault, userVars, deviceVars
<1>2. Typed /\ Placed
  BY DEF Good
<1>3. Placed'
  BY <1>1, <1>2, SamePlaced
<1>4. Unserved' = Unserved /\ inbox' \in Seq(Letters) /\ ssi_msg' \in Letters \cup {NIL}
  BY <1>1, <1>2 DEF Unserved, Typed
<1> QED
  BY <1>1, <1>3, <1>4, QuietGood DEF Aside

\* A step that changes nothing but the history.
LEMMA StutterGood ==
    ASSUME Good, Recalled, UNCHANGED vars, UNCHANGED dead PROVE Good'
<1>1. UNCHANGED <<links, currentThread, uses, pc, answer, inbox, ssi_msg, device, term, power>>
  BY DEF vars
<1>2. Typed /\ Placed
  BY DEF Good
<1>3. Placed'
  BY <1>1, <1>2, SamePlaced
<1>4. Unserved' = Unserved /\ inbox' \in Seq(Letters) /\ ssi_msg' \in Letters \cup {NIL}
  BY <1>1, <1>2 DEF Unserved, Typed
<1> QED
  BY <1>1, <1>2, <1>3, <1>4, QuietGood DEF Aside, Typed

\* A device completes its operation.
LEMMA CompletesGood ==
    ASSUME Good, Recalled, NEW d \in Device, DeviceCompletes(d), UNCHANGED dead PROVE Good'
<1>1. Typed /\ Told /\ Placed /\ Remembered
  BY DEF Good
<1>2. Told'
  BY <1>1, CompletesTold
<1>3. /\ UNCHANGED <<uses, pc, answer, inbox, ssi_msg, power, term, links, currentThread>>
      /\ device' = [device EXCEPT ![d] = "done"]
  BY DEF DeviceCompletes, userVars
<1>4. Typed'
  BY <1>1, <1>3, SameUses DEF Typed
<1>5. Placed' /\ Remembered'
  BY <1>1, <1>3, SamePlaced DEF Remembered
<1> QED
  BY <1>2, <1>4, <1>5 DEF Good

\* The SSI sends to t, from the links l.
LEMMA SsiSent ==
    ASSUME Typed, NEW l, NEW cur, Arranged(l, cur, uses), NEW t \in Users, NEW status,
           SsiSend(l, t, status)
    PROVE  /\ Arranged(links', cur, uses) /\ Aside(l, links') /\ power' = power
           /\ answer' = answer \/ answer' = [answer EXCEPT ![t] = Append(@, status)]
<1>1. Ordered(l) /\ t \in Threads \ {tcb_test} /\ waitQueue \in AllHeads
  BY NodeFacts DEF Arranged
<1>2. Arranged(Woken(l, t), cur, uses) /\ Aside(l, Woken(l, t))
      /\ PowerAfter(l, waitQueue, t) = power
  BY <1>1, WokenArranged, WokenPut
<1> QED
  BY <1>2 DEF SsiSend, Aside

\* An answer is a status.
LEMMA AnswerTyped ==
    ASSUME Typed, NEW t \in Users, NEW status \in Statuses,
           answer' = answer \/ answer' = [answer EXCEPT ![t] = Append(@, status)]
    PROVE  answer' \in [Users -> Seq(Statuses)]
<1>1. answer \in [Users -> Seq(Statuses)] /\ Append(answer[t], status) \in Seq(Statuses)
  BY AppendProperties DEF Typed
<1> QED
  BY <1>1

\* waitForIODone: only a thread with a device number 3 finds a status.
LEMMA WaitDoneGood ==
    ASSUME Good, Recalled, waitForIODone, UNCHANGED dead PROVE Good'
<1> DEFINE t == ssi_msg.sender
           n == DEVICE_N_FROM_REGSTATUS(ssi_msg.payload)
<1>1. Typed /\ Told /\ Placed /\ Remembered
  BY DEF Good
<1>2. /\ ssi_msg # NIL /\ ssi_msg.service = "WAITFORIO" /\ power = "on"
      /\ term[n] # NIL /\ SsiSend(links, t, term[n]) /\ term' = [term EXCEPT ![n] = NIL]
      /\ ssi_msg' = NIL /\ UNCHANGED <<currentThread, uses, pc, inbox, device>>
  BY DEF waitForIODone, Serves, Runs
<1>3. t \in Users /\ ssi_msg = WaitForIO(t) /\ n = uses[t][2] /\ n \in 0 .. 7
  BY <1>1, <1>2, ServiceFacts, UsesFacts, Addresses
<1> HIDE DEF t, n
<1>4. n = 3 /\ term[n] \in Statuses
  BY <1>1, <1>2, <1>3 DEF Remembered
<1>5. /\ Arranged(links', currentThread', uses) /\ Aside(links, links') /\ power' = power
      /\ answer' = answer \/ answer' = [answer EXCEPT ![t] = Append(@, term[n])]
  BY <1>1, <1>2, <1>3, SsiSent DEF Placed
<1>6. \A u \in Users : (Waits(u))' <=> Waits(u)
  BY <1>1, <1>2, <1>5, SameUses
<1>7. Told'
  BY <1>1, <1>2, <1>3, <1>4, <1>5, <1>6, AnswerTold
<1>8. Typed'
  BY <1>1, <1>2, <1>3, <1>4, <1>5, AnswerTyped, SameUses DEF Typed
<1>9. Placed'
  BY <1>1, <1>2, <1>5, PlacedAside
<1>10. Remembered'
  BY <1>1, <1>2, <1>3 DEF Remembered
<1> QED
  BY <1>7, <1>8, <1>9, <1>10 DEF Good

\* SsiAnswer.
LEMMA SsiAnswerGood ==
    ASSUME Good, Recalled, SsiAnswer PROVE Good'
<1> DEFINE t == ssi_msg.sender
           status == ssi_msg.payload
<1>1. Typed /\ Told /\ Placed /\ Remembered
  BY DEF Good
<1>2. /\ ssi_msg # NIL /\ ssi_msg.service = "TERMINATED" /\ power = "on"
      /\ SsiSend(links, t, status)
      /\ ssi_msg' = NIL /\ UNCHANGED <<currentThread, uses, pc, inbox, device, term, dead>>
  BY DEF SsiAnswer, Serves, Runs, deviceVars
<1>3. t \in Users /\ ssi_msg = ToDie(t, "TERMINATED") /\ status \in Statuses
  BY <1>1, <1>2, ServiceFacts
<1> HIDE DEF t, status
<1>4. ssi_msg \in LastRequests(t)
  BY <1>3 DEF LastRequests
<1>5. /\ Arranged(links', currentThread', uses) /\ Aside(links, links') /\ power' = power
      /\ answer' = answer \/ answer' = [answer EXCEPT ![t] = Append(@, status)]
  BY <1>1, <1>2, <1>3, SsiSent DEF Placed
<1>6. \A u \in Users : (Waits(u))' <=> Waits(u)
  BY <1>1, <1>2, <1>5, SameUses
<1>7. Told'
  BY <1>1, <1>2, <1>3, <1>4, <1>5, <1>6, AnswerTold
<1>8. Typed'
  BY <1>1, <1>2, <1>3, <1>5, AnswerTyped, SameUses DEF Typed
<1>9. Placed'
  BY <1>1, <1>2, <1>5, PlacedAside
<1>10. Remembered'
  BY <1>1, <1>2 DEF Remembered
<1> QED
  BY <1>7, <1>8, <1>9, <1>10 DEF Good

\* waitForIO, of a thread that is ready.
LEMMA WaitGood ==
    ASSUME Good, Recalled, waitForIO, ~Breaks, UNCHANGED dead PROVE Good'
<1> DEFINE t == ssi_msg.sender
           q == select_io_queue_from_status_addr(ssi_msg.payload)
<1>1. Typed /\ Told /\ Placed /\ Remembered /\ Arranged(links, currentThread, uses)
      /\ Ordered(links)
  BY DEF Good, Placed, Arranged
<1>2. /\ ssi_msg # NIL /\ ssi_msg.service = "WAITFORIO" /\ power = "on"
      /\ links' = insertThread(outThread(links, readyQueue, t), q, t)
      /\ power' = PowerAfter(links, readyQueue, t)
      /\ ssi_msg' = NIL
      /\ UNCHANGED <<currentThread, uses, pc, answer, inbox, device, term>>
  BY DEF waitForIO, Serves, Runs, userVars, deviceVars
<1>3. t \in Users /\ ssi_msg = WaitForIO(t) /\ q = uses[t] /\ q \in DeviceQueues
  BY <1>1, <1>2, ServiceFacts, UsesFacts, Addresses
<1>4. Linked(links, readyQueue, t)
  BY DEF Breaks
<1> HIDE DEF t, q
<1>5. /\ t \in Threads \ {tcb_test} /\ readyQueue \in AllHeads /\ q \in AllHeads
      /\ tcbFree \in AllHeads
      /\ tcbFree # readyQueue /\ tcbFree # q /\ q # readyQueue
      /\ \A d \in DeviceQueues : d \in AllHeads /\ d # readyQueue
  BY <1>3, NodeFacts DEF Heads
<1>6. t \in Held(links, readyQueue) /\ t # currentThread
  BY <1>1, <1>4, <1>5, HeldFacts DEF Arranged
<1>7. Puts(links, links', t, q)
  BY <1>1, <1>2, <1>5, <1>6, OutTaken, MovedPut
<1>8. Arranged(links', currentThread', uses)
  BY <1>1, <1>2, <1>3, <1>5, <1>6, <1>7, ArrangedPut
<1>9. \A k \in AllHeads : k # readyQueue => t \notin Held(links, k)
  BY <1>1, <1>5, <1>6, HeldFacts
<1>10. Held(links', tcbFree) = Held(links, tcbFree)
  BY <1>5, <1>7, <1>9 DEF Puts
<1>11. \A u \in Users : u # t => ((Waits(u))' <=> Waits(u))
  BY <1>1, <1>2, <1>5, <1>7, UsesFacts DEF Waits, Puts
<1>12. Told'
  BY <1>1, <1>2, <1>3, <1>11, WaitTold
<1>13. power' = power
  BY <1>1, <1>2, <1>5, WokenPut
<1>14. Typed'
  BY <1>1, <1>2, <1>13, SameUses DEF Typed
<1>15. Placed'
  BY <1>1, <1>2, <1>8, <1>10, <1>13 DEF Placed
<1>16. Remembered'
  BY <1>1, <1>2 DEF Remembered
<1> QED
  BY <1>12, <1>14, <1>15, <1>16 DEF Good

\* wakeUpFromIO: the thread that waits is the one that uses the device.
LEMMA WakeGood ==
    ASSUME Good, Recalled, wakeUpFromIO, UNCHANGED dead PROVE Good'
<1> DEFINE q == select_io_queue_from_status_addr(ssi_msg.sender)
           first == links.next[q]
           status == ssi_msg.payload
           moved == insertThread(removeThread(links, q), waitQueue, first)
<1>1. Typed /\ Told /\ Placed /\ Remembered /\ Arranged(links, currentThread, uses)
      /\ Ordered(links)
  BY DEF Good, Placed, Arranged
<1>2. /\ ssi_msg # NIL /\ ssi_msg.service = "WAKE_UP_FROM_IO" /\ power = "on"
      /\ ~list_empty(links, q)
      /\ first \in Users => SsiSend(moved, first, status)
      /\ ssi_msg' = NIL
      /\ UNCHANGED <<currentThread, uses, pc, inbox, device, term>>
  BY DEF wakeUpFromIO, Serves, Runs, deviceVars
<1>3. PICK d \in Lines \X {0, 7} : ssi_msg \in Completions(d) /\ status \in Statuses /\ q = d
  BY <1>1, <1>2, ServiceFacts
<1> HIDE DEF q, status
<1>4. /\ q \in DeviceQueues /\ q \in AllHeads /\ waitQueue \in AllHeads /\ tcbFree \in AllHeads
      /\ q # waitQueue /\ q # tcbFree /\ tcbFree # waitQueue /\ waitQueue \notin DeviceQueues
      /\ \A e \in DeviceQueues : e \in AllHeads /\ e # waitQueue
  BY <1>1, <1>3, UsesFacts, NodeFacts DEF Heads
<1>5. /\ first \in Held(links, q) /\ Takes(links, removeThread(links, q), first)
      /\ Loose(removeThread(links, q), first)
  BY <1>1, <1>2, <1>4, FirstTaken
<1>6. PICK t \in Users : t = first
  BY <1>1, <1>4, <1>5 DEF Arranged
<1>7. /\ uses[t] = q /\ t # currentThread /\ t \in Threads \ {tcb_test}
      /\ t \in Held(links, q) /\ Puts(links, moved, t, waitQueue)
  BY <1>1, <1>4, <1>5, <1>6, MovedPut, NodeFacts DEF Arranged
<1> HIDE DEF first, moved
<1>8. Arranged(moved, currentThread, uses)
  BY <1>1, <1>4, <1>7, ArrangedPut
<1>9. /\ Arranged(links', currentThread', uses) /\ Aside(moved, links') /\ power' = power
      /\ answer' = answer \/ answer' = [answer EXCEPT ![t] = Append(@, status)]
  BY <1>1, <1>2, <1>6, <1>8, SsiSent
<1>10. \A k \in DeviceQueues \cup {tcbFree} : Held(links', k) = Held(links, k) \ {t}
  BY <1>4, <1>7, <1>9 DEF Aside, Puts
<1>11. t \notin Held(links, tcbFree)
  BY <1>1, <1>4, <1>7, HeldFacts
<1>12. /\ Waits(t) /\ ~(Waits(t))'
       /\ \A u \in Users : u # t => ((Waits(u))' <=> Waits(u))
  <2>1. t \in Held(links, uses[t]) /\ \A u \in Users : uses[u] \in DeviceQueues
    BY <1>1, <1>7, UsesFacts
  <2>2. \A u \in Users : Held(links', uses[u]) = Held(links, uses[u]) \ {t}
    BY <1>10, <2>1
  <2> QED BY <1>2, <2>1, <2>2 DEF Waits
<1>13. ssi_msg \in Completions(uses[t]) /\ ssi_msg \notin RequestsOf(t)
  BY <1>1, <1>3, <1>7, LetterFacts
<1>14. Told'
  <2>1. ssi_msg \in Completions(uses[t]) /\ Waits(t) /\ ~(Waits(t))'
    BY <1>12, <1>13
  <2>2. \A u \in Users : u # t \/ ssi_msg \in RequestsOf(t) => ((Waits(u))' <=> Waits(u))
    BY <1>12, <1>13
  <2> QED BY <1>1, <1>2, <1>3, <1>6, <1>9, <2>1, <2>2, AnswerTold
<1>15. Typed'
  BY <1>1, <1>2, <1>3, <1>6, <1>9, AnswerTyped, SameUses DEF Typed
<1>16. Placed'
  <2>1. Held(links', tcbFree) = Held(links, tcbFree)
    BY <1>10, <1>11
  <2>2. Held(links, tcbFree) = dead
    BY <1>1, <1>2 DEF Placed
  <2> QED BY <1>2, <1>9, <2>1, <2>2 DEF Placed
<1>17. Remembered'
  BY <1>1, <1>2 DEF Remembered
<1> QED
  BY <1>14, <1>15, <1>16, <1>17 DEF Good

\* wakeUpNobody: the status is remembered for the number 3.
LEMMA WakeNobodyGood ==
    ASSUME Good, Recalled, wakeUpNobody, UNCHANGED dead, Early \subseteq early' PROVE Good'
<1> DEFINE status == ssi_msg.payload
<1>1. Typed /\ Told /\ Placed /\ Remembered
  BY DEF Good
<1>2. /\ ssi_msg # NIL /\ ssi_msg.service = "WAKE_UP_FROM_IO" /\ power = "on"
      /\ term' = [term EXCEPT ![DEVICE_N_FROM_REGSTATUS(status)] = status] /\ ssi_msg' = NIL
      /\ UNCHANGED <<links, currentThread, uses, pc, answer, inbox, device, power>>
  BY DEF wakeUpNobody, Serves, Runs, userVars
<1>3. PICK d \in Lines \X {0, 7} : ssi_msg \in Completions(d) /\ status \in Statuses
  BY <1>1, <1>2, ServiceFacts
<1>4. DEVICE_N_FROM_REGSTATUS(status) = 3 /\ status # NIL
  <2>1. <<3, 0>> \in (3 .. 7) \X (0 .. 7)
    OBVIOUS
  <2>2. NIL \notin 0 .. 7
    BY DevicesAssumption
  <2> QED BY <1>3, <2>1, <2>2, Addresses DEF Statuses
<1> HIDE DEF status
<1>5. Remembered'
  BY <1>1, <1>2, <1>3, <1>4 DEF Remembered
<1>6. Told'
  <2>1. d \in DeviceQueues /\ ssi_msg.sender = DEV_ADDR_BASE(d[1], d[2])
    BY <1>1, <1>3, UsesFacts DEF Completions, Completion
  <2>2. \A u \in Users : uses[u] = d => device[uses[u]] # "ready" \/ u \in early'
    BY <2>1 DEF Early
  <2> QED BY <1>1, <1>2, <1>3, <2>1, <2>2, RememberTold
<1>7. Typed'
  BY <1>1, <1>2, SameUses DEF Typed
<1>8. Placed'
  BY <1>1, <1>2, SamePlaced
<1> QED
  BY <1>5, <1>6, <1>7, <1>8 DEF Good

\* Interrupt: of the first line that has one.
LEMMA InterruptGood ==
    ASSUME Good, Recalled, Interrupt, UNCHANGED dead PROVE Good'
<1> DEFINE L == {d[1] : d \in {e \in Pending : e[1] \in LinesServed}}
           first == Min(L)
<1>1. Typed /\ Told /\ Placed /\ Remembered /\ Arranged(links, currentThread, uses)
      /\ Ordered(links)
  BY DEF Good, Placed, Arranged
<1>2. /\ power = "on" /\ L # {}
      /\ device' = IF <<first, DeviceSeen(first)>> \in Device
                   THEN Acknowledged(<<first, DeviceSeen(first)>>) ELSE device
      /\ inbox' = Append(inbox, [service |-> "WAKE_UP_FROM_IO",
                                 payload |-> StatusSeen(<<first, DeviceSeen(first)>>),
                                 sender |-> DEV_ADDR_BASE(<<first, DeviceSeen(first)>>[1],
                                                          <<first, DeviceSeen(first)>>[2])])
      /\ IF Loops(links, waitQueue, tcb_SSI)
         THEN power' = "hung" /\ UNCHANGED <<links, currentThread>>
         ELSE schedule(Woken(links, tcb_SSI), currentThread, softBlockCount)
      /\ UNCHANGED <<uses, pc, answer, ssi_msg, term>>
  BY DEF Interrupt, userVars
<1>3. first \in L
  <2>1. L \subseteq 1 .. 7 /\ 7 \in Nat
    BY DEF LinesServed
  <2> HIDE DEF L
  <2>2. \E x \in L : \A y \in L : x <= y
    BY <1>2, <2>1, LeastPosition
  <2> QED BY <2>2 DEF Min
<1>4. PICK e \in Device : device[e] = "done" /\ e[1] = first
  BY <1>3 DEF Pending
<1>5. first \in Lines
  BY <1>4, DevicesAssumption DEF Lines
<1> HIDE DEF L, first
<1>6. PICK d \in Lines \X {0, 7} : d = <<first, DeviceSeen(first)>>
  <2>1. DeviceSeen(first) \in {0, 7}
    BY DEF DeviceSeen
  <2> QED BY <1>5, <2>1
<1>7. d[1] = first /\ d[2] = IF <<d[1], 0>> \in Pending THEN 0 ELSE 7
  BY <1>6 DEF DeviceSeen
<1>8. StatusSeen(d) \in Statuses
  <2>1. Completed(d) \in Statuses
    BY DEF Completed, Statuses
  <2>2. Status(d) \in Statuses
    <3>1. CASE d \notin Device
      BY <3>1 DEF Status, Statuses
    <3>2. CASE d \in Device
      <4>1. device[d] \in {"ready", "busy", "done"}
        BY <1>1, <3>2 DEF Typed
      <4> QED BY <2>1, <3>2, <4>1 DEF Status, Statuses
    <3> QED BY <3>1, <3>2
  <2> QED BY <2>2 DEF StatusSeen, Statuses
<1>9. PICK m \in Completions(d) : inbox' = Append(inbox, m)
  BY <1>2, <1>6, <1>8 DEF Completions, Completion
<1>10. m \in Letters
  BY <1>1, LetterFacts
<1>11. Unserved' = Append(Unserved, m) /\ inbox' \in Seq(Letters)
  <2>1. inbox \in Seq(Letters)
    BY <1>1 DEF Typed
  <2>2. inbox' \in Seq(Letters)
    BY <1>9, <1>10, <2>1, AppendProperties
  <2>3. Unserved' = Append(Unserved, m)
    BY <1>1, <1>2, <1>9, <1>10, UnservedSteps
  <2> QED BY <2>2, <2>3
<1>12. tcb_SSI \in Threads \ {tcb_test} /\ waitQueue \in AllHeads
  BY NodeFacts
<1>13. /\ Arranged(links', currentThread', uses) /\ Aside(links, links')
       /\ power' \in {power, "panicked"}
  <2>1. Arranged(Woken(links, tcb_SSI), currentThread, uses)
        /\ Aside(links, Woken(links, tcb_SSI))
    BY <1>1, <1>12, WokenArranged
  <2>2. schedule(Woken(links, tcb_SSI), currentThread, softBlockCount)
    BY <1>1, <1>2, <1>12, HeldFacts
  <2>3. /\ Arranged(links', currentThread', uses) /\ Aside(Woken(links, tcb_SSI), links')
        /\ power' \in {power, "panicked"}
    BY <2>1, <2>2, Scheduled
  <2> QED BY <2>1, <2>3 DEF Aside
<1>14. device' = IF d \in Device THEN Acknowledged(d) ELSE device
  BY <1>2, <1>6
<1>15. Told'
  BY <1>1, <1>2, <1>4, <1>7, <1>11, <1>13, <1>14, InterruptTold
<1>16. device' \in [Device -> {"ready", "busy", "done"}]
  BY <1>1, <1>14 DEF Typed, Acknowledged
<1>17. Typed'
  BY <1>1, <1>2, <1>11, <1>13, <1>16, SameUses DEF Typed
<1>18. Placed'
  BY <1>1, <1>2, <1>13, PlacedAside
<1>19. Remembered'
  BY <1>1, <1>2 DEF Remembered
<1> QED
  BY <1>15, <1>17, <1>18, <1>19 DEF Good

\* The state of the lists, of the count of blocked threads and of the processor
\* in terminate().
IsState(s) == s = [links |-> s.links, soft |-> s.soft, power |-> s.power]

\* What terminate() makes of one victim, k, from the lists, the count of the
\* blocked and the processor in s.
LEMMA Killed ==
    ASSUME Typed, NEW s, IsState(s), s.power = "on", Arranged(s.links, currentThread, uses),
           NEW k \in Users, k # currentThread
    PROVE  LET r == Kill(s, k)
           IN /\ IsState(r) /\ Arranged(r.links, currentThread, uses)
              /\ \A d \in DeviceQueues : Held(r.links, d) = Held(s.links, d)
              /\ \/ r.power = "on" /\ Held(r.links, tcbFree) = Held(s.links, tcbFree) \cup {k}
                    /\ k \notin Held(s.links, tcbFree) /\ k \notin Held(s.links, uses[k])
                 \/ r.power = "aborted" /\ r.links = s.links
                    /\ (k \in Held(s.links, tcbFree) \/ k \in Held(s.links, uses[k]))
<1> DEFINE l == s.links
           r == Kill(s, k)
<1>0. s = [links |-> l, soft |-> s.soft, power |-> "on"]
  BY DEF IsState
<1>1. Ordered(l) /\ k \in Threads \ {tcb_test} /\ waitQueue \in AllHeads /\ readyQueue \in AllHeads
      /\ tcbFree \in AllHeads /\ uses[k] \in DeviceQueues /\ uses[k] \in AllHeads
      /\ tcbFree \notin DeviceQueues /\ tcbFree # waitQueue /\ tcbFree # readyQueue
      /\ \A d \in DeviceQueues : d \in AllHeads /\ d # waitQueue /\ d # readyQueue
  BY NodeFacts, UsesFacts DEF Arranged, Heads
<1>2. \A h \in AllHeads : ~Loops(l, h, k) /\ (Linked(l, h, k) <=> k \in Held(l, h))
  BY <1>1, HeldFacts
<1>3. ASSUME NEW h \in {waitQueue, readyQueue}, k \in Held(l, h),
             r.links = freeTcb(outThread(l, h, k), k), r.power = "on"
      PROVE  /\ Arranged(r.links, currentThread, uses)
             /\ \A d \in DeviceQueues : Held(r.links, d) = Held(l, d)
             /\ Held(r.links, tcbFree) = Held(l, tcbFree) \cup {k}
             /\ k \notin Held(l, tcbFree) /\ k \notin Held(l, uses[k])
  <2>1. h \in AllHeads /\ h # tcbFree /\ \A d \in DeviceQueues : d # h
    BY <1>1
  <2>2. Puts(l, r.links, k, tcbFree)
    BY <1>1, <1>3, <2>1, OutTaken, MovedPut
  <2>3. \A g \in AllHeads : g # h => k \notin Held(l, g)
    BY <1>1, <1>3, <2>1, HeldFacts
  <2> HIDE DEF r, l
  <2>4. Arranged(l, currentThread, uses)
    BY DEF l
  <2>5. Arranged(r.links, currentThread, uses)
    BY <1>1, <2>2, <2>4, ArrangedPut
  <2>6. \A g \in AllHeads :
           Held(r.links, g) = IF g = tcbFree THEN Held(l, g) \cup {k} ELSE Held(l, g) \ {k}
    BY <2>2 DEF Puts
  <2>7. \A d \in DeviceQueues : Held(r.links, d) = Held(l, d)
    <3> SUFFICES ASSUME NEW d \in DeviceQueues PROVE Held(r.links, d) = Held(l, d)
      OBVIOUS
    <3>1. d \in AllHeads /\ d # tcbFree /\ k \notin Held(l, d)
      BY <1>1, <2>1, <2>3
    <3> QED BY <2>6, <3>1
  <2>8. k \notin Held(l, tcbFree) /\ k \notin Held(l, uses[k])
    BY <1>1, <2>1, <2>3
  <2> QED BY <1>1, <2>5, <2>6, <2>7, <2>8
<1>4. CASE k \in Held(l, waitQueue)
  <2> DEFINE m == freeTcb(outThread(l, waitQueue, k), k)
  <2>1. r = [s EXCEPT !.links = m, !.soft = Dec(@)]
    BY <1>2, <1>1, <1>4 DEF Kill
  <2> HIDE DEF m
  <2>2. r = [links |-> m, soft |-> Dec(s.soft), power |-> "on"]
    BY <1>0, <2>1
  <2>3. r.links = m /\ r.power = "on" /\ IsState(r)
    BY <2>2 DEF IsState
  <2> QED BY <1>3, <1>4, <2>3 DEF m
<1>5. CASE k \notin Held(l, waitQueue) /\ k \in Held(l, readyQueue)
  <2> DEFINE m == freeTcb(outThread(l, readyQueue, k), k)
  <2>1. r = [s EXCEPT !.links = m]
    BY <1>1, <1>2, <1>5 DEF Kill
  <2> HIDE DEF m
  <2>2. r = [links |-> m, soft |-> s.soft, power |-> "on"]
    BY <1>0, <2>1
  <2>3. r.links = m /\ r.power = "on" /\ IsState(r)
    BY <2>2 DEF IsState
  <2> QED BY <1>3, <1>5, <2>3 DEF m
<1>6. CASE k \notin Held(l, waitQueue) /\ k \notin Held(l, readyQueue)
  <2>1. r = [s EXCEPT !.power = "aborted"]
    BY <1>1, <1>2, <1>6 DEF Kill
  <2>2. r = [links |-> l, soft |-> s.soft, power |-> "aborted"]
    BY <1>0, <2>1
  <2>3. r.links = l /\ r.power = "aborted" /\ IsState(r)
    BY <2>2 DEF IsState
  <2>4. PICK h \in AllHeads : k \in Held(l, h)
    BY <1>1 DEF Arranged
  <2>5. h = tcbFree \/ h = uses[k]
    BY <1>6, <2>4, NodeFacts DEF Arranged
  <2> QED BY <2>3, <2>4, <2>5
<1> QED
  BY <1>4, <1>5, <1>6

\* terminate() moves one victim, or two, to the list of free TCBs, or panics for
\* one that is there, or waits for a device.
LEMMA VictimsKilled ==
    ASSUME Good, SsiTerminate
    PROVE  LET victims == ToSet(Family(ssi_msg.sender))
           IN /\ Arranged(links', currentThread, uses)
              /\ \A d \in DeviceQueues : Held(links', d) = Held(links, d)
              /\ Held(links, tcbFree) \subseteq Held(links', tcbFree)
              /\ \/ power' = "on" /\ Held(links', tcbFree) = Held(links, tcbFree) \cup victims
                 \/ /\ power' = "aborted"
                    /\ \E t \in victims : t \in Held(links, tcbFree) \/ t \in Held(links, uses[t])
<1> DEFINE t == ssi_msg.sender
           victims == Family(t)
           start == [links |-> links, soft |-> softBlockCount, power |-> power]
           first == Kill(start, victims[1])
           end == IF Len(victims) = 1 THEN first ELSE Kill(first, victims[2])
<1>1. Typed /\ Arranged(links, currentThread, uses)
  BY DEF Good, Placed
<1>2. /\ ssi_msg # NIL /\ ssi_msg.service = "TERMINATE" /\ power = "on"
      /\ currentThread = tcb_SSI
      /\ links' = end.links /\ power' = end.power
  BY DEF SsiTerminate, Serves, Runs
<1>3. t \in Users
  BY <1>1, <1>2, ServiceFacts
<1>4. /\ victims \in {<<child, parent>>, <<t>>} /\ parent \in Users /\ child \in Users
      /\ parent # child
  BY <1>3, DeathsAssumption DEF Family
<1>5. IsState(start) /\ start.power = "on" /\ start.links = links
  BY <1>2 DEF IsState
<1>6. \A u \in Users : u # currentThread
  BY <1>2, NodeFacts
<1> HIDE DEF t, start
<1>7. CASE victims = <<t>>
  <2>1. victims[1] = t /\ end = first /\ ToSet(victims) = {t}
    BY <1>7 DEF ToSet
  <2>2. end = Kill(start, t)
    BY <2>1
  <2> HIDE DEF end, victims
  <2>3. /\ Arranged(end.links, currentThread, uses)
        /\ \A d \in DeviceQueues : Held(end.links, d) = Held(links, d)
        /\ \/ end.power = "on" /\ Held(end.links, tcbFree) = Held(links, tcbFree) \cup {t}
           \/ /\ end.power = "aborted" /\ end.links = links
              /\ t \in Held(links, tcbFree) \/ t \in Held(links, uses[t])
    BY <1>1, <1>3, <1>5, <1>6, <2>2, Killed
  <2> QED BY <1>2, <2>1, <2>3 DEF victims, t
<1>8. CASE victims = <<child, parent>>
  <2>1. victims[1] = child /\ victims[2] = parent /\ end = Kill(first, parent)
        /\ first = Kill(start, child) /\ ToSet(victims) = {child, parent}
    BY <1>8 DEF ToSet
  <2> HIDE DEF end, first, victims
  <2>2. /\ IsState(first) /\ Arranged(first.links, currentThread, uses)
        /\ \A d \in DeviceQueues : Held(first.links, d) = Held(links, d)
        /\ \/ first.power = "on" /\ Held(first.links, tcbFree) = Held(links, tcbFree) \cup {child}
           \/ /\ first.power = "aborted" /\ first.links = links
              /\ child \in Held(links, tcbFree) \/ child \in Held(links, uses[child])
    BY <1>1, <1>4, <1>5, <1>6, <2>1, Killed
  <2>3. CASE first.power = "aborted"
    <3>1. end = first
      BY <2>1, <2>3 DEF Kill
    <3> QED BY <1>2, <2>1, <2>2, <2>3, <3>1 DEF victims, t
  <2>4. CASE first.power = "on"
    <3>1. IsState(first) /\ first.power = "on" /\ Arranged(first.links, currentThread, uses)
      BY <2>2, <2>4
    <3>2. parent \in Users /\ parent # currentThread
      BY <1>4, <1>6
    <3> DEFINE r == Kill(first, parent)
    <3>3. /\ Arranged(r.links, currentThread, uses)
          /\ \A d \in DeviceQueues : Held(r.links, d) = Held(first.links, d)
          /\ \/ /\ r.power = "on"
                /\ Held(r.links, tcbFree) = Held(first.links, tcbFree) \cup {parent}
             \/ /\ r.power = "aborted" /\ r.links = first.links
                /\ \/ parent \in Held(first.links, tcbFree)
                   \/ parent \in Held(first.links, uses[parent])
      BY <1>1, <3>1, <3>2, Killed
    <3>4. end = r
      BY <2>1
    <3> HIDE DEF r
    <3>5. uses[parent] \in DeviceQueues
      BY <1>1, <3>2, UsesFacts
    <3>6. Held(first.links, tcbFree) = Held(links, tcbFree) \cup {child}
      BY <2>2, <2>4
    <3>7. parent \in Held(first.links, tcbFree) => parent \in Held(links, tcbFree)
      BY <1>4, <3>6
    <3>8. Held(first.links, uses[parent]) = Held(links, uses[parent])
      BY <2>2, <3>5
    <3>9. links' = r.links /\ power' = r.power
      BY <1>2, <3>4
    <3>10. ToSet(Family(ssi_msg.sender)) = {child, parent}
      BY <2>1 DEF victims, t
    <3>11. \A d \in DeviceQueues : Held(r.links, d) = Held(links, d)
      BY <2>2, <3>3
    <3>12. CASE r.power = "on"
      BY <3>3, <3>6, <3>9, <3>10, <3>11, <3>12
    <3>13. CASE r.power = "aborted"
      BY <3>3, <3>6, <3>7, <3>8, <3>9, <3>10, <3>11, <3>13
    <3> QED BY <3>3, <3>12, <3>13
  <2> QED BY <2>2, <2>3, <2>4
<1> QED BY <1>4, <1>7, <1>8

\* terminate(): one victim, or two.
LEMMA TerminateGood ==
    ASSUME Good, Recalled, SsiTerminate PROVE Good'
<1> DEFINE t == ssi_msg.sender
           victims == Family(t)
<1>1. Typed /\ Told /\ Placed /\ Remembered /\ Arranged(links, currentThread, uses)
  BY DEF Good, Placed
<1>2. /\ ssi_msg # NIL /\ ssi_msg.service = "TERMINATE" /\ power = "on"
      /\ currentThread = tcb_SSI
      /\ dead' = dead \cup ToSet(victims)
      /\ answer' = [u \in Users |-> IF Contains(victims, u) THEN <<>> ELSE answer[u]]
      /\ ssi_msg' = [ssi_msg EXCEPT !.service = "TERMINATED"]
      /\ UNCHANGED <<currentThread, uses, pc, inbox, device, term>>
  BY DEF SsiTerminate, Serves, Runs, deviceVars
<1>3. t \in Users /\ ssi_msg = ToDie(t, "TERMINATE")
  BY <1>1, <1>2, ServiceFacts
<1>4. ssi_msg' = ToDie(t, "TERMINATED")
  BY <1>2, <1>3 DEF ToDie
<1>5. /\ victims \in {<<child, parent>>, <<t>>} /\ parent \in Users /\ child \in Users
  BY <1>3, DeathsAssumption DEF Family
<1>8. /\ Arranged(links', currentThread, uses)
      /\ \A d \in DeviceQueues : Held(links', d) = Held(links, d)
      /\ power' \in {"on", "aborted"}
      /\ power' = "on" => Held(links', tcbFree) = Held(links, tcbFree) \cup ToSet(victims)
  BY VictimsKilled
<1> HIDE DEF t
<1>9. \A u \in Users : (Waits(u))' <=> Waits(u)
  BY <1>1, <1>2, <1>8, UsesFacts DEF Waits
<1>10. \A u \in Users : answer'[u] \in {<<>>, answer[u]}
  BY <1>2
<1>11. Told'
  BY <1>1, <1>2, <1>3, <1>4, <1>9, <1>10, TerminateTold
<1>12. ToSet(victims) \subseteq Users
  BY <1>3, <1>5 DEF ToSet
<1>13. Typed'
  <2>1. answer' \in [Users -> Seq(Statuses)]
    <3>1. \A u \in Users : <<>> \in Seq(Statuses) /\ answer[u] \in Seq(Statuses)
      BY <1>1 DEF Typed
    <3> QED BY <1>2, <3>1
  <2>2. ssi_msg' \in Letters
    BY <1>1, <1>3, <1>4, LetterFacts DEF RequestsOf, LastRequests
  <2> HIDE DEF victims
  <2> QED BY <1>1, <1>2, <1>8, <1>12, <2>1, <2>2, SameUses DEF Typed
<1>14. Placed'
  <2> HIDE DEF victims
  <2> QED BY <1>1, <1>2, <1>8 DEF Placed
<1>15. Remembered'
  BY <1>1, <1>2 DEF Remembered
<1> QED
  BY <1>11, <1>13, <1>14, <1>15 DEF Good

\* A thread does something only when it runs.
LEMMA UserRuns ==
    ASSUME NEW t, UserStep(t) PROVE Runs(t)
BY DEF UserStep, Termprint, SendRequest, RecvAnswer, RecvBlock, Ack, At

\* That a completion came early is forgotten when the device is put to work.
LEMMA EarlyRecalled ==
    ASSUME Typed, [DeathsNext]_deathsVars
    PROVE  /\ Recalled
           /\ wakeUpNobody /\ early' = (early \cup Early) \ Afresh => Early \subseteq early'
<1>1. ASSUME NEW t \in Users, UserStep(t), Goes(t, "send") PROVE device'[uses[t]] # "ready"
  <2>1. uses[t] \in Device
    BY UsesFacts
  <2>2. pc'[t] = "send"
    BY <1>1 DEF Goes, Typed
  <2>3. \A d : d \in [Device -> {"ready", "busy", "done"}] /\ putChar(d, t)
                  => device'[uses[t]] # "ready"
    BY <2>1 DEF putChar
  <2>4. device \in [Device -> {"ready", "busy", "done"}]
    BY DEF Typed
  <2>5. Acknowledged(uses[t]) \in [Device -> {"ready", "busy", "done"}]
    BY <2>1, <2>4 DEF Acknowledged
  <2>6. \A point : pc[t] = point /\ UNCHANGED pc => point = "send"
    BY <2>2
  <2>7. \A point : Goes(t, point) => point = "send"
    BY <2>2 DEF Goes, Typed
  <2>8. CASE Termprint(t)
    BY <2>3, <2>4, <2>7, <2>8 DEF Termprint
  <2>9. ~SendRequest(t)
    BY <2>7 DEF SendRequest, Request
  <2>10. ~RecvAnswer(t)
    BY <2>7 DEF RecvAnswer
  <2>11. ~RecvBlock(t)
    BY <2>6 DEF RecvBlock, At, userVars
  <2>12. CASE Ack(t)
    BY <2>3, <2>5, <2>7, <2>12 DEF Ack
  <2> QED BY <1>1, <2>8, <2>9, <2>10, <2>11, <2>12 DEF UserStep
<1>2. early' = (early \cup Early) \ Afresh => Recalled
  BY <1>1 DEF Recalled, Afresh
<1>3. UNCHANGED early => Recalled
  BY DEF Recalled
<1>4. Recalled
  BY <1>2, <1>3 DEF DeathsNext, AskToDie, SsiTerminate, SsiAnswer, deathsVars
<1>5. ASSUME wakeUpNobody PROVE Afresh = {}
  <2>1. Runs(tcb_SSI)
    BY <1>5 DEF wakeUpNobody, Serves
  <2>2. \A t \in Users : ~Runs(t)
    BY <2>1, NodeFacts DEF Runs
  <2> QED BY <2>2, UserRuns DEF Afresh
<1> QED
  BY <1>4, <1>5

\* Every step keeps the invariant, as long as waitForIO links only ready threads.
LEMMA StepGood ==
    ASSUME Good, [DeathsNext]_deathsVars, ~broken, ~broken' PROVE Good'
<1>0. Recalled /\ (wakeUpNobody /\ early' = (early \cup Early) \ Afresh => Early \subseteq early')
  BY EarlyRecalled DEF Good
<1>1. CASE /\ Next /\ UNCHANGED dead /\ broken' = (broken \/ Breaks)
           /\ early' = (early \cup Early) \ Afresh
  <2>1. ~Breaks /\ UNCHANGED dead /\ Recalled /\ (wakeUpNobody => Early \subseteq early')
    BY <1>0, <1>1
  <2>2. ASSUME NEW t \in Users, UserStep(t) PROVE Good'
    <3>1. CASE Termprint(t)
      BY <2>1, <3>1, TermprintGood
    <3>2. CASE SendRequest(t)
      <4>1. Request(t, WaitForIO(t)) /\ Runs(t) /\ pc[t] = "send" /\ UNCHANGED term
        BY <3>2 DEF SendRequest, At, Request, deviceVars
      <4> QED BY <2>1, <4>1, RequestGood
    <3>3. CASE RecvAnswer(t)
      BY <2>1, <3>3, RecvAnswerGood
    <3>4. CASE RecvBlock(t)
      <4>1. /\ Runs(t) /\ Block(t) /\ t \in Threads
            /\ UNCHANGED <<userVars, inbox, ssi_msg, deviceVars>>
        BY <3>4, NodeFacts DEF RecvBlock, At
      <4> QED BY <2>1, <4>1, BlockGood
    <3>5. CASE Ack(t)
      BY <2>1, <3>5, AckGood
    <3> QED BY <2>2, <3>1, <3>2, <3>3, <3>4, <3>5 DEF UserStep
  <2>3. CASE SsiStep
    <3>1. CASE SsiReceive
      BY <2>1, <3>1, SsiReceiveGood
    <3>2. CASE SsiBlock
      <4>1. Runs(tcb_SSI) /\ Block(tcb_SSI) /\ tcb_SSI \in Threads
            /\ UNCHANGED <<userVars, inbox, ssi_msg, deviceVars>>
        BY <3>2, NodeFacts DEF SsiBlock
      <4> QED BY <2>1, <4>1, BlockGood
    <3>3. CASE waitForIODone
      BY <2>1, <3>3, WaitDoneGood
    <3>4. CASE waitForIO
      BY <2>1, <3>4, WaitGood
    <3>5. CASE wakeUpFromIO
      BY <2>1, <3>5, WakeGood
    <3>6. CASE wakeUpNobody
      BY <2>1, <3>6, WakeNobodyGood
    <3> QED BY <2>3, <3>1, <3>2, <3>3, <3>4, <3>5, <3>6 DEF SsiStep
  <2>4. CASE \E d \in Device : DeviceCompletes(d)
    BY <2>1, <2>4, CompletesGood
  <2>5. CASE Interrupt
    BY <2>1, <2>5, InterruptGood
  <2>6. CASE InterruptFault
    BY <2>1, <2>6, FaultGood
  <2>7. CASE Preempted
    BY <2>1, <2>7, PreemptedGood
  <2>8. CASE Idle
    BY <2>1, <2>8, StutterGood DEF Idle
  <2> QED BY <1>1, <2>2, <2>3, <2>4, <2>5, <2>6, <2>7, <2>8 DEF Next
<1>2. ASSUME NEW t \in Users, AskToDie(t) PROVE Good'
  <2>1. /\ Request(t, ToDie(t, "TERMINATE")) /\ Runs(t) /\ pc[t] = "print"
        /\ UNCHANGED <<term, dead>>
    BY <1>2 DEF AskToDie, At, ToDie, Request, deviceVars
  <2> QED BY <1>0, <2>1, RequestGood
<1>3. CASE SsiTerminate
  BY <1>0, <1>3, TerminateGood
<1>4. CASE SsiAnswer
  BY <1>0, <1>4, SsiAnswerGood
<1>5. CASE UNCHANGED deathsVars
  BY <1>0, <1>5, StutterGood DEF deathsVars
<1> QED
  BY <1>1, <1>2, <1>3, <1>4, <1>5 DEF DeathsNext

-----------------------------------------------------------------------------
(* What boot makes. *)

\* The fold of Created: its recursion has a solution.
LEMMA CreatedRecursion ==
    ASSUME NEW n \in Nat, NEW s, DOMAIN s = 1 .. n
    PROVE  \E f :
              /\ Created(s) = f[1 .. n]
              /\ \A t \in SUBSET (1 .. n) :
                    f[t] = IF t = {} THEN Initialised
                           ELSE insertThread(f[t \ {Max(t)}], readyQueue, s[Max(t)])
<1> DEFINE step(f, t) == IF t = {} THEN Initialised
                         ELSE insertThread(f[t \ {Max(t)}], readyQueue, s[Max(t)])
           Solves(f, k) == f = [t \in SUBSET (1 .. k) |-> step(f, t)]
           J == {k \in 1 .. n + 1 : \E f : Solves(f, k - 1)}
<1>0. \A k \in Nat : \A t \in SUBSET (1 .. k) : t # {} => Max(t) \in t /\ \A i \in t : i <= Max(t)
  <2> SUFFICES ASSUME NEW k \in Nat, NEW t \in SUBSET (1 .. k), t # {}
               PROVE  Max(t) \in t /\ \A i \in t : i <= Max(t)
    OBVIOUS
  <2>1. \E g \in t : \A j \in t : j <= g
    BY GreatestPosition
  <2>2. \A i, j \in t : i <= j <=> j >= i
    OBVIOUS
  <2> QED BY <2>1, <2>2 DEF Max
<1>1. 1 \in J
  <2> DEFINE f == [t \in SUBSET (1 .. 0) |-> Initialised]
  <2>1. SUBSET (1 .. 0) = {{}}
    OBVIOUS
  <2>2. \A t \in SUBSET (1 .. 0) : step(f, t) = Initialised
    BY <2>1
  <2>3. f = [t \in SUBSET (1 .. 0) |-> step(f, t)]
    <3> HIDE DEF step
    <3> QED BY <2>2
  <2> HIDE DEF f
  <2>4. Solves(f, 1 - 1)
    BY <2>3
  <2> HIDE DEF Solves
  <2> QED BY <2>4
<1>2. PICK g \in J : \A k \in J : k <= g
  <2> HIDE DEF Solves
  <2>1. J \subseteq 1 .. n + 1 /\ n + 1 \in Nat
    OBVIOUS
  <2> HIDE DEF J
  <2>2. J # {}
    BY <1>1
  <2> QED BY <2>1, <2>2, GreatestPosition
<1>3. g = n + 1
  <2> SUFFICES ASSUME g # n + 1 PROVE FALSE
    OBVIOUS
  <2> DEFINE k == g - 1
  <2>1. g \in 1 .. n + 1 /\ k \in 0 .. n - 1 /\ k + 1 \in 1 .. n /\ k \in Nat
        /\ g + 1 \in 1 .. n + 1 /\ (g + 1) - 1 = k + 1
    BY <1>2
  <2>2. PICK f : Solves(f, k)
    BY <1>2
  <2> HIDE DEF k
  <2> DEFINE h == [t \in SUBSET (1 .. k + 1) |->
                      IF k + 1 \in t THEN insertThread(f[t \ {k + 1}], readyQueue, s[k + 1])
                      ELSE f[t]]
  <2>3. \A t \in SUBSET (1 .. k + 1) : k + 1 \notin t <=> t \in SUBSET (1 .. k)
    BY <2>1
  <2>4. \A t \in SUBSET (1 .. k) : h[t] = f[t] /\ f[t] = step(f, t)
    <3> SUFFICES ASSUME NEW t \in SUBSET (1 .. k) PROVE h[t] = f[t] /\ f[t] = step(f, t)
      OBVIOUS
    <3>1. t \in SUBSET (1 .. k + 1) /\ k + 1 \notin t
      BY <2>1
    <3>2. h[t] = f[t]
      BY <3>1
    <3>3. f[t] = step(f, t)
      <4> HIDE DEF step
      <4> QED BY <2>2
    <3> QED BY <3>2, <3>3
  <2>5. ASSUME NEW t \in SUBSET (1 .. k + 1) PROVE h[t] = step(h, t)
    <3>1. CASE k + 1 \in t
      <4>1. Max(t) = k + 1
        <5>1. k + 1 \in Nat
          BY <2>1
        <5>2. t # {}
          BY <3>1
        <5>3. Max(t) \in t /\ \A i \in t : i <= Max(t)
          BY <1>0, <5>1, <5>2
        <5>4. Max(t) \in 1 .. k + 1 /\ k + 1 <= Max(t)
          BY <3>1, <5>3
        <5> QED BY <5>1, <5>4
      <4>2. t \ {k + 1} \in SUBSET (1 .. k)
        BY <2>1
      <4>3. h[t \ {k + 1}] = f[t \ {k + 1}]
        BY <2>4, <4>2
      <4>4. h[t] = insertThread(f[t \ {k + 1}], readyQueue, s[k + 1])
        BY <3>1
      <4> HIDE DEF h
      <4> QED BY <3>1, <4>1, <4>3, <4>4
    <3>2. CASE k + 1 \notin t
      <4>1. t \in SUBSET (1 .. k)
        BY <2>3, <3>2
      <4>2. h[t] = step(f, t)
        <5> HIDE DEF h, step
        <5> QED BY <2>4, <4>1
      <4>3. t \ {Max(t)} \in SUBSET (1 .. k)
        BY <4>1
      <4>4. h[t \ {Max(t)}] = f[t \ {Max(t)}]
        <5> HIDE DEF h, step
        <5> QED BY <2>4, <4>3
      <4> HIDE DEF h
      <4> QED BY <4>2, <4>4
    <3> QED BY <3>1, <3>2
  <2>6. h = [t \in SUBSET (1 .. k + 1) |-> h[t]]
    OBVIOUS
  <2> HIDE DEF h
  <2>7. Solves(h, (g + 1) - 1)
    <3> HIDE DEF step
    <3> QED BY <2>1, <2>5, <2>6
  <2>8. g + 1 \in J
    <3> HIDE DEF Solves
    <3> QED BY <2>1, <2>7
  <2> HIDE DEF J
  <2> QED BY <1>2, <2>1, <2>8
<1>4. \E f : Solves(f, n)
  <2> HIDE DEF Solves
  <2>1. \E f : Solves(f, g - 1)
    BY <1>2
  <2>2. g - 1 = n
    BY <1>3
  <2> QED BY <2>1, <2>2
<1> DEFINE iter == CHOOSE f : Solves(f, n)
<1>5. Solves(iter, n)
  <2> HIDE DEF Solves
  <2> QED BY <1>4
<1>7. Created(s) = iter[1 .. n]
  BY DEF Created, FoldLeft, MapThenFoldSet
<1> HIDE DEF iter
<1>8. \A t \in SUBSET (1 .. n) : iter[t] = step(iter, t)
  <2> HIDE DEF step
  <2> QED BY <1>5
<1> QED
  BY <1>7, <1>8

\* Initialised links are empty lists.
LEMMA InitialisedEmpty ==
    Ordered(Initialised) /\ \A h \in AllHeads : Held(Initialised, h) = {}
<1> DEFINE w == [h \in AllHeads |-> <<>>]
<1>1. Initialised \in Links
  BY DEF Initialised, Links
<1>2. \A h \in AllHeads : Represents(Initialised, h, <<>>)
  <2> SUFFICES ASSUME NEW h \in AllHeads PROVE Represents(Initialised, h, <<>>)
    OBVIOUS
  <2>1. IsInjective(<<>>) /\ h \notin ToSet(<<>>) /\ h \in Node /\ Len(<<>>) = 0
    BY NodeFacts DEF IsInjective, ToSet, Kinds
  <2>2. \A i : Position(h, <<>>, i) = h
    BY <2>1 DEF Position
  <2> QED BY <2>1, <2>2 DEF Represents, Initialised
<1>3. w \in [AllHeads -> Seq(Threads)] /\ \A h \in AllHeads : w[h] = <<>>
  <2>1. <<>> \in Seq(Threads)
    OBVIOUS
  <2> QED BY <2>1
<1>4. ToSet(<<>>) = {}
  BY DEF ToSet
<1> HIDE DEF w
<1>5. ListsOf(AllHeads, Threads, Initialised, w)
  BY <1>1, <1>2, <1>3, <1>4 DEF ListsOf
<1> QED
  BY <1>3, <1>4, <1>5, ListsOrdered

\* All threads created are ready.
LEMMA AllCreated ==
    ASSUME NEW S \in SUBSET Users, NEW s \in SetToSeqs(S)
    PROVE  /\ Ordered(Created(s))
           /\ \A h \in AllHeads : Held(Created(s), h) = IF h = readyQueue THEN S ELSE {}
<1> DEFINE n == Cardinality(S)
<1>1. /\ n \in Nat /\ s \in [1 .. n -> S]
      /\ \A i, j \in 1 .. n : s[i] = s[j] => i = j
      /\ \A t \in S : \E i \in 1 .. n : s[i] = t
  <2>1. IsFiniteSet(S)
    BY NodeAssumption, DevicesAssumption, FS_Subset DEF Threads
  <2>2. n \in Nat
    BY <2>1, FS_CardinalityType
  <2>3. s \in [1 .. n -> S] /\ \A i, j \in 1 .. n : s[i] = s[j] => i = j
    BY DEF SetToSeqs
  <2>4. s \in Injection(1 .. n, S)
    BY <2>3 DEF Injection, IsInjective
  <2>5. Cardinality(1 .. n) = n
    <3> HIDE DEF n
    <3>1. Cardinality(1 .. n) = IF 1 > n THEN 0 ELSE n - 1 + 1
      BY <2>2, FS_Interval
    <3> QED BY <2>2, <3>1
  <2>6. s \in Surjection(1 .. n, S)
    BY <2>1, <2>4, <2>5, FS_Injection
  <2> QED BY <2>2, <2>3, <2>6 DEF Surjection
<1> HIDE DEF n
<1>2. n \in Nat /\ DOMAIN s = 1 .. n
  BY <1>1
<1>3. /\ \A i \in 1 .. n : s[i] \in Threads
      /\ \A i, j \in 1 .. n : s[i] = s[j] => i = j
      /\ \A t \in S : \E i \in 1 .. n : s[i] = t
  BY <1>1 DEF Threads
<1>4. PICK f : /\ Created(s) = f[1 .. n]
               /\ \A t \in SUBSET (1 .. n) :
                     f[t] = IF t = {} THEN Initialised
                            ELSE insertThread(f[t \ {Max(t)}], readyQueue, s[Max(t)])
  BY <1>2, CreatedRecursion
<1> DEFINE Full(i) == /\ Ordered(f[1 .. i])
                      /\ \A h \in AllHeads : \A t \in Threads :
                            t \in Held(f[1 .. i], h) <=>
                               h = readyQueue /\ \E j \in 1 .. i : s[j] = t
<1>5. Full(0)
  <2>1. 1 .. 0 = {} /\ {} \in SUBSET (1 .. n)
    OBVIOUS
  <2>2. f[1 .. 0] = Initialised
    BY <1>4, <2>1
  <2> QED BY <2>1, <2>2, InitialisedEmpty
<1>6. ASSUME NEW i \in 1 .. n, Full(i - 1) PROVE Full(i)
  <2>1. 1 .. i \in SUBSET (1 .. n) /\ 1 .. i # {} /\ (1 .. i) \ {i} = 1 .. i - 1
    <3>1. i \in Nat /\ i >= 1 /\ i <= n
      BY <1>2
    <3> HIDE DEF n
    <3>2. \A j : j \in (1 .. i) \ {i} <=> j \in 1 .. i - 1
      BY <3>1
    <3>3. \A j \in 1 .. i : j \in 1 .. n
      BY <1>2, <3>1
    <3>4. i \in 1 .. i
      BY <3>1
    <3> QED BY <3>2, <3>3, <3>4
  <2>2. Max(1 .. i) = i
    <3>1. i \in 1 .. i /\ \A j \in 1 .. i : i >= j
      OBVIOUS
    <3>2. \A x \in 1 .. i : (\A j \in 1 .. i : x >= j) => x = i
      OBVIOUS
    <3> QED BY <3>1, <3>2 DEF Max
  <2> DEFINE l == f[1 .. i - 1]
             m == f[1 .. i]
             t == s[i]
  <2>3. m = insertThread(l, readyQueue, t)
    BY <1>4, <2>1, <2>2
  <2>4. \A j \in 1 .. i - 1 : j \in 1 .. n /\ j # i
    BY <1>2
  <2>5. Ordered(l) /\ Loose(l, t) /\ readyQueue \in AllHeads
    BY <1>3, <1>6, <2>4, NodeFacts DEF Loose
  <2>6. Puts(l, m, t, readyQueue)
    BY <2>3, <2>5, LoosePut DEF insertThread
  <2>7. \A j : j \in 1 .. i <=> j \in 1 .. i - 1 \/ j = i
    BY <2>1
  <2>8. ASSUME NEW h \in AllHeads, NEW u \in Threads
        PROVE  u \in Held(m, h) <=> h = readyQueue /\ \E j \in 1 .. i : s[j] = u
    <3>1. u \in Held(l, h) <=> h = readyQueue /\ \E j \in 1 .. i - 1 : s[j] = u
      BY <1>6
    <3>2. Held(m, h) = IF h = readyQueue THEN Held(l, h) \cup {t} ELSE Held(l, h) \ {t}
      BY <2>6 DEF Puts
    <3> HIDE DEF l, m
    <3> QED BY <2>7, <3>1, <3>2
  <2>9. Ordered(m)
    BY <2>6 DEF Puts
  <2> QED BY <2>8, <2>9
<1>7. \A i \in 1 .. n : Full(i)
  <2> DEFINE B == {i \in 1 .. n : ~Full(i)}
  <2> SUFFICES ASSUME B # {} PROVE FALSE
    OBVIOUS
  <2> HIDE DEF Full
  <2>1. PICK b \in B : \A i \in B : b <= i
    <3>1. B \subseteq 1 .. n
      OBVIOUS
    <3> HIDE DEF B
    <3> QED BY <1>2, <3>1, LeastPosition
  <2>2. CASE b = 1
    <3>1. b \in 1 .. n /\ b - 1 = 0
      BY <2>2
    <3>2. Full(b - 1)
      BY <1>5, <3>1
    <3> QED BY <1>6, <2>1, <3>1, <3>2
  <2>3. CASE b # 1
    <3>1. b \in 1 .. n /\ b - 1 \in 1 .. n /\ ~(b <= b - 1)
      BY <1>2, <2>1, <2>3
    <3>2. Full(b - 1)
      BY <2>1, <3>1
    <3> QED BY <1>6, <2>1, <3>1, <3>2
  <2> QED BY <2>2, <2>3
<1>8. Full(n)
  <2> HIDE DEF Full
  <2>1. n = 0 \/ n \in 1 .. n
    BY <1>2
  <2> QED BY <1>5, <1>7, <2>1
<1> DEFINE m == f[1 .. n]
<1>9. m = Created(s)
  BY <1>4
<1>10. Ordered(m) /\ \A h \in AllHeads : \A t \in Threads :
                        t \in Held(m, h) <=> h = readyQueue /\ t \in S
  BY <1>1, <1>8
<1> HIDE DEF m
<1>11. \A h \in AllHeads : Held(m, h) \subseteq Threads
  BY <1>10, HeldFacts
<1>12. \A h \in AllHeads : Held(m, h) = IF h = readyQueue THEN S ELSE {}
  BY <1>10, <1>11, NodeFacts
<1> QED
  BY <1>9, <1>10, <1>12

\* The first state is good.
LEMMA InitGood ==
    ASSUME DeathsInit PROVE Good
<1>1. /\ currentThread \in Users /\ uses \in Injection(Users, Device)
      /\ pc = [t \in Users |-> "print"] /\ answer = [t \in Users |-> <<>>]
      /\ inbox = <<>> /\ ssi_msg = NIL /\ device = [d \in Device |-> "ready"]
      /\ term = [n \in 0 .. 7 |-> NIL] /\ power = "on" /\ dead = {}
  BY DEF DeathsInit, Init
<1> DEFINE S == Users \ {currentThread}
<1>2. PICK order \in SetToSeqs(S) : links = Stopped(Created(order))
  BY DEF DeathsInit, Init
<1> DEFINE m == Created(order)
           k == insertThread(m, waitQueue, tcb_SSI)
<1>3. Ordered(m) /\ \A h \in AllHeads : Held(m, h) = IF h = readyQueue THEN S ELSE {}
  <2>1. S \in SUBSET Users
    OBVIOUS
  <2> QED BY <2>1, AllCreated
<1>4. links = insertThread(k, waitQueue, tcb_test)
  BY <1>2 DEF Stopped
<1> HIDE DEF m
<1>5. Ordered(k) /\ \A h \in AllHeads : Held(k, h) = IF h = readyQueue THEN S
                                              ELSE IF h = waitQueue THEN {tcb_SSI} ELSE {}
  <2>1. Loose(m, tcb_SSI) /\ waitQueue \in AllHeads /\ tcb_SSI \notin S
    BY <1>3, NodeFacts DEF Loose
  <2>2. Puts(m, k, tcb_SSI, waitQueue)
    BY <1>3, <2>1, LoosePut DEF insertThread
  <2> HIDE DEF k
  <2> QED BY <1>3, <2>1, <2>2, NodeFacts DEF Puts
<1> HIDE DEF k
<1>6. Ordered(links)
      /\ \A h \in AllHeads : Held(links, h) = IF h = readyQueue THEN S
                              ELSE IF h = waitQueue THEN {tcb_SSI, tcb_test} ELSE {}
  <2>1. Loose(k, tcb_test) /\ waitQueue \in AllHeads /\ tcb_test \notin S
    BY <1>5, NodeFacts DEF Loose
  <2>2. Puts(k, links, tcb_test, waitQueue)
    BY <1>4, <1>5, <2>1, LoosePut DEF insertThread
  <2> QED BY <1>5, <2>1, <2>2, NodeFacts DEF Puts
<1>7. \A d \in DeviceQueues : d \in AllHeads /\ Held(links, d) = {}
  <2>1. \A d \in DeviceQueues : d \in AllHeads /\ d # readyQueue /\ d # waitQueue
    BY NodeFacts
  <2> QED BY <1>6, <2>1
<1>8. Typed
  <2>1. <<>> \in Seq(Statuses) /\ <<>> \in Seq(Letters)
    OBVIOUS
  <2> QED BY <1>1, <2>1 DEF Typed
<1>9. Remembered
  BY <1>1 DEF Remembered
<1>10. Placed
  <2>1. Held(links, tcbFree) = {}
    <3>1. tcbFree \in AllHeads /\ tcbFree # readyQueue /\ tcbFree # waitQueue
      BY NodeFacts DEF Heads
    <3> QED BY <1>6, <3>1
  <2>2. Arranged(links, currentThread, uses)
    <3>1. readyQueue \in AllHeads /\ waitQueue \in AllHeads /\ readyQueue # waitQueue
      BY NodeFacts
    <3>2. \A h \in AllHeads : currentThread \notin Held(links, h)
      BY <1>1, <1>6, NodeFacts
    <3>3. \A t \in Threads : t = currentThread \/ \E h \in AllHeads : t \in Held(links, h)
      <4> SUFFICES ASSUME NEW t \in Threads, t # currentThread
                   PROVE  \E h \in AllHeads : t \in Held(links, h)
        OBVIOUS
      <4>1. t \in S \/ t \in {tcb_SSI, tcb_test}
        BY DEF Threads
      <4> QED BY <1>6, <3>1, <4>1
    <3>4. tcb_test \in Held(links, waitQueue) /\ currentThread \in Threads
      BY <1>1, <1>6, <3>1, NodeFacts
    <3> QED BY <1>6, <1>7, <3>2, <3>3, <3>4 DEF Arranged
  <2> QED BY <1>1, <2>1, <2>2 DEF Placed
<1>11. Unserved = <<>> /\ \A M : ~Holds(Unserved, M) /\ Once(Unserved, M)
  <2>1. Unserved = <<>> /\ Len(<<>>) = 0
    BY <1>1 DEF Unserved
  <2> QED BY <2>1 DEF Holds, Once
<1>12. ASSUME NEW t \in Users
       PROVE  /\ uses[t] \in Device /\ device[uses[t]] = "ready" /\ ~Waits(t)
              /\ answer[t] = <<>> /\ Len(answer[t]) <= 1 /\ pc[t] = "print"
  <2>1. uses[t] \in Device /\ uses[t] \in DeviceQueues
    BY <1>8, UsesFacts
  <2> QED BY <1>1, <1>7, <2>1 DEF Waits
<1>13. Asked
  BY <1>11, <1>12 DEF Asked, AskedOf
<1>14. Timely
  BY <1>11, <1>12 DEF Timely, TimelyOf
<1>15. Kept
  BY <1>11, <1>12 DEF Kept, KeptOf
<1>16. Few
  BY <1>1, <1>11 DEF Few
<1> QED
  BY <1>8, <1>9, <1>10, <1>13, <1>14, <1>15, <1>16 DEF Good, Told

\* Whether waitForIO has linked a thread that was not ready is not forgotten.
LEMMA BrokenStays ==
    ASSUME [DeathsNext]_deathsVars PROVE broken => broken'
<1>1. CASE DeathsNext
  BY <1>1 DEF DeathsNext, AskToDie, SsiTerminate, SsiAnswer
<1> QED
  BY <1>1 DEF deathsVars

\* Until waitForIO (ssi.c:168) links a thread that is not in the ready queue, the
\* lists are in order, a thread is in one of them, in a device's only if it uses
\* the device, and what it asks for and is told goes by its own operation.
THEOREM DevicesInOrder == DeathsSpec => []GoodInv
<1>1. DeathsInit => GoodInv
  BY InitGood DEF GoodInv, DeathsInit
<1>2. GoodInv /\ [DeathsNext]_deathsVars => GoodInv'
  <2> SUFFICES ASSUME GoodInv, [DeathsNext]_deathsVars PROVE GoodInv'
    OBVIOUS
  <2>1. broken' \in BOOLEAN
    BY DEF GoodInv, DeathsNext, AskToDie, SsiTerminate, SsiAnswer, deathsVars
  <2>2. ASSUME ~broken' PROVE Good'
    <3>1. ~broken
      BY <2>2, BrokenStays
    <3>2. Good
      BY <3>1 DEF GoodInv
    <3> QED BY <2>2, <3>1, <3>2, StepGood
  <2> QED BY <2>1, <2>2 DEF GoodInv
<1> QED
  BY <1>1, <1>2, PTL DEF DeathsSpec

-----------------------------------------------------------------------------
(* What the order promises.                                                *)

\* The lists are right, and searches in them end, until a WAITFORIO does not
\* find its sender in the ready queue (ssi.c:168).
THEOREM ListsStayRight == DeathsSpec => []OnlyWaitForIOBreaks
<1>1. GoodInv => OnlyWaitForIOBreaks
  <2> SUFFICES ASSUME Good PROVE Sound /\ power \notin {"hung", "wild"}
    BY DEF GoodInv, OnlyWaitForIOBreaks
  <2>1. power \notin {"hung", "wild"}
    BY DEF Good, Typed
  <2>2. PICK w : /\ ListsOf(AllHeads, Threads, links, w)
                 /\ \A h \in AllHeads : w[h] = Walk(links, h) /\ Returns(links, h)
    BY OrderedLists DEF Good, Placed, Arranged
  <2>3. ASSUME NEW h \in Heads
        PROVE  /\ Returns(links, h) /\ Represents(links, h, Walk(links, h))
               /\ ToSet(Walk(links, h)) \subseteq Threads
    <3>1. h \in AllHeads
      BY DEF AllHeads
    <3>2. Represents(links, h, w[h])
      BY <2>2, <3>1 DEF ListsOf
    <3>3. ToSet(w[h]) \subseteq Threads
      BY <2>2, <3>1, ListsNodes, NodeFacts
    <3> QED BY <2>2, <3>1, <3>2, <3>3
  <2> QED BY <2>1, <2>3 DEF Sound
<1> QED
  BY <1>1, DevicesInOrder, PTL

\* As long as the lists are right, a thread is told that its operation is over when
\* it is: only one that uses a device number 3 or 7 can take another's completion
\* for its own (ssi.c:184, interrupt.c:63).
THEOREM AnswersAreTimely == DeathsSpec => []AnswerIsForItsDevice
<1>1. GoodInv => AnswerIsForItsDevice
  <2> SUFFICES ASSUME Good, NEW t \in Users, pc[t] \in {"ack", "end"},
                      device[uses[t]] = "busy", uses[t][2] \notin {3, 7}
               PROVE  FALSE
    BY DEF GoodInv, AnswerIsForItsDevice
  <2>1. TimelyOf(t)
    BY DEF Good, Told, Timely
  <2> QED BY <2>1 DEF TimelyOf
<1> QED
  BY <1>1, DevicesInOrder, PTL

\* As long as the lists are right, a completion is lost only if it comes early: a
\* thread waits for its device with nothing to come only if the SSI was told of the
\* completion when the thread was not in the queue, and so put the status where the
\* next one overwrites it (ssi.c:184).
THEOREM LostComeEarly == DeathsSpec => []OnlyEarlyCompletionsLost
<1>1. GoodInv => OnlyEarlyCompletionsLost
  <2> SUFFICES ASSUME Good, NEW t \in Users, Stranded(t), t \notin early
               PROVE  FALSE
    BY DEF GoodInv, OnlyEarlyCompletionsLost
  <2> DEFINE d == uses[t]
  <2>1. Typed /\ KeptOf(t) /\ Ordered(links)
    BY DEF Good, Told, Kept, Placed, Arranged
  <2>2. d \in AllHeads
    BY <2>1, UsesFacts
  <2>3. Waits(t)
    BY <2>1, <2>2, HeldFacts DEF Stranded, Waits
  <2>4. PICK i \in 1 .. Len(Unserved) : Unserved[i] \in Completions(d)
    BY <2>1, <2>3 DEF KeptOf, Stranded, Holds
  <2>5. \A m \in Completions(d) : /\ m.service = "WAKE_UP_FROM_IO"
                                  /\ m.sender = DEV_ADDR_BASE(d[1], d[2])
    BY DEF Completions, Completion
  <2>6. inbox \in Seq(Letters) /\ ssi_msg \in Letters \cup {NIL}
    BY <2>1 DEF Typed
  <2>7. \A j \in 1 .. Len(inbox) : inbox[j] \notin Completions(d)
    <3> SUFFICES ASSUME NEW j \in 1 .. Len(inbox), inbox[j] \in Completions(d) PROVE FALSE
      OBVIOUS
    <3>1. j \in WakeFor(d)
      BY <2>5 DEF WakeFor
    <3> QED BY <3>1 DEF Stranded
  <2>8. CASE ssi_msg = NIL
    BY <2>4, <2>7, <2>8 DEF Unserved
  <2>9. CASE ssi_msg # NIL
    <3>1. ssi_msg \notin Completions(d)
      BY <2>5, <2>9 DEF Stranded
    <3>2. ~Holds(inbox, Completions(d))
      BY <2>7 DEF Holds
    <3>3. ~Holds(<<ssi_msg>> \o inbox, Completions(d))
      BY <2>6, <2>9, <3>1, <3>2, PushHolds
    <3> QED BY <2>4, <2>9, <3>3 DEF Unserved, Holds
  <2> QED BY <2>8, <2>9
<1> QED
  BY <1>1, DevicesInOrder, PTL

\* Only terminate() panics about a thread, only the interrupt handler follows a
\* null pointer, and a processor that has stopped does nothing more.
LEMMA StepPower ==
    ASSUME [DeathsNext]_deathsVars, GoodInv
    PROVE  /\ UNCHANGED uses
           /\ power' = power \/ power = "on"
           /\ power' = "aborted" => SsiTerminate \/ UNCHANGED deathsVars
           /\ power' = "faulted" => InterruptFault \/ UNCHANGED power
           /\ links' # links => power = "on"
<1> DEFINE Result == /\ UNCHANGED uses
                     /\ power = "on" /\ power' \notin {"aborted", "faulted"}
<1>1. ASSUME NEW l, NEW cur, NEW soft, power = "on", schedule(l, cur, soft)
      PROVE  power' \notin {"aborted", "faulted"}
  BY <1>1 DEF schedule
<1>2. \A l, h, t : power = "on" => PowerAfter(l, h, t) \notin {"aborted", "faulted"}
  BY DEF PowerAfter
<1>3. ASSUME NEW t, NEW request, power = "on", Request(t, request) PROVE Result
  BY <1>2, <1>3 DEF Request, deviceVars
<1>4. ASSUME NEW l, NEW t, NEW status, power = "on", SsiSend(l, t, status)
      PROVE  power' \notin {"aborted", "faulted"}
  BY <1>2, <1>4 DEF SsiSend
<1>5. ASSUME Next, UNCHANGED dead, broken' = (broken \/ Breaks),
             early' = (early \cup Early) \ Afresh
      PROVE  Result \/ InterruptFault \/ UNCHANGED deathsVars
  <2>1. ASSUME NEW t \in Users, UserStep(t) PROVE Result
    <3>1. CASE Termprint(t)
      BY <3>1 DEF Termprint, At, Runs
    <3>2. CASE SendRequest(t)
      BY <1>3, <3>2 DEF SendRequest, At, Runs
    <3>3. CASE RecvAnswer(t)
      BY <3>3 DEF RecvAnswer, At, Runs
    <3>4. CASE RecvBlock(t)
      BY <1>1, <3>4 DEF RecvBlock, At, Runs, Block, userVars
    <3>5. CASE Ack(t)
      BY <3>5 DEF Ack, At, Runs
    <3> QED BY <2>1, <3>1, <3>2, <3>3, <3>4, <3>5 DEF UserStep
  <2>2. CASE SsiStep
    <3>1. CASE SsiReceive
      BY <3>1 DEF SsiReceive, Runs, userVars
    <3>2. CASE SsiBlock
      BY <1>1, <3>2 DEF SsiBlock, Runs, Block, userVars
    <3>3. CASE waitForIODone
      BY <1>4, <3>3 DEF waitForIODone, Serves, Runs
    <3>4. CASE waitForIO
      BY <1>2, <3>4 DEF waitForIO, Serves, Runs, userVars
    <3>5. CASE wakeUpFromIO
      BY <1>4, <3>5 DEF wakeUpFromIO, Serves, Runs
    <3>6. CASE wakeUpNobody
      BY <3>6 DEF wakeUpNobody, Serves, Runs, userVars
    <3> QED BY <2>2, <3>1, <3>2, <3>3, <3>4, <3>5, <3>6 DEF SsiStep
  <2>3. CASE \E d \in Device : DeviceCompletes(d)
    BY <2>3 DEF DeviceCompletes, userVars
  <2>4. CASE Interrupt
    <3>1. power = "on" /\ UNCHANGED uses
      BY <2>4 DEF Interrupt, userVars
    <3>2. power' = "hung" \/ schedule(Woken(links, tcb_SSI), currentThread, softBlockCount)
      BY <2>4 DEF Interrupt
    <3> QED BY <1>1, <3>1, <3>2
  <2>5. CASE Preempted
    BY <1>1, <2>5 DEF Preempted, userVars
  <2>6. CASE Idle
    <3>1. ~Runs(tcb_SSI) /\ \A t \in Users : ~Runs(t)
      BY <2>6, NodeFacts DEF Idle, Runs
    <3>2. ~Breaks /\ Early = {}
      BY <3>1 DEF Breaks, Early, waitForIO, wakeUpNobody, Serves
    <3>3. Afresh = {}
      BY <3>1, UserRuns DEF Afresh
    <3> QED BY <1>5, <2>6, <3>2, <3>3 DEF Idle, GoodInv, deathsVars
  <2> QED BY <1>5, <2>1, <2>2, <2>3, <2>4, <2>5, <2>6 DEF Next
<1>6. ASSUME NEW t \in Users, AskToDie(t) PROVE Result
  BY <1>3, <1>6 DEF AskToDie, At, Runs
<1>7. CASE SsiTerminate
  <2>1. power = "on" /\ UNCHANGED uses
    BY <1>7 DEF SsiTerminate, Serves, Runs
  <2>2. power' # "faulted"
    <3> DEFINE victims == Family(ssi_msg.sender)
               start == [links |-> links, soft |-> softBlockCount, power |-> power]
    <3>1. power' \in {Kill(start, victims[1]).power,
                      Kill(Kill(start, victims[1]), victims[2]).power}
      BY <1>7 DEF SsiTerminate
    <3>2. \A s, k : IsState(s) /\ s.power # "faulted"
                      => IsState(Kill(s, k)) /\ Kill(s, k).power # "faulted"
      <4> SUFFICES ASSUME NEW s, NEW k, IsState(s), s.power # "faulted"
                   PROVE  IsState(Kill(s, k)) /\ Kill(s, k).power # "faulted"
        OBVIOUS
      <4>1. s = [links |-> s.links, soft |-> s.soft, power |-> s.power]
        BY DEF IsState
      <4> QED BY <4>1 DEF IsState, Kill
    <3>3. IsState(start) /\ start.power # "faulted"
      BY <2>1 DEF IsState
    <3> HIDE DEF start, victims
    <3> QED BY <3>1, <3>2, <3>3
  <2> QED BY <1>7, <2>1, <2>2
<1>8. ASSUME SsiAnswer PROVE Result
  BY <1>4, <1>8 DEF SsiAnswer, Serves, Runs
<1>9. ASSUME InterruptFault PROVE power = "on" /\ power' = "faulted" /\ UNCHANGED <<uses, links>>
  BY <1>9 DEF InterruptFault, userVars
<1>10. UNCHANGED deathsVars => UNCHANGED <<uses, power, links>>
  BY DEF deathsVars, vars
<1> HIDE DEF Result
<1>11. Result \/ InterruptFault \/ SsiTerminate \/ UNCHANGED deathsVars
  <2>1. CASE /\ Next /\ UNCHANGED dead /\ broken' = (broken \/ Breaks)
             /\ early' = (early \cup Early) \ Afresh
    BY <1>5, <2>1
  <2>2. CASE \E t \in Users : AskToDie(t)
    BY <1>6, <2>2
  <2>3. CASE SsiTerminate \/ SsiAnswer
    BY <1>8, <2>3
  <2> QED BY <2>1, <2>2, <2>3 DEF DeathsNext
<1> QED
  BY <1>7, <1>9, <1>10, <1>11 DEF Result

\* As long as the lists are right, terminate() panics only for a thread that has
\* died before, or waits for its device (ssi.c:95).
THEOREM PanicsExplained == DeathsSpec => PanicsForIOOrDead
<1> DEFINE Reason == \E t \in ToSet(Family(ssi_msg.sender)) :
                        t \in dead \/ Contains(Walk(links, uses[t]), t)
<1>1. ASSUME GoodInv, [DeathsNext]_deathsVars
      PROVE  [~broken /\ power' = "aborted" => Reason]_deathsVars
  <2> SUFFICES ASSUME ~broken, power' = "aborted", ~UNCHANGED deathsVars PROVE Reason
    OBVIOUS
  <2>1. SsiTerminate /\ Good
    BY <1>1, StepPower DEF GoodInv
  <2>2. PICK t \in ToSet(Family(ssi_msg.sender)) :
               t \in Held(links, tcbFree) \/ t \in Held(links, uses[t])
    BY <2>1, VictimsKilled
  <2>3. Typed /\ Ordered(links) /\ power = "on" /\ Held(links, tcbFree) = dead
    BY <2>1 DEF Good, Placed, Arranged, SsiTerminate, Serves, Runs
  <2>4. t \in Users
    <3>1. ssi_msg.sender \in Users
      BY <2>1, <2>3, ServiceFacts DEF SsiTerminate, Serves
    <3> QED BY <2>2, <3>1, DeathsAssumption DEF Family, ToSet
  <2>5. uses[t] \in AllHeads
    BY <2>3, <2>4, UsesFacts
  <2> QED BY <2>2, <2>3, <2>5, HeldFacts
<1> QED
  BY <1>1, DevicesInOrder, PTL DEF DeathsSpec, PanicsForIOOrDead

\* A walk meets nothing but what is linked to what it may meet.
LEMMA TrailWithin ==
    ASSUME NEW l \in Links, NEW h \in Node, NEW N, l.next[h] \in N,
           \A x \in N \ {h} : x \in Node => l.next[x] \in N
    PROVE  ToSet(Trail(l, h)) \subseteq N
<1> DEFINE r == Trail(l, h)
           n == Len(r)
<1>1. /\ r \in Seq(Node) /\ n \in 1 .. Cardinality(Node) /\ r[1] = l.next[h]
      /\ \A j \in 1 .. n - 1 : r[j] # h /\ r[j + 1] = l.next[r[j]]
  BY TrailPath
<1>2. n \in Nat
  BY <1>1, LenProperties
<1> DEFINE B == {j \in 1 .. n : r[j] \notin N}
<1>3. \A j \in 1 .. n : r[j] \in Node
  BY <1>1, ElementOfSeq
<1> HIDE DEF r
<1>4. B = {}
  <2> SUFFICES ASSUME B # {} PROVE FALSE
    OBVIOUS
  <2>1. PICK b \in B : \A j \in B : b <= j
    <3>1. B \subseteq 1 .. n
      OBVIOUS
    <3> HIDE DEF B
    <3> QED BY <1>2, <3>1, LeastPosition
  <2>2. b # 1
    BY <1>1, <2>1
  <2>3. b - 1 \in 1 .. n - 1 /\ b - 1 \in 1 .. n /\ (b - 1) + 1 = b /\ ~(b <= b - 1)
    BY <1>2, <2>1, <2>2
  <2>4. r[b - 1] \in N
    BY <2>1, <2>3
  <2>5. r[b] = l.next[r[b - 1]] /\ r[b - 1] # h /\ r[b - 1] \in Node
    BY <1>1, <1>3, <2>3
  <2> QED BY <2>1, <2>4, <2>5
<1>5. DOMAIN r = 1 .. n
  BY <1>1, LenProperties
<1> QED
  BY <1>4, <1>5 DEF ToSet, r

\* The next of a thread in a list, and of the head, is in the list or the head.
LEMMA NextHeld ==
    ASSUME NEW l, Ordered(l), NEW h \in AllHeads
    PROVE  /\ l.next[h] \in Held(l, h) \cup {h} /\ l.prev[h] \in Held(l, h) \cup {h}
           /\ \A t \in Held(l, h) : l.next[t] \in Held(l, h) \cup {h}
<1>1. PICK w : /\ ListsOf(AllHeads, Threads, l, w)
               /\ \A g \in AllHeads : w[g] = Walk(l, g) /\ Returns(l, g)
  BY OrderedLists
<1>2. w[h] \in Seq(Node) /\ h \in Node /\ l \in Links /\ Represents(l, h, w[h])
  BY <1>1, NodeFacts, ListsNodes DEF ListsOf
<1>3. Held(l, h) = ToSet(w[h]) /\ DOMAIN (w[h]) = 1 .. Len(w[h])
  BY <1>1, <1>2, LenProperties DEF Held
<1>4. /\ l.next[h] \in ToSet(w[h]) \cup {h} /\ l.prev[h] \in ToSet(w[h]) \cup {h}
      /\ \A i \in 1 .. Len(w[h]) : l.next[w[h][i]] \in ToSet(w[h]) \cup {h}
  BY <1>2, Neighbours
<1> QED
  BY <1>3, <1>4 DEF ToSet

\* A WAITFORIO of a sender in the wrong list brings no other thread to a queue.
LEMMA BreakRaises ==
    ASSUME Good, waitForIO, NEW t \in Threads, t # ssi_msg.sender,
           \A h \in Heads : t \notin Held(links, h), NEW h \in Heads
    PROVE  ~Linked(links', h, t)
<1> DEFINE s == ssi_msg.sender
           q == select_io_queue_from_status_addr(ssi_msg.payload)
           m == outThread(links, readyQueue, s)
           new == insertThread(m, q, s)
<1>1. Typed /\ Ordered(links)
  BY DEF Good, Placed, Arranged
<1>2. links' = new /\ ssi_msg # NIL /\ ssi_msg.service = "WAITFORIO"
  BY DEF waitForIO, Serves
<1>3. s \in Users /\ ssi_msg.payload = StatusAddr(uses[s])
  BY <1>1, <1>2, ServiceFacts
<1>4. q = uses[s] /\ q \in DeviceQueues /\ q \in AllHeads /\ q \in Heads
  BY <1>1, <1>3, UsesFacts, Addresses DEF Heads
<1>5. s \in Threads /\ s \in Node /\ q \in Node /\ readyQueue \in AllHeads
      /\ \A g \in AllHeads : g \in Node /\ g \notin Threads
  BY <1>3, <1>4, NodeFacts DEF Kinds
<1> HIDE DEF s, q
<1>6. Ordered(m) /\ \A g \in AllHeads : Held(m, g) \subseteq Held(links, g)
  BY <1>1, <1>5, OutTaken DEF Takes
<1> HIDE DEF m
<1> DEFINE N == {x \in Node : x = s \/ \E g \in Heads : x = g \/ x \in Held(m, g)}
<1>7. \A g \in Heads : g \in AllHeads
  BY DEF AllHeads
<1>8. m \in Links /\ m.prev[q] \in Node
  BY <1>5, <1>6 DEF Ordered, Links
<1>9. /\ new \in Links
      /\ \A x \in Node : new.next[x] = IF x = m.prev[q] THEN s ELSE IF x = s THEN q ELSE m.next[x]
  BY <1>5, <1>8 DEF insertThread, list_add_tail, ListAddBetween, Links
<1> HIDE DEF new
<1>10. ASSUME NEW x \in N, x \in Node PROVE new.next[x] \in N
  <2>1. CASE x = s \/ x = m.prev[q]
    <3>1. new.next[x] \in {s, q}
      BY <1>9, <1>10, <2>1
    <3>2. s \in N /\ q \in N
      BY <1>4, <1>5
    <3> HIDE DEF N
    <3> QED BY <3>1, <3>2
  <2>2. CASE x # s /\ x # m.prev[q]
    <3>1. PICK g \in Heads : x \in Held(m, g) \cup {g}
      BY <1>10, <2>2
    <3>2. m.next[x] \in Held(m, g) \cup {g}
      BY <1>6, <1>7, <3>1, NextHeld
    <3>3. new.next[x] = m.next[x] /\ m.next[x] \in Node
      BY <1>8, <1>9, <1>10, <2>2 DEF Links
    <3> QED BY <3>2, <3>3
  <2> QED BY <2>1, <2>2
<1>11. h \in Node /\ h \in N
  BY <1>5, <1>7
<1>12. t \notin N
  <2>1. \A g \in Heads : t # g /\ t \notin Held(m, g)
    BY <1>5, <1>6, <1>7
  <2>2. t # s
    BY DEF s
  <2> QED BY <2>1, <2>2
<1>13. ToSet(Trail(new, h)) \subseteq N
  <2> HIDE DEF N
  <2> QED BY <1>9, <1>10, <1>11, TrailWithin
<1>14. t \notin ToSet(Trail(new, h))
  BY <1>12, <1>13
<1>15. Trail(new, h) \in Seq(Node)
  BY <1>9, <1>11, TrailPath
<1>16. DOMAIN Trail(new, h) = 1 .. Len(Trail(new, h))
  BY <1>15, LenProperties
<1> QED
  BY <1>2, <1>14, <1>16 DEF Linked, Contains, ToSet

\* A dead thread comes back to a queue only by the WAITFORIO it sent before it
\* died: until one has broken the lists, and by the one that does.
THEOREM RaisedByOldRequests ==
    DeathsSpec => [][~broken => RaisedByRequest]_links /\ ([]~broken => OldRequestsRaise)
<1>1. ASSUME GoodInv, [DeathsNext]_deathsVars PROVE [~broken => RaisedByRequest]_links
  <2> SUFFICES ASSUME ~broken, links' # links, NEW t \in dead \ {currentThread},
                      ~InQueue(links, t), InQueue(links', t)
               PROVE  waitForIO /\ ssi_msg.sender = t
    BY DEF RaisedByRequest
  <2>1. Good /\ power = "on"
    BY <1>1, StepPower DEF GoodInv
  <2>2. /\ Typed /\ Ordered(links) /\ Held(links, tcbFree) = dead
        /\ t \in Users /\ t \in Threads
    BY <2>1, NodeFacts DEF Good, Placed, Arranged, Typed
  <2>3. \A h \in Heads : h \in AllHeads /\ h # tcbFree
    BY NodeFacts DEF AllHeads
  <2>4. \A h \in Heads : t \notin Held(links, h)
    BY <2>2, <2>3, HeldFacts DEF InQueue
  <2>5. PICK h \in Heads : Linked(links', h, t)
    BY DEF InQueue
  <2>6. CASE ~broken'
    <3>1. Good'
      BY <1>1, <2>1, <2>6, StepGood
    <3>2. Ordered(links') /\ (power' # "aborted" => Held(links', tcbFree) = dead')
      BY <3>1 DEF Good, Placed, Arranged
    <3>3. t \in Held(links', tcbFree)
      <4>1. CASE power' = "aborted"
        <5>1. SsiTerminate
          BY <1>1, <4>1, StepPower DEF deathsVars, vars
        <5> QED BY <2>1, <2>2, <5>1, VictimsKilled
      <4>2. CASE power' # "aborted"
        <5>1. dead \subseteq dead'
          BY <1>1 DEF DeathsNext, AskToDie, SsiTerminate, SsiAnswer, deathsVars
        <5> QED BY <3>2, <4>2, <5>1
      <4> QED BY <4>1, <4>2
    <3>4. t \notin Held(links', h)
      BY <2>3, <3>2, <3>3, HeldFacts, NodeFacts
    <3> QED BY <2>2, <2>3, <2>5, <3>2, <3>4, HeldFacts
  <2>7. CASE broken'
    <3>1. waitForIO
      BY <1>1, <2>7 DEF DeathsNext, AskToDie, SsiTerminate, SsiAnswer, Breaks, deathsVars
    <3> QED BY <2>1, <2>2, <2>4, <2>5, <3>1, BreakRaises
  <2> QED BY <2>6, <2>7
<1> QED
  BY <1>1, DevicesInOrder, PTL DEF DeathsSpec, OldRequestsRaise

-----------------------------------------------------------------------------
(* The messages in use, counted.                                           *)

\* Those that hold a relation with different elements of a set are no more.
LEMMA NoMore ==
    ASSUME NEW A, NEW B, IsFiniteSet(B), NEW f, f \in [A -> B],
           \A a, b \in A : f[a] = f[b] => a = b
    PROVE  IsFiniteSet(A) /\ Cardinality(A) <= Cardinality(B)
<1>1. f \in Injection(A, B)
  BY DEF Injection, IsInjective
<1> QED
  BY <1>1, FS_Injection

\* There are fewer than two messages for each thread when a device is served, if
\* all devices are seen.
LEMMA FewQueued ==
    ASSUME Good, \A t \in Users : uses[t][2] = 0, NEW e \in Pending
    PROVE  Queued < 2 * Cardinality(Users)
<1>1. Typed /\ Asked /\ Timely /\ Few
  BY DEF Good, Told
<1>2. PICK v \in Users : uses[v] = e
  BY <1>1 DEF Few, Pending
<1>3. ~Holds(Unserved, Completions(uses[v]))
  <2>1. uses[v][2] \notin {3, 7} /\ device[uses[v]] = "done"
    BY <1>2 DEF Pending
  <2> QED BY <1>1, <2>1 DEF Timely, TimelyOf
<1> DEFINE L == Len(inbox)
           Asks == {t \in Users : Holds(Unserved, RequestsOf(t))}
           Gets == {t \in Users : answer[t] # <<>>}
           A == {i \in 1 .. L : \E t \in Users : inbox[i] \in RequestsOf(t)}
           C == (1 .. L) \ A
           c == Cardinality(Users)
<1>4. inbox \in Seq(Letters) /\ L \in Nat /\ \A i \in 1 .. L : inbox[i] \in Letters
  <2>1. inbox \in Seq(Letters)
    BY <1>1 DEF Typed
  <2> QED BY <2>1, LenProperties, ElementOfSeq
<1>5. IsFiniteSet(Users) /\ c \in Nat
  <2>1. IsFiniteSet(Users)
    BY NodeAssumption, DevicesAssumption, FS_Subset DEF Threads
  <2> QED BY <2>1, FS_CardinalityType
<1>6. \A M : Holds(inbox, M) => Holds(Unserved, M)
  <2>1. CASE ssi_msg = NIL
    BY <2>1 DEF Unserved
  <2>2. CASE ssi_msg # NIL
    <3>1. ssi_msg \in Letters
      BY <1>1, <2>2 DEF Typed
    <3> QED BY <1>4, <2>2, <3>1, PushHolds DEF Unserved
  <2> QED BY <2>1, <2>2
<1>7. \A M : Once(Unserved, M) => Once(inbox, M)
  <2>1. CASE ssi_msg = NIL
    BY <2>1 DEF Unserved
  <2>2. CASE ssi_msg # NIL
    <3>1. ssi_msg \in Letters
      BY <1>1, <2>2 DEF Typed
    <3> QED BY <1>4, <2>2, <3>1, PushHolds DEF Unserved
  <2> QED BY <2>1, <2>2
<1>8. Asks \cap Gets = {}
  BY <1>1 DEF Asked, AskedOf
<1>9. /\ IsFiniteSet(Asks) /\ IsFiniteSet(Gets)
      /\ Cardinality(Asks) \in Nat /\ Cardinality(Gets) \in Nat
      /\ Cardinality(Asks) + Cardinality(Gets) <= c
  <2>1. IsFiniteSet(Asks) /\ IsFiniteSet(Gets)
    BY <1>5, FS_Subset
  <2> HIDE DEF Asks, Gets
  <2>2. Cardinality(Asks) \in Nat /\ Cardinality(Gets) \in Nat
    BY <2>1, FS_CardinalityType
  <2>3. Cardinality(Asks \cup Gets) = Cardinality(Asks) + Cardinality(Gets)
    <3>1. Cardinality({}) = 0
      BY FS_EmptySet
    <3>2. Cardinality(Asks \cup Gets)
             = Cardinality(Asks) + Cardinality(Gets) - Cardinality(Asks \cap Gets)
      BY <2>1, FS_Union
    <3>3. Cardinality(Asks \cap Gets) = 0
      BY <1>8, <3>1, Zenon
    <3> DEFINE both == Cardinality(Asks \cup Gets)
               shared == Cardinality(Asks \cap Gets)
               a == Cardinality(Asks)
               g == Cardinality(Gets)
    <3>4. both = a + g - shared /\ shared = 0 /\ a \in Nat /\ g \in Nat
      BY <2>2, <3>2, <3>3
    <3> HIDE DEF both, shared, a, g
    <3>5. both = a + g
      BY <3>4
    <3> QED BY <3>5 DEF both, a, g
  <2>4. Cardinality(Asks \cup Gets) <= c
    <3>1. Asks \cup Gets \subseteq Users
      BY DEF Asks, Gets
    <3> QED BY <1>5, <3>1, FS_Subset
  <2> QED BY <2>1, <2>2, <2>3, <2>4
<1>10. IsFiniteSet(A) /\ Cardinality(A) <= Cardinality(Asks)
  <2> DEFINE f == [i \in A |-> CHOOSE t \in Users : inbox[i] \in RequestsOf(t)]
  <2>1. \A i \in A : f[i] \in Users /\ inbox[i] \in RequestsOf(f[i]) /\ i \in 1 .. L
    OBVIOUS
  <2>2. f \in [A -> Asks]
    <3>1. \A i \in A : f[i] \in Asks
      BY <1>6, <2>1 DEF Holds
    <3> QED BY <3>1
  <2>3. ASSUME NEW i \in A, NEW j \in A, f[i] = f[j] PROVE i = j
    <3>1. Once(inbox, RequestsOf(f[i]))
      BY <1>1, <1>7, <2>1 DEF Asked, AskedOf
    <3> QED BY <2>1, <2>3, <3>1 DEF Once
  <2> HIDE DEF f, A, Asks
  <2> QED BY <1>9, <2>2, <2>3, NoMore
<1>11. IsFiniteSet(C) /\ Cardinality(C) <= c - 1
  <2> DEFINE Others == Users \ {v}
             f == [i \in C |-> CHOOSE t \in Users : inbox[i] \in Completions(uses[t])]
  <2>1. IsFiniteSet(Others) /\ Cardinality(Others) = c - 1
    BY <1>2, <1>5, FS_RemoveElement
  <2>2. ASSUME NEW i \in C PROVE i \in 1 .. L /\ \E t \in Users : inbox[i] \in Completions(uses[t])
    <3>1. i \in 1 .. L /\ ~\E t \in Users : inbox[i] \in RequestsOf(t)
      OBVIOUS
    <3>2. PICK d \in Lines \X {0, 7} : inbox[i] \in Completions(d)
      BY <1>1, <1>4, <3>1, LetterFacts
    <3>3. Holds(Unserved, Completions(d))
      BY <1>6, <3>1, <3>2 DEF Holds
    <3>4. PICK t \in Users : uses[t] = d
      BY <1>1, <3>3 DEF Few
    <3> QED BY <3>1, <3>2, <3>4
  <2>3. \A i \in C : f[i] \in Users /\ inbox[i] \in Completions(uses[f[i]]) /\ i \in 1 .. L
    BY <2>2
  <2>4. f \in [C -> Others]
    <3>1. \A i \in C : f[i] # v
      BY <1>3, <1>6, <2>3 DEF Holds
    <3> QED BY <2>3, <3>1
  <2>5. ASSUME NEW i \in C, NEW j \in C, f[i] = f[j] PROVE i = j
    <3>1. Once(inbox, Completions(uses[f[i]]))
      BY <1>1, <1>7, <2>3 DEF Timely, TimelyOf
    <3> QED BY <2>3, <2>5, <3>1 DEF Once
  <2> HIDE DEF f, C, Others
  <2> QED BY <2>1, <2>4, <2>5, NoMore
<1>12. L = Cardinality(A) + Cardinality(C)
  <2>1. A \cap C = {} /\ A \cup C = 1 .. L
    OBVIOUS
  <2>2. Cardinality(1 .. L) = L
    <3> HIDE DEF L
    <3>1. Cardinality(1 .. L) = IF 1 > L THEN 0 ELSE L - 1 + 1
      BY <1>4, FS_Interval
    <3> QED BY <1>4, <3>1
  <2> HIDE DEF A, C, L
  <2>3. Cardinality(A \cup C) = Cardinality(A) + Cardinality(C) - Cardinality(A \cap C)
    BY <1>10, <1>11, FS_Union
  <2>4. Cardinality(A) \in Nat /\ Cardinality(C) \in Nat
    BY <1>10, <1>11, FS_CardinalityType
  <2>5. Cardinality(A \cap C) = 0
    BY <2>1, FS_EmptySet, Zenon
  <2>6. Cardinality(A \cup C) = L
    BY <2>1, <2>2, Zenon
  <2> DEFINE both == Cardinality(A \cup C)
             shared == Cardinality(A \cap C)
             a == Cardinality(A)
             b == Cardinality(C)
  <2>7. both = a + b - shared /\ shared = 0 /\ both = L /\ a \in Nat /\ b \in Nat
    BY <2>3, <2>4, <2>5, <2>6
  <2> HIDE DEF both, shared, a, b
  <2>8. L = a + b
    BY <2>7
  <2> QED BY <2>8 DEF a, b
<1>13. Cardinality(Mail) <= Cardinality(Gets) /\ Cardinality(Mail) \in Nat
  <2>1. ASSUME NEW m \in Mail PROVE m[1] \in Gets /\ m = <<m[1], 1>>
    <3>1. PICK t \in Users : m \in {t} \X (1 .. Len(answer[t]))
      BY DEF Mail
    <3>2. answer[t] \in Seq(Statuses) /\ Len(answer[t]) \in Nat /\ Len(answer[t]) <= 1
      BY <1>1, LenProperties DEF Typed, Asked, AskedOf
    <3>3. m[1] = t /\ m[2] \in 1 .. Len(answer[t]) /\ m = <<m[1], m[2]>>
      BY <3>1
    <3>4. m[2] = 1 /\ Len(answer[t]) # 0
      BY <3>2, <3>3
    <3>5. answer[t] # <<>>
      BY <3>4
    <3> QED BY <3>3, <3>4, <3>5
  <2> DEFINE f == [m \in Mail |-> m[1]]
  <2>2. f \in [Mail -> Gets]
    BY <2>1
  <2>3. \A m, n \in Mail : f[m] = f[n] => m = n
    BY <2>1
  <2> HIDE DEF f, Gets
  <2>4. IsFiniteSet(Mail) /\ Cardinality(Mail) <= Cardinality(Gets)
    BY <1>9, <2>2, <2>3, NoMore
  <2> QED BY <2>4, FS_CardinalityType
<1> HIDE DEF L, Asks, Gets, A, C, c
<1>14. Cardinality(A) \in Nat /\ Cardinality(C) \in Nat
  BY <1>10, <1>11, FS_CardinalityType
<1>15. Queued = L + Cardinality(Mail)
  BY DEF Queued, L
<1>16. L + Cardinality(Mail) < 2 * c
  BY <1>4, <1>5, <1>9, <1>10, <1>11, <1>12, <1>13, <1>14
<1> QED
  BY <1>15, <1>16 DEF c

\* As long as the lists are right, the interrupt handler finds a message for each
\* interrupt in a pool of two for each thread, unless a device is used that it
\* does not see (interrupt.c:64).
THEOREM FloodsExplained == DeathsSpec => []OnlyUnseenDevicesFlood
<1>1. DeathsInit => OnlyUnseenDevicesFlood
  BY DEF DeathsInit, Init, OnlyUnseenDevicesFlood
<1>2. ASSUME GoodInv, OnlyUnseenDevicesFlood, [DeathsNext]_deathsVars
      PROVE  OnlyUnseenDevicesFlood'
  <2> SUFFICES ASSUME ~broken', power' = "faulted", MAXMESSAGES >= 2 * Cardinality(Users),
                      \A t \in Users : uses'[t][2] = 0
               PROVE  FALSE
    BY DEF OnlyUnseenDevicesFlood
  <2>1. ~broken /\ UNCHANGED uses
    BY <1>2, BrokenStays, StepPower
  <2>2. Good
    BY <1>2, <2>1 DEF GoodInv
  <2>3. InterruptFault \/ UNCHANGED power
    BY <1>2, StepPower
  <2>4. CASE UNCHANGED power
    BY <1>2, <2>1, <2>4 DEF OnlyUnseenDevicesFlood
  <2>5. CASE InterruptFault
    <3>1. PICK e \in Pending : TRUE
      BY <2>5 DEF InterruptFault
    <3>2. Queued < 2 * Cardinality(Users)
      BY <2>1, <2>2, <3>1, FewQueued
    <3>3. Queued = MAXMESSAGES /\ MAXMESSAGES \in Nat
      BY <2>5, DevicesAssumption DEF InterruptFault
    <3>4. Cardinality(Users) \in Nat
      <4>1. IsFiniteSet(Users)
        BY NodeAssumption, DevicesAssumption, FS_Subset DEF Threads
      <4> QED BY <4>1, FS_CardinalityType
    <3> HIDE DEF Queued
    <3> QED BY <3>2, <3>3, <3>4
  <2> QED BY <2>3, <2>4, <2>5
<1> QED
  BY <1>1, <1>2, DevicesInOrder, PTL DEF DeathsSpec

=============================================================================
