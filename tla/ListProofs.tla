----------------------------- MODULE ListProofs -----------------------------
(***************************************************************************)
(* The operations of header/listx.h do to the links what the other modules *)
(* do to sequences and sets, for lists of any length.                      *)
(***************************************************************************)
EXTENDS ListX, SeqProofs

\* The four stores of __list_add, as the functions they leave.
LEMMA AddBetween ==
    ASSUME NEW l \in Links, NEW new \in Node, NEW prev \in Node, NEW next \in Node
    PROVE  LET k == ListAddBetween(l, new, prev, next)
           IN /\ k \in Links
              /\ \A x \in Node :
                    /\ k.next[x] = IF x = prev THEN new ELSE IF x = new THEN next ELSE l.next[x]
                    /\ k.prev[x] = IF x = new THEN prev ELSE IF x = next THEN new ELSE l.prev[x]
  BY DEF Links, ListAddBetween

\* The two stores of __list_del.
LEMMA DelBetween ==
    ASSUME NEW l \in Links, NEW prev \in Node, NEW next \in Node
    PROVE  LET k == ListDelBetween(l, prev, next)
           IN /\ k \in Links
              /\ \A x \in Node :
                    /\ k.next[x] = IF x = prev THEN next ELSE l.next[x]
                    /\ k.prev[x] = IF x = next THEN prev ELSE l.prev[x]
  BY DEF Links, ListDelBetween

\* Going round a list: the head comes before the first element and after the
\* last, and no node is met twice.
LEMMA Round ==
    ASSUME NEW head \in Node, NEW s \in Seq(Node), IsInjective(s), head \notin ToSet(s)
    PROVE  /\ Len(s) \in Nat
           /\ Position(head, s, 0) = head /\ Position(head, s, Len(s) + 1) = head
           /\ \A i \in 1 .. Len(s) : Position(head, s, i) = s[i] /\ s[i] \in ToSet(s)
           /\ \A i \in 0 .. Len(s) + 1 : Position(head, s, i) \in ToSet(s) \cup {head}
           /\ ToSet(s) \subseteq Node
           /\ \A i, j \in 0 .. Len(s) : Position(head, s, i) = Position(head, s, j) => i = j
<1>1. Len(s) \in Nat /\ DOMAIN s = 1 .. Len(s) /\ \A i \in 1 .. Len(s) : s[i] \in Node
  BY LenProperties, ElementOfSeq
<1>2. \A i \in 1 .. Len(s) : Position(head, s, i) = s[i] /\ s[i] \in ToSet(s) /\ s[i] # head
  BY <1>1 DEF Position, ToSet
<1>3. Position(head, s, 0) = head /\ Position(head, s, Len(s) + 1) = head
  BY <1>1 DEF Position
<1>4. \A i \in 0 .. Len(s) + 1 : i = 0 \/ i = Len(s) + 1 \/ i \in 1 .. Len(s)
  BY <1>1
<1>5. \A i, j \in 1 .. Len(s) : s[i] = s[j] => i = j
  BY <1>1 DEF IsInjective
<1>6. ToSet(s) \subseteq Node
  BY <1>1 DEF ToSet
<1>7. ASSUME NEW i \in 0 .. Len(s), NEW j \in 0 .. Len(s),
             Position(head, s, i) = Position(head, s, j)
      PROVE  i = j
  <2>1. i = 0 \/ i \in 1 .. Len(s)
    BY <1>1
  <2>2. j = 0 \/ j \in 1 .. Len(s)
    BY <1>1
  <2> QED BY <1>2, <1>3, <1>5, <1>7, <2>1, <2>2
<1> QED
  BY <1>1, <1>2, <1>3, <1>4, <1>6, <1>7

\* The sequence with new at its end: its positions.
LEMMA RoundAppend ==
    ASSUME NEW head \in Node, NEW new \in Node, NEW s \in Seq(Node),
           IsInjective(s), head \notin ToSet(s), new # head, new \notin ToSet(s)
    PROVE  /\ Append(s, new) \in Seq(Node) /\ Len(Append(s, new)) = Len(s) + 1
           /\ IsInjective(Append(s, new)) /\ head \notin ToSet(Append(s, new))
           /\ \A i \in 0 .. Len(s) : Position(head, Append(s, new), i) = Position(head, s, i)
           /\ Position(head, Append(s, new), Len(s) + 1) = new
           /\ Position(head, Append(s, new), Len(s) + 2) = head
<1> DEFINE u == Append(s, new)
<1>1. /\ u \in Seq(Node) /\ Len(u) = Len(s) + 1 /\ u[Len(s) + 1] = new
      /\ \A i \in 1 .. Len(s) : u[i] = s[i]
  BY AppendProperties
<1>2. /\ Len(s) \in Nat /\ DOMAIN u = 1 .. Len(s) + 1 /\ DOMAIN s = 1 .. Len(s)
      /\ \A i \in 1 .. Len(s) : s[i] \in ToSet(s)
  BY <1>1, LenProperties DEF ToSet
<1> HIDE DEF u
<1>3. \A i \in 1 .. Len(s) + 1 : i \in 1 .. Len(s) \/ i = Len(s) + 1
  BY <1>2
<1>4. IsInjective(u)
  BY <1>1, <1>2, <1>3 DEF IsInjective
<1>5. head \notin ToSet(u)
  BY <1>1, <1>2, <1>3 DEF ToSet
<1>6. \A i \in 0 .. Len(s) : Position(head, u, i) = Position(head, s, i)
  BY <1>1, <1>2 DEF Position
<1>7. Position(head, u, Len(s) + 1) = new /\ Position(head, u, Len(s) + 2) = head
  BY <1>1, <1>2 DEF Position
<1> QED
  BY <1>1, <1>4, <1>5, <1>6, <1>7 DEF u

\* list_add_tail appends: what insertThread() and insertMessage() do to a
\* queue.
THEOREM AddTail ==
    ASSUME NEW l \in Links, NEW head \in Node, NEW new \in Node, NEW s \in Seq(Node),
           Represents(l, head, s), new # head, new \notin ToSet(s)
    PROVE  Represents(list_add_tail(l, new, head), head, Append(s, new))
<1> DEFINE n == Len(s)
           k == list_add_tail(l, new, head)
           p == l.prev[head]
           u == Append(s, new)
<1>0. IsInjective(s) /\ head \notin ToSet(s)
  BY DEF Represents
<1>1. /\ n \in Nat /\ ToSet(s) \subseteq Node
      /\ \A i \in 0 .. n + 1 : Position(head, s, i) \in ToSet(s) \cup {head}
      /\ \A i, j \in 0 .. n : Position(head, s, i) = Position(head, s, j) => i = j
      /\ Position(head, s, 0) = head /\ Position(head, s, n + 1) = head
  BY <1>0, Round
<1>2. p \in Node /\ p = Position(head, s, n) /\ p # new
  <2>1. l.prev[Position(head, s, n + 1)] = Position(head, s, n)
    BY <1>1 DEF Represents
  <2> QED BY <1>1, <2>1
<1>3. \A x \in Node :
         /\ k.next[x] = IF x = p THEN new ELSE IF x = new THEN head ELSE l.next[x]
         /\ k.prev[x] = IF x = new THEN p ELSE IF x = head THEN new ELSE l.prev[x]
  BY <1>2, AddBetween DEF list_add_tail
<1>4. /\ Len(u) = n + 1 /\ IsInjective(u) /\ head \notin ToSet(u)
      /\ \A i \in 0 .. n : Position(head, u, i) = Position(head, s, i)
      /\ Position(head, u, n + 1) = new /\ Position(head, u, n + 2) = head
  BY <1>0, RoundAppend
<1>5. \A i \in 0 .. n : l.next[Position(head, s, i)] = Position(head, s, i + 1)
                        /\ l.prev[Position(head, s, i + 1)] = Position(head, s, i)
  BY DEF Represents
<1> HIDE DEF n, k, p, u
<1>6. ASSUME NEW i \in 0 .. n + 1
      PROVE  /\ k.next[Position(head, u, i)] = Position(head, u, i + 1)
             /\ k.prev[Position(head, u, i + 1)] = Position(head, u, i)
  <2>1. CASE i = n + 1
    BY <1>1, <1>2, <1>3, <1>4, <2>1
  <2>2. CASE i = n
    BY <1>1, <1>2, <1>3, <1>4, <2>2
  <2>3. CASE i \in 0 .. n - 1
    <3> DEFINE x == Position(head, s, i)
               y == Position(head, s, i + 1)
    <3>1. i \in 0 .. n /\ i + 1 \in 0 .. n /\ i # n /\ i + 1 # 0 /\ n \in 0 .. n /\ 0 \in 0 .. n
      BY <1>1, <2>3
    <3>2. x \in Node /\ y \in Node /\ x # new /\ y # new
      BY <1>1, <3>1
    <3>3. x # p /\ y # head
      BY <1>1, <1>2, <3>1
    <3>4. Position(head, u, i) = x /\ Position(head, u, i + 1) = y
      BY <1>4, <3>1
    <3>5. l.next[x] = y /\ l.prev[y] = x
      BY <1>5, <3>1
    <3> HIDE DEF x, y
    <3> QED BY <1>3, <3>2, <3>3, <3>4, <3>5
  <2> QED BY <1>1, <2>1, <2>2, <2>3
<1> QED
  BY <1>4, <1>6 DEF Represents, k, u

\* The sequence with new at its front: its positions.
LEMMA RoundPush ==
    ASSUME NEW head \in Node, NEW new \in Node, NEW s \in Seq(Node),
           IsInjective(s), head \notin ToSet(s), new # head, new \notin ToSet(s)
    PROVE  /\ <<new>> \o s \in Seq(Node) /\ Len(<<new>> \o s) = Len(s) + 1
           /\ IsInjective(<<new>> \o s) /\ head \notin ToSet(<<new>> \o s)
           /\ Position(head, <<new>> \o s, 0) = head
           /\ Position(head, <<new>> \o s, 1) = new
           /\ \A i \in 1 .. Len(s) + 1 :
                 Position(head, <<new>> \o s, i + 1) = Position(head, s, i)
<1> DEFINE u == <<new>> \o s
<1>1. /\ Len(s) \in Nat /\ DOMAIN s = 1 .. Len(s)
      /\ \A i \in 1 .. Len(s) : s[i] \in ToSet(s)
  BY LenProperties DEF ToSet
<1>2. <<new>> \in Seq(Node) /\ Len(<<new>>) = 1 /\ <<new>>[1] = new
  OBVIOUS
<1>3. /\ u \in Seq(Node) /\ Len(u) = Len(s) + 1
      /\ \A i \in 1 .. Len(s) + 1 : u[i] = IF i <= 1 THEN <<new>>[i] ELSE s[i - 1]
  <2>1. /\ u \in Seq(Node) /\ Len(u) = Len(<<new>>) + Len(s)
        /\ \A i \in 1 .. Len(<<new>>) + Len(s) :
              u[i] = IF i <= Len(<<new>>) THEN <<new>>[i] ELSE s[i - Len(<<new>>)]
    BY <1>2, ConcatProperties
  <2> HIDE DEF u
  <2> QED BY <1>1, <1>2, <2>1
<1>4. u[1] = new /\ \A i \in 1 .. Len(s) : u[i + 1] = s[i]
  <2> HIDE DEF u
  <2>1. u[1] = new
    BY <1>1, <1>2, <1>3
  <2>2. ASSUME NEW i \in 1 .. Len(s) PROVE u[i + 1] = s[i]
    <3>1. i + 1 \in 1 .. Len(s) + 1 /\ ~(i + 1 <= 1) /\ (i + 1) - 1 = i
      BY <1>1
    <3> QED BY <1>3, <3>1
  <2> QED BY <2>1, <2>2
<1>5. DOMAIN u = 1 .. Len(s) + 1
  BY <1>3, LenProperties
<1> HIDE DEF u
<1>6. \A i \in 1 .. Len(s) + 1 : i = 1 \/ (i - 1 \in 1 .. Len(s) /\ u[i] = s[i - 1])
  <2>1. ASSUME NEW i \in 1 .. Len(s) + 1, i # 1
        PROVE  i - 1 \in 1 .. Len(s) /\ u[i] = s[i - 1]
    <3>1. i - 1 \in 1 .. Len(s) /\ (i - 1) + 1 = i
      BY <1>1, <2>1
    <3> QED BY <1>4, <3>1
  <2> QED BY <2>1
<1>7. IsInjective(u)
  <2>1. ASSUME NEW i \in 1 .. Len(s) + 1, NEW j \in 1 .. Len(s) + 1, u[i] = u[j] PROVE i = j
    <3>1. CASE i = 1 \/ j = 1
      BY <1>1, <1>4, <1>6, <2>1, <3>1
    <3>2. CASE i # 1 /\ j # 1
      <4>1. i - 1 \in 1 .. Len(s) /\ j - 1 \in 1 .. Len(s) /\ s[i - 1] = s[j - 1]
        BY <1>6, <2>1, <3>2
      <4>2. i - 1 = j - 1
        BY <1>1, <4>1 DEF IsInjective
      <4> QED BY <4>2, <1>1
    <3> QED BY <3>1, <3>2
  <2> QED BY <1>5, <2>1 DEF IsInjective
<1>8. head \notin ToSet(u)
  <2>1. ASSUME NEW i \in 1 .. Len(s) + 1 PROVE u[i] # head
    BY <1>1, <1>4, <1>6
  <2> QED BY <1>5, <2>1 DEF ToSet
<1>9. /\ Position(head, u, 0) = head /\ Position(head, u, 1) = new
      /\ \A i \in 1 .. Len(s) + 1 : Position(head, u, i + 1) = Position(head, s, i)
  <2>1. Position(head, u, 0) = head /\ Position(head, u, 1) = new
    BY <1>1, <1>3, <1>4 DEF Position
  <2>2. ASSUME NEW i \in 1 .. Len(s) PROVE Position(head, u, i + 1) = Position(head, s, i)
    BY <1>1, <1>3, <1>4 DEF Position
  <2>3. Position(head, u, Len(s) + 1 + 1) = head /\ Position(head, s, Len(s) + 1) = head
    BY <1>1, <1>3 DEF Position
  <2>4. \A i \in 1 .. Len(s) + 1 : i \in 1 .. Len(s) \/ i = Len(s) + 1
    BY <1>1
  <2> QED BY <2>1, <2>2, <2>3, <2>4
<1> QED
  BY <1>3, <1>7, <1>8, <1>9 DEF u

\* list_add pushes: what freeTcb(), freeMsg() and insertChild() do.
THEOREM AddHead ==
    ASSUME NEW l \in Links, NEW head \in Node, NEW new \in Node, NEW s \in Seq(Node),
           Represents(l, head, s), new # head, new \notin ToSet(s)
    PROVE  Represents(list_add(l, new, head), head, <<new>> \o s)
<1> DEFINE n == Len(s)
           k == list_add(l, new, head)
           f == l.next[head]
           u == <<new>> \o s
<1>0. IsInjective(s) /\ head \notin ToSet(s)
  BY DEF Represents
<1>1. /\ n \in Nat /\ ToSet(s) \subseteq Node
      /\ \A i \in 0 .. n + 1 : Position(head, s, i) \in ToSet(s) \cup {head}
      /\ \A i, j \in 0 .. n : Position(head, s, i) = Position(head, s, j) => i = j
      /\ Position(head, s, 0) = head /\ Position(head, s, n + 1) = head
  BY <1>0, Round
<1>2. f \in Node /\ f = Position(head, s, 1) /\ f # new
  <2>1. 0 \in 0 .. n /\ l.next[Position(head, s, 0)] = Position(head, s, 0 + 1)
    BY <1>1 DEF Represents
  <2> QED BY <1>1, <2>1
<1>3. \A x \in Node :
         /\ k.next[x] = IF x = head THEN new ELSE IF x = new THEN f ELSE l.next[x]
         /\ k.prev[x] = IF x = new THEN head ELSE IF x = f THEN new ELSE l.prev[x]
  BY <1>2, AddBetween DEF list_add
<1>4. /\ Len(u) = n + 1 /\ IsInjective(u) /\ head \notin ToSet(u)
      /\ Position(head, u, 0) = head /\ Position(head, u, 1) = new
      /\ \A i \in 1 .. n + 1 : Position(head, u, i + 1) = Position(head, s, i)
  BY <1>0, RoundPush
<1>5. \A i \in 0 .. n : l.next[Position(head, s, i)] = Position(head, s, i + 1)
                        /\ l.prev[Position(head, s, i + 1)] = Position(head, s, i)
  BY DEF Represents
<1> HIDE DEF n, k, f, u
<1>6. ASSUME NEW i \in 0 .. n + 1
      PROVE  /\ k.next[Position(head, u, i)] = Position(head, u, i + 1)
             /\ k.prev[Position(head, u, i + 1)] = Position(head, u, i)
  <2>1. CASE i = 0
    BY <1>1, <1>2, <1>3, <1>4, <2>1
  <2>2. CASE i = 1
    <3>1. Position(head, u, 2) = f
      BY <1>1, <1>2, <1>4
    <3> QED BY <1>2, <1>3, <1>4, <2>2, <3>1
  <2>3. CASE i \in 2 .. n + 1
    <3> DEFINE j == i - 1
               x == Position(head, s, j)
               y == Position(head, s, j + 1)
    <3>1. j \in 1 .. n /\ j + 1 \in 1 .. n + 1 /\ j + 1 = i /\ j \in 0 .. n /\ j # 0
          /\ 0 \in 0 .. n /\ 1 \in 0 .. n
      BY <1>1, <2>3
    <3>2. x \in Node /\ y \in Node /\ x # new /\ y # new
      BY <1>1, <3>1
    <3>3. x # head
      BY <1>1, <3>1
    <3>4. y # f
      <4>1. CASE j = n
        <5>1. y = head
          BY <1>1, <4>1
        <5>2. Position(head, s, 1) # Position(head, s, 0)
          BY <1>1, <3>1
        <5> QED BY <1>1, <1>2, <5>1, <5>2
      <4>2. CASE j # n
        <5>1. j + 1 \in 0 .. n /\ j + 1 # 1
          BY <1>1, <3>1, <4>2
        <5> QED BY <1>1, <1>2, <3>1, <5>1
      <4> QED BY <4>1, <4>2
    <3>5. Position(head, u, i) = x /\ Position(head, u, i + 1) = y
      BY <1>4, <3>1
    <3>6. l.next[x] = y /\ l.prev[y] = x
      BY <1>5, <3>1
    <3> HIDE DEF x, y
    <3> QED BY <1>3, <3>2, <3>3, <3>4, <3>5, <3>6
  <2> QED BY <1>1, <2>1, <2>2, <2>3
<1> QED
  BY <1>4, <1>6 DEF Represents, k, u

\* The positions of a list without an element.
LEMMA Cases ==
    ASSUME NEW n \in Nat, NEW j \in 0 .. n
    PROVE  j = 0 \/ j \in 1 .. n - 1 \/ j = n
  OBVIOUS

\* The sequence without its element at i: its positions.
LEMMA RoundRemove ==
    ASSUME NEW head \in Node, NEW s \in Seq(Node), IsInjective(s), head \notin ToSet(s),
           NEW i \in 1 .. Len(s)
    PROVE  LET u == RemoveAt(s, i)
           IN /\ u \in Seq(Node) /\ Len(u) = Len(s) - 1
              /\ IsInjective(u) /\ head \notin ToSet(u)
              /\ \A j \in 0 .. Len(s) :
                    Position(head, u, j) = Position(head, s, IF j < i THEN j ELSE j + 1)
<1> DEFINE u == RemoveAt(s, i)
<1>1. /\ u \in Seq(Node) /\ Len(u) = Len(s) - 1
      /\ \A j \in 1 .. Len(s) - 1 : u[j] = IF j < i THEN s[j] ELSE s[j + 1]
  BY RemoveAtProperties
<1>2. /\ Len(s) \in Nat /\ DOMAIN s = 1 .. Len(s) /\ DOMAIN u = 1 .. Len(s) - 1
      /\ \A j \in 1 .. Len(s) : s[j] \in ToSet(s)
  BY <1>1, LenProperties DEF ToSet
<1> HIDE DEF u
<1>3. \A j \in 1 .. Len(s) - 1 : j \in 1 .. Len(s) /\ j + 1 \in 1 .. Len(s)
  BY <1>2
<1>4. IsInjective(u)
  <2>1. ASSUME NEW j \in 1 .. Len(s) - 1, NEW k \in 1 .. Len(s) - 1, u[j] = u[k]
        PROVE  j = k
    <3>1. /\ j < i => u[j] = s[j]
          /\ ~(j < i) => u[j] = s[j + 1]
          /\ k < i => u[k] = s[k]
          /\ ~(k < i) => u[k] = s[k + 1]
      BY <1>1
    <3>2. \A a, b \in 1 .. Len(s) : s[a] = s[b] => a = b
      BY <1>2 DEF IsInjective
    <3>3. CASE j < i /\ k < i
      BY <1>3, <2>1, <3>1, <3>2, <3>3
    <3>4. CASE j < i /\ ~(k < i)
      <4>1. j = k + 1
        BY <1>3, <2>1, <3>1, <3>2, <3>4
      <4> QED BY <1>2, <3>4, <4>1
    <3>5. CASE ~(j < i) /\ k < i
      <4>1. j + 1 = k
        BY <1>3, <2>1, <3>1, <3>2, <3>5
      <4> QED BY <1>2, <3>5, <4>1
    <3>6. CASE ~(j < i) /\ ~(k < i)
      <4>1. j + 1 = k + 1
        BY <1>3, <2>1, <3>1, <3>2, <3>6
      <4> QED BY <1>2, <4>1
    <3> QED BY <3>3, <3>4, <3>5, <3>6
  <2> QED BY <1>2, <2>1 DEF IsInjective
<1>5. head \notin ToSet(u)
  <2>1. ASSUME NEW j \in 1 .. Len(s) - 1 PROVE u[j] # head
    BY <1>1, <1>2, <1>3
  <2> QED BY <1>2, <2>1 DEF ToSet
<1>6. ASSUME NEW j \in 0 .. Len(s)
      PROVE  Position(head, u, j) = Position(head, s, IF j < i THEN j ELSE j + 1)
  <2>1. CASE j = 0
    BY <1>2, <2>1 DEF Position
  <2>2. CASE j \in 1 .. Len(s) - 1
    <3>1. j \in 1 .. Len(u) /\ j \in 1 .. Len(s) /\ j + 1 \in 1 .. Len(s)
      BY <1>1, <1>2, <2>2
    <3>2. u[j] = IF j < i THEN s[j] ELSE s[j + 1]
      BY <1>1, <2>2
    <3>3. Position(head, u, j) = u[j]
      BY <3>1 DEF Position
    <3>4. Position(head, s, j) = s[j] /\ Position(head, s, j + 1) = s[j + 1]
      BY <3>1 DEF Position
    <3> QED BY <3>2, <3>3, <3>4
  <2>3. CASE j = Len(s)
    <3>1. ~(j < i) /\ j \notin 1 .. Len(u) /\ j + 1 \notin 1 .. Len(s)
      BY <1>1, <1>2, <2>3
    <3>2. Position(head, u, j) = head
      BY <3>1 DEF Position
    <3>3. Position(head, s, j + 1) = head
      BY <3>1 DEF Position
    <3> QED BY <3>1, <3>2, <3>3
  <2>4. j = 0 \/ j \in 1 .. Len(s) - 1 \/ j = Len(s)
    <3>1. Len(s) \in Nat /\ j \in 0 .. Len(s)
      BY <1>2
    <3> QED BY <3>1, Cases
  <2> QED BY <2>1, <2>2, <2>3, <2>4
<1> QED
  BY <1>1, <1>4, <1>5, <1>6 DEF u

\* list_del removes: what outThread(), outChild() and popMessage() do to the
\* element they have found.
THEOREM Del ==
    ASSUME NEW l \in Links, NEW head \in Node, NEW s \in Seq(Node),
           Represents(l, head, s), NEW i \in 1 .. Len(s)
    PROVE  Represents(list_del(l, s[i]), head, RemoveAt(s, i))
<1> DEFINE n == Len(s)
           e == s[i]
           k == list_del(l, e)
           u == RemoveAt(s, i)
           P(j) == Position(head, s, j)
<1>0. IsInjective(s) /\ head \notin ToSet(s)
  BY DEF Represents
<1>1. /\ n \in Nat /\ ToSet(s) \subseteq Node
      /\ \A j \in 0 .. n + 1 : P(j) \in Node
      /\ \A j, m \in 0 .. n : P(j) = P(m) => j = m
      /\ P(0) = head /\ P(n + 1) = head /\ P(i) = e
  BY <1>0, Round
<1>2. \A j \in 0 .. n : l.next[P(j)] = P(j + 1) /\ l.prev[P(j + 1)] = P(j)
  BY DEF Represents
<1>3. l.prev[e] = P(i - 1) /\ l.next[e] = P(i + 1)
  <2>1. i - 1 \in 0 .. n /\ (i - 1) + 1 = i /\ i \in 0 .. n
    BY <1>1
  <2> QED BY <1>1, <1>2, <2>1
<1>4. /\ Len(u) = n - 1 /\ IsInjective(u) /\ head \notin ToSet(u)
      /\ \A j \in 0 .. n : Position(head, u, j) = P(IF j < i THEN j ELSE j + 1)
  BY <1>0, RoundRemove
<1>5. /\ i - 1 \in 0 .. n + 1 /\ i + 1 \in 0 .. n + 1
      /\ i - 1 \in 0 .. n /\ i + 1 \in 1 .. n + 1
      /\ P(i - 1) \in Node /\ P(i + 1) \in Node
  BY <1>1
<1>6. \A x \in Node :
         /\ k.next[x] = IF x = P(i - 1) THEN P(i + 1) ELSE l.next[x]
         /\ k.prev[x] = IF x = P(i + 1) THEN P(i - 1) ELSE l.prev[x]
  BY <1>3, <1>5, DelBetween DEF list_del
<1> HIDE DEF n, e, k, u, P
<1>7. ASSUME NEW j \in 0 .. n, NEW m \in 1 .. n + 1, P(j + 1) = P(m) PROVE j + 1 = m
  <2>1. CASE j + 1 = n + 1 /\ m = n + 1
    BY <2>1
  <2>2. CASE j + 1 \in 0 .. n /\ m \in 0 .. n
    BY <1>1, <1>7, <2>2
  <2>3. CASE j + 1 = n + 1 /\ m \in 1 .. n
    <3>1. P(m) = P(0) /\ m \in 0 .. n /\ 0 \in 0 .. n /\ m # 0
      BY <1>1, <1>7, <2>3
    <3> QED BY <1>1, <3>1
  <2>4. CASE j + 1 \in 1 .. n /\ m = n + 1
    <3>1. P(j + 1) = P(0) /\ j + 1 \in 0 .. n /\ 0 \in 0 .. n /\ j + 1 # 0
      BY <1>1, <1>7, <2>4
    <3> QED BY <1>1, <3>1
  <2> QED BY <1>1, <2>1, <2>2, <2>3, <2>4
<1>8. ASSUME NEW j \in 0 .. n - 1
      PROVE  /\ k.next[Position(head, u, j)] = Position(head, u, j + 1)
             /\ k.prev[Position(head, u, j + 1)] = Position(head, u, j)
  <2>0. j \in 0 .. n /\ j + 1 \in 0 .. n
    BY <1>1
  <2>1. CASE j < i - 1
    <3>1. Position(head, u, j) = P(j) /\ Position(head, u, j + 1) = P(j + 1)
      BY <1>1, <1>4, <2>0, <2>1
    <3>2. P(j) # P(i - 1)
      BY <1>1, <1>5, <2>0, <2>1
    <3>3. P(j + 1) # P(i + 1)
      BY <1>1, <1>5, <1>7, <2>0, <2>1
    <3>4. P(j) \in Node /\ P(j + 1) \in Node
      BY <1>1, <2>0
    <3> QED BY <1>2, <1>6, <2>0, <3>1, <3>2, <3>3, <3>4
  <2>2. CASE j = i - 1
    <3>1. Position(head, u, j) = P(i - 1) /\ Position(head, u, j + 1) = P(i + 1)
      BY <1>1, <1>4, <2>0, <2>2
    <3>2. P(i - 1) \in Node /\ P(i + 1) \in Node
      BY <1>1, <1>5
    <3> QED BY <1>6, <3>1, <3>2
  <2>3. CASE j > i - 1
    <3>1. Position(head, u, j) = P(j + 1) /\ Position(head, u, j + 1) = P(j + 2)
      BY <1>1, <1>4, <2>0, <2>3
    <3>2. P(j + 1) # P(i - 1)
      BY <1>1, <1>5, <2>0, <2>3
    <3>3. P(j + 2) # P(i + 1)
      BY <1>1, <1>7, <2>0, <2>3
    <3>4. P(j + 1) \in Node /\ P(j + 2) \in Node
      BY <1>1, <2>0
    <3>5. l.next[P(j + 1)] = P(j + 2) /\ l.prev[P(j + 2)] = P(j + 1)
      BY <1>1, <1>2, <2>0
    <3> QED BY <1>6, <3>1, <3>2, <3>3, <3>4, <3>5
  <2> QED BY <1>1, <2>1, <2>2, <2>3
<1> QED
  <2>1. (n - 1) + 1 = n
    BY <1>1
  <2> QED BY <1>4, <1>8 DEF Represents, k, u, e

\* What changes no link of a list leaves the list: an operation on another
\* list, whose nodes are others.
THEOREM Apart ==
    ASSUME NEW l \in Links, NEW k \in Links, NEW head \in Node, NEW s \in Seq(Node),
           Represents(l, head, s),
           \A x \in ToSet(s) \cup {head} : k.next[x] = l.next[x] /\ k.prev[x] = l.prev[x]
    PROVE  Represents(k, head, s)
<1>0. IsInjective(s) /\ head \notin ToSet(s)
  BY DEF Represents
<1>1. /\ Len(s) \in Nat
      /\ \A i \in 0 .. Len(s) + 1 : Position(head, s, i) \in ToSet(s) \cup {head}
  BY <1>0, Round
<1>2. ASSUME NEW i \in 0 .. Len(s)
      PROVE  /\ k.next[Position(head, s, i)] = Position(head, s, i + 1)
             /\ k.prev[Position(head, s, i + 1)] = Position(head, s, i)
  <2>1. /\ Position(head, s, i) \in ToSet(s) \cup {head}
        /\ Position(head, s, i + 1) \in ToSet(s) \cup {head}
    BY <1>1
  <2>2. /\ l.next[Position(head, s, i)] = Position(head, s, i + 1)
        /\ l.prev[Position(head, s, i + 1)] = Position(head, s, i)
    BY DEF Represents
  <2> QED BY <2>1, <2>2
<1> QED
  BY <1>0, <1>2 DEF Represents

-----------------------------------------------------------------------------
(* What a walk meets. *)

\* The counterpart of LeastPosition.
LEMMA GreatestPosition ==
    ASSUME NEW n \in Nat, NEW I, I \subseteq 1 .. n, I # {}
    PROVE  \E g \in I : \A j \in I : j <= g
<1> DEFINE J == {(n + 1) - i : i \in I}
<1>1. J \subseteq 1 .. n /\ J # {}
  <2>1. \A i \in I : (n + 1) - i \in 1 .. n
    OBVIOUS
  <2> QED BY <2>1
<1>2. PICK j \in J : \A k \in J : j <= k
  BY <1>1, LeastPosition
<1>3. PICK g \in I : j = (n + 1) - g
  BY <1>2
<1>4. \A i \in I : i \in 1 .. n /\ j <= (n + 1) - i
  BY <1>2
<1> QED
  BY <1>3, <1>4

\* Where a walk stops, and what its steps are.
Stops(head, s) == Last(s) = head \/ Len(s) = Cardinality(Node)

\* u continues s along next, to where the walk stops.
Continues(l, head, s, u) ==
    /\ Len(s) <= Len(u) /\ \A j \in 1 .. Len(s) : u[j] = s[j]
    /\ \A j \in Len(s) .. Len(u) - 1 :
          /\ u[j] # head /\ j # Cardinality(Node)
          /\ u[j + 1] = l.next[u[j]]
    /\ Stops(head, u)

Rest(l, head, s) == {u \in Seq(Node) : Continues(l, head, s, u)}

\* The next node of a sequence of nodes.
LEMMA Further ==
    ASSUME NEW l \in Links, NEW s \in Seq(Node), s # <<>>
    PROVE  LET a == Append(s, l.next[Last(s)])
           IN /\ Len(s) \in Nat \ {0} /\ Last(s) \in Node /\ a \in Seq(Node) \ {<<>>}
              /\ Len(a) = Len(s) + 1 /\ Last(a) = l.next[Last(s)]
              /\ \A j \in 1 .. Len(s) : a[j] = s[j]
<1>1. Len(s) \in Nat \ {0}
  BY LenProperties, EmptySeq
<1>2. Last(s) \in Node
  BY <1>1, ElementOfSeq DEF Last
<1>3. l.next[Last(s)] \in Node
  BY <1>2 DEF Links
<1> DEFINE x == l.next[Last(s)]
<1> HIDE DEF x
<1>4. x \in Node
  BY <1>3 DEF x
<1>5. /\ Append(s, x) \in Seq(Node) /\ Len(Append(s, x)) = Len(s) + 1
      /\ \A j \in 1 .. Len(s) : Append(s, x)[j] = s[j]
      /\ Append(s, x)[Len(s) + 1] = x
  BY <1>4, AppendProperties
<1>6. Append(s, x) # <<>>
  BY <1>1, <1>5, EmptySeq
<1> QED
  BY <1>1, <1>2, <1>5, <1>6 DEF x, Last

\* The recursion of Trail has a solution: the function that continues every
\* sequence.
LEMMA TrailRecursion ==
    ASSUME NEW l \in Links, NEW head \in Node
    PROVE  \E f :
              /\ Trail(l, head) = f[<<l.next[head]>>]
              /\ \A s \in Seq(Node) \ {<<>>} :
                    f[s] = IF Stops(head, s) THEN s ELSE f[Append(s, l.next[Last(s)])]
<1> DEFINE D == Seq(Node) \ {<<>>}
           R(s) == Rest(l, head, s)
           g == [s \in D |-> IF Stops(head, s) THEN s ELSE CHOOSE u : u \in R(s)]
           step(f) == [s \in D |-> IF Last(s) = head \/ Len(s) = Cardinality(Node) THEN s
                                   ELSE f[Append(s, l.next[Last(s)])]]
<1>1. ASSUME NEW s \in D, ~Stops(head, s)
      PROVE  g[s] = g[Append(s, l.next[Last(s)])]
  <2> DEFINE a == Append(s, l.next[Last(s)])
  <2>1. /\ Len(s) \in Nat \ {0} /\ Last(s) \in Node /\ a \in D
        /\ Len(a) = Len(s) + 1 /\ Last(a) = l.next[Last(s)]
        /\ \A j \in 1 .. Len(s) : a[j] = s[j]
    BY Further
  <2> HIDE DEF a
  <2>2. a[Len(s) + 1] = l.next[s[Len(s)]]
    BY <2>1 DEF Last
  <2>3. R(s) \subseteq R(a)
    <3> SUFFICES ASSUME NEW u \in Seq(Node), Continues(l, head, s, u)
                 PROVE  Continues(l, head, a, u)
      BY DEF Rest
    <3>1. /\ Len(u) \in Nat /\ Len(s) <= Len(u) /\ \A j \in 1 .. Len(s) : u[j] = s[j]
          /\ Stops(head, u)
      BY LenProperties DEF Continues
    <3>2. Len(u) # Len(s)
      BY <1>1, <2>1, <3>1 DEF Stops, Last
    <3>3. Len(s) \in Len(s) .. Len(u) - 1
      BY <2>1, <3>1, <3>2
    <3>4. u[Len(s) + 1] = l.next[s[Len(s)]]
      BY <2>1, <3>1, <3>3 DEF Continues
    <3>5. \A j \in 1 .. Len(s) + 1 : u[j] = a[j]
      BY <2>1, <2>2, <3>1, <3>4
    <3>6. Len(a) <= Len(u) /\ Len(a) .. Len(u) - 1 \subseteq Len(s) .. Len(u) - 1
      BY <2>1, <3>1, <3>2
    <3> QED BY <2>1, <3>1, <3>5, <3>6 DEF Continues
  <2>4. R(a) \subseteq R(s)
    <3> SUFFICES ASSUME NEW u \in Seq(Node), Continues(l, head, a, u)
                 PROVE  Continues(l, head, s, u)
      BY DEF Rest
    <3>1. /\ Len(u) \in Nat /\ Len(s) + 1 <= Len(u) /\ \A j \in 1 .. Len(s) + 1 : u[j] = a[j]
          /\ Stops(head, u)
      BY <2>1, LenProperties DEF Continues
    <3>2. \A j \in 1 .. Len(s) : u[j] = s[j]
      BY <2>1, <3>1
    <3>3. u[Len(s)] = s[Len(s)] /\ u[Len(s) + 1] = l.next[u[Len(s)]]
      BY <2>1, <2>2, <3>1, <3>2
    <3>4. s[Len(s)] # head /\ Len(s) # Cardinality(Node)
      BY <1>1 DEF Stops, Last
    <3>5. ASSUME NEW j \in Len(s) .. Len(u) - 1
          PROVE  u[j] # head /\ j # Cardinality(Node) /\ u[j + 1] = l.next[u[j]]
      <4>1. CASE j = Len(s)
        BY <3>3, <3>4, <4>1
      <4>2. CASE j # Len(s)
        <5>1. j \in Len(a) .. Len(u) - 1
          BY <2>1, <3>1, <4>2
        <5> QED BY <5>1 DEF Continues
      <4> QED BY <4>1, <4>2
    <3> QED BY <2>1, <3>1, <3>2, <3>5 DEF Continues
  <2>5. R(s) = R(a)
    BY <2>3, <2>4
  <2>6. CASE ~Stops(head, a)
    <3> HIDE DEF R
    <3>1. g[a] = CHOOSE u : u \in R(a)
      BY <2>1, <2>6
    <3>2. g[s] = CHOOSE u : u \in R(s)
      BY <1>1
    <3> QED BY <2>5, <3>1, <3>2 DEF a
  <2>7. CASE Stops(head, a)
    <3>1. R(a) = {a}
      <4>1. a \in R(a)
        BY <2>1, <2>7 DEF Rest, Continues
      <4>2. ASSUME NEW u \in R(a) PROVE u = a
        <5>1. /\ u \in Seq(Node) /\ Len(u) \in Nat /\ Len(a) <= Len(u)
              /\ \A j \in 1 .. Len(a) : u[j] = a[j]
          BY LenProperties DEF Rest, Continues
        <5>2. Len(u) = Len(a)
          <6>1. SUFFICES ASSUME Len(u) # Len(a) PROVE FALSE
            OBVIOUS
          <6>2. Len(a) \in Len(a) .. Len(u) - 1
            BY <2>1, <5>1, <6>1
          <6>3. u[Len(a)] # head /\ Len(a) # Cardinality(Node)
            BY <6>2 DEF Rest, Continues
          <6> QED BY <2>1, <2>7, <5>1, <6>3 DEF Stops, Last
        <5> QED BY <2>1, <5>1, <5>2, SeqEqual
      <4> QED BY <4>1, <4>2
    <3> HIDE DEF R
    <3>2. g[s] = CHOOSE u : u \in {a}
      BY <1>1, <2>5, <3>1
    <3>3. g[a] = a
      BY <2>1, <2>7
    <3> QED BY <3>2, <3>3 DEF a
  <2> QED BY <2>6, <2>7
<1>2. g = step(g)
  <2>1. ASSUME NEW s \in D
        PROVE  g[s] = IF Last(s) = head \/ Len(s) = Cardinality(Node) THEN s
                      ELSE g[Append(s, l.next[Last(s)])]
    <3>1. CASE Stops(head, s)
      BY <3>1 DEF Stops
    <3>2. CASE ~Stops(head, s)
      <4> HIDE DEF g
      <4> QED BY <1>1, <3>2 DEF Stops
    <3> QED BY <3>1, <3>2
  <2>2. g = [s \in D |-> g[s]]
    OBVIOUS
  <2> HIDE DEF g
  <2> QED BY <2>1, <2>2
<1> HIDE DEF g
<1> DEFINE trail == CHOOSE f : f = step(f)
<1>3. trail = step(trail)
  BY <1>2
<1>4. Trail(l, head) = trail[<<l.next[head]>>]
  BY DEF Trail
<1>5. \A s \in D : trail[s] = IF Stops(head, s) THEN s ELSE trail[Append(s, l.next[Last(s)])]
  <2> HIDE DEF trail
  <2> QED BY <1>3 DEF Stops
<1> QED
  BY <1>4, <1>5

\* A walk meets nodes one after the other along next, until it is back at the
\* head or has made as many steps as there are nodes.
LEMMA TrailPath ==
    ASSUME NEW l \in Links, NEW head \in Node
    PROVE  LET r == Trail(l, head)
           IN /\ r \in Seq(Node) /\ Len(r) \in 1 .. Cardinality(Node) /\ Stops(head, r)
              /\ r[1] = l.next[head]
              /\ \A j \in 1 .. Len(r) - 1 : r[j] # head /\ r[j + 1] = l.next[r[j]]
<1> DEFINE N == Cardinality(Node)
           first == l.next[head]
<1>0. N \in Nat \ {0} /\ first \in Node
  <2>1. N \in Nat
    BY NodeAssumption, FS_CardinalityType
  <2>2. N # 0
    BY NodeAssumption, FS_EmptySet
  <2>3. first \in Node
    BY DEF Links
  <2> QED BY <2>1, <2>2, <2>3
<1>1. PICK f : /\ Trail(l, head) = f[<<first>>]
               /\ \A s \in Seq(Node) \ {<<>>} :
                     f[s] = IF Stops(head, s) THEN s ELSE f[Append(s, l.next[Last(s)])]
  BY TrailRecursion
<1> DEFINE Path(u) == /\ u \in Seq(Node) \ {<<>>} /\ f[u] = f[<<first>>]
                      /\ u[1] = first
                      /\ \A j \in 1 .. Len(u) - 1 : u[j] # head /\ u[j + 1] = l.next[u[j]]
           I == {i \in 1 .. N : \E u \in Seq(Node) : Len(u) = i /\ Path(u)}
<1> HIDE DEF first, N
<1>2. 1 \in I
  <2>1. <<first>> \in Seq(Node) /\ Len(<<first>>) = 1 /\ <<first>>[1] = first
    BY <1>0
  <2>2. <<first>> # <<>>
    BY <2>1
  <2>3. 1 \in 1 .. N
    BY <1>0
  <2>4. \A j \in 1 .. Len(<<first>>) - 1 : FALSE
    BY <2>1
  <2> QED BY <2>1, <2>2, <2>3, <2>4
<1>3. PICK i \in I : \A j \in I : j <= i
  <2>1. I \subseteq 1 .. N /\ I # {} /\ N \in Nat
    BY <1>0, <1>2
  <2> HIDE DEF I
  <2> QED BY <2>1, GreatestPosition
<1>4. PICK u \in Seq(Node) : Len(u) = i /\ Path(u)
  BY <1>3
<1>5. i \in 1 .. N
  BY <1>3
<1>6. Stops(head, u)
  <2> SUFFICES ASSUME ~Stops(head, u) PROVE FALSE
    OBVIOUS
  <2> DEFINE a == Append(u, l.next[Last(u)])
  <2>1. /\ Last(u) \in Node /\ a \in Seq(Node) \ {<<>>}
        /\ Len(a) = i + 1 /\ Last(a) = l.next[Last(u)]
        /\ \A j \in 1 .. i : a[j] = u[j]
    BY <1>4, Further
  <2> HIDE DEF a
  <2>2. u[i] # head /\ i # N /\ a[i + 1] = l.next[u[i]]
    BY <1>4, <2>1 DEF Stops, Last, N
  <2>3. f[a] = f[<<first>>]
    BY <1>1, <1>4 DEF a
  <2>4. \A j \in 1 .. i : a[j] # head /\ a[j + 1] = l.next[a[j]]
    <3> SUFFICES ASSUME NEW j \in 1 .. i PROVE a[j] # head /\ a[j + 1] = l.next[a[j]]
      OBVIOUS
    <3>1. CASE j = i
      BY <2>1, <2>2, <3>1
    <3>2. CASE j # i
      <4>1. j \in 1 .. Len(u) - 1 /\ j + 1 \in 1 .. i
        BY <1>4, <1>5, <3>2
      <4> QED BY <1>4, <2>1, <4>1
    <3> QED BY <3>1, <3>2
  <2>5. a[1] = first
    BY <1>4, <1>5, <2>1
  <2>6. i + 1 \in 1 .. N /\ Len(a) - 1 = i
    BY <1>0, <1>5, <2>1, <2>2
  <2>7. i + 1 \in I
    BY <2>1, <2>3, <2>4, <2>5, <2>6
  <2> HIDE DEF I
  <2> QED BY <1>3, <1>5, <2>7
<1>7. Trail(l, head) = u
  BY <1>1, <1>4, <1>6
<1> QED
  BY <1>4, <1>5, <1>6, <1>7 DEF N, first

\* A list has fewer elements than there are nodes.
LEMMA FewElements ==
    ASSUME NEW head \in Node, NEW s \in Seq(Node), IsInjective(s), head \notin ToSet(s)
    PROVE  Len(s) \in Nat /\ Len(s) + 1 <= Cardinality(Node)
<1>1. Len(s) \in Nat
  BY LenProperties
<1>2. /\ \A i, j \in 0 .. Len(s) : Position(head, s, i) = Position(head, s, j) => i = j
      /\ \A i \in 0 .. Len(s) : Position(head, s, i) \in Node
  BY Round
<1> DEFINE f == [i \in 0 .. Len(s) |-> Position(head, s, i)]
<1>3. /\ IsFiniteSet(0 .. Len(s)) /\ Cardinality(0 .. Len(s)) = Len(s) + 1
  BY <1>1, FS_Interval
<1>4. IsFiniteSet(Node) /\ Cardinality(Node) \in Nat
  BY NodeAssumption, FS_CardinalityType
<1>5. f \in [0 .. Len(s) -> Node]
  BY <1>2
<1>6. \A i, j \in 0 .. Len(s) : f[i] = f[j] => i = j
  BY <1>2
<1> HIDE DEF f
<1>7. ~(Cardinality(Node) < Cardinality(0 .. Len(s)))
  <2> DEFINE S == 0 .. Len(s)
  <2>1. IsFiniteSet(S) /\ f \in [S -> Node] /\ \A i, j \in S : f[i] = f[j] => i = j
    BY <1>3, <1>5, <1>6
  <2> HIDE DEF S
  <2>2. ~(Cardinality(Node) < Cardinality(S))
    BY <1>4, <2>1, FS_PigeonHole
  <2> QED BY <2>2 DEF S
<1> QED
  BY <1>1, <1>3, <1>4, <1>7

\* list_for_each meets the elements of the list, in its order, and no others,
\* and comes to its end, for lists of any length.
THEOREM WalkMeetsAll ==
    ASSUME NEW l \in Links, NEW head \in Node, NEW s \in Seq(Node), Represents(l, head, s)
    PROVE  Walk(l, head) = s /\ Returns(l, head)
<1> DEFINE r == Trail(l, head)
           n == Len(s)
           P(i) == Position(head, s, i)
<1>0. IsInjective(s) /\ head \notin ToSet(s)
  BY DEF Represents
<1>1. n \in Nat /\ n + 1 <= Cardinality(Node)
  BY <1>0, FewElements
<1>2. /\ r \in Seq(Node) /\ Len(r) \in 1 .. Cardinality(Node) /\ Stops(head, r)
      /\ r[1] = l.next[head]
      /\ \A j \in 1 .. Len(r) - 1 : r[j] # head /\ r[j + 1] = l.next[r[j]]
  BY TrailPath
<1>3. /\ P(0) = head /\ P(n + 1) = head
      /\ \A i \in 1 .. n : P(i) = s[i] /\ s[i] \in ToSet(s)
  BY <1>0, Round
<1>4. \A i \in 0 .. n : l.next[P(i)] = P(i + 1)
  BY DEF Represents
<1>5. Cardinality(Node) \in Nat
  BY NodeAssumption, FS_CardinalityType
<1> HIDE DEF r, P
<1>6. \A j \in 1 .. Len(r) : j <= n + 1 => r[j] = P(j)
  <2> DEFINE B == {j \in 1 .. Len(r) : j <= n + 1 /\ r[j] # P(j)}
  <2> SUFFICES ASSUME B # {} PROVE FALSE
    OBVIOUS
  <2>1. Len(r) \in Nat /\ B \subseteq 1 .. Len(r)
    BY <1>2
  <2>2. PICK b \in B : \A j \in B : b <= j
    <3> HIDE DEF B
    <3> QED BY <2>1, LeastPosition
  <2>3. b \in 1 .. Len(r) /\ b <= n + 1 /\ r[b] # P(b)
    BY <2>2
  <2>4. CASE b = 1
    <3>1. 0 \in 0 .. n
      BY <1>1
    <3> QED BY <1>2, <1>3, <1>4, <2>3, <2>4, <3>1
  <2>5. CASE b # 1
    <3>1. b - 1 \in 1 .. Len(r) - 1 /\ b - 1 \in 0 .. n /\ (b - 1) + 1 = b /\ ~(b <= b - 1)
          /\ b - 1 \in 1 .. Len(r) /\ b - 1 <= n + 1
      BY <1>1, <1>2, <2>3, <2>5
    <3>2. b - 1 \notin B
      <4> HIDE DEF B
      <4> QED BY <2>2, <3>1
    <3>3. r[b - 1] = P(b - 1)
      BY <3>1, <3>2
    <3>4. r[b] = l.next[r[b - 1]] /\ l.next[P(b - 1)] = P(b)
      BY <1>2, <1>4, <3>1
    <3> QED BY <2>3, <3>3, <3>4
  <2> QED BY <2>4, <2>5
<1>7. Len(r) = n + 1
  <2>1. ~(Len(r) > n + 1)
    <3> SUFFICES ASSUME Len(r) > n + 1 PROVE FALSE
      OBVIOUS
    <3>1. n + 1 \in 1 .. Len(r) - 1 /\ n + 1 \in 1 .. Len(r)
      BY <1>1, <1>2
    <3> QED BY <1>1, <1>2, <1>3, <1>6, <3>1
  <2>2. ~(Len(r) < n + 1)
    <3> SUFFICES ASSUME Len(r) < n + 1 PROVE FALSE
      OBVIOUS
    <3>1. Len(r) \in 1 .. n /\ Len(r) \in 1 .. Len(r) /\ Len(r) <= n + 1
      BY <1>1, <1>2
    <3>2. r[Len(r)] = s[Len(r)] /\ s[Len(r)] \in ToSet(s)
      BY <1>3, <1>6, <3>1
    <3>3. Len(r) = Cardinality(Node)
      BY <1>0, <1>2, <3>2 DEF Stops, Last
    <3> QED BY <1>1, <1>5, <3>3
  <2> QED BY <1>1, <1>2, <2>1, <2>2
<1>8. r[n + 1] = head
  <2>1. n + 1 \in 1 .. Len(r)
    BY <1>1, <1>7
  <2> QED BY <1>1, <1>3, <1>6, <2>1
<1>9. Front(r) = s
  <2>1. Front(r) = SubSeq(r, 1, n)
    BY <1>1, <1>7 DEF Front
  <2>2. \A i \in 1 .. n : i \in 1 .. Len(r) /\ r[i] \in Node
    BY <1>1, <1>2, <1>7, ElementOfSeq
  <2>3. /\ SubSeq(r, 1, n) \in Seq(Node)
        /\ Len(SubSeq(r, 1, n)) = IF 1 <= n THEN n - 1 + 1 ELSE 0
        /\ \A i \in 1 .. n - 1 + 1 : SubSeq(r, 1, n)[i] = r[1 + i - 1]
    BY <1>1, <2>2, SubSeqProperties
  <2> DEFINE q == SubSeq(r, 1, n)
  <2>4. q \in Seq(Node)
    BY <2>3
  <2>5. Len(q) = n
    BY <1>1, <2>3
  <2>6. \A i \in 1 .. n : q[i] = r[i]
    <3> SUFFICES ASSUME NEW i \in 1 .. n PROVE q[i] = r[i]
      OBVIOUS
    <3>1. i \in 1 .. n - 1 + 1 /\ 1 + i - 1 = i
      BY <1>1
    <3> QED BY <2>3, <3>1
  <2>7. \A i \in 1 .. n : r[i] = s[i]
    BY <1>1, <1>3, <1>6, <2>2
  <2> HIDE DEF q
  <2>8. q = s
    BY <2>4, <2>5, <2>6, <2>7, SeqEqual
  <2> QED BY <2>1, <2>8 DEF q
<1> QED
  BY <1>1, <1>7, <1>8, <1>9 DEF Walk, Returns, Last, r

-----------------------------------------------------------------------------
(* Several lists, at the heads H, of elements of E.                        *)

\* Heads and elements are different nodes.
Kinds(H, E) == H \subseteq Node /\ E \subseteq Node /\ H \cap E = {}

\* l links the elements of w[h] at each head h, and no element twice.
ListsOf(H, E, l, w) ==
    /\ l \in Links /\ w \in [H -> Seq(E)]
    /\ \A h \in H : Represents(l, h, w[h])
    /\ \A h, k \in H : h # k => ToSet(w[h]) \cap ToSet(w[k]) = {}

\* x is in none of these lists.
LooseOf(H, E, w, x) == x \in E /\ \A h \in H : x \notin ToSet(w[h])

\* A list of elements is a list of nodes.
LEMMA ListsNodes ==
    ASSUME NEW H, NEW E, Kinds(H, E),
           NEW l, NEW w, ListsOf(H, E, l, w), NEW h \in H
    PROVE  /\ w[h] \in Seq(Node) /\ h \in Node /\ ToSet(w[h]) \subseteq E
           /\ IsInjective(w[h]) /\ h \notin ToSet(w[h]) /\ Len(w[h]) \in Nat
           /\ \A i \in 1 .. Len(w[h]) : w[h][i] \in ToSet(w[h])
<1>1. w[h] \in Seq(E) /\ h \in Node
  BY DEF ListsOf, Kinds
<1>2. w[h] \in Seq(Node)
  BY <1>1, SeqMonotonic DEF Kinds
<1>3. DOMAIN w[h] = 1 .. Len(w[h]) /\ Len(w[h]) \in Nat
  BY <1>2, LenProperties
<1>4. \A i \in 1 .. Len(w[h]) : w[h][i] \in E
  BY <1>1, ElementOfSeq
<1>5. IsInjective(w[h]) /\ h \notin ToSet(w[h])
  BY DEF ListsOf, Represents
<1> QED
  BY <1>1, <1>2, <1>3, <1>4, <1>5 DEF ToSet

\* The nodes before and after the head and the elements of a list.
LEMMA Neighbours ==
    ASSUME NEW l \in Links, NEW head \in Node, NEW s \in Seq(Node), Represents(l, head, s)
    PROVE  /\ l.next[head] \in ToSet(s) \cup {head} /\ l.prev[head] \in ToSet(s) \cup {head}
           /\ \A i \in 1 .. Len(s) :
                 /\ l.next[s[i]] = Position(head, s, i + 1)
                 /\ l.prev[s[i]] = Position(head, s, i - 1)
                 /\ l.next[s[i]] \in ToSet(s) \cup {head}
                 /\ l.prev[s[i]] \in ToSet(s) \cup {head}
<1>1. IsInjective(s) /\ head \notin ToSet(s)
  BY DEF Represents
<1>2. /\ Len(s) \in Nat
      /\ Position(head, s, 0) = head /\ Position(head, s, Len(s) + 1) = head
      /\ \A i \in 1 .. Len(s) : Position(head, s, i) = s[i]
      /\ \A i \in 0 .. Len(s) + 1 : Position(head, s, i) \in ToSet(s) \cup {head}
  BY <1>1, Round
<1>3. \A i \in 0 .. Len(s) : /\ l.next[Position(head, s, i)] = Position(head, s, i + 1)
                             /\ l.prev[Position(head, s, i + 1)] = Position(head, s, i)
  BY DEF Represents
<1>4. l.next[head] = Position(head, s, 1) /\ l.prev[head] = Position(head, s, Len(s))
  <2>1. 0 \in 0 .. Len(s) /\ Len(s) \in 0 .. Len(s) /\ 0 + 1 = 1
    BY <1>2
  <2> QED BY <1>2, <1>3, <2>1
<1>5. 1 \in 0 .. Len(s) + 1 /\ Len(s) \in 0 .. Len(s) + 1
  BY <1>2
<1>6. ASSUME NEW i \in 1 .. Len(s)
      PROVE  /\ l.next[s[i]] = Position(head, s, i + 1)
             /\ l.prev[s[i]] = Position(head, s, i - 1)
             /\ i + 1 \in 0 .. Len(s) + 1 /\ i - 1 \in 0 .. Len(s) + 1
  <2>1. i \in 0 .. Len(s) /\ i - 1 \in 0 .. Len(s) /\ (i - 1) + 1 = i
        /\ i + 1 \in 0 .. Len(s) + 1 /\ i - 1 \in 0 .. Len(s) + 1
    BY <1>2
  <2>2. l.next[Position(head, s, i)] = Position(head, s, i + 1)
    BY <1>3, <2>1
  <2>3. l.prev[Position(head, s, (i - 1) + 1)] = Position(head, s, i - 1)
    BY <1>3, <2>1
  <2> QED BY <1>2, <2>1, <2>2, <2>3
<1> QED
  BY <1>2, <1>4, <1>5, <1>6

\* A list of w other than that of h is not at the nodes of h's list.
LEMMA ListsApart ==
    ASSUME NEW H, NEW E, Kinds(H, E),
           NEW l, NEW w, ListsOf(H, E, l, w), NEW h \in H, NEW g \in H, g # h
    PROVE  (ToSet(w[g]) \cup {g}) \cap (ToSet(w[h]) \cup {h}) = {}
<1>1. ToSet(w[g]) \subseteq E /\ ToSet(w[h]) \subseteq E
  BY ListsNodes
<1>2. ToSet(w[g]) \cap ToSet(w[h]) = {}
  BY DEF ListsOf
<1> QED
  BY <1>1, <1>2 DEF Kinds

\* Unlinking a element takes it out of its list, and leaves the others.
LEMMA ListsUnlink ==
    ASSUME NEW H, NEW E, Kinds(H, E),
           NEW l, NEW w, ListsOf(H, E, l, w), NEW h \in H, NEW i \in 1 .. Len(w[h])
    PROVE  LET x == w[h][i]
               v == [w EXCEPT ![h] = RemoveAt(@, i)]
           IN ListsOf(H, E, list_del(l, x), v) /\ LooseOf(H, E, v, x)
<1> DEFINE x == w[h][i]
           v == [w EXCEPT ![h] = RemoveAt(@, i)]
           s == w[h]
           k == list_del(l, x)
<1>1. l \in Links /\ w \in [H -> Seq(E)] /\ Represents(l, h, s)
  BY DEF ListsOf
<1>2. /\ s \in Seq(Node) /\ h \in Node /\ ToSet(s) \subseteq E /\ x \in ToSet(s)
      /\ IsInjective(s)
  BY ListsNodes
<1>3. Represents(k, h, RemoveAt(s, i))
  BY <1>1, <1>2, Del
<1>4. RemoveAt(s, i) \in Seq(E)
  BY <1>1, RemoveAtProperties
<1>5. ToSet(RemoveAt(s, i)) \subseteq ToSet(s) /\ x \notin ToSet(RemoveAt(s, i))
  <2> DEFINE r == RemoveAt(s, i)
  <2>1. /\ r \in Seq(Node) /\ Len(r) = Len(s) - 1 /\ Len(s) \in Nat
        /\ \A j \in 1 .. Len(s) - 1 : r[j] = IF j < i THEN s[j] ELSE s[j + 1]
    BY <1>2, RemoveAtProperties, LenProperties
  <2>2. DOMAIN r = 1 .. Len(s) - 1 /\ DOMAIN s = 1 .. Len(s)
    BY <1>2, <2>1, LenProperties
  <2>3. ToSet(r) \subseteq ToSet(s)
    BY <1>2, ToSetRemoveAt
  <2> HIDE DEF r
  <2>4. \A j \in 1 .. Len(s) - 1 : r[j] # s[i]
    <3> SUFFICES ASSUME NEW j \in 1 .. Len(s) - 1, r[j] = s[i] PROVE FALSE
      OBVIOUS
    <3>1. \A a, b \in 1 .. Len(s) : s[a] = s[b] => a = b
      BY <1>2, <2>2 DEF IsInjective
    <3>2. CASE j < i
      BY <2>1, <3>1, <3>2
    <3>3. CASE ~(j < i)
      <4>1. j + 1 \in 1 .. Len(s) /\ j + 1 # i /\ s[j + 1] = s[i]
        BY <2>1, <3>3
      <4> QED BY <3>1, <4>1
    <3> QED BY <3>2, <3>3
  <2> QED BY <2>2, <2>3, <2>4 DEF ToSet, r
<1>6. /\ l.next[x] \in ToSet(s) \cup {h} /\ l.prev[x] \in ToSet(s) \cup {h}
      /\ l.next[x] \in Node /\ l.prev[x] \in Node
  BY <1>1, <1>2, Neighbours DEF Kinds
<1>7. /\ k \in Links
      /\ \A y \in Node : y \notin ToSet(s) \cup {h}
            => k.next[y] = l.next[y] /\ k.prev[y] = l.prev[y]
  <2> DEFINE p == l.prev[x]
             q == l.next[x]
  <2> HIDE DEF p, q
  <2>1. p \in Node /\ q \in Node /\ p \in ToSet(s) \cup {h} /\ q \in ToSet(s) \cup {h}
    BY <1>6 DEF p, q
  <2>2. k = ListDelBetween(l, p, q)
    BY DEF list_del, p, q
  <2>3. /\ k \in Links
        /\ \A y \in Node :
              /\ k.next[y] = IF y = p THEN q ELSE l.next[y]
              /\ k.prev[y] = IF y = q THEN p ELSE l.prev[y]
    BY <1>1, <2>1, <2>2, DelBetween
  <2> QED BY <2>1, <2>3
<1> HIDE DEF k, x
<1>8. v \in [H -> Seq(E)] /\ v[h] = RemoveAt(s, i)
      /\ \A g \in H : g # h => v[g] = w[g]
  BY <1>1, <1>4
<1> HIDE DEF v
<1>9. ASSUME NEW g \in H PROVE Represents(k, g, v[g])
  <2>1. CASE g = h
    BY <1>3, <1>8, <2>1
  <2>2. CASE g # h
    <3>1. w[g] \in Seq(Node) /\ g \in Node /\ ToSet(w[g]) \subseteq Node
      BY ListsNodes DEF Kinds
    <3>2. Represents(l, g, w[g])
      BY DEF ListsOf
    <3>3. \A y \in ToSet(w[g]) \cup {g} : k.next[y] = l.next[y] /\ k.prev[y] = l.prev[y]
      BY <1>7, <2>2, <3>1, ListsApart
    <3> QED BY <1>1, <1>7, <1>8, <2>2, <3>1, <3>2, <3>3, Apart
  <2> QED BY <2>1, <2>2
<1>10. \A g \in H : ToSet(v[g]) \subseteq ToSet(w[g]) /\ x \notin ToSet(v[g])
  <2> SUFFICES ASSUME NEW g \in H
               PROVE  ToSet(v[g]) \subseteq ToSet(w[g]) /\ x \notin ToSet(v[g])
    OBVIOUS
  <2>1. CASE g = h
    BY <1>5, <1>8, <2>1
  <2>2. CASE g # h
    BY <1>2, <1>8, <2>2, ListsApart
  <2> QED BY <2>1, <2>2
<1>11. \A g, f \in H : g # f => ToSet(v[g]) \cap ToSet(v[f]) = {}
  BY <1>10 DEF ListsOf
<1>12. x \in E
  BY <1>2
<1> QED
  BY <1>7, <1>8, <1>9, <1>10, <1>11, <1>12 DEF ListsOf, LooseOf, k, x, v

\* Links of a loose element are in no list.
LEMMA ListsInit ==
    ASSUME NEW H, NEW E, Kinds(H, E),
           NEW l, NEW w, ListsOf(H, E, l, w), NEW x, LooseOf(H, E, w, x)
    PROVE  ListsOf(H, E, INIT_LIST_HEAD(l, x), w)
<1> DEFINE k == INIT_LIST_HEAD(l, x)
<1>1. l \in Links /\ x \in Node /\ x \in E
  BY DEF ListsOf, LooseOf, Kinds
<1>2. k \in Links /\ \A y \in Node : y # x => k.next[y] = l.next[y] /\ k.prev[y] = l.prev[y]
  BY <1>1 DEF Links, INIT_LIST_HEAD
<1> HIDE DEF k
<1>3. ASSUME NEW h \in H PROVE Represents(k, h, w[h])
  <2>1. /\ w[h] \in Seq(Node) /\ h \in Node /\ ToSet(w[h]) \subseteq Node
        /\ x \notin ToSet(w[h]) \cup {h}
    BY <1>1, ListsNodes DEF LooseOf, Kinds
  <2>2. Represents(l, h, w[h])
    BY DEF ListsOf
  <2>3. \A y \in ToSet(w[h]) \cup {h} : k.next[y] = l.next[y] /\ k.prev[y] = l.prev[y]
    BY <1>2, <2>1
  <2> QED BY <1>1, <1>2, <2>1, <2>2, <2>3, Apart
<1> QED
  BY <1>2, <1>3 DEF ListsOf, k

\* A loose element linked between two neighbours of one list: what becomes of
\* the others.
LEMMA ListsLink ==
    ASSUME NEW H, NEW E, Kinds(H, E),
           NEW l, NEW w, ListsOf(H, E, l, w), NEW x, LooseOf(H, E, w, x), NEW h \in H,
           NEW p \in ToSet(w[h]) \cup {h}, NEW q \in ToSet(w[h]) \cup {h},
           NEW s \in Seq(E), Represents(ListAddBetween(l, x, p, q), h, s),
           ToSet(s) = ToSet(w[h]) \cup {x}
    PROVE  ListsOf(H, E, ListAddBetween(l, x, p, q), [w EXCEPT ![h] = s])
<1> DEFINE k == ListAddBetween(l, x, p, q)
           v == [w EXCEPT ![h] = s]
<1>1. /\ l \in Links /\ x \in Node /\ x \in E /\ w \in [H -> Seq(E)]
      /\ p \in Node /\ q \in Node
  <2>1. ToSet(w[h]) \subseteq E /\ h \in Node
    BY ListsNodes
  <2> QED BY <2>1 DEF ListsOf, LooseOf, Kinds
<1>2. /\ k \in Links
      /\ \A y \in Node :
            /\ k.next[y] = IF y = p THEN x ELSE IF y = x THEN q ELSE l.next[y]
            /\ k.prev[y] = IF y = x THEN p ELSE IF y = q THEN x ELSE l.prev[y]
  BY <1>1, AddBetween
<1> HIDE DEF k
<1>3. v \in [H -> Seq(E)] /\ v[h] = s /\ \A g \in H : g # h => v[g] = w[g]
  BY <1>1
<1> HIDE DEF v
<1>4. ASSUME NEW g \in H PROVE Represents(k, g, v[g])
  <2>1. CASE g = h
    BY <1>3, <2>1 DEF k
  <2>2. CASE g # h
    <3>1. /\ w[g] \in Seq(Node) /\ g \in Node /\ ToSet(w[g]) \subseteq Node
          /\ x \notin ToSet(w[g]) \cup {g}
      BY <1>1, ListsNodes DEF LooseOf, Kinds
    <3>2. p \notin ToSet(w[g]) \cup {g} /\ q \notin ToSet(w[g]) \cup {g}
      BY <2>2, ListsApart
    <3>3. Represents(l, g, w[g])
      BY DEF ListsOf
    <3>4. \A y \in ToSet(w[g]) \cup {g} : k.next[y] = l.next[y] /\ k.prev[y] = l.prev[y]
      BY <1>2, <3>1, <3>2
    <3> QED BY <1>1, <1>2, <1>3, <2>2, <3>1, <3>3, <3>4, Apart
  <2> QED BY <2>1, <2>2
<1>5. ASSUME NEW g \in H, NEW f \in H, g # f PROVE ToSet(v[g]) \cap ToSet(v[f]) = {}
  <2>1. ToSet(w[g]) \cap ToSet(w[f]) = {} /\ x \notin ToSet(w[g]) /\ x \notin ToSet(w[f])
    BY <1>5 DEF ListsOf, LooseOf
  <2>2. /\ ToSet(v[g]) = ToSet(w[g]) \cup (IF g = h THEN {x} ELSE {})
        /\ ToSet(v[f]) = ToSet(w[f]) \cup (IF f = h THEN {x} ELSE {})
    BY <1>3
  <2> QED BY <1>5, <2>1, <2>2
<1> QED
  BY <1>2, <1>3, <1>4, <1>5 DEF ListsOf, k, v

\* list_add_tail and list_add, of a loose element.
LEMMA ListsAdd ==
    ASSUME NEW H, NEW E, Kinds(H, E),
           NEW l, NEW w, ListsOf(H, E, l, w), NEW x, LooseOf(H, E, w, x), NEW h \in H
    PROVE  /\ ListsOf(H, E, list_add_tail(l, x, h), [w EXCEPT ![h] = Append(@, x)])
           /\ ListsOf(H, E, list_add(l, x, h), [w EXCEPT ![h] = <<x>> \o @])
<1> DEFINE s == w[h]
<1>1. /\ l \in Links /\ x \in Node /\ x \in E /\ w \in [H -> Seq(E)]
      /\ s \in Seq(Node) /\ s \in Seq(E) /\ h \in Node
      /\ Represents(l, h, s) /\ x # h /\ x \notin ToSet(s) /\ IsInjective(s)
  <2>1. s \in Seq(Node) /\ h \in Node /\ IsInjective(s)
    BY ListsNodes
  <2> QED BY <2>1 DEF ListsOf, LooseOf, Kinds
<1>2. l.next[h] \in ToSet(s) \cup {h} /\ l.prev[h] \in ToSet(s) \cup {h}
  BY <1>1, Neighbours
<1>3. ListsOf(H, E, list_add_tail(l, x, h), [w EXCEPT ![h] = Append(s, x)])
  <2>1. /\ Append(s, x) \in Seq(E) /\ ToSet(Append(s, x)) = ToSet(s) \cup {x}
        /\ Represents(list_add_tail(l, x, h), h, Append(s, x))
    BY <1>1, InsertThreadPlaces, AddTail
  <2> HIDE DEF s
  <2> QED BY <1>2, <2>1, ListsLink DEF list_add_tail, s
<1>4. ListsOf(H, E, list_add(l, x, h), [w EXCEPT ![h] = <<x>> \o s])
  <2>1. /\ <<x>> \o s \in Seq(E) /\ ToSet(<<x>> \o s) = ToSet(s) \cup {x}
        /\ Represents(list_add(l, x, h), h, <<x>> \o s)
    BY <1>1, PushPlaces, AddHead
  <2> HIDE DEF s
  <2> QED BY <1>2, <2>1, ListsLink DEF list_add, s
<1> QED
  BY <1>3, <1>4

\* What a walk from a head meets.
LEMMA ListsWalked ==
    ASSUME NEW H, NEW E, Kinds(H, E),
           NEW l, NEW w, ListsOf(H, E, l, w), NEW h \in H
    PROVE  Walk(l, h) = w[h] /\ Returns(l, h)
  BY ListsNodes, WalkMeetsAll DEF ListsOf

\* Each walk comes to its end, over elements in the right order in both
\* directions, and no two of them meet the same.
SoundOf(H, E, l) ==
    LET walk == [h \in H |-> Walk(l, h)]
    IN /\ \A h \in H : Returns(l, h) /\ Represents(l, h, walk[h])
       /\ \A h \in H : ToSet(walk[h]) \subseteq E
       /\ \A h, k \in H : h # k => ToSet(walk[h]) \cap ToSet(walk[k]) = {}

\* The lists are those that are walked.
LEMMA ListsSound ==
    ASSUME NEW H, NEW E, Kinds(H, E),
           NEW l \in Links PROVE SoundOf(H, E, l) <=> \E w : ListsOf(H, E, l, w)
<1> DEFINE walk == [h \in H |-> Walk(l, h)]
<1>1. ASSUME NEW w, ListsOf(H, E, l, w) PROVE SoundOf(H, E, l)
  <2>1. \A h \in H : walk[h] = w[h] /\ Returns(l, h)
    BY <1>1, ListsWalked
  <2>2. \A h \in H : Represents(l, h, w[h]) /\ ToSet(w[h]) \subseteq E
    BY <1>1, ListsNodes DEF ListsOf
  <2>3. \A h, k \in H : h # k => ToSet(w[h]) \cap ToSet(w[k]) = {}
    BY <1>1 DEF ListsOf
  <2> HIDE DEF walk
  <2>4. /\ \A h \in H : Returns(l, h) /\ Represents(l, h, walk[h])
        /\ \A h \in H : ToSet(walk[h]) \subseteq E
        /\ \A h, k \in H : h # k => ToSet(walk[h]) \cap ToSet(walk[k]) = {}
    BY <2>1, <2>2, <2>3
  <2> QED BY <2>4 DEF SoundOf, walk
<1>2. ASSUME SoundOf(H, E, l) PROVE \E w : ListsOf(H, E, l, w)
  <2>1. /\ \A h \in H : Represents(l, h, walk[h])
        /\ \A h \in H : ToSet(walk[h]) \subseteq E
        /\ \A h, k \in H : h # k => ToSet(walk[h]) \cap ToSet(walk[k]) = {}
    BY <1>2 DEF SoundOf
  <2>2. ASSUME NEW h \in H PROVE walk[h] \in Seq(E)
    <3> DEFINE r == Trail(l, h)
    <3>1. r \in Seq(Node) /\ Len(r) \in Nat \ {0}
      BY TrailPath, NodeAssumption, FS_CardinalityType DEF Kinds
    <3>2. Walk(l, h) = SubSeq(r, 1, Len(r) - 1)
      BY DEF Walk, Front
    <3> HIDE DEF r
    <3>3. \A i \in 1 .. Len(r) - 1 : r[i] \in Node
      BY <3>1, ElementOfSeq
    <3>4. walk[h] \in Seq(Node)
      BY <3>1, <3>2, <3>3, SubSeqProperties
    <3> HIDE DEF walk
    <3>5. Len(walk[h]) \in Nat /\ DOMAIN walk[h] = 1 .. Len(walk[h])
          /\ walk[h] \in [1 .. Len(walk[h]) -> Node]
      BY <3>4, LenProperties
    <3>6. \A i \in 1 .. Len(walk[h]) : walk[h][i] \in ToSet(walk[h])
      BY <3>5 DEF ToSet
    <3>7. walk[h] \in [1 .. Len(walk[h]) -> E]
      BY <2>1, <3>5, <3>6
    <3> QED BY <3>5, <3>7, SeqDef
  <2>3. walk \in [H -> Seq(E)]
    BY <2>2
  <2> HIDE DEF walk
  <2>4. ListsOf(H, E, l, walk)
    BY <2>1, <2>3 DEF ListsOf
  <2> QED BY <2>4
<1> QED
  BY <1>1, <1>2

\* The first element of a list, by its head.
LEMMA ListsFirst ==
    ASSUME NEW H, NEW E, Kinds(H, E),
           NEW l, NEW w, ListsOf(H, E, l, w), NEW h \in H
    PROVE  /\ list_empty(l, h) <=> w[h] = <<>>
           /\ w[h] # <<>> => /\ l.next[h] = Head(w[h]) /\ l.next[h] = w[h][1]
                             /\ 1 \in 1 .. Len(w[h]) /\ l.next[h] \in E
<1>1. /\ w[h] \in Seq(Node) /\ ToSet(w[h]) \subseteq E /\ h \notin ToSet(w[h])
      /\ Len(w[h]) \in Nat /\ \A i \in 1 .. Len(w[h]) : w[h][i] \in ToSet(w[h])
  BY ListsNodes
<1>2. l.next[Position(h, w[h], 0)] = Position(h, w[h], 0 + 1)
  <2>1. 0 \in 0 .. Len(w[h])
    BY <1>1
  <2> QED BY <2>1 DEF ListsOf, Represents
<1>3. l.next[h] = Position(h, w[h], 1)
  <2>1. 0 \notin 1 .. Len(w[h]) /\ 0 + 1 = 1
    BY <1>1
  <2> QED BY <1>2, <2>1 DEF Position
<1>4. CASE w[h] = <<>>
  <2>1. 1 \notin 1 .. Len(w[h])
    BY <1>4
  <2> QED BY <1>3, <1>4, <2>1 DEF Position, list_empty
<1>5. CASE w[h] # <<>>
  <2>1. 1 \in 1 .. Len(w[h]) /\ Head(w[h]) = w[h][1]
    BY <1>1, <1>5, FirstOut
  <2>2. l.next[h] = w[h][1]
    BY <1>3, <2>1 DEF Position
  <2> QED BY <1>1, <1>5, <2>1, <2>2 DEF list_empty
<1> QED
  BY <1>4, <1>5

=============================================================================
