----------------------------- MODULE SeqProofs -----------------------------
(***************************************************************************)
(* What the modules of proofs share about sequences: queues of threads,    *)
(* inboxes, lists of siblings.                                             *)
(***************************************************************************)
EXTENDS Integers, FiniteSets, SequencesExt, SequenceTheorems, FiniteSetTheorems, TLAPS

\* RemoveAt closes the gap at position i.
LEMMA RemoveAtProperties ==
    ASSUME NEW S, NEW s \in Seq(S), NEW i \in 1 .. Len(s)
    PROVE  /\ RemoveAt(s, i) \in Seq(S)
           /\ Len(RemoveAt(s, i)) = Len(s) - 1
           /\ \A j \in 1 .. Len(s) - 1 :
                 RemoveAt(s, i)[j] = IF j < i THEN s[j] ELSE s[j + 1]
<1> DEFINE u == SubSeq(s, 1, i - 1)
           v == SubSeq(s, i + 1, Len(s))
<1>1. Len(s) \in Nat /\ i \in Nat /\ \A j \in 1 .. Len(s) : s[j] \in S
  BY LenProperties, ElementOfSeq
<1>2. /\ u \in Seq(S) /\ Len(u) = i - 1
      /\ \A j \in 1 .. i - 1 : u[j] = s[j]
  <2>1. \A j \in 1 .. i - 1 : s[j] \in S
    BY <1>1
  <2>2. /\ u \in Seq(S)
        /\ Len(u) = IF 1 <= i - 1 THEN i - 1 - 1 + 1 ELSE 0
        /\ \A j \in 1 .. (i - 1) - 1 + 1 : u[j] = s[1 + j - 1]
    BY <1>1, <2>1, SubSeqProperties
  <2> HIDE DEF u
  <2> QED BY <1>1, <2>2
<1>3. /\ v \in Seq(S) /\ Len(v) = Len(s) - i
      /\ \A j \in 1 .. Len(s) - i : v[j] = s[i + j]
  <2>1. \A j \in i + 1 .. Len(s) : s[j] \in S
    BY <1>1
  <2>2. /\ v \in Seq(S)
        /\ Len(v) = IF i + 1 <= Len(s) THEN Len(s) - (i + 1) + 1 ELSE 0
        /\ \A j \in 1 .. Len(s) - (i + 1) + 1 : v[j] = s[i + 1 + j - 1]
    BY <1>1, <2>1, SubSeqProperties
  <2> HIDE DEF v
  <2> QED BY <1>1, <2>2
<1>4. /\ u \o v \in Seq(S)
      /\ Len(u \o v) = Len(u) + Len(v)
      /\ \A j \in 1 .. Len(u) + Len(v) :
            (u \o v)[j] = IF j <= Len(u) THEN u[j] ELSE v[j - Len(u)]
  BY <1>2, <1>3, ConcatProperties
<1>5. RemoveAt(s, i) = u \o v
  BY DEF RemoveAt
<1> HIDE DEF u, v
<1>6. Len(u) + Len(v) = Len(s) - 1
  BY <1>1, <1>2, <1>3
<1>7. ASSUME NEW j \in 1 .. Len(s) - 1
      PROVE  (u \o v)[j] = IF j < i THEN s[j] ELSE s[j + 1]
  <2>1. (u \o v)[j] = IF j <= Len(u) THEN u[j] ELSE v[j - Len(u)]
    BY <1>4, <1>6
  <2>2. CASE j < i
    <3>1. j <= Len(u) /\ j \in 1 .. i - 1
      BY <1>1, <1>2, <2>2
    <3> QED BY <1>2, <2>1, <2>2, <3>1
  <2>3. CASE ~(j < i)
    <3>1. ~(j <= Len(u)) /\ j - Len(u) \in 1 .. Len(s) - i /\ i + (j - Len(u)) = j + 1
      BY <1>1, <1>2, <2>3
    <3> QED BY <1>3, <2>1, <2>3, <3>1
  <2> QED BY <2>2, <2>3
<1> QED
  BY <1>4, <1>5, <1>6, <1>7

-----------------------------------------------------------------------------
\* The library's induction takes an operator; the order of inclusion on a
\* finite set is well founded without it.
LEMMA LeastPosition ==
    ASSUME NEW n \in Nat, NEW I, I \subseteq 1 .. n, I # {}
    PROVE  \E m \in I : \A j \in I : m <= j
<1> DEFINE T == {1 .. m : m \in I}
           R == StrictSubsetOrdering(1 .. n)
<1>1. IsWellFoundedOn(R, SUBSET (1 .. n))
  <2>1. FiniteSubsetsOf(1 .. n) = SUBSET (1 .. n)
    <3>1. IsFiniteSet(1 .. n)
      BY FS_Interval
    <3> HIDE DEF T, R
    <3> QED BY <3>1, FS_FiniteSubsetsOfFinite, Zenon
  <2> QED BY <2>1, FS_StrictSubsetOrderingWellFounded
<1>2. \A m \in I : m \in Nat /\ 1 .. m \subseteq 1 .. n
  OBVIOUS
<1>3. T \subseteq SUBSET (1 .. n)
  BY <1>2
<1>4. T # {}
  <2>1. PICK m : m \in I
    OBVIOUS
  <2>2. 1 .. m \in T
    BY <2>1
  <2> QED BY <2>2
<1>5. \E x \in T : \A y \in T : <<y, x>> \notin R
  <2> HIDE DEF T, R
  <2> QED BY <1>1, <1>3, <1>4, WFMin
<1>6. PICK m \in I : \A j \in I : <<1 .. j, 1 .. m>> \notin R
  BY <1>5
<1>7. ASSUME NEW j \in I, j < m PROVE FALSE
  <2>1. 1 .. j \subseteq 1 .. m /\ m \in 1 .. m /\ m \notin 1 .. j
    BY <1>2, <1>7
  <2>2. <<1 .. j, 1 .. m>> \in R
    BY <2>1, <1>2 DEF StrictSubsetOrdering
  <2> QED BY <2>2, <1>6
<1> QED
  BY <1>2, <1>7

-----------------------------------------------------------------------------
\* RemoveFirst removes one position of e, if there is one.
LEMMA RemoveFirstPosition ==
    ASSUME NEW S, NEW s \in Seq(S), NEW e
    PROVE  \/ RemoveFirst(s, e) = s /\ \A i \in 1 .. Len(s) : s[i] # e
           \/ \E i \in 1 .. Len(s) : s[i] = e /\ RemoveFirst(s, e) = RemoveAt(s, i)
<1> DEFINE I == {i \in 1 .. Len(s) : s[i] = e}
<1>1. CASE I = {}
  BY <1>1 DEF RemoveFirst
<1>2. CASE I # {}
  <2>1. PICK m \in I : \A j \in I : m <= j
    BY <1>2, LenProperties, LeastPosition
  <2>2. Min(I) \in I
    BY <2>1 DEF Min
  <2>3. SelectInSeq(s, LAMBDA w : w = e) = Min(I)
    BY <1>2 DEF SelectInSeq
  <2>4. RemoveFirst(s, e) = RemoveAt(s, Min(I))
    BY <1>2, <2>3 DEF RemoveFirst
  <2> QED BY <2>2, <2>4
<1> QED
  BY <1>1, <1>2

-----------------------------------------------------------------------------
\* A queue out of which a thread is taken is a queue.
LEMMA OutThreadType ==
    ASSUME NEW S, NEW s \in Seq(S), NEW e
    PROVE  RemoveFirst(s, e) \in Seq(S)
  BY RemoveFirstPosition, RemoveAtProperties

\* Taking e out of a queue without repetitions leaves the other threads, each
\* once.
LEMMA OutThreadPlaces ==
    ASSUME NEW S, NEW s \in Seq(S), NEW e, IsInjective(s)
    PROVE  /\ IsInjective(RemoveFirst(s, e))
           /\ ToSet(RemoveFirst(s, e)) = ToSet(s) \ {e}
<1>1. Len(s) \in Nat /\ DOMAIN s = 1 .. Len(s)
  BY LenProperties
<1>2. CASE RemoveFirst(s, e) = s /\ \A i \in 1 .. Len(s) : s[i] # e
  BY <1>1, <1>2 DEF ToSet
<1>3. ASSUME NEW i \in 1 .. Len(s), s[i] = e, RemoveFirst(s, e) = RemoveAt(s, i)
      PROVE  /\ IsInjective(RemoveFirst(s, e))
             /\ ToSet(RemoveFirst(s, e)) = ToSet(s) \ {e}
  <2> DEFINE r == RemoveAt(s, i)
  <2>1. /\ r \in Seq(S) /\ Len(r) = Len(s) - 1
        /\ \A j \in 1 .. Len(s) - 1 : r[j] = IF j < i THEN s[j] ELSE s[j + 1]
    BY RemoveAtProperties
  <2>2. DOMAIN r = 1 .. Len(s) - 1
    BY <2>1, LenProperties
  <2> HIDE DEF r
  <2>3. \A j, k \in 1 .. Len(s) : s[j] = s[k] => j = k
    BY <1>1 DEF IsInjective
  <2>4. IsInjective(r)
    <3> SUFFICES ASSUME NEW j \in 1 .. Len(s) - 1, NEW k \in 1 .. Len(s) - 1,
                        r[j] = r[k]
                 PROVE  j = k
      BY <2>2 DEF IsInjective
    <3> QED BY <1>1, <2>1, <2>3
  <2>5. ToSet(r) \subseteq ToSet(s) \ {e}
    <3> SUFFICES ASSUME NEW j \in 1 .. Len(s) - 1
                 PROVE  r[j] # e /\ \E k \in 1 .. Len(s) : r[j] = s[k]
      BY <1>1, <2>2 DEF ToSet
    <3> QED BY <1>1, <1>3, <2>1, <2>3
  <2>6. ToSet(s) \ {e} \subseteq ToSet(r)
    <3> SUFFICES ASSUME NEW k \in 1 .. Len(s), s[k] # e
                 PROVE  \E j \in 1 .. Len(s) - 1 : r[j] = s[k]
      BY <1>1, <2>2 DEF ToSet
    <3>1. CASE k < i
      BY <1>1, <2>1, <3>1
    <3>2. CASE k > i
      <4>1. k - 1 \in 1 .. Len(s) - 1 /\ ~ (k - 1 < i) /\ (k - 1) + 1 = k
        BY <1>1, <3>2
      <4> QED BY <2>1, <4>1
    <3> QED BY <1>1, <1>3, <3>1, <3>2
  <2>7. RemoveFirst(s, e) = r
    BY <1>3 DEF r
  <2> QED BY <2>4, <2>5, <2>6, <2>7
<1> QED
  BY <1>2, <1>3, RemoveFirstPosition

\* A thread that is not in a queue can be added at its end.
LEMMA InsertThreadPlaces ==
    ASSUME NEW S, NEW s \in Seq(S), NEW e \in S, IsInjective(s), e \notin ToSet(s)
    PROVE  /\ Append(s, e) \in Seq(S)
           /\ IsInjective(Append(s, e))
           /\ ToSet(Append(s, e)) = ToSet(s) \cup {e}
<1> DEFINE r == Append(s, e)
<1>1. Len(s) \in Nat /\ DOMAIN s = 1 .. Len(s)
  BY LenProperties
<1>2. /\ r \in Seq(S) /\ Len(r) = Len(s) + 1
      /\ \A j \in 1 .. Len(s) : r[j] = s[j]
      /\ r[Len(s) + 1] = e
  BY AppendProperties
<1>3. DOMAIN r = 1 .. Len(s) + 1
  BY <1>2, LenProperties
<1> HIDE DEF r
<1>4. \A j \in 1 .. Len(s) : s[j] # e
  BY <1>1 DEF ToSet
<1>5. IsInjective(r)
  <2> SUFFICES ASSUME NEW j \in 1 .. Len(s) + 1, NEW k \in 1 .. Len(s) + 1,
                      r[j] = r[k]
               PROVE  j = k
    BY <1>3 DEF IsInjective
  <2>1. \A m, n \in 1 .. Len(s) : s[m] = s[n] => m = n
    BY <1>1 DEF IsInjective
  <2> QED BY <1>1, <1>2, <1>4, <2>1
<1>6. ToSet(r) = ToSet(s) \cup {e}
  <2>1. \A j \in 1 .. Len(s) + 1 : j = Len(s) + 1 \/ j \in 1 .. Len(s)
    BY <1>1
  <2>2. \A j \in 1 .. Len(s) : j \in 1 .. Len(s) + 1
    BY <1>1
  <2>3. Len(s) + 1 \in 1 .. Len(s) + 1
    BY <1>1
  <2>4. \A x : x \in ToSet(r) => x \in ToSet(s) \cup {e}
    BY <1>1, <1>2, <1>3, <2>1 DEF ToSet
  <2>5. \A x : x \in ToSet(s) \cup {e} => x \in ToSet(r)
    BY <1>1, <1>2, <1>3, <2>2, <2>3 DEF ToSet
  <2> QED BY <2>4, <2>5
<1> QED
  BY <1>2, <1>5, <1>6 DEF r

\* The head of a queue without repetitions is not in its tail.
LEMMA HeadTailPlaces ==
    ASSUME NEW S, NEW s \in Seq(S), IsInjective(s), s # <<>>
    PROVE  /\ Head(s) \in S /\ Tail(s) \in Seq(S)
           /\ Head(s) \in ToSet(s)
           /\ IsInjective(Tail(s))
           /\ ToSet(Tail(s)) = ToSet(s) \ {Head(s)}
<1> DEFINE r == Tail(s)
<1>1. /\ Len(s) \in Nat /\ DOMAIN s = 1 .. Len(s)
      /\ Len(s) > 0 /\ Head(s) = s[1]
  BY LenProperties, EmptySeq
<1>2. /\ Head(s) \in S /\ r \in Seq(S) /\ Len(r) = Len(s) - 1
      /\ \A i \in 1 .. Len(s) - 1 : r[i] = s[i + 1]
  BY HeadTailProperties
<1>3. DOMAIN r = 1 .. Len(s) - 1
  BY <1>2, LenProperties
<1> HIDE DEF r
<1>4. \A j, k \in 1 .. Len(s) : s[j] = s[k] => j = k
  BY <1>1 DEF IsInjective
<1>5. IsInjective(r)
  <2> SUFFICES ASSUME NEW j \in 1 .. Len(s) - 1, NEW k \in 1 .. Len(s) - 1,
                      r[j] = r[k]
               PROVE  j = k
    BY <1>3 DEF IsInjective
  <2> QED BY <1>1, <1>2, <1>4
<1>6. ToSet(r) \subseteq ToSet(s) \ {Head(s)}
  <2> SUFFICES ASSUME NEW j \in 1 .. Len(s) - 1
               PROVE  r[j] # s[1] /\ \E k \in 1 .. Len(s) : r[j] = s[k]
    BY <1>1, <1>3 DEF ToSet
  <2>1. j + 1 \in 1 .. Len(s) /\ j + 1 # 1 /\ 1 \in 1 .. Len(s)
    BY <1>1
  <2> QED BY <1>2, <1>4, <2>1
<1>7. ToSet(s) \ {Head(s)} \subseteq ToSet(r)
  <2> SUFFICES ASSUME NEW k \in 1 .. Len(s), s[k] # s[1]
               PROVE  \E j \in 1 .. Len(s) - 1 : r[j] = s[k]
    BY <1>1, <1>3 DEF ToSet
  <2>1. k - 1 \in 1 .. Len(s) - 1 /\ (k - 1) + 1 = k
    BY <1>1
  <2> QED BY <1>2, <2>1
<1>8. Head(s) \in ToSet(s)
  <2>1. 1 \in 1 .. Len(s)
    BY <1>1
  <2> QED BY <1>1, <2>1 DEF ToSet
<1> QED
  BY <1>2, <1>5, <1>6, <1>7, <1>8 DEF r

\* A thread that is not in a list can be added at its head.
LEMMA PushPlaces ==
    ASSUME NEW S, NEW s \in Seq(S), NEW e \in S, IsInjective(s), e \notin ToSet(s)
    PROVE  /\ <<e>> \o s \in Seq(S)
           /\ IsInjective(<<e>> \o s)
           /\ ToSet(<<e>> \o s) = ToSet(s) \cup {e}
<1> DEFINE r == <<e>> \o s
<1>1. Len(s) \in Nat /\ DOMAIN s = 1 .. Len(s)
  BY LenProperties
<1>2. <<e>> \in Seq(S) /\ Len(<<e>>) = 1 /\ <<e>>[1] = e
  OBVIOUS
<1>3. /\ r \in Seq(S) /\ Len(r) = 1 + Len(s)
      /\ \A j \in 1 .. 1 + Len(s) : r[j] = IF j <= 1 THEN <<e>>[j] ELSE s[j - 1]
  BY <1>2, ConcatProperties
<1>4. DOMAIN r = 1 .. 1 + Len(s)
  BY <1>3, LenProperties
<1> HIDE DEF r
<1>5. r[1] = e /\ \A j \in 1 .. Len(s) : r[j + 1] = s[j]
  BY <1>1, <1>2, <1>3
<1>6. \A j \in 1 .. Len(s) : s[j] # e
  BY <1>1 DEF ToSet
<1>7. \A j \in 1 .. 1 + Len(s) : j = 1 \/ (j - 1 \in 1 .. Len(s) /\ j = (j - 1) + 1)
  BY <1>1
<1>8. IsInjective(r)
  <2> SUFFICES ASSUME NEW j \in 1 .. 1 + Len(s), NEW k \in 1 .. 1 + Len(s),
                      r[j] = r[k]
               PROVE  j = k
    BY <1>4 DEF IsInjective
  <2>1. \A m, n \in 1 .. Len(s) : s[m] = s[n] => m = n
    BY <1>1 DEF IsInjective
  <2>2. CASE j = 1 \/ k = 1
    <3>1. \A m \in 1 .. 1 + Len(s) : m # 1 => r[m] # e
      <4> SUFFICES ASSUME NEW m \in 1 .. 1 + Len(s), m # 1
                   PROVE  r[m] # e
        OBVIOUS
      <4>1. m - 1 \in 1 .. Len(s) /\ r[(m - 1) + 1] = s[m - 1] /\ m = (m - 1) + 1
        BY <1>5, <1>7
      <4> QED BY <1>6, <4>1
    <3> QED BY <1>5, <2>2, <3>1
  <2>3. CASE j # 1 /\ k # 1
    <3>1. /\ j - 1 \in 1 .. Len(s) /\ r[j] = s[j - 1]
          /\ k - 1 \in 1 .. Len(s) /\ r[k] = s[k - 1]
      BY <1>3, <1>7, <2>3
    <3>2. j - 1 = k - 1
      BY <2>1, <3>1
    <3> QED BY <1>1, <3>2
  <2> QED BY <2>2, <2>3
<1>9. ToSet(r) = ToSet(s) \cup {e}
  <2>1. \A j \in 1 .. Len(s) : j + 1 \in 1 .. 1 + Len(s)
    BY <1>1
  <2>2. 1 \in 1 .. 1 + Len(s)
    BY <1>1
  <2>3. \A x : x \in ToSet(r) => x \in ToSet(s) \cup {e}
    <3> SUFFICES ASSUME NEW j \in 1 .. 1 + Len(s)
                 PROVE  r[j] = e \/ \E k \in 1 .. Len(s) : r[j] = s[k]
      BY <1>1, <1>4 DEF ToSet
    <3>1. CASE j = 1
      BY <1>5, <3>1
    <3>2. CASE j # 1
      <4>1. j - 1 \in 1 .. Len(s) /\ r[j] = s[j - 1]
        BY <1>3, <1>7, <3>2
      <4> QED BY <4>1
    <3> QED BY <3>1, <3>2
  <2>4. \A x : x \in ToSet(s) \cup {e} => x \in ToSet(r)
    BY <1>1, <1>4, <1>5, <2>1, <2>2 DEF ToSet
  <2> QED BY <2>3, <2>4
<1> QED
  BY <1>3, <1>8, <1>9 DEF r

-----------------------------------------------------------------------------
(* The same of any sequence, with repetitions or not.                      *)

\* Append adds one element.
LEMMA ToSetAppend ==
    ASSUME NEW S, NEW s \in Seq(S), NEW e \in S
    PROVE  ToSet(Append(s, e)) = ToSet(s) \cup {e}
<1> DEFINE r == Append(s, e)
<1>1. Len(s) \in Nat /\ DOMAIN s = 1 .. Len(s)
  BY LenProperties
<1>2. /\ r \in Seq(S) /\ Len(r) = Len(s) + 1
      /\ \A j \in 1 .. Len(s) : r[j] = s[j]
      /\ r[Len(s) + 1] = e
  BY AppendProperties
<1>3. DOMAIN r = 1 .. Len(s) + 1
  BY <1>2, LenProperties
<1> HIDE DEF r
<1>4. \A j \in 1 .. Len(s) + 1 : j = Len(s) + 1 \/ j \in 1 .. Len(s)
  BY <1>1
<1>5. (\A j \in 1 .. Len(s) : j \in 1 .. Len(s) + 1) /\ Len(s) + 1 \in 1 .. Len(s) + 1
  BY <1>1
<1>6. ToSet(r) \subseteq ToSet(s) \cup {e}
  BY <1>1, <1>2, <1>3, <1>4 DEF ToSet
<1>7. ToSet(s) \cup {e} \subseteq ToSet(r)
  BY <1>1, <1>2, <1>3, <1>5 DEF ToSet
<1> QED
  BY <1>6, <1>7 DEF r

\* RemoveAt adds none.
LEMMA ToSetRemoveAt ==
    ASSUME NEW S, NEW s \in Seq(S), NEW i \in 1 .. Len(s)
    PROVE  ToSet(RemoveAt(s, i)) \subseteq ToSet(s)
<1> DEFINE r == RemoveAt(s, i)
<1>1. /\ r \in Seq(S) /\ Len(r) = Len(s) - 1
      /\ \A j \in 1 .. Len(s) - 1 : r[j] = IF j < i THEN s[j] ELSE s[j + 1]
  BY RemoveAtProperties
<1>2. DOMAIN r = 1 .. Len(s) - 1 /\ DOMAIN s = 1 .. Len(s) /\ Len(s) \in Nat
  BY <1>1, LenProperties
<1> HIDE DEF r
<1>3. ASSUME NEW j \in 1 .. Len(s) - 1 PROVE \E k \in 1 .. Len(s) : r[j] = s[k]
  <2>1. j \in 1 .. Len(s) /\ j + 1 \in 1 .. Len(s)
    BY <1>2
  <2> QED BY <1>1, <2>1
<1> QED
  BY <1>2, <1>3 DEF ToSet, r

\* Taking a thread out of a queue shortens it by one, if the thread is in it.
LEMMA OutThreadLength ==
    ASSUME NEW S, NEW s \in Seq(S), NEW e
    PROVE  /\ e \in ToSet(s) => Len(RemoveFirst(s, e)) = Len(s) - 1
           /\ e \notin ToSet(s) => RemoveFirst(s, e) = s
<1>1. DOMAIN s = 1 .. Len(s)
  BY LenProperties
<1>2. e \in ToSet(s) <=> \E i \in 1 .. Len(s) : s[i] = e
  BY <1>1 DEF ToSet
<1>3. \A i \in 1 .. Len(s) : Len(RemoveAt(s, i)) = Len(s) - 1
  BY RemoveAtProperties
<1> QED
  BY <1>2, <1>3, RemoveFirstPosition

\* The positions of a sequence that hold an element of M.
Positions(s, M) == {i \in 1 .. Len(s) : s[i] \in M}

\* They can be counted.
LEMMA PositionsFinite ==
    ASSUME NEW S, NEW s \in Seq(S), NEW M
    PROVE  IsFiniteSet(Positions(s, M)) /\ Cardinality(Positions(s, M)) \in Nat
<1>1. Len(s) \in Nat /\ 1 \in Int /\ Len(s) \in Int
  BY LenProperties
<1>2. IsFiniteSet(1 .. Len(s))
  BY <1>1, FS_Interval
<1>3. Positions(s, M) \subseteq 1 .. Len(s)
  BY DEF Positions
<1> QED
  BY <1>2, <1>3, FS_Subset, FS_CardinalityType

\* One more, if the element appended is one.
LEMMA PositionsAppend ==
    ASSUME NEW S, NEW s \in Seq(S), NEW e \in S, NEW M
    PROVE  Cardinality(Positions(Append(s, e), M))
              = Cardinality(Positions(s, M)) + (IF e \in M THEN 1 ELSE 0)
<1> DEFINE r == Append(s, e)
           n == Len(s)
<1>1. /\ n \in Nat /\ Len(r) = n + 1 /\ r[n + 1] = e
      /\ \A i \in 1 .. n : r[i] = s[i]
  BY LenProperties, AppendProperties
<1> HIDE DEF r
<1>2. n + 1 \notin Positions(s, M)
  BY <1>1 DEF Positions
<1>3. CASE e \in M
  <2>1. Positions(r, M) = Positions(s, M) \cup {n + 1}
    BY <1>1, <1>3 DEF Positions
  <2>2. Cardinality(Positions(s, M) \cup {n + 1}) = Cardinality(Positions(s, M)) + 1
    BY <1>2, PositionsFinite, FS_AddElement
  <2> QED BY <1>3, <2>1, <2>2 DEF r
<1>4. CASE e \notin M
  <2>1. Positions(r, M) = Positions(s, M)
    BY <1>1, <1>4 DEF Positions
  <2> QED BY <1>4, <2>1, PositionsFinite DEF r
<1> QED
  BY <1>3, <1>4

\* One less, if the element taken out is one.
LEMMA PositionsRemoveAt ==
    ASSUME NEW S, NEW s \in Seq(S), NEW i \in 1 .. Len(s), NEW M
    PROVE  /\ Cardinality(Positions(RemoveAt(s, i), M))
                 = Cardinality(Positions(s, M)) - (IF s[i] \in M THEN 1 ELSE 0)
           /\ Cardinality(Positions(RemoveAt(s, i), M)) \in Nat
<1> DEFINE r == RemoveAt(s, i)
           n == Len(s)
           P == Positions(s, M) \ {i}
           Q == Positions(r, M)
           f == [j \in P |-> IF j < i THEN j ELSE j - 1]
<1>1. /\ n \in Nat /\ i \in 1 .. n /\ r \in Seq(S) /\ Len(r) = n - 1
      /\ \A j \in 1 .. n - 1 : r[j] = IF j < i THEN s[j] ELSE s[j + 1]
  BY LenProperties, RemoveAtProperties
<1> HIDE DEF r
<1>2. f \in Bijection(P, Q)
  <2>1. ASSUME NEW j \in P PROVE f[j] \in Q
    <3>1. j \in 1 .. n /\ j # i /\ s[j] \in M
      BY <2>1 DEF Positions
    <3>2. CASE j < i
      BY <1>1, <3>1, <3>2 DEF Positions
    <3>3. CASE i < j
      <4>1. j - 1 \in 1 .. n - 1 /\ ~(j - 1 < i) /\ (j - 1) + 1 = j
        BY <1>1, <3>1, <3>3
      <4> QED BY <1>1, <3>1, <3>3, <4>1 DEF Positions
    <3> QED BY <1>1, <3>1, <3>2, <3>3
  <2>2. \A j, k \in P : f[j] = f[k] => j = k
    BY <1>1 DEF Positions
  <2>3. ASSUME NEW q \in Q PROVE \E j \in P : f[j] = q
    <3>1. q \in 1 .. n - 1 /\ r[q] \in M
      BY <1>1, <2>3 DEF Positions
    <3>2. CASE q < i
      <4>1. q \in P
        BY <1>1, <3>1, <3>2 DEF Positions
      <4> QED BY <3>2, <4>1
    <3>3. CASE ~(q < i)
      <4>1. q + 1 \in P /\ ~(q + 1 < i) /\ (q + 1) - 1 = q
        BY <1>1, <3>1, <3>3 DEF Positions
      <4> QED BY <4>1
    <3> QED BY <3>2, <3>3
  <2>4. f \in [P -> Q]
    BY <2>1
  <2> QED BY <2>2, <2>3, <2>4 DEF Bijection, Injection, Surjection, IsInjective
<1>3. IsFiniteSet(P)
  BY PositionsFinite, FS_Subset
<1>4. Cardinality(Q) = Cardinality(P)
  <2>1. ExistsBijection(P, Q)
    BY <1>2 DEF ExistsBijection
  <2> HIDE DEF P, Q
  <2> QED BY <1>3, <2>1, FS_Bijection
<1>5. CASE s[i] \in M
  <2>1. i \in Positions(s, M)
    BY <1>1, <1>5 DEF Positions
  <2>2. Cardinality(P) = Cardinality(Positions(s, M)) - 1
    BY <2>1, PositionsFinite, FS_RemoveElement
  <2> QED BY <1>3, <1>4, <1>5, <2>2, FS_CardinalityType DEF r
<1>6. CASE s[i] \notin M
  <2>1. P = Positions(s, M)
    BY <1>6 DEF Positions
  <2>2. Cardinality(Q) = Cardinality(Positions(s, M)) /\ Cardinality(Q) \in Nat
    <3> HIDE DEF P, Q
    <3> QED BY <1>4, <2>1, PositionsFinite
  <2> QED BY <1>6, <2>2 DEF r
<1> QED
  BY <1>5, <1>6

\* Sequences: the first element, taken or put back.
LEMMA FirstOut ==
    ASSUME NEW S, NEW s \in Seq(S), s # <<>>
    PROVE  /\ 1 \in 1 .. Len(s) /\ Head(s) = s[1] /\ RemoveAt(s, 1) = Tail(s)
<1>1. Len(s) \in Nat \ {0}
  BY EmptySeq, LenProperties
<1>2. 1 \in 1 .. Len(s)
  BY <1>1
<1>3. /\ RemoveAt(s, 1) \in Seq(S) /\ Len(RemoveAt(s, 1)) = Len(s) - 1
      /\ \A j \in 1 .. Len(s) - 1 : RemoveAt(s, 1)[j] = s[j + 1]
  BY <1>2, RemoveAtProperties
<1>4. /\ Tail(s) \in Seq(S) /\ Len(Tail(s)) = Len(s) - 1
      /\ \A j \in 1 .. Len(s) - 1 : Tail(s)[j] = s[j + 1]
  BY HeadTailProperties
<1>5. RemoveAt(s, 1) = Tail(s)
  BY <1>3, <1>4, SeqEqual
<1> QED
  BY <1>2, <1>5

\* Likewise.
LEMMA FirstIn ==
    ASSUME NEW S, NEW s \in Seq(S), NEW x \in S
    PROVE  /\ Tail(<<x>> \o s) = s /\ Head(<<x>> \o s) = x /\ <<x>> \o s # <<>>
           /\ <<x>> \o s \in Seq(S)
<1> DEFINE y == <<x>>
<1>1. y \in Seq(S) /\ Len(y) = 1 /\ y[1] = x
  OBVIOUS
<1> HIDE DEF y
<1>2. Len(s) \in Nat
  BY LenProperties
<1>3. /\ y \o s \in Seq(S) /\ Len(y \o s) = Len(s) + 1
      /\ \A j \in 1 .. Len(s) + 1 : (y \o s)[j] = IF j <= 1 THEN y[j] ELSE s[j - 1]
  <2>1. /\ y \o s \in Seq(S) /\ Len(y \o s) = Len(y) + Len(s)
        /\ \A j \in 1 .. Len(y) + Len(s) :
              (y \o s)[j] = IF j <= Len(y) THEN y[j] ELSE s[j - Len(y)]
    BY <1>1, ConcatProperties
  <2>2. Len(y) + Len(s) = Len(s) + 1
    BY <1>1, <1>2
  <2> QED BY <1>1, <2>1, <2>2
<1>4. y \o s # <<>>
  BY <1>2, <1>3, EmptySeq
<1>5. Head(y \o s) = x
  <2>1. Head(y \o s) = (y \o s)[1]
    BY <1>3, <1>4, FirstOut
  <2>2. 1 \in 1 .. Len(s) + 1
    BY <1>2
  <2> QED BY <1>1, <1>3, <2>1, <2>2
<1>6. Tail(y \o s) = s
  <2>1. /\ Tail(y \o s) \in Seq(S) /\ Len(Tail(y \o s)) = Len(s)
        /\ \A j \in 1 .. Len(s) : Tail(y \o s)[j] = (y \o s)[j + 1]
    <3>1. /\ Tail(y \o s) \in Seq(S) /\ Len(Tail(y \o s)) = Len(y \o s) - 1
          /\ \A j \in 1 .. Len(Tail(y \o s)) : Tail(y \o s)[j] = (y \o s)[j + 1]
      BY <1>3, <1>4, HeadTailProperties
    <3>2. Len(y \o s) - 1 = Len(s)
      BY <1>2, <1>3
    <3> QED BY <3>1, <3>2
  <2>2. \A j \in 1 .. Len(s) : (y \o s)[j + 1] = s[j]
    <3> SUFFICES ASSUME NEW j \in 1 .. Len(s) PROVE (y \o s)[j + 1] = s[j]
      OBVIOUS
    <3>1. j + 1 \in 1 .. Len(s) + 1 /\ ~(j + 1 <= 1) /\ (j + 1) - 1 = j
      BY <1>2
    <3> QED BY <1>3, <3>1
  <2> QED BY <2>1, <2>2, SeqEqual
<1> QED
  BY <1>3, <1>4, <1>5, <1>6 DEF y

=============================================================================
