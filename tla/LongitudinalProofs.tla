---------------------------- MODULE LongitudinalProofs ----------------------------
(***************************************************************************)
(* Theorems about the longitudinal observer and its node, for any window,  *)
(* any history cap of at least two and any sequence of clock readings.     *)
(*                                                                         *)
(* The estimate is that of the source-time log because three facts hold    *)
(* together: the kept measurements are sorted, every posterior is the      *)
(* replay of its prefix, and nothing before the anchor is newer than what  *)
(* comes after it.  Trimming moves measurements from one side of the       *)
(* anchor to the other and so changes no estimate.                         *)
(***************************************************************************)
EXTENDS LongitudinalAcceleration, SequenceTheorems, FiniteSetTheorems, TLAPS

Points == [stamp : 0..MaxTime, log : Seq(Measurement)]

Sorted(list) == \A i, j \in 1..Len(list) : i <= j => list[i].stamp <= list[j].stamp

ObserverInv ==
  /\ measurements \in Seq(Measurement) /\ Len(measurements) <= Cap
  /\ checkpoints \in Seq(Points) /\ Len(checkpoints) = Len(measurements)
  /\ anchor \in Points
  /\ CheckpointsReplay
  /\ Sorted(measurements)
  /\ \A i \in 1..Len(anchor.log) : anchor.log[i].stamp <= anchor.stamp
  /\ \A i \in 1..Len(measurements) : anchor.stamp <= measurements[i].stamp
  /\ measurements = <<>> => anchor.log = <<>>

-----------------------------------------------------------------------------
(* Sequences.                                                              *)

\* A function on an initial interval is a sequence.
LEMMA IntervalSeq ==
  ASSUME NEW S, NEW n \in Nat, NEW f \in [1..n -> S]
  PROVE  f \in Seq(S) /\ Len(f) = n
  OBVIOUS

\* Two joined sequences, element by element.
LEMMA Joined ==
  ASSUME NEW S, NEW s \in Seq(S), NEW t \in Seq(S), NEW j, NEW k, Len(s) = j, Len(t) = k
  PROVE  /\ s \o t \in Seq(S) /\ Len(s \o t) = j + k /\ j \in Nat /\ k \in Nat
         /\ \A i \in 1..j : (s \o t)[i] = s[i]
         /\ \A i \in 1..k : (s \o t)[j + i] = t[i]
<1>1. j \in Nat /\ k \in Nat
  BY LenProperties
<1>2. /\ s \o t \in Seq(S) /\ Len(s \o t) = Len(s) + Len(t)
      /\ \A i \in 1..Len(s) + Len(t) : (s \o t)[i] = IF i <= Len(s) THEN s[i] ELSE t[i - Len(s)]
  BY ConcatProperties
<1>3. \A i \in 1..j + k : (s \o t)[i] = IF i <= j THEN s[i] ELSE t[i - j]
  BY <1>2
<1>4. ASSUME NEW i \in 1..k PROVE (s \o t)[j + i] = t[i]
  <2>1. j + i \in 1..j + k /\ ~(j + i <= j) /\ (j + i) - j = i
    BY <1>1
  <2> QED
    BY <1>3, <2>1
<1>5. \A i \in 1..j : i \in 1..j + k /\ i <= j
  BY <1>1
<1> QED
  BY <1>1, <1>2, <1>3, <1>4, <1>5

\* The same, as one fact.
Abuts(S, s, t, j, k) ==
  /\ s \o t \in Seq(S) /\ Len(s \o t) = j + k /\ j \in Nat /\ k \in Nat
  /\ \A i \in 1..j : (s \o t)[i] = s[i]
  /\ \A i \in 1..k : (s \o t)[j + i] = t[i]

\* Two sequences that abut: lengths and places.
LEMMA Abutting ==
  ASSUME NEW S, NEW s \in Seq(S), NEW t \in Seq(S), NEW j, NEW k, Len(s) = j, Len(t) = k
  PROVE  Abuts(S, s, t, j, k)
  BY Joined DEF Abuts

\* The two parts of a sequence, element by element.
LEMMA Parts ==
  ASSUME NEW S, NEW s \in Seq(S), NEW n \in 0..Len(s)
  PROVE  /\ First(s, n) \in Seq(S) /\ Len(First(s, n)) = n
         /\ \A i \in 1..n : First(s, n)[i] = s[i]
         /\ Rest(s, n) \in Seq(S) /\ Len(Rest(s, n)) = Len(s) - n
         /\ \A i \in 1..Len(s) - n : Rest(s, n)[i] = s[n + i]
<1>1. Len(s) \in Nat /\ \A i \in 1..Len(s) : s[i] \in S
  BY LenProperties, ElementOfSeq
<1>2. \A i \in 1..n : s[i] \in S
  BY <1>1
<1>3. \A i \in n + 1..Len(s) : s[i] \in S
  BY <1>1
<1>4. /\ First(s, n) \in Seq(S) /\ Len(First(s, n)) = (IF 1 <= n THEN n - 1 + 1 ELSE 0)
      /\ \A i \in 1..n - 1 + 1 : First(s, n)[i] = s[1 + i - 1]
  BY <1>1, <1>2, SubSeqProperties DEF First
<1>5. /\ Rest(s, n) \in Seq(S)
      /\ Len(Rest(s, n)) = (IF n + 1 <= Len(s) THEN Len(s) - (n + 1) + 1 ELSE 0)
      /\ \A i \in 1..Len(s) - (n + 1) + 1 : Rest(s, n)[i] = s[n + 1 + i - 1]
  BY <1>1, <1>3, SubSeqProperties DEF Rest
<1> QED
  BY <1>1, <1>4, <1>5

\* Two prefixes, and a prefix of a rest.
LEMMA Prefixes ==
  ASSUME NEW S, NEW s \in Seq(S), NEW n \in 0..Len(s)
  PROVE  /\ First(s, Len(s)) = s
         /\ First(s, n) \o Rest(s, n) = s
         /\ \A i \in 0..Len(s) - n : First(s, n) \o First(Rest(s, n), i) = First(s, n + i)
<1>1. Len(s) \in Nat
  BY LenProperties
<1>2. First(s, Len(s)) = s
  BY SubSeqFull DEF First
<1>3. ASSUME NEW i \in 0..Len(s) - n
      PROVE  First(s, n) \o First(Rest(s, n), i) = First(s, n + i)
  <2> DEFINE a == First(s, n)
             r == Rest(s, n)
             b == First(r, i)
             c == First(s, n + i)
  <2>1. /\ a \in Seq(S) /\ Len(a) = n /\ \A j \in 1..n : a[j] = s[j]
        /\ r \in Seq(S) /\ Len(r) = Len(s) - n /\ \A j \in 1..Len(s) - n : r[j] = s[n + j]
    BY Parts
  <2>2. n + i \in 0..Len(s) /\ i \in 0..Len(r)
    BY <1>1, <2>1
  <2>3. /\ b \in Seq(S) /\ Len(b) = i /\ \A j \in 1..i : b[j] = r[j]
        /\ c \in Seq(S) /\ Len(c) = n + i /\ \A j \in 1..n + i : c[j] = s[j]
    BY <2>1, <2>2, Parts
  <2> HIDE DEF a, b, c, r
  <2>4. /\ a \o b \in Seq(S) /\ Len(a \o b) = n + i
        /\ \A j \in 1..n + i : (a \o b)[j] = IF j <= n THEN a[j] ELSE b[j - n]
    BY <2>1, <2>3, ConcatProperties
  <2>5. ASSUME NEW j \in 1..n + i PROVE (a \o b)[j] = c[j]
    <3>1. CASE j <= n
      BY <2>1, <2>3, <2>4, <3>1
    <3>2. CASE ~(j <= n)
      <4>1. j - n \in 1..i /\ j - n \in 1..Len(s) - n /\ n + (j - n) = j
        BY <1>1, <3>2
      <4>2. b[j - n] = r[j - n] /\ r[j - n] = s[n + (j - n)]
        BY <2>1, <2>3, <4>1
      <4> QED
        BY <2>3, <2>4, <3>2, <4>1, <4>2
    <3> QED
      BY <3>1, <3>2
  <2>6. a \o b = c
    BY <2>3, <2>4, <2>5, SeqEqual
  <2> QED
    BY <2>6 DEF a, b, c, r
<1>4. First(s, n) \o Rest(s, n) = s
  <2>1. Rest(s, n) \in Seq(S) /\ Len(Rest(s, n)) = Len(s) - n
    BY Parts
  <2>2. First(Rest(s, n), Len(s) - n) = Rest(s, n)
    BY <2>1, SubSeqFull DEF First
  <2>3. Len(s) - n \in 0..Len(s) - n /\ n + (Len(s) - n) = Len(s)
    BY <1>1
  <2> QED
    BY <1>2, <1>3, <2>2, <2>3
<1> QED
  BY <1>2, <1>3, <1>4

\* A sequence of length l in two parts, the first of length n.
Halves(S, s, l, n, p, r) ==
  /\ p \in Seq(S) /\ Len(p) = n /\ \A i \in 1..n : p[i] = s[i]
  /\ r \in Seq(S) /\ Len(r) = l - n /\ \A i \in 1..l - n : r[i] = s[n + i]
  /\ p \o r = s

\* A sequence split after its first n places.
LEMMA SplitAt ==
  ASSUME NEW S, NEW s \in Seq(S), NEW l \in Nat, Len(s) = l, NEW n \in 0..l
  PROVE  Halves(S, s, l, n, First(s, n), Rest(s, n))
<1>1. n \in 0..Len(s)
  OBVIOUS
<1> QED
  BY <1>1, Parts, Prefixes DEF Halves

\* A prefix of the second part continues the first.
LEMMA SplitFurther ==
  ASSUME NEW S, NEW s \in Seq(S), NEW l \in Nat, Len(s) = l, NEW n \in 0..l,
         NEW i \in 0..l - n
  PROVE  First(s, n) \o First(Rest(s, n), i) = First(s, n + i)
<1>1. n \in 0..Len(s) /\ i \in 0..Len(s) - n
  OBVIOUS
<1> QED
  BY <1>1, Prefixes

\* Sequences that agree on a prefix have that prefix in common.
LEMMA SamePrefix ==
  ASSUME NEW S, NEW s \in Seq(S), NEW t \in Seq(S), NEW n \in 0..Len(s), n \in 0..Len(t),
         \A i \in 1..n : s[i] = t[i]
  PROVE  First(s, n) = First(t, n)
<1>1. /\ First(s, n) \in Seq(S) /\ Len(First(s, n)) = n /\ \A i \in 1..n : First(s, n)[i] = s[i]
      /\ First(t, n) \in Seq(S) /\ Len(First(t, n)) = n /\ \A i \in 1..n : First(t, n)[i] = t[i]
  BY Parts
<1> QED
  BY <1>1, SeqEqual

\* Sequences that agree past a prefix have the rest in common.
LEMMA SameRest ==
  ASSUME NEW S, NEW s \in Seq(S), NEW t \in Seq(S), NEW n \in 0..Len(s),
         Len(t) = Len(s) - n, \A i \in 1..Len(s) - n : s[n + i] = t[i]
  PROVE  Rest(s, n) = t
<1>1. /\ Rest(s, n) \in Seq(S) /\ Len(Rest(s, n)) = Len(s) - n
      /\ \A i \in 1..Len(s) - n : Rest(s, n)[i] = s[n + i]
  BY Parts
<1> QED
  BY <1>1, SeqEqual

-----------------------------------------------------------------------------
(* Counting in a sorted sequence.                                          *)

\* The size of an initial interval.
LEMMA IntervalSize ==
  ASSUME NEW k \in Nat
  PROVE  IsFiniteSet(1..k) /\ Cardinality(1..k) = k
  BY FS_Interval

\* A set within an initial interval.
LEMMA WithinInterval ==
  ASSUME NEW k \in Nat, NEW T \in SUBSET (1..k)
  PROVE  IsFiniteSet(T) /\ Cardinality(T) \in Nat /\ Cardinality(T) <= k
<1>1. IsFiniteSet(1..k) /\ Cardinality(1..k) = k
  BY IntervalSize
<1>2. IsFiniteSet(T) /\ Cardinality(T) <= Cardinality(1..k)
  BY <1>1, FS_Subset, Zenon
<1>3. Cardinality(T) \in Nat
  BY <1>2, FS_CardinalityType
<1> QED
  BY <1>1, <1>2, <1>3

\* A set of indices that holds every index below one of its own is an interval.
LEMMA DownwardIsInterval ==
  ASSUME NEW n \in Nat, NEW T \in SUBSET (1..n),
         \A i \in T : \A j \in 1..i : j \in T
  PROVE  Cardinality(T) \in 0..n /\ T = 1..Cardinality(T)
<1> DEFINE c == Cardinality(T)
<1>2. IsFiniteSet(T) /\ c \in Nat /\ c <= n
  BY WithinInterval
<1>3. \A k \in Nat : IsFiniteSet(1..k) /\ Cardinality(1..k) = k
  BY IntervalSize
<1>4. ASSUME NEW i \in T PROVE i <= c
  <2>1. 1..i \in SUBSET T /\ i \in Nat
    OBVIOUS
  <2>2. Cardinality(1..i) <= Cardinality(T)
    BY <1>2, <2>1, FS_Subset
  <2> QED
    BY <1>3, <2>1, <2>2
<1>5. ASSUME NEW k \in 1..c, k \notin T PROVE FALSE
  <2>1. k - 1 \in Nat /\ k - 1 < c
    BY <1>2
  <2>2. T \in SUBSET (1..k - 1)
    <3> SUFFICES ASSUME NEW i \in T PROVE i \in 1..k - 1
      OBVIOUS
    <3>1. i \in 1..n /\ ~(k \in 1..i)
      BY <1>5
    <3> QED
      BY <1>2, <3>1
  <2>3. Cardinality(T) <= k - 1
    BY <2>1, <2>2, WithinInterval
  <2> QED
    BY <1>2, <2>1, <2>3
<1>6. T = 1..c
  <2>1. \A i \in T : i \in 1..c
    BY <1>2, <1>4
  <2>2. \A k \in 1..c : k \in T
    BY <1>5
  <2> QED
    BY <2>1, <2>2
<1> QED
  BY <1>2, <1>6

\* upper_bound: what precedes its index is not newer, what follows is.
LEMMA NotNewerSplits ==
  ASSUME NEW list \in Seq(Measurement), Sorted(list), NEW t \in Int
  PROVE  /\ NotNewer(list, t) \in 0..Len(list)
         /\ \A i \in 1..Len(list) : i <= NotNewer(list, t) <=> list[i].stamp <= t
<1> DEFINE T == {i \in 1..Len(list) : list[i].stamp <= t}
<1>1. Len(list) \in Nat /\ \A i \in 1..Len(list) : list[i].stamp \in Int
  <2>1. Len(list) \in Nat /\ \A i \in 1..Len(list) : list[i] \in Measurement
    BY LenProperties, ElementOfSeq
  <2> QED
    BY <2>1, ObserverAssumption DEF Measurement
<1>2. T \in SUBSET (1..Len(list)) /\ \A i \in T : \A j \in 1..i : j \in T
  BY <1>1 DEF Sorted
<1>3. Cardinality(T) \in 0..Len(list) /\ T = 1..Cardinality(T)
  BY <1>1, <1>2, DownwardIsInterval
<1>4. NotNewer(list, t) = Cardinality(T)
  BY DEF NotNewer
<1> HIDE DEF T
<1>5. \A i \in 1..Len(list) : i <= Cardinality(T) <=> i \in T
  BY <1>1, <1>3
<1> QED
  BY <1>3, <1>4, <1>5 DEF T

\* What trimming removes never includes the last measurement, and leaves no
\* more than the cap.
LEMMA ExcessBounds ==
  ASSUME NEW list \in Seq(Measurement), Len(list) > 0
  PROVE  Excess(list) \in 0..Len(list) - 1 /\ Len(list) - Excess(list) <= Cap
<1> DEFINE n == Len(list)
           T == {i \in 1..n : list[i].stamp < list[n].stamp - History}
<1>1. n \in Nat \ {0} /\ \A i \in 1..n : list[i].stamp \in Int
  <2>1. n \in Nat \ {0} /\ \A i \in 1..n : list[i] \in Measurement
    BY LenProperties, ElementOfSeq
  <2> QED
    BY <2>1, ObserverAssumption DEF Measurement
<1>2. T \in SUBSET (1..n - 1)
  <2>1. ~(list[n].stamp < list[n].stamp - History)
    BY <1>1, ObserverAssumption
  <2> QED
    BY <1>1, <2>1
<1>3. Cardinality(T) \in 0..n - 1
  <2>1. n - 1 \in Nat
    BY <1>1
  <2> QED
    BY <1>2, <2>1, WithinInterval
<1>4. Older(list, list[n].stamp - History) = Cardinality(T)
  BY DEF Older
<1> HIDE DEF T
<1> QED
  BY <1>1, <1>3, <1>4, ObserverAssumption DEF Excess

-----------------------------------------------------------------------------
(* The three parts of receive.                                             *)

\* The types the invariant gives.
LEMMA Typed ==
  ASSUME ObserverInv
  PROVE  /\ Len(measurements) \in Nat /\ anchor.stamp \in Int /\ anchor.log \in Seq(Measurement)
         /\ \A i \in 1..Len(measurements) :
              /\ measurements[i] \in Measurement /\ measurements[i].stamp \in Int
              /\ checkpoints[i] \in Points
         /\ \A m \in Measurement : m.stamp \in Int /\ m.stamp \in 0..MaxTime
<1>1. Len(measurements) \in Nat /\ \A i \in 1..Len(measurements) : measurements[i] \in Measurement
  BY LenProperties, ElementOfSeq DEF ObserverInv
<1>2. \A i \in 1..Len(measurements) : checkpoints[i] \in Points
  BY ElementOfSeq DEF ObserverInv
<1>3. \A m \in Measurement : m.stamp \in Int /\ m.stamp \in 0..MaxTime
  BY ObserverAssumption DEF Measurement
<1> QED
  BY <1>1, <1>2, <1>3, ObserverAssumption DEF ObserverInv, Points

\* The insertion keeps the order, and the anchor before it.
LEMMA InsertionSorted ==
  ASSUME ObserverInv, NEW m \in Measurement, anchor.stamp <= m.stamp
  PROVE  LET list == Inserted(m)
         IN  /\ list \in Seq(Measurement) /\ Len(list) = Len(measurements) + 1
             /\ Index(m) \in 0..Len(measurements)
             /\ \A i \in 1..Index(m) : list[i] = measurements[i] /\ list[i].stamp <= m.stamp
             /\ list[Index(m) + 1] = m
             /\ \A i \in Index(m) + 2..Len(list) :
                  list[i] = measurements[i - 1] /\ m.stamp < list[i].stamp
             /\ Sorted(list)
             /\ \A i \in 1..Len(list) : anchor.stamp <= list[i].stamp
<1> DEFINE n == Len(measurements)
           x == Index(m)
           a == First(measurements, x)
           b == Rest(measurements, x)
           list == Inserted(m)
<1>1. /\ n \in Nat /\ m.stamp \in Int /\ anchor.stamp \in Int
      /\ \A i \in 1..n : measurements[i].stamp \in Int /\ anchor.stamp <= measurements[i].stamp
      /\ \A i, j \in 1..n : i <= j => measurements[i].stamp <= measurements[j].stamp
  BY Typed DEF ObserverInv, Sorted
<1>2. x \in 0..n /\ \A i \in 1..n : i <= x <=> measurements[i].stamp <= m.stamp
  BY <1>1, NotNewerSplits DEF ObserverInv, Index
<1>3. /\ a \in Seq(Measurement) /\ Len(a) = x /\ \A i \in 1..x : a[i] = measurements[i]
      /\ b \in Seq(Measurement) /\ Len(b) = n - x
      /\ \A i \in 1..n - x : b[i] = measurements[x + i]
  BY <1>2, Parts DEF ObserverInv
<1>4. <<m>> \in Seq(Measurement) /\ Len(<<m>>) = 1 /\ <<m>>[1] = m
  OBVIOUS
<1>6. Len(measurements) = n /\ Index(m) = x /\ list = (a \o <<m>>) \o b
  BY DEF Inserted
<1> HIDE DEF n, x, a, b, list
<1>5. /\ a \o <<m>> \in Seq(Measurement) /\ Len(a \o <<m>>) = x + 1
      /\ \A i \in 1..x + 1 : (a \o <<m>>)[i] = IF i <= x THEN a[i] ELSE <<m>>[i - x]
  BY <1>3, <1>4, ConcatProperties
<1>7. /\ list \in Seq(Measurement) /\ Len(list) = n + 1
      /\ \A i \in 1..n + 1 : list[i] = IF i <= x + 1 THEN (a \o <<m>>)[i] ELSE b[i - (x + 1)]
  <2>1. (x + 1) + (n - x) = n + 1
    BY <1>1, <1>2
  <2> DEFINE am == a \o <<m>>
  <2>2. am \in Seq(Measurement) /\ b \in Seq(Measurement) /\ Len(am) = x + 1 /\ Len(b) = n - x
    BY <1>3, <1>5
  <2> HIDE DEF am
  <2>3. /\ am \o b \in Seq(Measurement) /\ Len(am \o b) = Len(am) + Len(b)
        /\ \A i \in 1..Len(am) + Len(b) :
             (am \o b)[i] = IF i <= Len(am) THEN am[i] ELSE b[i - Len(am)]
    BY <2>2, ConcatProperties
  <2>4. Len(am) + Len(b) = n + 1
    BY <2>1, <2>2
  <2>5. list = am \o b
    BY <1>6 DEF am
  <2>6. /\ list \in Seq(Measurement) /\ Len(list) = n + 1
        /\ \A i \in 1..n + 1 : list[i] = IF i <= x + 1 THEN am[i] ELSE b[i - (x + 1)]
    BY <2>2, <2>3, <2>4, <2>5
  <2> QED
    BY <2>6 DEF am
<1>8. ASSUME NEW i \in 1..x PROVE list[i] = measurements[i] /\ list[i].stamp <= m.stamp
  <2>1. i \in 1..n /\ i \in 1..x + 1 /\ i \in 1..n + 1 /\ i <= x /\ i <= x + 1
    BY <1>1, <1>2
  <2>2. list[i] = a[i] /\ a[i] = measurements[i]
    BY <1>3, <1>5, <1>7, <2>1
  <2> QED
    BY <1>2, <2>1, <2>2
<1>9. list[x + 1] = m
  <2>1. x + 1 \in 1..n + 1 /\ x + 1 \in 1..x + 1 /\ ~(x + 1 <= x) /\ (x + 1) - x = 1
    BY <1>1, <1>2
  <2> QED
    BY <1>4, <1>5, <1>7, <2>1
<1>10. ASSUME NEW i \in x + 2..n + 1
       PROVE  list[i] = measurements[i - 1] /\ m.stamp < list[i].stamp
  <2>1. /\ i \in 1..n + 1 /\ ~(i <= x + 1) /\ i - (x + 1) \in 1..n - x
        /\ x + (i - (x + 1)) = i - 1 /\ i - 1 \in 1..n /\ ~(i - 1 <= x)
    BY <1>1, <1>2
  <2>2. list[i] = b[i - (x + 1)] /\ b[i - (x + 1)] = measurements[x + (i - (x + 1))]
    BY <1>3, <1>7, <2>1
  <2>3. ~(measurements[i - 1].stamp <= m.stamp) /\ measurements[i - 1].stamp \in Int
    BY <1>1, <1>2, <2>1
  <2> QED
    BY <1>1, <2>1, <2>2, <2>3
<1>11. \A i \in 1..n + 1 : i \in 1..x \/ i = x + 1 \/ i \in x + 2..n + 1
  BY <1>1, <1>2
<1>12. ASSUME NEW i \in 1..n + 1
       PROVE  list[i].stamp \in Int /\ anchor.stamp <= list[i].stamp
  <2>1. i \in 1..x => i \in 1..n
    BY <1>1, <1>2
  <2>2. i \in x + 2..n + 1 => i - 1 \in 1..n
    BY <1>1, <1>2
  <2> QED
    BY <1>1, <1>8, <1>9, <1>10, <1>11, <2>1, <2>2
<1>13. Sorted(list)
  <2> SUFFICES ASSUME NEW i \in 1..n + 1, NEW j \in 1..n + 1, i <= j
               PROVE  list[i].stamp <= list[j].stamp
    BY <1>7 DEF Sorted
  <2>1. CASE j \in 1..x
    <3>1. i \in 1..x /\ i \in 1..n /\ j \in 1..n
      BY <1>1, <1>2, <2>1
    <3> QED
      BY <1>1, <1>8, <2>1, <3>1
  <2>2. CASE i \in x + 2..n + 1
    <3>1. j \in x + 2..n + 1 /\ i - 1 \in 1..n /\ j - 1 \in 1..n /\ i - 1 <= j - 1
      BY <1>1, <1>2, <2>2
    <3> QED
      BY <1>1, <1>10, <2>2, <3>1
  <2>3. CASE (i \in 1..x \/ i = x + 1) /\ (j = x + 1 \/ j \in x + 2..n + 1)
    <3>1. list[i].stamp <= m.stamp /\ m.stamp <= list[j].stamp
      BY <1>1, <1>8, <1>9, <1>10, <1>12, <2>3
    <3> QED
      BY <1>1, <1>12, <3>1
  <2> QED
    BY <1>11, <2>1, <2>2, <2>3
<1> QED
  BY <1>6, <1>2, <1>7, <1>8, <1>9, <1>10, <1>12, <1>13 DEF list

\* The replay leaves every posterior that of its prefix.
LEMMA ReplayFollows ==
  ASSUME ObserverInv, NEW m \in Measurement, anchor.stamp <= m.stamp
  PROVE  LET list == Inserted(m)
             points == Rebuilt(m)
         IN  /\ points \in Seq(Points) /\ Len(points) = Len(list)
             /\ \A i \in 1..Len(list) : /\ points[i].stamp = list[i].stamp
                                        /\ points[i].log = anchor.log \o First(list, i)
<1> DEFINE n == Len(measurements)
           x == Index(m)
           b == Rest(measurements, x)
           list == Inserted(m)
           tail == <<m>> \o b
           from == IF x = 0 THEN anchor ELSE checkpoints[x]
           head == First(checkpoints, x)
           replay == Replayed(from, tail)
<1>1. /\ n \in Nat /\ list \in Seq(Measurement) /\ Len(list) = n + 1 /\ x \in 0..n
      /\ \A i \in 1..x : list[i] = measurements[i]
      /\ list[x + 1] = m
      /\ \A i \in x + 2..n + 1 : list[i] = measurements[i - 1]
  BY InsertionSorted, Typed
<1>2. /\ measurements \in Seq(Measurement) /\ checkpoints \in Seq(Points)
      /\ Len(checkpoints) = n /\ anchor \in Points /\ anchor.log \in Seq(Measurement)
      /\ \A i \in 1..n : /\ checkpoints[i] \in Points
                         /\ checkpoints[i].stamp = measurements[i].stamp
                         /\ checkpoints[i].log = anchor.log \o First(measurements, i)
  BY Typed DEF ObserverInv, CheckpointsReplay, First
<1>3. Rebuilt(m) = head \o replay
  BY DEF Rebuilt
<1>4. /\ b \in Seq(Measurement) /\ Len(b) = n - x /\ \A i \in 1..n - x : b[i] = measurements[x + i]
      /\ head \in Seq(Points) /\ Len(head) = x /\ \A i \in 1..x : head[i] = checkpoints[i]
  <2>1. x \in 0..Len(measurements) /\ x \in 0..Len(checkpoints) /\ Len(measurements) = n
    BY <1>1, <1>2
  <2> HIDE DEF n, x
  <2>2. /\ b \in Seq(Measurement) /\ Len(b) = n - x
        /\ \A i \in 1..n - x : b[i] = measurements[x + i]
    BY <1>2, <2>1, Parts
  <2>3. head \in Seq(Points) /\ Len(head) = x /\ \A i \in 1..x : head[i] = checkpoints[i]
    BY <1>2, <2>1, Parts
  <2> QED
    BY <2>2, <2>3
<1> HIDE DEF n, x, b, list, head
<1>5. /\ tail \in Seq(Measurement) /\ Len(tail) = n + 1 - x
      /\ tail[1] = m /\ \A k \in 2..n + 1 - x : tail[k] = measurements[x + k - 1]
  <2>1. <<m>> \in Seq(Measurement) /\ Len(<<m>>) = 1 /\ <<m>>[1] = m
    OBVIOUS
  <2>2. /\ tail \in Seq(Measurement) /\ Len(tail) = 1 + Len(b)
        /\ \A k \in 1..1 + Len(b) : tail[k] = IF k <= 1 THEN <<m>>[k] ELSE b[k - 1]
    BY <1>4, <2>1, ConcatProperties
  <2>3. 1 + (n - x) = n + 1 - x /\ 1 \in 1..n + 1 - x
    BY <1>1
  <2>4. ASSUME NEW k \in 2..n + 1 - x PROVE tail[k] = measurements[x + k - 1]
    <3>1. k \in 1..n + 1 - x /\ ~(k <= 1) /\ k - 1 \in 1..n - x /\ x + (k - 1) = x + k - 1
      BY <1>1
    <3> QED
      BY <1>4, <2>2, <2>3, <3>1
  <2> QED
    BY <1>4, <2>1, <2>2, <2>3, <2>4
<1> HIDE DEF tail
<1>6. ASSUME NEW k \in 1..n + 1 - x PROVE list[x + k] = tail[k]
  <2>1. CASE k = 1
    BY <1>1, <1>5, <2>1
  <2>2. CASE k # 1
    <3>1. k \in 2..n + 1 - x /\ x + k \in x + 2..n + 1
      BY <1>1, <2>2
    <3> QED
      BY <1>1, <1>5, <3>1
  <2> QED
    BY <2>1, <2>2
<1>7. Rest(list, x) = tail
  <2>1. x \in 0..Len(list) /\ Len(list) - x = n + 1 - x
    BY <1>1
  <2> QED
    BY <1>1, <1>5, <1>6, <2>1, SameRest
<1>8. First(list, x) = First(measurements, x)
  <2>1. x \in 0..Len(list) /\ x \in 0..Len(measurements)
    BY <1>1 DEF n
  <2> QED
    BY <1>1, <1>2, <2>1, SamePrefix
<1>9. from \in Points /\ from.log = anchor.log \o First(list, x)
  <2>1. CASE x = 0
    <3>1. First(list, 0) = <<>>
      BY SubSeqEmpty DEF First
    <3> QED
      BY <1>2, <2>1, <3>1, ConcatEmptySeq
  <2>2. CASE x # 0
    <3>1. x \in 1..n /\ from = checkpoints[x]
      BY <1>1, <2>2
    <3> QED
      BY <1>2, <1>8, <3>1
  <2> QED
    BY <2>1, <2>2
<1> HIDE DEF from
<1>10. ASSUME NEW k \in 1..n + 1 - x
       PROVE  from.log \o First(tail, k) = anchor.log \o First(list, x + k)
  <2>1. x \in 0..Len(list) /\ k \in 0..Len(list) - x /\ k \in 0..Len(tail)
    BY <1>1, <1>5
  <2>2. First(list, x) \o First(tail, k) = First(list, x + k)
    BY <1>1, <1>7, <2>1, Prefixes
  <2>3. First(list, x) \in Seq(Measurement) /\ First(tail, k) \in Seq(Measurement)
    BY <1>1, <1>5, <2>1, Parts
  <2> DEFINE a == anchor.log
             p == First(list, x)
             q == First(tail, k)
  <2>4. a \in Seq(Measurement) /\ p \in Seq(Measurement) /\ q \in Seq(Measurement)
    BY <1>2, <2>3
  <2>5. from.log = a \o p /\ p \o q = First(list, x + k)
    BY <1>9, <2>2
  <2> HIDE DEF a, p, q
  <2>6. (a \o p) \o q = a \o (p \o q)
    BY <2>4, ConcatAssociative
  <2> QED
    BY <2>5, <2>6 DEF a, q
<1>11. /\ replay \in Seq(Points) /\ Len(replay) = n + 1 - x
       /\ \A k \in 1..n + 1 - x : /\ replay[k].stamp = list[x + k].stamp
                                  /\ replay[k].log = anchor.log \o First(list, x + k)
  <2>1. replay = [k \in 1..n + 1 - x |->
                    [stamp |-> tail[k].stamp, log |-> from.log \o First(tail, k)]]
    BY <1>5 DEF Replayed, First
  <2>2. ASSUME NEW k \in 1..n + 1 - x
        PROVE  [stamp |-> tail[k].stamp, log |-> from.log \o First(tail, k)] \in Points
    <3>1. tail[k] \in Measurement /\ tail[k].stamp \in 0..MaxTime
      BY <1>5, ElementOfSeq, Typed
    <3>2. k \in 0..Len(tail) /\ from.log \in Seq(Measurement)
      <4>1. k \in 0..n + 1 - x
        BY <1>1
      <4> QED
        BY <1>5, <1>9, <4>1 DEF Points
    <3>3. First(tail, k) \in Seq(Measurement)
      BY <1>5, <3>2, Parts
    <3>4. from.log \o First(tail, k) \in Seq(Measurement)
      BY <3>2, <3>3, ConcatProperties
    <3> QED
      BY <3>1, <3>4 DEF Points
  <2>3. n + 1 - x \in Nat
    BY <1>1
  <2>4. replay \in [1..n + 1 - x -> Points]
    BY <2>1, <2>2
  <2>5. replay \in Seq(Points) /\ Len(replay) = n + 1 - x
    BY <2>3, <2>4, IntervalSeq
  <2>6. ASSUME NEW k \in 1..n + 1 - x
        PROVE  replay[k].stamp = tail[k].stamp /\ replay[k].log = from.log \o First(tail, k)
    BY <2>1
  <2> QED
    BY <1>6, <1>10, <2>5, <2>6
<1> HIDE DEF replay
<1>12. /\ Rebuilt(m) \in Seq(Points) /\ Len(Rebuilt(m)) = x + (n + 1 - x)
       /\ \A i \in 1..x : Rebuilt(m)[i] = head[i]
       /\ \A k \in 1..n + 1 - x : Rebuilt(m)[x + k] = replay[k]
  BY <1>3, <1>4, <1>11, Joined
<1>13. x + (n + 1 - x) = n + 1
  BY <1>1
<1>14. ASSUME NEW i \in 1..n + 1
       PROVE  /\ Rebuilt(m)[i].stamp = list[i].stamp
              /\ Rebuilt(m)[i].log = anchor.log \o First(list, i)
  <2>1. CASE i <= x
    <3>1. i \in 1..x /\ i \in 1..n /\ i \in 0..Len(list) /\ i \in 0..n
          /\ \A j \in 1..i : j \in 1..x
      BY <1>1, <2>1
    <3>2. First(list, i) = First(measurements, i)
      <4>1. i \in 0..Len(measurements) /\ \A j \in 1..i : list[j] = measurements[j]
        BY <1>1, <3>1 DEF n
      <4> QED
        BY <1>1, <1>2, <3>1, <4>1, SamePrefix
    <3>3. Rebuilt(m)[i] = checkpoints[i]
      BY <1>4, <1>12, <3>1
    <3> QED
      BY <1>1, <1>2, <3>1, <3>2, <3>3
  <2>2. CASE ~(i <= x)
    <3>1. i - x \in 1..n + 1 - x /\ x + (i - x) = i
      BY <1>1, <2>2
    <3>2. Rebuilt(m)[i] = replay[i - x]
      BY <1>12, <3>1
    <3> QED
      BY <1>11, <3>1, <3>2
  <2> QED
    BY <2>1, <2>2
<1> QED
  BY <1>1, <1>12, <1>13, <1>14 DEF list

\* A history and its posteriors, as they stand before they are trimmed.
Followed(list, points) ==
  /\ anchor \in Points /\ Sorted(list)
  /\ \A i \in 1..Len(list) : /\ points[i].stamp = list[i].stamp
                             /\ points[i].log = anchor.log \o First(list, i)
                             /\ anchor.stamp <= list[i].stamp
  /\ \A i \in 1..Len(anchor.log) : anchor.log[i].stamp <= anchor.stamp

\* Trimming moves a prefix behind the anchor, with its order and its posterior.
LEMMA TrimKeeps ==
  ASSUME NEW l \in Nat \ {0}, NEW list \in Seq(Measurement), NEW points \in Seq(Points),
         Len(list) = l, Len(points) = l, Followed(list, points),
         NEW trim \in 0..l - 1, l - trim <= Cap, Trimmed(list, points, trim)
  PROVE  ObserverInv' /\ anchor'.log \o measurements' = anchor.log \o list
<1> DEFINE a == anchor.log
           p == First(list, trim)
           r == Rest(list, trim)
           c == Rest(points, trim)
<1>1. /\ a \in Seq(Measurement) /\ anchor.stamp \in Int
      /\ \A i \in 1..l : list[i].stamp \in Int /\ points[i] \in Points
  <2>1. \A i \in 1..l : list[i] \in Measurement
    BY ElementOfSeq
  <2>2. \A i \in 1..l : points[i] \in Points
    BY ElementOfSeq
  <2>3. \A i \in 1..l : list[i].stamp \in Int
    BY <2>1, ObserverAssumption DEF Measurement
  <2>4. a \in Seq(Measurement) /\ anchor.stamp \in Int
    BY ObserverAssumption DEF Points, Followed
  <2> QED
    BY <2>2, <2>3, <2>4
<1>2. trim \in Nat /\ l - trim \in Nat \ {0}
  OBVIOUS
<1>3. /\ anchor' = (IF trim = 0 THEN anchor ELSE points[trim])
      /\ measurements' = r /\ checkpoints' = c
  BY DEF Trimmed
<1>4. /\ \A i, j \in 1..l : i <= j => list[i].stamp <= list[j].stamp
      /\ \A i \in 1..l : /\ points[i].stamp = list[i].stamp
                         /\ points[i].log = a \o First(list, i)
                         /\ anchor.stamp <= list[i].stamp
      /\ \A i \in 1..Len(a) : a[i].stamp <= anchor.stamp
      /\ anchor \in Points
  BY DEF Sorted, Followed
<1>5. l \in Nat /\ trim \in 0..l
  OBVIOUS
<1>6. Halves(Measurement, list, l, trim, p, r)
  BY <1>5, SplitAt
<1>7. Halves(Points, points, l, trim, First(points, trim), c)
  BY <1>5, SplitAt
<1>8. ASSUME NEW i \in 0..l - trim PROVE p \o First(r, i) = First(list, trim + i)
  BY <1>5, SplitFurther
<1> HIDE DEF a, p, r, c
<1>9. /\ p \in Seq(Measurement) /\ Len(p) = trim /\ \A i \in 1..trim : p[i] = list[i]
      /\ r \in Seq(Measurement) /\ Len(r) = l - trim /\ \A i \in 1..l - trim : r[i] = list[trim + i]
      /\ p \o r = list
  BY <1>6 DEF Halves
<1>10. c \in Seq(Points) /\ Len(c) = l - trim /\ \A i \in 1..l - trim : c[i] = points[trim + i]
  BY <1>7 DEF Halves
<1>11. anchor' \in Points /\ anchor'.log = a \o p
  <2>1. CASE trim = 0
    <3>1. p = <<>>
      BY <1>9, <2>1, EmptySeq, SeqEqual
    <3> QED
      BY <1>1, <1>3, <1>4, <2>1, <3>1, ConcatEmptySeq DEF a
  <2>2. CASE trim # 0
    <3>1. trim \in 1..l
      BY <2>2
    <3> QED
      BY <1>1, <1>3, <1>4, <2>2, <3>1 DEF p
  <2> QED
    BY <2>1, <2>2
<1>12. /\ a \o p \in Seq(Measurement) /\ Len(a \o p) = Len(a) + trim /\ Len(a) \in Nat
       /\ \A i \in 1..Len(a) : (a \o p)[i] = a[i]
       /\ \A i \in 1..trim : (a \o p)[Len(a) + i] = p[i]
  <2>1. Abuts(Measurement, a, p, Len(a), trim)
    BY <1>1, <1>9, Abutting
  <2> QED
    BY <2>1 DEF Abuts
<1>13. ASSUME NEW i \in 1..l - trim
       PROVE  c[i].stamp = r[i].stamp /\ c[i].log = (a \o p) \o First(r, i)
  <2>1. trim + i \in 1..l /\ i \in 0..l - trim /\ i \in 0..Len(r)
    BY <1>1, <1>2, <1>9
  <2>2. c[i].log = a \o First(list, trim + i) /\ c[i].stamp = r[i].stamp
    BY <1>4, <1>9, <1>10, <2>1
  <2> DEFINE f == First(r, i)
  <2>3. f \in Seq(Measurement) /\ p \o f = First(list, trim + i)
    BY <1>9, <1>8, <2>1, Parts
  <2> HIDE DEF f
  <2>4. (a \o p) \o f = a \o (p \o f)
    <3>1. a \in Seq(Measurement) /\ p \in Seq(Measurement) /\ f \in Seq(Measurement)
      BY <1>1, <1>9, <2>3
    <3> QED
      BY <3>1, ConcatAssociative
  <2> QED
    BY <2>2, <2>3, <2>4 DEF f
<1>14. anchor'.log \o measurements' = a \o list
  <2>1. (a \o p) \o r = a \o (p \o r)
    <3>1. a \in Seq(Measurement) /\ p \in Seq(Measurement) /\ r \in Seq(Measurement)
      BY <1>1, <1>9
    <3> QED
      BY <3>1, ConcatAssociative
  <2> QED
    BY <1>3, <1>9, <1>11, <2>1
<1>15. (Sorted(measurements))'
  <2> SUFFICES ASSUME NEW i \in 1..l - trim, NEW j \in 1..l - trim, i <= j
               PROVE  r[i].stamp <= r[j].stamp
    BY <1>3, <1>9 DEF Sorted
  <2>1. trim + i \in 1..l /\ trim + j \in 1..l /\ trim + i <= trim + j
    BY <1>1, <1>2
  <2> QED
    BY <1>4, <1>9, <2>1
<1>16. /\ anchor'.stamp \in Int /\ anchor.stamp <= anchor'.stamp
       /\ \A i \in 1..trim : list[i].stamp <= anchor'.stamp
       /\ \A i \in 1..l - trim : anchor'.stamp <= r[i].stamp
  <2>1. CASE trim = 0
    <3>1. \A i \in 1..l - trim : trim + i \in 1..l
      BY <1>1, <1>2
    <3> QED
      BY <1>1, <1>3, <1>4, <1>9, <2>1, <3>1
  <2>2. CASE trim # 0
    <3>1. trim \in 1..l /\ \A i \in 1..trim : i \in 1..l /\ i <= trim
      BY <1>1, <1>2, <2>2
    <3>2. \A i \in 1..l - trim : trim + i \in 1..l /\ trim <= trim + i
      BY <1>1, <1>2
    <3>3. anchor'.stamp = list[trim].stamp
      BY <1>3, <1>4, <2>2, <3>1
    <3> QED
      BY <1>1, <1>4, <1>9, <3>1, <3>2, <3>3
  <2> QED
    BY <2>1, <2>2
<1>17. ASSUME NEW i \in 1..Len(a \o p) PROVE (a \o p)[i].stamp <= anchor'.stamp
  <2>1. CASE i \in 1..Len(a)
    <3>1. a[i] \in Measurement
      BY <1>1, <2>1, ElementOfSeq
    <3>2. a[i].stamp \in Int /\ a[i].stamp <= anchor.stamp
      BY <1>4, <2>1, <3>1, ObserverAssumption DEF Measurement
    <3> QED
      BY <1>1, <1>12, <1>16, <2>1, <3>2
  <2>2. CASE i \notin 1..Len(a)
    <3>1. i - Len(a) \in 1..trim /\ Len(a) + (i - Len(a)) = i
      BY <1>2, <1>12, <2>2
    <3>2. (a \o p)[i] = p[i - Len(a)] /\ p[i - Len(a)] = list[i - Len(a)]
      BY <1>9, <1>12, <3>1
    <3> QED
      BY <1>16, <3>1, <3>2
  <2> QED
    BY <2>1, <2>2
<1>18. l - trim \in Nat \ {0} /\ measurements' # <<>>
  <2>1. l - trim \in Nat \ {0}
    BY <1>1, <1>2
  <2> QED
    BY <1>3, <1>9, <2>1, EmptySeq
<1> QED
  <2>1. CheckpointsReplay'
    BY <1>3, <1>10, <1>11, <1>13 DEF CheckpointsReplay, First
  <2>2. /\ measurements' \in Seq(Measurement) /\ Len(measurements') = l - trim
        /\ checkpoints' \in Seq(Points) /\ Len(checkpoints') = l - trim
        /\ l - trim <= Cap
    BY <1>3, <1>9, <1>10
  <2>3. /\ \A i \in 1..Len(anchor'.log) : anchor'.log[i].stamp <= anchor'.stamp
        /\ \A i \in 1..Len(measurements') : anchor'.stamp <= measurements'[i].stamp
    <3>1. anchor'.log = a \o p /\ measurements' = r /\ Len(r) = l - trim
      BY <1>3, <1>9, <1>11
    <3>2. \A i \in 1..Len(anchor'.log) : anchor'.log[i].stamp <= anchor'.stamp
      BY <1>17, <3>1
    <3>3. \A i \in 1..Len(measurements') : anchor'.stamp <= measurements'[i].stamp
      <4>1. \A i \in 1..l - trim : anchor'.stamp <= r[i].stamp
        BY <1>16
      <4> QED
        BY <3>1, <4>1
    <3> QED
      BY <3>2, <3>3
  <2>4. ObserverInv'
    BY <1>11, <1>15, <1>18, <2>1, <2>2, <2>3 DEF ObserverInv
  <2> QED
    BY <1>14, <2>4 DEF a

\* What trimming leaves is not newer than what there was.
LEMMA TrimWithin ==
  ASSUME NEW l \in Nat \ {0}, NEW list \in Seq(Measurement), NEW points, Len(list) = l,
         NEW trim \in 0..l - 1, Trimmed(list, points, trim),
         NEW bound, \A i \in 1..l : list[i].stamp <= bound
  PROVE  \A i \in 1..Len(measurements') : measurements'[i].stamp <= bound
<1>1. l \in Nat /\ trim \in 0..l
  OBVIOUS
<1>2. Halves(Measurement, list, l, trim, First(list, trim), Rest(list, trim))
  BY <1>1, SplitAt
<1>3. measurements' = Rest(list, trim)
  BY DEF Trimmed
<1>4. Len(measurements') = l - trim /\ \A i \in 1..l - trim : measurements'[i] = list[trim + i]
  BY <1>2, <1>3 DEF Halves
<1>5. \A i \in 1..l - trim : trim + i \in 1..l
  OBVIOUS
<1> QED
  BY <1>4, <1>5

\* receive keeps the invariant; the anchor and the history together hold what
\* they held, with the measurement inserted.
LEMMA AdmitsKeeps ==
  ASSUME ObserverInv, NEW m \in Measurement, Admits(m)
  PROVE  /\ ObserverInv'
         /\ anchor'.log \o measurements' = anchor.log \o Inserted(m)
         /\ \A bound \in Int : m.stamp <= bound /\ (\A i \in 1..Len(measurements) : measurements[i].stamp <= bound)
              => \A i \in 1..Len(measurements') : measurements'[i].stamp <= bound
<1> DEFINE list == Inserted(m)
           points == Rebuilt(m)
           l == Len(list)
           trim == Excess(list)
<1>1. anchor.stamp <= m.stamp
  <2>1. anchor.stamp \in Int /\ m.stamp \in Int
    BY Typed
  <2> QED
    BY <2>1 DEF Admits, TooOld
<1>2. /\ list \in Seq(Measurement) /\ Len(list) = Len(measurements) + 1
      /\ Index(m) \in 0..Len(measurements)
      /\ \A i \in 1..Index(m) : list[i] = measurements[i]
      /\ list[Index(m) + 1] = m
      /\ \A i \in Index(m) + 2..Len(list) : list[i] = measurements[i - 1]
      /\ Sorted(list)
      /\ \A i \in 1..Len(list) : anchor.stamp <= list[i].stamp
  BY <1>1, InsertionSorted
<1>3. /\ points \in Seq(Points) /\ Len(points) = Len(list)
      /\ \A i \in 1..Len(list) : /\ points[i].stamp = list[i].stamp
                                 /\ points[i].log = anchor.log \o First(list, i)
  BY <1>1, ReplayFollows
<1>4. Trimmed(list, points, trim)
  BY DEF Admits
<1>5. Len(measurements) \in Nat
  BY Typed
<1> HIDE DEF list, points
<1>6. Followed(list, points)
  BY <1>2, <1>3 DEF Followed, ObserverInv
<1>7. l \in Nat \ {0}
  BY <1>2, <1>5
<1>8. trim \in 0..l - 1 /\ l - trim <= Cap
  BY <1>2, <1>7, ExcessBounds
<1> HIDE DEF l, trim
<1>9. Len(list) = l /\ Len(points) = l
  BY <1>3 DEF l
<1>10. ObserverInv' /\ anchor'.log \o measurements' = anchor.log \o list
  BY <1>2, <1>3, <1>4, <1>6, <1>7, <1>8, <1>9, TrimKeeps
<1>11. ASSUME NEW bound \in Int, m.stamp <= bound,
              \A i \in 1..Len(measurements) : measurements[i].stamp <= bound
       PROVE  \A i \in 1..Len(measurements') : measurements'[i].stamp <= bound
  <2>1. ASSUME NEW i \in 1..l PROVE list[i].stamp <= bound
    <3>1. CASE i \in 1..Index(m)
      <4>1. i \in 1..Len(measurements)
        BY <1>2, <1>5, <3>1
      <4> QED
        BY <1>2, <1>11, <3>1, <4>1
    <3>2. CASE i = Index(m) + 1
      BY <1>2, <1>11, <3>2
    <3>3. CASE i \in Index(m) + 2..l
      <4>1. i - 1 \in 1..Len(measurements) /\ i \in Index(m) + 2..Len(list)
        BY <1>2, <1>5, <1>9, <3>3
      <4> QED
        BY <1>2, <1>11, <4>1
    <3> QED
      BY <1>2, <1>5, <1>7, <3>1, <3>2, <3>3
  <2> QED
    BY <1>2, <1>4, <1>7, <1>8, <1>9, <2>1, TrimWithin
<1> QED
  BY <1>10, <1>11 DEF list

-----------------------------------------------------------------------------
(* The observer is the source-time log.                                    *)

\* The estimate is computed from what is behind the anchor and then the history.
LEMMA EstimatedIs ==
  ObserverInv => Estimated = anchor.log \o measurements /\ Estimated \in Seq(Measurement)
<1> SUFFICES ASSUME ObserverInv
             PROVE  Estimated = anchor.log \o measurements /\ Estimated \in Seq(Measurement)
  OBVIOUS
<1>1. /\ measurements \in Seq(Measurement) /\ checkpoints \in Seq(Points)
      /\ Len(checkpoints) = Len(measurements) /\ anchor.log \in Seq(Measurement)
  BY Typed DEF ObserverInv
<1>2. CASE measurements = <<>>
  <2>1. checkpoints = <<>> /\ anchor.log = <<>>
    BY <1>1, <1>2, EmptySeq DEF ObserverInv
  <2>2. anchor.log \o measurements = anchor.log
    BY <1>1, <1>2, ConcatEmptySeq
  <2> QED
    BY <1>1, <2>1, <2>2 DEF Estimated
<1>3. CASE measurements # <<>>
  <2>1. Len(measurements) \in 1..Len(checkpoints) /\ checkpoints # <<>>
    BY <1>1, <1>3, EmptySeq, LenProperties
  <2>2. Estimated = anchor.log \o SubSeq(measurements, 1, Len(measurements))
    BY <1>1, <2>1 DEF Estimated, ObserverInv, CheckpointsReplay
  <2>3. SubSeq(measurements, 1, Len(measurements)) = measurements
    BY <1>1, SubSeqFull
  <2>4. anchor.log \o measurements \in Seq(Measurement)
    BY <1>1, ConcatProperties
  <2> QED
    BY <2>2, <2>3, <2>4
<1> QED
  BY <1>2, <1>3

\* Two joined sequences, taken apart in the second.
LEMMA JoinSplits ==
  ASSUME NEW S, NEW a \in Seq(S), NEW b \in Seq(S), NEW x \in 0..Len(b)
  PROVE  /\ First(a \o b, Len(a) + x) = a \o First(b, x)
         /\ Rest(a \o b, Len(a) + x) = Rest(b, x)
<1> DEFINE s == a \o b
           n == Len(a)
           k == Len(b)
<1>1. Abuts(S, a, b, n, k)
  BY Abutting
<1>2. /\ s \in Seq(S) /\ Len(s) = n + k /\ n \in Nat /\ k \in Nat /\ x \in 0..k
      /\ \A i \in 1..n : s[i] = a[i]
      /\ \A i \in 1..k : s[n + i] = b[i]
  BY <1>1 DEF Abuts
<1>3. Len(a) = n /\ Len(b) = k
  OBVIOUS
<1> HIDE DEF s, n, k
<1>4. First(s, n) = a
  <2>1. n \in 0..Len(s) /\ n \in 0..Len(a)
    BY <1>2, <1>3
  <2>2. First(s, n) = First(a, n)
    BY <1>2, <2>1, SamePrefix
  <2> QED
    BY <1>3, <2>2, SubSeqFull DEF First
<1>5. Rest(s, n) = b
  <2>1. n \in 0..Len(s) /\ Len(b) = Len(s) - n /\ Len(s) - n = k
    BY <1>2, <1>3
  <2> QED
    BY <1>2, <2>1, SameRest
<1>6. First(s, n) \o First(Rest(s, n), x) = First(s, n + x)
  <2>1. n + k \in Nat /\ n \in 0..n + k /\ x \in 0..(n + k) - n
    BY <1>2
  <2> QED
    BY <1>2, <2>1, SplitFurther
<1>7. Rest(s, n + x) = Rest(b, x)
  <2>1. n + x \in 0..Len(s) /\ Len(s) - (n + x) = k - x
    BY <1>2
  <2>2. Halves(S, b, k, x, First(b, x), Rest(b, x))
    BY <1>2, <1>3, SplitAt
  <2>3. Rest(b, x) \in Seq(S) /\ Len(Rest(b, x)) = k - x /\ \A i \in 1..k - x : Rest(b, x)[i] = b[x + i]
    BY <2>2 DEF Halves
  <2>4. ASSUME NEW i \in 1..k - x PROVE s[n + x + i] = Rest(b, x)[i]
    <3>1. x + i \in 1..k /\ n + (x + i) = n + x + i
      BY <1>2
    <3> QED
      BY <1>2, <2>3, <3>1
  <2> QED
    BY <1>2, <2>1, <2>3, <2>4, SameRest
<1> QED
  BY <1>3, <1>4, <1>5, <1>6, <1>7 DEF s

Has(list, kind) == \E i \in 1..Len(list) : list[i].kind = kind

\* An admitted measurement enters the log behind those that are not newer, and
\* nothing leaves it.
LEMMA AdmitsIsAdmit ==
  ASSUME ObserverInv, NEW m \in Measurement, Admits(m)
  PROVE  /\ SourceLog!Admit(m)
         /\ Has(Estimated', m.kind)
         /\ \A kind : Has(Estimated, kind) => Has(Estimated', kind)
<1> DEFINE a == anchor.log
           ms == measurements
           list == Inserted(m)
           x == Index(m)
           n == Len(a)
           k == Len(ms)
           s == a \o ms
<1>1. anchor.stamp \in Int /\ m.stamp \in Int /\ anchor.stamp <= m.stamp
  <2>1. anchor.stamp \in Int /\ m.stamp \in Int
    BY Typed
  <2> QED
    BY <2>1 DEF Admits, TooOld
<1>2. /\ a \in Seq(Measurement) /\ ms \in Seq(Measurement)
      /\ Estimated = s /\ s \in Seq(Measurement)
      /\ \A i \in 1..n : a[i].stamp <= anchor.stamp
  BY EstimatedIs, Typed DEF ObserverInv
<1>3. Estimated' = a \o list
  <2>1. ObserverInv' /\ anchor'.log \o measurements' = a \o list
    BY AdmitsKeeps
  <2>2. (ObserverInv => Estimated = anchor.log \o measurements)'
    <3>1. ObserverInv => Estimated = anchor.log \o measurements
      BY EstimatedIs
    <3> QED
      BY <3>1, EstimatedIs, PTL
  <2> QED
    BY <2>1, <2>2
<1>4. /\ list \in Seq(Measurement) /\ Len(list) = k + 1 /\ x \in 0..k
      /\ \A i \in 1..x : list[i] = ms[i] /\ list[i].stamp <= m.stamp
      /\ list[x + 1] = m
      /\ \A i \in x + 2..k + 1 : list[i] = ms[i - 1] /\ m.stamp < list[i].stamp
  BY <1>1, InsertionSorted
<1>5. Abuts(Measurement, a, ms, n, k) /\ Abuts(Measurement, a, list, n, k + 1)
  BY <1>2, <1>4, Abutting
<1>6. /\ Len(s) = n + k /\ n \in Nat /\ k \in Nat /\ Len(Estimated') = n + (k + 1)
      /\ \A i \in 1..n : s[i] = a[i] /\ Estimated'[i] = a[i]
      /\ \A i \in 1..k : s[n + i] = ms[i]
      /\ \A i \in 1..k + 1 : Estimated'[n + i] = list[i]
  BY <1>3, <1>5 DEF Abuts
<1>7. First(s, n + x) = a \o First(ms, x) /\ Rest(s, n + x) = Rest(ms, x)
  BY <1>2, <1>4, JoinSplits
<1>8. list = (First(ms, x) \o <<m>>) \o Rest(ms, x)
  BY DEF Inserted
<1>9. Halves(Measurement, ms, k, x, First(ms, x), Rest(ms, x))
  <2>1. ms \in Seq(Measurement) /\ k \in Nat /\ Len(ms) = k /\ x \in 0..k
    BY <1>2, <1>4, <1>6
  <2> HIDE DEF ms, k, x
  <2> QED
    BY <2>1, SplitAt
<1> HIDE DEF a, ms, list, x, n, k, s
<1>10. Estimated' = (First(s, n + x) \o <<m>>) \o Rest(s, n + x)
  <2> DEFINE p == First(ms, x)
             r == Rest(ms, x)
             o == <<m>>
  <2>1. p \in Seq(Measurement) /\ r \in Seq(Measurement)
    BY <1>9 DEF Halves
  <2>2. o \in Seq(Measurement)
    OBVIOUS
  <2>3. Estimated' = a \o ((p \o o) \o r)
    BY <1>3, <1>8
  <2> HIDE DEF p, r, o
  <2>4. p \o o \in Seq(Measurement)
    BY <2>1, <2>2, ConcatProperties
  <2>5. a \o ((p \o o) \o r) = (a \o (p \o o)) \o r
    <3>1. a \in Seq(Measurement) /\ p \o o \in Seq(Measurement) /\ r \in Seq(Measurement)
      BY <1>2, <2>1, <2>4
    <3> DEFINE q == p \o o
    <3>2. q \in Seq(Measurement)
      BY <2>4
    <3> HIDE DEF q
    <3>3. a \o (q \o r) = (a \o q) \o r
      BY <3>1, <3>2, ConcatAssociative
    <3> QED
      BY <3>3 DEF q
  <2>6. a \o (p \o o) = (a \o p) \o o
    <3>1. a \in Seq(Measurement) /\ p \in Seq(Measurement) /\ o \in Seq(Measurement)
      BY <1>2, <2>1, <2>2
    <3> QED
      BY <3>1, ConcatAssociative
  <2>7. First(s, n + x) = a \o p /\ Rest(s, n + x) = r
    BY <1>7 DEF p, r
  <2> QED
    BY <2>3, <2>5, <2>6, <2>7 DEF o
<1>11. ASSUME NEW j \in 1..n + x PROVE s[j].stamp <= m.stamp
  <2>1. CASE j \in 1..n
    <3>1. a[j] \in Measurement
      BY <1>2, <2>1, ElementOfSeq DEF n
    <3>2. a[j].stamp \in Int /\ a[j].stamp <= anchor.stamp
      BY <1>2, <2>1, <3>1, ObserverAssumption DEF Measurement
    <3> QED
      BY <1>1, <1>6, <2>1, <3>2
  <2>2. CASE j \notin 1..n
    <3>1. j - n \in 1..x /\ j - n \in 1..k /\ n + (j - n) = j
      BY <1>4, <1>6, <2>2
    <3> QED
      BY <1>4, <1>6, <3>1
  <2> QED
    BY <2>1, <2>2
<1>12. ASSUME NEW j \in n + x + 1..n + k PROVE s[j].stamp > m.stamp
  <2>0. n \in Nat /\ k \in Nat /\ x \in 0..k
    BY <1>4, <1>6
  <2>1. /\ j - n \in 1..k /\ n + (j - n) = j /\ j - n + 1 \in x + 2..k + 1
        /\ j - n + 1 - 1 = j - n
    BY <2>0
  <2>2. s[n + (j - n)] = ms[j - n]
    BY <1>6, <2>1
  <2>3. list[j - n + 1] = ms[j - n + 1 - 1] /\ m.stamp < list[j - n + 1].stamp
    BY <1>4, <2>1
  <2>4. m.stamp < ms[j - n].stamp
    BY <2>1, <2>3
  <2>5. m.stamp < s[j].stamp
    BY <2>1, <2>2, <2>4
  <2> QED
    BY <2>5
<1>13. SourceLog!Admit(m)
  <2>1. n + x \in 0..Len(Estimated) /\ Len(Estimated) = n + k
    BY <1>2, <1>4, <1>6
  <2>2. \A j \in 1..n + x : Estimated[j].stamp <= m.stamp
    BY <1>2, <1>11
  <2>3. \A j \in n + x + 1..Len(Estimated) : Estimated[j].stamp > m.stamp
    BY <1>2, <1>12, <2>1
  <2>4. Estimated' = (SubSeq(Estimated, 1, n + x) \o <<m>>)
                       \o SubSeq(Estimated, n + x + 1, Len(Estimated))
    BY <1>2, <1>10 DEF First, Rest
  <2>5. \E i \in 0..Len(Estimated) :
          /\ \A j \in 1..i : Estimated[j].stamp <= m.stamp
          /\ \A j \in i + 1..Len(Estimated) : Estimated[j].stamp > m.stamp
          /\ Estimated' = (SubSeq(Estimated, 1, i) \o <<m>>) \o SubSeq(Estimated, i + 1, Len(Estimated))
    BY <2>1, <2>2, <2>3, <2>4
  <2> QED
    BY <2>5 DEF SourceLog!Admit
<1>14. Has(Estimated', m.kind)
  <2>1. x + 1 \in 1..k + 1 /\ n + (x + 1) \in 1..Len(Estimated')
    BY <1>4, <1>6
  <2> QED
    BY <1>4, <1>6, <2>1 DEF Has
<1>15. ASSUME NEW kind, Has(Estimated, kind) PROVE Has(Estimated', kind)
  <2>1. PICK j \in 1..n + k : s[j].kind = kind
    BY <1>2, <1>6, <1>15 DEF Has
  <2>2. CASE j \in 1..n
    <3>1. j \in 1..Len(Estimated') /\ Estimated'[j] = s[j]
      BY <1>6, <2>2
    <3> QED
      BY <2>1, <3>1 DEF Has
  <2>3. CASE j \notin 1..n
    <3>1. j - n \in 1..k /\ n + (j - n) = j
      BY <1>6, <2>3
    <3>2. s[j] = ms[j - n]
      BY <1>6, <3>1
    <3>3. CASE j - n \in 1..x
      <4>1. j \in 1..Len(Estimated') /\ j - n \in 1..k + 1
        BY <1>6, <3>1
      <4>2. Estimated'[j] = s[j]
        BY <1>4, <1>6, <3>1, <3>2, <3>3, <4>1
      <4> QED
        BY <2>1, <4>1, <4>2 DEF Has
    <3>4. CASE j - n \notin 1..x
      <4>1. /\ j + 1 \in 1..Len(Estimated') /\ j - n + 1 \in 1..k + 1
            /\ j - n + 1 \in x + 2..k + 1 /\ j - n + 1 - 1 = j - n /\ n + (j - n + 1) = j + 1
        BY <1>4, <1>6, <3>1, <3>4
      <4>2. Estimated'[j + 1] = list[j - n + 1] /\ list[j - n + 1] = ms[j - n]
        BY <1>4, <1>6, <4>1
      <4> QED
        BY <2>1, <3>2, <4>1, <4>2 DEF Has
    <3> QED
      BY <3>3, <3>4
  <2> QED
    BY <2>2, <2>3
<1> QED
  BY <1>13, <1>14, <1>15

-----------------------------------------------------------------------------
(* The node around the observer.                                           *)

\* The node refuses stamps past its clock, and counts a sensor as seen only
\* while the log holds one of its measurements.
NodeTypes ==
  /\ callback \in {"none", "wheel", "imu", "publish", "snapshot"}
  /\ lastClock \in 0..MaxTime /\ haveWheel \in BOOLEAN /\ haveForce \in BOOLEAN
Known == \A i \in 1..Len(measurements) : measurements[i].stamp <= lastClock
Seen  == (haveWheel => Has(Estimated, "speed")) /\ (haveForce => Has(Estimated, "force"))
NodeInv == ObserverInv /\ NodeTypes /\ Known /\ Seen

\* An empty observer satisfies the invariant.
LEMMA EmptyObserver ==
  measurements = <<>> /\ checkpoints = <<>> /\ anchor = Prior => ObserverInv /\ Estimated = <<>>
<1> SUFFICES ASSUME measurements = <<>>, checkpoints = <<>>, anchor = Prior
             PROVE  ObserverInv /\ Estimated = <<>>
  OBVIOUS
<1>1. /\ measurements \in Seq(Measurement) /\ checkpoints \in Seq(Points)
      /\ Len(measurements) = 0 /\ Len(checkpoints) = 0
  OBVIOUS
<1>2. anchor \in Points /\ anchor.log = <<>> /\ Len(anchor.log) = 0
  <2>1. <<>> \in Seq(Measurement) /\ Len(<<>>) = 0
    OBVIOUS
  <2> QED
    BY <2>1, ObserverAssumption DEF Points, Prior
<1>3. CheckpointsReplay /\ Sorted(measurements)
  BY <1>1 DEF CheckpointsReplay, Sorted
<1> QED
  BY <1>1, <1>2, <1>3, ObserverAssumption DEF ObserverInv, Estimated

\* A new observer knows nothing and has seen nothing.
LEMMA DiscardsKeeps ==
  ASSUME Discards
  PROVE  ObserverInv' /\ Estimated' = <<>> /\ Len(measurements') = 0
<1>1. (measurements = <<>> /\ checkpoints = <<>> /\ anchor = Prior => ObserverInv /\ Estimated = <<>>)'
  BY EmptyObserver, PTL
<1> QED
  BY <1>1 DEF Discards, Prior

\* What an unchanged observer keeps.
LEMMA UnchangedKeeps ==
  ASSUME UNCHANGED observerVars
  PROVE  /\ ObserverInv => ObserverInv'
         /\ Estimated' = Estimated /\ measurements' = measurements
  BY DEF observerVars, ObserverInv, CheckpointsReplay, Estimated

\* A clock reading leaves the observer as it is, or empties it.
LEMMA ClockKeeps ==
  ASSUME NodeInv, NEW now \in 0..MaxTime, ObservesClock(now),
         callback' \in {"none", "wheel", "imu", "publish", "snapshot"}
  PROVE  NodeInv' /\ [SourceLog!Next]_Estimated
<1>1. CASE now < lastClock
  <2>1. Discards /\ haveWheel' = FALSE /\ haveForce' = FALSE /\ lastClock' = now
    BY <1>1 DEF ObservesClock, Resets
  <2>2. ObserverInv' /\ Estimated' = <<>> /\ Len(measurements') = 0
    BY <2>1, DiscardsKeeps
  <2>3. NodeTypes'
    BY <2>1 DEF NodeTypes
  <2>4. Known' /\ Seen'
    BY <2>1, <2>2 DEF Known, Seen
  <2>5. SourceLog!Next
    BY <2>2 DEF SourceLog!Next, SourceLog!Forget
  <2> QED
    BY <2>2, <2>3, <2>4, <2>5 DEF NodeInv
<1>2. CASE ~(now < lastClock)
  <2>1. UNCHANGED observerVars /\ UNCHANGED <<haveWheel, haveForce>> /\ lastClock' = now
    BY <1>2 DEF ObservesClock, flags
  <2>2. ObserverInv' /\ Estimated' = Estimated /\ measurements' = measurements
    BY <2>1, UnchangedKeeps DEF NodeInv
  <2>3. NodeTypes'
    BY <2>1 DEF NodeInv, NodeTypes
  <2>4. Known'
    <3>1. ASSUME NEW i \in 1..Len(measurements) PROVE measurements[i].stamp <= now
      <4>1. measurements[i].stamp \in Int /\ measurements[i].stamp <= lastClock
        BY Typed DEF NodeInv, Known
      <4> QED
        BY <1>2, <4>1, ObserverAssumption DEF NodeInv, NodeTypes
    <3> QED
      BY <2>1, <2>2, <3>1 DEF Known
  <2>5. Seen'
    BY <2>1, <2>2 DEF NodeInv, Seen
  <2> QED
    BY <2>2, <2>3, <2>4, <2>5 DEF NodeInv
<1> QED
  BY <1>1, <1>2

\* A refused message changes neither the observer nor what was seen.
LEMMA RefusedKeeps ==
  ASSUME NodeInv, UNCHANGED <<observerVars, lastClock, haveWheel, haveForce>>,
         callback' \in {"none", "wheel", "imu", "publish", "snapshot"}
  PROVE  NodeInv' /\ [SourceLog!Next]_Estimated
<1>1. ObserverInv' /\ Estimated' = Estimated /\ measurements' = measurements
  BY UnchangedKeeps DEF NodeInv
<1>2. NodeTypes' /\ Known' /\ Seen'
  BY <1>1 DEF NodeInv, NodeTypes, Known, Seen
<1> QED
  BY <1>1, <1>2 DEF NodeInv

\* An admitted message of a sensor is in the log when its flag is set.
LEMMA ArrivesKeeps ==
  ASSUME NodeInv, NEW kind, Arrives(kind), lastClock' = lastClock,
         haveWheel' \in BOOLEAN, haveForce' \in BOOLEAN,
         haveWheel' => haveWheel \/ kind = "speed", haveForce' => haveForce \/ kind = "force",
         callback' \in {"none", "wheel", "imu", "publish", "snapshot"}
  PROVE  NodeInv' /\ [SourceLog!Next]_Estimated
<1>1. PICK m \in Measurement : m.kind = kind /\ m.stamp <= lastClock /\ Admits(m)
  BY DEF Arrives
<1>2. ObserverInv' /\ Known'
  <2>1. ObserverInv
    BY DEF NodeInv
  <2>2. /\ ObserverInv'
        /\ \A bound \in Int :
             m.stamp <= bound /\ (\A i \in 1..Len(measurements) : measurements[i].stamp <= bound)
               => \A i \in 1..Len(measurements') : measurements'[i].stamp <= bound
    BY <1>1, <2>1, AdmitsKeeps
  <2>3. lastClock \in Int
    BY ObserverAssumption DEF NodeInv, NodeTypes
  <2> QED
    BY <1>1, <2>2, <2>3 DEF NodeInv, Known
<1>3. /\ SourceLog!Admit(m) /\ Has(Estimated', kind)
      /\ \A other : Has(Estimated, other) => Has(Estimated', other)
  BY <1>1, AdmitsIsAdmit DEF NodeInv
<1>4. NodeTypes'
  BY DEF NodeInv, NodeTypes
<1>5. Seen'
  <2>1. haveWheel' => Has(Estimated', "speed")
    BY <1>3 DEF NodeInv, Seen
  <2>2. haveForce' => Has(Estimated', "force")
    BY <1>3 DEF NodeInv, Seen
  <2> QED
    BY <2>1, <2>2 DEF Seen
<1>6. SourceLog!Next
  BY <1>3 DEF SourceLog!Next
<1> QED
  BY <1>2, <1>4, <1>5, <1>6 DEF NodeInv

\* Every step of the node keeps the invariant and is one of the log's.
LEMMA StepKeeps ==
  ASSUME NodeInv, [AccelerationNext]_nodeVars
  PROVE  NodeInv' /\ [SourceLog!Next]_Estimated
<1>1. CASE Called
  BY <1>1, ClockKeeps DEF Called
<1>2. CASE OnWheel
  <2>1. CASE Arrives("speed") /\ haveWheel' = TRUE
    <3>1. haveForce' = haveForce /\ haveForce \in BOOLEAN /\ lastClock' = lastClock /\ callback' = "none"
      BY <1>2 DEF OnWheel, NodeInv, NodeTypes
    <3> QED
      BY <2>1, <3>1, ArrivesKeeps
  <2>2. CASE Refuses /\ UNCHANGED haveWheel
    BY <1>2, <2>2, RefusedKeeps DEF OnWheel, Refuses
  <2> QED
    BY <1>2, <2>1, <2>2 DEF OnWheel
<1>3. CASE OnImu
  <2>1. CASE Arrives("force") /\ haveForce' = TRUE /\ callback' = "publish"
    <3>1. haveWheel' = haveWheel /\ haveWheel \in BOOLEAN /\ lastClock' = lastClock
      BY <1>3 DEF OnImu, NodeInv, NodeTypes
    <3> QED
      BY <2>1, <3>1, ArrivesKeeps
  <2>2. CASE Refuses /\ UNCHANGED haveForce /\ callback' \in {"publish", "none"}
    <3>1. callback' \in {"none", "wheel", "imu", "publish", "snapshot"}
      BY <2>2
    <3> QED
      BY <1>3, <2>2, <3>1, RefusedKeeps DEF OnImu, Refuses
  <2> QED
    BY <1>3, <2>1, <2>2 DEF OnImu
<1>4. CASE ReadsAgain
  <2>1. CASE initialized
    <3>1. PICK now \in 0..MaxTime : ObservesClock(now) /\ callback' = "snapshot"
      BY <1>4, <2>1 DEF ReadsAgain
    <3> QED
      BY <3>1, ClockKeeps
  <2>2. CASE ~initialized
    BY <1>4, <2>2, RefusedKeeps DEF ReadsAgain, flags
  <2> QED
    BY <2>1, <2>2
<1>5. CASE Publishes
  BY <1>5, RefusedKeeps DEF Publishes
<1>6. CASE UNCHANGED nodeVars
  <2>1. UNCHANGED <<observerVars, lastClock, haveWheel, haveForce>> /\ callback' = callback
    BY <1>6 DEF nodeVars, flags
  <2>2. callback' \in {"none", "wheel", "imu", "publish", "snapshot"}
    BY <2>1 DEF NodeInv, NodeTypes
  <2> QED
    BY <2>1, <2>2, RefusedKeeps
<1> QED
  BY <1>1, <1>2, <1>3, <1>4, <1>5, <1>6 DEF AccelerationNext

\* The node begins with an empty history and an empty log.
LEMMA InitHolds == AccelerationInit => NodeInv /\ Estimated = <<>>
<1> SUFFICES ASSUME AccelerationInit PROVE NodeInv /\ Estimated = <<>>
  OBVIOUS
<1>1. ObserverInv /\ Estimated = <<>>
  BY EmptyObserver DEF AccelerationInit, ObserverInit
<1>2. NodeTypes /\ Known /\ Seen
  <2>1. Len(measurements) = 0
    BY DEF AccelerationInit, ObserverInit
  <2>2. /\ callback = "none" /\ haveWheel = FALSE /\ haveForce = FALSE
        /\ lastClock = 0 /\ 0 \in 0..MaxTime
    BY ObserverAssumption DEF AccelerationInit
  <2>3. NodeTypes
    BY <2>2 DEF NodeTypes
  <2>4. Known /\ Seen
    BY <2>1, <2>2 DEF Known, Seen
  <2> QED
    BY <2>3, <2>4
<1> QED
  BY <1>1, <1>2 DEF NodeInv

\* The invariant holds in every state (longitudinal_observer.cpp, receive; the
\* clock checks of longitudinal_acceleration.cpp).
THEOREM NodeInvariance == AccelerationSpec => []NodeInv
<1>1. AccelerationInit => NodeInv
  BY InitHolds
<1>2. NodeInv /\ [AccelerationNext]_nodeVars => NodeInv'
  BY StepKeeps
<1> QED
  BY <1>1, <1>2, PTL DEF AccelerationSpec

\* Every variable has its type, the history never exceeds its cap, and there is
\* one posterior for every kept measurement (receive, trim).
THEOREM AccelerationTypeCorrect == AccelerationSpec => []AccelerationTypeOK
<1>1. NodeInv => AccelerationTypeOK
  <2> SUFFICES ASSUME NodeInv PROVE AccelerationTypeOK
    OBVIOUS
  <2>1. /\ measurements \in Seq(Measurement) /\ Len(measurements) <= Cap
        /\ Len(checkpoints) = Len(measurements) /\ anchor \in Points
        /\ checkpoints \in Seq(Points)
    BY DEF NodeInv, ObserverInv
  <2>2. \A i \in 1..Len(checkpoints) : checkpoints[i] \in Points
    BY <2>1, ElementOfSeq
  <2>3. \A c \in Points : c.stamp \in 0..MaxTime /\ c.log \in Seq(Measurement)
    BY DEF Points
  <2>4. \A c \in {anchor} \union {checkpoints[i] : i \in 1..Len(checkpoints)} : c \in Points
    BY <2>1, <2>2
  <2>5. {haveWheel, haveForce} \subseteq BOOLEAN
    BY DEF NodeInv, NodeTypes
  <2> QED
    BY <2>1, <2>3, <2>4, <2>5 DEF AccelerationTypeOK, NodeInv, NodeTypes
<1> QED
  BY <1>1, NodeInvariance, PTL

\* No late measurement leaves a posterior stale (receive: the replay of the
\* suffix, and the trimming after it).
THEOREM PosteriorsReplay == AccelerationSpec => []CheckpointsReplay
<1>1. NodeInv => CheckpointsReplay
  BY DEF NodeInv, ObserverInv
<1> QED
  BY <1>1, NodeInvariance, PTL

\* The snapshot never throws once both sensors were seen, and its estimate is
\* made of both (publish_estimate, snapshot).
THEOREM SnapshotIsSafe == AccelerationSpec => []InitializedByBoth
<1>1. NodeInv => InitializedByBoth
  <2> SUFFICES ASSUME NodeInv, initialized PROVE
        /\ ~SnapshotThrows
        /\ \A kind \in {"speed", "force"} : \E i \in 1..Len(Estimated) : Estimated[i].kind = kind
    BY DEF InitializedByBoth
  <2>1. Has(Estimated, "speed") /\ Has(Estimated, "force")
    BY DEF NodeInv, Seen, initialized
  <2>2. checkpoints # <<>>
    <3> SUFFICES ASSUME checkpoints = <<>> PROVE FALSE
      OBVIOUS
    <3>1. Estimated = <<>> /\ Len(Estimated) = 0
      BY DEF Estimated
    <3> QED
      BY <2>1, <3>1 DEF Has
  <2>3. ~(lastClock < checkpoints[Len(checkpoints)].stamp)
    <3>1. Len(checkpoints) \in 1..Len(checkpoints) /\ Len(checkpoints) = Len(measurements)
      BY <2>2, EmptySeq, LenProperties DEF NodeInv, ObserverInv
    <3>2. checkpoints[Len(checkpoints)].stamp = measurements[Len(checkpoints)].stamp
      BY <3>1 DEF NodeInv, ObserverInv, CheckpointsReplay
    <3>3. /\ measurements[Len(checkpoints)].stamp \in Int
          /\ measurements[Len(checkpoints)].stamp <= lastClock
      BY <3>1, Typed DEF NodeInv, Known
    <3> QED
      BY <3>2, <3>3, ObserverAssumption DEF NodeInv, NodeTypes
  <2> QED
    BY <2>1, <2>2, <2>3 DEF SnapshotThrows, Has
<1> QED
  BY <1>1, NodeInvariance, PTL

\* The node implements the source-time log: whatever the order of arrival and
\* whatever was trimmed, the estimate is that of the admitted measurements in
\* the order of their stamps (longitudinal_observer.hpp, "Stable source-time
\* replay").
THEOREM ObserverImplementsLog == AccelerationSpec => ImplementsLog
<1>1. AccelerationInit => SourceLog!Idle
  BY InitHolds DEF SourceLog!Idle
<1>2. NodeInv /\ [AccelerationNext]_nodeVars => [SourceLog!Next]_Estimated
  BY StepKeeps
<1> QED
  BY <1>1, <1>2, NodeInvariance, PTL DEF AccelerationSpec, ImplementsLog, SourceLog!Spec

=============================================================================
