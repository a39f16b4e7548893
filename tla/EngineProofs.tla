----------------------------- MODULE EngineProofs -----------------------------
(***************************************************************************)
(* The engine and its host, for every capacity of the event channel, every *)
(* choice of stages and every bound of the traceroute and the probes:      *)
(* a report is never made of a diagnostic that was cancelled or cut short, *)
(* what holds of a traceroute by itself holds of the engine's, and the     *)
(* jitter kept from answer to answer is the one of all samples.            *)
(***************************************************************************)
EXTENDS Engine, SumTheorems, FunctionTheorems

(***************************************************************************)
(* Ranks and percentiles.  Samples are ranked by value, and equal ones by  *)
(* position (UpTo).  The ranks are a permutation, and its inverse is an    *)
(* order in which the samples ascend: Sorted has one to choose, and what   *)
(* it chooses makes no difference (AscendingBelow).                        *)
(***************************************************************************)

\* The positions of the samples up to the i-th in the order that PercentilesAgree
\* ranks them by: by value, and by position where values are equal.
UpTo(s, i) == {j \in 1..Len(s) : s[j] < s[i] \/ (s[j] = s[i] /\ j <= i)}

LEMMA NoCycle ==
    ASSUME NEW a \in Nat, NEW b \in Nat, NEW c \in Nat, c < a, a <= b, b <= c
    PROVE  FALSE
  OBVIOUS

LEMMA Places1To ==
    ASSUME NEW n \in Nat
    PROVE  IsFiniteSet(1..n) /\ Cardinality(1..n) = n
<1>1. IsFiniteSet(1..n) /\ Cardinality(1..n) = IF 1 > n THEN 0 ELSE n - 1 + 1
  BY FS_Interval
<1> QED
  BY <1>1

LEMMA UpToBelow ==
    ASSUME NEW s \in Seq(Nat), NEW i \in 1..Len(s), NEW j \in 1..Len(s),
           s[i] < s[j] \/ (s[i] = s[j] /\ i <= j)
    PROVE  UpTo(s, i) \subseteq UpTo(s, j) /\ (j \in UpTo(s, i) => i = j)
<1>1. \A k \in 1..Len(s) : s[k] \in Nat
  OBVIOUS
<1>2. ASSUME NEW k \in 1..Len(s), s[k] < s[i] \/ (s[k] = s[i] /\ k <= i)
      PROVE  s[k] < s[j] \/ (s[k] = s[j] /\ k <= j)
  <2>1. s[k] \in Nat /\ s[i] \in Nat /\ s[j] \in Nat
    BY <1>1
  <2> QED
    BY <1>2, <2>1
<1>3. s[i] \in Nat /\ s[j] \in Nat
  BY <1>1
<1>4. s[j] < s[i] \/ (s[j] = s[i] /\ j <= i) => i = j
  BY <1>3
<1> QED
  BY Zenon, <1>2, <1>4 DEF UpTo

LEMMA UpToOrder ==
    ASSUME NEW s \in Seq(Nat), NEW i \in 1..Len(s), NEW j \in 1..Len(s)
    PROVE  /\ i \in UpTo(s, i)
           /\ UpTo(s, i) \subseteq UpTo(s, j) \/ UpTo(s, j) \subseteq UpTo(s, i)
           /\ UpTo(s, i) = UpTo(s, j) => i = j
           /\ UpTo(s, i) \subseteq UpTo(s, j) => s[i] <= s[j]
<1>1. s[i] \in Nat /\ s[j] \in Nat
  OBVIOUS
<1>2. i \in UpTo(s, i) /\ j \in UpTo(s, j)
  BY <1>1 DEF UpTo
<1>3. CASE s[i] < s[j] \/ (s[i] = s[j] /\ i <= j)
  <2>1. UpTo(s, i) \subseteq UpTo(s, j) /\ (j \in UpTo(s, i) => i = j)
    BY Zenon, <1>3, UpToBelow
  <2>2. s[i] <= s[j]
    BY <1>1, <1>3
  <2> QED
    BY Zenon, <1>2, <2>1, <2>2
<1>4. CASE s[j] < s[i] \/ (s[j] = s[i] /\ j <= i)
  <2>1. UpTo(s, j) \subseteq UpTo(s, i) /\ (i \in UpTo(s, j) => j = i)
    BY Zenon, <1>4, UpToBelow
  <2>2. s[i] <= s[i]
    BY <1>1
  <2> QED
    BY Zenon, <1>2, <2>1, <2>2
<1> QED
  BY <1>1, <1>3, <1>4

\* Ranks are places 1, 2, ..., each of them once.
LEMMA RanksAreOrder ==
    ASSUME NEW s \in Seq(Nat),
           NEW rank, rank = [i \in 1..Len(s) |-> Cardinality(UpTo(s, i))]
    PROVE  /\ rank \in Bijection(1..Len(s), 1..Len(s))
           /\ \A i, j \in 1..Len(s) : rank[i] <= rank[j] => s[i] <= s[j]
<1> DEFINE I == 1..Len(s)
<1>1. Len(s) \in Nat
  OBVIOUS
<1>2. IsFiniteSet(I) /\ Cardinality(I) = Len(s)
  BY <1>1, Places1To
<1>3. ASSUME NEW i \in I
      PROVE  IsFiniteSet(UpTo(s, i)) /\ rank[i] = Cardinality(UpTo(s, i)) /\ rank[i] \in I
  <2>1. UpTo(s, i) \in SUBSET I
    BY DEF UpTo
  <2>2. IsFiniteSet(UpTo(s, i)) /\ Cardinality(UpTo(s, i)) <= Len(s)
    BY <1>2, <2>1, FS_Subset
  <2>3. Cardinality(UpTo(s, i)) \in Nat /\ Cardinality(UpTo(s, i)) # 0
    BY <2>2, UpToOrder, FS_CardinalityType, FS_EmptySet
  <2> QED
    BY <1>1, <2>2, <2>3
<1>4. ASSUME NEW i \in I, NEW j \in I, UpTo(s, i) \subseteq UpTo(s, j)
      PROVE  rank[i] <= rank[j] /\ (rank[i] = rank[j] => i = j)
  <2>1. /\ Cardinality(UpTo(s, i)) <= Cardinality(UpTo(s, j))
        /\ Cardinality(UpTo(s, j)) = Cardinality(UpTo(s, i)) => UpTo(s, j) = UpTo(s, i)
    BY <1>3, <1>4, FS_Subset
  <2>2. UpTo(s, i) = UpTo(s, j) => i = j
    BY UpToOrder
  <2> QED
    BY <1>3, <2>1, <2>2
<1>5. ASSUME NEW i \in I, NEW j \in I, rank[i] <= rank[j]
      PROVE  UpTo(s, i) \subseteq UpTo(s, j)
  <2>1. CASE UpTo(s, j) \subseteq UpTo(s, i)
    <3>1. rank[j] <= rank[i] /\ (rank[j] = rank[i] => j = i)
      BY <1>4, <2>1
    <3>2. rank[i] \in I /\ rank[j] \in I
      BY <1>3
    <3> QED
      BY <1>5, <3>1, <3>2
  <2> QED
    BY <2>1, UpToOrder
<1>6. rank \in [I -> I]
  BY <1>3
<1>7. \A i, j \in I : rank[i] = rank[j] => i = j
  <2>1. SUFFICES ASSUME NEW i \in I, NEW j \in I, rank[i] = rank[j] PROVE i = j
    OBVIOUS
  <2>2. rank[i] <= rank[j]
    BY <1>3, <2>1
  <2> QED
    BY <1>4, <1>5, <2>1, <2>2
<1>8. rank \in Injection(I, I)
  BY <1>6, <1>7, Fun_IsInj
<1>9. rank \in Surjection(I, I)
  BY <1>2, <1>8, FS_Injection
<1>10. rank \in Bijection(I, I)
  BY <1>8, <1>9 DEF Bijection
<1>11. \A i, j \in I : rank[i] <= rank[j] => s[i] <= s[j]
  BY <1>5, UpToOrder
<1> QED
  BY <1>10, <1>11

\* The inverse of the ranks is an order in which the samples ascend.
LEMMA RankedOrder ==
    ASSUME NEW s \in Seq(Nat)
    PROVE  \E p \in Ascending(s) :
              \A i, r \in 1..Len(s) : Cardinality(UpTo(s, i)) = r <=> i = p[r]
<1> DEFINE I == 1..Len(s)
           rank == [i \in I |-> Cardinality(UpTo(s, i))]
           p == Inverse(rank, I, I)
<1>1. /\ rank \in Bijection(I, I)
      /\ \A i, j \in I : rank[i] <= rank[j] => s[i] <= s[j]
  BY RanksAreOrder
<1>2. \A i \in I : rank[i] = Cardinality(UpTo(s, i))
  OBVIOUS
<1> HIDE DEF rank
<1>3. p \in Bijection(I, I) /\ \A i \in I : p[rank[i]] = i
  BY <1>1, Fun_BijInverse
<1> HIDE DEF p
<1> HIDE DEF I
<1>4. /\ rank \in [I -> I] /\ p \in [I -> I]
      /\ \A i, j \in I : rank[i] = rank[j] => i = j
      /\ \A r \in I : \E i \in I : rank[i] = r
  BY <1>1, <1>3 DEF Bijection, Injection, Surjection, IsInjective
<1>5. \A r \in I : rank[p[r]] = r
  BY <1>3, <1>4
<1>6. ASSUME NEW i \in I, NEW j \in I, i <= j PROVE s[p[i]] <= s[p[j]]
  <2>1. p[i] \in I /\ p[j] \in I
    BY <1>4
  <2>2. rank[p[i]] <= rank[p[j]]
    BY <1>5, <1>6
  <2> QED
    BY <1>1, <2>1, <2>2
<1>7. p \in Ascending(s)
  BY <1>3, <1>6 DEF Ascending, I
<1>8. \A i, r \in I : rank[i] = r <=> i = p[r]
  BY <1>3, <1>4, <1>5
<1> QED
  BY <1>2, <1>7, <1>8 DEF I

\* Two ascending orders pass the same samples: if p came to a greater one at k than q,
\* the first k of q would all be among the first k - 1 of p.
LEMMA AscendingBelow ==
    ASSUME NEW s \in Seq(Nat), NEW p \in Ascending(s), NEW q \in Ascending(s),
           NEW k \in 1..Len(s)
    PROVE  s[p[k]] <= s[q[k]]
<1> DEFINE I == 1..Len(s)
<1>1. /\ p \in [I -> I] /\ q \in [I -> I]
      /\ \A i, j \in I : q[i] = q[j] => i = j
      /\ \A r \in I : \E i \in I : p[i] = r
  <2>1. p \in Bijection(I, I) /\ q \in Bijection(I, I)
    BY DEF Ascending
  <2> HIDE DEF I
  <2> QED
    BY <2>1 DEF Bijection, Injection, Surjection, IsInjective
<1>2. \A i \in I : s[i] \in Nat
  OBVIOUS
<1>3. /\ \A i, j \in I : i <= j => s[p[i]] <= s[p[j]]
      /\ \A i, j \in I : i <= j => s[q[i]] <= s[q[j]]
  BY DEF Ascending
<1>4. ASSUME s[q[k]] < s[p[k]] PROVE FALSE
  <2> DEFINE Place(i) == CHOOSE j \in I : p[j] = q[i]
             f == [i \in 1..k |-> Place(i)]
  <2>1. ASSUME NEW i \in 1..k PROVE Place(i) \in 1..(k - 1) /\ p[Place(i)] = q[i]
    <3>1. i \in I /\ i <= k
      OBVIOUS
    <3>2. q[i] \in I
      BY <1>1, <3>1
    <3>3. Place(i) \in I /\ p[Place(i)] = q[i]
      BY <1>1, <3>2
    <3> HIDE DEF Place
    <3>4. s[p[Place(i)]] <= s[q[k]]
      BY <1>3, <3>1, <3>3
    <3>5. ~(k <= Place(i))
      <4>1. SUFFICES ASSUME k <= Place(i) PROVE FALSE
        OBVIOUS
      <4>2. s[p[k]] <= s[p[Place(i)]]
        BY <1>3, <3>3, <4>1
      <4>3. s[p[k]] \in Nat /\ s[p[Place(i)]] \in Nat /\ s[q[k]] \in Nat
        BY <1>1, <1>2, <3>3
      <4> QED
        BY <1>4, <3>4, <4>2, <4>3, NoCycle, Zenon
    <3> QED
      BY <3>3, <3>5
  <2>2. f \in [1..k -> 1..(k - 1)]
    BY <2>1
  <2>3. \A i \in 1..k : p[f[i]] = q[i]
    BY <2>1
  <2> HIDE DEF f
  <2>4. /\ IsFiniteSet(1..k) /\ Cardinality(1..k) = k
        /\ IsFiniteSet(1..(k - 1)) /\ Cardinality(1..(k - 1)) = k - 1
    BY FS_Interval
  <2>5. PICK x \in 1..k, y \in 1..k : x # y /\ f[x] = f[y]
    <3>1. Cardinality(1..(k - 1)) < Cardinality(1..k)
      BY <2>4
    <3> QED
      BY <2>2, <2>4, <3>1, FS_PigeonHole
  <2>6. q[x] = q[y]
    BY <2>3, <2>5
  <2>7. x \in I /\ y \in I
    OBVIOUS
  <2> QED
    BY <1>1, <2>5, <2>6, <2>7
<1>5. s[p[k]] \in Nat /\ s[q[k]] \in Nat
  BY <1>1, <1>2
<1> QED
  BY <1>4, <1>5

\* The sorted samples ascend, and the one at place r is the sample of rank r.
LEMMA SortedByRank ==
    ASSUME NEW s \in Seq(Nat)
    PROVE  /\ Len(Sorted(s)) = Len(s)
           /\ \A r \in 1..Len(s) : Sorted(s)[r] \in Nat
           /\ \A i, j \in 1..Len(s) : i <= j => Sorted(s)[i] <= Sorted(s)[j]
           /\ \A r \in 1..Len(s) :
                Sorted(s)[r] = s[CHOOSE i \in 1..Len(s) : Cardinality(UpTo(s, i)) = r]
<1> DEFINE I == 1..Len(s)
<1>1. PICK p \in Ascending(s) :
         \A i, r \in I : Cardinality(UpTo(s, i)) = r <=> i = p[r]
  BY RankedOrder
<1> DEFINE q == CHOOSE x \in Ascending(s) : TRUE
<1>2. q \in Ascending(s)
  BY <1>1
<1>3. Sorted(s) = [i \in I |-> s[q[i]]]
  BY DEF Sorted
<1>4. \A i \in I : s[i] \in Nat
  OBVIOUS
<1> HIDE DEF q
<1>5. /\ p \in [I -> I] /\ q \in [I -> I]
      /\ \A i, j \in I : i <= j => s[q[i]] <= s[q[j]]
  BY <1>2 DEF Ascending, Bijection, Injection
<1>6. ASSUME NEW r \in I PROVE s[q[r]] = s[p[r]]
  <2>1. s[q[r]] <= s[p[r]] /\ s[p[r]] <= s[q[r]]
    BY <1>2, AscendingBelow
  <2>2. s[q[r]] \in Nat /\ s[p[r]] \in Nat
    BY <1>4, <1>5
  <2> QED
    BY <2>1, <2>2
<1>7. ASSUME NEW r \in I PROVE p[r] = CHOOSE i \in I : Cardinality(UpTo(s, i)) = r
  <2>1. p[r] \in I
    BY <1>5
  <2> QED
    BY <1>1, <2>1
<1>8. Len(Sorted(s)) = Len(s)
  <2>1. ASSUME NEW i \in 1..Len(s) PROVE s[q[i]] \in Nat
    <3>1. q[i] \in I
      BY <1>5
    <3> QED
      BY <1>4, <3>1
  <2>2. Len([i \in 1..Len(s) |-> s[q[i]]]) = Len(s)
    BY <2>1
  <2> QED
    BY <1>3, <2>2
<1>9. \A r \in I : Sorted(s)[r] = s[q[r]] /\ s[q[r]] \in Nat
  BY <1>3, <1>4, <1>5
<1>10. \A r \in I : Sorted(s)[r] = s[CHOOSE i \in I : Cardinality(UpTo(s, i)) = r]
  BY <1>6, <1>7, <1>9
<1>11. \A i, j \in I : i <= j => Sorted(s)[i] <= Sorted(s)[j]
  BY <1>5, <1>9
<1> QED
  BY <1>8, <1>9, <1>10, <1>11

(***************************************************************************)
(* Percentiles of an ascending sequence of numbers.                        *)
(***************************************************************************)

Ascends(t) ==
    /\ Len(t) \in Nat \ {0}
    /\ \A i \in 1..Len(t) : t[i] \in Nat
    /\ \A i, j \in 1..Len(t) : i <= j => t[i] <= t[j]

\* The position of a percentile in hundredths is p * m: it is l and r hundredths, and u
\* is the upper neighbour.
Located(m, p, l, u, r) ==
    /\ l \in 0..m /\ u \in 0..m /\ r \in 0..99
    /\ p * m = 100 * l + r
    /\ r = 0 => u = l
    /\ r # 0 => u = l + 1

LEMMA PositionType ==
    ASSUME NEW m \in Nat, NEW p \in 0..100
    PROVE  p * m \in Nat /\ p * m <= 100 * m
<1>1. p * m \in Nat /\ (100 - p) * m \in Nat
  OBVIOUS
<1>2. p * m + (100 - p) * m = 100 * m
  OBVIOUS
<1> QED
  BY <1>1, <1>2

LEMMA Hundredths ==
    ASSUME NEW m \in Nat, NEW x \in Nat, x <= 100 * m
    PROVE  /\ x \div 100 \in 0..m /\ x % 100 \in 0..99
           /\ x = 100 * (x \div 100) + (x % 100)
           /\ x % 100 # 0 => x \div 100 < m
  OBVIOUS

LEMMA PositionWithin ==
    ASSUME NEW m \in Nat, NEW p \in 0..100
    PROVE  LET x == p * m
               l == x \div 100
               r == x % 100
           IN Located(m, p, l, IF r = 0 THEN l ELSE l + 1, r)
<1> DEFINE x == p * m
           l == x \div 100
           r == x % 100
<1>1. x \in Nat /\ x <= 100 * m
  BY PositionType
<1> HIDE DEF x
<1>2. l \in 0..m /\ r \in 0..99 /\ x = 100 * l + r /\ (r # 0 => l < m)
  BY <1>1, Hundredths
<1> HIDE DEF l, r
<1>3. Located(m, p, l, IF r = 0 THEN l ELSE l + 1, r)
  BY <1>2 DEF Located, x
<1> QED
  BY <1>3 DEF x, l, r

LEMMA PositionsRise ==
    ASSUME NEW m \in Nat, NEW p \in 0..100, NEW q \in 0..100, p <= q
    PROVE  p * m <= q * m
<1>1. (q - p) * m \in Nat /\ p * m \in Nat /\ q * m \in Nat
  OBVIOUS
<1>2. p * m + (q - p) * m = q * m
  OBVIOUS
<1> QED
  BY <1>1, <1>2

\* Interpolation: r hundredths of the way from a to b.
Between(a, b, r) == 100 * a + r * (b - a)

LEMMA PercentileWithin ==
    ASSUME NEW t, Ascends(t), NEW p \in 0..100
    PROVE  \E l \in Nat, u \in Nat, r \in Nat :
              /\ Located(Len(t) - 1, p, l, u, r)
              /\ Percentile(t, p) = Between(t[l + 1], t[u + 1], r)
<1> DEFINE m == Len(t) - 1
           x == p * m
           l == x \div 100
           r == x % 100
           u == IF r = 0 THEN l ELSE l + 1
<1>1. m \in Nat
  BY DEF Ascends
<1>2. Located(m, p, l, u, r)
  BY <1>1, PositionWithin
<1>3. Percentile(t, p) = Between(t[l + 1], t[u + 1], r)
  BY DEF Percentile, Between
<1> HIDE DEF m, l, r, u
<1>4. l \in Nat /\ u \in Nat /\ r \in Nat
  BY <1>1, <1>2 DEF Located
<1> QED
  BY <1>2, <1>3, <1>4 DEF m

LEMMA BetweenRises ==
    ASSUME NEW a \in Nat, NEW b \in Nat, a <= b, NEW r \in 0..99
    PROVE  /\ Between(a, b, r) \in Nat
           /\ 100 * a <= Between(a, b, r) /\ Between(a, b, r) <= 100 * b
           /\ \A e \in 0..99 : r <= e => Between(a, b, r) <= Between(a, b, e)
<1> DEFINE d == b - a
<1>1. d \in Nat
  OBVIOUS
<1> HIDE DEF d
<1>2. r * d \in Nat /\ r * d <= 100 * d
  BY <1>1, PositionType
<1>3. \A e \in 0..99 : r <= e => r * d <= e * d
  BY <1>1, PositionsRise
<1>4. \A e \in 0..99 : e * d \in Nat
  BY <1>1
<1>5. b = a + d
  BY DEF d
<1>6. \A e \in 0..99 : Between(a, b, e) = 100 * a + e * d
  BY DEF Between, d
<1> QED
  BY <1>1, <1>2, <1>3, <1>4, <1>5, <1>6

LEMMA PercentilesRise ==
    ASSUME NEW t, Ascends(t), NEW p \in 0..100, NEW q \in 0..100, p <= q
    PROVE  Percentile(t, p) <= Percentile(t, q)
<1> DEFINE m == Len(t) - 1
<1>1. m \in Nat
  BY DEF Ascends
<1>2. PICK l \in Nat, u \in Nat, r \in Nat :
         Located(m, p, l, u, r) /\ Percentile(t, p) = Between(t[l + 1], t[u + 1], r)
  BY PercentileWithin
<1>3. PICK k \in Nat, w \in Nat, e \in Nat :
         Located(m, q, k, w, e) /\ Percentile(t, q) = Between(t[k + 1], t[w + 1], e)
  BY PercentileWithin
<1>4. p * m <= q * m
  BY <1>1, PositionsRise
<1> DEFINE a == t[l + 1]
           b == t[u + 1]
           c == t[k + 1]
           d == t[w + 1]
<1>5. /\ l <= u /\ k <= w /\ r \in 0..99 /\ e \in 0..99
      /\ l \in 0..m /\ u \in 0..m /\ k \in 0..m /\ w \in 0..m
  <2>1. l <= u /\ r \in 0..99 /\ l \in 0..m /\ u \in 0..m
    BY <1>2 DEF Located
  <2>2. k <= w /\ e \in 0..99 /\ k \in 0..m /\ w \in 0..m
    BY <1>3 DEF Located
  <2> QED
    BY <2>1, <2>2
<1>6. \/ l < k /\ u <= k
      \/ l = k /\ r <= e /\ (r = 0 \/ u = w)
  <2>1. /\ p * m = 100 * l + r /\ q * m = 100 * k + e
        /\ r = 0 => u = l
        /\ r # 0 => u = l + 1
        /\ e # 0 => w = k + 1
    BY <1>2, <1>3 DEF Located
  <2>2. 100 * l + r <= 100 * k + e
    BY <1>4, <2>1
  <2> HIDE DEF m
  <2> QED
    BY <1>5, <2>1, <2>2
<1>7. /\ a \in Nat /\ b \in Nat /\ c \in Nat /\ d \in Nat /\ a <= b /\ c <= d
      /\ u <= k => b <= c
  <2>1. /\ l + 1 \in 1..Len(t) /\ u + 1 \in 1..Len(t) /\ k + 1 \in 1..Len(t)
        /\ w + 1 \in 1..Len(t) /\ l + 1 <= u + 1 /\ k + 1 <= w + 1
        /\ u <= k => u + 1 <= k + 1
    BY <1>1, <1>5
  <2> QED
    BY <2>1 DEF Ascends
<1>8. /\ Percentile(t, p) = Between(a, b, r) /\ Percentile(t, q) = Between(c, d, e)
      /\ l = k => a = c
      /\ u = w => b = d
  BY <1>2, <1>3
<1> HIDE DEF a, b, c, d, m
<1>9. /\ Between(a, b, r) \in Nat /\ Between(c, d, e) \in Nat
      /\ Between(a, b, r) <= 100 * b
      /\ 100 * c <= Between(c, d, e)
      /\ r <= e => Between(a, b, r) <= Between(a, b, e)
      /\ r = 0 => Between(a, b, r) = 100 * a
  <2>1. r = 0 => Between(a, b, r) = 100 * a
    BY <1>7 DEF Between
  <2>2. /\ Between(a, b, r) \in Nat /\ Between(a, b, r) <= 100 * b
        /\ r <= e => Between(a, b, r) <= Between(a, b, e)
    BY <1>5, <1>7, BetweenRises
  <2>3. Between(c, d, e) \in Nat /\ 100 * c <= Between(c, d, e)
    BY <1>5, <1>7, BetweenRises
  <2> QED
    BY <2>1, <2>2, <2>3
<1>10. CASE l < k /\ u <= k
  BY <1>7, <1>8, <1>9, <1>10
<1>11. CASE l = k /\ r <= e /\ (r = 0 \/ u = w)
  <2>1. CASE r = 0
    BY <1>7, <1>8, <1>9, <1>11, <2>1
  <2>2. CASE u = w
    <3>1. a = c /\ b = d
      BY <1>8, <1>11, <2>2
    <3> QED
      BY <1>8, <1>9, <1>11, <3>1
  <2> QED
    BY <1>11, <2>1, <2>2
<1> QED
  BY <1>6, <1>10, <1>11

LEMMA PercentileEnds ==
    ASSUME NEW t, Ascends(t)
    PROVE  /\ Percentile(t, 0) = 100 * t[1]
           /\ Percentile(t, 100) = 100 * t[Len(t)]
<1> DEFINE m == Len(t) - 1
<1>1. m \in Nat
  BY DEF Ascends
<1>2. /\ 0 * m = 0 /\ 0 \div 100 = 0 /\ 0 % 100 = 0
      /\ (100 * m) \div 100 = m /\ (100 * m) % 100 = 0
  BY <1>1
<1>3. t[1] \in Nat /\ t[Len(t)] \in Nat /\ m + 1 = Len(t)
  BY DEF Ascends
<1> HIDE DEF m
<1>4. Percentile(t, 0) = 100 * t[0 + 1] + 0 * (t[0 + 1] - t[0 + 1])
  BY <1>2 DEF Percentile, m
<1>5. Percentile(t, 100) = 100 * t[m + 1] + 0 * (t[m + 1] - t[m + 1])
  BY <1>2 DEF Percentile, m
<1> QED
  BY <1>3, <1>4, <1>5

\* The median is the middle, or the mean of the two in the middle.
LEMMA MedianSplits ==
    ASSUME NEW t, Ascends(t)
    PROVE  /\ (Len(t) + 1) \div 2 \in 1..Len(t) /\ Len(t) \div 2 + 1 \in 1..Len(t)
           /\ Percentile(t, 50) = 50 * (t[(Len(t) + 1) \div 2] + t[Len(t) \div 2 + 1])
<1> DEFINE n == Len(t)
<1>1. n \in Nat \ {0}
  BY DEF Ascends
<1>2. PICK l \in Nat, u \in Nat, r \in Nat :
         Located(n - 1, 50, l, u, r) /\ Percentile(t, 50) = Between(t[l + 1], t[u + 1], r)
  <2>1. 50 \in 0..100
    OBVIOUS
  <2> QED
    BY <2>1, PercentileWithin
<1>3. \/ r = 0 /\ n = 2 * l + 1 /\ u = l
      \/ r = 50 /\ n = 2 * l + 2 /\ u = l + 1
  <2>1. 50 * (n - 1) = 100 * l + r /\ r \in 0..99 /\ (r = 0 => u = l) /\ (r # 0 => u = l + 1)
    BY <1>2 DEF Located
  <2> HIDE DEF n
  <2>2. r = 50 * (n - 1 - 2 * l)
    BY <1>1, <2>1
  <2>3. n - 1 - 2 * l = 0 \/ n - 1 - 2 * l = 1
    BY <1>1, <2>1, <2>2
  <2> QED
    BY <1>1, <2>1, <2>2, <2>3
<1>4. l + 1 \in 1..n /\ u + 1 \in 1..n
  BY <1>1, <1>3
<1>5. t[l + 1] \in Nat /\ t[u + 1] \in Nat
  BY <1>4 DEF Ascends
<1> HIDE DEF n
<1>6. (n + 1) \div 2 = l + 1 /\ n \div 2 + 1 = u + 1
  BY <1>1, <1>3
<1>7. Percentile(t, 50) = 50 * (t[l + 1] + t[u + 1])
  BY <1>2, <1>3, <1>5 DEF Between
<1> QED
  BY <1>4, <1>6, <1>7 DEF n

(***************************************************************************)
(* The traceroute by itself: late answers are never credited to another    *)
(* hop, for every hop limit and number of probes up to 255, every route    *)
(* and every order of arrival.                                             *)
(*                                                                         *)
(* The probe that is waited for is one of the hop at hand (Waiting), and   *)
(* every answer of the round is one to a probe of this hop that had its    *)
(* turn (RoundIsOwn).  As sequence numbers tell probes apart               *)
(* (SeqNoInjective), an answer that matches is the hop's own, and one to   *)
(* the probe that is waited for: no probe is counted twice.                *)
(***************************************************************************)

Shape ==
    /\ ttl \in 0..MaxHops
    /\ probe \in 0..Probes
    /\ round \in Rounds
    /\ hops \in Seq(Hops) /\ Len(hops) <= MaxHops
    /\ sent \subseteq Probed

InRound == place = "icmp" /\ ttl = Len(hops) + 1

\* The last hop is numbered ttl at most, so that the next one is numbered higher.
Waiting ==
    /\ waited # NoProbe => InRound /\ probe < Probes /\ waited = SeqNo(ttl, probe)
    /\ place = "icmp" => ttl \in {Len(hops), Len(hops) + 1}
    /\ place \in {"off", "resolve", "tool"} => ttl = 0 /\ hops = <<>>
    /\ place = "output" => Len(hops) <= ttl /\ \A i \in 1..Len(hops) : hops[i].number <= ttl

RoundIsOwn ==
    /\ Len(round.rtts) <= probe
    /\ \A i \in 1..Len(round.rtts) : round.rtts[i].ttl = ttl /\ round.rtts[i].probe < probe
    /\ \A i, j \in 1..Len(round.rtts) : i < j => round.rtts[i].probe < round.rtts[j].probe
    /\ round.ip = IF round.rtts = <<>> THEN NoAddress ELSE round.rtts[1].from
    /\ ~InRound => round = NoRound /\ probe = 0

TraceInv == Shape /\ Waiting /\ RoundIsOwn /\ HopsAreOwn

USE HopsAssumption, ProbesAssumption, DistancesAssumption

\* Two probes of a trace never share a sequence number.
LEMMA SeqNoInjective ==
    ASSUME NEW t \in 1..MaxHops, NEW p \in 0..(Probes - 1),
           NEW u \in 1..MaxHops, NEW q \in 0..(Probes - 1),
           SeqNo(t, p) = SeqNo(u, q)
    PROVE  t = u /\ p = q
<1>1. SeqNo(t, p) = t * 256 + p /\ SeqNo(u, q) = u * 256 + q
  BY DEF SeqNo
<1>2. t \in Nat /\ u \in Nat /\ p \in 0..254 /\ q \in 0..254
  OBVIOUS
<1>3. t * 256 + p = u * 256 + q
  BY <1>1
<1> HIDE HopsAssumption, ProbesAssumption
<1>4. t = u
  BY <1>2, <1>3
<1> QED
  BY <1>2, <1>3, <1>4

LEMMA RouteTypes ==
    ASSUME Shape
    PROVE  /\ ttl \in Nat /\ probe \in Nat /\ Len(hops) \in Nat
           /\ \A i \in 1..Len(hops) : hops[i].number \in Nat
           /\ round.rtts \in Seq(Answers) /\ Len(round.rtts) \in Nat
           /\ \A i \in 1..Len(round.rtts) : round.rtts[i].probe \in Nat
<1>1. ttl \in Nat /\ probe \in Nat /\ Len(hops) \in Nat
  BY DEF Shape
<1>2. \A i \in 1..Len(hops) : hops[i] \in Hops
  BY DEF Shape
<1>3. \A h \in Hops : h.number \in Nat
  BY DEF Hops
<1>4. round.rtts \in Seq(Answers)
  BY DEF Shape, Rounds
<1>5. \A i \in 1..Len(round.rtts) : round.rtts[i] \in Answers
  BY <1>4
<1>6. \A a \in Answers : a.probe \in Nat
  BY DEF Answers
<1>7. Len(round.rtts) \in Nat
  BY <1>4
<1> QED
  BY Zenon, <1>1, <1>2, <1>3, <1>4, <1>5, <1>6, <1>7

LEMMA SameHops ==
    ASSUME HopsAreOwn, hops' = hops, place' = "icmp" => place = "icmp"
    PROVE  HopsAreOwn'
  BY DEF HopsAreOwn

LEMMA SameRound ==
    ASSUME Shape, RoundIsOwn, ~InRound, ~InRound', UNCHANGED <<probe, round>>
    PROVE  RoundIsOwn'
  BY DEF RoundIsOwn, NoRound

\* A hop that is appended keeps the others as they are.
LEMMA AppendHop ==
    ASSUME Shape, HopsAreOwn, Len(hops) < MaxHops,
           NEW hop \in Hops, OwnAnswers(hop), hops' = Append(hops, hop),
           \A i \in 1..Len(hops) : hops[i].number < hop.number,
           place' = "icmp" => place = "icmp" /\ hop.number = Len(hops) + 1
    PROVE  /\ hops' \in Seq(Hops) /\ Len(hops') = Len(hops) + 1 /\ Len(hops') <= MaxHops
           /\ HopsAreOwn'
           /\ \A i \in 1..Len(hops') : hops'[i].number <= hop.number
<1>1. /\ hops' \in Seq(Hops) /\ Len(hops') = Len(hops) + 1 /\ Len(hops) \in Nat
      /\ \A i \in 1..Len(hops) : hops'[i] = hops[i]
      /\ hops'[Len(hops) + 1] = hop
  BY DEF Shape
<1>2. \A i \in 1..Len(hops') : i \in 1..Len(hops) \/ i = Len(hops) + 1
  BY <1>1
<1>3. \A i \in 1..Len(hops) : hops[i].number \in Nat
  BY RouteTypes
<1>4. hop.number \in Nat
  BY DEF Hops
<1>5. \A i \in 1..Len(hops') : OwnAnswers(hops'[i])
  BY <1>1, <1>2 DEF HopsAreOwn
<1>6. ASSUME NEW i \in 1..Len(hops'), NEW j \in 1..Len(hops'), i < j
      PROVE  hops'[i].number < hops'[j].number
  <2>1. i \in 1..Len(hops)
    BY <1>1, <1>6
  <2>2. CASE j \in 1..Len(hops)
    BY <1>1, <1>6, <2>1, <2>2 DEF HopsAreOwn
  <2>3. CASE j = Len(hops) + 1
    BY <1>1, <2>1, <2>3
  <2> QED
    BY <1>2, <2>2, <2>3
<1>7. ASSUME place' = "icmp", NEW i \in 1..Len(hops') PROVE hops'[i].number = i
  <2>1. CASE i \in 1..Len(hops)
    BY <1>1, <1>7, <2>1 DEF HopsAreOwn
  <2>2. CASE i = Len(hops) + 1
    BY <1>1, <1>7, <2>2
  <2> QED
    BY <1>2, <2>1, <2>2
<1>8. \A i \in 1..Len(hops') : hops'[i].number <= hop.number
  <2> SUFFICES ASSUME NEW i \in 1..Len(hops') PROVE hops'[i].number <= hop.number
    OBVIOUS
  <2>1. CASE i \in 1..Len(hops)
    BY <1>1, <1>3, <1>4, <2>1
  <2>2. CASE i = Len(hops) + 1
    BY <1>1, <1>4, <2>2
  <2> QED
    BY <1>2, <2>1, <2>2
<1>9. HopsAreOwn'
  BY Zenon, <1>5, <1>6, <1>7 DEF HopsAreOwn
<1>10. Len(hops') <= MaxHops
  BY <1>1
<1> QED
  BY Zenon, <1>1, <1>8, <1>9, <1>10

LEMMA InitInv == TraceInit => TraceInv
  BY DEF TraceInit, TraceInv, Shape, Waiting, InRound, RoundIsOwn, HopsAreOwn,
         NoRound, Rounds, Nodes, NoAddress, Dest, Alias

\* An answer that matches joins the round of its own hop, behind those of the hop's
\* earlier probes.
LEMMA ReceiveInv == TraceInv /\ Receive => TraceInv'
<1> SUFFICES ASSUME TraceInv, Receive PROVE TraceInv'
  OBVIOUS
<1> USE DEF TraceInv
<1>1. PICK s \in sent : \E reply \in Replies(s[1], s[2]) :
        IF Matches(reply)
        THEN round' = Credited(reply) /\ waited' = NoProbe /\ probe' = probe + 1
        ELSE UNCHANGED <<round, waited, probe>>
  BY DEF Receive
<1>2. PICK reply \in Answers :
        IF Matches(reply)
        THEN round' = Credited(reply) /\ waited' = NoProbe /\ probe' = probe + 1
        ELSE UNCHANGED <<round, waited, probe>>
  BY <1>1 DEF Replies
<1>3. /\ waited # NoProbe /\ InRound /\ probe < Probes /\ waited = SeqNo(ttl, probe)
      /\ ttl \in 1..MaxHops /\ probe \in 0..(Probes - 1) /\ probe \in Nat
      /\ UNCHANGED <<place, ttl, hops, completed, sent, cancelled>>
  BY DEF Receive, Waiting, Shape, InRound
<1>4. HopsAreOwn'
  BY <1>3, SameHops
<1>5. CASE ~Matches(reply)
  BY <1>2, <1>3, <1>4, <1>5 DEF Shape, Waiting, InRound, RoundIsOwn
<1>6. CASE Matches(reply)
  <2>1. reply.ttl = ttl /\ reply.probe = probe
    <3>1. reply.ttl \in 1..MaxHops /\ reply.probe \in 0..(Probes - 1)
      BY DEF Answers
    <3> QED
      BY <1>3, <1>6, <3>1, SeqNoInjective DEF Matches
  <2>2. /\ round'.rtts = Append(round.rtts, reply)
        /\ round'.ip = IF round.ip = NoAddress THEN reply.from ELSE round.ip
        /\ round' \in Rounds
    <3>1. round \in Rounds /\ round' = Credited(reply)
      BY <1>2, <1>6 DEF Shape
    <3>2. Append(round.rtts, reply) \in Seq(Answers)
      BY <3>1 DEF Rounds
    <3>3. /\ reply.from \in Nodes /\ reply.echo \in BOOLEAN
          /\ (round.reached \/ reply.echo \/ reply.from = Dest) \in BOOLEAN
      BY <3>1 DEF Answers, Rounds
    <3> QED
      BY <3>1, <3>2, <3>3 DEF Credited, Rounds
  <2>3. /\ round.rtts \in Seq(Answers) /\ Len(round.rtts) \in Nat
        /\ Len(round'.rtts) = Len(round.rtts) + 1
        /\ \A i \in 1..Len(round.rtts) : round'.rtts[i] = round.rtts[i]
        /\ round'.rtts[Len(round.rtts) + 1] = reply
    BY <2>2 DEF Shape, Rounds
  <2>4. \A i \in 1..Len(round'.rtts) : i \in 1..Len(round.rtts) \/ i = Len(round.rtts) + 1
    BY <2>3
  <2>5. round'.ip = round'.rtts[1].from /\ round'.rtts # <<>>
    <3>1. CASE round.rtts = <<>>
      BY <2>2, <2>3, <3>1 DEF RoundIsOwn
    <3>2. CASE round.rtts # <<>>
      <4>1. round.rtts[1] \in Answers /\ round'.rtts[1] = round.rtts[1]
        BY <2>3, <3>2
      <4>2. round.ip = round.rtts[1].from /\ round.ip # NoAddress
        BY <3>2, <4>1 DEF RoundIsOwn, Answers, Nodes, NoAddress, Dest, Alias
      <4> QED
        BY <2>2, <2>3, <4>1, <4>2
    <3> QED
      BY <3>1, <3>2
  <2>6. InRound' /\ probe' = probe + 1 /\ ttl' = ttl
    BY <1>2, <1>3, <1>6 DEF InRound
  <2>7. \A i \in 1..Len(round.rtts) :
          /\ round.rtts[i].ttl = ttl /\ round.rtts[i].probe < probe
          /\ round.rtts[i].probe \in Nat
    BY RouteTypes DEF RoundIsOwn
  <2>8. Len(round'.rtts) <= probe'
    BY <1>3, <2>3, <2>6 DEF RoundIsOwn
  <2>9. ASSUME NEW i \in 1..Len(round'.rtts)
        PROVE  round'.rtts[i].ttl = ttl' /\ round'.rtts[i].probe < probe'
    <3>1. CASE i \in 1..Len(round.rtts)
      <4>1. /\ round'.rtts[i] = round.rtts[i] /\ round.rtts[i].ttl = ttl
            /\ round.rtts[i].probe < probe /\ round.rtts[i].probe \in Nat
        BY Zenon, <2>3, <2>7, <3>1
      <4> QED
        BY <1>3, <2>6, <4>1
    <3>2. CASE i = Len(round.rtts) + 1
      <4>1. round'.rtts[i] = reply
        BY <2>3, <3>2
      <4> QED
        BY <1>3, <2>1, <2>6, <4>1
    <3> QED
      BY <2>4, <3>1, <3>2
  <2>10. ASSUME NEW i \in 1..Len(round'.rtts), NEW j \in 1..Len(round'.rtts), i < j
         PROVE  round'.rtts[i].probe < round'.rtts[j].probe
    <3>1. i \in 1..Len(round.rtts)
      BY <2>3, <2>10
    <3>2. CASE j \in 1..Len(round.rtts)
      BY <2>3, <2>10, <3>1, <3>2 DEF RoundIsOwn
    <3>3. CASE j = Len(round.rtts) + 1
      BY <2>1, <2>3, <2>7, <3>1, <3>3
    <3> QED
      BY <2>4, <3>2, <3>3
  <2>11. RoundIsOwn'
    BY <2>5, <2>6, <2>8, <2>9, <2>10 DEF RoundIsOwn
  <2>12. Shape'
    <3>1. probe' \in 0..Probes
      BY <1>3, <2>6
    <3> QED
      BY <1>3, <2>2, <3>1 DEF Shape
  <2>13. Waiting'
    BY <1>2, <1>3, <1>6 DEF Waiting, InRound
  <2> QED
    BY <1>4, <2>11, <2>12, <2>13
<1> QED
  BY <1>5, <1>6

LEMMA SendInv == TraceInv /\ Send => TraceInv'
<1> SUFFICES ASSUME TraceInv, Send PROVE TraceInv'
  OBVIOUS
<1> USE DEF TraceInv
<1>1. /\ InRound /\ probe \in 0..(Probes - 1) /\ ttl \in 1..MaxHops
      /\ waited' = SeqNo(ttl, probe)
      /\ sent' = sent \union {<<ttl, probe>>}
      /\ UNCHANGED <<place, ttl, probe, round, hops, completed, cancelled>>
  BY DEF Send, Probing, InRound, Shape
<1>2. sent' \subseteq Probed
  BY <1>1 DEF Shape, Probed
<1>3. Shape' /\ Waiting'
  BY <1>1, <1>2 DEF Shape, Waiting, InRound
<1>4. RoundIsOwn'
  BY <1>1 DEF InRound, RoundIsOwn
<1>5. HopsAreOwn'
  BY <1>1, SameHops
<1> QED
  BY <1>3, <1>4, <1>5

\* The round becomes a hop.
LEMMA EndHopInv == TraceInv /\ EndHop => TraceInv'
<1> SUFFICES ASSUME TraceInv, EndHop PROVE TraceInv'
  OBVIOUS
<1> USE DEF TraceInv
<1>1. /\ InRound /\ waited = NoProbe
      /\ hops' = Append(hops, HopOf(round)) /\ round' = NoRound /\ probe' = 0
      /\ UNCHANGED <<place, ttl, waited, sent, cancelled>>
  BY DEF EndHop, EndsRound, InRound
<1>2. /\ HopOf(round) \in Hops
      /\ HopOf(round).number = Len(hops) + 1 /\ HopOf(round).number = ttl
      /\ Len(hops) < MaxHops
      /\ HopOf(round).rtts = round.rtts /\ HopOf(round).ip = round.ip
  <2>1. ttl = Len(hops) + 1 /\ ttl \in 1..MaxHops /\ Len(hops) < MaxHops
    <3>1. ttl \in 0..MaxHops /\ ttl = Len(hops) + 1
      BY <1>1 DEF Shape, InRound
    <3>2. Len(hops) \in Nat
      BY RouteTypes
    <3> QED
      BY <3>1, <3>2
  <2>2. /\ round.ip \in Nodes \union {NoAddress} /\ round.rtts \in Seq(Answers)
        /\ (round.timeout /\ round.ip = NoAddress) \in BOOLEAN
    BY DEF Shape, Rounds
  <2> QED
    BY <2>1, <2>2 DEF HopOf, Hops
<1>3. OwnAnswers(HopOf(round))
  <2>1. Len(round.rtts) <= Probes
    <3>1. Len(round.rtts) \in Nat /\ Len(round.rtts) <= probe /\ probe \in 0..Probes
      BY RouteTypes DEF RoundIsOwn, Shape
    <3> QED
      BY <3>1
  <2>2. /\ \A i \in 1..Len(round.rtts) : round.rtts[i].ttl = ttl
        /\ \A i, j \in 1..Len(round.rtts) : i < j => round.rtts[i].probe < round.rtts[j].probe
        /\ round.ip = IF round.rtts = <<>> THEN NoAddress ELSE round.rtts[1].from
    BY Zenon DEF RoundIsOwn
  <2> QED
    BY Zenon, <1>2, <2>1, <2>2 DEF OwnAnswers
<1>4. \A i \in 1..Len(hops) : hops[i].number < HopOf(round).number
  <2>1. \A i \in 1..Len(hops) : hops[i].number = i
    BY <1>1 DEF HopsAreOwn, InRound
  <2> QED
    BY <1>2, <2>1
<1>5. /\ hops' \in Seq(Hops) /\ Len(hops') = Len(hops) + 1 /\ Len(hops') <= MaxHops
      /\ HopsAreOwn'
  BY <1>1, <1>2, <1>3, <1>4, AppendHop DEF InRound
<1>6. NoRound \in Rounds
  BY DEF NoRound, Rounds
<1>7. Shape' /\ Waiting'
  BY <1>1, <1>5, <1>6 DEF Shape, Waiting, InRound, NoProbe
<1>8. RoundIsOwn'
  BY <1>1 DEF RoundIsOwn, NoRound
<1> QED
  BY <1>5, <1>7, <1>8

\* A line of the tool becomes a hop, numbered higher than those before.
LEMMA ParseLineInv == TraceInv /\ ParseLine => TraceInv'
<1> SUFFICES ASSUME TraceInv, ParseLine PROVE TraceInv'
  OBVIOUS
<1> USE DEF TraceInv
<1>1. PICK name \in {Dest, Alias}, k \in 0..Probes :
        \E line \in [1..k -> 1..(ttl + 1) \union {name}] :
            hops' = Append(hops, ParseHopLine(ttl + 1, line))
  BY DEF ParseLine
<1>2. PICK line \in [1..k -> 1..(ttl + 1) \union {name}] :
        hops' = Append(hops, ParseHopLine(ttl + 1, line))
  BY <1>1
<1> DEFINE hop == ParseHopLine(ttl + 1, line)
<1>3. /\ place = "output" /\ ttl < MaxHops /\ ttl' = ttl + 1
      /\ UNCHANGED <<place, probe, waited, round, sent, completed, cancelled>>
  BY DEF ParseLine, NextLine, roundVars
<1>4. ttl + 1 \in 1..MaxHops /\ Len(hops) < MaxHops /\ ttl \in Nat /\ Len(hops) \in Nat
  BY <1>3 DEF Shape, Waiting
<1>5. /\ line \in Seq(Nodes) /\ Len(line) = k /\ k \in Nat /\ k <= Probes
      /\ \A i \in 1..k : line[i] \in Nodes
  <2>1. 1..(ttl + 1) \union {name} \subseteq Nodes
    BY <1>4 DEF Nodes
  <2>2. line \in [1..k -> Nodes] /\ k \in Nat
    BY <2>1
  <2> QED
    BY <2>2
<1>6. /\ hop.number = ttl + 1 /\ hop.timeout = (line = <<>>)
      /\ hop.ip = IF line = <<>> THEN NoAddress ELSE line[1]
      /\ hop = [number |-> hop.number, rtts |-> hop.rtts, timeout |-> hop.timeout,
                ip |-> hop.ip]
      /\ hop.rtts = [i \in 1..k |->
            [ttl |-> ttl + 1, probe |-> i - 1, from |-> line[i], echo |-> FALSE]]
  BY <1>5 DEF ParseHopLine
<1>7. hop.rtts \in [1..k -> Answers]
  <2>1. ASSUME NEW i \in 1..k
        PROVE  [ttl |-> ttl + 1, probe |-> i - 1, from |-> line[i], echo |-> FALSE] \in Answers
    <3>1. i - 1 \in 0..(Probes - 1) /\ line[i] \in Nodes
      BY <1>5
    <3> QED
      BY <1>4, <3>1 DEF Answers
  <2> QED
    BY <1>6, <2>1
<1>8. hop.rtts \in Seq(Answers) /\ Len(hop.rtts) = k
  BY <1>5, <1>7
<1>9. line # <<>> => 1 \in 1..k /\ hop.rtts # <<>>
  BY <1>5, <1>8
<1>10. hop \in Hops
  <2>1. hop.ip \in Nodes \union {NoAddress} /\ hop.timeout \in BOOLEAN
    BY <1>5, <1>6, <1>9
  <2> QED
    BY <1>4, <1>6, <1>8, <2>1 DEF Hops
<1>11. OwnAnswers(hop)
  <2>1. \A i \in 1..k : hop.rtts[i].ttl = ttl + 1 /\ hop.rtts[i].probe = i - 1
    BY <1>6
  <2>2. \A i, j \in 1..k : i < j => hop.rtts[i].probe < hop.rtts[j].probe
    BY <1>5, <2>1
  <2>3. hop.ip = IF hop.rtts = <<>> THEN NoAddress ELSE hop.rtts[1].from
    <3>1. CASE line = <<>>
      <4>1. hop.rtts = <<>>
        BY <1>5, <1>8, <3>1
      <4> QED
        BY <1>6, <3>1, <4>1
    <3>2. CASE line # <<>>
      BY <1>6, <1>9, <3>2
    <3> QED
      BY <3>1, <3>2
  <2> QED
    BY <1>5, <1>6, <1>8, <2>1, <2>2, <2>3 DEF OwnAnswers
<1>12. \A i \in 1..Len(hops) : hops[i].number < hop.number
  <2>1. \A i \in 1..Len(hops) : hops[i].number \in Nat /\ hops[i].number <= ttl
    BY <1>3, RouteTypes DEF Waiting
  <2> QED
    BY <1>4, <1>6, <2>1
<1>13. /\ hops' \in Seq(Hops) /\ Len(hops') = Len(hops) + 1 /\ Len(hops') <= MaxHops
       /\ HopsAreOwn'
       /\ \A i \in 1..Len(hops') : hops'[i].number <= hop.number
  BY <1>2, <1>3, <1>4, <1>10, <1>11, <1>12, AppendHop
<1>14. Shape'
  BY <1>3, <1>4, <1>13 DEF Shape
<1>15. Waiting'
  BY <1>3, <1>4, <1>6, <1>13 DEF Waiting, InRound
<1>16. RoundIsOwn'
  BY <1>3, SameRound DEF InRound
<1> QED
  BY <1>13, <1>14, <1>15, <1>16

\* A line that is dropped takes its number with it.
LEMMA SkipLineInv == TraceInv /\ SkipLine => TraceInv'
<1> SUFFICES ASSUME TraceInv, SkipLine PROVE TraceInv'
  OBVIOUS
<1> USE DEF TraceInv
<1>1. /\ place = "output" /\ ttl < MaxHops /\ ttl' = ttl + 1
      /\ UNCHANGED <<place, probe, waited, round, sent, completed, cancelled, hops>>
  BY DEF SkipLine, NextLine, roundVars
<1>2. Shape'
  BY <1>1 DEF Shape
<1>3. Waiting'
  <2>1. Len(hops) \in Nat /\ ttl \in Nat /\ \A i \in 1..Len(hops) : hops[i].number \in Nat
    BY RouteTypes
  <2>2. Len(hops) <= ttl + 1 /\ \A i \in 1..Len(hops) : hops[i].number <= ttl + 1
    BY <1>1, <2>1 DEF Waiting
  <2> QED
    BY <1>1, <2>2 DEF Waiting, InRound
<1>4. RoundIsOwn'
  BY <1>1, SameRound DEF InRound
<1>5. HopsAreOwn'
  BY <1>1, SameHops
<1> QED
  BY <1>2, <1>3, <1>4, <1>5

\* A probe that is given up leaves the round as it is.
LEMMA ExpireInv == TraceInv /\ Expire => TraceInv'
<1> SUFFICES ASSUME TraceInv, Expire PROVE TraceInv'
  OBVIOUS
<1> USE DEF TraceInv
<1>1. round' = [round EXCEPT !.timeout = TRUE] /\ round' \in Rounds
  BY DEF Expire, Shape, Rounds
<1>2. round.rtts \in Seq(Answers) /\ round'.rtts = round.rtts /\ round'.ip = round.ip
  BY <1>1 DEF Shape, Rounds
<1>3. /\ InRound /\ probe < Probes /\ waited' = NoProbe /\ probe' = probe + 1
      /\ UNCHANGED <<place, ttl, hops, completed, sent, cancelled>>
  BY DEF Expire, Waiting
<1>4. Shape' /\ Waiting'
  <2>1. ttl' = ttl /\ probe' \in 0..Probes /\ hops' = hops /\ sent' = sent
    BY <1>3 DEF Shape
  <2>2. Shape'
    BY <1>1, <2>1 DEF Shape
  <2> QED
    BY <1>3, <2>2 DEF Waiting, InRound, NoProbe
<1>5. RoundIsOwn'
  <2>1. \A i \in 1..Len(round.rtts) :
          round.rtts[i].ttl = ttl' /\ round.rtts[i].probe < probe'
    <3>1. \A i \in 1..Len(round.rtts) :
            /\ round.rtts[i].ttl = ttl /\ round.rtts[i].probe < probe
            /\ round.rtts[i].probe \in Nat /\ probe \in Nat
      BY Zenon, RouteTypes DEF RoundIsOwn
    <3> QED
      BY <1>3, <3>1
  <2>2. Len(round.rtts) <= probe'
    BY <1>3, RouteTypes DEF RoundIsOwn
  <2> QED
    BY <1>2, <1>3, <2>1, <2>2 DEF RoundIsOwn, InRound
<1>6. HopsAreOwn'
  BY <1>3, SameHops
<1> QED
  BY <1>4, <1>5, <1>6

\* A probe that cannot be sent is passed over.
LEMMA SendFailsInv == TraceInv /\ SendFails => TraceInv'
<1> SUFFICES ASSUME TraceInv, SendFails PROVE TraceInv'
  OBVIOUS
<1> USE DEF TraceInv
<1>1. /\ InRound /\ probe < Probes /\ waited = NoProbe /\ probe' = probe + 1
      /\ UNCHANGED <<place, ttl, waited, round, hops, completed, sent, cancelled>>
  BY DEF SendFails, Probing, InRound
<1>2. Shape' /\ Waiting'
  <2>1. probe' \in 0..Probes
    BY <1>1 DEF Shape
  <2> QED
    BY <1>1, <2>1 DEF Shape, Waiting, InRound
<1>3. RoundIsOwn'
  <2>1. \A i \in 1..Len(round.rtts) :
          round.rtts[i].ttl = ttl' /\ round.rtts[i].probe < probe'
    <3>1. \A i \in 1..Len(round.rtts) :
            /\ round.rtts[i].ttl = ttl /\ round.rtts[i].probe < probe
            /\ round.rtts[i].probe \in Nat /\ probe \in Nat
      BY Zenon, RouteTypes DEF RoundIsOwn
    <3> QED
      BY <1>1, <3>1
  <2>2. Len(round.rtts) <= probe'
    BY <1>1, RouteTypes DEF RoundIsOwn
  <2> QED
    BY <1>1, <2>1, <2>2 DEF RoundIsOwn, InRound
<1>4. HopsAreOwn'
  BY <1>1, SameHops
<1> QED
  BY <1>2, <1>3, <1>4

\* The next hop begins with an empty round.
LEMMA NextHopInv == TraceInv /\ NextHop => TraceInv'
<1> SUFFICES ASSUME TraceInv, NextHop PROVE TraceInv'
  OBVIOUS
<1> USE DEF TraceInv
<1>1. /\ place = "icmp" /\ ttl = Len(hops) /\ ttl < MaxHops /\ ttl' = ttl + 1
      /\ UNCHANGED <<place, probe, waited, round, hops, completed, sent, cancelled>>
  BY DEF NextHop
<1>2. ~InRound /\ waited = NoProbe /\ round = NoRound /\ probe = 0
  <2>1. ~InRound
    BY <1>1, RouteTypes DEF InRound
  <2> QED
    BY <2>1 DEF RoundIsOwn, Waiting
<1>3. Shape' /\ Waiting'
  <2>1. ttl' \in 0..MaxHops
    BY <1>1, RouteTypes
  <2> QED
    BY <1>1, <1>2, <2>1 DEF Shape, Waiting
<1>4. RoundIsOwn'
  BY <1>1, <1>2 DEF RoundIsOwn, NoRound
<1>5. HopsAreOwn'
  BY <1>1, SameHops
<1> QED
  BY <1>3, <1>4, <1>5

\* The tool's lines are numbered anew.
LEMMA IcmpFailsInv == TraceInv /\ IcmpFails => TraceInv'
<1> SUFFICES ASSUME TraceInv, IcmpFails PROVE TraceInv'
  OBVIOUS
<1> USE DEF TraceInv
<1>1. /\ place = "icmp" /\ ttl = Len(hops) /\ place' \in {"failed", "tool"}
      /\ hops' = <<>> /\ ttl' = 0
      /\ UNCHANGED <<probe, waited, round, sent, completed, cancelled>>
  BY DEF IcmpFails, roundVars
<1>2. ~InRound /\ ~InRound' /\ waited = NoProbe
  BY <1>1, RouteTypes DEF InRound, Waiting
<1>3. Shape' /\ Waiting'
  BY <1>1, <1>2 DEF Shape, Waiting
<1>4. RoundIsOwn'
  BY <1>1, <1>2, SameRound
<1>5. HopsAreOwn'
  BY <1>1 DEF HopsAreOwn
<1> QED
  BY <1>3, <1>4, <1>5

\* No other action touches a hop or an answer.
LEMMA PlaceInv ==
    ASSUME TraceInv, BeginTrace \/ Resolve \/ Finish \/ ToolFails \/ ToolEnds \/ FinishOutput
    PROVE  TraceInv'
<1> USE DEF TraceInv
<1>1. /\ UNCHANGED <<ttl, probe, waited, round, sent, hops>>
      /\ \/ place = "off" /\ place' = "resolve"
         \/ place = "resolve" /\ place' \in {"icmp", "failed"}
         \/ place = "icmp" /\ ttl = Len(hops) /\ place' = "done"
         \/ place = "tool" /\ place' \in {"failed", "output"}
         \/ place = "output" /\ place' = "done"
  BY DEF BeginTrace, Resolve, Finish, ToolFails, ToolEnds, FinishOutput, socketVars, roundVars
<1>2. ~InRound /\ ~InRound' /\ waited = NoProbe
  BY <1>1, RouteTypes DEF InRound, Waiting
<1>3. Shape'
  BY <1>1 DEF Shape
<1>4. Waiting'
  BY <1>1, <1>2 DEF Waiting
<1>5. RoundIsOwn'
  BY <1>1, <1>2, SameRound
<1>6. HopsAreOwn'
  <2>1. CASE place = "resolve"
    BY <1>1, <2>1 DEF Waiting, HopsAreOwn
  <2>2. CASE place # "resolve"
    BY <1>1, <2>2, SameHops
  <2> QED
    BY <2>1, <2>2
<1> QED
  BY <1>3, <1>4, <1>5, <1>6

LEMMA StepInv == TraceInv /\ [TraceNext]_traceVars => TraceInv'
<1> SUFFICES ASSUME TraceInv, [TraceNext]_traceVars PROVE TraceInv'
  OBVIOUS
<1>1. CASE Telling
  BY Zenon, <1>1, EndHopInv, ParseLineInv, IcmpFailsInv DEF Telling
<1>2. CASE Quiet
  BY Zenon, <1>2, PlaceInv, NextHopInv, SendInv, SendFailsInv, ReceiveInv, ExpireInv,
     IcmpFailsInv, SkipLineInv DEF Quiet
<1>3. CASE UNCHANGED trace
  <2>1. HopsAreOwn'
    BY <1>3, SameHops DEF trace, TraceInv
  <2> QED
    BY <1>3, <2>1 DEF TraceInv, Shape, Waiting, InRound, RoundIsOwn, trace
<1> QED
  BY <1>1, <1>2, <1>3 DEF TraceNext, traceVars

\* At every moment a hop counts answers to its own probes, each probe once, and the
\* hops ascend, whatever the network repeats, delays or reorders and whatever lines the
\* tool's output has that are not understood.
THEOREM OwnHops == TraceSpec => []HopsAreOwn
<1>1. TraceInv => HopsAreOwn
  BY DEF TraceInv
<1> QED
  BY <1>1, InitInv, StepInv, PTL DEF TraceSpec

(***************************************************************************)
(* When a trace is complete.  The flag of the round tells whether one of   *)
(* its answers is the destination's (ReachedInv), and no further hop is    *)
(* begun after such a round.                                               *)
(***************************************************************************)
ByDest(r) == \E i \in 1..Len(r.rtts) : r.rtts[i].from = Dest

ReachedInv ==
    /\ round.reached <=> ByDest(round)
    /\ place \in {"off", "resolve", "tool", "output"} => ~completed
    /\ place = "icmp" /\ ttl = Len(hops) + 1 => ~completed
    /\ CompletedIsReached

LEMMA ReachedInit == TraceInit => ReachedInv
  BY DEF TraceInit, ReachedInv, ByDest, NoRound, CompletedIsReached

\* An answer is credited to the round together with what it says.
LEMMA ReachedReceive ==
    ASSUME TraceInv, ReachedInv, Receive
    PROVE  ReachedInv'
<1>1. PICK reply \in Answers : (reply.echo => reply.from = Dest) /\
        IF Matches(reply)
        THEN round' = Credited(reply) /\ waited' = NoProbe /\ probe' = probe + 1
        ELSE UNCHANGED <<round, waited, probe>>
  BY DEF Receive, Replies
<1>2. UNCHANGED <<place, ttl, hops, completed>>
  BY DEF Receive
<1>3. round'.reached <=> ByDest(round')
  <2>1. CASE ~Matches(reply)
    BY <1>1, <2>1 DEF ReachedInv, ByDest
  <2>2. CASE Matches(reply)
    <3>1. round.rtts \in Seq(Answers) /\ reply \in Answers /\ round \in Rounds
      BY DEF TraceInv, Shape, Rounds
    <3>2. /\ round'.rtts = Append(round.rtts, reply)
          /\ round'.reached = (round.reached \/ reply.echo \/ reply.from = Dest)
      BY <1>1, <2>2, <3>1 DEF Credited, Rounds
    <3>3. reply.echo => reply.from = Dest
      BY <1>1
    <3>4. /\ Len(round'.rtts) = Len(round.rtts) + 1 /\ Len(round.rtts) \in Nat
          /\ \A i \in 1..Len(round.rtts) : round'.rtts[i] = round.rtts[i]
          /\ round'.rtts[Len(round.rtts) + 1] = reply
      BY <3>1, <3>2
    <3>5. ByDest(round) => ByDest(round')
      <4>1. \A i \in 1..Len(round.rtts) : i \in 1..Len(round'.rtts)
        BY <3>4
      <4> QED
        BY <3>4, <4>1 DEF ByDest
    <3>6. reply.from = Dest => ByDest(round')
      <4>1. Len(round.rtts) + 1 \in 1..Len(round'.rtts)
        BY <3>4
      <4> QED
        BY <3>4, <4>1 DEF ByDest
    <3>7. ByDest(round') => ByDest(round) \/ reply.from = Dest
      <4>1. \A i \in 1..Len(round'.rtts) :
              i \in 1..Len(round.rtts) \/ i = Len(round.rtts) + 1
        BY <3>4
      <4> QED
        BY <3>4, <4>1 DEF ByDest
    <3> QED
      BY <3>2, <3>3, <3>5, <3>6, <3>7 DEF ReachedInv
  <2> QED
    BY <2>1, <2>2
<1> QED
  BY <1>1, <1>2, <1>3 DEF ReachedInv, CompletedIsReached, AnsweredBy

\* The last hop of a trace that goes on is not the destination's, so that the new one
\* is the only one that may be.
LEMMA ReachedEndHop ==
    ASSUME TraceInv, ReachedInv, EndHop
    PROVE  ReachedInv'
<1>1. /\ place = "icmp" /\ ttl = Len(hops) + 1 /\ ~completed
      /\ hops \in Seq(Hops) /\ Len(hops) \in Nat
  BY DEF EndHop, EndsRound, ReachedInv, TraceInv, Shape
<1>2. /\ hops' = Append(hops, HopOf(round)) /\ completed' = round.reached
      /\ round' = NoRound /\ UNCHANGED <<place, ttl>>
  BY DEF EndHop
<1>3. /\ Len(hops') = Len(hops) + 1 /\ hops' # <<>>
      /\ \A i \in 1..Len(hops) : hops'[i] = hops[i]
      /\ hops'[Len(hops) + 1] = HopOf(round)
  BY <1>1, <1>2
<1>4. AnsweredBy(HopOf(round), Dest) <=> round.reached
  BY DEF AnsweredBy, HopOf, ReachedInv, ByDest
<1>5. \A i \in 1..Len(hops) : ~AnsweredBy(hops[i], Dest)
  BY <1>1 DEF ReachedInv, CompletedIsReached
<1>6. CompletedIsReached'
  <2>1. completed' => AnsweredBy(hops'[Len(hops')], Dest)
    BY <1>2, <1>3, <1>4
  <2>2. ASSUME NEW i \in 1..Len(hops'), AnsweredBy(hops'[i], Dest)
        PROVE  completed' /\ i = Len(hops')
    BY <1>1, <1>2, <1>3, <1>4, <1>5, <2>2
  <2> QED
    BY <1>3, <2>1, <2>2 DEF CompletedIsReached, AnsweredBy
<1>7. round'.reached <=> ByDest(round')
  BY <1>2 DEF NoRound, ByDest
<1> QED
  BY <1>1, <1>2, <1>3, <1>6, <1>7 DEF ReachedInv

\* The tool says that the trace is complete by the address of its last line, which is
\* that of the line's first answer.
LEMMA ReachedOutput ==
    ASSUME TraceInv, ReachedInv, FinishOutput
    PROVE  ReachedInv'
<1>1. /\ place = "output" /\ place' = "done"
      /\ completed' = (hops # <<>> /\ hops[Len(hops)].ip = Dest)
      /\ UNCHANGED <<ttl, round, hops>>
  BY DEF FinishOutput, socketVars, roundVars
<1>2. completed' => AnsweredBy(hops'[Len(hops')], Dest)
  <2> SUFFICES ASSUME hops # <<>>, hops[Len(hops)].ip = Dest
               PROVE  AnsweredBy(hops[Len(hops)], Dest)
    BY <1>1
  <2>1. Len(hops) \in 1..Len(hops) /\ hops[Len(hops)] \in Hops
    BY DEF TraceInv, Shape
  <2>2. OwnAnswers(hops[Len(hops)])
    BY <2>1 DEF TraceInv, HopsAreOwn
  <2>3. hops[Len(hops)].rtts # <<>> /\ hops[Len(hops)].rtts[1].from = Dest
    BY <2>2 DEF OwnAnswers, Dest, NoAddress
  <2>4. 1 \in 1..Len(hops[Len(hops)].rtts)
    BY <2>1, <2>3 DEF Hops
  <2> QED
    BY <2>3, <2>4 DEF AnsweredBy
<1> QED
  BY <1>1, <1>2 DEF ReachedInv, CompletedIsReached, AnsweredBy

LEMMA ReachedStep == TraceInv /\ ReachedInv /\ [TraceNext]_traceVars => ReachedInv'
<1> SUFFICES ASSUME TraceInv, ReachedInv, [TraceNext]_traceVars PROVE ReachedInv'
  OBVIOUS
<1>1. CASE Receive
  BY <1>1, ReachedReceive
<1>2. CASE EndHop
  BY <1>2, ReachedEndHop
<1>3. CASE FinishOutput
  BY <1>3, ReachedOutput
<1>4. CASE ParseLine \/ SkipLine
  <2>1. UNCHANGED <<place, round, completed>> /\ place = "output"
    BY <1>4 DEF ParseLine, SkipLine, NextLine, roundVars
  <2> QED
    BY <2>1 DEF ReachedInv, ByDest, CompletedIsReached
<1>5. CASE Send
  BY <1>5 DEF Send, ReachedInv, ByDest, CompletedIsReached, AnsweredBy
<1>6. CASE Expire
  <2>1. round'.reached = round.reached /\ round'.rtts = round.rtts
    BY <1>6 DEF Expire, TraceInv, Shape, Rounds
  <2> QED
    BY <1>6, <2>1 DEF Expire, ReachedInv, ByDest, CompletedIsReached, AnsweredBy
<1>7. CASE BeginTrace \/ Resolve \/ NextHop \/ SendFails
  <2>1. UNCHANGED <<round, hops, completed>>
    BY <1>7 DEF BeginTrace, Resolve, NextHop, SendFails, socketVars, roundVars
  <2>2. (round.reached <=> ByDest(round))'
    BY <2>1 DEF ReachedInv, ByDest
  <2>3. CASE BeginTrace \/ Resolve
    <3>1. place \in {"off", "resolve"} /\ hops = <<>> /\ ~completed
      BY <2>3 DEF BeginTrace, Resolve, TraceInv, Waiting, ReachedInv
    <3> QED
      BY <2>1, <2>2, <3>1 DEF ReachedInv, CompletedIsReached
  <2>4. CASE NextHop \/ SendFails
    <3>1. place = "icmp" /\ place' = place /\ ~completed
      BY <2>4 DEF NextHop, SendFails, Probing, ReachedInv
    <3> QED
      BY <2>1, <2>2, <3>1 DEF ReachedInv, CompletedIsReached
  <2> QED
    BY <1>7, <2>3, <2>4
<1>8. CASE IcmpFails
  BY <1>8 DEF IcmpFails, roundVars, ReachedInv, ByDest, CompletedIsReached
<1>9. CASE Finish \/ ToolFails \/ ToolEnds
  <2>1. UNCHANGED <<round, hops, completed>>
    BY <1>9 DEF Finish, ToolFails, ToolEnds, socketVars, roundVars
  <2>2. (round.reached <=> ByDest(round))'
    BY <2>1 DEF ReachedInv, ByDest
  <2>3. place' \in {"done", "failed", "output"} /\ (place' = "output" => ~completed)
    BY <1>9 DEF Finish, ToolFails, ToolEnds, ReachedInv
  <2> QED
    BY <2>1, <2>2, <2>3 DEF ReachedInv, CompletedIsReached
<1>10. CASE UNCHANGED trace
  BY <1>10 DEF trace, ReachedInv, ByDest, CompletedIsReached, AnsweredBy
<1> QED
  BY <1>1, <1>2, <1>3, <1>4, <1>5, <1>6, <1>7, <1>8, <1>9, <1>10
  DEF TraceNext, Telling, Quiet, traceVars

\* A trace is complete exactly if its last hop is the destination's, and no hop is
\* probed beyond it.
THEOREM CompleteTraces == TraceSpec => []CompletedIsReached
<1>1. ReachedInv => CompletedIsReached
  BY DEF ReachedInv
<1>2. TraceInit => TraceInv /\ ReachedInv
  BY InitInv, ReachedInit
<1>3. TraceInv /\ ReachedInv /\ [TraceNext]_traceVars => (TraceInv /\ ReachedInv)'
  BY StepInv, ReachedStep
<1> QED
  BY <1>1, <1>2, <1>3, PTL DEF TraceSpec

(***************************************************************************)
(* The engine.                                                             *)
(***************************************************************************)

USE ConfigsAssumption

Required == Measurements \union {"udp"} \union asked

Position == 1..12

(***************************************************************************)
(* The flag is only set by a Cancel, which only a host that then stops     *)
(* sends: as long as it reads, and when it has returned a report, there is *)
(* neither.                                                                *)
(***************************************************************************)
FlagInv ==
    /\ host = "on" \/ answer = "ok" => ~mail /\ ~cancelled
    /\ host # "over" => answer = "none"

\* Without the flag every stage that is required and behind was entered.
ProgressInv ==
    /\ asked \subseteq Optional
    /\ \E i \in Position : stage \in {Stages[i], "failed"}
    /\ ~cancelled =>
        \A i, j \in Position :
            (stage = Stages[j] /\ Stages[i] \in Required
                /\ (i < j \/ (i = j /\ inside))) => Stages[i] \in ran

AnswerInv == answer = "ok" => stage = "done"

ReportInv == FlagInv /\ ProgressInv /\ AnswerInv

LEMMA StageList ==
    /\ Len(Stages) = 12
    /\ Stages[1] = "meta" /\ Stages[2] = "dns" /\ Stages[3] = "tls"
    /\ Stages[4] = "external" /\ Stages[5] = "compare" /\ Stages[6] = "traceroute"
    /\ Stages[7] = "latency" /\ Stages[8] = "download" /\ Stages[9] = "upload"
    /\ Stages[10] = "udp" /\ Stages[11] = "summary" /\ Stages[12] = "done"
  BY DEF Stages

LEMMA StagesDiffer ==
    /\ \A i, j \in Position : Stages[i] = Stages[j] => i = j
    /\ \A i \in Position : Stages[i] # "failed"
<1>1. ASSUME NEW i \in Position, NEW j \in Position, i # j PROVE Stages[i] # Stages[j]
  BY <1>1, StageList DEF Position
<1>2. ASSUME NEW i \in Position PROVE Stages[i] # "failed"
  BY StageList DEF Position
<1> QED
  BY <1>1, <1>2

LEMMA ReportInit == Init => ReportInv
  BY StageList, StagesDiffer DEF Init, ReportInv, FlagInv, ProgressInv, AnswerInv, Position

\* A stage that is not required, or was entered, may be left for the next.
LEMMA LeaveStage ==
    ASSUME ProgressInv, NextStage, UNCHANGED <<asked, cancelled, ran>>,
           ~cancelled /\ stage \in Required => inside
    PROVE  ProgressInv'
<1>1. PICK k \in 1..11 : stage = Stages[k] /\ stage' = Stages[k + 1]
  BY StageList DEF NextStage
<1>2. k \in Position /\ k + 1 \in Position
  BY DEF Position
<1>3. ~inside'
  BY DEF NextStage
<1>4. ASSUME ~cancelled, NEW i \in Position, NEW j \in Position, stage' = Stages[j],
             Stages[i] \in Required, i < j \/ (i = j /\ inside')
      PROVE  Stages[i] \in ran
  <2>1. j = k + 1
    BY <1>1, <1>2, <1>4, StagesDiffer
  <2>2. i < k + 1
    BY <1>3, <1>4, <2>1
  <2>3. CASE i < k
    BY <1>1, <1>2, <1>4, <2>3 DEF ProgressInv
  <2>4. CASE i = k
    BY <1>1, <1>2, <1>4, <2>4 DEF ProgressInv
  <2> QED
    BY <2>2, <2>3, <2>4 DEF Position
<1> QED
  BY <1>1, <1>2, <1>4 DEF ProgressInv, Required

LEMMA FailStage ==
    ASSUME ProgressInv, Fail, UNCHANGED asked
    PROVE  ProgressInv'
<1>1. stage' = "failed" /\ 1 \in Position
  BY DEF Fail, Position
<1> QED
  BY <1>1, StagesDiffer DEF ProgressInv

\* What leaves flag, stage and stages alone.
LEMMA SameStage ==
    ASSUME ReportInv, UNCHANGED <<cancelled, engine, mail, host, answer>>
    PROVE  ReportInv'
  BY DEF ReportInv, FlagInv, ProgressInv, AnswerInv, Required, engine

LEMMA SkipInv ==
    ASSUME ReportInv, Skip
    PROVE  ReportInv'
<1>1. /\ NextStage /\ ~inside /\ ~Wanted
      /\ stage \in Optional \union {"external", "udp"}
      /\ UNCHANGED <<asked, cancelled, ran, mail, host, answer>>
  BY DEF Skip, traceVars, control, caller
<1>2. ~cancelled /\ stage \in Required => inside
  BY <1>1 DEF Wanted, Required, Optional, Measurements, ReportInv, ProgressInv
<1>3. ProgressInv'
  BY <1>1, <1>2, LeaveStage DEF ReportInv
<1> QED
  BY <1>1, <1>3 DEF ReportInv, FlagInv, AnswerInv, Optional

LEMMA EnterInv ==
    ASSUME ReportInv, Enter
    PROVE  ReportInv'
<1>1. /\ inside' /\ ran' = ran \union {stage}
      /\ UNCHANGED <<asked, stage, cancelled, mail, host, answer>>
  BY DEF Enter, traceVars, control, caller
<1>2. ASSUME ~cancelled, NEW i \in Position, NEW j \in Position, stage = Stages[j],
             Stages[i] \in Required, i < j \/ i = j
      PROVE  Stages[i] \in ran'
  BY <1>1, <1>2 DEF ReportInv, ProgressInv
<1> QED
  BY <1>1, <1>2 DEF ReportInv, FlagInv, ProgressInv, AnswerInv, Required

LEMMA EngineStep ==
    ASSUME ReportInv, Run \/ Tell
    PROVE  ReportInv'
<1> USE DEF traceVars, control, caller, engine
<1>1. CASE StartFails
  <2>1. ProgressInv'
    BY <1>1, FailStage DEF StartFails, ReportInv
  <2> QED
    BY <1>1, <2>1 DEF StartFails, ReportInv, FlagInv, AnswerInv
<1>2. CASE FetchMeta
  <2>1. stage \notin Required
    BY <1>2 DEF FetchMeta, Required, Optional, Measurements, ReportInv, ProgressInv
  <2>2. ProgressInv'
    BY <1>2, <2>1, LeaveStage DEF FetchMeta, ReportInv
  <2> QED
    BY <1>2, <2>2 DEF FetchMeta, ReportInv, FlagInv, AnswerInv
<1>3. CASE Skip
  BY <1>3, SkipInv
<1>4. CASE Enter
  BY <1>4, EnterInv
<1>5. CASE LeaveDiagnostic \/ LeaveUdp
  <2>1. ProgressInv'
    BY <1>5, LeaveStage DEF LeaveDiagnostic, LeaveUdp, ReportInv
  <2> QED
    BY <1>5, <2>1 DEF LeaveDiagnostic, LeaveUdp, ReportInv, FlagInv, AnswerInv
<1>6. CASE Trace
  <2>1. UNCHANGED <<cancelled, engine, mail, host, answer>>
    BY <1>6 DEF Trace, Quiet, Telling, BeginTrace, Resolve, IcmpFails, NextHop, Send,
                SendFails, Receive, Expire, Finish, ToolFails, ToolEnds, FinishOutput,
                EndHop, ParseLine, SkipLine, NextLine
  <2> QED
    BY <2>1, SameStage
<1>7. CASE LeaveTrace
  <2>1. ProgressInv'
    BY <1>7, LeaveStage DEF LeaveTrace, ReportInv
  <2> QED
    BY <1>7, <2>1 DEF LeaveTrace, ReportInv, FlagInv, AnswerInv
<1>8. CASE Probe \/ Tell
  BY <1>8, SameStage DEF Probe, Tell, BeginProbes, Request, EndProbes, Answered, Unanswered
<1>9. CASE LeaveProbes
  <2>1. ProgressInv'
    BY <1>9, LeaveStage DEF LeaveProbes, ReportInv
  <2> QED
    BY <1>9, <2>1 DEF LeaveProbes, ReportInv, FlagInv, AnswerInv
<1>10. CASE LeaveThroughput
  <2>1. ProgressInv'
    BY <1>10, LeaveStage, FailStage DEF LeaveThroughput, ReportInv
  <2> QED
    BY <1>10, <2>1 DEF LeaveThroughput, ReportInv, FlagInv, AnswerInv
<1>11. CASE Summarise
  <2>1. stage \notin Required
    BY <1>11 DEF Summarise, Required, Optional, Measurements, ReportInv, ProgressInv
  <2>2. ProgressInv'
    BY <1>11, <2>1, LeaveStage DEF Summarise, ReportInv
  <2> QED
    BY <1>11, <2>2 DEF Summarise, ReportInv, FlagInv, AnswerInv
<1> QED
  BY <1>1, <1>2, <1>3, <1>4, <1>5, <1>6, <1>7, <1>8, <1>9, <1>10, <1>11 DEF Run

LEMMA ReportStep == ReportInv /\ [Next]_vars => ReportInv'
<1> SUFFICES ASSUME ReportInv, [Next]_vars PROVE ReportInv'
  OBVIOUS
<1> USE DEF traceVars, engine
<1>1. CASE Run \/ Tell
  BY <1>1, EngineStep
<1>2. CASE Listen
  BY <1>2 DEF Listen, Cancel, ReportInv, FlagInv, ProgressInv, AnswerInv, caller
<1>3. CASE ControlCloses \/ CancelToken \/ ReadEvent
  BY <1>3, SameStage DEF ControlCloses, CancelToken, ReadEvent, control, caller
<1>4. CASE SendCancel
  BY <1>4 DEF SendCancel, ReportInv, FlagInv, ProgressInv, AnswerInv, Required
<1>5. CASE StopWaiting \/ TakeResult \/ DropHost
  BY <1>5 DEF StopWaiting, TakeResult, DropHost, Return, control,
              ReportInv, FlagInv, ProgressInv, AnswerInv, Required
<1>6. CASE UNCHANGED vars
  BY <1>6, SameStage DEF vars, control, caller
<1> QED
  BY <1>1, <1>2, <1>3, <1>4, <1>5, <1>6 DEF Next

\* No report is made of a diagnostic that a Cancel has reached, nor before every stage
\* that was asked for has run: a host that has sent a Cancel never looks at the result,
\* in however many ways it and the engine may race (run_full, TestEngine::run).
THEOREM UncutReports == Spec => []ReportIsUncut
<1>1. ReportInv => ReportIsUncut
  <2> SUFFICES ASSUME ReportInv, answer = "ok"
               PROVE  ~cancelled /\ Required \subseteq ran
    BY DEF ReportIsUncut, Required
  <2>1. ~cancelled /\ stage = Stages[12]
    BY StageList DEF ReportInv, FlagInv, AnswerInv
  <2>2. ASSUME NEW s \in Required PROVE s \in ran
    <3>1. PICK i \in 1..11 : s = Stages[i]
      BY StageList DEF Required, Optional, Measurements, ReportInv, ProgressInv
    <3>2. i \in Position /\ 12 \in Position /\ i < 12
      BY DEF Position
    <3> QED
      BY <2>1, <3>1, <3>2 DEF ReportInv, ProgressInv
  <2> QED
    BY <2>1, <2>2
<1> QED
  BY <1>1, ReportInit, ReportStep, PTL DEF Spec

(***************************************************************************)
(* The traceroute inside the engine: every step of the engine is one of    *)
(* the traceroute, leaves it alone, or forgets it.                         *)
(***************************************************************************)
RouteInv == TraceInv /\ ReachedInv

LEMMA RouteStep == RouteInv /\ [Next]_vars => RouteInv'
<1> SUFFICES ASSUME RouteInv, [Next]_vars PROVE RouteInv'
  OBVIOUS
<1>1. CASE Trace
  BY <1>1, StepInv, ReachedStep DEF Trace, RouteInv, TraceNext
<1>2. CASE Listen
  BY <1>2, StepInv, ReachedStep DEF Listen, RouteInv, TraceNext
<1>3. CASE LeaveTrace
  <2>1. /\ place' = "off" /\ ttl' = 0 /\ probe' = 0 /\ waited' = NoProbe
        /\ round' = NoRound /\ hops' = <<>> /\ completed' = FALSE /\ sent' = {}
    BY <1>3 DEF LeaveTrace
  <2>2. Shape'
    BY <2>1 DEF Shape, NoRound, Rounds, Nodes, NoAddress, Dest, Alias
  <2>3. (Waiting /\ RoundIsOwn /\ HopsAreOwn)'
    BY <2>1 DEF Waiting, InRound, RoundIsOwn, HopsAreOwn, NoRound
  <2>4. TraceInv'
    BY <2>2, <2>3 DEF TraceInv
  <2>5. ReachedInv'
    BY <2>1 DEF ReachedInv, ByDest, NoRound, CompletedIsReached
  <2> QED
    BY <2>4, <2>5 DEF RouteInv
<1>4. CASE UNCHANGED traceVars
  BY <1>4, StepInv, ReachedStep DEF RouteInv
<1> QED
  BY <1>1, <1>2, <1>3, <1>4
  DEF Next, Run, StartFails, FetchMeta, Skip, Enter, LeaveDiagnostic, Probe, LeaveProbes,
      Tell, LeaveThroughput, LeaveUdp, Summarise, ControlCloses, CancelToken, ReadEvent,
      SendCancel, StopWaiting, TakeResult, DropHost, BeginProbes, Request, EndProbes,
      Answered, Unanswered, traceVars, vars

\* The route of a diagnostic is made of its own answers and is complete exactly if the
\* destination was reached, whatever the engine and its host do meanwhile.
THEOREM OwnRoute == Spec => [](HopsAreOwn /\ CompletedIsReached)
<1>1. RouteInv => HopsAreOwn /\ CompletedIsReached
  BY DEF RouteInv, TraceInv, ReachedInv
<1>2. Init => RouteInv
  BY InitInv, ReachedInit DEF Init, RouteInv
<1> QED
  BY <1>1, <1>2, RouteStep, PTL DEF Spec

(***************************************************************************)
(* The deviation of the latency probes: what OnlineStats keeps from answer *)
(* to answer.  n times the mean is the sum of the samples, n times m2 is   *)
(* n times the sum of their squares less the square of their sum.          *)
(***************************************************************************)

Squares(s) == SumFunctionOnSet([i \in 1..Len(s) |-> s[i] * s[i]], 1..Len(s))

\* A multiple of two neighbours is one of their product.
LEMMA Neighbours ==
    ASSUME NEW k \in Nat \ {0}, NEW n \in Nat \ {0}, k % n = 0, k % (n + 1) = 0
    PROVE  \E c \in Nat \ {0} : k = n * (n + 1) * c
<1> DEFINE a == k \div n
           b == k \div (n + 1)
<1>1. a \in Nat /\ k = n * a
  OBVIOUS
<1>2. b \in Nat /\ k = (n + 1) * b
  OBVIOUS
<1> HIDE DEF a, b
<1>3. b = n * (a - b)
  BY <1>1, <1>2
<1>4. k = n * (n + 1) * (a - b)
  BY <1>1, <1>2, <1>3
<1>5. a - b \in Nat \ {0}
  BY <1>1, <1>2, <1>4
<1> QED
  BY <1>4, <1>5

LEMMA Divides ==
    ASSUME NEW d \in Nat \ {0}, NEW k \in Int, NEW e, e = d * k
    PROVE  e \div d = k
  OBVIOUS

LEMMA CancelFactor ==
    ASSUME NEW n \in Nat \ {0}, NEW a \in Int, NEW b \in Int, n * a = n * b
    PROVE  a = b
  OBVIOUS

\* n samples with the sum S and the sum of squares Q, scaled by k: the mean is a, and v
\* the sum of the squared differences from it.
Figures(k, n, S, Q, a, v) ==
    /\ k \in Nat \ {0} /\ n \in Nat /\ S \in Nat /\ Q \in Nat /\ a \in Nat /\ v \in Nat
    /\ n = 0 => a = 0 /\ v = 0 /\ S = 0 /\ Q = 0
    /\ n * a = k * S
    /\ n * v = k * k * (n * Q - S * S)

\* One more sample x: Welford's update of mean and m2.
LEMMA PushKeepsFigures ==
    ASSUME NEW k, NEW n, NEW S, NEW Q, NEW a, NEW v, Figures(k, n, S, Q, a, v),
           n # 0 => k % n = 0, k % (n + 1) = 0,
           NEW x \in Nat,
           NEW b, b = a + (k * x - a) \div (n + 1),
           NEW w, w = v + (k * x - a) * (k * x - b)
    PROVE  Figures(k, n + 1, S + x, Q + x * x, b, w)
<1> SUFFICES
      /\ b \in Nat /\ w \in Nat
      /\ (n + 1) * b = k * (S + x)
      /\ (n + 1) * w = k * k * ((n + 1) * (Q + x * x) - (S + x) * (S + x))
  <2>1. k \in Nat \ {0} /\ n \in Nat /\ S \in Nat /\ Q \in Nat
    BY DEF Figures
  <2>2. n + 1 \in Nat /\ n + 1 # 0 /\ S + x \in Nat /\ Q + x * x \in Nat
    BY <2>1
  <2> QED
    BY <2>1, <2>2 DEF Figures
<1>3. n # 0 => \E c \in Nat \ {0} : k = n * (n + 1) * c
  <2>1. k \in Nat \ {0} /\ n \in Nat
    BY Zenon DEF Figures
  <2>2. ASSUME n # 0 PROVE n \in Nat \ {0} /\ k % n = 0 /\ k % (n + 1) = 0
    BY Zenon, <2>1, <2>2
  <2> QED
    BY Zenon, <2>1, <2>2, Neighbours
<1> USE DEF Figures
<1>1. CASE n = 0
  <2>1. b = k * x
    <3>1. k * x \in Nat /\ (k * x) \div 1 = k * x
      OBVIOUS
    <3> QED
      BY <1>1, <3>1
  <2>2. w = 0
    BY <1>1, <2>1
  <2>3. k * x \in Nat
    OBVIOUS
  <2> QED
    BY <1>1, <2>1, <2>2, <2>3
<1>2. CASE n # 0
  <2>1. PICK c \in Nat \ {0} : k = n * (n + 1) * c
    BY Zenon, <1>2, <1>3
  <2> DEFINE D == n * x - S
  <2>2. D \in Int
    OBVIOUS
  <2>3. a = (n + 1) * c * S
    <3>1. n * a = n * ((n + 1) * c * S)
      BY <2>1
    <3> QED
      BY <1>2, <3>1, CancelFactor
  <2>4. k * x - a = (n + 1) * (c * D)
    BY <2>1, <2>3
  <2>5. b = a + c * D
    <3>1. c * D \in Int
      BY <2>2
    <3> HIDE DEF D
    <3>2. n + 1 \in Nat \ {0}
      OBVIOUS
    <3>3. (k * x - a) \div (n + 1) = c * D
      BY Zenon, <2>4, <3>1, <3>2, Divides
    <3> QED
      BY <3>3
  <2>6. b = c * n * (S + x)
    BY <2>3, <2>5
  <2>7. k * x - b = n * c * D
    <3>1. (n * (n + 1) * c) * x - c * n * (S + x) = n * c * (n * x - S)
      OBVIOUS
    <3> QED
      BY <2>1, <2>6, <3>1
  <2>8. w = v + n * (n + 1) * c * c * (D * D)
    <3> HIDE DEF D
    <3>1. (k * x - a) * (k * x - b) = ((n + 1) * (c * D)) * (n * c * D)
      BY <2>4, <2>7
    <3>2. ((n + 1) * (c * D)) * (n * c * D) = n * (n + 1) * c * c * (D * D)
      BY <2>2
    <3> QED
      BY <3>1, <3>2
  <2> DEFINE V == n * Q - S * S
             W == (n + 1) * (Q + x * x) - (S + x) * (S + x)
  <2>9. V \in Int /\ W \in Int
    OBVIOUS
  <2>10. (n + 1) * V + D * D = n * W
    OBVIOUS
  <2>11. v = n * (n + 1) * (n + 1) * c * c * V
    <3> DEFINE X == n * (n + 1) * (n + 1) * c * c * V
    <3> HIDE DEF V
    <3>1. n * v = n * X
      <4>1. n * v = (n * (n + 1) * c) * (n * (n + 1) * c) * V
        BY <2>1 DEF V
      <4>2. (n * (n + 1) * c) * (n * (n + 1) * c) * V = n * X
        BY <2>9
      <4> QED
        BY <4>1, <4>2
    <3>2. X \in Int
      BY <2>9
    <3> HIDE DEF X
    <3>3. v = X
      BY <1>2, <3>1, <3>2, CancelFactor
    <3> QED
      BY <3>3 DEF X
  <2>12. (n + 1) * w = k * k * W
    <3> HIDE DEF V, W, D
    <3>1. (n + 1) * w = n * (n + 1) * (n + 1) * c * c * ((n + 1) * V + D * D)
      <4> DEFINE E == D * D
      <4>1. E \in Int
        BY <2>2
      <4> HIDE DEF E
      <4>2. (n + 1) * (n * (n + 1) * (n + 1) * c * c * V + n * (n + 1) * c * c * E)
              = n * (n + 1) * (n + 1) * c * c * ((n + 1) * V + E)
        BY <2>9, <4>1
      <4>3. w = n * (n + 1) * (n + 1) * c * c * V + n * (n + 1) * c * c * E
        BY <2>8, <2>11 DEF E
      <4>4. (n + 1) * w = n * (n + 1) * (n + 1) * c * c * ((n + 1) * V + E)
        BY <4>2, <4>3
      <4> QED
        BY <4>4 DEF E
    <3>2. n * (n + 1) * (n + 1) * c * c * (n * W)
            = (n * (n + 1) * c) * (n * (n + 1) * c) * W
      BY <2>9
    <3> QED
      BY <2>1, <2>10, <3>1, <3>2
  <2>13. b \in Nat /\ (n + 1) * b = k * (S + x)
    <3>1. c * n * (S + x) \in Nat
      OBVIOUS
    <3>2. (n + 1) * (c * n * (S + x)) = (n * (n + 1) * c) * (S + x)
      OBVIOUS
    <3> QED
      BY <2>1, <2>6, <3>1, <3>2
  <2>14. w \in Nat
    <3> HIDE DEF D
    <3>1. D * D \in Nat
      BY <2>2
    <3>2. n * (n + 1) * c * c * (D * D) \in Nat
      BY <3>1
    <3> QED
      BY <2>8, <3>2
  <2> QED
    BY <2>12, <2>13, <2>14
<1> QED
  BY <1>1, <1>2

USE RttsAssumption, ScaleAssumption

\* The probe that is being waited for has no answer yet, and the figures are those of
\* the samples.
FiguresInv == Figures(Scale, received, Sum(samples), Squares(samples), mean, m2)

RequestInv ==
    /\ probing \in {"off", "loop", "request", "over"}
    /\ requests \in 0..MaxRequests
    /\ received \in 0..requests
    /\ probing = "request" => received < requests
    /\ samples \in Seq(Rtts) /\ Len(samples) = received

ProbesInv == RequestInv /\ FiguresInv

LEMMA SampleType ==
    ASSUME RequestInv
    PROVE  Len(samples) = received /\ \A i \in 1..Len(samples) : samples[i] \in Nat
<1>1. samples \in Seq(Rtts) /\ Len(samples) = received
  BY DEF RequestInv
<1>2. \A i \in 1..Len(samples) : samples[i] \in Rtts
  BY <1>1
<1> QED
  BY <1>1, <1>2

LEMMA SampleSums ==
    ASSUME RequestInv
    PROVE  /\ Sum(samples) \in Nat /\ Squares(samples) \in Nat
           /\ received = 0 => Sum(samples) = 0 /\ Squares(samples) = 0
<1> DEFINE S == 1..Len(samples)
           q == [i \in S |-> samples[i] * samples[i]]
<1>1. IsFiniteSet(S) /\ (received = 0 => S = {})
  BY FS_Interval DEF RequestInv
<1>2. \A i \in S : samples[i] \in Nat
  BY SampleType
<1>3. \A i \in S : q[i] \in Nat
  BY <1>2
<1> HIDE DEF S, q
<1>4. SumFunctionOnSet(samples, S) \in Nat /\ SumFunctionOnSet(q, S) \in Nat
  BY <1>1, <1>2, <1>3, SumType
<1>5. received = 0 => SumFunctionOnSet(samples, S) = 0 /\ SumFunctionOnSet(q, S) = 0
  BY <1>1, SumEquation
<1> QED
  BY <1>4, <1>5 DEF Sum, Squares, S, q

LEMMA AppendSums ==
    ASSUME RequestInv, NEW x \in Rtts
    PROVE  /\ Sum(Append(samples, x)) = Sum(samples) + x
           /\ Squares(Append(samples, x)) = Squares(samples) + x * x
<1> DEFINE n == Len(samples)
           more == Append(samples, x)
           q == [i \in 1..n |-> samples[i] * samples[i]]
           r == [i \in 1..(n + 1) |-> more[i] * more[i]]
<1>1. /\ n \in Nat /\ Len(more) = n + 1 /\ more[n + 1] = x
      /\ \A i \in 1..n : more[i] = samples[i]
      /\ \A i \in 1..(n + 1) : more[i] \in Nat
  <2>1. samples \in Seq(Rtts) /\ n \in Nat
    BY DEF RequestInv
  <2>2. Len(more) = n + 1 /\ more[n + 1] = x /\ \A i \in 1..n : more[i] = samples[i]
    BY <2>1
  <2>3. \A i \in 1..(n + 1) : i \in 1..n \/ i = n + 1
    BY <2>1
  <2>4. x \in Nat /\ \A i \in 1..n : samples[i] \in Nat
    BY SampleType
  <2> HIDE DEF n, more
  <2> QED
    BY <2>1, <2>2, <2>3, <2>4
<1>2. /\ \A i \in 1..n : r[i] = q[i]
      /\ \A i \in 1..(n + 1) : r[i] \in Nat
      /\ r[n + 1] = x * x
  BY <1>1
<1>3. /\ Sum(more) = SumFunctionOnSet(more, 1..(n + 1))
      /\ Sum(samples) = SumFunctionOnSet(samples, 1..n)
  BY <1>1 DEF Sum
<1>4. /\ Squares(more) = SumFunctionOnSet(r, 1..(n + 1))
      /\ Squares(samples) = SumFunctionOnSet(q, 1..n)
  BY <1>1 DEF Squares
<1> HIDE DEF more, q, r, n
<1>5. SumFunctionOnSet(more, 1..(n + 1)) = SumFunctionOnSet(samples, 1..n) + more[n + 1]
  BY <1>1, SumAppends
<1>6. SumFunctionOnSet(r, 1..(n + 1)) = SumFunctionOnSet(q, 1..n) + r[n + 1]
  BY <1>1, <1>2, SumAppends
<1> QED
  BY <1>1, <1>2, <1>3, <1>4, <1>5, <1>6 DEF more

LEMMA ProbesStart == ProbesInit => ProbesInv
<1> SUFFICES ASSUME ProbesInit PROVE ProbesInv
  OBVIOUS
<1>1. RequestInv
  BY DEF ProbesInit, RequestInv
<1>2. Sum(samples) = 0 /\ Squares(samples) = 0
  BY <1>1, SampleSums DEF ProbesInit
<1> QED
  BY <1>1, <1>2 DEF ProbesInit, ProbesInv, FiguresInv, Figures

\* An answer joins the samples and the figures at once.
LEMMA AnsweredInv == ProbesInv /\ Answered => ProbesInv'
<1> SUFFICES ASSUME ProbesInv, Answered PROVE ProbesInv'
  OBVIOUS
<1>1. PICK x \in Rtts : Push(x) /\ samples' = Append(samples, x)
  BY DEF Answered
<1>2. /\ probing = "request" /\ probing' = "loop" /\ requests' = requests
      /\ received' = received + 1
  BY DEF Answered
<1>3. RequestInv /\ FiguresInv
  BY DEF ProbesInv
<1>4. /\ received \in Nat /\ requests \in Nat /\ received + 1 \in 1..MaxRequests
      /\ received # 0 => received \in 1..MaxRequests
  BY <1>2, <1>3 DEF RequestInv
<1>5. RequestInv'
  <2>1. samples' \in Seq(Rtts) /\ Len(samples') = Len(samples) + 1
    BY <1>1, <1>3 DEF RequestInv
  <2> QED
    BY <1>2, <1>3, <1>4, <2>1 DEF RequestInv
<1> DEFINE S == Sum(samples)
           Q == Squares(samples)
<1>6. S \in Nat /\ Q \in Nat /\ (received = 0 => S = 0 /\ Q = 0)
  BY <1>3, SampleSums
<1>7. Sum(samples') = S + x /\ Squares(samples') = Q + x * x
  BY <1>1, <1>3, AppendSums
<1>8. /\ mean' = mean + (Scale * x - mean) \div (received + 1)
      /\ m2' = m2 + (Scale * x - mean) * (Scale * x - mean')
  BY <1>1 DEF Push
<1>9. /\ Scale \in Nat \ {0} /\ x \in Nat
      /\ received # 0 => Scale % received = 0
      /\ Scale % (received + 1) = 0
  BY <1>1, <1>4
<1> HIDE DEF S, Q
<1>10. Figures(Scale, received, S, Q, mean, m2)
  BY <1>3 DEF FiguresInv, S, Q
<1>11. Figures(Scale, received + 1, S + x, Q + x * x, mean', m2')
  BY <1>8, <1>9, <1>10, PushKeepsFigures
<1>12. FiguresInv'
  BY <1>2, <1>7, <1>11 DEF FiguresInv, S, Q
<1> QED
  BY <1>5, <1>12 DEF ProbesInv

LEMMA ProbesStep ==
    ASSUME ProbesInv, BeginProbes \/ Request \/ Unanswered \/ EndProbes \/ UNCHANGED probes
    PROVE  ProbesInv'
<1>1. UNCHANGED <<received, samples, mean, m2>>
  BY DEF BeginProbes, Request, Unanswered, EndProbes, probes
<1>2. FiguresInv'
  BY <1>1 DEF ProbesInv, FiguresInv
<1>3. RequestInv'
  BY <1>1 DEF BeginProbes, Request, Unanswered, EndProbes, probes, ProbesInv, RequestInv
<1> QED
  BY <1>2, <1>3 DEF ProbesInv

LEMMA ProbesForgotten ==
    ASSUME LeaveProbes
    PROVE  ProbesInv'
<1>1. /\ probing' = "off" /\ requests' = 0 /\ received' = 0 /\ samples' = <<>>
      /\ mean' = 0 /\ m2' = 0
  BY DEF LeaveProbes
<1>2. RequestInv'
  BY <1>1 DEF RequestInv
<1>3. Sum(samples') = 0 /\ Squares(samples') = 0
  <2> DEFINE q == [i \in 1..Len(samples') |-> samples'[i] * samples'[i]]
  <2>1. 1..Len(samples') = {} /\ IsFiniteSet({})
    BY <1>1, FS_EmptySet
  <2>2. SumFunctionOnSet(samples', {}) = 0
    BY <2>1, SumEquation
  <2>3. SumFunctionOnSet(q, {}) = 0
    BY <2>1, SumEquation
  <2> QED
    BY <2>1, <2>2, <2>3 DEF Sum, Squares
<1>4. FiguresInv'
  BY <1>1, <1>3 DEF FiguresInv, Figures
<1> QED
  BY <1>2, <1>4 DEF ProbesInv

LEMMA ProbesNext == ProbesInv /\ [Next]_vars => ProbesInv'
<1> SUFFICES ASSUME ProbesInv, [Next]_vars PROVE ProbesInv'
  OBVIOUS
<1>1. CASE Probe
  BY <1>1, AnsweredInv, ProbesStep DEF Probe
<1>2. CASE LeaveProbes
  BY <1>2, ProbesForgotten
<1>3. CASE UNCHANGED probes
  BY <1>3, ProbesStep
<1> QED
  BY <1>1, <1>2, <1>3
  DEF Next, Run, StartFails, FetchMeta, Skip, Enter, LeaveDiagnostic, Trace, LeaveTrace,
      Tell, LeaveThroughput, LeaveUdp, Summarise, Listen, ControlCloses, CancelToken,
      ReadEvent, SendCancel, StopWaiting, TakeResult, DropHost, vars

\* compute_jitter, by the sums.
LEMMA DeviationsBySums ==
    ASSUME RequestInv
    PROVE  Deviations = received * (received * Squares(samples) - Sum(samples) * Sum(samples))
<1> DEFINE S == 1..received
           s == Sum(samples)
           q == [i \in S |-> samples[i] * samples[i]]
           d == [i \in S |-> Square(received * samples[i] - s)]
<1>1. received \in Nat /\ Len(samples) = received /\ \A i \in S : samples[i] \in Nat
  BY SampleType DEF RequestInv
<1>2. IsFiniteSet(S) /\ Cardinality(S) = received
  BY <1>1, Places1To
<1>3. \A i \in S : q[i] = samples[i] * samples[i]
  OBVIOUS
<1>4. Deviates(d, samples, q, S, received, s)
  BY <1>3 DEF Square, Deviates
<1>5. Sum(samples) = SumFunctionOnSet(samples, S) /\ Squares(samples) = SumFunctionOnSet(q, S)
  BY <1>1 DEF Sum, Squares
<1>6. Deviations = SumFunctionOnSet(d, S)
  BY DEF Deviations
<1>7. s \in Nat /\ Squares(samples) \in Nat
  BY SampleSums
<1> HIDE DEF S, q, d, s
<1>8. SumFunctionOnSet(d, S) =
        received * received * SumFunctionOnSet(q, S)
          - 2 * received * s * SumFunctionOnSet(samples, S) + Cardinality(S) * s * s
  <2>1. received \in Int /\ s \in Int
    BY <1>1, <1>7
  <2>2. IsFiniteSet(S)
    BY Zenon, <1>2
  <2>3. \A i \in S : samples[i] \in Nat
    BY Zenon, <1>1
  <2>4. DeviationsAddUp(d, samples, q, S, received, s)
    BY Zenon, <1>4, <2>1, <2>2, <2>3, SumOfDeviations
  <2> QED
    BY Zenon, <2>4 DEF DeviationsAddUp
<1>9. SumFunctionOnSet(samples, S) = s
  BY <1>5 DEF s
<1> DEFINE Q == Squares(samples)
<1>10. Deviations = received * received * Q - 2 * received * s * s + received * s * s
  BY <1>2, <1>5, <1>6, <1>8, <1>9
<1> HIDE DEF Q
<1>11. received * received * Q - 2 * received * s * s + received * s * s
         = received * (received * Q - s * s)
  BY <1>1, <1>7 DEF Q
<1> QED
  BY <1>10, <1>11 DEF s, Q

\* The deviation that is kept from answer to answer is the one of all samples, for any
\* samples in any order (OnlineStats::push, compute_jitter).
THEOREM SteadyJitter == Spec => []JitterAgrees
<1>1. ProbesInv => JitterAgrees
  <2> SUFFICES ASSUME ProbesInv, received > 0 PROVE
        /\ received * mean = Scale * Sum(samples)
        /\ Square(received) * m2 = Square(Scale) * Deviations
    BY DEF JitterAgrees
  <2> DEFINE V == received * Squares(samples) - Sum(samples) * Sum(samples)
  <2>1. Deviations = received * V
    BY DeviationsBySums DEF ProbesInv
  <2>2. received * m2 = Scale * Scale * V /\ m2 \in Nat /\ received \in Nat
    BY DEF ProbesInv, FiguresInv, Figures, RequestInv
  <2>3. V \in Int
    BY <2>2, SampleSums DEF ProbesInv
  <2> HIDE DEF V
  <2>4. received * received * m2 = Scale * Scale * (received * V)
    <3>1. received * received * m2 = received * (received * m2)
      BY <2>2
    <3>2. received * (Scale * Scale * V) = Scale * Scale * (received * V)
      BY <2>2, <2>3
    <3> QED
      BY <2>2, <3>1, <3>2
  <2>5. received * mean = Scale * Sum(samples)
    BY DEF ProbesInv, FiguresInv, Figures
  <2> QED
    BY <2>1, <2>4, <2>5 DEF Square
<1>2. Init => ProbesInv
  BY ProbesStart DEF Init
<1> QED
  BY <1>1, <1>2, ProbesNext, PTL DEF Spec

LEMMA PercentilesOfSamples == RequestInv => PercentilesAgree
<1> SUFFICES ASSUME RequestInv, HasLatency PROVE PercentilesAgree
  BY DEF PercentilesAgree
<1> DEFINE t == Sorted(samples)
           n == Len(samples)
<1>1. samples \in Seq(Nat)
  <2>1. \A i \in 1..Len(samples) : samples[i] \in Nat
    BY SampleType
  <2>2. /\ Len(samples) \in Nat
        /\ samples = [i \in 1..Len(samples) |-> samples[i]]
    BY DEF RequestInv
  <2> QED
    BY <2>1, <2>2
<1>2. n \in Nat \ {0} /\ received = n
  BY DEF HasLatency, RequestInv
<1>3. /\ Len(t) = n
      /\ \A r \in 1..n :
           t[r] = samples[CHOOSE i \in 1..n : Cardinality(UpTo(samples, i)) = r]
      /\ Ascends(t)
  BY <1>1, <1>2, SortedByRank DEF Ascends
<1> HIDE DEF t
<1>4. /\ Summary.min = 100 * t[1] /\ Summary.max = 100 * t[n]
      /\ Summary.p25 = Percentile(t, 25) /\ Summary.median = Percentile(t, 50)
      /\ Summary.p75 = Percentile(t, 75) /\ Summary.p95 = Percentile(t, 95)
      /\ Summary.p99 = Percentile(t, 99)
  BY <1>2 DEF Summary, t
<1>5. /\ Percentile(t, 0) <= Percentile(t, 25) /\ Percentile(t, 25) <= Percentile(t, 50)
      /\ Percentile(t, 50) <= Percentile(t, 75) /\ Percentile(t, 75) <= Percentile(t, 95)
      /\ Percentile(t, 95) <= Percentile(t, 99) /\ Percentile(t, 99) <= Percentile(t, 100)
  <2>1. /\ 0 \in 0..100 /\ 25 \in 0..100 /\ 50 \in 0..100 /\ 75 \in 0..100
        /\ 95 \in 0..100 /\ 99 \in 0..100 /\ 100 \in 0..100
        /\ 0 <= 25 /\ 25 <= 50 /\ 50 <= 75 /\ 75 <= 95 /\ 95 <= 99 /\ 99 <= 100
    OBVIOUS
  <2>2. ASSUME NEW p \in 0..100, NEW q \in 0..100, p <= q
        PROVE  Percentile(t, p) <= Percentile(t, q)
    BY Zenon, <1>3, <2>2, PercentilesRise
  <2> QED
    BY Zenon, <2>1, <2>2
<1>6. Percentile(t, 0) = 100 * t[1] /\ Percentile(t, 100) = 100 * t[n]
  BY <1>3, PercentileEnds
<1> DEFINE Place(r) == CHOOSE i \in 1..n : Cardinality(UpTo(samples, i)) = r
<1>7. Percentile(t, 50) = 50 * (samples[Place((n + 1) \div 2)] + samples[Place(n \div 2 + 1)])
  <2>1. /\ (n + 1) \div 2 \in 1..n /\ n \div 2 + 1 \in 1..n
        /\ Percentile(t, 50) = 50 * (t[(n + 1) \div 2] + t[n \div 2 + 1])
    BY <1>3, MedianSplits
  <2> QED
    BY <1>3, <2>1
<1> QED
  BY <1>2, <1>4, <1>5, <1>6, <1>7 DEF PercentilesAgree, UpTo

\* The percentiles that a summary shows ascend from the smallest to the largest sample,
\* and its median is the middle of the ranked ones, for any samples in any order
\* (percentile_sorted, latency_summary_from_samples).
THEOREM OrderedPercentiles == Spec => []PercentilesAgree
<1>1. ProbesInv => PercentilesAgree
  BY PercentilesOfSamples DEF ProbesInv
<1>2. Init => ProbesInv
  BY ProbesStart DEF Init
<1> QED
  BY <1>1, <1>2, ProbesNext, PTL DEF Spec

(***************************************************************************)
(* Types.                                                                  *)
(***************************************************************************)

\* What the other parts of the invariant say nothing of.
RestInv ==
    /\ place \in Places /\ waited \in Nat \union {NoProbe}
    /\ completed \in BOOLEAN /\ cancelled \in BOOLEAN
    /\ asked \in Configs
    /\ inside \in BOOLEAN
    /\ values \subseteq Measurements
    /\ \A s \in ran : \E i \in 1..Len(Stages) : s = Stages[i]
    /\ listener \in {"none", "on", "ended"}
    /\ queue \in 0..Capacity
    /\ mail \in BOOLEAN /\ token \in BOOLEAN
    /\ host \in {"on", "stopping", "over"}
    /\ answer \in {"none", "ok", "error", "cancelled", "dropped"}

USE CapacityAssumption

LEMMA SendEventType ==
    ASSUME queue \in 0..Capacity, SendEvent
    PROVE  queue' \in 0..Capacity
  BY DEF SendEvent

\* The traceroute alone.
LEMMA TraceKeepsRest ==
    ASSUME TraceInv, ReachedInv, RestInv, Quiet \/ Telling
    PROVE  /\ place' \in Places /\ waited' \in Nat \union {NoProbe}
           /\ completed' \in BOOLEAN /\ cancelled' = cancelled
<1>1. /\ place \in Places /\ waited \in Nat \union {NoProbe} /\ completed \in BOOLEAN
      /\ ttl \in 0..MaxHops /\ probe \in 0..Probes /\ round \in Rounds
  BY DEF RestInv, TraceInv, Shape
<1> USE DEF Places, Over, socketVars, roundVars
<1>2. CASE BeginTrace \/ Resolve \/ IcmpFails \/ NextHop \/ SendFails \/ Finish
           \/ ToolFails \/ ToolEnds \/ ParseLine \/ SkipLine
  BY <1>1, <1>2 DEF BeginTrace, Resolve, IcmpFails, NextHop, SendFails, Finish,
                    ToolFails, ToolEnds, ParseLine, SkipLine, NextLine
<1>3. CASE Send
  <2>1. SeqNo(ttl, probe) \in Nat
    BY <1>1 DEF SeqNo
  <2> QED
    BY <1>1, <1>3, <2>1 DEF Send
<1>4. CASE Receive \/ Expire
  BY <1>1, <1>4 DEF Receive, Expire
<1>5. CASE EndHop
  <2>1. round.reached \in BOOLEAN
    BY <1>1 DEF Rounds
  <2> QED
    BY <1>1, <1>5, <2>1 DEF EndHop, EndsRound
<1>6. CASE FinishOutput
  <2>1. (hops # <<>> /\ hops[Len(hops)].ip = Dest) \in BOOLEAN
    OBVIOUS
  <2> QED
    BY <1>1, <1>6, <2>1 DEF FinishOutput
<1> QED
  BY <1>2, <1>3, <1>4, <1>5, <1>6 DEF Quiet, Telling

LEMMA NextStageInside == NextStage => inside' \in BOOLEAN
  BY DEF NextStage

LEMMA RunKeepsRest ==
    ASSUME RouteInv, ReportInv, RestInv, Run \/ Tell
    PROVE  RestInv'
<1> USE DEF RestInv
<1>1. CASE StartFails
  <2>1. /\ inside' = FALSE
        /\ UNCHANGED <<place, waited, completed, cancelled>>
        /\ UNCHANGED <<asked, values, ran, listener, mail, queue, token, host, answer>>
    BY Zenon, <1>1 DEF StartFails, Fail, traceVars, trace, control, caller
  <2> QED
    BY <2>1
<1>2. CASE FetchMeta
  BY <1>2, SendEventType, NextStageInside DEF FetchMeta, traceVars, trace, caller
<1>3. CASE Skip
  BY <1>3, NextStageInside DEF Skip, traceVars, trace, control, caller
<1>4. CASE Enter
  <2>1. queue' \in 0..Capacity
    BY <1>4, SendEventType DEF Enter
  <2>2. \A s \in ran' : \E i \in 1..Len(Stages) : s = Stages[i]
    <3>1. \E i \in 1..Len(Stages) : stage = Stages[i]
      BY <1>4, StageList DEF Enter, Wanted, Optional, Measurements
    <3>2. ran' = ran \union {stage}
      BY <1>4 DEF Enter
    <3> QED
      BY <3>1, <3>2
  <2> QED
    BY <1>4, <2>1, <2>2 DEF Enter, traceVars, trace, control, caller
<1>5. CASE LeaveDiagnostic \/ LeaveUdp
  BY <1>5, SendEventType, NextStageInside
  DEF LeaveDiagnostic, LeaveUdp, traceVars, trace, control, caller
<1>6. CASE Trace
  <2>1. /\ place' \in Places /\ waited' \in Nat \union {NoProbe}
        /\ completed' \in BOOLEAN /\ cancelled' = cancelled
    BY <1>6, TraceKeepsRest DEF Trace, RouteInv
  <2>2. queue' \in 0..Capacity
    BY <1>6, SendEventType DEF Trace
  <2> QED
    BY <1>6, <2>1, <2>2 DEF Trace, engine, control, caller
<1>7. CASE LeaveTrace
  BY <1>7, SendEventType, NextStageInside DEF LeaveTrace, control, caller, Places
<1>8. CASE Probe
  <2>1. queue' \in 0..Capacity
    BY <1>8, SendEventType DEF Probe
  <2>2. cancelled' = cancelled
    BY <1>8 DEF Probe, BeginProbes, Request, EndProbes, Answered, Unanswered
  <2> QED
    BY <1>8, <2>1, <2>2 DEF Probe, trace, engine, control, caller
<1>9. CASE LeaveProbes
  <2>1. values' \subseteq Measurements
    BY <1>9 DEF LeaveProbes, Measurements
  <2> QED
    BY <1>9, <2>1, NextStageInside DEF LeaveProbes, traceVars, trace, control, caller
<1>10. CASE Tell
  BY <1>10, SendEventType DEF Tell, traceVars, trace, engine, control, caller
<1>11. CASE LeaveThroughput
  <2>1. values' \subseteq Measurements
    BY <1>11 DEF LeaveThroughput, Measurements
  <2>2. inside' \in BOOLEAN
    BY <1>11, NextStageInside DEF LeaveThroughput, Fail
  <2> QED
    BY <1>11, <2>1, <2>2 DEF LeaveThroughput, traceVars, trace, control, caller
<1>12. CASE Summarise
  BY <1>12, SendEventType, NextStageInside DEF Summarise, traceVars, trace, caller
<1> QED
  BY <1>1, <1>2, <1>3, <1>4, <1>5, <1>6, <1>7, <1>8, <1>9, <1>10, <1>11, <1>12 DEF Run

LEMMA RestNext == RouteInv /\ ReportInv /\ RestInv /\ [Next]_vars => RestInv'
<1> SUFFICES ASSUME RouteInv, ReportInv, RestInv, [Next]_vars PROVE RestInv'
  OBVIOUS
<1> USE DEF RestInv
<1>1. CASE Run \/ Tell
  BY <1>1, RunKeepsRest
<1>2. CASE Listen
  BY <1>2 DEF Listen, Cancel, trace, engine, caller
<1>3. CASE ControlCloses
  BY <1>3 DEF ControlCloses, traceVars, trace, engine, caller
<1>8. CASE CancelToken
  BY <1>8 DEF CancelToken, traceVars, trace, engine, control, caller
<1>7. CASE ReadEvent
  <2>1. queue' \in 0..Capacity
    BY <1>7 DEF ReadEvent
  <2> QED
    BY <1>7, <2>1 DEF ReadEvent, traceVars, trace, engine, control, caller
<1>4. CASE SendCancel
  BY <1>4 DEF SendCancel, traceVars, trace, engine
<1>5. CASE StopWaiting \/ TakeResult \/ DropHost
  BY <1>5 DEF StopWaiting, TakeResult, DropHost, Return, traceVars, trace, engine, control
<1>6. CASE UNCHANGED vars
  BY <1>6 DEF vars, traceVars, trace, engine, control, caller
<1> QED
  BY <1>1, <1>2, <1>3, <1>4, <1>5, <1>6, <1>7, <1>8 DEF Next

\* Every variable of the engine, its traceroute, its latency probes and its host stays in
\* its type; above all, no mean and no sum of squared differences ever falls below zero.
THEOREM TypeCorrect == Spec => []TypeOK
<1> DEFINE IInv == RouteInv /\ ReportInv /\ ProbesInv /\ RestInv
<1>1. Init => IInv
  <2> SUFFICES ASSUME Init PROVE IInv
    OBVIOUS
  <2>1. RouteInv
    BY InitInv, ReachedInit DEF Init, RouteInv
  <2>2. ProbesInv
    BY ProbesStart DEF Init
  <2>3. RestInv
    <3>1. place \in Places /\ waited \in Nat \union {NoProbe} /\ completed \in BOOLEAN
      BY DEF Init, TraceInit, Places
    <3>2. /\ asked \in Configs /\ cancelled = FALSE /\ inside = FALSE /\ values = {}
          /\ ran = {} /\ listener = "none" /\ mail = FALSE /\ queue = 0 /\ token = FALSE
          /\ host = "on" /\ answer = "none"
      BY DEF Init
    <3>3. queue \in 0..Capacity
      BY <3>2
    <3> QED
      BY <3>1, <3>2, <3>3 DEF RestInv
  <2> QED
    BY <2>1, <2>2, <2>3, ReportInit
<1>2. IInv /\ [Next]_vars => IInv'
  BY RouteStep, ReportStep, ProbesNext, RestNext
<1>3. IInv => TypeOK
  <2> SUFFICES ASSUME IInv PROVE TypeOK
    OBVIOUS
  <2>1. TraceTypeOK
    BY DEF RouteInv, TraceInv, Shape, RestInv, TraceTypeOK
  <2>2. ProbesTypeOK
    BY DEF ProbesInv, RequestInv, FiguresInv, Figures, ProbesTypeOK
  <2>3. \E i \in 1..Len(Stages) : stage \in {Stages[i], "failed"}
    BY StageList DEF ReportInv, ProgressInv, Position
  <2> QED
    BY <2>1, <2>2, <2>3 DEF RestInv, TypeOK
<1> HIDE DEF IInv
<1> QED
  BY <1>1, <1>2, <1>3, PTL DEF Spec
=============================================================================
