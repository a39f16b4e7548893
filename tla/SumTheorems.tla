----------------------------- MODULE SumTheorems -----------------------------
(***************************************************************************)
(* Sums over finite sets, as SumFunctionOnSet of the community modules     *)
(* defines them: by a recursive function that takes out one member after   *)
(* another.  That this function exists is shown first, then what a sum is  *)
(* in terms of any of its members.                                         *)
(*                                                                         *)
(* Induction is by a smallest set that would refute the claim.             *)
(***************************************************************************)
EXTENDS Integers, Functions, FiniteSetTheorems, TLAPS

\* The term a sum takes first.
Pick(U) == CHOOSE x \in U : TRUE

\* The recursive function a sum is the value of.
IsSum(g, f, S) ==
    g = [U \in SUBSET S |-> IF U = {} THEN 0 ELSE f[Pick(U)] + g[U \ {Pick(U)}]]

TheSum(f, S) == CHOOSE g : IsSum(g, f, S)

\* The operator of the community modules is that function's value.
LEMMA SumIsTheSum ==
    ASSUME NEW f, NEW S
    PROVE  SumFunctionOnSet(f, S) = TheSum(f, S)[S]
  BY DEF SumFunctionOnSet, FoldFunctionOnSet, MapThenFoldSet, TheSum, IsSum, Pick

\* A set of subsets of a finite set has a smallest member.
LEMMA SmallestSubset ==
    ASSUME NEW S, IsFiniteSet(S), NEW T \in SUBSET (SUBSET S), T # {}
    PROVE  \E U \in T : \A V \in SUBSET U : V # U => V \notin T
<1>1. FiniteSubsetsOf(S) = SUBSET S
  BY FS_FiniteSubsetsOfFinite
<1>2. IsWellFoundedOn(StrictSubsetOrdering(S), SUBSET S)
  BY <1>1, FS_StrictSubsetOrderingWellFounded
<1>3. PICK U \in T : \A V \in T : ~(<<V, U>> \in StrictSubsetOrdering(S))
  BY <1>2, WFMin
<1>4. ASSUME NEW V \in SUBSET U, V # U, V \in T PROVE FALSE
  <2>1. <<V, U>> \in StrictSubsetOrdering(S)
    BY <1>4 DEF StrictSubsetOrdering
  <2> QED
    BY <1>3, <1>4, <2>1
<1> QED
  BY <1>3, <1>4

\* Two such functions agree where both are defined.
LEMMA SumUnique ==
    ASSUME NEW f, NEW S, IsFiniteSet(S), NEW A \in SUBSET S, NEW B \in SUBSET S,
           NEW g, IsSum(g, f, A), NEW h, IsSum(h, f, B)
    PROVE  \A U \in SUBSET (A \intersect B) : g[U] = h[U]
<1> DEFINE T == {U \in SUBSET (A \intersect B) : g[U] # h[U]}
<1>1. ASSUME T # {} PROVE FALSE
  <2>1. T \in SUBSET (SUBSET S)
    OBVIOUS
  <2> HIDE DEF T
  <2>2. PICK U \in T : \A V \in SUBSET U : V # U => V \notin T
    BY <1>1, <2>1, SmallestSubset
  <2>3. U \in SUBSET (A \intersect B) /\ g[U] # h[U]
    BY DEF T
  <2>4. /\ g[U] = IF U = {} THEN 0 ELSE f[Pick(U)] + g[U \ {Pick(U)}]
        /\ h[U] = IF U = {} THEN 0 ELSE f[Pick(U)] + h[U \ {Pick(U)}]
    BY <2>3 DEF IsSum
  <2>5. U # {}
    BY <2>3, <2>4
  <2>6. Pick(U) \in U
    BY <2>5 DEF Pick
  <2>7. g[U \ {Pick(U)}] = h[U \ {Pick(U)}]
    BY <2>2, <2>3, <2>6 DEF T
  <2> QED
    BY <2>3, <2>4, <2>5, <2>7
<1> QED
  BY <1>1

\* There is one.
LEMMA SumExists ==
    ASSUME NEW f, NEW S, IsFiniteSet(S)
    PROVE  \E g : IsSum(g, f, S)
<1> DEFINE T == {U \in SUBSET S : ~ \E g : IsSum(g, f, U)}
<1>1. ASSUME T # {} PROVE FALSE
  <2>1. T \in SUBSET (SUBSET S)
    OBVIOUS
  <2> HIDE DEF T
  <2>2. PICK U \in T : \A V \in SUBSET U : V # U => V \notin T
    BY <1>1, <2>1, SmallestSubset
  <2>3. U \in SUBSET S /\ ~ \E g : IsSum(g, f, U)
    BY DEF T
  <2>4. ASSUME NEW V \in SUBSET U, V # U PROVE IsSum(TheSum(f, V), f, V)
    <3>1. \E g : IsSum(g, f, V)
      BY <2>2, <2>3, <2>4 DEF T
    <3> QED
      BY <3>1 DEF TheSum
  <2> DEFINE Before(V) == TheSum(f, V)[V]
             new == [V \in SUBSET U |->
                       IF V = {} THEN 0
                       ELSE f[Pick(V)] + Before(V \ {Pick(V)})]
  <2>5. ASSUME NEW V \in SUBSET U, V # U PROVE new[V] = Before(V)
    <3> DEFINE rest == V \ {Pick(V)}
    <3>1. IsSum(TheSum(f, V), f, V)
      BY <2>4, <2>5
    <3>2. Before(V) = IF V = {} THEN 0 ELSE f[Pick(V)] + TheSum(f, V)[rest]
      <4> HIDE DEF TheSum
      <4> DEFINE g == TheSum(f, V)
      <4> HIDE DEF g
      <4>1. IsSum(g, f, V)
        BY <3>1 DEF g
      <4>2. g[V] = IF V = {} THEN 0 ELSE f[Pick(V)] + g[rest]
        BY <4>1 DEF IsSum
      <4> QED
        BY <4>2 DEF g
    <3>3. CASE V = {}
      BY <3>2, <3>3
    <3>4. CASE V # {}
      <4>1. Pick(V) \in V
        BY <3>4 DEF Pick
      <4>2. rest \in SUBSET U /\ rest # U
        BY <2>5, <4>1
      <4>3. IsSum(TheSum(f, rest), f, rest)
        BY <2>4, <4>2
      <4>4. IsFiniteSet(V)
        BY <2>3, FS_Subset
      <4>5. TheSum(f, V)[rest] = TheSum(f, rest)[rest]
        <5>1. rest \in SUBSET (V \intersect rest) /\ V \in SUBSET V /\ rest \in SUBSET V
          OBVIOUS
        <5> HIDE DEF rest
        <5> QED
          BY <3>1, <4>3, <4>4, <5>1, SumUnique
      <4> QED
        BY <3>2, <3>4, <4>5
    <3> QED
      BY <3>3, <3>4
  <2>6. ASSUME NEW V \in SUBSET U, V # {} PROVE Before(V \ {Pick(V)}) = new[V \ {Pick(V)}]
    <3>1. Pick(V) \in V
      BY <2>6 DEF Pick
    <3>2. V \ {Pick(V)} \in SUBSET U /\ V \ {Pick(V)} # U
      BY <3>1
    <3> HIDE DEF Before, new
    <3> QED
      BY <2>5, <3>2
  <2>7. IsSum(new, f, U)
    <3>1. ASSUME NEW V \in SUBSET U
          PROVE  new[V] = IF V = {} THEN 0 ELSE f[Pick(V)] + new[V \ {Pick(V)}]
      <4>1. new[V] = IF V = {} THEN 0 ELSE f[Pick(V)] + Before(V \ {Pick(V)})
        BY <3>1
      <4> HIDE DEF new, Before
      <4> QED
        BY <2>6, <4>1
    <3>2. new = [V \in SUBSET U |-> new[V]]
      OBVIOUS
    <3> HIDE DEF new
    <3> QED
      BY <3>1, <3>2 DEF IsSum
  <2> QED
    BY <2>3, <2>7
<1>2. S \notin T
  BY <1>1
<1> QED
  BY <1>2

\* The equation a sum is defined by.
LEMMA SumEquation ==
    ASSUME NEW f, NEW S, IsFiniteSet(S)
    PROVE  SumFunctionOnSet(f, S) =
             IF S = {} THEN 0
             ELSE f[Pick(S)] + SumFunctionOnSet(f, S \ {Pick(S)})
<1> DEFINE rest == S \ {Pick(S)}
           g == TheSum(f, S)
           h == TheSum(f, rest)
<1>1. IsSum(g, f, S)
  BY SumExists DEF TheSum
<1>2. IsFiniteSet(rest)
  BY FS_Subset
<1>3. IsSum(h, f, rest)
  BY <1>2, SumExists DEF TheSum
<1>4. SumFunctionOnSet(f, S) = g[S] /\ SumFunctionOnSet(f, rest) = h[rest]
  BY SumIsTheSum
<1>5. rest \in SUBSET S
  OBVIOUS
<1> HIDE DEF g, h
<1>6. g[S] = IF S = {} THEN 0 ELSE f[Pick(S)] + g[rest]
  BY <1>1 DEF IsSum
<1> HIDE DEF rest
<1>7. g[rest] = h[rest]
  BY <1>1, <1>3, <1>5, SumUnique
<1> QED
  BY <1>4, <1>6, <1>7 DEF rest

\* A sum of naturals is one, and depends on the terms that are summed only.
LEMMA SumType ==
    ASSUME NEW S, IsFiniteSet(S), NEW f, \A x \in S : f[x] \in Nat
    PROVE  SumFunctionOnSet(f, S) \in Nat
<1> DEFINE T == {U \in SUBSET S : SumFunctionOnSet(f, U) \notin Nat}
<1>1. ASSUME T # {} PROVE FALSE
  <2>1. T \in SUBSET (SUBSET S)
    OBVIOUS
  <2> HIDE DEF T
  <2>2. PICK U \in T : \A V \in SUBSET U : V # U => V \notin T
    BY <1>1, <2>1, SmallestSubset
  <2>3. U \in SUBSET S /\ SumFunctionOnSet(f, U) \notin Nat
    BY DEF T
  <2>4. IsFiniteSet(U)
    BY <2>3, FS_Subset
  <2>5. U # {}
    BY <2>3, <2>4, SumEquation
  <2>6. Pick(U) \in U
    BY <2>5 DEF Pick
  <2>7. SumFunctionOnSet(f, U \ {Pick(U)}) \in Nat
    BY <2>2, <2>3, <2>6 DEF T
  <2>8. SumFunctionOnSet(f, U) = f[Pick(U)] + SumFunctionOnSet(f, U \ {Pick(U)})
    BY <2>4, <2>5, SumEquation
  <2> QED
    BY <2>3, <2>6, <2>7, <2>8
<1> QED
  BY <1>1

LEMMA SumSame ==
    ASSUME NEW S, IsFiniteSet(S), NEW f, NEW g, \A x \in S : f[x] = g[x]
    PROVE  SumFunctionOnSet(f, S) = SumFunctionOnSet(g, S)
<1> DEFINE T == {U \in SUBSET S : SumFunctionOnSet(f, U) # SumFunctionOnSet(g, U)}
<1>1. ASSUME T # {} PROVE FALSE
  <2>1. T \in SUBSET (SUBSET S)
    OBVIOUS
  <2> HIDE DEF T
  <2>2. PICK U \in T : \A V \in SUBSET U : V # U => V \notin T
    BY <1>1, <2>1, SmallestSubset
  <2>3. U \in SUBSET S /\ SumFunctionOnSet(f, U) # SumFunctionOnSet(g, U)
    BY DEF T
  <2>4. IsFiniteSet(U)
    BY <2>3, FS_Subset
  <2>5. U # {}
    BY <2>3, <2>4, SumEquation
  <2>6. Pick(U) \in U
    BY <2>5 DEF Pick
  <2>7. SumFunctionOnSet(f, U \ {Pick(U)}) = SumFunctionOnSet(g, U \ {Pick(U)})
    BY <2>2, <2>3, <2>6 DEF T
  <2>8. /\ SumFunctionOnSet(f, U) = f[Pick(U)] + SumFunctionOnSet(f, U \ {Pick(U)})
        /\ SumFunctionOnSet(g, U) = g[Pick(U)] + SumFunctionOnSet(g, U \ {Pick(U)})
    BY <2>4, <2>5, SumEquation
  <2> QED
    BY <2>3, <2>6, <2>7, <2>8
<1> QED
  BY <1>1

\* Whichever term is taken first, a sum is that term and the sum of the others.
LEMMA SumTakesOut ==
    ASSUME NEW S, IsFiniteSet(S), NEW f, \A y \in S : f[y] \in Nat, NEW x \in S
    PROVE  SumFunctionOnSet(f, S) = f[x] + SumFunctionOnSet(f, S \ {x})
<1> DEFINE Sum(U) == SumFunctionOnSet(f, U)
           Takes(U) == \A y \in U : Sum(U) = f[y] + Sum(U \ {y})
           T == {U \in SUBSET S : ~Takes(U)}
<1>1. ASSUME T # {} PROVE FALSE
  <2>1. T \in SUBSET (SUBSET S)
    OBVIOUS
  <2> HIDE DEF T
  <2>2. PICK U \in T : \A V \in SUBSET U : V # U => V \notin T
    BY <1>1, <2>1, SmallestSubset
  <2>3. U \in SUBSET S /\ ~Takes(U)
    BY DEF T
  <2>4. PICK y \in U : Sum(U) # f[y] + Sum(U \ {y})
    BY <2>3
  <2> DEFINE p == Pick(U)
  <2>5. p \in U
    BY <2>4 DEF Pick
  <2>6. IsFiniteSet(U)
    BY <2>3, FS_Subset
  <2>7. Sum(U) = f[p] + Sum(U \ {p})
    BY <2>4, <2>6, SumEquation
  <2>8. p # y
    BY <2>4, <2>7
  <2>9. \A V \in SUBSET U : V # U => Takes(V)
    BY <2>2, <2>3 DEF T
  <2>10. Sum(U \ {p}) = f[y] + Sum((U \ {p}) \ {y})
    <3>1. Takes(U \ {p})
      BY <2>5, <2>9
    <3> QED
      BY <2>4, <2>8, <3>1
  <2>11. Sum(U \ {y}) = f[p] + Sum((U \ {y}) \ {p})
    <3>1. Takes(U \ {y})
      BY <2>4, <2>9
    <3> QED
      BY <2>5, <2>8, <3>1
  <2>12. (U \ {p}) \ {y} = (U \ {y}) \ {p}
    OBVIOUS
  <2>13. Sum((U \ {y}) \ {p}) \in Nat
    <3>1. IsFiniteSet((U \ {y}) \ {p}) /\ \A z \in (U \ {y}) \ {p} : f[z] \in Nat
      BY <2>3, <2>6, FS_Subset
    <3> QED
      BY <3>1, SumType
  <2>14. f[y] \in Nat /\ f[p] \in Nat
    BY <2>3, <2>4, <2>5
  <2> HIDE DEF Sum, p
  <2> QED
    BY <2>4, <2>7, <2>10, <2>11, <2>12, <2>13, <2>14
<1>2. Takes(S)
  BY <1>1
<1> QED
  BY <1>2

\* A sum of a sequence's values grows by the value that is appended.
LEMMA SumAppends ==
    ASSUME NEW n \in Nat, NEW f, NEW g, \A i \in 1..(n + 1) : g[i] \in Nat,
           \A i \in 1..n : g[i] = f[i]
    PROVE  SumFunctionOnSet(g, 1..(n + 1)) = SumFunctionOnSet(f, 1..n) + g[n + 1]
<1> DEFINE S == 1..(n + 1)
           R == 1..n
<1>1. IsFiniteSet(S) /\ IsFiniteSet(R) /\ n + 1 \in S /\ R = S \ {n + 1}
  BY FS_Interval
<1>2. \A i \in S : g[i] \in Nat
  OBVIOUS
<1>3. \A i \in R : g[i] = f[i] /\ g[i] \in Nat
  OBVIOUS
<1>4. n + 1 \in S /\ g[n + 1] \in Nat
  BY <1>1, <1>2
<1> HIDE DEF S, R
<1>5. SumFunctionOnSet(g, S) = g[n + 1] + SumFunctionOnSet(g, R)
  BY <1>1, <1>2, SumTakesOut
<1>6. SumFunctionOnSet(g, R) = SumFunctionOnSet(f, R)
  BY <1>1, <1>3, SumSame
<1>7. SumFunctionOnSet(g, R) \in Nat
  BY <1>1, <1>3, SumType
<1> QED
  BY <1>4, <1>5, <1>6, <1>7 DEF S, R

\* q holds the squares of f, and d those of a f - b.
Deviates(d, f, q, S, a, b) ==
    \A x \in S : q[x] = f[x] * f[x] /\ d[x] = (a * f[x] - b) * (a * f[x] - b)

\* The sum of (a f[x] - b)^2, by the sums of f and of its squares.
DeviationsAddUp(d, f, q, S, a, b) ==
    SumFunctionOnSet(d, S) =
      a * a * SumFunctionOnSet(q, S) - 2 * a * b * SumFunctionOnSet(f, S)
        + Cardinality(S) * b * b

LEMMA SumOfDeviations ==
    ASSUME NEW S, IsFiniteSet(S), NEW f, \A x \in S : f[x] \in Nat,
           NEW a \in Int, NEW b \in Int, NEW q, NEW d, Deviates(d, f, q, S, a, b)
    PROVE  DeviationsAddUp(d, f, q, S, a, b)
<1> USE DEF DeviationsAddUp
<1> DEFINE Sum(g, U) == SumFunctionOnSet(g, U)
           Expands(U) == Sum(d, U) = a * a * Sum(q, U) - 2 * a * b * Sum(f, U)
                                       + Cardinality(U) * b * b
           T == {U \in SUBSET S : ~Expands(U)}
<1> USE DEF Deviates
<1>1. \A x \in S : q[x] \in Nat /\ d[x] \in Nat
  <2> SUFFICES ASSUME NEW x \in S PROVE q[x] \in Nat /\ d[x] \in Nat
    OBVIOUS
  <2> DEFINE e == a * f[x] - b
  <2>1. e \in Int /\ d[x] = e * e
    OBVIOUS
  <2> HIDE DEF e
  <2>2. e * e \in Nat
    BY <2>1
  <2>3. f[x] * f[x] \in Nat
    OBVIOUS
  <2> QED
    BY <2>1, <2>2, <2>3
<1>2. ASSUME T # {} PROVE FALSE
  <2>1. T \in SUBSET (SUBSET S)
    OBVIOUS
  <2> HIDE DEF T
  <2>2. PICK U \in T : \A V \in SUBSET U : V # U => V \notin T
    BY <1>2, <2>1, SmallestSubset
  <2>3. U \in SUBSET S /\ ~Expands(U)
    BY DEF T
  <2>4. IsFiniteSet(U)
    BY <2>3, FS_Subset
  <2>5. CASE U = {}
    <3>1. Sum(d, U) = 0 /\ Sum(q, U) = 0 /\ Sum(f, U) = 0
      BY <2>4, <2>5, SumEquation
    <3>2. Cardinality(U) = 0
      BY <2>5, FS_EmptySet
    <3> HIDE DEF Sum
    <3> QED
      BY <2>3, <3>1, <3>2
  <2>6. CASE U # {}
    <3> PICK x \in U : TRUE
      BY <2>6
    <3> DEFINE V == U \ {x}
    <3>1. V \in SUBSET U /\ V # U /\ V \in SUBSET S
      BY <2>3
    <3>2. Expands(V)
      BY <2>2, <3>1 DEF T
    <3>3. /\ Sum(d, U) = d[x] + Sum(d, V)
          /\ Sum(q, U) = q[x] + Sum(q, V)
          /\ Sum(f, U) = f[x] + Sum(f, V)
      <4>1. \A y \in U : f[y] \in Nat /\ q[y] \in Nat /\ d[y] \in Nat
        BY <1>1, <2>3
      <4> QED
        BY <2>4, <4>1, SumTakesOut
    <3>4. IsFiniteSet(V) /\ Cardinality(V) \in Nat /\ Cardinality(U) = Cardinality(V) + 1
      <4>1. IsFiniteSet(V) /\ Cardinality(V) = Cardinality(U) - 1
        BY <2>4, FS_RemoveElement
      <4>2. Cardinality(V) \in Nat /\ Cardinality(U) \in Nat
        BY <2>4, <4>1, FS_CardinalityType
      <4> HIDE DEF V
      <4> QED
        BY <4>1, <4>2
    <3>5. Sum(d, V) \in Nat /\ Sum(q, V) \in Nat /\ Sum(f, V) \in Nat
      <4>1. \A y \in V : f[y] \in Nat /\ q[y] \in Nat /\ d[y] \in Nat
        BY <1>1, <2>3
      <4> QED
        BY <3>4, <4>1, SumType
    <3>6. x \in S /\ f[x] \in Nat /\ q[x] = f[x] * f[x]
          /\ d[x] = (a * f[x] - b) * (a * f[x] - b)
      BY <2>3
    <3> DEFINE dv == Sum(d, V) qv == Sum(q, V) fv == Sum(f, V) c == Cardinality(V)
               y == f[x]
    <3>7. (a * y - b) * (a * y - b) + (a * a * qv - 2 * a * b * fv + c * b * b)
            = a * a * (y * y + qv) - 2 * a * b * (y + fv) + (c + 1) * b * b
      <4> HIDE DEF qv, fv, c, y
      <4>1. qv \in Int /\ fv \in Int /\ c \in Int /\ y \in Int
        BY <3>4, <3>5, <3>6 DEF qv, fv, c, y
      <4> QED
        BY <4>1
    <3>8. /\ Sum(d, U) = (a * y - b) * (a * y - b) + dv
          /\ Sum(q, U) = y * y + qv
          /\ Sum(f, U) = y + fv
          /\ Cardinality(U) = c + 1
          /\ dv = a * a * qv - 2 * a * b * fv + c * b * b
      <4> HIDE DEF V, Sum
      <4> QED
        BY <3>2, <3>3, <3>4, <3>6
    <3>9. Expands(U)
      <4> HIDE DEF V, Sum, y, dv, qv, fv, c
      <4> QED
        BY <3>7, <3>8
    <3> QED
      BY <2>3, <3>9
  <2> QED
    BY <2>5, <2>6
<1> HIDE DEF Sum
<1>3. Expands(S)
  BY <1>2
<1> QED
  BY <1>3 DEF Sum
=============================================================================
