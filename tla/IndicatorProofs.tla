--------------------------- MODULE IndicatorProofs ---------------------------
(***************************************************************************)
(* What the recursive definitions of Indicators compute, for histories and *)
(* periods of any length.                                                  *)
(*                                                                         *)
(* A recursive function stands for a CHOOSE.  That a function of that form *)
(* exists, and what its values are, is proved by induction over an         *)
(* interval of indices; induction itself is obtained from the least member *)
(* of the set of counterexamples.                                          *)
(***************************************************************************)
EXTENDS Indicators, TLAPS, WellFoundedInduction

-----------------------------------------------------------------------------
(* Induction and recursion over an interval. *)

LEMMA LeastNatural ==
  ASSUME NEW T \in SUBSET Nat, T # {}
  PROVE  \E x \in T : \A y \in T : x <= y
<1>1. PICK x \in T : \A y \in T : ~(<<y, x>> \in OpToRel(<, Nat))
  BY NatLessThanWellFounded, WFMin
<1>2. ASSUME NEW y \in T PROVE x <= y
  <2>1. x \in Nat /\ y \in Nat /\ ~(y < x)
    BY <1>1 DEF OpToRel
  <2> QED BY <2>1
<1> QED BY <1>2

LEMMA IntervalInduction ==
  ASSUME NEW m \in Int, NEW n \in Int, NEW T,
         m \in T, \A i \in m..(n - 1) : i \in T => i + 1 \in T
  PROVE  m..n \subseteq T
<1> DEFINE Failures == {k \in Nat : m + k <= n /\ m + k \notin T}
<1> SUFFICES ASSUME NEW j \in m..n, j \notin T PROVE FALSE
  OBVIOUS
<1>1. j - m \in Failures
  OBVIOUS
<1>2. Failures \in SUBSET Nat
  OBVIOUS
<1>3. PICK k \in Failures : \A l \in Failures : k <= l
  BY <1>1, <1>2, LeastNatural
<1>4. k \in Nat /\ k # 0 /\ m + k <= n /\ m + k \notin T
  BY <1>3
<1>5. k - 1 \in Nat /\ m + (k - 1) \in m..(n - 1)
  BY <1>4
<1>6. k - 1 \notin Failures
  BY <1>3, <1>5
<1>7. m + (k - 1) \in T
  BY <1>5, <1>6
<1>8. (m + (k - 1)) + 1 \in T
  BY <1>5, <1>7
<1>9. (m + (k - 1)) + 1 = m + k
  BY <1>4
<1> QED BY <1>4, <1>8, <1>9

StepsWithin(V, step, m, n) == \A i \in (m + 1)..n, v \in V : step[<<i, v>>] \in V

(* f starts with base at m and continues with step to n. *)
Recursion(f, V, base, step, m, n) ==
  /\ f \in [m..n -> V]
  /\ m <= n => f[m] = base
  /\ \A i \in (m + 1)..n : f[i] = step[<<i, f[i - 1]>>]

LEMMA RecursionExists ==
  ASSUME NEW m \in Int, NEW n \in Int, NEW V, NEW base \in V,
         NEW step, StepsWithin(V, step, m, n)
  PROVE  \E f : Recursion(f, V, base, step, m, n)
<1>1. CASE n < m
  <2> DEFINE g == [i \in m..n |-> base]
  <2>1. g \in [m..n -> V] /\ m..n = {} /\ (m + 1)..n = {}
    BY <1>1
  <2> HIDE DEF g
  <2>2. Recursion(g, V, base, step, m, n)
    BY <1>1, <2>1 DEF Recursion
  <2> QED BY <2>2
<1>2. CASE m <= n
  <2> DEFINE T == {k \in m..n : \E f : Recursion(f, V, base, step, m, k)}
  <2>1. m \in T
    <3> DEFINE g == [i \in m..m |-> base]
    <3>1. g \in [m..m -> V] /\ g[m] = base /\ (m + 1)..m = {}
      OBVIOUS
    <3> HIDE DEF g
    <3>2. Recursion(g, V, base, step, m, m)
      BY <3>1 DEF Recursion
    <3> QED BY <1>2, <3>2
  <2>2. ASSUME NEW k \in m..(n - 1), k \in T PROVE k + 1 \in T
    <3>1. PICK f : Recursion(f, V, base, step, m, k)
      BY <2>2
    <3> DEFINE g == [i \in m..(k + 1) |-> IF i = k + 1 THEN step[<<k + 1, f[k]>>] ELSE f[i]]
    <3>2. g \in [m..(k + 1) -> V]
      <4>1. step[<<k + 1, f[k]>>] \in V
        BY <3>1 DEF StepsWithin, Recursion
      <4>2. \A i \in m..(k + 1) : i # k + 1 => i \in m..k
        OBVIOUS
      <4> QED BY <3>1, <4>1, <4>2 DEF Recursion
    <3>3. g[m] = base
      BY <3>1 DEF Recursion
    <3>4. ASSUME NEW i \in (m + 1)..(k + 1) PROVE g[i] = step[<<i, g[i - 1]>>]
      <4>1. CASE i = k + 1
        <5>1. i - 1 = k /\ k \in m..(k + 1) /\ k # k + 1
          BY <4>1
        <5> QED BY <4>1, <5>1
      <4>2. CASE i # k + 1
        <5>1. i \in (m + 1)..k /\ i - 1 \in m..(k + 1) /\ i - 1 # k + 1
          BY <4>2
        <5> QED BY <3>1, <4>2, <5>1 DEF Recursion
      <4> QED BY <4>1, <4>2
    <3> HIDE DEF g
    <3>5. Recursion(g, V, base, step, m, k + 1)
      BY <3>2, <3>3, <3>4 DEF Recursion
    <3> QED BY <3>5
  <2> HIDE DEF T
  <2>3. m..n \subseteq T
    BY <2>1, <2>2, IntervalInduction
  <2>4. n \in T
    BY <1>2, <2>3
  <2> QED BY <2>4 DEF T
<1> QED BY <1>1, <1>2

-----------------------------------------------------------------------------
(* Sums. *)

Numbers(s, m, n) == \A i \in m..n : s[i] \in Int
Same(s, t, m, n) == \A i \in m..n : s[i] = t[i]

IsSum(f, s, m, n) ==
  f = [i \in (m - 1)..n |-> IF i = m - 1 THEN 0 ELSE f[i - 1] + s[i]]

LEMMA SumType ==
  ASSUME NEW m \in Int, NEW n \in Int, NEW s, Numbers(s, m, n),
         NEW f, IsSum(f, s, m, n)
  PROVE  \A i \in (m - 1)..n : f[i] \in Int
<1> DEFINE T == {i \in (m - 1)..n : f[i] \in Int}
<1>1. CASE m - 1 <= n
  <2>1. m - 1 \in T
    BY <1>1 DEF IsSum
  <2>2. ASSUME NEW i \in (m - 1)..(n - 1), i \in T PROVE i + 1 \in T
    <3>1. i + 1 \in m..n /\ i + 1 \in (m - 1)..n /\ (i + 1) - 1 = i /\ i + 1 # m - 1
      OBVIOUS
    <3>2. f[i + 1] = f[i] + s[i + 1] /\ s[i + 1] \in Int
      BY <3>1 DEF IsSum, Numbers
    <3> QED BY <2>2, <3>1, <3>2
  <2> HIDE DEF T
  <2>3. (m - 1)..n \subseteq T
    BY <2>1, <2>2, IntervalInduction
  <2> QED BY <2>3 DEF T
<1> QED BY <1>1

LEMMA SumExists ==
  ASSUME NEW m \in Int, NEW n \in Int, NEW s, Numbers(s, m, n)
  PROVE  \E f : IsSum(f, s, m, n)
<1> DEFINE step == [iv \in (m..n) \X Int |-> iv[2] + s[iv[1]]]
<1>1. \A i \in m..n, v \in Int : step[<<i, v>>] = v + s[i]
  BY DEF Numbers
<1> HIDE DEF step
<1>2. StepsWithin(Int, step, m - 1, n)
  <2>1. ASSUME NEW i \in ((m - 1) + 1)..n, NEW v \in Int PROVE step[<<i, v>>] \in Int
    <3>1. i \in m..n /\ s[i] \in Int
      BY DEF Numbers
    <3> QED BY <1>1, <3>1
  <2> QED BY <2>1 DEF StepsWithin
<1>3. PICK f : Recursion(f, Int, 0, step, m - 1, n)
  <2>1. \A lo, V : lo \in Int /\ 0 \in V /\ StepsWithin(V, step, lo, n)
                  => \E f : Recursion(f, V, 0, step, lo, n)
    BY RecursionExists
  <2>2. m - 1 \in Int /\ 0 \in Int
    OBVIOUS
  <2> QED BY <1>2, <2>1, <2>2
<1>4. ASSUME NEW i \in (m - 1)..n
      PROVE  f[i] = IF i = m - 1 THEN 0 ELSE f[i - 1] + s[i]
  <2>1. CASE i = m - 1
    BY <1>3, <2>1 DEF Recursion
  <2>2. CASE i # m - 1
    <3>1. i \in m..n /\ i \in ((m - 1) + 1)..n /\ i - 1 \in (m - 1)..n
      BY <2>2
    <3> QED BY <1>1, <1>3, <2>2, <3>1 DEF Recursion
  <2> QED BY <2>1, <2>2
<1>5. IsSum(f, s, m, n)
  BY <1>3, <1>4 DEF Recursion, IsSum
<1> QED BY <1>5

LEMMA TotalIsSum ==
  ASSUME NEW m \in Int, NEW n \in Int, NEW s, Numbers(s, m, n)
  PROVE  \E f : IsSum(f, s, m, n) /\ Total(s, m, n) = f[n]
<1> DEFINE sum == CHOOSE f : f = [i \in (m - 1)..n |-> IF i = m - 1 THEN 0 ELSE f[i - 1] + s[i]]
<1>1. sum = [i \in (m - 1)..n |-> IF i = m - 1 THEN 0 ELSE sum[i - 1] + s[i]]
  <2>1. PICK f : f = [i \in (m - 1)..n |-> IF i = m - 1 THEN 0 ELSE f[i - 1] + s[i]]
    BY SumExists DEF IsSum
  <2> QED BY <2>1, Zenon
<1>2. Total(s, m, n) = sum[n]
  BY Zenon DEF Total
<1> HIDE DEF sum
<1> QED BY <1>1, <1>2 DEF IsSum

(* Sums over the same values are the same, however far they continue. *)
LEMMA SumsAgree ==
  ASSUME NEW m \in Int, NEW n \in Int, NEW k \in m - 1..n, NEW s, NEW t,
         Numbers(s, m, n), Same(s, t, m, k),
         NEW f, IsSum(f, s, m, n), NEW g, IsSum(g, t, m, k)
  PROVE  f[k] = g[k]
<1> DEFINE T == {i \in (m - 1)..k : f[i] = g[i]}
<1>1. m - 1 \in T
  BY DEF IsSum
<1>2. ASSUME NEW i \in (m - 1)..(k - 1), i \in T PROVE i + 1 \in T
  <2>1. /\ i + 1 \in m..k /\ i + 1 \in (m - 1)..n /\ i + 1 \in (m - 1)..k
        /\ (i + 1) - 1 = i /\ i + 1 # m - 1
    OBVIOUS
  <2>2. f[i + 1] = f[i] + s[i + 1]
    BY <2>1 DEF IsSum
  <2>3. g[i + 1] = g[i] + t[i + 1]
    BY <2>1 DEF IsSum
  <2> QED BY <1>2, <2>1, <2>2, <2>3 DEF Same
<1> HIDE DEF T
<1>3. (m - 1)..k \subseteq T
  BY <1>1, <1>2, IntervalInduction
<1>4. k \in T
  BY <1>3
<1> QED BY <1>4 DEF T

LEMMA TotalType ==
  ASSUME NEW m \in Int, NEW n \in Int, m - 1 <= n, NEW s, Numbers(s, m, n)
  PROVE  Total(s, m, n) \in Int
<1>1. PICK f : IsSum(f, s, m, n) /\ Total(s, m, n) = f[n]
  BY TotalIsSum
<1>2. n \in (m - 1)..n
  OBVIOUS
<1> QED BY <1>1, <1>2, SumType

LEMMA TotalSame ==
  ASSUME NEW m \in Int, NEW n \in Int, m - 1 <= n, NEW s, NEW t,
         Numbers(s, m, n), Same(s, t, m, n)
  PROVE  Total(s, m, n) = Total(t, m, n)
<1>1. PICK f : IsSum(f, s, m, n) /\ Total(s, m, n) = f[n]
  BY TotalIsSum
<1>2. PICK g : IsSum(g, t, m, n) /\ Total(t, m, n) = g[n]
  <2>1. Numbers(t, m, n)
    BY DEF Numbers, Same
  <2> QED BY <2>1, TotalIsSum
<1>3. n \in m - 1..n
  OBVIOUS
<1>4. f[n] = g[n]
  BY <1>1, <1>2, <1>3, SumsAgree
<1> QED BY <1>1, <1>2, <1>4

LEMMA TotalEmpty == ASSUME NEW m \in Int, NEW s PROVE Total(s, m, m - 1) = 0
<1>1. Numbers(s, m, m - 1)
  BY DEF Numbers
<1>2. PICK f : IsSum(f, s, m, m - 1) /\ Total(s, m, m - 1) = f[m - 1]
  BY <1>1, TotalIsSum
<1> QED BY <1>2 DEF IsSum

LEMMA TotalStep ==
  ASSUME NEW m \in Int, NEW n \in Int, m <= n, NEW s, Numbers(s, m, n)
  PROVE  Total(s, m, n) = Total(s, m, n - 1) + s[n]
<1>1. PICK f : IsSum(f, s, m, n) /\ Total(s, m, n) = f[n]
  BY TotalIsSum
<1>2. PICK g : IsSum(g, s, m, n - 1) /\ Total(s, m, n - 1) = g[n - 1]
  <2>1. Numbers(s, m, n - 1) /\ Same(s, s, m, n - 1)
    BY DEF Numbers, Same
  <2> QED BY <2>1, TotalIsSum
<1>3. f[n - 1] = g[n - 1]
  <2>1. n - 1 \in m - 1..n /\ Same(s, s, m, n - 1)
    BY DEF Same
  <2> QED BY <1>1, <1>2, <2>1, SumsAgree
<1>4. f[n] = f[n - 1] + s[n]
  BY <1>1 DEF IsSum
<1> QED BY <1>1, <1>2, <1>3, <1>4

-----------------------------------------------------------------------------
(* Averages. *)

LEMMA ProductNat == \A a, b \in Nat : a * b \in Nat
  OBVIOUS

LEMMA ProductMonotone == \A a, b \in Int, c \in Nat : a <= b => c * a <= c * b
<1> SUFFICES ASSUME NEW a \in Int, NEW b \in Int, NEW c \in Nat, a <= b PROVE c * a <= c * b
  OBVIOUS
<1>1. b - a \in Nat
  OBVIOUS
<1>2. c * (b - a) \in Nat
  BY <1>1, ProductNat
<1>3. c * (b - a) = c * b - c * a
  OBVIOUS
<1> QED BY <1>2, <1>3

LEMMA ProductPositive == \A a, b \in Nat \ {0} : a * b \in Nat \ {0}
<1> SUFFICES ASSUME NEW a \in Nat \ {0}, NEW b \in Nat \ {0} PROVE a * b \in Nat \ {0}
  OBVIOUS
<1>1. a * 1 <= a * b
  BY ProductMonotone
<1> QED BY <1>1

LEMMA MixType ==
  ASSUME NEW last \in Fractions, NEW keep \in Nat, NEW value \in Int, NEW add \in Nat \ {0}
  PROVE  Mix(last, keep, value, add) \in Fractions
<1>1. last.num \in Int /\ last.den \in Nat \ {0} /\ keep + add \in Nat \ {0}
  BY DEF Fractions
<1>2. (keep + add) * last.den \in Nat \ {0}
  BY <1>1, ProductPositive
<1>3. keep * last.num + add * value * last.den \in Int
  BY <1>1
<1> QED BY <1>2, <1>3 DEF Mix, Fractions

(* What is needed for Averages(x, m, seed, keep, add) to be defined. *)
Averaged(x, m, seed, keep, add) ==
  /\ Len(x) \in Nat /\ m \in Int /\ Numbers(x, m + 1, Len(x))
  /\ m <= Len(x) => seed \in Fractions
  /\ keep \in Nat /\ add \in Nat \ {0}

IsAverages(f, x, m, seed, keep, add) ==
  f = [i \in m..Len(x) |-> IF i = m THEN seed ELSE Mix(f[i - 1], keep, x[i], add)]

LEMMA AveragesExist ==
  ASSUME NEW x, NEW m, NEW seed, NEW keep, NEW add, Averaged(x, m, seed, keep, add)
  PROVE  \E f : IsAverages(f, x, m, seed, keep, add)
<1>0. m \in Int /\ Len(x) \in Nat /\ keep \in Nat /\ add \in Nat \ {0}
  BY DEF Averaged
<1>1. CASE Len(x) < m
  <2> DEFINE g == [i \in m..Len(x) |-> seed]
  <2>1. m..Len(x) = {}
    BY <1>0, <1>1
  <2>2. IsAverages(g, x, m, seed, keep, add)
    BY <2>1 DEF IsAverages
  <2> QED BY <2>2
<1>2. CASE m <= Len(x)
  <2> DEFINE step == [iv \in ((m + 1)..Len(x)) \X Fractions |-> Mix(iv[2], keep, x[iv[1]], add)]
  <2>1. \A i \in (m + 1)..Len(x), v \in Fractions : step[<<i, v>>] = Mix(v, keep, x[i], add)
    OBVIOUS
  <2> HIDE DEF step
  <2>2. StepsWithin(Fractions, step, m, Len(x))
    <3>1. ASSUME NEW i \in (m + 1)..Len(x), NEW v \in Fractions
          PROVE  step[<<i, v>>] \in Fractions
      <4>1. x[i] \in Int
        BY DEF Averaged, Numbers
      <4> QED BY <1>0, <2>1, <4>1, MixType
    <3> QED BY <3>1 DEF StepsWithin
  <2>3. PICK f : Recursion(f, Fractions, seed, step, m, Len(x))
    <3>1. seed \in Fractions
      BY <1>2 DEF Averaged
    <3> QED BY <1>0, <2>2, <3>1, RecursionExists
  <2>4. ASSUME NEW i \in m..Len(x)
        PROVE  f[i] = IF i = m THEN seed ELSE Mix(f[i - 1], keep, x[i], add)
    <3>1. CASE i = m
      BY <1>2, <2>3, <3>1 DEF Recursion
    <3>2. CASE i # m
      <4>1. i \in (m + 1)..Len(x) /\ i - 1 \in m..Len(x)
        BY <1>0, <3>2
      <4>2. f[i - 1] \in Fractions /\ f[i] = step[<<i, f[i - 1]>>]
        BY <2>3, <4>1 DEF Recursion
      <4> QED BY <2>1, <3>2, <4>1, <4>2
    <3> QED BY <3>1, <3>2
  <2>5. IsAverages(f, x, m, seed, keep, add)
    BY <2>3, <2>4 DEF IsAverages, Recursion
  <2> QED BY <2>5
<1> QED BY <1>0, <1>1, <1>2

LEMMA AveragesDef ==
  ASSUME NEW x, NEW m, NEW seed, NEW keep, NEW add, Averaged(x, m, seed, keep, add)
  PROVE  IsAverages(Averages(x, m, seed, keep, add), x, m, seed, keep, add)
<1> DEFINE avg == CHOOSE f :
      f = [i \in m..Len(x) |-> IF i = m THEN seed ELSE Mix(f[i - 1], keep, x[i], add)]
<1>1. avg = [i \in m..Len(x) |-> IF i = m THEN seed ELSE Mix(avg[i - 1], keep, x[i], add)]
  <2>1. PICK f : f = [i \in m..Len(x) |-> IF i = m THEN seed ELSE Mix(f[i - 1], keep, x[i], add)]
    BY AveragesExist DEF IsAverages
  <2> QED BY <2>1, Zenon
<1>2. Averages(x, m, seed, keep, add) = avg
  BY Zenon DEF Averages
<1> HIDE DEF avg
<1> QED BY <1>1, <1>2 DEF IsAverages

(* The two cases of the definition, and the type of the values. *)
LEMMA AveragesAt ==
  ASSUME NEW x, NEW m, NEW seed, NEW keep, NEW add, Averaged(x, m, seed, keep, add)
  PROVE  /\ m <= Len(x) => Averages(x, m, seed, keep, add)[m] = seed
         /\ \A i \in (m + 1)..Len(x) :
              Averages(x, m, seed, keep, add)[i]
                = Mix(Averages(x, m, seed, keep, add)[i - 1], keep, x[i], add)
         /\ Averages(x, m, seed, keep, add) \in [m..Len(x) -> Fractions]
<1> DEFINE avg == Averages(x, m, seed, keep, add)
<1>0. m \in Int /\ Len(x) \in Nat /\ keep \in Nat /\ add \in Nat \ {0}
  BY DEF Averaged
<1>1. avg = [i \in m..Len(x) |-> IF i = m THEN seed ELSE Mix(avg[i - 1], keep, x[i], add)]
  BY AveragesDef DEF IsAverages
<1> HIDE DEF avg
<1>2. m <= Len(x) => avg[m] = seed
  BY <1>0, <1>1
<1>3. ASSUME NEW i \in (m + 1)..Len(x) PROVE avg[i] = Mix(avg[i - 1], keep, x[i], add)
  <2>1. i \in m..Len(x) /\ i # m
    BY <1>0
  <2> QED BY <1>1, <2>1
<1>4. avg \in [m..Len(x) -> Fractions]
  <2>1. CASE Len(x) < m
    <3>1. m..Len(x) = {}
      BY <1>0, <2>1
    <3> QED BY <1>1, <3>1
  <2>2. CASE m <= Len(x)
    <3> DEFINE T == {i \in m..Len(x) : avg[i] \in Fractions}
    <3>1. m \in T
      BY <1>0, <1>2, <2>2 DEF Averaged
    <3>2. ASSUME NEW i \in m..(Len(x) - 1), i \in T PROVE i + 1 \in T
      <4>1. i + 1 \in (m + 1)..Len(x) /\ i + 1 \in m..Len(x) /\ (i + 1) - 1 = i
        BY <1>0
      <4>2. x[i + 1] \in Int
        BY <4>1 DEF Averaged, Numbers
      <4>3. avg[i + 1] = Mix(avg[i], keep, x[i + 1], add)
        BY <1>3, <4>1
      <4> QED BY <1>0, <3>2, <4>1, <4>2, <4>3, MixType
    <3> HIDE DEF T
    <3>3. m..Len(x) \subseteq T
      <4>1. PICK n \in Int : n = Len(x)
        BY <1>0
      <4>2. \A i \in m..(n - 1) : i \in T => i + 1 \in T
        BY <3>2, <4>1
      <4> QED BY <1>0, <3>1, <4>1, <4>2, IntervalInduction
    <3>4. \A i \in m..Len(x) : avg[i] \in Fractions
      BY <3>3 DEF T
    <3> QED BY <1>1, <3>4
  <2> QED BY <1>0, <2>1, <2>2
<1> QED BY <1>2, <1>3, <1>4 DEF avg

(* An average at i depends on the values up to i only. *)
LEMMA AveragesSame ==
  ASSUME NEW x, NEW y, NEW m, NEW seed, NEW keep, NEW add,
         Averaged(x, m, seed, keep, add), Averaged(y, m, seed, keep, add),
         m <= Len(y), Len(y) <= Len(x), Same(x, y, m + 1, Len(y))
  PROVE  \A i \in m..Len(y) :
           Averages(x, m, seed, keep, add)[i] = Averages(y, m, seed, keep, add)[i]
<1> DEFINE f == Averages(x, m, seed, keep, add)
           g == Averages(y, m, seed, keep, add)
           T == {i \in m..Len(y) : f[i] = g[i]}
<1>0. m \in Int /\ Len(x) \in Nat /\ Len(y) \in Nat
  BY DEF Averaged
<1>1. f[m] = seed /\ \A i \in (m + 1)..Len(x) : f[i] = Mix(f[i - 1], keep, x[i], add)
  BY <1>0, AveragesAt
<1>2. g[m] = seed /\ \A i \in (m + 1)..Len(y) : g[i] = Mix(g[i - 1], keep, y[i], add)
  BY <1>0, AveragesAt
<1> HIDE DEF f, g
<1>3. m \in T
  BY <1>0, <1>1, <1>2
<1>4. ASSUME NEW i \in m..(Len(y) - 1), i \in T PROVE i + 1 \in T
  <2>1. /\ i + 1 \in (m + 1)..Len(y) /\ i + 1 \in (m + 1)..Len(x)
        /\ i + 1 \in m..Len(y) /\ (i + 1) - 1 = i
    BY <1>0
  <2>2. x[i + 1] = y[i + 1]
    BY <2>1 DEF Same
  <2> QED BY <1>1, <1>2, <1>4, <2>1, <2>2
<1> HIDE DEF T
<1>5. m..Len(y) \subseteq T
  <2>1. PICK n \in Int : n = Len(y)
    BY <1>0
  <2>2. \A i \in m..(n - 1) : i \in T => i + 1 \in T
    BY <1>4, <2>1
  <2> QED BY <1>0, <1>3, <2>1, <2>2, IntervalInduction
<1>6. \A i \in m..Len(y) : f[i] = g[i]
  BY <1>5 DEF T
<1> QED BY <1>6 DEF f, g

LEMMA MixBounds ==
  ASSUME NEW last \in Fractions, NEW keep \in Nat, NEW value \in Int, NEW add \in Nat \ {0},
         NEW bound \in Int
  PROVE  /\ bound * last.den <= last.num /\ bound <= value =>
              bound * Mix(last, keep, value, add).den <= Mix(last, keep, value, add).num
         /\ last.num <= bound * last.den /\ value <= bound =>
              Mix(last, keep, value, add).num <= bound * Mix(last, keep, value, add).den
<1> DEFINE num == last.num
           den == last.den
           unit == add * den
<1>1. num \in Int /\ den \in Nat \ {0}
  BY DEF Fractions
<1>2. unit \in Nat
  BY <1>1, ProductNat
<1>3. /\ Mix(last, keep, value, add).num = keep * num + add * value * den
      /\ Mix(last, keep, value, add).den = (keep + add) * den
  BY DEF Mix
<1> HIDE DEF num, den
<1>4. bound * ((keep + add) * den) = keep * (bound * den) + unit * bound
  BY <1>1
<1>5. add * value * den = unit * value
  BY <1>1
<1>6. bound * den \in Int /\ keep * (bound * den) \in Int /\ keep * num \in Int
      /\ unit * bound \in Int /\ unit * value \in Int
  BY <1>1, <1>2
<1> HIDE DEF unit
<1>7. ASSUME bound * den <= num, bound <= value
      PROVE  bound * ((keep + add) * den) <= keep * num + add * value * den
  <2>1. keep * (bound * den) <= keep * num
    BY <1>1, <1>6, <1>7, ProductMonotone
  <2>2. unit * bound <= unit * value
    BY <1>2, <1>7, ProductMonotone
  <2> QED BY <1>4, <1>5, <1>6, <2>1, <2>2
<1>8. ASSUME num <= bound * den, value <= bound
      PROVE  keep * num + add * value * den <= bound * ((keep + add) * den)
  <2>1. keep * num <= keep * (bound * den)
    BY <1>1, <1>6, <1>8, ProductMonotone
  <2>2. unit * value <= unit * bound
    BY <1>2, <1>8, ProductMonotone
  <2> QED BY <1>4, <1>5, <1>6, <2>1, <2>2
<1> QED BY <1>3, <1>7, <1>8 DEF num, den

(* A mean of x[from] to x[i] and the next value give a mean of one more. *)
LEMMA MixMean ==
  ASSUME NEW last \in Fractions, NEW keep \in Nat, NEW add \in Nat \ {0},
         NEW x, NEW from \in Int, NEW i \in Int, Numbers(x, from, i + 1), from <= i + 1,
         IsMean(last, x, from, i)
  PROVE  IsMean(Mix(last, keep, x[i + 1], add), x, from, i + 1)
<1> DEFINE next == Mix(last, keep, x[i + 1], add)
<1>0. \A j \in from..i : j \in from..(i + 1) /\ x[j] \in Int
  BY DEF Numbers
<1>1. i + 1 \in from..(i + 1) /\ x[i + 1] \in Int
  BY DEF Numbers
<1>2. \E j \in from..(i + 1) : x[j] * next.den <= next.num
  <2>1. PICK j \in from..i : x[j] * last.den <= last.num
    BY DEF IsMean
  <2>2. j \in from..(i + 1) /\ x[j] \in Int
    BY <1>0
  <2>3. CASE x[j] <= x[i + 1]
    BY <1>1, <2>1, <2>2, <2>3, MixBounds
  <2>4. CASE x[i + 1] <= x[j]
    <3>1. last.den \in Nat /\ last.num \in Int
      BY DEF Fractions
    <3>2. x[i + 1] * last.den <= last.num
      <4>1. last.den * x[i + 1] <= last.den * x[j]
        BY <1>1, <2>2, <2>4, <3>1, ProductMonotone
      <4> QED BY <1>1, <2>1, <2>2, <3>1, <4>1
    <3> QED BY <1>1, <3>2, MixBounds
  <2> QED BY <1>1, <2>2, <2>3, <2>4
<1>3. \E j \in from..(i + 1) : next.num <= x[j] * next.den
  <2>1. PICK j \in from..i : last.num <= x[j] * last.den
    BY DEF IsMean
  <2>2. j \in from..(i + 1) /\ x[j] \in Int
    BY <1>0
  <2>3. CASE x[i + 1] <= x[j]
    BY <1>1, <2>1, <2>2, <2>3, MixBounds
  <2>4. CASE x[j] <= x[i + 1]
    <3>1. last.den \in Nat /\ last.num \in Int
      BY DEF Fractions
    <3>2. last.num <= x[i + 1] * last.den
      <4>1. last.den * x[j] <= last.den * x[i + 1]
        BY <1>1, <2>2, <2>4, <3>1, ProductMonotone
      <4> QED BY <1>1, <2>1, <2>2, <3>1, <4>1
    <3> QED BY <1>1, <3>2, MixBounds
  <2> QED BY <1>1, <2>2, <2>3, <2>4
<1> QED BY <1>2, <1>3 DEF IsMean

LEMMA AveragesMean ==
  ASSUME NEW x, NEW m, NEW seed, NEW keep, NEW add, Averaged(x, m, seed, keep, add),
         NEW from \in Int, from <= m, Numbers(x, from, Len(x)), IsMean(seed, x, from, m)
  PROVE  \A i \in m..Len(x) : IsMean(Averages(x, m, seed, keep, add)[i], x, from, i)
<1> DEFINE f == Averages(x, m, seed, keep, add)
           T == {i \in m..Len(x) : IsMean(f[i], x, from, i)}
<1>0. m \in Int /\ Len(x) \in Nat /\ keep \in Nat /\ add \in Nat \ {0}
  BY DEF Averaged
<1>1. /\ m <= Len(x) => f[m] = seed
      /\ \A i \in (m + 1)..Len(x) : f[i] = Mix(f[i - 1], keep, x[i], add)
      /\ f \in [m..Len(x) -> Fractions]
  BY AveragesAt
<1> HIDE DEF f
<1>2. m <= Len(x) => m \in T
  BY <1>0, <1>1
<1>3. ASSUME NEW i \in m..(Len(x) - 1), i \in T PROVE i + 1 \in T
  <2>1. /\ i + 1 \in (m + 1)..Len(x) /\ i + 1 \in m..Len(x) /\ (i + 1) - 1 = i
        /\ i \in Int /\ from <= i + 1 /\ i \in m..Len(x)
    BY <1>0
  <2>2. Numbers(x, from, i + 1)
    BY <1>0, <2>1 DEF Numbers
  <2>3. f[i] \in Fractions /\ IsMean(f[i], x, from, i)
    BY <1>1, <1>3, <2>1
  <2>4. IsMean(Mix(f[i], keep, x[i + 1], add), x, from, i + 1)
    BY <1>0, <2>1, <2>2, <2>3, MixMean
  <2> QED BY <1>1, <2>1, <2>4
<1> HIDE DEF T
<1>4. m..Len(x) \subseteq T
  <2>1. PICK n \in Int : n = Len(x)
    BY <1>0
  <2>2. \A i \in m..(n - 1) : i \in T => i + 1 \in T
    BY <1>3, <2>1
  <2>3. CASE m <= n
    BY <1>0, <1>2, <2>1, <2>2, <2>3, IntervalInduction
  <2>4. CASE n < m
    BY <1>0, <2>1, <2>4
  <2> QED BY <1>0, <2>3, <2>4
<1>5. \A i \in m..Len(x) : IsMean(f[i], x, from, i)
  BY <1>4 DEF T
<1> QED BY <1>5 DEF f

-----------------------------------------------------------------------------
(* The plain average a series starts with. *)

LEMMA TotalMean ==
  ASSUME NEW m \in Int, NEW n \in Int, m <= n, NEW x, Numbers(x, m, n)
  PROVE  IsMean([num |-> Total(x, m, n), den |-> n - m + 1], x, m, n)
<1> DEFINE T == {k \in m..n : IsMean([num |-> Total(x, m, k), den |-> k - m + 1], x, m, k)}
<1>1. m \in T
  <2>1. m \in m..n /\ x[m] \in Int /\ m - m + 1 = 1
    BY DEF Numbers
  <2>2. Numbers(x, m, m)
    BY <2>1 DEF Numbers
  <2>3. Total(x, m, m) = x[m]
    BY <2>1, <2>2, TotalEmpty, TotalStep
  <2> QED BY <2>1, <2>3 DEF IsMean
<1>2. ASSUME NEW k \in m..(n - 1), k \in T PROVE k + 1 \in T
  <2> DEFINE total == Total(x, m, k)
             count == k - m + 1
  <2>1. k + 1 \in m..n /\ (k + 1) - 1 = k /\ x[k + 1] \in Int /\ count \in Nat \ {0}
    BY DEF Numbers
  <2>2. Numbers(x, m, k) /\ Numbers(x, m, k + 1)
    BY DEF Numbers
  <2>3. total \in Int
    BY <2>2, TotalType
  <2>4. Total(x, m, k + 1) = total + x[k + 1] /\ (k + 1) - m + 1 = count + 1
    BY <2>1, <2>2, TotalStep
  <2>5. \A j \in m..k : j \in m..(k + 1) /\ x[j] \in Int
    BY <2>2 DEF Numbers
  <2>6. k + 1 \in m..(k + 1)
    BY <2>1
  <2>7. IsMean([num |-> total, den |-> count], x, m, k)
    BY <1>2
  <2> HIDE DEF total, count
  <2>8. \E j \in m..(k + 1) : x[j] * (count + 1) <= total + x[k + 1]
    <3>1. PICK j \in m..k : x[j] * count <= total
      BY <2>7 DEF IsMean
    <3>2. CASE x[j] <= x[k + 1]
      <4>1. x[j] * (count + 1) = x[j] * count + x[j]
        BY <2>1, <2>5
      <4>2. x[j] * count \in Int
        BY <2>1, <2>5
      <4> QED BY <2>1, <2>3, <2>5, <3>1, <3>2, <4>1, <4>2
    <3>3. CASE x[k + 1] <= x[j]
      <4>1. count * x[k + 1] <= count * x[j]
        BY <2>1, <2>5, <3>3, ProductMonotone
      <4>2. x[k + 1] * (count + 1) = count * x[k + 1] + x[k + 1] /\ x[j] * count = count * x[j]
        BY <2>1, <2>5
      <4>3. count * x[k + 1] \in Int /\ count * x[j] \in Int
        BY <2>1, <2>5
      <4> QED BY <2>1, <2>3, <2>6, <3>1, <4>1, <4>2, <4>3
    <3> QED BY <2>1, <2>5, <3>2, <3>3
  <2>9. \E j \in m..(k + 1) : total + x[k + 1] <= x[j] * (count + 1)
    <3>1. PICK j \in m..k : total <= x[j] * count
      BY <2>7 DEF IsMean
    <3>2. CASE x[k + 1] <= x[j]
      <4>1. x[j] * (count + 1) = x[j] * count + x[j]
        BY <2>1, <2>5
      <4>2. x[j] * count \in Int
        BY <2>1, <2>5
      <4> QED BY <2>1, <2>3, <2>5, <3>1, <3>2, <4>1, <4>2
    <3>3. CASE x[j] <= x[k + 1]
      <4>1. count * x[j] <= count * x[k + 1]
        BY <2>1, <2>5, <3>3, ProductMonotone
      <4>2. x[k + 1] * (count + 1) = count * x[k + 1] + x[k + 1] /\ x[j] * count = count * x[j]
        BY <2>1, <2>5
      <4>3. count * x[k + 1] \in Int /\ count * x[j] \in Int
        BY <2>1, <2>5
      <4> QED BY <2>1, <2>3, <2>6, <3>1, <4>1, <4>2, <4>3
    <3> QED BY <2>1, <2>5, <3>2, <3>3
  <2> QED BY <2>1, <2>4, <2>8, <2>9 DEF IsMean
<1> HIDE DEF T
<1>3. m..n \subseteq T
  BY <1>1, <1>2, IntervalInduction
<1>4. n \in T
  BY <1>3
<1> QED BY <1>4 DEF T

Naturals(x, m, n) == \A i \in m..n : x[i] \in Nat

(* A sum of natural numbers of which one is not 0. *)
LEMMA TotalPositive ==
  ASSUME NEW m \in Int, NEW n \in Int, NEW x, Naturals(x, m, n),
         NEW j \in m..n, x[j] # 0
  PROVE  Total(x, m, n) > 0
<1> DEFINE T == {k \in (m - 1)..n : Total(x, m, k) \in Nat /\ (j <= k => Total(x, m, k) > 0)}
<1>1. m - 1 \in T
  BY TotalEmpty
<1>2. ASSUME NEW k \in (m - 1)..(n - 1), k \in T PROVE k + 1 \in T
  <2>1. k + 1 \in m..n /\ k + 1 \in (m - 1)..n /\ (k + 1) - 1 = k /\ x[k + 1] \in Nat
    BY DEF Naturals
  <2>2. Numbers(x, m, k + 1)
    BY DEF Numbers, Naturals
  <2>3. Total(x, m, k + 1) = Total(x, m, k) + x[k + 1]
    BY <2>1, <2>2, TotalStep
  <2>4. j = k + 1 => x[k + 1] > 0
    BY <2>1
  <2> QED BY <1>2, <2>1, <2>3, <2>4
<1> HIDE DEF T
<1>3. (m - 1)..n \subseteq T
  BY <1>1, <1>2, IntervalInduction
<1>4. n \in T
  BY <1>3
<1> QED BY <1>4 DEF T

-----------------------------------------------------------------------------
(* The three averages: of prices (ema), of changes (rsi) and of ranges (atr). *)

EmaSeed(s, p) == [num |-> Total(s, 1, p), den |-> p]
SmoothedSeed(x, p) == [num |-> Total(x, 2, p + 1), den |-> p]

LEMMA EmaAveraged ==
  ASSUME NEW s, Len(s) \in Nat, Numbers(s, 1, Len(s)), NEW p \in Nat \ {0}
  PROVE  /\ Averaged(s, p, EmaSeed(s, p), p - 1, 2)
         /\ Ema(s, p) = Averages(s, p, EmaSeed(s, p), p - 1, 2)
<1>1. Numbers(s, p + 1, Len(s))
  BY DEF Numbers
<1>2. p <= Len(s) => EmaSeed(s, p) \in Fractions
  <2>1. ASSUME p <= Len(s) PROVE Numbers(s, 1, p)
    BY <2>1 DEF Numbers
  <2>2. ASSUME p <= Len(s) PROVE Total(s, 1, p) \in Int
    BY <2>1, <2>2, TotalType
  <2> QED BY <2>2 DEF EmaSeed, Fractions
<1> QED BY <1>1, <1>2 DEF Averaged, Ema, EmaSeed

LEMMA SmoothedAveraged ==
  ASSUME NEW x, Len(x) \in Nat, Numbers(x, 2, Len(x)), NEW p \in Nat \ {0}
  PROVE  /\ Averaged(x, p + 1, SmoothedSeed(x, p), p - 1, 1)
         /\ Smoothed(x, p) = Averages(x, p + 1, SmoothedSeed(x, p), p - 1, 1)
<1>1. Numbers(x, (p + 1) + 1, Len(x))
  BY DEF Numbers
<1>2. p + 1 <= Len(x) => SmoothedSeed(x, p) \in Fractions
  <2>1. ASSUME p + 1 <= Len(x) PROVE Numbers(x, 2, p + 1)
    BY <2>1 DEF Numbers
  <2>2. ASSUME p + 1 <= Len(x) PROVE Total(x, 2, p + 1) \in Int
    BY <2>1, <2>2, TotalType
  <2> QED BY <2>2 DEF SmoothedSeed, Fractions
<1> QED BY <1>1, <1>2 DEF Averaged, Smoothed, SmoothedSeed

(* The averages are fractions: no denominator is 0. *)
LEMMA EmaType ==
  ASSUME NEW s, Len(s) \in Nat, Numbers(s, 1, Len(s)), NEW p \in Nat \ {0}
  PROVE  Ema(s, p) \in [p..Len(s) -> Fractions]
BY EmaAveraged, AveragesAt

LEMMA SmoothedAt ==
  ASSUME NEW x, Len(x) \in Nat, Numbers(x, 2, Len(x)), NEW p \in Nat \ {0}
  PROVE  /\ p + 1 <= Len(x) => Smoothed(x, p)[p + 1] = SmoothedSeed(x, p)
         /\ \A k \in (p + 2)..Len(x) :
              Smoothed(x, p)[k] = Mix(Smoothed(x, p)[k - 1], p - 1, x[k], 1)
         /\ Smoothed(x, p) \in [(p + 1)..Len(x) -> Fractions]
<1>1. PICK m \in Int, keep \in Int : m = p + 1 /\ keep = p - 1 /\ m + 1 = p + 2
  OBVIOUS
<1>2. /\ Averaged(x, m, SmoothedSeed(x, p), keep, 1)
      /\ Smoothed(x, p) = Averages(x, m, SmoothedSeed(x, p), keep, 1)
  BY <1>1, SmoothedAveraged
<1>3. /\ m <= Len(x) => Smoothed(x, p)[m] = SmoothedSeed(x, p)
      /\ \A k \in (m + 1)..Len(x) : Smoothed(x, p)[k] = Mix(Smoothed(x, p)[k - 1], keep, x[k], 1)
      /\ Smoothed(x, p) \in [m..Len(x) -> Fractions]
  BY <1>2, AveragesAt
<1> QED BY <1>1, <1>3

(* ema at i lies within the prices up to i (indicators.py:5-30). *)
THEOREM EmaMean ==
  ASSUME NEW s, Len(s) \in Nat, Numbers(s, 1, Len(s)), NEW p \in Nat \ {0},
         NEW i \in p..Len(s)
  PROVE  IsMean(Ema(s, p)[i], s, 1, i)
<1>1. Numbers(s, 1, p)
  BY DEF Numbers
<1>2. IsMean(EmaSeed(s, p), s, 1, p)
  <2>1. p - 1 + 1 = p /\ 1 <= p
    OBVIOUS
  <2> QED BY <1>1, <2>1, TotalMean DEF EmaSeed
<1>3. \A k \in p..Len(s) : IsMean(Averages(s, p, EmaSeed(s, p), p - 1, 2)[k], s, 1, k)
  <2>1. 1 \in Int /\ 1 <= p
    OBVIOUS
  <2> QED BY <1>2, <2>1, EmaAveraged, AveragesMean
<1> QED BY <1>3, EmaAveraged

(* The average of rsi and atr at i lies within the values from the second to the
   i-th (indicators.py:43-54 and 75-85). *)
THEOREM SmoothedMean ==
  ASSUME NEW x, Len(x) \in Nat, Numbers(x, 2, Len(x)), NEW p \in Nat \ {0},
         NEW i \in (p + 1)..Len(x)
  PROVE  IsMean(Smoothed(x, p)[i], x, 2, i)
<1>1. Numbers(x, 2, p + 1)
  BY DEF Numbers
<1>2. IsMean(SmoothedSeed(x, p), x, 2, p + 1)
  <2>1. (p + 1) - 2 + 1 = p /\ 2 <= p + 1 /\ p + 1 \in Int /\ 2 \in Int
    OBVIOUS
  <2> QED BY <1>1, <2>1, TotalMean DEF SmoothedSeed
<1>3. \A k \in (p + 1)..Len(x) :
        IsMean(Averages(x, p + 1, SmoothedSeed(x, p), p - 1, 1)[k], x, 2, k)
  <2>1. 2 \in Int /\ 2 <= p + 1
    OBVIOUS
  <2> QED BY <1>2, <2>1, SmoothedAveraged, AveragesMean
<1> QED BY <1>3, SmoothedAveraged

(* ema at i depends on the prices up to i only (indicators.py:5-30). *)
THEOREM EmaNeverLooksAhead ==
  ASSUME NEW s, Len(s) \in Nat, Numbers(s, 1, Len(s)), NEW p \in Nat \ {0},
         NEW t, Len(t) \in Nat, Len(t) <= Len(s), Same(s, t, 1, Len(t)),
         NEW i \in p..Len(t)
  PROVE  Ema(s, p)[i] = Ema(t, p)[i]
<1>1. Numbers(t, 1, Len(t)) /\ Same(s, t, p + 1, Len(t))
  BY DEF Numbers, Same
<1>2. EmaSeed(s, p) = EmaSeed(t, p)
  <2>1. Numbers(s, 1, p) /\ Same(s, t, 1, p) /\ 1 - 1 <= p
    BY DEF Numbers, Same
  <2> QED BY <2>1, TotalSame DEF EmaSeed
<1>3. PICK keep \in Int : keep = p - 1
  OBVIOUS
<1>4. /\ Averaged(s, p, EmaSeed(s, p), keep, 2) /\ Averaged(t, p, EmaSeed(s, p), keep, 2)
      /\ Ema(s, p) = Averages(s, p, EmaSeed(s, p), keep, 2)
      /\ Ema(t, p) = Averages(t, p, EmaSeed(s, p), keep, 2)
  BY <1>1, <1>2, <1>3, EmaAveraged
<1>5. p <= Len(t)
  OBVIOUS
<1> QED BY <1>1, <1>4, <1>5, AveragesSame

(* An average of natural numbers of which one is not 0 is not 0: with a period of
   2 or more the one never leaves it. *)
LEMMA SmoothedPositive ==
  ASSUME NEW x, Len(x) \in Nat, Naturals(x, 2, Len(x)), NEW p \in Nat \ {0, 1},
         NEW i \in (p + 1)..Len(x), NEW j \in 2..i, x[j] # 0
  PROVE  Smoothed(x, p)[i].num > 0
<1> DEFINE f == Smoothed(x, p)
           T == {k \in (p + 1)..i : f[k].num >= 0 /\ (j <= k => f[k].num > 0)}
<1>1. Numbers(x, 2, Len(x))
  BY DEF Numbers, Naturals
<1>2. f[p + 1] = SmoothedSeed(x, p)
  <2>1. p + 1 <= Len(x)
    OBVIOUS
  <2> QED BY <1>1, <2>1, SmoothedAt
<1>3. \A k \in (p + 2)..Len(x) : f[k] = Mix(f[k - 1], p - 1, x[k], 1)
  BY <1>1, SmoothedAt
<1>4. f \in [(p + 1)..Len(x) -> Fractions]
  BY <1>1, SmoothedAt
<1>5. \A k \in (p + 1)..Len(x) : f[k].num >= 0
  <2>1. ASSUME NEW k \in (p + 1)..Len(x) PROVE f[k].num >= 0
    <3>1. IsMean(f[k], x, 2, k)
      BY <1>1, SmoothedMean
    <3>2. f[k].den \in Nat /\ f[k].num \in Int
      BY <1>4 DEF Fractions
    <3>3. PICK l \in 2..k : x[l] * f[k].den <= f[k].num
      BY <3>1 DEF IsMean
    <3>4. x[l] \in Nat
      BY DEF Naturals
    <3>5. x[l] * f[k].den \in Nat
      BY <3>2, <3>4, ProductNat
    <3> QED BY <3>2, <3>3, <3>5
  <2> QED BY <2>1
<1> HIDE DEF f
<1>6. p + 1 \in T
  <2>1. ASSUME j <= p + 1 PROVE Total(x, 2, p + 1) > 0
    <3>1. j \in 2..(p + 1) /\ Naturals(x, 2, p + 1) /\ p + 1 \in Int
      BY <2>1 DEF Naturals
    <3> QED BY <3>1, TotalPositive
  <2>2. p + 1 \in (p + 1)..i /\ p + 1 \in (p + 1)..Len(x)
    OBVIOUS
  <2> QED BY <1>2, <1>5, <2>1, <2>2 DEF SmoothedSeed
<1>7. ASSUME NEW k \in (p + 1)..(i - 1), k \in T PROVE k + 1 \in T
  <2>1. /\ k + 1 \in (p + 2)..Len(x) /\ (k + 1) - 1 = k
        /\ k + 1 \in (p + 1)..i /\ k \in (p + 1)..Len(x) /\ k + 1 \in (p + 1)..Len(x)
    OBVIOUS
  <2> DEFINE num == f[k].num
             den == f[k].den
  <2>2. num \in Int /\ den \in Nat \ {0}
    BY <1>4, <2>1 DEF Fractions
  <2>3. f[k + 1].num = (p - 1) * num + x[k + 1] * den
    <3>1. f[k + 1] = Mix(f[k], p - 1, x[k + 1], 1)
      BY <1>3, <2>1
    <3>2. x[k + 1] \in Nat
      BY <2>1 DEF Naturals
    <3>3. Mix(f[k], p - 1, x[k + 1], 1).num = (p - 1) * num + 1 * x[k + 1] * den
      BY DEF Mix
    <3> QED BY <2>2, <3>1, <3>2, <3>3
  <2>4. num >= 0 /\ (j <= k => num > 0)
    BY <1>7
  <2>5. x[k + 1] \in Nat
    BY <2>1 DEF Naturals
  <2> HIDE DEF num, den
  <2>6. (p - 1) * num \in Nat /\ x[k + 1] * den \in Nat
    BY <2>2, <2>4, <2>5, ProductNat
  <2>7. CASE j <= k
    <3>1. (p - 1) * num \in Nat \ {0}
      BY <2>2, <2>4, <2>7, ProductPositive
    <3>2. f[k + 1].num \in Nat \ {0}
      BY <2>3, <2>6, <3>1
    <3> QED BY <2>1, <3>2
  <2>8. CASE j = k + 1
    <3>1. x[k + 1] * den \in Nat \ {0}
      BY <2>2, <2>5, <2>8, ProductPositive
    <3>2. f[k + 1].num \in Nat \ {0}
      BY <2>3, <2>6, <3>1
    <3> QED BY <2>1, <3>2
  <2>9. CASE j > k + 1
    BY <1>5, <2>1, <2>9
  <2> QED BY <2>7, <2>8, <2>9
<1> HIDE DEF T
<1>8. (p + 1)..i \subseteq T
  BY <1>6, <1>7, IntervalInduction
<1>9. i \in T
  BY <1>8
<1> QED BY <1>9 DEF T, f

-----------------------------------------------------------------------------
(* rsi. *)

LEMMA ChangesType ==
  ASSUME NEW s, Len(s) \in Nat, Numbers(s, 1, Len(s))
  PROVE  /\ Len(Gains(s)) = Len(s) /\ Naturals(Gains(s), 2, Len(s))
         /\ Len(Losses(s)) = Len(s) /\ Naturals(Losses(s), 2, Len(s))
         /\ \A i \in 2..Len(s) : /\ Gains(s)[i] = Larger(s[i] - s[i - 1], 0)
                                 /\ Losses(s)[i] = Larger(s[i - 1] - s[i], 0)
<1>1. PICK n \in Nat : n = Len(s)
  OBVIOUS
<1>2. Len(Gains(s)) = n /\ Len(Losses(s)) = n
  BY <1>1 DEF Gains, Losses
<1>3. ASSUME NEW i \in 2..n
      PROVE  /\ Gains(s)[i] = Larger(s[i] - s[i - 1], 0) /\ Gains(s)[i] \in Nat
             /\ Losses(s)[i] = Larger(s[i - 1] - s[i], 0) /\ Losses(s)[i] \in Nat
  <2>1. i \in 1..n /\ i - 1 \in 1..n /\ i # 1
    OBVIOUS
  <2>2. s[i] \in Int /\ s[i - 1] \in Int
    BY <1>1, <2>1 DEF Numbers
  <2>3. Gains(s)[i] = Larger(s[i] - s[i - 1], 0) /\ Losses(s)[i] = Larger(s[i - 1] - s[i], 0)
    BY <1>1, <2>1 DEF Gains, Losses
  <2> QED BY <2>2, <2>3 DEF Larger
<1> QED BY <1>1, <1>2, <1>3 DEF Naturals

LEMMA MirrorTurns ==
  ASSUME NEW s, Len(s) \in Nat, Numbers(s, 1, Len(s))
  PROVE  /\ Len(Mirror(s)) = Len(s) /\ Numbers(Mirror(s), 1, Len(s))
         /\ Gains(Mirror(s)) = Losses(s) /\ Losses(Mirror(s)) = Gains(s)
<1>1. PICK n \in Nat : n = Len(s)
  OBVIOUS
<1>2. Len(Mirror(s)) = n
  BY <1>1 DEF Mirror
<1>3. \A i \in 1..n : s[i] \in Int /\ Mirror(s)[i] = -s[i]
  BY <1>1 DEF Mirror, Numbers
<1>4. Numbers(Mirror(s), 1, n)
  BY <1>3 DEF Numbers
<1>5. ASSUME NEW i \in 1..n
      PROVE  /\ (IF i = 1 THEN 0 ELSE Larger(Mirror(s)[i] - Mirror(s)[i - 1], 0))
                   = (IF i = 1 THEN 0 ELSE Larger(s[i - 1] - s[i], 0))
             /\ (IF i = 1 THEN 0 ELSE Larger(Mirror(s)[i - 1] - Mirror(s)[i], 0))
                   = (IF i = 1 THEN 0 ELSE Larger(s[i] - s[i - 1], 0))
  <2>1. CASE i = 1
    BY <2>1
  <2>2. CASE i # 1
    <3>1. i - 1 \in 1..n
      BY <2>2
    <3>2. /\ s[i] \in Int /\ s[i - 1] \in Int
          /\ Mirror(s)[i] = -s[i] /\ Mirror(s)[i - 1] = -s[i - 1]
      BY <1>3, <3>1
    <3>3. Mirror(s)[i] - Mirror(s)[i - 1] = s[i - 1] - s[i]
      BY <3>2
    <3>4. Mirror(s)[i - 1] - Mirror(s)[i] = s[i] - s[i - 1]
      BY <3>2
    <3> QED BY <3>3, <3>4
  <2> QED BY <2>1, <2>2
<1>6. Gains(Mirror(s)) = Losses(s)
  BY <1>1, <1>2, <1>5 DEF Gains, Losses
<1>7. Losses(Mirror(s)) = Gains(s)
  BY <1>1, <1>2, <1>5 DEF Gains, Losses
<1> QED BY <1>1, <1>2, <1>4, <1>6, <1>7

(* The averages that rsi compares, and rsi as a function of them. *)
LEMMA RsiAt ==
  ASSUME NEW s, Len(s) \in Nat, Numbers(s, 1, Len(s)), NEW p \in Nat \ {0},
         NEW i \in (p + 1)..Len(s)
  PROVE  /\ Rsi(s, p)[i] = RsiOf(Smoothed(Gains(s), p)[i], Smoothed(Losses(s), p)[i])
         /\ Smoothed(Gains(s), p)[i].num \in Nat /\ Smoothed(Losses(s), p)[i].num \in Nat
<1>1. Rsi(s, p)[i] = RsiOf(Smoothed(Gains(s), p)[i], Smoothed(Losses(s), p)[i])
  BY DEF Rsi
<1>2. ASSUME NEW x, Len(x) = Len(s), Naturals(x, 2, Len(s))
      PROVE  Smoothed(x, p)[i].num \in Nat
  <2>1. Numbers(x, 2, Len(x))
    BY <1>2 DEF Naturals, Numbers
  <2>2. IsMean(Smoothed(x, p)[i], x, 2, i)
    BY <1>2, <2>1, SmoothedMean
  <2>3. Smoothed(x, p)[i] \in Fractions
    BY <1>2, <2>1, SmoothedAt
  <2>4. PICK j \in 2..i : x[j] * Smoothed(x, p)[i].den <= Smoothed(x, p)[i].num
    BY <2>2 DEF IsMean
  <2>5. x[j] \in Nat
    BY <1>2 DEF Naturals
  <2>6. Smoothed(x, p)[i].num \in Int /\ Smoothed(x, p)[i].den \in Nat
    BY <2>3 DEF Fractions
  <2>7. x[j] * Smoothed(x, p)[i].den \in Nat
    BY <2>5, <2>6, ProductNat
  <2> QED BY <2>4, <2>6, <2>7
<1> QED BY <1>1, <1>2, ChangesType

LEMMA RsiOfRange ==
  ASSUME NEW gain, NEW loss, gain.num \in Nat, loss.num \in Nat
  PROVE  /\ 0 <= RsiOf(gain, loss).num
         /\ RsiOf(gain, loss).num <= 100 * RsiOf(gain, loss).den
         /\ loss.num = 0 => RsiOf(gain, loss).num = 100 * RsiOf(gain, loss).den
<1>1. CASE loss.num = 0
  <2>1. RsiOf(gain, loss).num = 100 /\ RsiOf(gain, loss).den = 1
    BY <1>1 DEF RsiOf
  <2> QED BY <2>1
<1>2. CASE loss.num # 0
  <2>1. /\ RsiOf(gain, loss).num = 100 * gain.num
        /\ RsiOf(gain, loss).den = gain.num + loss.num
    BY <1>2 DEF RsiOf
  <2> QED BY <1>2, <2>1
<1> QED BY <1>1, <1>2

(* rsi lies between 0 and 100 (indicators.py:33-62). *)
THEOREM RsiBounded ==
  ASSUME NEW s, Len(s) \in Nat, Numbers(s, 1, Len(s)), NEW p \in Nat \ {0},
         NEW i \in (p + 1)..Len(s)
  PROVE  0 <= Rsi(s, p)[i].num /\ Rsi(s, p)[i].num <= 100 * Rsi(s, p)[i].den
BY RsiAt, RsiOfRange

(* rsi is 100 as long as no value has fallen (indicators.py:55-57). *)
THEOREM RsiWithoutFall ==
  ASSUME NEW s, Len(s) \in Nat, Numbers(s, 1, Len(s)), NEW p \in Nat \ {0},
         NEW i \in (p + 1)..Len(s), \A j \in 2..i : ~(s[j] < s[j - 1])
  PROVE  Rsi(s, p)[i].num = 100 * Rsi(s, p)[i].den
<1> DEFINE x == Losses(s)
           loss == Smoothed(x, p)[i]
<1>1. Len(x) = Len(s) /\ Naturals(x, 2, Len(s))
  BY ChangesType
<1>2. Numbers(x, 2, Len(x))
  BY <1>1 DEF Naturals, Numbers
<1>3. \A j \in 2..i : x[j] = 0
  <2>1. ASSUME NEW j \in 2..i PROVE x[j] = 0
    <3>1. j \in 2..Len(s) /\ j \in 1..Len(s) /\ j - 1 \in 1..Len(s)
      OBVIOUS
    <3>2. s[j] \in Int /\ s[j - 1] \in Int
      BY <3>1 DEF Numbers
    <3>3. x[j] = Larger(s[j - 1] - s[j], 0)
      BY <3>1, ChangesType
    <3> QED BY <3>2, <3>3 DEF Larger
  <2> QED BY <2>1
<1>4. IsMean(loss, x, 2, i)
  BY <1>1, <1>2, SmoothedMean
<1>5. loss \in Fractions
  BY <1>1, <1>2, SmoothedAt
<1>6. loss.num <= 0
  <2>1. PICK j \in 2..i : loss.num <= x[j] * loss.den
    BY <1>4 DEF IsMean
  <2>2. loss.den \in Nat
    BY <1>5 DEF Fractions
  <2>3. x[j] * loss.den = 0
    BY <1>3, <2>2
  <2> QED BY <2>1, <2>3
<1>7. loss.num = 0
  BY <1>6, RsiAt
<1>8. Rsi(s, p)[i] = RsiOf(Smoothed(Gains(s), p)[i], loss)
      /\ Smoothed(Gains(s), p)[i].num \in Nat /\ loss.num \in Nat
  BY RsiAt
<1> HIDE DEF loss
<1>9. RsiOf(Smoothed(Gains(s), p)[i], loss).num = 100 * RsiOf(Smoothed(Gains(s), p)[i], loss).den
  BY <1>7, <1>8, RsiOfRange
<1> QED BY <1>8, <1>9

(* Prices turned upside down turn rsi around (indicators.py:33-62). *)
THEOREM RsiTurns ==
  ASSUME NEW s, Len(s) \in Nat, Numbers(s, 1, Len(s)), NEW p \in Nat \ {0, 1},
         NEW i \in (p + 1)..Len(s), NEW j \in 2..i, s[j] # s[j - 1]
  PROVE  Rsi(s, p)[i].num * Rsi(Mirror(s), p)[i].den + Rsi(Mirror(s), p)[i].num * Rsi(s, p)[i].den
           = 100 * Rsi(s, p)[i].den * Rsi(Mirror(s), p)[i].den
<1> DEFINE gain == Smoothed(Gains(s), p)[i]
           loss == Smoothed(Losses(s), p)[i]
<1>1. /\ Rsi(s, p)[i] = RsiOf(gain, loss) /\ gain.num \in Nat /\ loss.num \in Nat
  BY RsiAt
<1>2. Rsi(Mirror(s), p)[i] = RsiOf(loss, gain)
  <2>1. Len(Mirror(s)) = Len(s) /\ Numbers(Mirror(s), 1, Len(Mirror(s)))
    BY MirrorTurns
  <2> QED BY <2>1, RsiAt, MirrorTurns
<1>3. gain.num # 0 \/ loss.num # 0
  <2>1. j \in 2..Len(s) /\ j \in 1..Len(s) /\ j - 1 \in 1..Len(s)
    OBVIOUS
  <2>2. s[j] \in Int /\ s[j - 1] \in Int
    BY <2>1 DEF Numbers
  <2>3. Gains(s)[j] # 0 \/ Losses(s)[j] # 0
    BY <2>1, <2>2, ChangesType DEF Larger
  <2>4. ASSUME NEW x, Len(x) = Len(s), Naturals(x, 2, Len(s)), x[j] # 0
        PROVE  Smoothed(x, p)[i].num > 0
    BY <2>4, SmoothedPositive
  <2>5. CASE Gains(s)[j] # 0
    BY <2>4, <2>5, ChangesType
  <2>6. CASE Losses(s)[j] # 0
    BY <2>4, <2>6, ChangesType
  <2> QED BY <2>3, <2>5, <2>6
<1> DEFINE g == gain.num
           l == loss.num
<1>4. /\ g = 0 => RsiOf(loss, gain).num = 100 /\ RsiOf(loss, gain).den = 1
      /\ g # 0 => RsiOf(loss, gain).num = 100 * l /\ RsiOf(loss, gain).den = l + g
      /\ l = 0 => RsiOf(gain, loss).num = 100 /\ RsiOf(gain, loss).den = 1
      /\ l # 0 => RsiOf(gain, loss).num = 100 * g /\ RsiOf(gain, loss).den = g + l
  BY DEF RsiOf
<1>5. g \in Nat /\ l \in Nat /\ (g # 0 \/ l # 0)
  BY <1>1, <1>3
<1> HIDE DEF gain, loss
<1> HIDE DEF g, l
<1>6. CASE g = 0
  BY <1>1, <1>2, <1>4, <1>5, <1>6
<1>7. CASE l = 0
  BY <1>1, <1>2, <1>4, <1>5, <1>7
<1>8. CASE g # 0 /\ l # 0
  <2>1. (100 * g) * (l + g) + (100 * l) * (g + l) = 100 * (g + l) * (l + g)
    BY <1>5
  <2> QED BY <1>1, <1>2, <1>4, <1>8, <2>1
<1> QED BY <1>6, <1>7, <1>8

-----------------------------------------------------------------------------
(* atr. *)

LEMMA TrueRangesType ==
  ASSUME NEW candles, Len(candles) \in Nat,
         \A i \in 1..Len(candles) :
           candles[i].high \in Int /\ candles[i].low \in Int /\ candles[i].close \in Int
  PROVE  Len(TrueRanges(candles)) = Len(candles) /\ Numbers(TrueRanges(candles), 2, Len(candles))
<1>1. PICK n \in Nat : n = Len(candles)
  OBVIOUS
<1>2. Len(TrueRanges(candles)) = n
  BY <1>1 DEF TrueRanges
<1>3. ASSUME NEW i \in 2..n PROVE TrueRanges(candles)[i] \in Int
  <2>1. i \in 1..n /\ i - 1 \in 1..n
    OBVIOUS
  <2>2. /\ candles[i].high \in Int /\ candles[i].low \in Int
        /\ candles[i - 1].close \in Int
    BY <1>1, <2>1
  <2>3. TrueRanges(candles)[i] = TrueRange(candles, i)
    BY <1>1, <2>1 DEF TrueRanges
  <2> QED BY <2>2, <2>3 DEF TrueRange, Larger, Distance
<1> QED BY <1>1, <1>2, <1>3 DEF Numbers

=============================================================================
