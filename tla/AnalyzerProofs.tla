--------------------------- MODULE AnalyzerProofs ---------------------------
(***************************************************************************)
(* Lemmas about what the analyzer is built from: the stable sort, the      *)
(* order of a BTreeMap, sums, percentiles and the rows of the rankings.    *)
(* A sort is a permutation because a strict order of finitely many places  *)
(* gives each its rank (RanksBelow, Arranged); the recursion of a sum is   *)
(* unfolded by least numbers (AllNumbers).                                 *)
(***************************************************************************)
EXTENDS Analyzer, FiniteSetTheorems, SequenceTheorems, TLAPS

(* A strict total order, as a set of pairs, and what is below an element.  *)
StrictOrder(R, S) ==
  /\ \A x \in S : <<x, x>> \notin R
  /\ \A x, y, z \in S : <<x, y>> \in R /\ <<y, z>> \in R => <<x, z>> \in R
  /\ \A x, y \in S : x # y => <<x, y>> \in R \/ <<y, x>> \in R
Below(R, S, x) == {y \in S : <<y, x>> \in R}

(* The numbers of elements below are the numbers from 0, each once.        *)
LEMMA RanksBelow ==
  ASSUME NEW S, IsFiniteSet(S), NEW R, StrictOrder(R, S)
  PROVE  /\ Cardinality(S) \in Nat
         /\ \A x \in S : Cardinality(Below(R, S, x)) \in 0..(Cardinality(S) - 1)
         /\ \A x, y \in S : <<x, y>> \in R => Cardinality(Below(R, S, x)) < Cardinality(Below(R, S, y))
         /\ \A k \in 0..(Cardinality(S) - 1) : \E x \in S : Cardinality(Below(R, S, x)) = k
<1> DEFINE C == Cardinality(S)
           rank(x) == Cardinality(Below(R, S, x))
<1>1. C \in Nat
  BY FS_CardinalityType
<1>2. ASSUME NEW x \in S PROVE IsFiniteSet(Below(R, S, x)) /\ rank(x) \in 0..(C - 1)
  <2>1. Below(R, S, x) \in SUBSET S /\ x \in S /\ x \notin Below(R, S, x)
    BY DEF Below, StrictOrder
  <2>2. IsFiniteSet(Below(R, S, x)) /\ rank(x) <= C /\ (C = rank(x) => S = Below(R, S, x))
    BY <2>1, FS_Subset
  <2>3. rank(x) \in Nat
    BY <2>2, FS_CardinalityType
  <2> HIDE DEF rank, C
  <2>4. rank(x) # C
    BY <2>1, <2>2
  <2> QED BY <1>1, <2>2, <2>3, <2>4
<1>3. ASSUME NEW x \in S, NEW y \in S, <<x, y>> \in R PROVE rank(x) < rank(y)
  <2>1. Below(R, S, x) \in SUBSET Below(R, S, y) /\ x \in Below(R, S, y) /\ x \notin Below(R, S, x)
    BY <1>3 DEF Below, StrictOrder
  <2>2. rank(x) <= rank(y) /\ (rank(y) = rank(x) => Below(R, S, y) = Below(R, S, x))
    BY <1>2, <2>1, FS_Subset
  <2>3. rank(x) \in Nat /\ rank(y) \in Nat
    BY <1>1, <1>2
  <2> HIDE DEF rank
  <2> QED BY <2>1, <2>2, <2>3
<1> DEFINE f == [x \in S |-> rank(x)]
<1>4. f \in Injection(S, 0..(C - 1))
  <2>1. f \in [S -> 0..(C - 1)]
    BY <1>2
  <2>2. ASSUME NEW x \in S, NEW y \in S, f[x] = f[y] PROVE x = y
    <3>1. rank(x) = rank(y) /\ rank(x) \in Nat
      BY <1>1, <1>2, <2>2
    <3>2. <<x, y>> \notin R /\ <<y, x>> \notin R
      <4> HIDE DEF rank
      <4> QED BY <1>3, <3>1
    <3> QED BY <3>2 DEF StrictOrder
  <2> HIDE DEF f
  <2> QED BY <2>1, <2>2 DEF Injection, IsInjective
<1>5. IsFiniteSet(0..(C - 1)) /\ Cardinality(0..(C - 1)) = C
  BY <1>1, FS_Interval
<1>6. f \in Surjection(S, 0..(C - 1))
  <2> HIDE DEF f, C
  <2>1. Cardinality(S) = Cardinality(0..(C - 1))
    BY <1>5 DEF C
  <2> QED BY <1>4, <1>5, <2>1, FS_Injection
<1>7. ASSUME NEW k \in 0..(C - 1) PROVE \E x \in S : rank(x) = k
  <2>1. \E x \in S : f[x] = k
    BY <1>6, <1>7 DEF Surjection
  <2> QED BY <2>1
<1> QED BY <1>1, <1>2, <1>3, <1>7

(* The numbers up to n, each once and in the order R.                      *)
Arranges(p, R, n) ==
  /\ p \in [1..n -> 1..n]
  /\ \A j, k \in 1..n : j < k => <<p[j], p[k]>> \in R
  /\ \A i \in 1..n : \E k \in 1..n : p[k] = i
  /\ \A j, k \in 1..n : p[j] = p[k] => j = k
Place(R, n, i) == 1 + Cardinality(Below(R, 1..n, i))

(* Place is a place, follows the order R, and misses none.                 *)
LEMMA PlacesFound ==
  ASSUME NEW n \in Nat, NEW R, StrictOrder(R, 1..n)
  PROVE  /\ \A i \in 1..n : Place(R, n, i) \in 1..n
         /\ \A i, j \in 1..n : <<i, j>> \in R => Place(R, n, i) < Place(R, n, j)
         /\ \A k \in 1..n : \E i \in 1..n : Place(R, n, i) = k
<1> DEFINE rank(i) == Cardinality(Below(R, 1..n, i))
<1>0. IsFiniteSet(1..n) /\ Cardinality(1..n) = n
  BY FS_Interval
<1>1. /\ \A i \in 1..n : rank(i) \in 0..(n - 1)
      /\ \A i, j \in 1..n : <<i, j>> \in R => rank(i) < rank(j)
      /\ \A k \in 0..(n - 1) : \E i \in 1..n : rank(i) = k
  <2> HIDE DEF rank
  <2>1. StrictOrder(R, 1..n)
    OBVIOUS
  <2>2. /\ \A i \in 1..n : Cardinality(Below(R, 1..n, i)) \in 0..(Cardinality(1..n) - 1)
        /\ \A i, j \in 1..n : <<i, j>> \in R
             => Cardinality(Below(R, 1..n, i)) < Cardinality(Below(R, 1..n, j))
        /\ \A k \in 0..(Cardinality(1..n) - 1) : \E i \in 1..n : Cardinality(Below(R, 1..n, i)) = k
    BY <1>0, <2>1, RanksBelow
  <2> QED BY <1>0, <2>2 DEF rank
<1>2. \A i \in 1..n : Place(R, n, i) = 1 + rank(i)
  BY DEF Place
<1> HIDE DEF rank
<1>3. ASSUME NEW k \in 1..n PROVE \E i \in 1..n : Place(R, n, i) = k
  <2>1. k - 1 \in 0..(n - 1)
    OBVIOUS
  <2>2. PICK i \in 1..n : rank(i) = k - 1
    BY <1>1, <2>1
  <2> QED BY <1>2, <2>2
<1>4. ASSUME NEW i \in 1..n PROVE Place(R, n, i) \in 1..n
  <2>1. rank(i) \in 0..(n - 1)
    BY <1>1
  <2> QED BY <1>2, <2>1
<1>5. ASSUME NEW i \in 1..n, NEW j \in 1..n, <<i, j>> \in R PROVE Place(R, n, i) < Place(R, n, j)
  <2>1. rank(i) \in 0..(n - 1) /\ rank(j) \in 0..(n - 1) /\ rank(i) < rank(j)
    BY <1>1, <1>5
  <2>2. Place(R, n, i) = 1 + rank(i) /\ Place(R, n, j) = 1 + rank(j)
    BY <1>2
  <2> QED BY <2>1, <2>2
<1> QED BY <1>3, <1>4, <1>5

(* What has at each place the number whose place it is, arranges them.     *)
LEMMA Arranged ==
  ASSUME NEW n \in Nat, NEW R, StrictOrder(R, 1..n), NEW p \in [1..n -> 1..n],
         \A k \in 1..n : Place(R, n, p[k]) = k
  PROVE  Arranges(p, R, n)
<1>1. /\ \A i \in 1..n : Place(R, n, i) \in 1..n
      /\ \A i, j \in 1..n : <<i, j>> \in R => Place(R, n, i) < Place(R, n, j)
  BY PlacesFound
<1>2. \A i, j \in 1..n : i # j => <<i, j>> \in R \/ <<j, i>> \in R
  BY DEF StrictOrder
<1>3. ASSUME NEW i \in 1..n, NEW j \in 1..n, Place(R, n, i) = Place(R, n, j) PROVE i = j
  <2>1. Place(R, n, i) \in 1..n /\ Place(R, n, j) \in 1..n
    BY <1>1
  <2>2. ~(Place(R, n, i) < Place(R, n, j)) /\ ~(Place(R, n, j) < Place(R, n, i))
    BY <1>3, <2>1
  <2> QED BY <1>1, <1>2, <2>2
<1>4. ASSUME NEW j \in 1..n, NEW k \in 1..n, j < k PROVE <<p[j], p[k]>> \in R
  <2>1. p[j] \in 1..n /\ p[k] \in 1..n /\ Place(R, n, p[j]) = j /\ Place(R, n, p[k]) = k
    OBVIOUS
  <2>2. Place(R, n, p[j]) # Place(R, n, p[k]) /\ ~(Place(R, n, p[k]) < Place(R, n, p[j]))
    BY <1>4, <2>1
  <2>3. p[j] # p[k] /\ <<p[k], p[j]>> \notin R
    BY <1>1, <2>1, <2>2
  <2> QED BY <1>2, <2>1, <2>3
<1>5. ASSUME NEW i \in 1..n PROVE \E k \in 1..n : p[k] = i
  <2>1. PICK k \in 1..n : k = Place(R, n, i)
    BY <1>1
  <2>2. p[k] \in 1..n /\ Place(R, n, p[k]) = k
    OBVIOUS
  <2> QED BY <1>3, <2>1, <2>2
<1>6. ASSUME NEW j \in 1..n, NEW k \in 1..n, p[j] = p[k] PROVE j = k
  <2>1. Place(R, n, p[j]) = j /\ Place(R, n, p[k]) = k
    OBVIOUS
  <2> QED BY <1>6, <2>1
<1> QED BY <1>4, <1>5, <1>6 DEF Arranges

(* A set of numbers that has 0 and with each number the next has them all. *)
LEMMA AllNumbers ==
  ASSUME NEW S, 0 \in S, \A n \in Nat : n \in S => n + 1 \in S
  PROVE  \A n \in Nat : n \in S
<1> DEFINE R == {ss \in Nat \X Nat : ss[1] < ss[2]}
           T == Nat \ S
<1> SUFFICES ASSUME T # {} PROVE FALSE
  OBVIOUS
<1>1. IsWellFoundedOn(R, Nat)
  BY NatLessThanWellFounded DEF OpToRel
<1>2. IsWellFoundedOn(R, T)
  BY <1>1, IsWellFoundedOnSubset
<1>3. PICK m \in T : \A y \in T : ~(<<y, m>> \in R)
  BY <1>2, WFMin
<1>4. m \in Nat /\ m # 0
  OBVIOUS
<1>5. m - 1 \in Nat /\ (m - 1) + 1 = m /\ <<m - 1, m>> \in R
  <2>1. m - 1 \in Nat /\ (m - 1) + 1 = m /\ m - 1 < m
    BY <1>4
  <2> QED BY <1>4, <2>1
<1>6. m - 1 \notin T
  BY <1>3, <1>5
<1> QED BY <1>5, <1>6

-----------------------------------------------------------------------------
(* Total obeys the equations that define it.                               *)
SumsUpTo(s, n, f) == f = [k \in 0..n |-> IF k = 0 THEN 0 ELSE f[k - 1] + s[k]]
LEMMA SumsExist ==
  ASSUME NEW s, NEW n \in Nat PROVE \E f : SumsUpTo(s, n, f)
<1> DEFINE S == {k \in Nat : \E f : SumsUpTo(s, k, f)}
<1>1. 0 \in S
  <2> DEFINE f == [k \in 0..0 |-> 0]
  <2>1. SumsUpTo(s, 0, f)
    BY DEF SumsUpTo
  <2> QED BY <2>1
<1>2. ASSUME NEW k \in Nat, k \in S PROVE k + 1 \in S
  <2>1. PICK f : SumsUpTo(s, k, f)
    BY <1>2
  <2> DEFINE g == [j \in 0..(k + 1) |-> IF j = k + 1 THEN f[k] + s[k + 1] ELSE f[j]]
  <2>2. \A j \in 0..k : g[j] = f[j]
    OBVIOUS
  <2>3. ASSUME NEW j \in 0..(k + 1)
        PROVE  g[j] = IF j = 0 THEN 0 ELSE g[j - 1] + s[j]
    <3>1. CASE j = 0
      <4>1. f[0] = 0
        BY <2>1 DEF SumsUpTo
      <4>2. g[0] = f[0]
        BY <2>2
      <4> HIDE DEF g
      <4> QED BY <3>1, <4>1, <4>2
    <3>2. CASE j = k + 1
      <4>1. g[k + 1] = f[k] + s[k + 1] /\ g[k] = f[k] /\ j - 1 = k /\ j # 0
        BY <2>2, <3>2
      <4> HIDE DEF g
      <4> QED BY <3>2, <4>1
    <3>3. CASE j \in 1..k
      <4>1. g[j] = f[j] /\ g[j - 1] = f[j - 1]
        BY <2>2, <3>3
      <4>2. f[j] = f[j - 1] + s[j]
        BY <2>1, <3>3 DEF SumsUpTo
      <4> HIDE DEF g
      <4> QED BY <3>3, <4>1, <4>2
    <3> QED BY <3>1, <3>2, <3>3
  <2>4. SumsUpTo(s, k + 1, g)
    <3> DEFINE h == [j \in 0..(k + 1) |-> IF j = 0 THEN 0 ELSE g[j - 1] + s[j]]
    <3>1. \A j \in 0..(k + 1) : g[j] = h[j]
      BY <2>3
    <3>2. g = h
      <4>1. DOMAIN g = 0..(k + 1) /\ DOMAIN h = 0..(k + 1)
        OBVIOUS
      <4>2. g = [j \in 0..(k + 1) |-> g[j]] /\ h = [j \in 0..(k + 1) |-> h[j]]
        OBVIOUS
      <4> HIDE DEF g, h
      <4> QED BY <3>1, <4>2
    <3> HIDE DEF g
    <3> QED BY <3>2 DEF SumsUpTo
  <2> HIDE DEF g
  <2> QED BY <2>4
<1> HIDE DEF S
<1>3. n \in S
  BY <1>1, <1>2, AllNumbers
<1> QED BY <1>3 DEF S

(* Total(s) is what the equations say.                                     *)
LEMMA TotalIs ==
  ASSUME NEW s, Len(s) \in Nat
  PROVE  \E f : /\ Total(s) = f[Len(s)] /\ f[0] = 0
                /\ \A k \in 1..Len(s) : f[k] = f[k - 1] + s[k]
<1> DEFINE f == CHOOSE g : SumsUpTo(s, Len(s), g)
<1>1. SumsUpTo(s, Len(s), f)
  BY SumsExist
<1>2. Total(s) = f[Len(s)]
  BY DEF Total, SumsUpTo
<1> HIDE DEF f
<1>3. f[0] = 0 /\ \A k \in 1..Len(s) : f[k] = f[k - 1] + s[k]
  BY <1>1 DEF SumsUpTo
<1> QED BY <1>2, <1>3

(* The cardinalities of sets that have nothing in common add up.           *)
AllOf(F, n) == UNION {F[k] : k \in 1..n}
LEMMA TotalOfSizes ==
  ASSUME NEW s, Len(s) \in Nat, NEW F,
         \A k \in 1..Len(s) : IsFiniteSet(F[k]) /\ s[k] = Cardinality(F[k]),
         \A j, k \in 1..Len(s) : j # k => F[j] \cap F[k] = {}
  PROVE  IsFiniteSet(AllOf(F, Len(s))) /\ Total(s) = Cardinality(AllOf(F, Len(s)))
<1>1. PICK f : /\ Total(s) = f[Len(s)] /\ f[0] = 0
               /\ \A k \in 1..Len(s) : f[k] = f[k - 1] + s[k]
  BY TotalIs
<1> DEFINE S == {n \in Nat : n <= Len(s) => IsFiniteSet(AllOf(F, n)) /\ f[n] = Cardinality(AllOf(F, n))}
<1>2. 0 \in S
  <2>1. AllOf(F, 0) = {}
    BY DEF AllOf
  <2>2. IsFiniteSet(AllOf(F, 0)) /\ Cardinality(AllOf(F, 0)) = 0
    BY <2>1, FS_EmptySet
  <2> QED BY <1>1, <2>2
<1>3. ASSUME NEW n \in Nat, n \in S PROVE n + 1 \in S
  <2> SUFFICES ASSUME n + 1 <= Len(s)
               PROVE  IsFiniteSet(AllOf(F, n + 1)) /\ f[n + 1] = Cardinality(AllOf(F, n + 1))
    OBVIOUS
  <2>1. AllOf(F, n + 1) = AllOf(F, n) \cup F[n + 1]
    <3>1. 1..(n + 1) = 1..n \cup {n + 1}
      OBVIOUS
    <3> QED BY <3>1 DEF AllOf
  <2>2. AllOf(F, n) \cap F[n + 1] = {}
    BY DEF AllOf
  <2>3. IsFiniteSet(AllOf(F, n)) /\ f[n] = Cardinality(AllOf(F, n))
    BY <1>3
  <2>4. n + 1 \in 1..Len(s) /\ (n + 1) - 1 = n
    OBVIOUS
  <2>5. f[n + 1] = f[n] + s[n + 1]
    BY <1>1, <2>4
  <2>6. IsFiniteSet(F[n + 1]) /\ s[n + 1] = Cardinality(F[n + 1])
    BY <2>4
  <2>7. IsFiniteSet(AllOf(F, n) \cup F[n + 1])
        /\ Cardinality(AllOf(F, n) \cup F[n + 1])
             = Cardinality(AllOf(F, n)) + Cardinality(F[n + 1]) - Cardinality(AllOf(F, n) \cap F[n + 1])
    BY <2>3, <2>6, FS_Union
  <2>8. Cardinality(AllOf(F, n) \cap F[n + 1]) = 0
    BY <2>2, FS_EmptySet
  <2>9. Cardinality(AllOf(F, n)) \in Nat /\ Cardinality(F[n + 1]) \in Nat
    BY <2>3, <2>6, FS_CardinalityType
  <2>10. Cardinality(AllOf(F, n) \cup F[n + 1]) = Cardinality(AllOf(F, n)) + Cardinality(F[n + 1])
    BY <2>7, <2>8, <2>9
  <2>11. f[n + 1] = Cardinality(AllOf(F, n)) + Cardinality(F[n + 1])
    BY <2>3, <2>5, <2>6
  <2>12. IsFiniteSet(AllOf(F, n + 1))
    BY <2>1, <2>7
  <2> QED BY <2>1, <2>10, <2>11, <2>12
<1> HIDE DEF S
<1>4. Len(s) \in S
  BY <1>2, <1>3, AllNumbers
<1> QED BY <1>1, <1>4 DEF S

(* Nothing in a sequence is more than all of it.                           *)
LEMMA TotalBounds ==
  ASSUME NEW s \in Seq(Nat)
  PROVE  Total(s) \in Nat /\ \A k \in DOMAIN s : s[k] <= Total(s)
<1>0. Len(s) \in Nat /\ DOMAIN s = 1..Len(s) /\ \A k \in 1..Len(s) : s[k] \in Nat
  OBVIOUS
<1>1. PICK f : /\ Total(s) = f[Len(s)] /\ f[0] = 0
               /\ \A k \in 1..Len(s) : f[k] = f[k - 1] + s[k]
  BY <1>0, TotalIs
<1> DEFINE S == {n \in Nat : n <= Len(s) => f[n] \in Nat /\ \A k \in 1..n : s[k] <= f[n]}
<1>2. 0 \in S
  BY <1>1
<1>3. ASSUME NEW n \in Nat, n \in S PROVE n + 1 \in S
  <2> SUFFICES ASSUME n + 1 <= Len(s)
               PROVE  f[n + 1] \in Nat /\ \A k \in 1..(n + 1) : s[k] <= f[n + 1]
    OBVIOUS
  <2>1. f[n] \in Nat /\ \A k \in 1..n : s[k] <= f[n]
    BY <1>0, <1>3
  <2>2. n + 1 \in 1..Len(s) /\ (n + 1) - 1 = n
    BY <1>0
  <2>3. f[n + 1] = f[n] + s[n + 1] /\ s[n + 1] \in Nat
    BY <1>0, <1>1, <2>2
  <2>4. ASSUME NEW k \in 1..(n + 1) PROVE s[k] <= f[n + 1]
    <3>1. CASE k = n + 1
      BY <2>1, <2>3, <3>1
    <3>2. CASE k \in 1..n
      <4>1. s[k] <= f[n] /\ s[k] \in Nat
        BY <1>0, <2>1, <2>2, <3>2
      <4> QED BY <2>1, <2>3, <4>1
    <3> QED BY <3>1, <3>2
  <2> QED BY <2>1, <2>3, <2>4
<1> HIDE DEF S
<1>4. Len(s) \in S
  BY <1>0, <1>2, <1>3, AllNumbers
<1> QED BY <1>0, <1>1, <1>4 DEF S

(* The three orders that are sorted by: durations, the totals of rows, and *)
(* what is pending.                                                        *)
Sorted(t, c, n) == /\ t \in [1..n -> Nat]
                   /\ \A k \in 1..n : \E i \in 1..n : t[k] = Duration(c[i])
                   /\ \A j, k \in 1..n : j <= k => t[j] <= t[k]
LEMMA DurationsSorted ==
  ASSUME NEW n \in Nat, NEW c, DOMAIN c = 1..n, \A i \in 1..n : Duration(c[i]) \in Nat
  PROVE  Sorted(SortedDurations(c), c, n)
<1> DEFINE t == SortedDurations(c)
           d == [i \in 1..n |-> Duration(c[i])]
           less(j, i) == d[j] < d[i] \/ (~(d[i] < d[j]) /\ j < i)
           R == {q \in (1..n) \X (1..n) : less(q[1], q[2])}
           place(i) == 1 + Cardinality({j \in 1..n : less(j, i)})
           p == [k \in 1..n |-> CHOOSE i \in 1..n : place(i) = k]
<1>0. DOMAIN d = 1..n /\ d \in [1..n -> Nat] /\ \A i \in 1..n : d[i] = Duration(c[i])
  OBVIOUS
<1>1. t = [k \in 1..n |-> d[p[k]]]
  <2>1. t = [k \in 1..n |-> d[CHOOSE i \in 1..n : place(i) = k]]
    BY DEF SortedDurations, StablySorted
  <2> HIDE DEF d, place
  <2> QED BY <2>1
<1> HIDE DEF d, t
<1>2. \A i, j \in 1..n : <<j, i>> \in R <=> less(j, i)
  OBVIOUS
<1> HIDE DEF R
<1>3. StrictOrder(R, 1..n)
  <2>1. ASSUME NEW x \in 1..n, NEW y \in 1..n, NEW z \in 1..n, <<x, y>> \in R, <<y, z>> \in R
        PROVE  <<x, z>> \in R
    <3>1. less(x, y) /\ less(y, z)
      BY <1>2, <2>1
    <3>2. d[x] \in Nat /\ d[y] \in Nat /\ d[z] \in Nat
      BY <1>0
    <3>3. less(x, z)
      BY <3>1, <3>2
    <3> QED BY <1>2, <3>3
  <2>2. \A x \in 1..n : <<x, x>> \notin R
    BY <1>0, <1>2
  <2>3. \A x, y \in 1..n : x # y => <<x, y>> \in R \/ <<y, x>> \in R
    BY <1>0, <1>2
  <2> QED BY <2>1, <2>2, <2>3 DEF StrictOrder
<1> HIDE DEF less
<1>4. \A i \in 1..n : place(i) = Place(R, n, i)
  BY <1>2 DEF Below, Place
<1> HIDE DEF place
<1>5. ASSUME NEW k \in 1..n PROVE p[k] \in 1..n /\ Place(R, n, p[k]) = k
  <2>1. \E i \in 1..n : place(i) = k
    BY <1>3, <1>4, PlacesFound
  <2>2. p[k] \in 1..n /\ place(p[k]) = k
    BY <2>1
  <2> QED BY <1>4, <2>2
<1>6. p \in [1..n -> 1..n]
  <2> DEFINE q == [k \in 1..n |-> p[k]]
  <2>1. p = q
    OBVIOUS
  <2> HIDE DEF p
  <2> QED BY <1>5, <2>1
<1> HIDE DEF p
<1>7. Arranges(p, R, n)
  BY <1>3, <1>5, <1>6, Arranged
<1>8. ASSUME NEW k \in 1..n PROVE p[k] \in 1..n /\ t[k] = d[p[k]] /\ t[k] \in Nat /\ d[p[k]] \in Nat
  BY <1>0, <1>1, <1>6
<1>9. t \in [1..n -> Nat]
  BY <1>1, <1>8
<1>10. ASSUME NEW j \in 1..n, NEW k \in 1..n, j <= k PROVE t[j] <= t[k]
  <2>1. CASE j = k
    BY <1>9, <2>1
  <2>2. CASE j < k
    <3>1. <<p[j], p[k]>> \in R
      BY <1>7, <2>2 DEF Arranges
    <3>2. less(p[j], p[k])
      BY <1>2, <1>8, <3>1
    <3>3. d[p[j]] \in Nat /\ d[p[k]] \in Nat /\ t[j] = d[p[j]] /\ t[k] = d[p[k]]
      BY <1>8
    <3> QED BY <3>2, <3>3 DEF less
  <2> QED BY <1>10, <2>1, <2>2
<1>11. ASSUME NEW k \in 1..n PROVE \E i \in 1..n : t[k] = Duration(c[i])
  BY <1>0, <1>8
<1>12. Sorted(t, c, n)
  BY <1>9, <1>10, <1>11 DEF Sorted
<1> QED BY <1>12 DEF t

(* LargestFirst rearranges its rows, the largest number first.             *)
Rearranges(t, rows, n, field) ==
  \E p \in [1..n -> 1..n] :
    /\ t = [k \in 1..n |-> rows[p[k]]]
    /\ \A j, k \in 1..n : p[j] = p[k] => j = k
    /\ \A i \in 1..n : \E k \in 1..n : p[k] = i
    /\ \A j, k \in 1..n : j < k => t[j][field] >= t[k][field]
LEMMA RowsSorted ==
  ASSUME NEW n \in Nat, NEW rows, DOMAIN rows = 1..n, NEW field,
         \A i \in 1..n : rows[i][field] \in Nat,
         NEW t, t = LargestFirst(rows, field)
  PROVE  Rearranges(t, rows, n, field)
<1> DEFINE d(i) == rows[i][field]
           less(j, i) == d(j) > d(i) \/ (~(d(i) > d(j)) /\ j < i)
           R == {q \in (1..n) \X (1..n) : less(q[1], q[2])}
           place(i) == 1 + Cardinality({j \in 1..n : less(j, i)})
           p == [k \in 1..n |-> CHOOSE i \in 1..n : place(i) = k]
<1>0. \A i \in 1..n : d(i) \in Nat
  OBVIOUS
<1>1. t = [k \in 1..n |-> rows[p[k]]]
  <2>1. t = [k \in 1..n |-> rows[CHOOSE i \in 1..n : place(i) = k]]
    BY DEF LargestFirst, StablySorted
  <2> HIDE DEF place
  <2> QED BY <2>1
<1>2. \A i, j \in 1..n : <<j, i>> \in R <=> less(j, i)
  OBVIOUS
<1> HIDE DEF R, d
<1>3. StrictOrder(R, 1..n)
  <2>1. ASSUME NEW x \in 1..n, NEW y \in 1..n, NEW z \in 1..n, <<x, y>> \in R, <<y, z>> \in R
        PROVE  <<x, z>> \in R
    <3>1. less(x, y) /\ less(y, z)
      BY <1>2, <2>1
    <3>2. d(x) \in Nat /\ d(y) \in Nat /\ d(z) \in Nat
      BY <1>0
    <3>3. less(x, z)
      BY <3>1, <3>2
    <3> QED BY <1>2, <3>3
  <2>2. \A x \in 1..n : <<x, x>> \notin R
    BY <1>0, <1>2
  <2>3. \A x, y \in 1..n : x # y => <<x, y>> \in R \/ <<y, x>> \in R
    BY <1>0, <1>2
  <2> QED BY <2>1, <2>2, <2>3 DEF StrictOrder
<1> HIDE DEF less
<1>4. \A i \in 1..n : place(i) = Place(R, n, i)
  BY <1>2 DEF Below, Place
<1> HIDE DEF place
<1>5. ASSUME NEW k \in 1..n PROVE p[k] \in 1..n /\ Place(R, n, p[k]) = k
  <2>1. \E i \in 1..n : place(i) = k
    BY <1>3, <1>4, PlacesFound
  <2>2. p[k] \in 1..n /\ place(p[k]) = k
    BY <2>1
  <2> QED BY <1>4, <2>2
<1>6. p \in [1..n -> 1..n]
  <2> DEFINE q == [k \in 1..n |-> p[k]]
  <2>1. p = q
    OBVIOUS
  <2> HIDE DEF p
  <2> QED BY <1>5, <2>1
<1> HIDE DEF p
<1>7. Arranges(p, R, n)
  BY <1>3, <1>5, <1>6, Arranged
<1>8. ASSUME NEW j \in 1..n, NEW k \in 1..n, j < k
      PROVE  t[j][field] >= t[k][field]
  <2>1. <<p[j], p[k]>> \in R /\ p[j] \in 1..n /\ p[k] \in 1..n
    BY <1>6, <1>7, <1>8 DEF Arranges
  <2>2. less(p[j], p[k])
    BY <1>2, <2>1
  <2>3. d(p[j]) \in Nat /\ d(p[k]) \in Nat
    BY <1>0, <2>1
  <2>4. d(p[j]) >= d(p[k])
    BY <2>2, <2>3 DEF less
  <2>5. t[j][field] = d(p[j]) /\ t[k][field] = d(p[k])
    BY <1>1 DEF d
  <2> QED BY <2>4, <2>5
<1> QED BY <1>1, <1>6, <1>7, <1>8 DEF Arranges, Rearranges

(* Every member of a finite set of names is in ByName, at one place.       *)
LEMMA ByNameIs ==
  ASSUME NEW S, IsFiniteSet(S), NamesOrdered(S), NEW names, names = ByName(S)
  PROVE  /\ Cardinality(S) \in Nat
         /\ names \in [1..Cardinality(S) -> S]
         /\ \A j, k \in 1..Cardinality(S) : names[j] = names[k] => j = k
         /\ \A n \in S : \E k \in 1..Cardinality(S) : names[k] = n
<1> DEFINE C == Cardinality(S)
           R == {q \in S \X S : Before(q[1], q[2])}
           below(n) == Cardinality({m \in S : Before(m, n)})
<1>1. names = [k \in 1..C |-> CHOOSE n \in S : below(n) = k - 1]
  BY DEF ByName
<1>2. \A x, y \in S : <<x, y>> \in R <=> Before(x, y)
  OBVIOUS
<1> HIDE DEF R
<1>3. StrictOrder(R, S)
  BY <1>2 DEF StrictOrder, NamesOrdered
<1>4. \A n \in S : below(n) = Cardinality(Below(R, S, n))
  <2> SUFFICES ASSUME NEW n \in S PROVE {m \in S : Before(m, n)} = Below(R, S, n)
    OBVIOUS
  <2> QED BY <1>2 DEF Below
<1> HIDE DEF below
<1>5. /\ C \in Nat
      /\ \A x \in S : below(x) \in 0..(C - 1)
      /\ \A x, y \in S : Before(x, y) => below(x) < below(y)
      /\ \A k \in 0..(C - 1) : \E x \in S : below(x) = k
  <2>1. /\ Cardinality(S) \in Nat
        /\ \A x \in S : Cardinality(Below(R, S, x)) \in 0..(Cardinality(S) - 1)
        /\ \A x, y \in S : <<x, y>> \in R => Cardinality(Below(R, S, x)) < Cardinality(Below(R, S, y))
        /\ \A k \in 0..(Cardinality(S) - 1) : \E x \in S : Cardinality(Below(R, S, x)) = k
    <3> HIDE DEF C
    <3> QED BY <1>3, RanksBelow
  <2> QED BY <1>2, <1>4, <2>1
<1> HIDE DEF C
<1>6. ASSUME NEW k \in 1..C PROVE names[k] \in S /\ below(names[k]) = k - 1
  <2>1. k - 1 \in 0..(C - 1)
    BY <1>5
  <2>2. \E n \in S : below(n) = k - 1
    BY <1>5, <2>1
  <2>3. names[k] = CHOOSE n \in S : below(n) = k - 1
    BY <1>1
  <2> QED BY <2>2, <2>3
<1>7. names \in [1..C -> S]
  BY <1>1, <1>6
<1>8. ASSUME NEW j \in 1..C, NEW k \in 1..C, names[j] = names[k] PROVE j = k
  <2>1. j - 1 = k - 1
    BY <1>6, <1>8
  <2> QED BY <1>5, <2>1
<1>9. ASSUME NEW n \in S PROVE \E k \in 1..C : names[k] = n
  <2>1. PICK k \in 1..C : k - 1 = below(n)
    <3>1. below(n) + 1 \in 1..C /\ (below(n) + 1) - 1 = below(n)
      BY <1>5
    <3> QED BY <3>1
  <2>2. names[k] \in S /\ below(names[k]) = below(n) /\ below(n) \in Nat
    BY <1>5, <1>6, <2>1
  <2>3. ~(below(names[k]) < below(n)) /\ ~(below(n) < below(names[k]))
    BY <2>2
  <2>4. ~Before(names[k], n) /\ ~Before(n, names[k])
    BY <1>5, <2>2, <2>3
  <2> QED BY <2>2, <2>4 DEF NamesOrdered
<1> QED BY <1>5, <1>7, <1>8, <1>9 DEF C

(* Ascending lists the members of a finite set of numbers, one of which is *)
(* the least.                                                              *)
LEMMA AscendingIs ==
  ASSUME NEW S, S \subseteq Nat, IsFiniteSet(S)
  PROVE  /\ Cardinality(S) \in Nat /\ DOMAIN Ascending(S) = 1..Cardinality(S)
         /\ \A k \in 1..Cardinality(S) : Ascending(S)[k] \in S
         /\ \A n \in S : \E k \in 1..Cardinality(S) : Ascending(S)[k] = n
         /\ S # {} => \E n \in S : \A m \in S : n <= m
<1> DEFINE C == Cardinality(S)
           R == {q \in S \X S : q[1] < q[2]}
           below(n) == Cardinality({m \in S : m < n})
<1>1. /\ DOMAIN Ascending(S) = 1..C
      /\ \A k \in 1..C : Ascending(S)[k] = CHOOSE n \in S : below(n) = k - 1
  BY DEF Ascending
<1>2. \A x, y \in S : <<x, y>> \in R <=> x < y
  OBVIOUS
<1> HIDE DEF R
<1>3. StrictOrder(R, S)
  <2>1. \A x, y, z \in S : x < y /\ y < z => x < z
    OBVIOUS
  <2>2. \A x, y \in S : x # y => x < y \/ y < x
    OBVIOUS
  <2>3. \A x \in S : ~(x < x)
    OBVIOUS
  <2> QED BY <1>2, <2>1, <2>2, <2>3 DEF StrictOrder
<1>4. \A n \in S : below(n) = Cardinality(Below(R, S, n))
  <2> SUFFICES ASSUME NEW n \in S PROVE {m \in S : m < n} = Below(R, S, n)
    OBVIOUS
  <2> QED BY <1>2 DEF Below
<1> HIDE DEF below
<1>5. /\ C \in Nat
      /\ \A x \in S : below(x) \in 0..(C - 1)
      /\ \A x, y \in S : x < y => below(x) < below(y)
      /\ \A j \in 0..(C - 1) : \E x \in S : below(x) = j
  <2>1. /\ Cardinality(S) \in Nat
        /\ \A x \in S : Cardinality(Below(R, S, x)) \in 0..(Cardinality(S) - 1)
        /\ \A x, y \in S : <<x, y>> \in R => Cardinality(Below(R, S, x)) < Cardinality(Below(R, S, y))
        /\ \A j \in 0..(Cardinality(S) - 1) : \E x \in S : Cardinality(Below(R, S, x)) = j
    <3> HIDE DEF C
    <3>1. IsFiniteSet(S)
      OBVIOUS
    <3> QED BY ONLY <1>3, <3>1, RanksBelow
  <2>2. \A x, y \in S : x < y => <<x, y>> \in R
    BY <1>2
  <2> HIDE DEF Below
  <2>3. \A x \in S : below(x) \in 0..(C - 1)
    BY <1>4, <2>1
  <2>4. \A x, y \in S : x < y => below(x) < below(y)
    <3> SUFFICES ASSUME NEW x \in S, NEW y \in S, x < y PROVE below(x) < below(y)
      OBVIOUS
    <3>1. Cardinality(Below(R, S, x)) < Cardinality(Below(R, S, y))
      BY <2>1, <2>2
    <3>2. below(x) = Cardinality(Below(R, S, x)) /\ below(y) = Cardinality(Below(R, S, y))
      BY <1>4
    <3> QED BY <3>1, <3>2
  <2> QED BY <1>4, <2>1, <2>3, <2>4
<1> HIDE DEF C
<1>6. ASSUME NEW k \in 1..C PROVE Ascending(S)[k] \in S /\ below(Ascending(S)[k]) = k - 1
  <2>1. k - 1 \in 0..(C - 1)
    BY <1>5
  <2>2. \E x \in S : below(x) = k - 1
    BY <1>5, <2>1
  <2> QED BY <1>1, <2>2
<1>7. ASSUME NEW x \in S, NEW y \in S, below(x) = below(y) PROVE x = y
  <2>1. below(x) \in 0..(C - 1) /\ x \in Nat /\ y \in Nat
    BY <1>5
  <2>2. ~(x < y) /\ ~(y < x)
    BY <1>5, <1>7, <2>1
  <2> QED BY <2>1, <2>2
<1>8. ASSUME NEW n \in S PROVE \E k \in 1..C : Ascending(S)[k] = n
  <2>1. PICK k \in 1..C : k - 1 = below(n)
    <3>1. below(n) \in 0..(C - 1) /\ below(n) + 1 \in 1..C
      BY <1>5
    <3> QED BY <3>1
  <2>2. Ascending(S)[k] \in S /\ below(Ascending(S)[k]) = below(n)
    BY <1>6, <2>1
  <2>3. Ascending(S)[k] = n
    BY <1>7, <2>2
  <2> QED BY <2>3
<1>9. S # {} => \E n \in S : \A m \in S : n <= m
  <2> SUFFICES ASSUME NEW x \in S PROVE \E n \in S : \A m \in S : n <= m
    OBVIOUS
  <2>1. 0 \in 0..(C - 1)
    <3>1. below(x) \in 0..(C - 1)
      BY <1>5
    <3> QED BY <1>5, <3>1
  <2>2. PICK n \in S : below(n) = 0
    BY <1>5, <2>1
  <2>3. ASSUME NEW m \in S PROVE n <= m
    <3>1. below(m) \in 0..(C - 1) /\ m \in Nat /\ n \in Nat
      BY <1>5
    <3>2. ~(m < n)
      BY <1>5, <2>2, <3>1
    <3> QED BY <3>1, <3>2
  <2> QED BY <2>3
<1> QED BY <1>1, <1>5, <1>6, <1>8, <1>9 DEF C

(* What is picked is what there is at those places, all of it.             *)
Picks(p, s, S) ==
  /\ Cardinality(S) \in Nat /\ p = [k \in 1..Cardinality(S) |-> p[k]]
  /\ \A k \in 1..Cardinality(S) : \E i \in S : p[k] = s[i]
  /\ \A i \in S : \E k \in 1..Cardinality(S) : p[k] = s[i]
LEMMA PickedIs ==
  ASSUME NEW s, NEW S, IsFiniteSet(S), S \subseteq Nat
  PROVE  Picks(PickedAt(s, S), s, S)
<1> DEFINE a == Ascending(S)
           C == Cardinality(S)
           p == PickedAt(s, S)
<1>1. /\ C \in Nat /\ DOMAIN a = 1..C
      /\ \A k \in 1..C : a[k] \in S
      /\ \A i \in S : \E k \in 1..C : a[k] = i
  BY AscendingIs
<1>2. p = [k \in 1..C |-> s[a[k]]]
  BY <1>1 DEF PickedAt
<1> HIDE DEF a, p
<1>3. p = [k \in 1..C |-> p[k]]
  BY <1>2
<1>4. \A i \in S : \E k \in 1..C : p[k] = s[i]
  BY <1>1, <1>2
<1>5. \A k \in 1..C : \E i \in S : p[k] = s[i]
  BY <1>1, <1>2
<1>6. Picks(p, s, S)
  BY <1>1, <1>3, <1>4, <1>5 DEF Picks
<1> QED BY <1>6 DEF p

LEMMA PickedIn ==
  ASSUME NEW s, NEW S, NEW p, Picks(p, s, S), NEW T, \A i \in S : s[i] \in T
  PROVE  p \in Seq(T)
<1> DEFINE C == Cardinality(S)
<1>1. C \in Nat /\ p = [k \in 1..C |-> p[k]] /\ \A k \in 1..C : p[k] \in T
  BY DEF Picks
<1> HIDE DEF C
<1>2. p \in [1..C -> T]
  BY <1>1
<1> QED BY <1>1, <1>2

(* Percentiles of durations in order are durations, and in order.          *)
LEMMA PercentilesIn ==
  ASSUME NEW n \in Nat \ {0}, NEW t \in [1..n -> Nat], \A j, k \in 1..n : j <= k => t[j] <= t[k]
  PROVE  /\ \E j \in 1..n : Percentile(t, 50) = t[j]
         /\ \E j \in 1..n : Percentile(t, 95) = t[j]
         /\ Percentile(t, 50) <= Percentile(t, 95) /\ Percentile(t, 95) <= t[n]
<1>1. t \in Seq(Nat) /\ Len(t) = n /\ t # <<>>
  OBVIOUS
<1> DEFINE a == 1 + ((2 * 50 * (n - 1) + 100) \div 200)
           b == 1 + ((2 * 95 * (n - 1) + 100) \div 200)
<1>2. Percentile(t, 50) = t[a] /\ Percentile(t, 95) = t[b]
  BY <1>1 DEF Percentile
<1>3. a \in 1..n /\ b \in 1..n /\ a <= b
  OBVIOUS
<1> HIDE DEF a, b
<1>4. n \in 1..n /\ b <= n
  BY <1>3
<1> QED BY <1>2, <1>3, <1>4

-----------------------------------------------------------------------------
(* Rows, one for each name of S, the largest totals first.                 *)
Ranks(rank, S, row) ==
  \E names : /\ rank \in Seq({row[n] : n \in S}) /\ names \in [1..Len(rank) -> S]
             /\ \A k \in 1..Len(rank) : rank[k] = row[names[k]]
             /\ \A j, k \in 1..Len(rank) : names[j] = names[k] => j = k
             /\ \A n \in S : \E k \in 1..Len(rank) : names[k] = n
             /\ \A j, k \in 1..Len(rank) : j < k => rank[j].total_duration >= rank[k].total_duration

(* Rows made of ByName, sorted, rank the set they were made of.            *)
LEMMA RowsRank ==
  ASSUME NEW S, IsFiniteSet(S), NamesOrdered(S), NEW row,
         \A n \in S : row[n].total_duration \in Nat,
         NEW rank, rank = LargestFirst([k \in DOMAIN ByName(S) |-> row[ByName(S)[k]]], "total_duration")
  PROVE  Ranks(rank, S, row)
<1> DEFINE names == ByName(S)
           C == Cardinality(S)
           rows == [k \in DOMAIN names |-> row[names[k]]]
<1>1. /\ C \in Nat /\ names \in [1..C -> S]
      /\ \A j, k \in 1..C : names[j] = names[k] => j = k
      /\ \A n \in S : \E k \in 1..C : names[k] = n
  <2> HIDE DEF names
  <2>1. names = ByName(S)
    BY DEF names
  <2> QED BY <2>1, ByNameIs
<1> HIDE DEF names, C
<1>2. DOMAIN rows = 1..C /\ \A k \in 1..C : names[k] \in S /\ rows[k] = row[names[k]]
  BY <1>1
<1>3. \A k \in 1..C : rows[k].total_duration \in Nat
  BY <1>2
<1>4. rank = LargestFirst(rows, "total_duration")
  BY DEF names
<1> HIDE DEF rows
<1>0. Rearranges(rank, rows, C, "total_duration")
  BY <1>1, <1>2, <1>3, <1>4, RowsSorted
<1>5. PICK p \in [1..C -> 1..C] :
        /\ rank = [k \in 1..C |-> rows[p[k]]]
        /\ \A j, k \in 1..C : p[j] = p[k] => j = k
        /\ \A i \in 1..C : \E k \in 1..C : p[k] = i
        /\ \A j, k \in 1..C : j < k => rank[j].total_duration >= rank[k].total_duration
  BY <1>0 DEF Rearranges
<1> DEFINE of == [k \in 1..C |-> names[p[k]]]
           all == {row[n] : n \in S}
<1>6. of \in [1..C -> S] /\ \A k \in 1..C : rank[k] = row[of[k]] /\ of[k] = names[p[k]] /\ p[k] \in 1..C
  BY <1>1, <1>2, <1>5
<1>7. rank \in [1..C -> all]
  <2>1. \A k \in 1..C : rank[k] \in all
    BY <1>6
  <2> HIDE DEF all
  <2> QED BY <1>5, <2>1
<1>8. rank \in Seq(all) /\ Len(rank) = C
  <2> HIDE DEF all
  <2> QED BY <1>1, <1>7
<1>9. \A j, k \in 1..C : of[j] = of[k] => j = k
  BY <1>1, <1>5, <1>6
<1>10. ASSUME NEW n \in S PROVE \E k \in 1..C : of[k] = n
  <2>1. PICK i \in 1..C : names[i] = n
    BY <1>1
  <2>2. PICK k \in 1..C : p[k] = i
    BY <1>5
  <2> QED BY <2>1, <2>2
<1> HIDE DEF of, all
<1>11. of \in [1..Len(rank) -> S] /\ \A k \in 1..Len(rank) : rank[k] = row[of[k]]
  BY <1>6, <1>8
<1>12. \A j, k \in 1..Len(rank) : of[j] = of[k] => j = k
  BY <1>8, <1>9
<1>13. \A n \in S : \E k \in 1..Len(rank) : of[k] = n
  BY <1>8, <1>10
<1>14. \A j, k \in 1..Len(rank) : j < k => rank[j].total_duration >= rank[k].total_duration
  BY <1>5, <1>8
<1>15. rank \in Seq({row[n] : n \in S})
  BY <1>8 DEF all
<1> QED BY <1>11, <1>12, <1>13, <1>14, <1>15 DEF Ranks

(* A row of the tool ranking.                                              *)
RowIs(r, n, c) ==
  /\ r.name = n /\ r.call_count = Len(c) /\ r.total_duration \in Nat
  /\ r.call_count = r.success_count + r.failure_count + r.orphan_count
  /\ {r.p50_duration, r.p95_duration, r.max_duration} \subseteq {Duration(c[i]) : i \in DOMAIN c}
  /\ r.p50_duration <= r.p95_duration /\ r.p95_duration <= r.max_duration
  /\ r.max_duration <= r.total_duration

(* Outcomes add up; percentiles are durations and in order.                *)
LEMMA ToolRowIs ==
  ASSUME NEW e, NEW n, NEW m \in Nat, m # 0, NEW c, c = e.tools[n], DOMAIN c = 1..m, Len(c) = m,
         \A i \in 1..m : /\ Duration(c[i]) \in Nat
                              /\ c[i].status \in {"success", "failure", "orphan", "aborted", "open"}
  PROVE  RowIs(ToolRankRow(e, n), n, c)
<1> DEFINE t == SortedDurations(c)
           r == ToolRankRow(e, n)
           a == {i \in DOMAIN c : c[i].status = "success"}
           b == {i \in DOMAIN c : c[i].status \in {"failure", "aborted"}}
           d == {i \in DOMAIN c : c[i].status \in {"orphan", "open"}}
<1>1. DOMAIN c = 1..m /\ m \in Nat
  OBVIOUS
<1>0. m # 0 /\ m \in 1..m /\ m \in Nat \ {0}
  OBVIOUS
<1>2. /\ t \in [1..m -> Nat]
      /\ \A k \in 1..m : \E i \in 1..m : t[k] = Duration(c[i])
      /\ \A j, k \in 1..m : j <= k => t[j] <= t[k]
  <2> HIDE DEF t, r, a, b, d
  <2>1. \A i \in 1..m : Duration(c[i]) \in Nat
    OBVIOUS
  <2>2. t = SortedDurations(c)
    BY DEF t
  <2>3. Sorted(t, c, m)
    BY <1>1, <2>1, <2>2, DurationsSorted
  <2> HIDE DEF RowIs
  <2> QED BY ONLY <2>3 DEF Sorted
<1>3. /\ r.name = n /\ r.call_count = m /\ r.total_duration = Total(t)
      /\ r.success_count = Cardinality(a) /\ r.failure_count = Cardinality(b)
      /\ r.orphan_count = Cardinality(d)
      /\ r.p50_duration = Percentile(t, 50) /\ r.p95_duration = Percentile(t, 95)
      /\ r.max_duration = IF t = <<>> THEN 0 ELSE t[Len(t)]
  BY DEF ToolRankRow, Count, Last
<1> HIDE DEF r, t
<1>4. t \in Seq(Nat) /\ Len(t) = m /\ t # <<>> /\ DOMAIN t = 1..m
  <2>1. t \in [1..m -> Nat]
    BY <1>2
  <2> QED BY ONLY <1>0, <1>1, <2>1
<1>5. Total(t) \in Nat /\ t[m] <= Total(t)
  BY <1>0, <1>4, TotalBounds
<1>6. /\ \E j \in 1..m : Percentile(t, 50) = t[j]
      /\ \E j \in 1..m : Percentile(t, 95) = t[j]
      /\ Percentile(t, 50) <= Percentile(t, 95) /\ Percentile(t, 95) <= t[m]
  BY <1>0, <1>1, <1>2, PercentilesIn
<1>7. {r.p50_duration, r.p95_duration, r.max_duration} \subseteq {Duration(c[i]) : i \in DOMAIN c}
  <2>1. \A j \in 1..m : t[j] \in {Duration(c[i]) : i \in DOMAIN c}
    BY <1>1, <1>2
  <2>2. \A x \in {r.p50_duration, r.p95_duration, r.max_duration} : \E j \in 1..m : x = t[j]
    BY <1>0, <1>1, <1>3, <1>4, <1>6
  <2> QED BY <2>1, <2>2
<1>8. m = Cardinality(a) + Cardinality(b) + Cardinality(d)
  <2>1. IsFiniteSet(1..m) /\ Cardinality(1..m) = m
    BY <1>1, FS_Interval
  <2>2. a \in SUBSET (1..m) /\ b \in SUBSET (1..m) /\ d \in SUBSET (1..m)
    BY <1>1
  <2>3. a \cup b \cup d = 1..m /\ a \cap b = {} /\ (a \cup b) \cap d = {}
    BY <1>1
  <2> HIDE DEF a, b, d
  <2>4. IsFiniteSet(a) /\ IsFiniteSet(b) /\ IsFiniteSet(d)
    BY <2>1, <2>2, FS_Subset
  <2>5. /\ IsFiniteSet(a \cup b)
        /\ Cardinality(a \cup b) = Cardinality(a) + Cardinality(b) - Cardinality(a \cap b)
    BY <2>4, FS_Union
  <2>6. Cardinality((a \cup b) \cup d)
          = Cardinality(a \cup b) + Cardinality(d) - Cardinality((a \cup b) \cap d)
    BY <2>4, <2>5, FS_Union
  <2>7. Cardinality(a \cap b) = 0 /\ Cardinality((a \cup b) \cap d) = 0
    BY <2>3, FS_EmptySet
  <2>8. Cardinality(a) \in Nat /\ Cardinality(b) \in Nat /\ Cardinality(d) \in Nat
    BY <2>4, FS_CardinalityType
  <2>9. Cardinality(a \cup b) = Cardinality(a) + Cardinality(b)
    BY <2>5, <2>7, <2>8
  <2>10. Cardinality((a \cup b) \cup d) = Cardinality(a) + Cardinality(b) + Cardinality(d)
    BY <2>6, <2>7, <2>8, <2>9
  <2> QED BY <2>1, <2>3, <2>10
<1>9. r.max_duration = t[m]
  BY <1>0, <1>3, <1>4
<1>10. RowIs(r, n, c)
  BY <1>3, <1>5, <1>6, <1>7, <1>8, <1>9 DEF RowIs
<1> QED BY <1>10 DEF r

(* A row of the hook ranking.                                              *)
LEMMA HookRowIs ==
  ASSUME NEW e, NEW n, NEW m \in Nat, NEW c, c = e.hooks[n], DOMAIN c = 1..m, Len(c) = m,
         \A i \in 1..m : Duration(c[i]) \in Nat
  PROVE  /\ HookRankRow(e, n).call_count = m
         /\ HookRankRow(e, n).total_duration \in Nat
<1> DEFINE t == SortedDurations(c)
<1>1. DOMAIN c = 1..m /\ m \in Nat
  OBVIOUS
<1>2. t \in [1..m -> Nat]
  <2> HIDE DEF t
  <2>1. \A i \in 1..m : Duration(c[i]) \in Nat
    OBVIOUS
  <2>2. t = SortedDurations(c)
    BY DEF t
  <2> QED BY <1>1, <2>1, <2>2, DurationsSorted DEF Sorted
<1>3. HookRankRow(e, n).call_count = m /\ HookRankRow(e, n).total_duration = Total(t)
  BY DEF HookRankRow
<1> HIDE DEF t
<1>4. t \in Seq(Nat)
  BY <1>1, <1>2
<1> QED BY <1>3, <1>4, TotalBounds
=============================================================================
