------------------------- MODULE MatrixThreadsProofs -------------------------
(***************************************************************************)
(* Of MatrixThreads, for all sizes and matrices: however the threads of a  *)
(* program interleave, main returns with the product.                      *)
(***************************************************************************)
EXTENDS MatrixThreads, FiniteSetTheorems, NaturalsInduction, WellFoundedInduction, TLAPS

-----------------------------------------------------------------------------
(* A set of naturals has a least element: proofs about the sum of a set    *)
(* refute their least counterexample.                                      *)
LessThan == {p \in Nat \X Nat : p[1] < p[2]}

(* Every nonempty set of naturals has a least element.                     *)
LEMMA LeastNatural == ASSUME NEW T \in SUBSET Nat, T # {}
                      PROVE  \E x \in T : \A y \in T : x <= y
<1>1. OpToRel(<, Nat) = LessThan
  BY Zenon DEF OpToRel, LessThan
<1>2. IsWellFoundedOn(LessThan, Nat)
  BY <1>1, NatLessThanWellFounded, Zenon
<1>3. \E x \in T : \A y \in T : ~(<<y, x>> \in LessThan)
  BY <1>2, WFMin
<1>4. ASSUME NEW x \in T, NEW y \in T, <<y, x>> \notin LessThan PROVE x <= y
  BY <1>4 DEF LessThan
<1> QED
  BY <1>3, <1>4

-----------------------------------------------------------------------------
(* Product adds up a set of terms in the order of CHOOSE, by a function    *)
(* that is defined recursively.  Here the sum of any set of them.          *)
Summand(i, j, k) == A[<<i, k>>] * B[<<k, j>>]
Some(s) == CHOOSE x \in s : TRUE
Sum(i, j, S) == MapThenSumSet(LAMBDA k : A[<<i, k>>] * B[<<k, j>>], S)

IsSum(sum, i, j, S) ==
  sum = [s \in SUBSET S |-> IF s = {} THEN 0 ELSE Summand(i, j, Some(s)) + sum[s \ {Some(s)}]]

(* Every set whose terms are numbers.                                      *)
Summable(i, j, S) == IsFiniteSet(S) /\ \A k \in S : Summand(i, j, k) \in Nat

(* It is the function's value at the set.                                  *)
LEMMA SumIsChosen ==
  ASSUME NEW i, NEW j, NEW S
  PROVE  Sum(i, j, S) = (CHOOSE sum : IsSum(sum, i, j, S))[S]
BY DEF Sum, MapThenSumSet, MapThenFoldSet, IsSum, Summand, Some

(* The element that CHOOSE takes first leaves a smaller set.               *)
LEMMA SomeOf ==
  ASSUME NEW S, NEW s \in SUBSET S, s # {}, IsFiniteSet(S)
  PROVE  /\ Some(s) \in s /\ Some(s) \in S /\ s \ {Some(s)} \in SUBSET S
         /\ IsFiniteSet(s) /\ Cardinality(s) \in Nat /\ Cardinality(s) > 0
         /\ Cardinality(s \ {Some(s)}) = Cardinality(s) - 1
<1>1. Some(s) \in s
  BY DEF Some
<1>2. IsFiniteSet(s) /\ Cardinality(s) \in Nat
  BY FS_Subset, FS_CardinalityType
<1>3. Cardinality(s \ {Some(s)}) = Cardinality(s) - 1 /\ Cardinality(s) # 0
  BY <1>1, <1>2, FS_RemoveElement, FS_EmptySet
<1> QED
  BY <1>1, <1>2, <1>3

(* The function exists, because it does up to any size of the subsets.     *)
SumsUpTo(sum, i, j, S, m) ==
  /\ sum \in [SUBSET S -> Nat]
  /\ \A s \in SUBSET S : Cardinality(s) <= m =>
       sum[s] = IF s = {} THEN 0 ELSE Summand(i, j, Some(s)) + sum[s \ {Some(s)}]

(* A function that is right for sets of m elements gives one that is right *)
(* for one element more.                                                   *)
LEMMA SumsFurther ==
  ASSUME NEW i, NEW j, NEW S, Summable(i, j, S), NEW m \in Nat, NEW g, SumsUpTo(g, i, j, S, m)
  PROVE  \E h : SumsUpTo(h, i, j, S, m + 1)
<1> DEFINE h == [s \in SUBSET S |-> IF s = {} THEN 0 ELSE Summand(i, j, Some(s)) + g[s \ {Some(s)}]]
<1>1. ASSUME NEW s \in SUBSET S, s # {}
      PROVE  /\ Some(s) \in S /\ s \ {Some(s)} \in SUBSET S /\ Summand(i, j, Some(s)) \in Nat
             /\ g[s \ {Some(s)}] \in Nat
             /\ Cardinality(s) \in Nat /\ Cardinality(s \ {Some(s)}) = Cardinality(s) - 1
  <2>1. Some(s) \in S /\ s \ {Some(s)} \in SUBSET S
    BY <1>1, SomeOf DEF Summable
  <2>2. Cardinality(s) \in Nat /\ Cardinality(s \ {Some(s)}) = Cardinality(s) - 1
    BY <1>1, SomeOf DEF Summable
  <2> QED
    BY <2>1, <2>2 DEF Summable, SumsUpTo
<1>2. h \in [SUBSET S -> Nat]
  <2>1. ASSUME NEW s \in SUBSET S
        PROVE  (IF s = {} THEN 0 ELSE Summand(i, j, Some(s)) + g[s \ {Some(s)}]) \in Nat
    BY <1>1
  <2> QED
    BY <2>1
<1>3. ASSUME NEW s \in SUBSET S, Cardinality(s) <= m + 1, s # {}
      PROVE  h[s] = Summand(i, j, Some(s)) + h[s \ {Some(s)}]
  <2> DEFINE r == s \ {Some(s)}
  <2>1. r \in SUBSET S /\ Cardinality(r) <= m
    BY <1>1, <1>3
  <2>2. g[r] = IF r = {} THEN 0 ELSE Summand(i, j, Some(r)) + g[r \ {Some(r)}]
    BY <2>1 DEF SumsUpTo
  <2>3. h[r] = g[r]
    BY <2>1, <2>2
  <2> QED
    BY <1>3, <2>3
<1>4. h[{}] = 0
  OBVIOUS
<1> HIDE DEF h
<1>5. SumsUpTo(h, i, j, S, m + 1)
  BY <1>2, <1>3, <1>4 DEF SumsUpTo
<1> QED
  BY <1>5

(* So there is one that is right for all subsets: m is at most their size. *)
LEMMA SumExists ==
  ASSUME NEW i, NEW j, NEW S, Summable(i, j, S)
  PROVE  \E sum \in [SUBSET S -> Nat] : IsSum(sum, i, j, S)
<1> DEFINE T == {m \in Nat : ~\E g : SumsUpTo(g, i, j, S, m)}
<1>1. ASSUME T # {} PROVE FALSE
  <2>1. PICK m \in T : \A y \in T : m <= y
    BY <1>1, LeastNatural
  <2>2. CASE m = 0
    <3> DEFINE g == [s \in SUBSET S |-> 0]
    <3>1. ASSUME NEW s \in SUBSET S, Cardinality(s) <= 0 PROVE s = {}
      <4>1. ASSUME s # {} PROVE FALSE
        <5>1. Cardinality(s) \in Nat /\ Cardinality(s) > 0
          BY <4>1, SomeOf DEF Summable
        <5> QED
          BY <3>1, <5>1
      <4> QED
        BY <4>1
    <3>2. SumsUpTo(g, i, j, S, 0)
      BY <3>1 DEF SumsUpTo
    <3> QED
      BY <2>1, <2>2, <3>2
  <2>3. CASE m # 0
    <3>1. m - 1 \in Nat /\ (m - 1) + 1 = m /\ m - 1 \notin T
      BY <2>1, <2>3
    <3>2. PICK g : SumsUpTo(g, i, j, S, m - 1)
      BY <3>1
    <3>3. \E h : SumsUpTo(h, i, j, S, m)
      BY <3>1, <3>2, SumsFurther
    <3> QED
      BY <3>3
  <2> QED
    BY <2>2, <2>3
<1>2. Cardinality(S) \in Nat /\ \A s \in SUBSET S : Cardinality(s) <= Cardinality(S)
  BY FS_Subset, FS_CardinalityType DEF Summable
<1>3. PICK g : SumsUpTo(g, i, j, S, Cardinality(S))
  BY <1>1, <1>2
<1>4. g \in [SUBSET S -> Nat] /\ IsSum(g, i, j, S)
  BY <1>2, <1>3 DEF SumsUpTo, IsSum
<1> QED
  BY <1>4

(* Such a function is a sum: its terms may be taken away in any order.     *)
AddsUp(g, i, j, s) ==
  /\ g[s] \in Nat
  /\ \A x \in s : g[s] = Summand(i, j, x) + g[s \ {x}]

(* For the smallest set of which it is false, take the chosen element and  *)
(* another one away in either order.                                       *)
LEMMA SumAddsUp ==
  ASSUME NEW i, NEW j, NEW S, Summable(i, j, S), NEW g, IsSum(g, i, j, S), NEW s \in SUBSET S
  PROVE  AddsUp(g, i, j, s)
<1> DEFINE T == {m \in Nat : \E r \in SUBSET S : Cardinality(r) = m /\ ~AddsUp(g, i, j, r)}
<1>1. ASSUME T # {} PROVE FALSE
  <2>1. PICK m \in T : \A y \in T : m <= y
    BY <1>1, LeastNatural
  <2>2. PICK r \in SUBSET S : Cardinality(r) = m /\ ~AddsUp(g, i, j, r)
    BY <2>1
  <2>3. ASSUME NEW q \in SUBSET S, Cardinality(q) \in Nat, Cardinality(q) < m
        PROVE  AddsUp(g, i, j, q)
    BY <2>1, <2>3
  <2>4. r # {}
    BY <2>2 DEF AddsUp, IsSum
  <2> DEFINE y == Some(r)
             r1 == r \ {y}
  <2>5. /\ y \in r /\ IsFiniteSet(r) /\ r1 \in SUBSET S /\ Cardinality(r) \in Nat
        /\ Cardinality(r1) = Cardinality(r) - 1 /\ Cardinality(r) > 0
    BY <2>4, SomeOf DEF Summable
  <2>6. AddsUp(g, i, j, r1)
    BY <2>2, <2>3, <2>5
  <2>7. g[r] = Summand(i, j, y) + g[r1]
    BY <2>4 DEF IsSum
  <2>8. \A x \in r : Summand(i, j, x) \in Nat
    BY DEF Summable
  <2>9. ASSUME NEW x \in r, x # y PROVE g[r] = Summand(i, j, x) + g[r \ {x}]
    <3> DEFINE r2 == r \ {x}
               r3 == r1 \ {x}
    <3>1. r2 \in SUBSET S /\ r3 \in SUBSET S /\ r3 = r2 \ {y} /\ x \in r1 /\ y \in r2
      BY <2>5, <2>9
    <3>2. Cardinality(r2) = Cardinality(r) - 1
      BY <2>5, FS_RemoveElement
    <3>3. AddsUp(g, i, j, r2)
      BY <2>2, <2>3, <2>5, <3>1, <3>2
    <3>4. IsFiniteSet(r3) /\ Cardinality(r3) \in Nat
      BY <3>1, FS_Subset, FS_CardinalityType DEF Summable
    <3>5. Cardinality(r3) = Cardinality(r1) - 1
      BY <2>5, <3>1, FS_RemoveElement, FS_Subset
    <3>6. AddsUp(g, i, j, r3)
      BY <2>2, <2>3, <2>5, <3>1, <3>4, <3>5
    <3> DEFINE wx == Summand(i, j, x)
               wy == Summand(i, j, y)
    <3>7. g[r1] = wx + g[r3] /\ g[r2] = wy + g[r3] /\ g[r3] \in Nat
      BY <2>6, <3>1, <3>3, <3>6 DEF AddsUp
    <3>8. wx \in Nat /\ wy \in Nat /\ g[r] = wy + g[r1]
      BY <2>5, <2>7, <2>8
    <3> HIDE DEF wx, wy, r1, r2, r3
    <3> QED
      BY <3>7, <3>8 DEF wx, r2
  <2>10. AddsUp(g, i, j, r)
    <3>1. g[r1] \in Nat /\ Summand(i, j, y) \in Nat
      BY <2>5, <2>6, <2>8 DEF AddsUp
    <3>2. g[r] \in Nat
      BY <2>7, <3>1
    <3>3. ASSUME NEW x \in r PROVE g[r] = Summand(i, j, x) + g[r \ {x}]
      BY <2>7, <2>9
    <3> QED
      BY <3>2, <3>3 DEF AddsUp
  <2> QED
    BY <2>2, <2>10
<1>2. IsFiniteSet(s) /\ Cardinality(s) \in Nat
  BY FS_Subset, FS_CardinalityType DEF Summable
<1> QED
  BY <1>1, <1>2

(* The sum of a set does not depend on the larger set whose subsets the    *)
(* function is defined on.                                                 *)
LEMMA SameSum ==
  ASSUME NEW i, NEW j, NEW S, Summable(i, j, S), NEW R \in SUBSET S,
         NEW g, IsSum(g, i, j, S), NEW h, IsSum(h, i, j, R), NEW s \in SUBSET R
  PROVE  g[s] = h[s]
<1> DEFINE T == {m \in Nat : \E r \in SUBSET R : Cardinality(r) = m /\ g[r] # h[r]}
<1>1. ASSUME T # {} PROVE FALSE
  <2>1. PICK m \in T : \A y \in T : m <= y
    BY <1>1, LeastNatural
  <2>2. PICK r \in SUBSET R : Cardinality(r) = m /\ g[r] # h[r]
    BY <2>1
  <2>3. r \in SUBSET S
    OBVIOUS
  <2>4. r # {}
    BY <2>2, <2>3 DEF IsSum
  <2> DEFINE q == r \ {Some(r)}
  <2>5. q \in SUBSET S /\ Cardinality(q) = m - 1 /\ m \in Nat /\ m > 0
    BY <2>2, <2>3, <2>4, SomeOf DEF Summable
  <2>6. g[q] = h[q]
    BY <2>1, <2>5
  <2>7. g[r] = Summand(i, j, Some(r)) + g[q]
    BY <2>3, <2>4 DEF IsSum
  <2>8. h[r] = Summand(i, j, Some(r)) + h[q]
    BY <2>4 DEF IsSum
  <2> QED
    BY <2>2, <2>6, <2>7, <2>8
<1>2. IsFiniteSet(s) /\ Cardinality(s) \in Nat
  BY FS_Subset, FS_CardinalityType DEF Summable
<1> QED
  BY <1>1, <1>2

(* What the rest of the module uses of sums.                               *)
LEMMA Summing ==
  ASSUME NEW i, NEW j, NEW S, Summable(i, j, S)
  PROVE  /\ Sum(i, j, S) \in Nat
         /\ S = {} => Sum(i, j, S) = 0
         /\ \A x \in S : Sum(i, j, S) = Summand(i, j, x) + Sum(i, j, S \ {x})
<1> DEFINE F(R) == CHOOSE sum : IsSum(sum, i, j, R)
<1>1. ASSUME NEW R \in SUBSET S PROVE IsSum(F(R), i, j, R) /\ Sum(i, j, R) = F(R)[R]
  <2>1. Summable(i, j, R)
    BY FS_Subset DEF Summable
  <2>2. \E sum : IsSum(sum, i, j, R)
    BY <2>1, SumExists
  <2>3. IsSum(F(R), i, j, R)
    BY <2>2
  <2>4. Sum(i, j, R) = F(R)[R]
    BY SumIsChosen
  <2> QED
    BY <2>3, <2>4
<1>2. IsSum(F(S), i, j, S) /\ Sum(i, j, S) = F(S)[S]
  BY <1>1
<1> HIDE DEF F
<1>3. AddsUp(F(S), i, j, S)
  BY <1>2, SumAddsUp
<1>4. ASSUME NEW x \in S PROVE Sum(i, j, S) = Summand(i, j, x) + Sum(i, j, S \ {x})
  <2>1. IsSum(F(S \ {x}), i, j, S \ {x}) /\ Sum(i, j, S \ {x}) = F(S \ {x})[S \ {x}]
    BY <1>1
  <2>2. F(S)[S \ {x}] = F(S \ {x})[S \ {x}]
    BY <1>2, <2>1, SameSum
  <2> QED
    BY <1>2, <1>3, <2>1, <2>2 DEF AddsUp
<1>5. Sum(i, j, S) \in Nat
  BY <1>2, <1>3 DEF AddsUp
<1>6. ASSUME S = {} PROVE Sum(i, j, S) = 0
  BY <1>2, <1>6 DEF IsSum
<1> QED
  BY <1>4, <1>5, <1>6

-----------------------------------------------------------------------------
(* The loops have a next addition as long as any is left: the least one in *)
(* their order.                                                            *)
Triples == Nat \X Nat \X Nat
Second(x) == IF program = 2 THEN x[3] ELSE x[2]
Third(x) == IF program = 2 THEN x[2] ELSE x[3]

(* Before is the lexicographic order, with the second and third index      *)
(* exchanged in multithread2.                                              *)
LEMMA BeforeBy ==
  ASSUME NEW a \in Triples, NEW b \in Triples,
         \/ a[1] < b[1]
         \/ a[1] = b[1] /\ Second(a) < Second(b)
         \/ a[1] = b[1] /\ Second(a) = Second(b) /\ Third(a) < Third(b)
  PROVE  Before(a, b)
<1> DEFINE Key(x) == IF program = 2 THEN <<x[1], x[3], x[2]>> ELSE x
<1>1. ASSUME NEW x \in Triples
      PROVE  Key(x)[1] = x[1] /\ Key(x)[2] = Second(x) /\ Key(x)[3] = Third(x)
  BY DEF Second, Third
<1>2. \E d \in 1..3 : Key(a)[d] < Key(b)[d] /\ \A e \in 1..d - 1 : Key(a)[e] = Key(b)[e]
  <2> HIDE DEF Key
  <2>1. CASE a[1] < b[1]
    <3>1. Key(a)[1] < Key(b)[1] /\ \A e \in 1..1 - 1 : Key(a)[e] = Key(b)[e]
      BY <1>1, <2>1
    <3> QED
      BY <3>1
  <2>2. CASE a[1] = b[1] /\ Second(a) < Second(b)
    <3>1. Key(a)[2] < Key(b)[2] /\ \A e \in 1..2 - 1 : Key(a)[e] = Key(b)[e]
      BY <1>1, <2>2
    <3> QED
      BY <3>1
  <2>3. CASE a[1] = b[1] /\ Second(a) = Second(b) /\ Third(a) < Third(b)
    <3>1. \A e \in 1..3 - 1 : e = 1 \/ e = 2
      OBVIOUS
    <3>2. Key(a)[3] < Key(b)[3] /\ \A e \in 1..3 - 1 : Key(a)[e] = Key(b)[e]
      BY <1>1, <2>3, <3>1
    <3> QED
      BY <3>2
  <2> QED
    BY <2>1, <2>2, <2>3
<1> QED
  BY <1>2, Zenon DEF Before

(* A set of additions has a first one in it.                               *)
LEMMA LeastTriple ==
  ASSUME NEW T \in SUBSET Triples, T # {}
  PROVE  \E a \in T : \A b \in T \ {a} : Before(a, b)
<1>0. \A x \in Triples : x[1] \in Nat /\ Second(x) \in Nat /\ Third(x) \in Nat
  BY DEF Triples, Second, Third
<1>1. \E k \in {x[1] : x \in T} : \A y \in {x[1] : x \in T} : k <= y
  <2>1. {x[1] : x \in T} \in SUBSET Nat /\ {x[1] : x \in T} # {}
    BY <1>0
  <2> QED
    BY <2>1, LeastNatural
<1>2. PICK k1 \in Nat : (\E x \in T : x[1] = k1) /\ \A x \in T : k1 <= x[1]
  BY <1>0, <1>1
<1> DEFINE T2 == {x \in T : x[1] = k1}
<1>3. \E k \in {Second(x) : x \in T2} : \A y \in {Second(x) : x \in T2} : k <= y
  <2>1. {Second(x) : x \in T2} \in SUBSET Nat /\ {Second(x) : x \in T2} # {}
    BY <1>0, <1>2
  <2> QED
    BY <2>1, LeastNatural
<1>4. PICK k2 \in Nat : (\E x \in T2 : Second(x) = k2) /\ \A x \in T2 : k2 <= Second(x)
  BY <1>0, <1>3
<1> DEFINE T3 == {x \in T2 : Second(x) = k2}
<1>5. \E k \in {Third(x) : x \in T3} : \A y \in {Third(x) : x \in T3} : k <= y
  <2>1. {Third(x) : x \in T3} \in SUBSET Nat /\ {Third(x) : x \in T3} # {}
    BY <1>0, <1>4
  <2> QED
    BY <2>1, LeastNatural
<1>6. PICK a \in T3 : \A x \in T3 : Third(a) <= Third(x)
  BY <1>5
<1>7. ASSUME NEW b \in T \ {a} PROVE Before(a, b)
  <2>1. a \in T /\ a[1] = k1 /\ Second(a) = k2 /\ a \in Triples /\ b \in Triples
    BY <1>6
  <2>2. ASSUME b[1] = k1, Second(b) = k2 PROVE Third(a) < Third(b)
    <3>1. Third(a) <= Third(b)
      BY <1>6, <2>2
    <3>2. Third(a) # Third(b)
      <4>1. ASSUME Third(a) = Third(b) PROVE FALSE
        <5>1. a[1] = b[1] /\ a[2] = b[2] /\ a[3] = b[3]
          BY <2>1, <2>2, <4>1 DEF Second, Third
        <5>2. a = b
          BY <2>1, <5>1 DEF Triples
        <5> QED
          BY <5>2
      <4> QED
        BY <4>1
    <3> QED
      BY <1>0, <2>1, <3>1, <3>2
  <2>3. k1 <= b[1] /\ (b[1] = k1 => k2 <= Second(b))
    BY <1>2, <1>4
  <2>4. b[1] \in Nat /\ Second(b) \in Nat
    BY <1>0, <2>1
  <2> QED
    BY <2>1, <2>2, <2>3, <2>4, BeforeBy
<1> QED
  BY <1>6, <1>7

(* What First chooses is one of the additions left.                        *)
LEMMA FirstIsLeft ==
  ASSUME NEW t, todo[t] \in SUBSET Triples, todo[t] # {}
  PROVE  First(t) \in todo[t]
BY LeastTriple DEF First

-----------------------------------------------------------------------------
(* A quotient and a remainder can be read off a number written with them,  *)
LEMMA DivBack ==
  ASSUME NEW m \in Nat \ {0}, NEW q \in Nat, NEW r \in 0..m - 1
  PROVE  (m * q + r) \div m = q /\ (m * q + r) % m = r
OBVIOUS

(* and every number can be written so.                                     *)
LEMMA DivExists ==
  ASSUME NEW m \in Nat \ {0}, NEW x \in Nat
  PROVE  \E q \in Nat : \E r \in 0..m - 1 : x = m * q + r
<1> DEFINE T == {y \in Nat : ~\E q \in Nat : \E r \in 0..m - 1 : y = m * q + r}
<1>1. ASSUME T # {} PROVE FALSE
  <2>1. PICK y \in T : \A z \in T : y <= z
    BY <1>1, LeastNatural
  <2>2. CASE y < m
    <3>1. y \in 0..m - 1 /\ y = m * 0 + y
      BY <2>1, <2>2
    <3> QED
      BY <2>1, <3>1
  <2>3. CASE y >= m
    <3>1. y - m \in Nat /\ y - m \notin T
      BY <2>1, <2>3
    <3>2. PICK q \in Nat : \E r \in 0..m - 1 : y - m = m * q + r
      BY <3>1
    <3>3. PICK r \in 0..m - 1 : y - m = m * q + r
      BY <3>2
    <3>4. y = m * (q + 1) + r /\ q + 1 \in Nat
      BY <2>1, <3>3
    <3> QED
      BY <2>1, <3>4
  <2> QED
    BY <2>1, <2>2, <2>3
<1> QED
  BY <1>1

(* The number of a thread is that of its row of n cells and its place in   *)
(* it.                                                                     *)
LEMMA DivMod ==
  ASSUME NEW m \in Nat \ {0}, NEW x \in 0..m * m - 1
  PROVE  x \div m \in 0..m - 1 /\ x % m \in 0..m - 1 /\ x = m * (x \div m) + (x % m)
<1>0. m * m \in Nat /\ x \in Nat /\ x < m * m
  OBVIOUS
<1>1. PICK q \in Nat, r \in 0..m - 1 : x = m * q + r
  BY <1>0, DivExists
<1>2. x \div m = q /\ x % m = r
  BY <1>1, DivBack
<1>3. ASSUME q >= m PROVE FALSE
  <2>1. q - m \in Nat /\ m * (q - m) \in Nat /\ m * (q - m) = m * q - m * m
    BY <1>3
  <2>2. m * q \in Nat
    OBVIOUS
  <2> QED
    BY <1>0, <1>1, <2>1, <2>2
<1> QED
  BY <1>1, <1>2, <1>3

(* The cells of n rows are numbered below n times n.                       *)
LEMMA CellNumber ==
  ASSUME NEW m \in Nat \ {0}, NEW i \in 0..m - 1, NEW j \in 0..m - 1
  PROVE  m * i + j \in 0..m * m - 1
<1>1. m - 1 - i \in Nat /\ m * (m - 1 - i) \in Nat
  OBVIOUS
<1>2. m * (m - 1 - i) = m * m - m - m * i
  OBVIOUS
<1>3. m * m \in Nat /\ m * i \in Nat
  OBVIOUS
<1> QED
  BY <1>1, <1>2, <1>3

-----------------------------------------------------------------------------
(* What main divides among the threads: additions of the product, none of  *)
(* them for two threads, and every one for some thread.                    *)
Sized == program \in 1..3 /\ n \in Nat \ {0}
Additions == Indices \X Indices \X Indices
Numbers == 0..Threads - 1

(* There is a thread at least.                                             *)
LEMMA ThreadsCount == ASSUME Sized PROVE Threads \in Nat \ {0}
<1>1. n * n \in Nat /\ n * n > 0
  BY DEF Sized
<1> QED
  BY <1>1 DEF Sized, Threads

(* The halves of the indices are apart and, but for a single index, leave  *)
(* none out; of a single index both are empty.                             *)
LEMMA Halves ==
  ASSUME Sized
  PROVE  /\ Quadrant(0) \subseteq Indices /\ Quadrant(1) \subseteq Indices
         /\ Quadrant(0) \cap Quadrant(1) = {}
         /\ n = 1 => Quadrant(0) = {} /\ Quadrant(1) = {}
         /\ n # 1 => Quadrant(0) \cup Quadrant(1) = Indices
<1> DEFINE h == n \div 2
<1>1. h \in Nat /\ From(0) = 0 /\ From(1) = h
  BY DEF Sized, From
<1>2. CASE n = 1
  <2>1. h = 0
    BY <1>2
  <2>2. StepsLimit(0) = 0 /\ StepsLimit(1) = 0
    BY <1>1, <1>2, <2>1 DEF StepsLimit
  <2> QED
    BY <1>1, <1>2, <2>1, <2>2 DEF Quadrant, Sized
<1>3. CASE n # 1
  <2>1. h > 0 /\ (n % 2 = 0 \/ n % 2 = 1) /\ n = 2 * h + (n % 2)
    BY <1>3 DEF Sized
  <2>2. StepsLimit(0) = h
    BY <1>1, <2>1 DEF StepsLimit
  <2>3. StepsLimit(1) = n - h
    <3>1. CASE n % 2 = 0
      BY <1>1, <2>1, <3>1 DEF StepsLimit, Sized
    <3>2. CASE n % 2 = 1
      <4>1. (n + 1) \div 2 = h + 1
        BY <1>1, <2>1, <3>2 DEF Sized
      <4> QED
        BY <1>1, <2>1, <3>2, <4>1 DEF StepsLimit, Sized
    <3> QED
      BY <2>1, <3>1, <3>2
  <2> HIDE DEF h
  <2>4. Quadrant(0) = 0..h - 1 /\ Quadrant(1) = h..n - 1
    BY <1>1, <2>2, <2>3 DEF Quadrant, Sized
  <2> QED
    BY <1>1, <1>3, <2>1, <2>4 DEF Sized, Indices
<1> QED
  BY <1>2, <1>3

(* What each program gives thread num.                                     *)
LEMMA Multiplies ==
  ASSUME Sized, NEW num \in Numbers
  PROVE  /\ program = 1 => num \div n \in Indices /\ num % n \in Indices
                           /\ num = n * (num \div n) + (num % n)
                           /\ multiply(num) = {num \div n} \X Indices \X {num % n}
         /\ program = 2 => num \in Indices /\ multiply(num) = {num} \X Indices \X Indices
         /\ program = 3 => /\ num \in 0..3 /\ num % 2 \in {0, 1} /\ num \div 2 \in {0, 1}
                           /\ num = 2 * (num \div 2) + (num % 2)
                           /\ multiply(num) = Quadrant(num % 2) \X Quadrant(num \div 2) \X Indices
<1>1. ASSUME program = 1
      PROVE  num \div n \in Indices /\ num % n \in Indices /\ num = n * (num \div n) + (num % n)
  <2>1. n \in Nat \ {0} /\ num \in 0..n * n - 1
    BY <1>1 DEF Sized, Numbers, Threads
  <2> QED
    BY <2>1, DivMod DEF Indices
<1>2. ASSUME program = 2 PROVE num \in Indices
  BY <1>2 DEF Numbers, Threads, Indices
<1>3. ASSUME program = 3
      PROVE  /\ num \in 0..3 /\ num % 2 \in {0, 1} /\ num \div 2 \in {0, 1}
             /\ num = 2 * (num \div 2) + (num % 2)
  BY <1>3 DEF Numbers, Threads
<1>4. program = 1 => multiply(num) = {num \div n} \X Indices \X {num % n}
  BY DEF multiply
<1>5. program = 2 => multiply(num) = {num} \X Indices \X Indices
  BY DEF multiply
<1>6. program = 3 => multiply(num) = Quadrant(num % 2) \X Quadrant(num \div 2) \X Indices
  BY DEF multiply
<1> QED
  BY <1>1, <1>2, <1>3, <1>4, <1>5, <1>6, Zenon

(* A thread computes additions of the product only.                        *)
LEMMA AdditionsOnly == ASSUME Sized, NEW num \in Numbers PROVE multiply(num) \subseteq Additions
<1>1. CASE program = 1
  BY <1>1, Multiplies DEF Additions
<1>2. CASE program = 2
  BY <1>2, Multiplies DEF Additions
<1>3. CASE program = 3
  <2>1. Quadrant(num % 2) \subseteq Indices /\ Quadrant(num \div 2) \subseteq Indices
    BY <1>3, Multiplies, Halves
  <2>2. multiply(num) = Quadrant(num % 2) \X Quadrant(num \div 2) \X Indices
    BY <1>3, Multiplies
  <2> QED
    BY <2>1, <2>2 DEF Additions
<1> QED
  BY <1>1, <1>2, <1>3 DEF Sized

SameCell(a, b) == a[1] = b[1] /\ a[3] = b[3]

(* No addition is given to two threads; and only the quadrants of          *)
(* multithread3 share cells, so its lock is needed and the others need     *)
(* none.                                                                   *)
LEMMA NoneForTwo ==
  ASSUME Sized, NEW x \in Numbers, NEW y \in Numbers, x # y,
         NEW a \in multiply(x), NEW b \in multiply(y)
  PROVE  a # b /\ (SameCell(a, b) => program = 3)
<1>1. CASE program = 1
  <2>1. a \in {x \div n} \X Indices \X {x % n} /\ b \in {y \div n} \X Indices \X {y % n}
    BY <1>1, Multiplies
  <2>2. x = n * (x \div n) + (x % n) /\ y = n * (y \div n) + (y % n)
    BY <1>1, Multiplies
  <2>3. a[1] = x \div n /\ a[3] = x % n /\ b[1] = y \div n /\ b[3] = y % n
    BY <2>1
  <2>4. ~SameCell(a, b)
    BY <2>2, <2>3, Zenon DEF SameCell
  <2> QED
    BY <2>4, Zenon DEF SameCell
<1>2. CASE program = 2
  <2>1. a \in {x} \X Indices \X Indices /\ b \in {y} \X Indices \X Indices
    BY <1>2, Multiplies
  <2>2. a[1] = x /\ b[1] = y
    BY <2>1
  <2> QED
    BY <2>2 DEF SameCell
<1>3. CASE program = 3
  <2>1. /\ a \in Quadrant(x % 2) \X Quadrant(x \div 2) \X Indices
        /\ b \in Quadrant(y % 2) \X Quadrant(y \div 2) \X Indices
    BY <1>3, Multiplies
  <2>2. /\ x = 2 * (x \div 2) + (x % 2) /\ y = 2 * (y \div 2) + (y % 2)
        /\ x % 2 \in {0, 1} /\ x \div 2 \in {0, 1} /\ y % 2 \in {0, 1} /\ y \div 2 \in {0, 1}
    BY <1>3, Multiplies
  <2>3. /\ a[1] \in Quadrant(x % 2) /\ a[2] \in Quadrant(x \div 2)
        /\ b[1] \in Quadrant(y % 2) /\ b[2] \in Quadrant(y \div 2)
    BY <2>1
  <2>4. x % 2 # y % 2 \/ x \div 2 # y \div 2
    BY <2>2, Zenon
  <2>5. CASE x % 2 # y % 2
    <3>1. Quadrant(x % 2) \cap Quadrant(y % 2) = {}
      BY <2>2, <2>5, Halves
    <3> QED
      BY <1>3, <2>3, <3>1
  <2>6. CASE x \div 2 # y \div 2
    <3>1. Quadrant(x \div 2) \cap Quadrant(y \div 2) = {}
      BY <2>2, <2>6, Halves
    <3> QED
      BY <1>3, <2>3, <3>1
  <2> QED
    BY <2>4, <2>5, <2>6
<1> QED
  BY <1>1, <1>2, <1>3 DEF Sized

(* Every addition is given to a thread, but in multithread3 with n = 1.    *)
LEMMA EachForOne ==
  ASSUME Sized, NEW a \in Additions, ~(program = 3 /\ n = 1)
  PROVE  \E num \in Numbers : a \in multiply(num)
<1>0. a[1] \in Indices /\ a[2] \in Indices /\ a[3] \in Indices /\ a = <<a[1], a[2], a[3]>>
  BY DEF Additions
<1>1. CASE program = 1
  <2> DEFINE num == n * a[1] + a[3]
  <2>1. n \in Nat \ {0} /\ a[1] \in 0..n - 1 /\ a[3] \in 0..n - 1 /\ a[1] \in Nat
    BY <1>0 DEF Sized, Indices
  <2>2. num \in Numbers
    <3>1. num \in 0..n * n - 1
      BY <2>1, CellNumber
    <3> QED
      BY <1>1, <3>1 DEF Numbers, Threads
  <2>3. num \div n = a[1] /\ num % n = a[3]
    BY <2>1, DivBack
  <2> HIDE DEF num
  <2>4. multiply(num) = {a[1]} \X Indices \X {a[3]}
    BY <1>1, <2>2, <2>3, Multiplies
  <2>5. a \in multiply(num)
    BY <1>0, <2>4
  <2> QED
    BY <2>2, <2>5
<1>2. CASE program = 2
  <2>1. a[1] \in Numbers
    BY <1>0, <1>2 DEF Numbers, Threads, Indices
  <2>2. multiply(a[1]) = {a[1]} \X Indices \X Indices
    BY <1>2, <2>1, Multiplies
  <2>3. a \in multiply(a[1])
    BY <1>0, <2>2
  <2> QED
    BY <2>1, <2>3
<1>3. CASE program = 3
  <2>1. Quadrant(0) \cup Quadrant(1) = Indices
    BY <1>3, Halves
  <2>2. PICK p \in {0, 1} : a[1] \in Quadrant(p)
    BY <1>0, <2>1
  <2>3. PICK q \in {0, 1} : a[2] \in Quadrant(q)
    BY <1>0, <2>1
  <2> DEFINE num == 2 * q + p
  <2>4. num \in Numbers /\ num % 2 = p /\ num \div 2 = q
    <3>1. num \in 0..3
      OBVIOUS
    <3>2. num % 2 = p /\ num \div 2 = q
      <4>1. q \in Nat /\ p \in 0..2 - 1
        OBVIOUS
      <4> QED
        BY <4>1, DivBack
    <3> QED
      BY <1>3, <3>1, <3>2 DEF Numbers, Threads
  <2> HIDE DEF num
  <2>5. multiply(num) = Quadrant(p) \X Quadrant(q) \X Indices
    BY <1>3, <2>4, Multiplies
  <2>6. a \in multiply(num)
    BY <1>0, <2>2, <2>3, <2>5
  <2> QED
    BY <2>4, <2>6
<1> QED
  BY <1>1, <1>2, <1>3 DEF Sized

(* There no thread has anything to do.                                     *)
LEMMA NothingOfOne ==
  ASSUME Sized, program = 3, n = 1, NEW num \in Numbers
  PROVE  multiply(num) = {}
<1>1. multiply(num) = Quadrant(num % 2) \X Quadrant(num \div 2) \X Indices
  BY Multiplies
<1>2. Quadrant(num % 2) = {}
  BY Multiplies, Halves
<1> QED
  BY <1>1, <1>2

-----------------------------------------------------------------------------
(* The inductive invariant.  ProductComputed speaks of the end only, so    *)
(* the cells are followed all the way: each holds the sum of its terms     *)
(* that no thread has still to add.  That a thread writes back a sum read  *)
(* earlier does no harm as long as the cell is then as it was read.        *)
Left(t) == IF t \in DOMAIN todo THEN todo[t] ELSE multiply(t - 1)
Given == UNION {multiply(num) : num \in Numbers}
Done(i, j) == {k \in Indices : /\ <<i, k, j>> \in Given
                               /\ \A t \in 1..Threads : <<i, k, j>> \notin Left(t)}

TypeInv ==
  /\ program \in 1..3 /\ n \in Nat \ {0} /\ <<program, n>> \in Instances
  /\ main \in {"create", "join", "returned", "aborted"}
  /\ todo \in Seq(SUBSET Additions) /\ Len(todo) \in 0..Threads
  /\ read \in Seq(Nat \cup {NotRead}) /\ Len(read) = Len(todo)
  /\ C \in [Indices \X Indices -> Nat]
  /\ joined \in 0..Threads

Joining == /\ main = "create" => Len(todo) < Threads /\ joined = 0
           /\ main \in {"join", "returned"} => Len(todo) = Threads
           /\ main = "join" => joined < Threads
           /\ main = "returned" => joined = Threads
           /\ \A t \in 1..joined : t \in DOMAIN todo /\ todo[t] = {}

Dividing == \A t \in DOMAIN todo : todo[t] \subseteq multiply(t - 1)

Reading == \A t \in DOMAIN todo :
             read[t] # NotRead => /\ todo[t] # {} /\ read[t] = C[Cell(t)]
                                  /\ Locks => Lock = t

Adding == \A i, j \in Indices : C[<<i, j>>] = Sum(i, j, Done(i, j))

IInv == TypeInv /\ Joining /\ Dividing /\ Reading /\ Adding

(* The size and the program stay, and so does what depends on them.        *)
LEMMA SameSize ==
  ASSUME program' = program, n' = n
  PROVE  /\ Indices' = Indices /\ Threads' = Threads /\ Additions' = Additions
         /\ Numbers' = Numbers /\ Given' = Given
         /\ \A num \in Numbers : multiply(num)' = multiply(num)
<1>1. Indices' = Indices /\ Threads' = Threads
  BY DEF Indices, Threads
<1>2. Additions' = Additions /\ Numbers' = Numbers
  BY <1>1 DEF Additions, Numbers
<1>3. ASSUME NEW num \in Numbers PROVE multiply(num)' = multiply(num)
  BY <1>1 DEF multiply, Quadrant, From, StepsLimit
<1>4. Given' = Given
  BY <1>2, <1>3 DEF Given
<1> QED
  BY <1>1, <1>2, <1>3, <1>4

(* A thread whose part is unchanged has the same addition next.            *)
LEMMA SameNext ==
  ASSUME NEW t, program' = program, todo'[t] = todo[t]
  PROVE  First(t)' = First(t) /\ Cell(t)' = Cell(t)
<1>1. \A a, b : Before(a, b)' = Before(a, b)
  BY DEF Before
<1>2. First(t)' = First(t)
  BY <1>1 DEF First
<1> QED
  BY <1>2 DEF Cell

(* The cells depend on what is left and on nothing else of the threads.    *)
LEMMA SameLeft ==
  ASSUME Adding, program' = program, n' = n, C' = C,
         \A t \in 1..Threads : Left(t)' = Left(t)
  PROVE  Adding'
<1>1. Indices' = Indices /\ Threads' = Threads /\ Given' = Given
  BY SameSize
<1>2. ASSUME NEW i, NEW j PROVE Done(i, j)' = Done(i, j)
  BY <1>1 DEF Done
<1>3. ASSUME NEW i \in Indices, NEW j \in Indices PROVE (C[<<i, j>>])' = Sum(i, j, Done(i, j))'
  <2>1. Sum(i, j, Done(i, j))' = Sum(i, j, Done(i, j))
    BY <1>2
  <2> QED
    BY <2>1 DEF Adding
<1> QED
  BY <1>1, <1>3 DEF Adding

(* The terms of a cell are finitely many numbers.                          *)
LEMMA TermsAreNumbers ==
  ASSUME TypeInv, NEW i \in Indices, NEW j \in Indices, NEW S \in SUBSET Indices
  PROVE  Summable(i, j, S)
<1>1. IsFiniteSet(S)
  <2>1. IsFiniteSet(Indices)
    <3>1. n - 1 \in Int /\ 0 \in Int
      BY DEF TypeInv
    <3> QED
      BY <3>1, FS_Interval DEF Indices
  <2> QED
    BY <2>1, FS_Subset
<1>2. ASSUME NEW k \in S PROVE Summand(i, j, k) \in Nat
  <2>1. \A cell \in Indices \X Indices : A[cell] \in Nat /\ B[cell] \in Nat
    BY MatrixAssumption DEF TypeInv, Indices
  <2>2. A[<<i, k>>] \in Nat /\ B[<<k, j>>] \in Nat
    BY <2>1
  <2> QED
    BY <2>2 DEF Summand
<1> QED
  BY <1>1, <1>2 DEF Summable

(* main begins with everything given and nothing added.                    *)
LEMMA FromInit == ASSUME Init PROVE IInv
<1>1. PICK instance \in Instances : program = instance[1] /\ n = instance[2]
  BY DEF Init
<1>2. Sized /\ <<program, n>> \in Instances
  BY <1>1, MatrixAssumption DEF Sized
<1>3. Threads \in Nat \ {0}
  BY <1>2, ThreadsCount
<1>4. TypeInv
  BY <1>2, <1>3 DEF Init, TypeInv, Sized
<1>5. Joining /\ Dividing /\ Reading
  BY <1>3 DEF Init, Joining, Dividing, Reading
<1>6. ASSUME NEW i \in Indices, NEW j \in Indices PROVE C[<<i, j>>] = Sum(i, j, Done(i, j))
  <2>1. ASSUME NEW k \in Done(i, j) PROVE FALSE
    <3>1. PICK num \in Numbers : <<i, k, j>> \in multiply(num)
      BY DEF Done, Given
    <3>2. num + 1 \in 1..Threads /\ (num + 1) - 1 = num
      BY <1>3 DEF Numbers
    <3>3. Left(num + 1) = multiply(num)
      BY <3>2 DEF Left, Init
    <3> QED
      BY <3>1, <3>2, <3>3 DEF Done
  <2>2. Done(i, j) = {}
    BY <2>1
  <2>3. Sum(i, j, Done(i, j)) = 0
    BY <1>4, <2>2, TermsAreNumbers, Summing
  <2> QED
    BY <2>3 DEF Init
<1> QED
  BY <1>4, <1>5, <1>6 DEF IInv, Adding

(* A thread that is created has the part that was counted as left already. *)
LEMMA CreateSound == ASSUME IInv, Create PROVE IInv'
<1> USE DEF IInv
<1>1. Sized /\ Threads \in Nat \ {0}
  <2>1. Sized
    BY DEF TypeInv, Sized
  <2> QED
    BY <2>1, ThreadsCount
<1>2. /\ Indices' = Indices /\ Threads' = Threads /\ Additions' = Additions /\ Numbers' = Numbers
      /\ \A num \in Numbers : multiply(num)' = multiply(num)
  BY SameSize DEF Create
<1> DEFINE len == Len(todo)
<1>3. /\ len \in Numbers /\ len \in Nat /\ len < Threads
      /\ todo \in Seq(SUBSET Additions) /\ read \in Seq(Nat \cup {NotRead}) /\ Len(read) = len
  BY <1>1 DEF TypeInv, Joining, Create, Numbers
<1>4. multiply(len) \in SUBSET Additions
  BY <1>1, <1>3, AdditionsOnly
<1>5. /\ todo' \in Seq(SUBSET Additions) /\ Len(todo') = len + 1
      /\ \A u \in 1..len : todo'[u] = todo[u]
      /\ todo'[len + 1] = multiply(len)
  BY <1>3, <1>4 DEF Create
<1>6. /\ read' \in Seq(Nat \cup {NotRead}) /\ Len(read') = len + 1
      /\ \A u \in 1..len : read'[u] = read[u]
      /\ read'[len + 1] = NotRead
  BY <1>3 DEF Create
<1>7. DOMAIN todo = 1..len /\ DOMAIN todo' = 1..len + 1
  BY <1>3, <1>5
<1>8. TypeInv'
  BY <1>1, <1>2, <1>3, <1>5, <1>6 DEF TypeInv, Create
<1>9. Joining'
  BY <1>1, <1>2, <1>3, <1>5, <1>7 DEF Joining, Create
<1>10. ASSUME NEW u \in DOMAIN todo' PROVE todo'[u] \subseteq multiply(u - 1)'
  <2>1. u - 1 \in Numbers /\ (u = len + 1 \/ u \in 1..len)
    BY <1>1, <1>3, <1>7 DEF Numbers
  <2> QED
    BY <1>2, <1>3, <1>5, <1>7, <2>1 DEF Dividing
<1>11. ASSUME NEW u \in DOMAIN todo', read'[u] # NotRead
       PROVE  /\ todo'[u] # {} /\ read'[u] = C'[Cell(u)'] /\ (Locks' => Lock' = u)
  <2>1. u \in 1..len
    BY <1>3, <1>6, <1>7, <1>11
  <2>2. Cell(u)' = Cell(u) /\ todo'[u] = todo[u] /\ read'[u] = read[u]
    BY <1>5, <1>6, <2>1, SameNext DEF Create
  <2>3. todo[u] # {} /\ read[u] = C[Cell(u)] /\ (Locks => Lock = u)
    BY <1>7, <1>11, <2>1, <2>2 DEF Reading
  <2> QED
    BY <2>2, <2>3 DEF Create, Locks
<1>12. ASSUME NEW u \in 1..Threads PROVE Left(u)' = Left(u)
  <2>1. u - 1 \in Numbers /\ (u \in 1..len \/ u = len + 1 \/ (u > len + 1))
    BY <1>1, <1>3 DEF Numbers
  <2>2. CASE u \in 1..len
    BY <1>3, <1>5, <1>7, <2>2 DEF Left
  <2>3. CASE u = len + 1
    <3>1. u \notin DOMAIN todo /\ u \in DOMAIN todo' /\ u - 1 = len
      BY <1>3, <1>7, <2>3
    <3> QED
      BY <1>5, <2>3, <3>1 DEF Left
  <2>4. CASE u > len + 1
    <3>1. u \notin DOMAIN todo /\ u \notin DOMAIN todo'
      BY <1>3, <1>7, <2>4
    <3> QED
      BY <1>2, <2>1, <3>1 DEF Left
  <2> QED
    BY <2>1, <2>2, <2>3, <2>4
<1>13. Adding'
  BY <1>12, SameLeft DEF Create
<1>14. Dividing'
  BY <1>10 DEF Dividing
<1>15. Reading'
  <2>1. ASSUME NEW u \in DOMAIN todo'
        PROVE  (read[u] # NotRead => todo[u] # {} /\ read[u] = C[Cell(u)] /\ (Locks => Lock = u))'
    BY <1>11
  <2> QED
    BY <2>1 DEF Reading
<1> QED
  BY <1>8, <1>9, <1>13, <1>14, <1>15

(* What the steps that add nothing keep.                                   *)
LEMMA Quiet ==
  ASSUME IInv, UNCHANGED <<program, n, C, todo>>
  PROVE  /\ Adding' /\ Dividing'
         /\ Indices' = Indices /\ Threads' = Threads /\ Additions' = Additions
         /\ \A t : Cell(t)' = Cell(t)
         /\ Sized /\ Threads \in Nat \ {0}
<1>1. Sized /\ Threads \in Nat \ {0}
  <2>1. Sized
    BY DEF IInv, TypeInv, Sized
  <2> QED
    BY <2>1, ThreadsCount
<1>2. /\ Indices' = Indices /\ Threads' = Threads /\ Additions' = Additions
      /\ \A num \in Numbers : multiply(num)' = multiply(num)
  BY SameSize
<1>3. DOMAIN todo \subseteq 1..Threads
  BY <1>1 DEF IInv, TypeInv
<1>4. \A t \in 1..Threads : t - 1 \in Numbers
  BY <1>1 DEF Numbers
<1>5. Dividing'
  BY <1>2, <1>3, <1>4 DEF IInv, Dividing
<1>6. ASSUME NEW t \in 1..Threads PROVE Left(t)' = Left(t)
  BY <1>2, <1>4 DEF Left
<1>7. Adding'
  BY <1>6, SameLeft DEF IInv
<1>8. \A t : Cell(t)' = Cell(t)
  BY SameNext
<1> QED
  BY <1>1, <1>2, <1>5, <1>7, <1>8

(* main joins a thread only after its last addition, or gives up.          *)
LEMMA MainSound == ASSUME IInv, CreateFails \/ Join \/ UNCHANGED vars PROVE IInv'
<1>1. UNCHANGED <<program, n, C, Lock, todo, read>>
  BY DEF CreateFails, Join, vars
<1>2. /\ Adding' /\ Dividing'
      /\ Indices' = Indices /\ Threads' = Threads /\ Additions' = Additions
      /\ \A t : Cell(t)' = Cell(t)
      /\ Threads \in Nat \ {0}
  BY <1>1, Quiet
<1>3. Locks' = Locks
  BY <1>1 DEF Locks
<1>4. Reading'
  BY <1>1, <1>2, <1>3 DEF IInv, Reading
<1>5. TypeInv' /\ Joining'
  <2>1. CASE CreateFails
    <3>1. TypeInv'
      BY <1>1, <1>2, <2>1 DEF CreateFails, IInv, TypeInv
    <3>2. Joining'
      BY <1>1, <1>2, <2>1 DEF CreateFails, IInv, TypeInv, Joining
    <3> QED
      BY <3>1, <3>2
  <2>2. CASE Join
    <3>1. joined \in 0..Threads /\ joined < Threads /\ Len(todo) = Threads
      BY <2>2 DEF Join, IInv, TypeInv, Joining
    <3>2. joined + 1 \in 0..Threads /\ joined + 1 \in DOMAIN todo
      BY <1>2, <3>1 DEF IInv, TypeInv
    <3>3. joined' = joined + 1
      BY <2>2 DEF Join
    <3>4. TypeInv'
      BY <1>1, <1>2, <2>2, <3>2, <3>3 DEF Join, IInv, TypeInv
    <3>5. ASSUME NEW t \in 1..joined' PROVE t \in DOMAIN todo' /\ todo'[t] = {}
      <4>1. t \in 1..joined \/ t = joined + 1
        BY <3>1, <3>3
      <4> QED
        BY <1>1, <2>2, <3>2, <4>1 DEF Join, IInv, Joining
    <3>6. Joining'
      BY <1>1, <1>2, <2>2, <3>1, <3>2, <3>3, <3>5 DEF Join, Joining
    <3> QED
      BY <3>4, <3>6
  <2>3. CASE UNCHANGED vars
    BY <1>2, <2>3 DEF vars, IInv, TypeInv, Joining
  <2> QED
    BY <2>1, <2>2, <2>3
<1> QED
  BY <1>2, <1>4, <1>5 DEF IInv

(* A thread that gets the lock finds no other between read and write.      *)
LEMMA AcquireSound == ASSUME IInv, NEW t \in DOMAIN todo, Acquire(t) PROVE IInv'
<1>1. /\ UNCHANGED <<program, n, C, todo, read, joined, main>>
      /\ Locks /\ Lock = NoThread
  BY DEF Acquire
<1>2. /\ Adding' /\ Dividing'
      /\ Indices' = Indices /\ Threads' = Threads /\ Additions' = Additions
      /\ \A u : Cell(u)' = Cell(u)
      /\ Threads \in Nat \ {0}
  BY <1>1, Quiet
<1>3. TypeInv'
  BY <1>1, <1>2 DEF IInv, TypeInv
<1>4. Joining'
  BY <1>1, <1>2 DEF IInv, Joining
<1>5. ASSUME NEW u \in DOMAIN todo PROVE read[u] = NotRead
  <2>1. u # NoThread
    BY DEF IInv, TypeInv, NoThread
  <2> QED
    BY <1>1, <2>1 DEF IInv, Reading
<1>6. Reading'
  BY <1>1, <1>5 DEF Reading
<1> QED
  BY <1>2, <1>3, <1>4, <1>6 DEF IInv

(* What a thread has to do next lies in its own part and in the matrices.  *)
LEMMA NextAddition ==
  ASSUME IInv, NEW t \in DOMAIN todo, todo[t] # {}
  PROVE  /\ First(t) \in todo[t] /\ First(t) \in Additions
         /\ t \in 1..Threads /\ t - 1 \in Numbers /\ First(t) \in multiply(t - 1)
         /\ Cell(t) \in Indices \X Indices
<1>1. todo[t] \in SUBSET Additions
  BY DEF IInv, TypeInv
<1>2. Additions \subseteq Triples
  BY DEF IInv, TypeInv, Additions, Indices, Triples
<1>3. First(t) \in todo[t]
  BY <1>1, <1>2, FirstIsLeft
<1>4. t \in 1..Threads /\ t - 1 \in Numbers
  <2>1. Sized
    BY DEF IInv, TypeInv, Sized
  <2>2. Threads \in Nat
    BY <2>1, ThreadsCount
  <2>3. Len(todo) \in 0..Threads /\ t \in 1..Len(todo)
    BY DEF IInv, TypeInv
  <2> QED
    BY <2>2, <2>3 DEF Numbers
<1>5. First(t) \in multiply(t - 1)
  BY <1>3 DEF IInv, Dividing
<1>6. Cell(t) \in Indices \X Indices
  BY <1>1, <1>3 DEF Cell, Additions
<1> QED
  BY <1>1, <1>3, <1>4, <1>5, <1>6

(* A thread reads its cell, with the lock where there is one.              *)
LEMMA ReadCellSound == ASSUME IInv, NEW t \in DOMAIN todo, ReadCell(t) PROVE IInv'
<1>1. /\ UNCHANGED <<program, n, C, Lock, todo, joined, main>>
      /\ read' = [read EXCEPT ![t] = C[Cell(t)]]
      /\ todo[t] # {} /\ (Locks => Lock = t)
  BY DEF ReadCell, ReadWhen, Running
<1>2. /\ Adding' /\ Dividing'
      /\ Indices' = Indices /\ Threads' = Threads /\ Additions' = Additions
      /\ \A u : Cell(u)' = Cell(u)
      /\ Threads \in Nat \ {0}
  BY <1>1, Quiet
<1>3. C[Cell(t)] \in Nat
  BY <1>1, NextAddition DEF IInv, TypeInv
<1>4. DOMAIN read = DOMAIN todo /\ read \in Seq(Nat \cup {NotRead}) /\ Len(read) = Len(todo)
  BY DEF IInv, TypeInv
<1>5. /\ read' \in Seq(Nat \cup {NotRead}) /\ Len(read') = Len(todo)
      /\ \A u \in DOMAIN todo : read'[u] = IF u = t THEN C[Cell(t)] ELSE read[u]
  BY <1>1, <1>3, <1>4
<1>6. TypeInv'
  BY <1>1, <1>2, <1>5 DEF IInv, TypeInv
<1>7. Joining'
  BY <1>1, <1>2 DEF IInv, Joining
<1>8. Locks' = Locks
  BY <1>1 DEF Locks
<1>9. Reading'
  BY <1>1, <1>2, <1>5, <1>8 DEF IInv, Reading
<1> QED
  BY <1>2, <1>6, <1>7, <1>9 DEF IInv

(* The write: no other thread is between reading and writing this cell, so *)
(* it grows by the one term that leaves todo.                              *)
LEMMA WriteCellSound == ASSUME IInv, NEW t \in DOMAIN todo, WriteCell(t) PROVE IInv'
<1> DEFINE f == First(t)
           c == Cell(t)
<1>1. /\ UNCHANGED <<program, n, joined, main>>
      /\ C' = [C EXCEPT ![c] = read[t] + Term(t)]
      /\ read' = [read EXCEPT ![t] = NotRead]
      /\ todo' = [todo EXCEPT ![t] = @ \ {f}]
      /\ todo[t] # {} /\ read[t] # NotRead
  BY DEF WriteCell, Adds, Running
<1>2. /\ f \in todo[t] /\ f \in Additions /\ t \in 1..Threads /\ t - 1 \in Numbers
      /\ f \in multiply(t - 1) /\ c \in Indices \X Indices
  BY <1>1, NextAddition
<1>3. read[t] = C[c] /\ (Locks => Lock = t)
  BY <1>1 DEF IInv, Reading
<1> DEFINE i == f[1]
           k == f[2]
           j == f[3]
<1>4. i \in Indices /\ k \in Indices /\ j \in Indices /\ f = <<i, k, j>> /\ c = <<i, j>>
  BY <1>2 DEF Additions, Cell
<1>5. Term(t) = Summand(i, j, k)
  BY <1>4 DEF Term, Summand
<1>6. Sized /\ Threads \in Nat \ {0}
  <2>1. Sized
    BY DEF IInv, TypeInv, Sized
  <2> QED
    BY <2>1, ThreadsCount
<1>7. /\ Indices' = Indices /\ Threads' = Threads /\ Additions' = Additions /\ Given' = Given
      /\ \A num \in Numbers : multiply(num)' = multiply(num)
  BY <1>1, SameSize
<1> HIDE DEF f, c, i, k, j
<1>8. /\ todo \in Seq(SUBSET Additions) /\ DOMAIN todo \subseteq 1..Threads
      /\ DOMAIN read = DOMAIN todo /\ read \in Seq(Nat \cup {NotRead}) /\ Len(read) = Len(todo)
  BY <1>6 DEF IInv, TypeInv
<1>9. /\ todo' \in Seq(SUBSET Additions) /\ Len(todo') = Len(todo) /\ DOMAIN todo' = DOMAIN todo
      /\ \A u \in DOMAIN todo : todo'[u] = IF u = t THEN todo[t] \ {f} ELSE todo[u]
  <2>1. todo[t] \ {f} \in SUBSET Additions
    BY <1>8
  <2> QED
    BY <1>1, <1>8, <2>1
<1>10. /\ read' \in Seq(Nat \cup {NotRead}) /\ Len(read') = Len(todo)
       /\ \A u \in DOMAIN todo : read'[u] = IF u = t THEN NotRead ELSE read[u]
  BY <1>1, <1>8
<1>11. C[c] \in Nat /\ Summand(i, j, k) \in Nat
  <2>1. C[c] \in Nat
    BY <1>2 DEF IInv, TypeInv
  <2>2. Summable(i, j, {k})
    BY <1>4, TermsAreNumbers DEF IInv
  <2> QED
    BY <2>1, <2>2 DEF Summable
<1>12. /\ C' \in [Indices \X Indices -> Nat]
       /\ \A d \in Indices \X Indices : C'[d] = IF d = c THEN C[c] + Summand(i, j, k) ELSE C[d]
  BY <1>1, <1>2, <1>3, <1>5, <1>11 DEF IInv, TypeInv
<1>13. TypeInv'
  BY <1>1, <1>7, <1>9, <1>10, <1>12 DEF IInv, TypeInv
<1>14. Joining'
  <2>1. ASSUME NEW u \in 1..joined PROVE u \in DOMAIN todo' /\ todo'[u] = {}
    BY <1>1, <1>9 DEF IInv, Joining
  <2> QED
    BY <1>1, <1>7, <1>9, <2>1 DEF IInv, Joining
<1>15. Dividing'
  <2>1. ASSUME NEW u \in DOMAIN todo PROVE todo'[u] \subseteq multiply(u - 1)'
    <3>1. u - 1 \in Numbers
      BY <1>6, <1>8 DEF Numbers
    <3>2. todo[u] \subseteq multiply(u - 1)
      BY DEF IInv, Dividing
    <3> QED
      BY <1>7, <1>9, <3>1, <3>2
  <2> QED
    BY <1>9, <2>1 DEF Dividing
<1>16. Locks' = Locks
  BY <1>1 DEF Locks
<1>17. Reading'
  <2>1. ASSUME NEW u \in DOMAIN todo, read'[u] # NotRead
        PROVE  /\ todo'[u] # {} /\ read'[u] = C'[Cell(u)'] /\ (Locks' => Lock' = u)
    <3>1. u # t /\ todo'[u] = todo[u] /\ read'[u] = read[u]
      BY <1>9, <1>10, <2>1
    <3>2. Cell(u)' = Cell(u)
      BY <1>1, <3>1, SameNext
    <3>3. todo[u] # {} /\ read[u] = C[Cell(u)] /\ (Locks => Lock = u)
      BY <2>1, <3>1 DEF IInv, Reading
    <3>4. ~Locks
      BY <1>3, <3>1, <3>3
    <3>5. First(u) \in multiply(u - 1) /\ u - 1 \in Numbers /\ Cell(u) \in Indices \X Indices
      BY <3>3, NextAddition
    <3>6. u - 1 # t - 1
      BY <1>8, <3>1
    <3>7. ~SameCell(First(u), f)
      BY <1>2, <1>6, <3>4, <3>5, <3>6, NoneForTwo DEF Locks
    <3>8. Cell(u) # c
      BY <3>7 DEF SameCell, Cell, f, c
    <3>9. C'[Cell(u)] = C[Cell(u)]
      BY <1>12, <3>5, <3>8
    <3> QED
      BY <1>16, <3>1, <3>2, <3>3, <3>4, <3>9
  <2>2. ASSUME NEW u \in DOMAIN todo'
        PROVE  (read[u] # NotRead => todo[u] # {} /\ read[u] = C[Cell(u)] /\ (Locks => Lock = u))'
    BY <1>9, <2>1
  <2> QED
    BY <2>2 DEF Reading
<1>18. ASSUME NEW u \in 1..Threads PROVE Left(u)' = IF u = t THEN Left(t) \ {f} ELSE Left(u)
  <2>1. u - 1 \in Numbers
    BY <1>6 DEF Numbers
  <2> QED
    BY <1>7, <1>9, <2>1 DEF Left
<1>19. f \in Left(t) /\ \A u \in 1..Threads : u # t => f \notin Left(u)
  <2>1. f \in Left(t)
    BY <1>2 DEF Left
  <2>2. ASSUME NEW u \in 1..Threads, u # t PROVE f \notin Left(u)
    <3>1. u - 1 \in Numbers /\ u - 1 # t - 1
      BY <1>2, <1>6, <2>2 DEF Numbers
    <3>2. Left(u) \subseteq multiply(u - 1)
      BY DEF IInv, Dividing, Left
    <3>3. f \notin multiply(u - 1)
      BY <1>2, <1>6, <3>1, NoneForTwo
    <3> QED
      BY <3>2, <3>3
  <2> QED
    BY <2>1, <2>2
<1>20. f \in Given
  BY <1>2 DEF Given
<1>21. ASSUME NEW a \in Indices, NEW b \in Indices
       PROVE  (C[<<a, b>>])' = Sum(a, b, Done(a, b)')
  <2>1. \A e \in Indices : e \in Done(a, b)' <=> e \in Done(a, b) \/ <<a, e, b>> = f
    <3>1. ASSUME NEW e \in Indices
          PROVE  (\A u \in 1..Threads : <<a, e, b>> \notin Left(u)') <=>
                   (\A u \in 1..Threads : <<a, e, b>> \notin Left(u)) \/ <<a, e, b>> = f
      BY <1>2, <1>18, <1>19
    <3> QED
      BY <1>7, <1>20, <3>1 DEF Done
  <2>2. Done(a, b) \in SUBSET Indices /\ Done(a, b)' \in SUBSET Indices
    BY <1>7 DEF Done
  <2>3. C[<<a, b>>] = Sum(a, b, Done(a, b))
    BY DEF IInv, Adding
  <2>4. CASE <<a, b>> # c
    <3>1. Done(a, b)' = Done(a, b)
      BY <1>4, <2>1, <2>2, <2>4
    <3>2. C'[<<a, b>>] = C[<<a, b>>]
      BY <1>12, <2>4
    <3> QED
      BY <2>3, <3>1, <3>2
  <2>5. CASE <<a, b>> = c
    <3>1. a = i /\ b = j
      BY <1>4, <2>5
    <3>2. k \in Done(a, b)' /\ k \notin Done(a, b)
      <4>1. <<a, k, b>> = f
        BY <1>4, <3>1
      <4>2. k \notin Done(a, b)
        BY <1>2, <1>19, <4>1 DEF Done
      <4> QED
        BY <1>4, <2>1, <4>1, <4>2
    <3>3. Done(a, b)' \ {k} = Done(a, b)
      BY <1>4, <2>1, <2>2, <3>1, <3>2
    <3> DEFINE S == Done(a, b)'
    <3>4. Summable(a, b, S)
      BY <2>2, TermsAreNumbers DEF IInv
    <3> HIDE DEF S
    <3>5. Sum(a, b, S) = Summand(a, b, k) + Sum(a, b, S \ {k})
      BY <3>2, <3>4, Summing DEF S
    <3>6. S \ {k} = Done(a, b)
      BY <3>3 DEF S
    <3>7. C'[<<a, b>>] = C[c] + Summand(a, b, k)
      BY <1>2, <1>12, <2>5, <3>1
    <3>8. C[c] = Sum(a, b, S \ {k}) /\ C[c] \in Nat /\ Summand(a, b, k) \in Nat
      BY <1>11, <2>3, <2>5, <3>1, <3>6
    <3>9. C'[<<a, b>>] = Sum(a, b, S)
      BY <3>5, <3>7, <3>8
    <3> QED
      BY <3>9 DEF S
  <2> QED
    BY <2>4, <2>5
<1>22. Adding'
  <2>1. ASSUME NEW a \in Indices', NEW b \in Indices' PROVE (C[<<a, b>>] = Sum(a, b, Done(a, b)))'
    BY <1>7, <1>21
  <2> QED
    BY <2>1 DEF Adding
<1> QED
  BY <1>13, <1>14, <1>15, <1>17, <1>22 DEF IInv

(* So the invariant holds in every state.                                  *)
LEMMA Inductive == Spec => []IInv
<1>1. Init => IInv
  BY FromInit
<1>2. IInv /\ [Next]_vars => IInv'
  <2>1. ASSUME IInv, Create PROVE IInv'
    BY <2>1, CreateSound
  <2>2. ASSUME IInv, CreateFails \/ Join \/ Returned \/ UNCHANGED vars PROVE IInv'
    BY <2>2, MainSound DEF Returned
  <2>3. ASSUME IInv, NEW t \in DOMAIN todo, thread(t) PROVE IInv'
    BY <2>3, AcquireSound, ReadCellSound, WriteCellSound DEF thread
  <2> QED
    BY <2>1, <2>2, <2>3 DEF Next
<1> QED
  BY <1>1, <1>2, PTL DEF Spec

(* With every part empty, all that was given has been added.               *)
LEMMA AllAdded == ASSUME IInv PROVE ProductComputed
<1> SUFFICES ASSUME main = "returned"
             PROVE  C = [cell \in Indices \X Indices |->
                           IF program = 3 /\ n = 1 THEN 0 ELSE Product(cell[1], cell[2])]
  BY DEF ProductComputed
<1>1. Sized /\ Threads \in Nat \ {0}
  <2>1. Sized
    BY DEF IInv, TypeInv, Sized
  <2> QED
    BY <2>1, ThreadsCount
<1>2. \A t \in 1..Threads : Left(t) = {}
  BY DEF IInv, Joining, Left
<1>3. ASSUME NEW i \in Indices, NEW j \in Indices
      PROVE  C[<<i, j>>] = IF program = 3 /\ n = 1 THEN 0 ELSE Product(i, j)
  <2>1. C[<<i, j>>] = Sum(i, j, Done(i, j))
    BY DEF IInv, Adding
  <2>2. CASE program = 3 /\ n = 1
    <3>1. Given = {}
      BY <1>1, <2>2, NothingOfOne DEF Given
    <3>2. Done(i, j) = {}
      BY <3>1 DEF Done
    <3>3. Summable(i, j, {})
      BY TermsAreNumbers DEF IInv
    <3> QED
      BY <2>1, <2>2, <3>2, <3>3, Summing
  <2>3. CASE ~(program = 3 /\ n = 1)
    <3>1. ASSUME NEW k \in Indices PROVE <<i, k, j>> \in Given
      <4>1. <<i, k, j>> \in Additions
        BY DEF Additions
      <4> QED
        BY <1>1, <2>3, <4>1, EachForOne DEF Given
    <3>2. Done(i, j) = Indices
      BY <1>2, <3>1 DEF Done
    <3>3. Product(i, j) = Sum(i, j, Indices)
      BY DEF Product, Sum
    <3> QED
      BY <2>1, <2>3, <3>2, <3>3
  <2> QED
    BY <2>2, <2>3
<1>4. C \in [Indices \X Indices -> Nat]
  BY DEF IInv, TypeInv
<1>5. ASSUME NEW cell \in Indices \X Indices
      PROVE  C[cell] = IF program = 3 /\ n = 1 THEN 0 ELSE Product(cell[1], cell[2])
  <2>1. cell[1] \in Indices /\ cell[2] \in Indices /\ cell = <<cell[1], cell[2]>>
    OBVIOUS
  <2> QED
    BY <1>3, <2>1
<1> QED
  BY <1>4, <1>5

(* For all sizes, matrices of numbers and limits on the threads, in each   *)
(* of the three programs and however its threads interleave: when main     *)
(* returns, C is what the sequential program computes, but for             *)
(* multithread3 with n = 1.                                                *)
THEOREM ProductAlwaysComputed == Spec => []ProductComputed
<1>1. IInv => ProductComputed
  BY AllAdded
<1> QED
  BY <1>1, Inductive, PTL
=============================================================================
