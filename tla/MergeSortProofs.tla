--------------------------- MODULE MergeSortProofs ---------------------------
(***************************************************************************)
(* Of MergeSort, for every file, every number of threads and so every      *)
(* depth of the tree: the handles that are joined are the right ones, no   *)
(* two threads work on one element, the program aborts exactly when the    *)
(* file is too small for the tree, and what it ends with is the file,      *)
(* sorted.                                                                 *)
(***************************************************************************)
EXTENDS MergeSort, FiniteSetTheorems, SequenceTheorems, WellFoundedInduction, TLAPS

-----------------------------------------------------------------------------
(* A set of naturals has a least element, by the library's theorem that    *)
(* the order is well founded: what the proofs by induction rest on here.   *)
LessThan == {p \in Nat \X Nat : p[1] < p[2]}

(* Every nonempty set of naturals has a least element.                     *)
LEMMA LeastNatural == ASSUME NEW T \in SUBSET Nat, T # {}
                      PROVE  \E x \in T : \A y \in T : x <= y
<1>1. OpToRel(<, Nat) = LessThan
  BY Zenon DEF OpToRel, LessThan
<1>2. IsWellFoundedOn(LessThan, Nat)
  BY <1>1, NatLessThanWellFounded, Zenon
<1>3. \E x \in T : \A y \in T : ~(<<y, x>> \in LessThan)
  BY <1>2, WFMin
<1>4. ASSUME NEW x \in T, NEW y \in T, <<y, x>> \notin LessThan PROVE x <= y
  BY <1>4 DEF LessThan
<1> QED
  BY <1>3, <1>4

(* Powers of two count the subsets of an interval, which is all that the   *)
(* library says about them.                                                *)
Pow(m) == 2^m

(* 2^m is the number of subsets of 1..m.                                   *)
LEMMA PowCounts == ASSUME NEW m \in Nat
                   PROVE  /\ IsFiniteSet(SUBSET (1..m))
                          /\ Pow(m) = Cardinality(SUBSET (1..m)) /\ Pow(m) \in Nat
<1>1. IsFiniteSet(1..m) /\ Cardinality(1..m) = m
  BY FS_Interval
<1>2. IsFiniteSet(SUBSET (1..m)) /\ Cardinality(SUBSET(1..m)) = 2^Cardinality(1..m)
  BY <1>1, FS_SUBSET
<1> QED
  BY <1>1, <1>2, FS_CardinalityType DEF Pow

(* So it doubles: the subsets of 1..m+1 are those without m+1 and as many  *)
(* with it.                                                                *)
LEMMA PowNext == Pow(0) = 1 /\ \A m \in Nat : Pow(m) \in Nat /\ Pow(m + 1) = 2 * Pow(m)
<1>1. Pow(0) = 1
  <2>1. 2^0 = 1
    OBVIOUS
  <2> QED
    BY <2>1, Zenon DEF Pow
<1>2. ASSUME NEW m \in Nat PROVE Pow(m) \in Nat /\ Pow(m + 1) = 2 * Pow(m)
  <2> DEFINE S == SUBSET (1..m)
             With == {A \union {m+1} : A \in S}
             f == [A \in S |-> A \union {m+1}]
  <2>1. IsFiniteSet(S) /\ Cardinality(S) = Pow(m) /\ Pow(m) \in Nat
    BY PowCounts
  <2>2. f \in Bijection(S, With)
    <3>1. f \in Surjection(S, With)
      BY DEF Surjection
    <3>2. f \in Injection(S, With)
      <4>1. ASSUME NEW A \in S, NEW B \in S, A \union {m+1} = B \union {m+1} PROVE A = B
        <5>1. m+1 \notin A /\ m+1 \notin B
          OBVIOUS
        <5> QED
          BY <4>1, <5>1
      <4>2. f \in [S -> With]
        OBVIOUS
      <4> QED
        BY <4>1, <4>2 DEF Injection, IsInjective
    <3> QED
      BY <3>1, <3>2 DEF Bijection
  <2>3. IsFiniteSet(With) /\ Cardinality(With) = Cardinality(S)
    <3>1. ExistsBijection(S, With)
      BY <2>2 DEF ExistsBijection
    <3> HIDE DEF S, With
    <3> QED
      BY <2>1, <3>1, FS_Bijection
  <2>4. S \cap With = {}
    <3>1. \A A \in S : m+1 \notin A
      OBVIOUS
    <3> QED
      BY <3>1
  <2>5. S \union With = SUBSET (1..m+1)
    <3>1. ASSUME NEW A \in SUBSET (1..m+1) PROVE A \in S \union With
      <4>1. A \ {m+1} \in S
        OBVIOUS
      <4>2. CASE m+1 \in A
        <5>1. A = (A \ {m+1}) \union {m+1}
          BY <4>2
        <5> QED
          BY <4>1, <5>1
      <4>3. CASE m+1 \notin A
        BY <4>1, <4>3
      <4> QED
        BY <4>2, <4>3
    <3>2. ASSUME NEW A \in S \union With PROVE A \in SUBSET (1..m+1)
      OBVIOUS
    <3> HIDE DEF S, With
    <3> QED
      BY <3>1, <3>2
  <2>6. IsFiniteSet({}) /\ Cardinality({}) = 0
    BY FS_EmptySet
  <2>7. Cardinality(S \union With) = Cardinality(S) + Cardinality(With) - Cardinality(S \cap With)
    BY <2>1, <2>3, FS_Union
  <2>8. Cardinality(SUBSET (1..m+1)) = Pow(m+1)
    BY PowCounts, m + 1 \in Nat
  <2> HIDE DEF S, With
  <2>9. Cardinality(S \union With) = 2 * Cardinality(S)
    <3>1. Cardinality(S) \in Nat /\ Cardinality(S \cap With) = 0
      BY <2>1, <2>4, <2>6, FS_CardinalityType
    <3> QED
      BY <2>3, <2>7, <3>1
  <2> QED
    BY <2>1, <2>5, <2>8, <2>9, Zenon
<1> QED
  BY <1>1, <1>2

(* By the least exponent at which it would fail, 2^m is positive and grows *)
(* with m.                                                                 *)
LEMMA PowGrows == \A a, b \in Nat : Pow(a) > 0 /\ (a <= b => Pow(a) <= Pow(b))
<1>1. ASSUME NEW a \in Nat, NEW b \in Nat, a <= b PROVE Pow(a) <= Pow(b)
  <2> DEFINE T == {x \in Nat : x >= a /\ ~(Pow(a) <= Pow(x))}
  <2>1. ASSUME T # {} PROVE FALSE
    <3>1. PICK x \in T : \A y \in T : x <= y
      BY <2>1, LeastNatural
    <3>2. x # a
      BY PowNext
    <3>3. x - 1 \in Nat /\ x = (x - 1) + 1 /\ x - 1 >= a
      BY <3>2
    <3>4. Pow(x) = 2 * Pow(x - 1) /\ Pow(x - 1) \in Nat /\ Pow(a) \in Nat
      BY <3>3, PowNext
    <3>5. x - 1 \in T
      BY <3>3, <3>4
    <3> QED
      BY <3>1, <3>5, <3>3
  <2> QED
    BY <1>1, <2>1
<1>2. ASSUME NEW a \in Nat PROVE Pow(a) > 0
  BY <1>1, PowNext, 0 <= a
<1> QED
  BY <1>1, <1>2

(* What heightOfFunc chooses exists, for every number of threads.          *)
LEMMA Log == ASSUME NEW u \in Nat \ {0} PROVE \E k \in 0..u : Pow(k) <= u /\ u < Pow(k+1)
<1> DEFINE P(x) == \E k \in 0..x : Pow(k) <= x /\ x < Pow(k + 1)
           T == {x \in Nat \ {0} : ~P(x)}
<1>1. ASSUME T # {} PROVE FALSE
  <2>1. PICK x \in T : \A y \in T : x <= y
    BY <1>1, LeastNatural
  <2>2. x # 1
    BY PowNext, Pow(0 + 1) = 2 * Pow(0), 0 \in 0..1
  <2>3. x - 1 \in Nat \ {0} /\ x - 1 \notin T
    BY <2>1, <2>2
  <2>4. PICK k \in 0..x-1 : Pow(k) <= x-1 /\ x-1 < Pow(k + 1)
    BY <2>3
  <2>5. /\ k \in Nat /\ k + 1 \in 0..x
        /\ Pow(k) \in Nat /\ Pow(k + 1) = 2 * Pow(k) /\ Pow(k + 1 + 1) = 2 * Pow(k + 1)
        /\ Pow(k) > 0
    BY PowNext, PowGrows
  <2>6. CASE x < Pow(k + 1)
    BY <2>4, <2>5, <2>6
  <2>7. CASE x = Pow(k + 1)
    <3>1. Pow(k+1) <= x /\ x < Pow(k+1+1)
      BY <2>5, <2>7
    <3> QED
      BY <2>5, <3>1
  <2> QED
    BY <2>4, <2>5, <2>6, <2>7
<1> QED
  BY <1>1

-----------------------------------------------------------------------------
(* The tree of threads. *)
Tree == Nodes \union {1}

Splits(k) == args[k].height < h
(* The points only a thread that splits passes.                            *)
Splitting == {"count", "counted", "create1", "create2", "join1", "join2", "merge", "write"}

(* The threads that have taken their two numbers; that have created one    *)
(* thread; both; and that have joined one; both.                           *)
Past(k, points) == pc[k] \in points \/ (pc[k] = "done" /\ Splits(k))
Counted == {k \in Tree : Past(k, {"create1", "create2", "join1", "join2", "merge", "write"})}
HasLeft(k) == Past(k, {"create2", "join1", "join2", "merge", "write"})
HasRight(k) == Past(k, {"join1", "join2", "merge", "write"})
JoinedLeft(k) == Past(k, {"join2", "merge", "write"})
JoinedRight(k) == Past(k, {"merge", "write"})

(* What the state is made of but arr and its copies, for which see Content *)
(* below.                                                                  *)
Types ==
  /\ h \in Int /\ h >= -1 /\ t = Pow(h + 1) - 1
  /\ input \in Seq(Bytes)
  /\ pc \in [Tree -> Points]
  /\ args \in [Tree -> [threadID : Nat, height : Nat, begin : Int, end : Int]]
  /\ tempThreadCount \in [Tree -> Nat]
  /\ DOMAIN th = 0 .. t - 1
  /\ threadCount \in Nat

(* A thread at height x of the tree is one of the 2^x that have their      *)
(* place there; those that split are above the last height.                *)
Places ==
  /\ pc[1] # "none" /\ args[1] = [threadID |-> 0, height |-> 0, begin |-> 0, end |-> n - 1]
  /\ \A k \in Started : /\ Pow(args[k].height) <= k /\ k < Pow(args[k].height + 1)
                        /\ k # 1 => args[k].height <= h
  /\ \A k \in Tree : /\ pc[k] \in Splitting => Splits(k)
                     /\ pc[k] = "sort" => ~Splits(k)

(* A child exists exactly when its parent is past its creation; the        *)
(* arguments it was given and the slot its handle is in are its parent's;  *)
(* and once joined it is done.                                             *)
Parent(k) ==
  /\ 2 * k \in Tree => (pc[2 * k] # "none" <=> HasLeft(k))
  /\ 2 * k + 1 \in Tree => (pc[2 * k + 1] # "none" <=> HasRight(k))
  /\ HasLeft(k) => /\ args[2 * k] = [threadID |-> tempThreadCount[k], height |-> args[k].height + 1,
                                     begin |-> args[k].begin, end |-> Mid(args[k])]
                   /\ th[tempThreadCount[k]] = 2 * k
  /\ HasRight(k) => /\ args[2 * k + 1] = [threadID |-> tempThreadCount[k] + 1, height |-> args[k].height + 1,
                                          begin |-> Mid(args[k]) + 1, end |-> args[k].end]
                    /\ th[tempThreadCount[k] + 1] = 2 * k + 1
  /\ JoinedLeft(k) => pc[2 * k] = "done"
  /\ JoinedRight(k) => pc[2 * k + 1] = "done"

Family == \A k \in Tree : Parent(k)

(* Every thread past AddCount has taken two numbers, its own, and no other *)
(* numbers have been handed out.                                           *)
Numbers ==
  /\ threadCount = 1 + 2 * Cardinality(Counted)
  /\ \A k \in Tree : /\ pc[k] \in {"count", "counted"} => numThreadsLock = k
                     /\ pc[k] = "counted" => tempThreadCount[k] = threadCount
  /\ \A k \in Counted : 1 <= tempThreadCount[k] /\ tempThreadCount[k] + 1 < threadCount
  /\ \A j, k \in Counted : j # k => tempThreadCount[j] \notin {tempThreadCount[k], tempThreadCount[k] + 1}

Size(k) == args[k].end - args[k].begin + 1

(* In a file that is large enough, a thread that splits has an element for *)
(* each of the threads that will split last below it, and its segment is   *)
(* in arr. Whatever the file, one that has merged had.                     *)
Fits(k) ==
  /\ LargeEnough => /\ args[k].begin >= 0 /\ args[k].end < n
                    /\ Size(k) >= IF Splits(k) THEN Pow(h - 1 - args[k].height) ELSE 0
  /\ Splits(k) /\ pc[k] \in {"write", "done"} => Size(k) >= Pow(h - 1 - args[k].height)

Sizes == \A k \in Started : Fits(k)

(* A thread has been joined by its parent.                                 *)
Joined(c) == \E k \in Tree : \/ c = 2 * k /\ JoinedLeft(k)
                             \/ c = 2 * k + 1 /\ JoinedRight(k)

(* Element i is thread k's to touch: it is in the segment of k, and        *)
(* neither with a child of k that k has not joined nor, k being joined     *)
(* itself, back with its parent.                                           *)
Holds(k, i) ==
  /\ args[k].begin <= i /\ i <= args[k].end
  /\ pc[k] \notin {"none", "join1"}
  /\ pc[k] = "create2" => i > Mid(args[k])
  /\ pc[k] = "join2" => i <= Mid(args[k])
  /\ pc[k] = "done" => ~Joined(k)

(* Of the threads only one holds an element.                               *)
OneHolds == LargeEnough => \A j, k \in Tree, i \in Int : Holds(j, i) /\ Holds(k, i) => j = k

(* The process finishes after the root, and aborts on a small file only.   *)
Outcome == /\ status = "finished" => pc[1] = "done"
           /\ status = "aborted" => ~LargeEnough

IInv == Types /\ Places /\ Family /\ Numbers /\ Sizes /\ OneHolds /\ Outcome

-----------------------------------------------------------------------------
(* The places of the tree are 1 and, when threads split, all up to t.      *)
LEMMA TreeFacts ==
  ASSUME Types
  PROVE  /\ t \in Nat /\ n \in Nat /\ Started \subseteq Tree
         /\ \A k \in Tree : k \in Nat /\ k >= 1
         /\ \A k \in Nat : k \in Tree <=> k = 1 \/ (1 <= k /\ k <= t)
<1>1. h + 1 \in Nat /\ Pow(h + 1) \in Nat /\ Pow(h + 1) > 0
  BY PowNext, PowGrows DEF Types
<1>2. t \in Nat /\ t = 2^(h + 1) - 1
  BY <1>1 DEF Types, Pow
<1>3. Tree = (1 .. t) \union {1}
  BY <1>2 DEF Tree, Nodes
<1>4. n \in Nat
  BY DEF n, Types
<1> QED
  BY <1>2, <1>3, <1>4 DEF Started, Types

(* A thread that splits has its two children in the tree.                  *)
LEMMA ChildFacts ==
  ASSUME Types, Places, NEW k \in Started, Splits(k)
  PROVE  /\ k \in Tree /\ 2 * k \in Tree /\ 2 * k + 1 \in Tree
         /\ h \in Nat /\ k < Pow(h) /\ t = 2 * Pow(h) - 1 /\ Pow(h) \in Nat
<1> DEFINE a == args[k].height
<1>1. k \in Tree /\ a \in Nat /\ a < h /\ k < Pow(a + 1)
  BY TreeFacts DEF Types, Places, Splits
<1>2. h \in Nat /\ a + 1 \in Nat /\ a + 1 <= h
  BY <1>1 DEF Types
<1> HIDE DEF a
<1>3. /\ Pow(a + 1) <= Pow(h) /\ Pow(h + 1) = 2 * Pow(h)
      /\ Pow(h) \in Nat /\ Pow(a + 1) \in Nat
  BY <1>2, PowNext, PowGrows
<1>4. t = 2 * Pow(h) - 1 /\ k < Pow(h)
  <2>1. t = Pow(h + 1) - 1 /\ k \in Nat
    BY <1>1, TreeFacts DEF Types
  <2> QED
    BY <1>1, <1>3, <2>1
<1> QED
  BY <1>1, <1>2, <1>3, <1>4, TreeFacts

-----------------------------------------------------------------------------
(* The height main computes fits the size it gives th.                     *)
LEMMA InitHeight == Init => h \in Int /\ h >= -1 /\ t = Pow(h + 1) - 1
<1> SUFFICES ASSUME Init PROVE h \in Int /\ h >= -1 /\ t = Pow(h + 1) - 1
  OBVIOUS
<1> PICK arg \in ThreadArgs : h = heightOfFunc(arg) /\ t = roundNumberOfThreads(h + 1)
  BY DEF Init
<1>1. arg \in Nat \ {0}
  BY ThreadArgAssumption
<1>2. \E k \in 0 .. arg : 2^k <= arg /\ arg < 2^(k + 1)
  BY <1>1, Log DEF Pow
<1>3. h \in -1 .. arg
  <2> DEFINE k == CHOOSE k \in 0 .. arg : 2^k <= arg /\ arg < 2^(k + 1)
  <2>1. k \in 0 .. arg
    BY <1>2
  <2>2. h = k - 1
    BY DEF heightOfFunc
  <2> HIDE DEF k
  <2> QED
    BY <1>1, <2>1, <2>2
<1> QED
  BY <1>1, <1>3 DEF roundNumberOfThreads, Pow

(* The invariant holds when main has created the root.                     *)
LEMMA InitInv == Init => IInv
<1> SUFFICES ASSUME Init PROVE IInv
  OBVIOUS
<1>1. Types
  <2>1. input \in Seq(Bytes) /\ n \in Nat
    BY InputAssumption DEF Init, n
  <2>2. /\ pc = [k \in Tree |-> IF k = 1 THEN "start" ELSE "none"]
        /\ args = [k \in Tree |-> IF k = 1 THEN [NoArgs EXCEPT !.end = n - 1] ELSE NoArgs]
        /\ tempThreadCount = [k \in Tree |-> 0]
    BY DEF Init, Tree
  <2>3. NoArgs \in [threadID : Nat, height : Nat, begin : Int, end : Int]
    BY DEF NoArgs
  <2>4. [NoArgs EXCEPT !.end = n - 1] \in [threadID : Nat, height : Nat, begin : Int, end : Int]
    BY <2>1, <2>3
  <2>5. args \in [Tree -> [threadID : Nat, height : Nat, begin : Int, end : Int]]
    BY <2>2, <2>3, <2>4
  <2> QED
    <3>1. pc \in [Tree -> Points]
      BY <2>2 DEF Points
    <3>2. DOMAIN th = 0 .. t - 1 /\ threadCount \in Nat
      BY DEF Init
    <3> QED
      BY <2>1, <2>2, <2>5, <3>1, <3>2, InitHeight DEF Types
<1>2. /\ \A k \in Tree : pc[k] = IF k = 1 THEN "start" ELSE "none"
      /\ 1 \in Tree /\ args[1] = [threadID |-> 0, height |-> 0, begin |-> 0, end |-> n - 1]
  BY DEF Init, Tree, NoArgs
<1>3. Started = {1} /\ Counted = {}
  BY <1>1, <1>2 DEF Started, Counted, Past, Types, Splitting
<1>4. Places
  <2>1. Pow(0) = 1 /\ Pow(0 + 1) = 2
    BY PowNext
  <2> QED
    BY <1>2, <1>3, <2>1 DEF Places, Splitting
<1>5. Family
  BY <1>1, <1>2, TreeFacts DEF Family, Parent, HasLeft, HasRight, JoinedLeft, JoinedRight, Past
<1>6. Numbers
  <2>1. Cardinality(Counted) = 0 /\ threadCount = 1
    BY <1>3, FS_EmptySet DEF Init
  <2>2. \A k \in Tree : pc[k] \notin {"count", "counted"}
    BY <1>2
  <2> QED
    BY <1>3, <2>1, <2>2 DEF Numbers
<1>7. Sizes
  <2>1. /\ LargeEnough => h < 1 \/ n >= Pow(h - 1)
        /\ n \in Nat /\ h \in Int
    BY <1>1, TreeFacts DEF LargeEnough, Pow, Types
  <2> QED
    BY <1>2, <1>3, <2>1 DEF Sizes, Fits, Size, Splits
<1>8. OneHolds
  BY <1>2 DEF OneHolds, Holds
<1>9. Outcome
  BY DEF Init, Outcome
<1> QED
  BY <1>1, <1>4, <1>5, <1>6, <1>7, <1>8, <1>9 DEF IInv

-----------------------------------------------------------------------------
(* What a step does to the tree: some move one thread and change arr, its  *)
(* copy or the status at most.                                             *)
Goes(k, from, to) ==
  /\ pc[k] = from /\ pc' = [pc EXCEPT ![k] = to]
  /\ UNCHANGED <<h, t, input, threadCount, numThreadsLock, th, args, tempThreadCount>>

Idle == UNCHANGED <<h, t, input, threadCount, numThreadsLock, th, args, tempThreadCount, pc>>

Plain(k) ==
  \/ Idle
  \/ Goes(k, "merge", "write") /\ args[k].end - Mid(args[k]) >= 0
  \/ Goes(k, "merge", "done") /\ args[k].end - Mid(args[k]) >= 0
  \/ Goes(k, "write", "done")
  \/ Goes(k, "start", "done") /\ ~Splits(k)
  \/ Goes(k, "start", "sort") /\ ~Splits(k)
  \/ Goes(k, "sort", "done")

(* Every step of func is one of these.                                     *)
LEMMA Shapes ==
  ASSUME NEW k \in Tree, func(k), Types
  PROVE  \/ Split(k) \/ ReadCount(k) \/ AddCount(k) \/ Create1(k) \/ Create2(k)
         \/ Join1(k) \/ Join2(k) \/ Plain(k)
<1> USE DEF Goes, Goto, Unchanged, shared, local, Plain, Idle
<1>1. CASE MergeCopy(k)
  BY <1>1 DEF MergeCopy
<1>2. CASE MergeOutside(k)
  BY <1>2 DEF MergeOutside
<1>3. CASE MergeThrows(k)
  BY <1>3 DEF MergeThrows
<1>4. CASE MergeWrite(k)
  BY <1>4, Zenon DEF MergeWrite
<1>5. ASSUME args[k].height >= h PROVE ~Splits(k)
  BY <1>5 DEF Splits, Types
<1>6. CASE SortNothing(k)
  BY <1>5, <1>6 DEF SortNothing
<1>7. CASE SortCopy(k)
  BY <1>5, <1>7, Zenon DEF SortCopy
<1>8. CASE SortWrite(k)
  BY <1>8, Zenon DEF SortWrite
<1> QED
  BY <1>1, <1>2, <1>3, <1>4, <1>6, <1>7, <1>8 DEF func

(* The types are kept, and the tree, the height and the input never        *)
(* change.                                                                 *)
LEMMA TypesStep == ASSUME IInv, NEW k \in Tree, func(k)
                   PROVE  Types' /\ Tree' = Tree /\ h' = h /\ t' = t /\ input' = input
<1> USE DEF Types, Goto, Unchanged, shared, Points
<1>1. Types
  BY DEF IInv
<1> DEFINE Args == [threadID : Nat, height : Nat, begin : Int, end : Int]
<1>0. ASSUME h' = h, t' = t, input' = input PROVE Tree' = Tree
  BY <1>0 DEF Tree, Nodes
<1>2. CASE Split(k)
  BY <1>0, <1>1, <1>2 DEF Split
<1>3. CASE ReadCount(k)
  BY <1>0, <1>1, <1>3 DEF ReadCount
<1>4. CASE AddCount(k)
  BY <1>0, <1>1, <1>4 DEF AddCount
<1>5. CASE Join1(k) \/ Join2(k)
  BY <1>0, <1>1, <1>5 DEF Join1, Join2, Join
<1>6. CASE Plain(k)
  BY <1>0, <1>1, <1>6 DEF Plain, Goes, Idle
<1>7. ASSUME NEW child, NEW a \in Args, NEW from, NEW to \in Points, Create(k, child, a, from, to)
      PROVE  Types' /\ Tree' = Tree /\ h' = h /\ t' = t /\ input' = input
  BY <1>0, <1>1, <1>7 DEF Create
<1>8. args[k] \in Args /\ tempThreadCount[k] \in Nat
  BY <1>1
<1>9. Mid(args[k]) \in Int
  BY <1>8 DEF Mid, Half
<1>10. /\ [threadID |-> tempThreadCount[k], height |-> args[k].height + 1,
           begin |-> args[k].begin, end |-> Mid(args[k])] \in Args
       /\ [threadID |-> tempThreadCount[k] + 1, height |-> args[k].height + 1,
           begin |-> Mid(args[k]) + 1, end |-> args[k].end] \in Args
  BY <1>8, <1>9
<1> HIDE DEF Args
<1>11. CASE Create1(k)
  BY <1>7, <1>10, <1>11 DEF Create1
<1>12. CASE Create2(k)
  BY <1>7, <1>10, <1>12 DEF Create2
<1> QED
  BY <1>1, <1>2, <1>3, <1>4, <1>5, <1>6, <1>11, <1>12, Shapes

-----------------------------------------------------------------------------
(* There is room in th for both numbers of every thread that splits.       *)
LEMMA CountBound ==
  ASSUME Types, Places, Numbers
  PROVE  /\ IsFiniteSet(Counted) /\ Cardinality(Counted) \in Nat
         /\ Counted # {} => threadCount <= t
<1>1. ASSUME NEW k \in Counted PROVE h \in Nat /\ Pow(h) \in Nat /\ t = 2 * Pow(h) - 1 /\ k \in 1 .. Pow(h) - 1
  <2>1. k \in Started /\ Splits(k)
    BY TreeFacts DEF Counted, Past, Started, Places, Types, Splitting
  <2> QED
    BY <2>1, ChildFacts, TreeFacts
<1>2. CASE Counted = {}
  BY <1>2, FS_EmptySet
<1>3. CASE Counted # {}
  <2>1. Pow(h) \in Nat /\ t = 2 * Pow(h) - 1 /\ Counted \subseteq 1 .. Pow(h) - 1
    BY <1>1, <1>3
  <2> DEFINE m == Pow(h) - 1
  <2>2. m \in Nat
    <3>1. PICK k : k \in Counted
      BY <1>3
    <3> QED
      BY <1>1, <3>1
  <2> HIDE DEF m
  <2>3. IsFiniteSet(1 .. m) /\ Cardinality(1 .. m) = m
    BY <2>2, FS_Interval
  <2>4. IsFiniteSet(Counted) /\ Cardinality(Counted) <= m
    <3>1. Counted \subseteq 1 .. m
      BY <2>1 DEF m
    <3> QED
      BY <2>2, <2>3, <3>1, FS_Subset
  <2>5. Cardinality(Counted) \in Nat
    BY <2>4, FS_CardinalityType
  <2> QED
    BY <2>1, <2>4, <2>5 DEF m, Numbers
<1> QED
  BY <1>2, <1>3

(* Creation: the child is a new thread, and its handle goes to a slot of   *)
(* its own.                                                                *)
Born(k, c, slot, lo, hi) ==
  /\ k \in Started /\ Splits(k) /\ c \in Tree /\ c # k /\ c # 1 /\ pc[c] = "none"
  /\ slot \in DOMAIN th
  /\ args' = [args EXCEPT ![c] = [threadID |-> slot, height |-> args[k].height + 1,
                                  begin |-> lo, end |-> hi]]
  /\ th' = [th EXCEPT ![slot] = c]
  /\ UNCHANGED <<h, t, input, threadCount, numThreadsLock, tempThreadCount>>

(* Both calls of Pthread_create are such creations.                        *)
LEMMA BornFacts ==
  ASSUME IInv, NEW k \in Tree
  PROVE  /\ Create1(k) => /\ Born(k, 2 * k, tempThreadCount[k], args[k].begin, Mid(args[k]))
                          /\ pc[k] = "create1" /\ pc' = [pc EXCEPT ![k] = "create2", ![2 * k] = "start"]
         /\ Create2(k) => /\ Born(k, 2 * k + 1, tempThreadCount[k] + 1, Mid(args[k]) + 1, args[k].end)
                          /\ pc[k] = "create2" /\ pc' = [pc EXCEPT ![k] = "join1", ![2 * k + 1] = "start"]
<1> SUFFICES ASSUME pc[k] \in {"create1", "create2"}
             PROVE  /\ Create1(k) => /\ Born(k, 2 * k, tempThreadCount[k], args[k].begin, Mid(args[k]))
                                     /\ pc[k] = "create1" /\ pc' = [pc EXCEPT ![k] = "create2", ![2 * k] = "start"]
                    /\ Create2(k) => /\ Born(k, 2 * k + 1, tempThreadCount[k] + 1, Mid(args[k]) + 1, args[k].end)
                                     /\ pc[k] = "create2" /\ pc' = [pc EXCEPT ![k] = "join1", ![2 * k + 1] = "start"]
  BY DEF Create1, Create2, Create
<1>1. Types /\ Places /\ Family /\ Numbers
  BY DEF IInv
<1>2. k \in Started /\ Splits(k) /\ k \in Counted
  BY <1>1 DEF Places, Started, Counted, Past, Types, Splitting
<1>3. 2 * k \in Tree /\ 2 * k + 1 \in Tree /\ k \in Nat /\ k >= 1
  BY <1>1, <1>2, ChildFacts, TreeFacts
<1>4. tempThreadCount[k] \in DOMAIN th /\ tempThreadCount[k] + 1 \in DOMAIN th
  <2>1. tempThreadCount[k] \in Nat /\ threadCount \in Nat /\ t \in Nat /\ threadCount <= t
    BY <1>1, <1>2, CountBound, TreeFacts DEF Types
  <2> QED
    BY <1>1, <1>2, <2>1 DEF Types, Numbers
<1>5. ASSUME pc[k] = "create1" PROVE pc[2 * k] = "none"
  BY <1>1, <1>3, <1>5 DEF Family, Parent, HasLeft, Past
<1>6. ASSUME pc[k] = "create2" PROVE pc[2 * k + 1] = "none"
  BY <1>1, <1>3, <1>6 DEF Family, Parent, HasRight, Past
<1>7. 2 * k # k /\ 2 * k + 1 # k /\ 2 * k # 1 /\ 2 * k + 1 # 1
  BY <1>3
<1>8. ASSUME Create1(k) PROVE /\ Born(k, 2 * k, tempThreadCount[k], args[k].begin, Mid(args[k]))
                              /\ pc[k] = "create1" /\ pc' = [pc EXCEPT ![k] = "create2", ![2 * k] = "start"]
  BY <1>2, <1>3, <1>4, <1>5, <1>7, <1>8, Zenon DEF Create1, Create, Born, Unchanged
<1>9. ASSUME Create2(k) PROVE /\ Born(k, 2 * k + 1, tempThreadCount[k] + 1, Mid(args[k]) + 1, args[k].end)
                              /\ pc[k] = "create2" /\ pc' = [pc EXCEPT ![k] = "join1", ![2 * k + 1] = "start"]
  BY <1>2, <1>3, <1>4, <1>6, <1>7, <1>9, Zenon DEF Create2, Create, Born, Unchanged
<1> QED
  BY <1>8, <1>9

(* The other steps leave the tree as it is, but for what is joined.        *)
Stays(k) ==
  /\ k \in Started
  /\ UNCHANGED <<h, t, input, args, th>>
  /\ \A j \in Tree : j # k => pc'[j] = pc[j] /\ tempThreadCount'[j] = tempThreadCount[j]
  /\ pc[k] \notin {"none", "done", "create2"} /\ pc'[k] # "none"
  /\ pc[k] # "count" => tempThreadCount'[k] = tempThreadCount[k]
  /\ (HasLeft(k)' <=> HasLeft(k)) /\ (HasRight(k)' <=> HasRight(k))
  /\ pc[k] # "join1" => (JoinedLeft(k)' <=> JoinedLeft(k))
  /\ pc[k] # "join2" => (JoinedRight(k)' <=> JoinedRight(k))
  /\ pc[k] = "join1" => pc'[k] = "join2" /\ pc[2 * k] = "done"
  /\ pc[k] = "join2" => pc'[k] = "merge" /\ pc[2 * k + 1] = "done"
  /\ pc'[k] \in Splitting => Splits(k)
  /\ pc'[k] = "sort" => ~Splits(k)
  /\ pc'[k] \in {"write", "done"} /\ Splits(k) =>
       pc[k] = "write" \/ (pc[k] = "merge" /\ args[k].end - Mid(args[k]) >= 0)
  /\ pc'[k] \in {"create2", "join1"} => FALSE

(* A step of func creates a child, changes nothing of the tree, or stays.  *)
LEMMA StepKinds ==
  ASSUME IInv, NEW k \in Tree, func(k)
  PROVE  Create1(k) \/ Create2(k) \/ Idle \/ Stays(k)
<1>1. Types /\ Places /\ Family
  BY DEF IInv
<1> USE DEF Goto, Unchanged, shared, Stays, HasLeft, HasRight, JoinedLeft, JoinedRight, Past,
            Splits, Splitting
<1>2. pc[k] # "none" => k \in Started
  BY <1>1 DEF Started, Types
<1>0. pc[k] \in Splitting => args[k].height < h
  BY <1>1 DEF Places
<1>3. CASE Split(k)
  BY <1>1, <1>2, <1>3 DEF Split, Types
<1>4. CASE ReadCount(k)
  BY <1>0, <1>1, <1>2, <1>4 DEF ReadCount, Types
<1>5. CASE AddCount(k)
  BY <1>0, <1>1, <1>2, <1>5 DEF AddCount, Types
<1>6. CASE Join1(k)
  <2>1. pc[k] = "join1" /\ th[tempThreadCount[k]] = 2 * k
    BY <1>1, <1>6 DEF Join1, Join, Family, Parent
  <2> QED
    BY <1>0, <1>1, <1>2, <1>6, <2>1 DEF Join1, Join, Types
<1>7. CASE Join2(k)
  <2>1. pc[k] = "join2" /\ th[tempThreadCount[k] + 1] = 2 * k + 1
    BY <1>1, <1>7 DEF Join2, Join, Family, Parent
  <2> QED
    BY <1>0, <1>1, <1>2, <1>7, <2>1 DEF Join2, Join, Types
<1>8. ASSUME Plain(k), ~Idle PROVE Stays(k)
  <2>1. pc[k] \in {"merge", "write"} => args[k].height < h
    BY <1>1 DEF Places, Splitting
  <2>2. pc[k] = "sort" => ~(args[k].height < h)
    BY <1>1 DEF Places, Splitting
  <2> QED
    BY <1>1, <1>2, <1>8, <2>1, <2>2 DEF Plain, Goes, Types
<1> QED
  BY <1>1, <1>3, <1>4, <1>5, <1>6, <1>7, <1>8, Shapes

(* After either kind of step, what a thread not concerned has of children  *)
(* is as before.                                                           *)
LEMMA OthersKeep ==
  ASSUME NEW j \in Tree, h' = h, pc'[j] = pc[j], args'[j] = args[j]
  PROVE  /\ (HasLeft(j)' <=> HasLeft(j)) /\ (HasRight(j)' <=> HasRight(j))
         /\ (JoinedLeft(j)' <=> JoinedLeft(j)) /\ (JoinedRight(j)' <=> JoinedRight(j))
         /\ (Splits(j)' <=> Splits(j))
BY DEF HasLeft, HasRight, JoinedLeft, JoinedRight, Past, Splits

(* Who has children, splits, and counts.                                   *)
LEMMA HasFacts ==
  ASSUME Types, Places, NEW j \in Tree
  PROVE  /\ JoinedRight(j) => JoinedLeft(j)
         /\ JoinedLeft(j) => HasRight(j)
         /\ HasRight(j) => HasLeft(j)
         /\ HasLeft(j) => /\ j \in Counted /\ j \in Started /\ Splits(j)
                          /\ 2 * j \in Tree /\ 2 * j + 1 \in Tree
<1>1. HasLeft(j) => j \in Counted /\ j \in Started /\ Splits(j)
  BY DEF HasLeft, Past, Counted, Started, Types, Places, Splitting
<1>2. /\ JoinedRight(j) => JoinedLeft(j)
      /\ JoinedLeft(j) => HasRight(j)
      /\ HasRight(j) => HasLeft(j)
  BY DEF HasLeft, HasRight, JoinedLeft, JoinedRight, Past
<1> QED
  BY <1>1, <1>2, ChildFacts

(* A child is one level below its parent, which is above the last one.     *)
LEMMA PlacesStep == ASSUME IInv, NEW k \in Tree, func(k) PROVE Places'
<1>1. Types /\ Places /\ Types' /\ Tree' = Tree /\ h' = h /\ t' = t /\ input' = input
  BY TypesStep DEF IInv
<1>2. Started = {j \in Tree : pc[j] # "none"} /\ Started' = {j \in Tree : pc'[j] # "none"}
  BY <1>1 DEF Started, Types
<1>3. n' = n /\ 1 \in Tree
  BY <1>1 DEF n, Tree
<1>4. ASSUME NEW c, NEW slot, NEW lo, NEW hi, NEW to \in Points \ {"none", "start", "sort"},
             Born(k, c, slot, lo, hi), pc' = [pc EXCEPT ![k] = to, ![c] = "start"],
             c \in {2 * k, 2 * k + 1}
      PROVE  Places'
  <2>1. c \in Tree /\ c # k /\ c # 1 /\ Splits(k) /\ k \in Started
    BY <1>4 DEF Born
  <2>2. /\ args'[c] = [threadID |-> slot, height |-> args[k].height + 1, begin |-> lo, end |-> hi]
        /\ \A j \in Tree : j # c => args'[j] = args[j]
        /\ pc'[c] = "start" /\ pc'[k] = to
        /\ \A j \in Tree : j # c /\ j # k => pc'[j] = pc[j]
    BY <1>1, <1>4, <2>1 DEF Born, Types
  <2> DEFINE x == args[k].height
  <2>3. x \in Nat /\ k \in Nat /\ Pow(x) <= k /\ k < Pow(x + 1) /\ x < h /\ h \in Int
    BY <1>1, <2>1, TreeFacts DEF Places, Types, Splits
  <2>4. args'[c].height = x + 1
    BY <2>2
  <2> HIDE DEF x
  <2>5. Pow(x) \in Nat /\ Pow(x + 1) = 2 * Pow(x) /\ Pow(x + 1 + 1) = 2 * Pow(x + 1)
    <3>1. x + 1 \in Nat
      BY <2>3
    <3> QED
      BY <2>3, <3>1, PowNext
  <2>6. Pow(args'[c].height) <= c /\ c < Pow(args'[c].height + 1) /\ args'[c].height <= h
    BY <1>4, <2>3, <2>4, <2>5
  <2>7. ASSUME NEW j \in Started'
        PROVE  /\ Pow(args'[j].height) <= j /\ j < Pow(args'[j].height + 1)
               /\ j # 1 => args'[j].height <= h
    <3>1. CASE j = c
      BY <2>6, <3>1
    <3>2. CASE j # c
      <4>1. j \in Started /\ args'[j] = args[j]
        BY <1>2, <2>1, <2>2, <3>2
      <4> QED
        BY <1>1, <4>1 DEF Places
    <3> QED
      BY <3>1, <3>2
  <2>8. pc'[1] # "none" /\ args'[1] = args[1]
    BY <1>1, <1>3, <1>4, <2>1, <2>2 DEF Places
  <2>9. ASSUME NEW j \in Tree
        PROVE  /\ pc'[j] \in Splitting => Splits(j)'
               /\ pc'[j] = "sort" => ~Splits(j)'
    BY <1>1, <1>4, <2>1, <2>2 DEF Places, Splits, Splitting
  <2> QED
    BY <1>1, <1>3, <2>7, <2>8, <2>9 DEF Places, Pow
<1>5. CASE Create1(k)
  BY <1>4, <1>5, BornFacts DEF Points
<1>6. CASE Create2(k)
  BY <1>4, <1>6, BornFacts DEF Points
<1>7. CASE Idle
  BY <1>1, <1>2, <1>3, <1>7 DEF Idle, Places, Splits
<1>8. CASE Stays(k)
  <2>1. args' = args /\ Started' = Started
    BY <1>2, <1>8 DEF Stays
  <2>2. ASSUME NEW j \in Tree
        PROVE  /\ pc'[j] \in Splitting => Splits(j)'
               /\ pc'[j] = "sort" => ~Splits(j)'
    <3>1. Splits(j)' <=> Splits(j)
      BY <1>1, <2>1 DEF Splits
    <3> QED
      BY <1>1, <1>8, <3>1 DEF Places, Stays
  <2>3. pc'[1] # "none"
    BY <1>1, <1>3, <1>8 DEF Stays, Places
  <2> QED
    BY <1>1, <1>3, <2>1, <2>2, <2>3 DEF Places
<1> QED
  BY <1>5, <1>6, <1>7, <1>8, StepKinds

(* What a parent knows of its children stays true: nobody else writes the  *)
(* slot of th that holds a handle, and a child that is done stays so.      *)
LEMMA FamilyStep == ASSUME IInv, NEW k \in Tree, func(k) PROVE Family'
<1>1. /\ Types /\ Places /\ Family /\ Numbers
      /\ Types' /\ Places' /\ Tree' = Tree /\ h' = h /\ t' = t /\ input' = input
  BY TypesStep, PlacesStep DEF IInv
<1>2. CASE Idle
  BY <1>1, <1>2 DEF Idle, Family, Parent, HasLeft, HasRight, JoinedLeft, JoinedRight, Past, Splits,
                    Mid, Half
<1>3. CASE Stays(k)
  <2>1. SUFFICES ASSUME NEW j \in Tree PROVE Parent(j)'
    BY <1>1 DEF Family
  <2>2. /\ args' = args /\ th' = th
        /\ \A c \in Tree : /\ pc'[c] # "none" <=> pc[c] # "none"
                           /\ pc[c] = "done" => pc'[c] = "done"
    BY <1>3 DEF Stays
  <2>3. /\ HasLeft(j)' <=> HasLeft(j)
        /\ HasRight(j)' <=> HasRight(j)
        /\ HasLeft(j) => tempThreadCount'[j] = tempThreadCount[j]
    <3>1. CASE j = k
      BY <1>3, <3>1 DEF Stays, HasLeft, Past
    <3>2. CASE j # k
      BY <1>1, <1>3, <2>2, <3>2, OthersKeep DEF Stays
    <3> QED
      BY <3>1, <3>2
  <2>4. JoinedLeft(j)' => pc'[2 * j] = "done"
    <3>1. ASSUME JoinedLeft(j) PROVE pc'[2 * j] = "done"
      BY <1>1, <2>2, <3>1, HasFacts DEF Family, Parent
    <3>2. ASSUME JoinedLeft(j)', ~JoinedLeft(j) PROVE pc'[2 * j] = "done"
      <4>1. j = k /\ pc[k] = "join1"
        BY <1>1, <1>3, <2>2, <3>2, OthersKeep DEF Stays
      <4>2. pc[2 * k] = "done" /\ 2 * k \in Tree
        BY <1>1, <1>3, <4>1, HasFacts DEF Stays, HasLeft, Past
      <4> QED
        BY <2>2, <4>1, <4>2
    <3> QED
      BY <3>1, <3>2
  <2>5. JoinedRight(j)' => pc'[2 * j + 1] = "done"
    <3>1. ASSUME JoinedRight(j) PROVE pc'[2 * j + 1] = "done"
      BY <1>1, <2>2, <3>1, HasFacts DEF Family, Parent
    <3>2. ASSUME JoinedRight(j)', ~JoinedRight(j) PROVE pc'[2 * j + 1] = "done"
      <4>1. j = k /\ pc[k] = "join2"
        BY <1>1, <1>3, <2>2, <3>2, OthersKeep DEF Stays
      <4>2. pc[2 * k + 1] = "done" /\ 2 * k + 1 \in Tree
        BY <1>1, <1>3, <4>1, HasFacts DEF Stays, HasLeft, Past
      <4> QED
        BY <2>2, <4>1, <4>2
    <3> QED
      BY <3>1, <3>2
  <2>6. Mid(args[j])' = Mid(args[j])
    BY <2>2 DEF Mid, Half
  <2>7. Parent(j) /\ (HasRight(j) => HasLeft(j))
    BY <1>1, HasFacts DEF Family
  <2> QED
    BY <1>1, <2>2, <2>3, <2>4, <2>5, <2>6, <2>7 DEF Parent
<1>4. ASSUME NEW c \in Tree, NEW slot, NEW lo, NEW hi, NEW to \in {"create2", "join1"},
             Born(k, c, slot, lo, hi), pc' = [pc EXCEPT ![k] = to, ![c] = "start"],
             \/ c = 2 * k /\ slot = tempThreadCount[k] /\ pc[k] = "create1" /\ to = "create2"
                /\ lo = args[k].begin /\ hi = Mid(args[k])
             \/ c = 2 * k + 1 /\ slot = tempThreadCount[k] + 1 /\ pc[k] = "create2" /\ to = "join1"
                /\ lo = Mid(args[k]) + 1 /\ hi = args[k].end
      PROVE  Family'
  <2>1. SUFFICES ASSUME NEW j \in Tree PROVE Parent(j)'
    BY <1>1 DEF Family
  <2>2. /\ c # k /\ pc[c] = "none" /\ Splits(k) /\ k \in Started
        /\ args'[c] = [threadID |-> slot, height |-> args[k].height + 1, begin |-> lo, end |-> hi]
        /\ \A x \in Tree : x # c => args'[x] = args[x]
        /\ pc'[c] = "start" /\ pc'[k] = to
        /\ \A x \in Tree : x # c /\ x # k => pc'[x] = pc[x]
        /\ th'[slot] = c /\ \A x \in DOMAIN th : x # slot => th'[x] = th[x]
        /\ tempThreadCount' = tempThreadCount
    BY <1>1, <1>4 DEF Born, Types
  <2>3. CASE j = c
    <3>1. ~HasLeft(j)' /\ ~HasRight(j)' /\ ~JoinedLeft(j)' /\ ~JoinedRight(j)'
      BY <2>2, <2>3 DEF HasLeft, HasRight, JoinedLeft, JoinedRight, Past
    <3>2. ~HasLeft(j) /\ ~HasRight(j)
      BY <2>2, <2>3 DEF HasLeft, HasRight, Past
    <3>3. j \in Nat /\ k \in Nat /\ j > k
      BY <1>1, <1>4, <2>3, TreeFacts
    <3>4. /\ 2 * j \in Tree => pc'[2 * j] = pc[2 * j]
          /\ 2 * j + 1 \in Tree => pc'[2 * j + 1] = pc[2 * j + 1]
      BY <2>2, <2>3, <3>3
    <3> QED
      BY <1>1, <3>1, <3>2, <3>4 DEF Family, Parent
  <2>4. CASE j = k
    <3>1. /\ HasLeft(j)' /\ ~JoinedLeft(j)' /\ ~JoinedRight(j)'
          /\ HasRight(j)' <=> to = "join1"
          /\ HasLeft(j) <=> to = "join1"
          /\ ~HasRight(j)
      BY <1>4, <2>2, <2>4 DEF HasLeft, HasRight, JoinedLeft, JoinedRight, Past
    <3>2. Parent(j) /\ 2 * j \in Tree /\ 2 * j + 1 \in Tree /\ j \in Nat /\ j >= 1
      BY <1>1, <2>2, <2>4, TreeFacts, ChildFacts DEF Family
    <3>3. Mid(args[j])' = Mid(args[j]) /\ args'[j] = args[j]
      BY <2>2, <2>4 DEF Mid, Half
    <3>4. tempThreadCount[k] \in Nat /\ tempThreadCount[k] \in DOMAIN th
      <4>1. tempThreadCount[k] \in Nat
        BY <1>1 DEF Types
      <4>2. slot \in 0 .. t - 1
        BY <1>1, <1>4 DEF Born, Types
      <4>3. t \in Nat
        BY <1>1, TreeFacts
      <4>4. slot = tempThreadCount[k] \/ slot = tempThreadCount[k] + 1
        BY <1>4
      <4>5. tempThreadCount[k] \in 0 .. t - 1
        BY <4>1, <4>2, <4>3, <4>4
      <4> QED
        BY <1>1, <4>1, <4>5 DEF Types
    <3>5. CASE to = "create2"
      <4>1. c = 2 * k /\ slot = tempThreadCount[k] /\ lo = args[k].begin /\ hi = Mid(args[k])
        BY <1>4, <3>5
      <4>2. pc'[2 * j] # "none" /\ pc'[2 * j + 1] = pc[2 * j + 1]
        BY <2>2, <2>4, <3>2, <4>1
      <4> QED
        BY <1>1, <2>2, <2>4, <3>1, <3>2, <3>3, <3>5, <4>1, <4>2 DEF Parent
    <3>6. CASE to = "join1"
      <4>1. c = 2 * k + 1 /\ slot = tempThreadCount[k] + 1 /\ lo = Mid(args[k]) + 1 /\ hi = args[k].end
        BY <1>4, <3>6
      <4>2. pc'[2 * j + 1] # "none" /\ pc'[2 * j] = pc[2 * j] /\ args'[2 * j] = args[2 * j]
        BY <2>2, <2>4, <3>2, <4>1
      <4>3. th'[tempThreadCount[k]] = th[tempThreadCount[k]]
        BY <2>2, <3>4, <4>1
      <4> QED
        BY <1>1, <2>2, <2>4, <3>1, <3>2, <3>3, <3>6, <4>1, <4>2, <4>3 DEF Parent
    <3> QED
      BY <1>4, <3>5, <3>6
  <2>5. CASE j # c /\ j # k
    <3>1. /\ args'[j] = args[j] /\ pc'[j] = pc[j]
          /\ HasLeft(j)' <=> HasLeft(j)
          /\ HasRight(j)' <=> HasRight(j)
          /\ JoinedLeft(j)' <=> JoinedLeft(j)
          /\ JoinedRight(j)' <=> JoinedRight(j)
      BY <1>1, <2>2, <2>5, OthersKeep
    <3>2. Parent(j) /\ j \in Nat /\ k \in Nat
      BY <1>1, TreeFacts DEF Family
    <3>3. 2 * j # c /\ 2 * j + 1 # c
      BY <1>4, <2>5, <3>2
    <3>4. /\ 2 * j \in Tree => args'[2 * j] = args[2 * j] /\ (pc'[2 * j] # "none" <=> pc[2 * j] # "none")
          /\ 2 * j + 1 \in Tree => args'[2 * j + 1] = args[2 * j + 1] /\ (pc'[2 * j + 1] # "none" <=> pc[2 * j + 1] # "none")
      BY <1>4, <2>2, <3>3
    <3>5. /\ HasLeft(j) => /\ 2 * j \in Tree /\ 2 * j + 1 \in Tree /\ j \in Counted
                           /\ j \in Started
          /\ HasRight(j) => HasLeft(j)
          /\ JoinedLeft(j) => HasLeft(j)
          /\ JoinedRight(j) => HasLeft(j)
      BY <1>1, HasFacts
    <3>6. HasLeft(j) => /\ th'[tempThreadCount[j]] = th[tempThreadCount[j]]
                        /\ th'[tempThreadCount[j] + 1] = th[tempThreadCount[j] + 1]
      <4>1. SUFFICES ASSUME HasLeft(j) PROVE /\ th'[tempThreadCount[j]] = th[tempThreadCount[j]]
                                             /\ th'[tempThreadCount[j] + 1] = th[tempThreadCount[j] + 1]
        OBVIOUS
      <4>2. j \in Counted /\ k \in Counted
        BY <1>4, <3>5, <4>1 DEF Counted, Past
      <4>3. /\ tempThreadCount[j] \in Nat /\ tempThreadCount[k] \in Nat
            /\ threadCount <= t /\ threadCount \in Nat /\ t \in Nat
        BY <1>1, <4>2, CountBound, TreeFacts DEF Types
      <4>4. tempThreadCount[j] \in DOMAIN th /\ tempThreadCount[j] + 1 \in DOMAIN th
        <5>1. tempThreadCount[j] + 1 < threadCount
          BY <1>1, <4>2 DEF Numbers
        <5>2. tempThreadCount[j] \in 0 .. t - 1 /\ tempThreadCount[j] + 1 \in 0 .. t - 1
          BY <4>3, <5>1
        <5> QED
          BY <1>1, <5>2 DEF Types
      <4>5. tempThreadCount[j] # slot /\ tempThreadCount[j] + 1 # slot
        <5>1. /\ tempThreadCount[j] \notin {tempThreadCount[k], tempThreadCount[k] + 1}
              /\ tempThreadCount[k] \notin {tempThreadCount[j], tempThreadCount[j] + 1}
          BY <1>1, <2>5, <4>2 DEF Numbers
        <5> QED
          BY <1>4, <4>3, <5>1
      <4> QED
        BY <2>2, <4>4, <4>5
    <3>7. Mid(args[j])' = Mid(args[j])
      BY <3>1 DEF Mid, Half
    <3>8. \A x \in Tree : pc[x] = "done" => pc'[x] = "done"
      BY <1>4, <2>2
    <3> QED
      BY <1>1, <2>2, <3>1, <3>2, <3>4, <3>5, <3>6, <3>7, <3>8 DEF Parent
  <2> QED
    BY <2>3, <2>4, <2>5
<1>5. CASE Create1(k)
  <2>1. /\ Born(k, 2 * k, tempThreadCount[k], args[k].begin, Mid(args[k])) /\ pc[k] = "create1"
        /\ pc' = [pc EXCEPT ![k] = "create2", ![2 * k] = "start"]
    BY <1>5, BornFacts
  <2>2. 2 * k \in Tree
    BY <2>1 DEF Born
  <2> QED
    BY <1>4, <2>1, <2>2
<1>6. CASE Create2(k)
  BY <1>4, <1>6, BornFacts DEF Born
<1> QED
  BY <1>2, <1>3, <1>5, <1>6, StepKinds

(* A thread that reads the counter holds the lock until it has added to    *)
(* it, so that every pair of numbers is new.                               *)
LEMMA NumbersStep == ASSUME IInv, NEW k \in Tree, func(k) PROVE Numbers'
<1>1. /\ Types /\ Places /\ Family /\ Numbers
      /\ Types' /\ Tree' = Tree /\ h' = h /\ t' = t /\ input' = input
  BY TypesStep DEF IInv
<1>2. 0 \notin Tree /\ k # NoThread
  BY <1>1, TreeFacts DEF NoThread
(* Of a step that numbers nobody.                                          *)
<1>3. ASSUME Counted' = Counted, threadCount' = threadCount,
             \A j \in Counted : tempThreadCount'[j] = tempThreadCount[j],
             \A j \in Tree : /\ pc'[j] \in {"count", "counted"} => numThreadsLock' = j
                             /\ pc'[j] = "counted" => tempThreadCount'[j] = threadCount
      PROVE  Numbers'
  BY <1>1, <1>3 DEF Numbers
<1> DEFINE Has == {"create1", "create2", "join1", "join2", "merge", "write"}
<1>4. ASSUME \A j \in Tree : pc'[j] \in Has \/ (pc'[j] = "done" /\ Splits(j)') <=> j \in Counted
      PROVE  Counted' = Counted
  BY <1>1, <1>4 DEF Counted, Past
<1>5. \A j \in Tree : j \in Counted <=> pc[j] \in Has \/ (pc[j] = "done" /\ Splits(j))
  BY DEF Counted, Past
<1> USE DEF Goto, Unchanged, shared, Splits
<1>6. CASE Split(k)
  <2>1. Counted' = Counted
    BY <1>1, <1>4, <1>5, <1>6 DEF Split, Types
  <2>2. /\ \A j \in Tree : pc[j] \notin {"count", "counted"}
        /\ pc' = [pc EXCEPT ![k] = "count"] /\ numThreadsLock' = k
        /\ threadCount' = threadCount /\ tempThreadCount' = tempThreadCount
    BY <1>1, <1>2, <1>6 DEF Split, Numbers, NoThread
  <2> QED
    BY <1>1, <1>3, <2>1, <2>2 DEF Types
<1>7. CASE ReadCount(k)
  <2>1. Counted' = Counted /\ k \notin Counted
    BY <1>1, <1>4, <1>5, <1>7 DEF ReadCount, Types
  <2>2. /\ pc[k] = "count" /\ pc' = [pc EXCEPT ![k] = "counted"]
        /\ tempThreadCount' = [tempThreadCount EXCEPT ![k] = threadCount]
        /\ threadCount' = threadCount /\ numThreadsLock' = numThreadsLock
    BY <1>7 DEF ReadCount
  <2>3. Counted \subseteq Tree
    BY DEF Counted
  <2>4. ASSUME NEW j \in Tree PROVE /\ pc'[j] \in {"count", "counted"} => numThreadsLock' = j
                                    /\ pc'[j] = "counted" => tempThreadCount'[j] = threadCount
    BY <1>1, <2>2 DEF Numbers, Types
  <2>5. \A j \in Counted : tempThreadCount'[j] = tempThreadCount[j]
    BY <1>1, <2>1, <2>2, <2>3 DEF Types
  <2> QED
    BY <1>3, <2>1, <2>2, <2>4, <2>5
<1>8. CASE AddCount(k)
  <2>1. /\ pc[k] = "counted" /\ pc' = [pc EXCEPT ![k] = "create1"]
        /\ tempThreadCount' = tempThreadCount /\ threadCount' = threadCount + 2 /\ args' = args
    BY <1>8 DEF AddCount
  <2>2. Counted' = Counted \union {k} /\ k \notin Counted
    BY <1>1, <1>5, <2>1 DEF Counted, Past, Types
  <2>3. IsFiniteSet(Counted) /\ Cardinality(Counted) \in Nat
    BY <1>1, CountBound
  <2>4. Cardinality(Counted \union {k}) = Cardinality(Counted) + 1
    BY <2>2, <2>3, FS_AddElement
  <2>5. threadCount' = 1 + 2 * Cardinality(Counted)'
    BY <1>1, <2>1, <2>2, <2>3, <2>4 DEF Numbers
  <2>6. \A j \in Tree : pc'[j] \notin {"count", "counted"}
    BY <1>1, <2>1 DEF Numbers, Types
  <2>7. tempThreadCount[k] = threadCount /\ threadCount \in Nat /\ threadCount >= 1
    BY <1>1, <2>1, <2>3 DEF Numbers
  <2>8. Counted \subseteq Tree /\ \A j \in Tree : tempThreadCount[j] \in Nat
    BY <1>1 DEF Types, Counted
  <2>9. ASSUME NEW j \in Counted
        PROVE  1 <= tempThreadCount[j] /\ tempThreadCount[j] + 1 < threadCount /\ tempThreadCount[j] \in Nat
    BY <1>1, <2>8 DEF Numbers
  <2>10. \A j \in Counted' : 1 <= tempThreadCount'[j] /\ tempThreadCount'[j] + 1 < threadCount'
    BY <2>1, <2>2, <2>7, <2>9
  <2>11. \A j, m \in Counted : j # m => tempThreadCount[j] \notin {tempThreadCount[m], tempThreadCount[m] + 1}
    BY <1>1 DEF Numbers
  <2>12. \A j, m \in Counted' : j # m => tempThreadCount'[j] \notin {tempThreadCount'[m], tempThreadCount'[m] + 1}
    BY <2>1, <2>2, <2>7, <2>9, <2>11
  <2> QED
    BY <1>1, <2>5, <2>6, <2>10, <2>12 DEF Numbers
<1>9. CASE Join1(k) \/ Join2(k) \/ Plain(k)
  <2>1. /\ tempThreadCount' = tempThreadCount /\ threadCount' = threadCount
        /\ numThreadsLock' = numThreadsLock /\ args' = args
        /\ \A j \in Tree : j # k => pc'[j] = pc[j]
        /\ pc'[k] = pc[k] \/ pc'[k] \notin {"count", "counted"}
    <3>1. CASE Join1(k) \/ Join2(k)
      BY <1>1, <3>1 DEF Join1, Join2, Join, Types
    <3>2. CASE Idle
      BY <3>2 DEF Idle
    <3>3. CASE Plain(k) /\ ~Idle
      BY <1>1, <3>3 DEF Plain, Goes, Types
    <3> QED
      BY <1>9, <3>1, <3>2, <3>3
  <2>2. pc'[k] \in Has \/ (pc'[k] = "done" /\ Splits(k)') <=> k \in Counted
    BY <1>1, <1>5, <1>9 DEF Join1, Join2, Join, Plain, Goes, Idle, Types, Places, Splitting
  <2>3. Counted' = Counted
    BY <1>1, <1>4, <1>5, <2>1, <2>2
  <2>4. ASSUME NEW j \in Tree PROVE /\ pc'[j] \in {"count", "counted"} => numThreadsLock' = j
                                    /\ pc'[j] = "counted" => tempThreadCount'[j] = threadCount
    BY <1>1, <2>1 DEF Numbers
  <2> QED
    BY <1>3, <2>1, <2>3, <2>4
<1>10. ASSUME NEW c \in Tree, NEW slot, NEW lo, NEW hi, NEW to \in Has,
              Born(k, c, slot, lo, hi), pc' = [pc EXCEPT ![k] = to, ![c] = "start"], pc[k] \in Has
       PROVE  Numbers'
  <2>1. /\ c # k /\ pc[c] = "none"
        /\ \A x \in Tree : x # c => args'[x] = args[x]
        /\ pc'[c] = "start" /\ pc'[k] = to
        /\ \A x \in Tree : x # c /\ x # k => pc'[x] = pc[x]
        /\ tempThreadCount' = tempThreadCount /\ threadCount' = threadCount
        /\ numThreadsLock' = numThreadsLock
    BY <1>1, <1>10 DEF Born, Types
  <2>2. Counted' = Counted
    <3>1. ASSUME NEW j \in Tree
          PROVE  pc'[j] \in Has \/ (pc'[j] = "done" /\ Splits(j)') <=> j \in Counted
      <4>1. CASE j = c
        BY <1>5, <2>1, <4>1
      <4>2. CASE j = k
        BY <1>5, <1>10, <2>1, <4>2
      <4>3. CASE j # c /\ j # k
        BY <1>1, <1>5, <2>1, <4>3
      <4> QED
        BY <4>1, <4>2, <4>3
    <3> QED
      BY <1>4, <3>1
  <2>3. ASSUME NEW j \in Tree PROVE /\ pc'[j] \in {"count", "counted"} => numThreadsLock' = j
                                    /\ pc'[j] = "counted" => tempThreadCount'[j] = threadCount
    BY <1>1, <1>10, <2>1 DEF Numbers
  <2> QED
    BY <1>3, <2>1, <2>2, <2>3
<1>11. CASE Create1(k)
  <2>1. /\ Born(k, 2 * k, tempThreadCount[k], args[k].begin, Mid(args[k])) /\ pc[k] = "create1"
        /\ pc' = [pc EXCEPT ![k] = "create2", ![2 * k] = "start"]
    BY <1>11, BornFacts
  <2>2. 2 * k \in Tree
    BY <2>1 DEF Born
  <2> QED
    BY <1>10, <2>1, <2>2
<1>12. CASE Create2(k)
  <2>1. /\ Born(k, 2 * k + 1, tempThreadCount[k] + 1, Mid(args[k]) + 1, args[k].end)
        /\ pc[k] = "create2" /\ pc' = [pc EXCEPT ![k] = "join1", ![2 * k + 1] = "start"]
    BY <1>12, BornFacts
  <2>2. 2 * k + 1 \in Tree
    BY <2>1 DEF Born
  <2> QED
    BY <1>10, <2>1, <2>2
<1> QED
  BY <1>1, <1>6, <1>7, <1>8, <1>9, <1>11, <1>12, Shapes

(* The middle halves a segment: the left part is the larger.               *)
LEMMA Halves ==
  ASSUME NEW b \in Int, NEW e \in Int, NEW a, a.begin = b, a.end = e
  PROVE  /\ Mid(a) \in Int
         /\ e - b >= 0 => b <= Mid(a) /\ Mid(a) <= e
         /\ \A p \in Nat \ {0} : e - b + 1 >= 2 * p => Mid(a) - b + 1 >= p /\ e - Mid(a) >= p
         /\ e - Mid(a) >= 0 => e - b + 1 >= 1
         /\ \A p \in Nat : e - Mid(a) >= p => e - b + 1 >= 2 * p
<1> DEFINE d == e - b
<1>1. Mid(a) = IF d < 0 THEN b - ((-d) \div 2) ELSE b + (d \div 2)
  BY DEF Mid, Half
<1>2. d \in Int /\ e = b + d
  OBVIOUS
<1> DEFINE q == IF d < 0 THEN -((-d) \div 2) ELSE d \div 2
<1>3. q \in Int /\ Mid(a) = b + q
  BY <1>1, <1>2
<1>4. /\ d >= 0 => q >= 0 /\ (d = 2 * q \/ d = 2 * q + 1)
      /\ d < 0 => q <= 0 /\ (d = 2 * q \/ d = 2 * q - 1)
  BY <1>2
<1> HIDE DEF d, q
<1> QED
  BY <1>2, <1>3, <1>4

(* The least size of a segment whose thread splits, from its children's.   *)
LEMMA PowAbove ==
  ASSUME h \in Int, NEW x \in Nat, x < h
  PROVE  /\ Pow(h - 1 - x) \in Nat /\ Pow(h - 1 - x) >= 1
         /\ x + 1 = h => Pow(h - 1 - x) = 1
         /\ x + 1 < h => Pow(h - 1 - (x + 1)) \in Nat /\ Pow(h - 1 - x) = 2 * Pow(h - 1 - (x + 1))
<1>1. h - 1 - x \in Nat
  OBVIOUS
<1>2. Pow(h - 1 - x) \in Nat /\ Pow(h - 1 - x) >= 1
  BY <1>1, PowNext, PowGrows
<1>3. ASSUME x + 1 = h PROVE Pow(h - 1 - x) = 1
  <2>1. h - 1 - x = 0
    BY <1>3
  <2> QED
    BY <2>1, PowNext
<1>4. ASSUME x + 1 < h
      PROVE  Pow(h - 1 - (x + 1)) \in Nat /\ Pow(h - 1 - x) = 2 * Pow(h - 1 - (x + 1))
  <2> DEFINE m == h - 1 - (x + 1)
  <2>1. m \in Nat /\ m + 1 = h - 1 - x
    BY <1>4
  <2> HIDE DEF m
  <2>2. Pow(m) \in Nat /\ Pow(m + 1) = 2 * Pow(m)
    BY <2>1, PowNext
  <2> QED
    BY <2>1, <2>2 DEF m
<1> QED
  BY <1>2, <1>3, <1>4

(* A thread that has merged had as many elements as its children needed.   *)
LEMMA MergedFits ==
  ASSUME IInv, NEW k \in Tree, Splits(k), pc[k] = "merge", args[k].end - Mid(args[k]) >= 0
  PROVE  Size(k) >= Pow(h - 1 - args[k].height)
<1>1. Types /\ Places /\ Family /\ Sizes
  BY DEF IInv
<1> DEFINE x == args[k].height
           r == 2 * k + 1
<1>2. JoinedRight(k) /\ k \in Started
  BY <1>1 DEF JoinedRight, Past, Started, Types
<1>3. /\ r \in Tree /\ pc[r] = "done"
      /\ args[r].height = x + 1 /\ args[r].begin = Mid(args[k]) + 1 /\ args[r].end = args[k].end
  <2>1. HasRight(k) /\ r \in Tree
    BY <1>1, <1>2, HasFacts
  <2>2. Parent(k)
    BY <1>1 DEF Family
  <2> QED
    BY <1>2, <2>1, <2>2 DEF Parent
<1>4. h \in Int /\ x \in Nat /\ x < h /\ args[k].begin \in Int /\ args[k].end \in Int
  BY <1>1 DEF Types, Splits
<1>5. Mid(args[k]) \in Int
  BY <1>4, Halves
<1> HIDE DEF x
<1>6. CASE x + 1 = h
  BY <1>4, <1>6, PowAbove, Halves DEF Size, x
<1>7. CASE x + 1 < h
  <2>1. Splits(r) /\ r \in Started
    BY <1>1, <1>3, <1>7 DEF Splits, Started, Types
  <2>2. Size(r) >= Pow(h - 1 - (x + 1)) /\ Size(r) = args[k].end - Mid(args[k])
    BY <1>1, <1>3, <1>4, <1>5, <2>1 DEF Sizes, Fits, Size
  <2>3. Pow(h - 1 - (x + 1)) \in Nat /\ Pow(h - 1 - x) = 2 * Pow(h - 1 - (x + 1))
    BY <1>4, <1>7, PowAbove
  <2> QED
    BY <1>4, <2>2, <2>3, Halves DEF Size, x
<1> QED
  BY <1>4, <1>6, <1>7

(* Halving keeps the least size a thread needs to split further; and a     *)
(* merge that does not throw shows that its thread had that size.          *)
LEMMA SizesStep == ASSUME IInv, NEW k \in Tree, func(k) PROVE Sizes'
<1>1. /\ Types /\ Places /\ Sizes /\ Types' /\ Tree' = Tree /\ h' = h /\ input' = input
  BY TypesStep DEF IInv
<1>2. n' = n /\ (LargeEnough' <=> LargeEnough)
  BY <1>1 DEF n, LargeEnough
<1>3. Started = {j \in Tree : pc[j] # "none"} /\ Started' = {j \in Tree : pc'[j] # "none"}
  BY <1>1 DEF Started, Types
<1>4. ASSUME NEW j \in Started, args'[j] = args[j],
             Splits(j) /\ pc'[j] \in {"write", "done"} => Size(j) >= Pow(h - 1 - args[j].height)
      PROVE  Fits(j)'
  <2>1. Fits(j) /\ (Splits(j)' <=> Splits(j)) /\ Size(j)' = Size(j)
    BY <1>1, <1>4 DEF Sizes, Splits, Size
  <2> QED
    BY <1>1, <1>2, <1>4, <2>1 DEF Fits
<1>5. ASSUME NEW j \in Started, args'[j] = args[j], pc'[j] = pc[j] PROVE Fits(j)'
  <2>1. Fits(j)
    BY <1>1 DEF Sizes
  <2> QED
    BY <1>4, <1>5, <2>1 DEF Fits
<1>6. CASE Idle
  BY <1>3, <1>5, <1>6 DEF Idle, Sizes
<1>7. CASE Stays(k)
  <2>1. args' = args /\ Started' = Started /\ k \in Started
    BY <1>3, <1>7 DEF Stays
  <2>2. Fits(k)'
    <3>1. ASSUME Splits(k), pc'[k] \in {"write", "done"} PROVE Size(k) >= Pow(h - 1 - args[k].height)
      <4>1. CASE pc[k] = "write"
        BY <1>1, <2>1, <3>1, <4>1 DEF Sizes, Fits
      <4>2. CASE pc[k] = "merge" /\ args[k].end - Mid(args[k]) >= 0
        BY <3>1, <4>2, MergedFits
      <4> QED
        BY <1>7, <3>1, <4>1, <4>2 DEF Stays
    <3> QED
      BY <1>4, <2>1, <3>1
  <2>3. ASSUME NEW j \in Started, j # k PROVE Fits(j)'
    BY <1>3, <1>5, <1>7, <2>1, <2>3 DEF Stays
  <2> QED
    BY <2>1, <2>2, <2>3 DEF Sizes
<1>8. ASSUME NEW c, NEW slot, NEW lo, NEW hi, NEW to \in {"create2", "join1"},
             Born(k, c, slot, lo, hi), pc' = [pc EXCEPT ![k] = to, ![c] = "start"],
             \/ lo = args[k].begin /\ hi = Mid(args[k])
             \/ lo = Mid(args[k]) + 1 /\ hi = args[k].end
      PROVE  Sizes'
  <2>1. /\ c \in Tree /\ c # k /\ pc[c] = "none" /\ Splits(k) /\ k \in Started
        /\ args'[c] = [threadID |-> slot, height |-> args[k].height + 1, begin |-> lo, end |-> hi]
        /\ \A x \in Tree : x # c => args'[x] = args[x]
        /\ pc'[c] = "start" /\ pc'[k] = to
        /\ \A x \in Tree : x # c /\ x # k => pc'[x] = pc[x]
    BY <1>1, <1>8 DEF Born, Types
  <2>2. Started' = Started \union {c} /\ c \notin Started
    BY <1>3, <1>8, <2>1
  <2>3. ASSUME NEW j \in Started PROVE Fits(j)'
    <3>1. j # c /\ j \in Tree /\ args'[j] = args[j]
      BY <1>3, <2>1, <2>2
    <3>2. CASE j = k
      BY <1>4, <2>1, <3>1, <3>2
    <3>3. CASE j # k
      BY <1>5, <2>1, <3>1, <3>3
    <3> QED
      BY <3>2, <3>3
  <2>4. Fits(c)'
    <3> DEFINE x == args[k].height
               b == args[k].begin
               e == args[k].end
    <3>1. h \in Int /\ x \in Nat /\ x < h /\ b \in Int /\ e \in Int /\ n \in Nat /\ k \in Nat
      BY <1>1, <2>1, TreeFacts DEF Types, Splits
    <3>2. Size(c)' = hi - lo + 1 /\ args'[c].height = x + 1 /\ args'[c].begin = lo /\ args'[c].end = hi
          /\ (Splits(c)' <=> x + 1 < h)
      BY <1>1, <2>1 DEF Size, Splits
    <3>3. pc'[c] \notin {"write", "done"}
      BY <2>1
    <3>4. ASSUME LargeEnough
          PROVE  lo >= 0 /\ hi < n /\ hi - lo + 1 >= IF x + 1 < h THEN Pow(h - 1 - (x + 1)) ELSE 0
      <4>1. b >= 0 /\ e < n /\ e - b + 1 >= Pow(h - 1 - x)
        BY <1>1, <2>1, <3>4 DEF Sizes, Fits, Size
      <4> DEFINE m == Mid(args[k])
      <4>2. \/ lo = b /\ hi = m
            \/ lo = m + 1 /\ hi = e
        BY <1>8, Zenon
      <4>3. /\ m \in Int
            /\ e - b >= 0 => b <= m /\ m <= e
            /\ \A p \in Nat \ {0} : e - b + 1 >= 2 * p => m - b + 1 >= p /\ e - m >= p
        BY <3>1, Halves
      <4>4. Pow(h - 1 - x) \in Nat /\ Pow(h - 1 - x) >= 1
        BY <1>1, <3>1, PowAbove
      <4>5. x + 1 < h => /\ Pow(h - 1 - (x + 1)) \in Nat \ {0}
                         /\ Pow(h - 1 - x) = 2 * Pow(h - 1 - (x + 1))
        BY <1>1, <3>1, <4>4, PowAbove
      <4> HIDE DEF m, x, b, e
      <4>6. b <= m /\ m <= e /\ b >= 0 /\ e < n
        BY <3>1, <4>1, <4>3, <4>4
      <4>7. CASE x + 1 < h
        <5>1. m - b + 1 >= Pow(h - 1 - (x + 1)) /\ e - m >= Pow(h - 1 - (x + 1))
          BY <3>1, <4>1, <4>3, <4>5, <4>7
        <5> QED
          BY <3>1, <4>2, <4>3, <4>5, <4>6, <4>7, <5>1
      <4>8. CASE ~(x + 1 < h)
        BY <3>1, <4>2, <4>3, <4>6, <4>8
      <4> QED
        BY <4>7, <4>8
    <3> QED
      BY <1>1, <1>2, <3>2, <3>3, <3>4 DEF Fits
  <2> QED
    BY <2>2, <2>3, <2>4 DEF Sizes
<1>9. CASE Create1(k)
  BY <1>8, <1>9, BornFacts
<1>10. CASE Create2(k)
  BY <1>8, <1>10, BornFacts
<1> QED
  BY <1>6, <1>7, <1>9, <1>10, StepKinds

(* Elements change hands only within a few threads K.                      *)
LEMMA Redistribute ==
  ASSUME OneHolds, Tree' = Tree, LargeEnough' => LargeEnough, NEW K \in SUBSET Tree,
         \A j \in Tree \ K, i \in Int : Holds(j, i)' => Holds(j, i),
         LargeEnough =>
           \A j \in K, i \in Int : Holds(j, i)' => /\ \E l \in K : Holds(l, i)
                                                   /\ \A l \in K : Holds(l, i)' => j = l
  PROVE  OneHolds'
<1>1. SUFFICES ASSUME LargeEnough, NEW j \in Tree, NEW l \in Tree, NEW i \in Int,
                      Holds(j, i)', Holds(l, i)'
               PROVE  j = l
  BY DEF OneHolds
<1>2. \A a, b \in Tree : Holds(a, i) /\ Holds(b, i) => a = b
  BY <1>1 DEF OneHolds
<1>3. CASE j \notin K /\ l \notin K
  BY <1>1, <1>2, <1>3
<1>4. CASE j \in K /\ l \in K
  BY <1>1, <1>4
<1>5. CASE j \in K /\ l \notin K
  BY <1>1, <1>2, <1>5
<1>6. CASE j \notin K /\ l \in K
  BY <1>1, <1>2, <1>6
<1> QED
  BY <1>3, <1>4, <1>5, <1>6

(* A thread stays joined, and one is joined by its parent alone.           *)
LEMMA JoinedFacts ==
  ASSUME Types, NEW k \in Tree
  PROVE  /\ 2 * k \in Tree => (Joined(2 * k) <=> JoinedLeft(k))
         /\ 2 * k + 1 \in Tree => (Joined(2 * k + 1) <=> JoinedRight(k))
<1>1. k \in Nat /\ \A j \in Tree : j \in Nat
  BY TreeFacts
<1>2. ASSUME NEW j \in Tree
      PROVE  /\ 2 * k = 2 * j => j = k
             /\ 2 * k + 1 = 2 * j + 1 => j = k
             /\ 2 * k # 2 * j + 1 /\ 2 * k + 1 # 2 * j
  BY <1>1
<1> QED
  BY <1>2 DEF Joined

(* A thread that neither moves nor is joined holds what it held.           *)
LEMMA HoldsOthers ==
  ASSUME NEW j \in Tree, NEW i \in Int, Tree' = Tree, pc'[j] = pc[j], args'[j] = args[j],
         \A m \in Tree : /\ JoinedLeft(m) => JoinedLeft(m)'
                         /\ JoinedRight(m) => JoinedRight(m)'
  PROVE  Holds(j, i)' => Holds(j, i)
<1>1. Joined(j) => Joined(j)'
  BY DEF Joined
<1>2. Mid(args[j])' = Mid(args[j])
  BY DEF Mid, Half
<1> QED
  BY <1>1, <1>2 DEF Holds

(* A parent hands its elements to its children and gets them back by       *)
(* joining: at no step do two threads hold one.                            *)
LEMMA HoldsStep == ASSUME IInv, NEW k \in Tree, func(k) PROVE OneHolds'
<1>1. /\ Types /\ Places /\ Family /\ Sizes /\ OneHolds
      /\ Types' /\ Places' /\ Tree' = Tree /\ h' = h /\ input' = input
  BY TypesStep, PlacesStep DEF IInv
<1>2. LargeEnough' => LargeEnough
  BY <1>1 DEF n, LargeEnough
<1> DEFINE b == args[k].begin
           e == args[k].end
           m == Mid(args[k])
<1>3. /\ b \in Int /\ e \in Int /\ m \in Int
      /\ k \in Started /\ LargeEnough /\ Splits(k) => b <= m /\ m <= e
  <2>1. b \in Int /\ e \in Int
    BY <1>1 DEF Types
  <2>2. m \in Int /\ (e - b >= 0 => b <= m /\ m <= e)
    BY <2>1, Halves
  <2>3. ASSUME k \in Started, LargeEnough, Splits(k) PROVE e - b >= 0
    <3>1. e - b + 1 >= Pow(h - 1 - args[k].height)
      BY <1>1, <2>3 DEF Sizes, Fits, Size
    <3>2. h \in Int /\ args[k].height \in Nat /\ args[k].height < h
      BY <1>1, <2>3 DEF Types, Splits
    <3>3. Pow(h - 1 - args[k].height) \in Nat /\ Pow(h - 1 - args[k].height) >= 1
      BY <3>2, PowAbove
    <3> QED
      BY <2>1, <3>1, <3>3
  <2> QED
    BY <2>1, <2>2, <2>3
<1>4. CASE Idle
  <2>1. \A j \in Tree, i \in Int : Holds(j, i)' => Holds(j, i)
    BY <1>1, <1>4, HoldsOthers, OthersKeep DEF Idle
  <2> QED
    BY <1>1, <1>2, <2>1 DEF OneHolds
<1>5. CASE Stays(k)
  <2>1. /\ args' = args /\ Mid(args[k])' = m
        /\ \A j \in Tree : j # k => pc'[j] = pc[j]
        /\ pc[k] \notin {"none", "done", "create2"} /\ k \in Started
    BY <1>5 DEF Stays, Mid, Half
  <2>2. ASSUME NEW j \in Tree PROVE /\ JoinedLeft(j) => JoinedLeft(j)'
                                    /\ JoinedRight(j) => JoinedRight(j)'
    <3>1. CASE j = k
      BY <1>5, <3>1 DEF Stays, JoinedLeft, JoinedRight, Past
    <3>2. CASE j # k
      BY <1>1, <2>1, <3>2, OthersKeep
    <3> QED
      BY <3>1, <3>2
  <2>3. \A j \in Tree, i \in Int : j # k => (Holds(j, i)' => Holds(j, i))
    BY <1>1, <2>1, <2>2, HoldsOthers
  <2>4. CASE pc[k] \notin {"join1", "join2"}
    <3>1. \A i \in Int : Holds(k, i)' => Holds(k, i)
      BY <2>1, <2>4 DEF Holds
    <3> QED
      BY <1>1, <1>2, <2>3, <3>1 DEF OneHolds
  <2>5. ASSUME NEW c \in Tree, c # k, Joined(c)', ~Joined(c), pc[c] = "done",
               \/ pc[k] = "join1" /\ pc'[k] = "join2" /\ args[c].begin = b /\ args[c].end = m
               \/ pc[k] = "join2" /\ pc'[k] = "merge" /\ args[c].begin = m + 1 /\ args[c].end = e
        PROVE  OneHolds'
    <3> DEFINE K == {k, c}
    <3>1. \A j \in Tree \ K, i \in Int : Holds(j, i)' => Holds(j, i)
      BY <2>3
    <3>2. ASSUME NEW i \in Int PROVE ~Holds(c, i)'
      <4>1. pc'[c] = "done"
        BY <2>1, <2>5
      <4> QED
        BY <2>5, <4>1 DEF Holds
    <3>3. ASSUME NEW i \in Int, Holds(k, i)' PROVE \E l \in K : Holds(l, i)
      <4>1. b <= i /\ i <= e /\ (pc'[k] = "join2" => i <= m)
        BY <2>1, <3>3 DEF Holds
      <4>2. CASE pc[k] = "join1"
        <5>1. args[c].begin <= i /\ i <= args[c].end
          BY <2>5, <4>1, <4>2
        <5>2. Holds(c, i)
          BY <2>5, <5>1 DEF Holds
        <5> QED
          BY <5>2
      <4>3. CASE pc[k] = "join2" /\ i <= m
        <5>1. Holds(k, i)
          BY <4>1, <4>3 DEF Holds
        <5> QED
          BY <5>1
      <4>4. CASE pc[k] = "join2" /\ ~(i <= m)
        <5>1. args[c].begin <= i /\ i <= args[c].end
          BY <1>3, <2>5, <4>1, <4>4
        <5>2. Holds(c, i)
          BY <2>5, <5>1 DEF Holds
        <5> QED
          BY <5>2
      <4> QED
        BY <2>5, <4>2, <4>3, <4>4
    <3>4. \A j \in K, i \in Int : Holds(j, i)' => /\ \E l \in K : Holds(l, i)
                                                  /\ \A l \in K : Holds(l, i)' => j = l
      BY <3>2, <3>3
    <3>5. K \in SUBSET Tree
      OBVIOUS
    <3> HIDE DEF K
    <3> QED
      BY <1>1, <1>2, <3>1, <3>4, <3>5, Redistribute
  <2>6. HasLeft(k) => 2 * k \in Tree /\ 2 * k + 1 \in Tree /\ Parent(k)
    BY <1>1, HasFacts DEF Family
  <2>7. 2 * k # k /\ 2 * k + 1 # k
    BY <1>1, TreeFacts
  <2>8. CASE pc[k] = "join1"
    <3>1. HasLeft(k) /\ HasRight(k) /\ ~JoinedLeft(k) /\ pc'[k] = "join2" /\ pc[2 * k] = "done"
      BY <1>5, <2>8 DEF HasLeft, HasRight, JoinedLeft, Past, Stays
    <3>2. JoinedLeft(k)'
      BY <3>1 DEF JoinedLeft, Past
    <3>3. Joined(2 * k)' /\ ~Joined(2 * k)
      BY <1>1, <2>6, <3>1, <3>2, JoinedFacts DEF Joined
    <3>4. args[2 * k].begin = b /\ args[2 * k].end = m
      BY <2>6, <3>1 DEF Parent
    <3>5. 2 * k \in Tree /\ 2 * k # k
      BY <2>6, <2>7, <3>1
    <3>6. pc[2 * k] = "done" /\ pc'[k] = "join2"
      BY <3>1
    <3> QED
      BY <2>5, <2>8, <3>3, <3>4, <3>5, <3>6
  <2>9. CASE pc[k] = "join2"
    <3>1. HasLeft(k) /\ HasRight(k) /\ ~JoinedRight(k) /\ pc'[k] = "merge" /\ pc[2 * k + 1] = "done"
      BY <1>5, <2>9 DEF HasLeft, HasRight, JoinedRight, Past, Stays
    <3>2. JoinedRight(k)'
      BY <3>1 DEF JoinedRight, Past
    <3>3. Joined(2 * k + 1)' /\ ~Joined(2 * k + 1)
      BY <1>1, <2>6, <3>1, <3>2, JoinedFacts DEF Joined
    <3>4. args[2 * k + 1].begin = m + 1 /\ args[2 * k + 1].end = e
      BY <2>6, <3>1 DEF Parent
    <3> QED
      BY <2>5, <2>6, <2>7, <2>9, <3>1, <3>3, <3>4
  <2> QED
    BY <2>4, <2>8, <2>9
<1>6. ASSUME NEW c, NEW slot, NEW lo, NEW hi, NEW to,
             Born(k, c, slot, lo, hi), pc' = [pc EXCEPT ![k] = to, ![c] = "start"],
             \/ pc[k] = "create1" /\ to = "create2" /\ lo = b /\ hi = m
             \/ pc[k] = "create2" /\ to = "join1" /\ lo = m + 1 /\ hi = e
      PROVE  OneHolds'
  <2>1. /\ c \in Tree /\ c # k /\ pc[c] = "none" /\ Splits(k) /\ k \in Started
        /\ args'[c] = [threadID |-> slot, height |-> args[k].height + 1, begin |-> lo, end |-> hi]
        /\ \A x \in Tree : x # c => args'[x] = args[x]
        /\ pc'[c] = "start" /\ pc'[k] = to
        /\ \A x \in Tree : x # c /\ x # k => pc'[x] = pc[x]
    BY <1>1, <1>6 DEF Born, Types
  <2>2. ASSUME NEW j \in Tree PROVE /\ JoinedLeft(j) => JoinedLeft(j)'
                                    /\ JoinedRight(j) => JoinedRight(j)'
    <3>1. CASE j = k \/ j = c
      BY <1>6, <2>1, <3>1 DEF JoinedLeft, JoinedRight, Past
    <3>2. CASE j # k /\ j # c
      BY <1>1, <2>1, <3>2, OthersKeep
    <3> QED
      BY <3>1, <3>2
  <2> DEFINE K == {k, c}
  <2>3. \A j \in Tree \ K, i \in Int : Holds(j, i)' => Holds(j, i)
    BY <1>1, <2>1, <2>2, HoldsOthers
  <2>4. ASSUME LargeEnough, NEW i \in Int
        PROVE  /\ Holds(k, i)' => Holds(k, i) /\ ~Holds(c, i)'
               /\ Holds(c, i)' => Holds(k, i)
    <3>1. b <= m /\ m <= e /\ b \in Int /\ m \in Int /\ e \in Int
      BY <1>3, <2>1, <2>4
    <3>2. /\ Holds(c, i)' => lo <= i /\ i <= hi
          /\ Mid(args[k])' = m
      BY <2>1 DEF Holds, Mid, Half
    <3>3. CASE pc[k] = "create1" /\ to = "create2" /\ lo = b /\ hi = m
      <4>1. Holds(k, i)' => b <= i /\ i <= e /\ i > m
        BY <2>1, <3>2, <3>3 DEF Holds
      <4>2. b <= i /\ i <= e => Holds(k, i)
        BY <3>3 DEF Holds
      <4> QED
        BY <3>1, <3>2, <3>3, <4>1, <4>2
    <3>4. CASE pc[k] = "create2" /\ to = "join1" /\ lo = m + 1 /\ hi = e
      <4>1. ~Holds(k, i)'
        BY <2>1, <3>4 DEF Holds
      <4>2. b <= i /\ i <= e /\ i > m => Holds(k, i)
        BY <3>4 DEF Holds
      <4> QED
        BY <3>1, <3>2, <3>4, <4>1, <4>2
    <3> QED
      BY <1>6, <3>3, <3>4
  <2>5. LargeEnough => \A j \in K, i \in Int : Holds(j, i)' => /\ \E l \in K : Holds(l, i)
                                                               /\ \A l \in K : Holds(l, i)' => j = l
    BY <2>4
  <2>6. K \in SUBSET Tree
    BY <2>1
  <2> HIDE DEF K
  <2> QED
    BY <1>1, <1>2, <2>3, <2>5, <2>6, Redistribute
<1>7. CASE Create1(k)
  BY <1>6, <1>7, BornFacts
<1>8. CASE Create2(k)
  BY <1>6, <1>8, BornFacts
<1> QED
  BY <1>4, <1>5, <1>7, <1>8, StepKinds

-----------------------------------------------------------------------------
(* The last conjunct: where the root is, and what made the process abort.  *)
LEMMA OutcomeStep == ASSUME IInv, NEW k \in Tree, func(k) PROVE Outcome'
<1>1. /\ Types /\ Places /\ Sizes /\ Outcome /\ Types' /\ Tree' = Tree /\ h' = h /\ input' = input
  BY TypesStep DEF IInv
<1>2. n' = n /\ (LargeEnough' <=> LargeEnough)
  BY <1>1 DEF n, LargeEnough
<1>3. status = "running"
  BY Zenon DEF func, Split, ReadCount, AddCount, Create1, Create2, Create, Join1, Join2, Join,
               MergeCopy, MergeOutside, MergeThrows, MergeWrite, SortNothing, SortCopy, SortWrite,
               Goto
<1>4. /\ MergeThrows(k) => status' = "aborted"
      /\ MergeOutside(k) => status' \in {"running", "aborted"}
      /\ ~MergeThrows(k) /\ ~MergeOutside(k) => status' = status
  BY Zenon DEF func, Split, ReadCount, AddCount, Create1, Create2, Create, Join1, Join2, Join,
               MergeCopy, MergeOutside, MergeThrows, MergeWrite, SortNothing, SortCopy, SortWrite,
               Goto
<1>5. ASSUME pc[k] = "merge", LargeEnough
      PROVE  args[k].end - Mid(args[k]) >= 0 /\ InRange(args[k].begin, args[k].end)
  <2> DEFINE x == args[k].height
  <2>1. Splits(k) /\ k \in Started
    BY <1>1, <1>5 DEF Places, Splitting, Started, Types
  <2>2. h \in Int /\ x \in Nat /\ x < h /\ args[k].begin \in Int /\ args[k].end \in Int
    BY <1>1, <2>1 DEF Types, Splits
  <2>3. /\ args[k].begin >= 0 /\ args[k].end < n
        /\ args[k].end - args[k].begin + 1 >= Pow(h - 1 - x)
    BY <1>1, <1>5, <2>1 DEF Sizes, Fits, Size
  <2>4. Pow(h - 1 - x) \in Nat /\ Pow(h - 1 - x) >= 1
    BY <2>2, PowAbove
  <2>5. /\ Mid(args[k]) \in Int
        /\ args[k].end - args[k].begin >= 0 => Mid(args[k]) <= args[k].end
    BY <2>2, Halves
  <2> HIDE DEF x
  <2> QED
    BY <2>2, <2>3, <2>4, <2>5 DEF InRange
<1>6. status' = "aborted" => ~LargeEnough
  <2>1. CASE MergeThrows(k)
    <3>1. args[k].begin \in Int /\ args[k].end \in Int
      BY <1>1 DEF Types
    <3>2. Mid(args[k]) \in Int
      BY <3>1, Halves
    <3> QED
      BY <1>5, <2>1, <3>1, <3>2 DEF MergeThrows
  <2>2. CASE MergeOutside(k)
    BY <1>5, <2>2 DEF MergeOutside, Goto
  <2> QED
    BY <1>3, <1>4, <2>1, <2>2
<1>7. status' # "finished"
  BY <1>3, <1>4
<1> QED
  BY <1>2, <1>6, <1>7 DEF Outcome

(* The invariant holds in every reachable state.                           *)
THEOREM IndInv == Spec => []IInv
<1>1. Init => IInv
  BY InitInv
<1>2. IInv /\ [Next]_vars => IInv'
  <2>1. SUFFICES ASSUME IInv, [Next]_vars PROVE IInv'
    OBVIOUS
  <2>2. ASSUME NEW k \in DOMAIN pc, func(k) PROVE IInv'
    <3>1. k \in Tree
      BY <2>1 DEF IInv, Types
    <3>2. Types' /\ Places' /\ Family'
      BY <2>1, <2>2, <3>1, TypesStep, PlacesStep, FamilyStep
    <3>3. Numbers' /\ Sizes' /\ OneHolds' /\ Outcome'
      BY <2>1, <2>2, <3>1, NumbersStep, SizesStep, HoldsStep, OutcomeStep
    <3> QED
      BY <3>2, <3>3 DEF IInv
  <2>3. CASE Finish \/ UNCHANGED vars
    <3>1. /\ h' = h /\ t' = t /\ input' = input /\ threadCount' = threadCount
          /\ numThreadsLock' = numThreadsLock /\ th' = th /\ pc' = pc /\ args' = args
          /\ tempThreadCount' = tempThreadCount
      BY <2>3, Zenon DEF Finish, Unchanged, vars, shared, local
    <3>2. Outcome'
      BY <2>1, <2>3, <3>1, Zenon DEF IInv, Outcome, Finish, vars, LargeEnough, n
    <3>3. Tree' = Tree /\ Counted' = Counted /\ Started' = Started /\ n' = n
      BY <3>1 DEF Tree, Nodes, Counted, Started, Past, Splits, n
    <3>4. Types' /\ Places' /\ Family' /\ Numbers'
      BY <2>1, <3>1, <3>3 DEF IInv, Types, Places, Family, Parent, Numbers, HasLeft, HasRight,
                             JoinedLeft, JoinedRight, Past, Splits, Mid, Half
    <3>5. Sizes' /\ OneHolds'
      BY <2>1, <3>1, <3>3 DEF IInv, Sizes, OneHolds, Fits, Size, Splits, LargeEnough, Holds, Joined,
                             JoinedLeft, JoinedRight, Past, Mid, Half
    <3> QED
      BY <3>2, <3>4, <3>5 DEF IInv
  <2> QED
    BY <2>1, <2>2, <2>3 DEF Next, Ended
<1> QED
  BY <1>1, <1>2, PTL DEF Spec

-----------------------------------------------------------------------------
(* The numbers handed out under numThreadsLock are all different, and each *)
(* Pthread_join waits for the thread its caller created.                   *)
THEOREM HandlesAreKept == Spec => []HandlesKept
<1>1. IInv => HandlesKept
  <2>1. SUFFICES ASSUME IInv PROVE HandlesKept
    OBVIOUS
  <2>2. Types /\ Places /\ Family /\ Numbers
    BY <2>1 DEF IInv
  (* A thread that is not the root was created by its parent.              *)
  <2>3. ASSUME NEW c \in Started, c # 1
        PROVE  \E k \in Counted : \/ /\ c = 2 * k /\ HasLeft(k)
                                     /\ args[c].threadID = tempThreadCount[k]
                                     /\ th[tempThreadCount[k]] = c
                                  \/ /\ c = 2 * k + 1 /\ HasRight(k)
                                     /\ args[c].threadID = tempThreadCount[k] + 1
                                     /\ th[tempThreadCount[k] + 1] = c
    <3>1. c \in Tree /\ c \in Nat /\ c >= 2 /\ c <= t /\ pc[c] # "none" /\ t \in Nat
      BY <2>2, <2>3, TreeFacts DEF Started
    <3>2. PICK k \in Nat : c = 2 * k \/ c = 2 * k + 1
      <4>1. c \div 2 \in Nat /\ (c = 2 * (c \div 2) \/ c = 2 * (c \div 2) + 1)
        BY <3>1
      <4> QED
        BY <4>1
    <3>3. k \in Tree
      BY <2>2, <3>1, <3>2, TreeFacts
    <3>4. Parent(k)
      BY <2>2, <3>3 DEF Family
    <3>5. HasRight(k) => HasLeft(k)
      BY <2>2, <3>3, HasFacts
    <3>6. HasLeft(k) => k \in Counted
      BY <2>2, <3>3, HasFacts
    <3>7. CASE c = 2 * k
      BY <3>1, <3>4, <3>6, <3>7 DEF Parent
    <3>8. CASE c = 2 * k + 1
      BY <3>1, <3>4, <3>5, <3>6, <3>8 DEF Parent
    <3> QED
      BY <3>2, <3>7, <3>8
  <2>4. \A k \in Counted : /\ tempThreadCount[k] \in Nat /\ tempThreadCount[k] >= 1
                           /\ tempThreadCount[k] + 1 < threadCount
                           /\ k \in Nat
    BY <2>2, TreeFacts DEF Numbers, Types, Counted
  <2>5. \A j, k \in Counted : j # k => tempThreadCount[j] \notin {tempThreadCount[k], tempThreadCount[k] + 1}
    BY <2>2 DEF Numbers
  <2>6. threadCount \in Nat /\ t \in Nat /\ (Counted # {} => threadCount <= t)
    BY <2>2, CountBound, TreeFacts DEF Types
  <2>7. ASSUME NEW c \in Started \ {1}
        PROVE  args[c].threadID \in 1 .. t - 1 /\ th[args[c].threadID] = c
    BY <2>3, <2>4, <2>6
  <2>8. args[1].threadID = 0
    BY <2>2 DEF Places
  <2>9. ASSUME NEW j \in Started, NEW k \in Started, args[j].threadID = args[k].threadID PROVE j = k
    <3>1. CASE j # 1 /\ k # 1
      BY <2>7, <2>9, <3>1
    <3>2. CASE j = 1 \/ k = 1
      BY <2>6, <2>7, <2>8, <2>9, <3>2
    <3> QED
      BY <3>1, <3>2
  <2> QED
    BY <2>7, <2>9 DEF HandlesKept
<1> QED
  BY <1>1, IndInv, PTL

(* No two threads are ever at work on the same element of arr: the joins   *)
(* keep a parent away from what its children still hold.                   *)
THEOREM NoRaces == Spec => []NoRace
<1>1. IInv => NoRace
  <2>1. SUFFICES ASSUME IInv, LargeEnough, NEW j \in Busy, NEW k \in Busy,
                        NEW i \in (args[j].begin .. args[j].end) \intersect
                                  (args[k].begin .. args[k].end)
                 PROVE  j = k
    BY DEF NoRace
  <2>2. Types /\ OneHolds
    BY <2>1 DEF IInv
  <2>3. j \in Tree /\ k \in Tree
    BY <2>2 DEF Busy, Started, Types
  <2>4. /\ args[j].begin \in Int /\ args[j].end \in Int
        /\ args[k].begin \in Int /\ args[k].end \in Int
    BY <2>2, <2>3 DEF Types
  <2>5. i \in Int /\ Holds(j, i) /\ Holds(k, i)
    BY <2>4 DEF Holds, Busy
  <2> QED
    BY <2>1, <2>2, <2>3, <2>5 DEF OneHolds
<1> QED
  BY <1>1, IndInv, PTL

(* The program ends with its result only when the file has half as many    *)
(* elements as there are deepest threads, and aborts only when it has not. *)
THEOREM AbortsOnlyIfTooSmall == Spec => []AbortsIffTooSmall
<1>1. IInv => AbortsIffTooSmall
  <2>1. SUFFICES ASSUME IInv PROVE AbortsIffTooSmall
    OBVIOUS
  <2>2. Types /\ Places /\ Sizes /\ Outcome
    BY <2>1 DEF IInv
  <2>3. ASSUME status = "finished" PROVE LargeEnough
    <3>1. SUFFICES ASSUME h >= 1 PROVE n >= Pow(h - 1)
      BY <2>2 DEF LargeEnough, Pow, Types
    <3>2. 1 \in Started /\ pc[1] = "done" /\ args[1] = [threadID |-> 0, height |-> 0, begin |-> 0, end |-> n - 1]
      BY <2>2, <2>3 DEF Outcome, Places, Started, Types, Tree
    <3>3. h - 1 - 0 = h - 1 /\ h \in Int /\ n \in Nat
      BY <2>2, TreeFacts DEF Types
    <3>4. Splits(1)
      BY <3>1, <3>2, <3>3 DEF Splits
    <3>5. Size(1) >= Pow(h - 1 - args[1].height)
      BY <2>2, <3>2, <3>4 DEF Sizes, Fits
    <3>6. Size(1) >= Pow(h - 1)
      BY <3>2, <3>3, <3>5
    <3> QED
      BY <3>2, <3>3, <3>6 DEF Size
  <2> QED
    BY <2>2, <2>3 DEF AbortsIffTooSmall, Outcome
<1> QED
  BY <1>1, IndInv, PTL
-----------------------------------------------------------------------------
(* Functions defined recursively.  Where body asks for the function at     *)
(* smaller arguments only, there is a function that is its own body.       *)
Smaller(D, V, size, body) ==
  /\ size \in [D -> Nat] /\ body \in [[D -> V] -> [D -> V]] /\ V # {}
  /\ \A x \in D : \A f, g \in [D -> V] :
       (\A y \in D : size[y] < size[x] => f[y] = g[y]) => body[f][x] = body[g][x]

RightBelow(f, m, D, V, size, body) ==
  /\ f \in [D -> V]
  /\ \A x \in D : size[x] < m => f[x] = body[f][x]

(* What is right below some size exists for each size,                     *)
LEMMA RightExists ==
  ASSUME NEW D, NEW V, NEW size, NEW body, Smaller(D, V, size, body), NEW m \in Nat
  PROVE  \E f : RightBelow(f, m, D, V, size, body)
<1> DEFINE T == {k \in Nat : ~\E f : RightBelow(f, k, D, V, size, body)}
<1>1. ASSUME T # {} PROVE FALSE
  <2>1. PICK k \in T : \A y \in T : k <= y
    BY <1>1, LeastNatural
  <2>2. CASE k = 0
    <3>1. PICK v \in V : TRUE
      BY DEF Smaller
    <3> DEFINE f == [x \in D |-> v]
    <3>2. RightBelow(f, 0, D, V, size, body)
      BY DEF RightBelow, Smaller
    <3> QED
      BY <2>1, <2>2, <3>2
  <2>3. CASE k # 0
    <3>1. k - 1 \in Nat /\ k - 1 \notin T
      BY <2>1, <2>3
    <3>2. PICK g : RightBelow(g, k - 1, D, V, size, body)
      BY <3>1
    <3> DEFINE f == body[g]
    <3>3. f \in [D -> V] /\ g \in [D -> V]
      BY <3>2 DEF RightBelow, Smaller
    <3>4. ASSUME NEW x \in D, size[x] < k PROVE f[x] = body[f][x]
      <4>1. ASSUME NEW y \in D, size[y] < size[x] PROVE g[y] = f[y]
        <5>1. size[x] \in Nat /\ size[y] \in Nat
          BY DEF Smaller
        <5> QED
          BY <3>1, <3>2, <3>4, <4>1, <5>1 DEF RightBelow
      <4> HIDE DEF f
      <4>2. body[g][x] = body[f][x]
        BY <3>3, <4>1 DEF Smaller
      <4> QED
        BY <4>2 DEF f
    <3>5. RightBelow(f, k, D, V, size, body)
      BY <3>3, <3>4 DEF RightBelow
    <3> QED
      BY <2>1, <3>5
  <2> QED
    BY <2>2, <2>3
<1> QED
  BY <1>1

(* and there is only one.                                                  *)
LEMMA RightAgree ==
  ASSUME NEW D, NEW V, NEW size, NEW body, Smaller(D, V, size, body), NEW m \in Nat, NEW k \in Nat,
         NEW f, RightBelow(f, m, D, V, size, body), NEW g, RightBelow(g, k, D, V, size, body),
         NEW x \in D, size[x] < m, size[x] < k
  PROVE  f[x] = g[x]
<1> DEFINE T == {z \in Nat : z < m /\ z < k /\ \E y \in D : size[y] = z /\ f[y] # g[y]}
<1>0. \A y \in D : size[y] \in Nat
  BY DEF Smaller
<1>1. ASSUME T # {} PROVE FALSE
  <2>1. PICK z \in T : \A y \in T : z <= y
    BY <1>1, LeastNatural
  <2>2. PICK w \in D : size[w] = z /\ f[w] # g[w]
    BY <2>1
  <2>3. ASSUME NEW y \in D, size[y] < size[w] PROVE f[y] = g[y]
    BY <1>0, <2>1, <2>2, <2>3
  <2>4. body[f][w] = body[g][w]
    BY <2>3 DEF Smaller, RightBelow
  <2>5. f[w] = body[f][w] /\ g[w] = body[g][w]
    BY <2>1, <2>2 DEF RightBelow
  <2> QED
    BY <2>2, <2>4, <2>5
<1> QED
  BY <1>0, <1>1

(* So is one that is right at every argument.                              *)
LEMMA RecursionExists ==
  ASSUME NEW D, NEW V, NEW size, NEW body, Smaller(D, V, size, body)
  PROVE  \E f \in [D -> V] : f = body[f]
<1> DEFINE G(m) == CHOOSE f : RightBelow(f, m, D, V, size, body)
           f == [x \in D |-> G(size[x] + 1)[x]]
<1>1. ASSUME NEW m \in Nat PROVE RightBelow(G(m), m, D, V, size, body)
  BY RightExists
<1> HIDE DEF G
<1>2. \A x \in D : size[x] \in Nat
  BY DEF Smaller
<1>3. f \in [D -> V]
  <2>1. ASSUME NEW x \in D PROVE G(size[x] + 1)[x] \in V
    BY <1>1, <1>2 DEF RightBelow
  <2> QED
    BY <2>1
<1>4. ASSUME NEW x \in D PROVE f[x] = body[f][x]
  <2> DEFINE g == G(size[x] + 1)
             m == size[x] + 1
  <2>1. RightBelow(g, m, D, V, size, body) /\ m \in Nat /\ size[x] < m
    BY <1>1, <1>2
  <2>2. f[x] = g[x] /\ g[x] = body[g][x] /\ g \in [D -> V]
    BY <2>1 DEF RightBelow
  <2>3. ASSUME NEW y \in D, size[y] < size[x] PROVE f[y] = g[y]
    <3>1. size[y] + 1 \in Nat /\ size[y] < size[y] + 1 /\ size[y] < m
      BY <1>2, <2>3
    <3>2. RightBelow(G(size[y] + 1), size[y] + 1, D, V, size, body)
      BY <1>1, <3>1
    <3> HIDE DEF g, m
    <3>3. G(size[y] + 1)[y] = g[y]
      BY <2>1, <3>1, <3>2, RightAgree
    <3> QED
      BY <3>3
  <2> HIDE DEF f, g
  <2>4. body[f][x] = body[g][x]
    BY <1>3, <2>2, <2>3 DEF Smaller
  <2> QED
    BY <2>2, <2>4
<1> HIDE DEF f
<1>5. body[f] \in [D -> V]
  BY <1>3 DEF Smaller
<1>6. f = body[f]
  BY <1>3, <1>4, <1>5
<1> QED
  BY <1>3, <1>6

-----------------------------------------------------------------------------
(* Sequences of bytes: their parts, their order, how often a byte occurs.  *)
Occurs(s, b) == {p \in 1..Len(s) : s[p] = b}
Count(s, b) == Cardinality(Occurs(s, b))

(* The length and the elements of two sequences put together.              *)
LEMMA Cat ==
  ASSUME NEW r \in Seq(Bytes), NEW s \in Seq(Bytes)
  PROVE  /\ r \o s \in Seq(Bytes) /\ Len(r \o s) = Len(r) + Len(s)
         /\ Len(r) \in Nat /\ Len(s) \in Nat
         /\ \A p \in 1..Len(r) : (r \o s)[p] = r[p] /\ r[p] \in Bytes
         /\ \A p \in 1..Len(s) : (r \o s)[Len(r) + p] = s[p] /\ s[p] \in Bytes
OBVIOUS

(* How often a byte occurs is a number.                                    *)
LEMMA CountFinite ==
  ASSUME NEW s \in Seq(Bytes), NEW b
  PROVE  IsFiniteSet(Occurs(s, b)) /\ Count(s, b) \in Nat
<1>1. Len(s) \in Nat
  OBVIOUS
<1>2. IsFiniteSet(1..Len(s))
  BY <1>1, FS_Interval
<1>3. IsFiniteSet(Occurs(s, b))
  BY <1>2, FS_Subset DEF Occurs
<1> QED
  BY <1>3, FS_CardinalityType DEF Count

(* A byte occurs in two sequences put together as often as in both.        *)
LEMMA CountCat ==
  ASSUME NEW r \in Seq(Bytes), NEW s \in Seq(Bytes), NEW b
  PROVE  Count(r \o s, b) = Count(r, b) + Count(s, b)
<1> DEFINE c == r \o s
           m == Len(r)
           Late == {p \in (m + 1)..Len(c) : c[p] = b}
           f == [p \in Occurs(s, b) |-> m + p]
<1>1. /\ c \in Seq(Bytes) /\ m \in Nat /\ Len(s) \in Nat /\ Len(c) = m + Len(s)
      /\ \A p \in 1..m : c[p] = r[p]
      /\ \A p \in 1..Len(s) : c[m + p] = s[p]
  BY Cat
<1> HIDE DEF c, m
<1>2. Occurs(c, b) = Occurs(r, b) \cup Late /\ Occurs(r, b) \cap Late = {}
  <2>1. \A p \in 1..Len(c) : p \in 1..m \/ p \in (m + 1)..Len(c)
    BY <1>1
  <2>2. 1..m \subseteq 1..Len(c) /\ (m + 1)..Len(c) \subseteq 1..Len(c) /\ 1..m \cap (m + 1)..Len(c) = {}
    BY <1>1
  <2>3. Occurs(r, b) = {p \in 1..m : c[p] = b}
    BY <1>1 DEF Occurs, m
  <2> QED
    BY <2>1, <2>2, <2>3 DEF Occurs
<1>3. IsFiniteSet(Occurs(r, b)) /\ IsFiniteSet(Occurs(s, b)) /\ Count(r, b) \in Nat /\ Count(s, b) \in Nat
  BY CountFinite
<1>4. f \in Bijection(Occurs(s, b), Late)
  <2>1. \A p \in Occurs(s, b) : f[p] \in Late /\ f[p] = m + p /\ p \in Int
    BY <1>1 DEF Occurs
  <2>2. ASSUME NEW q \in Late PROVE \E p \in Occurs(s, b) : f[p] = q
    <3>1. q - m \in 1..Len(s) /\ m + (q - m) = q
      BY <1>1
    <3>2. s[q - m] = b
      BY <1>1, <3>1
    <3>3. q - m \in Occurs(s, b)
      BY <3>1, <3>2 DEF Occurs
    <3> QED
      BY <3>1, <3>3
  <2>3. f \in [Occurs(s, b) -> Late]
    BY <2>1
  <2>4. \A p, q \in Occurs(s, b) : f[p] = f[q] => p = q
    BY <1>1, <2>1
  <2>5. f \in Injection(Occurs(s, b), Late)
    BY <2>3, <2>4 DEF Injection, IsInjective
  <2>6. f \in Surjection(Occurs(s, b), Late)
    BY <2>2, <2>3 DEF Surjection
  <2> QED
    BY <2>5, <2>6 DEF Bijection
<1>5. IsFiniteSet(Late) /\ Cardinality(Late) = Count(s, b)
  BY <1>3, <1>4, FS_Bijection DEF ExistsBijection, Count
<1>6. Cardinality(Occurs(r, b) \cap Late) = 0
  BY <1>2, FS_EmptySet
<1>7. Cardinality(Occurs(c, b)) = Cardinality(Occurs(r, b)) + Cardinality(Late) - Cardinality(Occurs(r, b) \cap Late)
  BY <1>2, <1>3, <1>5, FS_Union
<1>8. Count(c, b) = Count(r, b) + Count(s, b)
  BY <1>3, <1>5, <1>6, <1>7 DEF Count
<1> QED
  BY <1>8 DEF c

(* A sequence that is not empty is its first element and the rest, each of *)
(* which is one place further on in it.                                    *)
LEMMA HeadTail ==
  ASSUME NEW s \in Seq(Bytes), s # <<>>
  PROVE  /\ s[1] \in Bytes /\ Tail(s) \in Seq(Bytes) /\ Len(Tail(s)) = Len(s) - 1 /\ Len(s) >= 1
         /\ <<s[1]>> \in Seq(Bytes) /\ Len(<<s[1]>>) = 1
         /\ s = <<s[1]>> \o Tail(s)
         /\ \A p \in 2..Len(s) : p - 1 \in 1..Len(Tail(s)) /\ s[p] = Tail(s)[p - 1]
         /\ \A p \in 1..Len(Tail(s)) : p + 1 \in 2..Len(s) /\ Tail(s)[p] = s[p + 1]
<1>1. s[1] \in Bytes /\ Tail(s) \in Seq(Bytes) /\ Len(Tail(s)) = Len(s) - 1 /\ Len(s) >= 1
  BY EmptySeq, LenProperties
<1>2. <<s[1]>> \in Seq(Bytes) /\ Len(<<s[1]>>) = 1
  BY <1>1
<1>3. \A p \in 1..Len(Tail(s)) : p + 1 \in 2..Len(s) /\ Tail(s)[p] = s[p + 1]
  BY <1>1
<1>4. \A p \in 2..Len(s) : p - 1 \in 1..Len(Tail(s)) /\ s[p] = Tail(s)[p - 1]
  BY <1>1
<1>5. s = <<s[1]>> \o Tail(s)
  <2> DEFINE c == <<s[1]>> \o Tail(s)
  <2>1. c \in Seq(Bytes) /\ Len(c) = Len(s)
    BY <1>1, <1>2, Cat
  <2>2. \A p \in 1..Len(s) : c[p] = s[p]
    BY <1>1
  <2> HIDE DEF c
  <2>3. c = s
    BY <2>1, <2>2, SeqEqual
  <2> QED
    BY <2>3 DEF c
<1> QED
  BY <1>1, <1>2, <1>3, <1>4, <1>5

-----------------------------------------------------------------------------
(* merge, one step of its loops, and that it is defined by it.             *)
Pairs == Seq(Bytes) \X Seq(Bytes)
MergeOf(f, l, r) == IF l = <<>> THEN r
                    ELSE IF r = <<>> THEN l
                    ELSE IF l[1] <= r[1] THEN <<l[1]>> \o f[<<Tail(l), r>>]
                                         ELSE <<r[1]>> \o f[<<l, Tail(r)>>]

Within(y, x, size) == y \in Pairs /\ size[y] < size[x]

(* merge is what its three loops make of it: a function for which the      *)
(* definition holds exists, as each call is for fewer elements.            *)
LEMMA MergeDefined ==
  ASSUME NEW l \in Seq(Bytes), NEW r \in Seq(Bytes)
  PROVE  merge[<<l, r>>] = MergeOf(merge, l, r)
<1> DEFINE size == [x \in Pairs |-> Len(x[1]) + Len(x[2])]
           body == [f \in [Pairs -> Seq(Bytes)] |-> [x \in Pairs |-> MergeOf(f, x[1], x[2])]]
<1>1. merge = CHOOSE f : f = [x \in Pairs |-> MergeOf(f, x[1], x[2])]
  BY DEF merge, MergeOf, Pairs
<1>2. ASSUME NEW x \in Pairs
      PROVE  /\ x[1] \in Seq(Bytes) /\ x[2] \in Seq(Bytes)
             /\ size[x] \in Nat
             /\ x[1] # <<>> => Within(<<Tail(x[1]), x[2]>>, x, size)
             /\ x[2] # <<>> => Within(<<x[1], Tail(x[2])>>, x, size)
  <2>1. PICK u \in Seq(Bytes), v \in Seq(Bytes) : x = <<u, v>>
    BY DEF Pairs
  <2>2. ASSUME NEW y \in Seq(Bytes), NEW z \in Seq(Bytes)
        PROVE  <<y, z>> \in Pairs /\ size[<<y, z>>] = Len(y) + Len(z)
    BY DEF Pairs
  <2>3. Len(u) \in Nat /\ Len(v) \in Nat /\ Len(u) + Len(v) \in Nat
    OBVIOUS
  <2>4. size[x] = Len(u) + Len(v) /\ x[1] = u /\ x[2] = v
    BY <2>1, <2>2
  <2> DEFINE m == Len(u) + Len(v)
  <2> HIDE DEF size
  <2>5. ASSUME u # <<>> PROVE Within(<<Tail(u), v>>, x, size)
    <3>1. Tail(u) \in Seq(Bytes) /\ Len(Tail(u)) = Len(u) - 1
      BY <2>5, HeadTail
    <3>2. <<Tail(u), v>> \in Pairs /\ size[<<Tail(u), v>>] = Len(Tail(u)) + Len(v)
      BY <2>2, <3>1
    <3>3. Len(Tail(u)) + Len(v) < m
      BY <2>3, <3>1
    <3> HIDE DEF m
    <3> QED
      BY <2>4, <3>2, <3>3, Zenon DEF Within, m
  <2>6. ASSUME v # <<>> PROVE Within(<<u, Tail(v)>>, x, size)
    <3>1. Tail(v) \in Seq(Bytes) /\ Len(Tail(v)) = Len(v) - 1
      BY <2>6, HeadTail
    <3>2. <<u, Tail(v)>> \in Pairs /\ size[<<u, Tail(v)>>] = Len(u) + Len(Tail(v))
      BY <2>2, <3>1
    <3>3. Len(u) + Len(Tail(v)) < m
      BY <2>3, <3>1
    <3> HIDE DEF m
    <3> QED
      BY <2>4, <3>2, <3>3, Zenon DEF Within, m
  <2> QED
    BY <2>3, <2>4, <2>5, <2>6, Zenon
<1>3. size \in [Pairs -> Nat]
  BY <1>2
<1>4. ASSUME NEW f \in [Pairs -> Seq(Bytes)], NEW x \in Pairs
      PROVE  MergeOf(f, x[1], x[2]) \in Seq(Bytes)
  <2>1. CASE x[1] = <<>> \/ x[2] = <<>>
    BY <1>2, <2>1 DEF MergeOf
  <2>2. CASE x[1] # <<>> /\ x[2] # <<>>
    <3>1. <<x[1][1]>> \in Seq(Bytes) /\ <<x[2][1]>> \in Seq(Bytes)
      BY <1>2, <2>2, HeadTail
    <3>2. f[<<Tail(x[1]), x[2]>>] \in Seq(Bytes) /\ f[<<x[1], Tail(x[2])>>] \in Seq(Bytes)
      BY <1>2, <2>2 DEF Within
    <3>3. /\ <<x[1][1]>> \o f[<<Tail(x[1]), x[2]>>] \in Seq(Bytes)
          /\ <<x[2][1]>> \o f[<<x[1], Tail(x[2])>>] \in Seq(Bytes)
      BY <3>1, <3>2, Cat
    <3> QED
      BY <2>2, <3>3 DEF MergeOf
  <2> QED
    BY <2>1, <2>2
<1>5. ASSUME NEW f \in [Pairs -> Seq(Bytes)] PROVE body[f] = [x \in Pairs |-> MergeOf(f, x[1], x[2])]
  OBVIOUS
<1>6. body \in [[Pairs -> Seq(Bytes)] -> [Pairs -> Seq(Bytes)]]
  BY <1>4
<1>7. ASSUME NEW x \in Pairs, NEW f \in [Pairs -> Seq(Bytes)], NEW g \in [Pairs -> Seq(Bytes)],
             \A y \in Pairs : size[y] < size[x] => f[y] = g[y]
      PROVE  body[f][x] = body[g][x]
  <2>1. body[f][x] = MergeOf(f, x[1], x[2]) /\ body[g][x] = MergeOf(g, x[1], x[2])
    BY <1>5
  <2> HIDE DEF size, body
  <2>2. x[1] # <<>> => f[<<Tail(x[1]), x[2]>>] = g[<<Tail(x[1]), x[2]>>]
    BY <1>2, <1>7 DEF Within
  <2>3. x[2] # <<>> => f[<<x[1], Tail(x[2])>>] = g[<<x[1], Tail(x[2])>>]
    BY <1>2, <1>7 DEF Within
  <2> QED
    BY <2>1, <2>2, <2>3, Zenon DEF MergeOf
<1>8. Smaller(Pairs, Seq(Bytes), size, body)
  <2>1. <<>> \in Seq(Bytes)
    OBVIOUS
  <2> HIDE DEF size, body
  <2> QED
    BY <1>3, <1>6, <1>7, <2>1 DEF Smaller
<1>9. PICK f \in [Pairs -> Seq(Bytes)] : f = body[f]
  <2> HIDE DEF size, body
  <2> QED
    BY <1>8, RecursionExists
<1>10. f = [x \in Pairs |-> MergeOf(f, x[1], x[2])]
  BY <1>5, <1>9
<1>11. merge = [x \in Pairs |-> MergeOf(merge, x[1], x[2])]
  BY <1>1, <1>10
<1>12. <<l, r>> \in Pairs
  BY DEF Pairs
<1> QED
  BY <1>11, <1>12

-----------------------------------------------------------------------------
(* In order; and no element below x.                                       *)
Ordered(s) == \A p, q \in 1..Len(s) : p <= q => s[p] <= s[q]
From(s, x) == \A p \in 1..Len(s) : x <= s[p]

(* What merge makes of two sequences.                                      *)
Merges(l, r) ==
  LET m == merge[<<l, r>>] IN
  /\ m \in Seq(Bytes) /\ Len(m) = Len(l) + Len(r)
  /\ \A b \in Bytes : Count(m, b) = Count(l, b) + Count(r, b)
  /\ \A x \in Bytes : From(l, x) /\ From(r, x) => From(m, x)
  /\ Ordered(l) /\ Ordered(r) => Ordered(m)

(* An element in front of a sequence keeps it in order exactly when no     *)
(* element of the sequence is below it.                                    *)
LEMMA OrderedCons ==
  ASSUME NEW a \in Bytes, NEW s \in Seq(Bytes)
  PROVE  /\ \A x \in Bytes : From(<<a>> \o s, x) <=> x <= a /\ From(s, x)
         /\ Ordered(<<a>> \o s) <=> From(s, a) /\ Ordered(s)
<1> DEFINE c == <<a>> \o s
<1>0. <<a>> \in Seq(Bytes) /\ Len(<<a>>) = 1 /\ <<a>>[1] = a
  OBVIOUS
<1>1. /\ c \in Seq(Bytes) /\ Len(s) \in Nat /\ Len(c) = Len(s) + 1 /\ c[1] = a
      /\ \A p \in 1..Len(s) : c[p + 1] = s[p] /\ s[p] \in Bytes
  <2>1. /\ c \in Seq(Bytes) /\ Len(s) \in Nat /\ Len(c) = Len(<<a>>) + Len(s)
        /\ \A p \in 1..Len(<<a>>) : c[p] = <<a>>[p]
        /\ \A p \in 1..Len(s) : c[Len(<<a>>) + p] = s[p] /\ s[p] \in Bytes
    BY <1>0, Cat
  <2> HIDE DEF c
  <2> QED
    BY <1>0, <2>1
<1> HIDE DEF c
<1>2. \A p \in 1..Len(c) : p = 1 \/ (p - 1 \in 1..Len(s) /\ c[p] = s[p - 1] /\ s[p - 1] \in Bytes)
  BY <1>1
<1>3. \A p \in 1..Len(s) : p + 1 \in 1..Len(c)
  BY <1>1
<1>4. 1 \in 1..Len(c)
  BY <1>1
<1>5. ASSUME NEW x \in Bytes PROVE From(c, x) <=> x <= a /\ From(s, x)
  <2>1. ASSUME From(c, x) PROVE x <= a /\ From(s, x)
    BY <1>1, <1>3, <1>4, <2>1 DEF From
  <2>2. ASSUME x <= a, From(s, x) PROVE From(c, x)
    BY <1>1, <1>2, <2>2 DEF From
  <2> QED
    BY <2>1, <2>2
<1>6. ASSUME Ordered(c) PROVE From(s, a) /\ Ordered(s)
  <2>1. From(s, a)
    <3>1. ASSUME NEW p \in 1..Len(s) PROVE a <= s[p]
      <4>1. 1 <= p + 1
        OBVIOUS
      <4> QED
        BY <1>1, <1>3, <1>4, <1>6, <4>1 DEF Ordered
    <3> QED
      BY <3>1 DEF From
  <2>2. ASSUME NEW p \in 1..Len(s), NEW q \in 1..Len(s), p <= q PROVE s[p] <= s[q]
    <3>1. p + 1 <= q + 1
      BY <2>2
    <3> QED
      BY <1>1, <1>3, <1>6, <3>1 DEF Ordered
  <2> QED
    BY <2>1, <2>2 DEF Ordered
<1>7. ASSUME From(s, a), Ordered(s) PROVE Ordered(c)
  <2>1. ASSUME NEW p \in 1..Len(c), NEW q \in 1..Len(c), p <= q PROVE c[p] <= c[q]
    <3>1. CASE p = 1 /\ q = 1
      BY <1>1, <3>1 DEF Bytes
    <3>2. CASE p = 1 /\ q # 1
      BY <1>1, <1>2, <1>7, <3>2 DEF From
    <3>3. CASE p # 1
      <4>1. q # 1 /\ p - 1 <= q - 1
        BY <1>1, <2>1, <3>3
      <4> QED
        BY <1>2, <1>7, <3>3, <4>1 DEF Ordered
    <3> QED
      BY <3>1, <3>2, <3>3
  <2> QED
    BY <2>1 DEF Ordered
<1> QED
  BY <1>5, <1>6, <1>7 DEF c

(* Bytes are ordered as numbers are.                                       *)
LEMMA ByteOrder ==
  ASSUME NEW x \in Bytes, NEW y \in Bytes, NEW z \in Bytes
  PROVE  (x <= y /\ y <= z => x <= z) /\ (x <= y \/ y <= x)
<1>1. x \in Int /\ y \in Int /\ z \in Int
  BY DEF Bytes
<1> QED
  BY <1>1

(* One turn of merge's first loop: the smaller head s[1], of whichever     *)
(* sequence, goes in front of what merge makes of the rest.                *)
LEMMA MergeHead ==
  ASSUME NEW l \in Seq(Bytes), NEW r \in Seq(Bytes), NEW s \in Seq(Bytes), NEW c \in Seq(Bytes),
         s # <<>>, c # <<>>, NEW rest \in Seq(Bytes), rest = Tail(s), NEW m \in Seq(Bytes),
         (l = s /\ r = c) \/ (l = c /\ r = s),
         s[1] <= c[1], merge[<<l, r>>] = <<s[1]>> \o m,
         Len(m) = Len(rest) + Len(c),
         \A b \in Bytes : Count(m, b) = Count(rest, b) + Count(c, b),
         \A x \in Bytes : From(rest, x) /\ From(c, x) => From(m, x),
         Ordered(rest) /\ Ordered(c) => Ordered(m)
  PROVE  Merges(l, r)
<1> DEFINE a == s[1]
<1>1. /\ a \in Bytes /\ Len(rest) = Len(s) - 1 /\ <<a>> \in Seq(Bytes) /\ Len(<<a>>) = 1
      /\ s = <<a>> \o rest
  BY HeadTail
<1>2. c[1] \in Bytes /\ Len(c) \in Nat /\ Len(s) \in Nat /\ 1 \in 1..Len(c) /\ Len(c) >= 1
  BY HeadTail
<1>3. a <= c[1]
  OBVIOUS
<1> DEFINE k == <<a>> \o m
<1>4. k \in Seq(Bytes) /\ Len(k) = 1 + Len(m)
  BY <1>1, Cat
<1>5. /\ \A x \in Bytes : From(s, x) <=> x <= a /\ From(rest, x)
      /\ Ordered(s) <=> From(rest, a) /\ Ordered(rest)
  <2>1. /\ \A x \in Bytes : From(<<a>> \o rest, x) <=> x <= a /\ From(rest, x)
        /\ Ordered(<<a>> \o rest) <=> From(rest, a) /\ Ordered(rest)
    BY <1>1, OrderedCons
  <2> HIDE DEF a
  <2> QED
    BY <1>1, <2>1, Zenon
<1>6. /\ \A x \in Bytes : From(k, x) <=> x <= a /\ From(m, x)
      /\ Ordered(k) <=> From(m, a) /\ Ordered(m)
  BY <1>1, OrderedCons
<1>7. \A b \in Bytes : Count(k, b) = Count(s, b) + Count(c, b)
  <2>0. <<a>> \in Seq(Bytes)
    BY <1>1
  <2> DEFINE one == <<a>>
  <2>1. ASSUME NEW b \in Bytes PROVE Count(k, b) = Count(s, b) + Count(c, b)
    <3> HIDE DEF one
    <3>1. Count(one \o m, b) = Count(one, b) + Count(m, b)
      BY <2>0, CountCat DEF one
    <3>2. Count(one \o rest, b) = Count(one, b) + Count(rest, b)
      BY <2>0, CountCat DEF one
    <3>3. Count(m, b) = Count(rest, b) + Count(c, b)
      OBVIOUS
    <3>4. Count(one, b) \in Nat /\ Count(rest, b) \in Nat /\ Count(c, b) \in Nat
      BY <2>0, CountFinite DEF one
    <3>5. Count(s, b) = Count(one, b) + Count(rest, b)
      BY <1>1, <3>2, Zenon DEF one
    <3>6. Count(k, b) = Count(one, b) + Count(m, b)
      BY <3>1, Zenon DEF one
    <3> HIDE DEF k, a
    <3> QED
      BY <3>3, <3>4, <3>5, <3>6
  <2> QED
    BY <2>1
<1>8. \A x \in Bytes : From(s, x) /\ From(c, x) => From(k, x)
  <2> HIDE DEF k, a
  <2> QED
    BY <1>5, <1>6, Zenon
<1>9. Ordered(s) /\ Ordered(c) => Ordered(k)
  <2>1. Ordered(c) => From(c, a)
    <3>1. ASSUME Ordered(c), NEW p \in 1..Len(c) PROVE a <= c[p]
      <4>1. c[1] <= c[p] /\ c[p] \in Bytes
        BY <1>2, <3>1 DEF Ordered
      <4>2. a \in Bytes /\ c[1] \in Bytes
        BY <1>1, <1>2
      <4> HIDE DEF a
      <4> QED
        BY <1>3, <4>1, <4>2, ByteOrder, Zenon
    <3> HIDE DEF a
    <3> QED
      BY <3>1, Zenon DEF From
  <2> HIDE DEF k, a
  <2> QED
    BY <1>1, <1>5, <1>6, <2>1, Zenon
<1>10. Len(k) = Len(s) + Len(c)
  <2> HIDE DEF k
  <2> QED
    BY <1>1, <1>2, <1>4
<1> HIDE DEF a
<1>11. merge[<<l, r>>] = k
  BY DEF a
<1> HIDE DEF k
<1>12. CASE l = s /\ r = c
  BY <1>4, <1>7, <1>8, <1>9, <1>10, <1>11, <1>12, Zenon DEF Merges
<1>13. CASE l = c /\ r = s
  <2>1. Len(k) = Len(c) + Len(s)
    BY <1>2, <1>10
  <2>2. \A b \in Bytes : Count(k, b) = Count(c, b) + Count(s, b)
    <3>1. ASSUME NEW b \in Bytes PROVE Count(s, b) + Count(c, b) = Count(c, b) + Count(s, b)
      BY CountFinite
    <3> QED
      BY <1>7, <3>1, Zenon
  <2> QED
    BY <1>4, <1>8, <1>9, <1>11, <1>13, <2>1, <2>2, Zenon DEF Merges
<1> QED
  BY <1>12, <1>13

(* The other two loops: what is left of one sequence is copied.            *)
LEMMA EmptyMerges ==
  ASSUME NEW l \in Seq(Bytes), NEW r \in Seq(Bytes), l = <<>> \/ r = <<>>
  PROVE  Merges(l, r)
<1>0. <<>> \in Seq(Bytes) /\ Len(<<>>) = 0
  OBVIOUS
<1>1. \A b \in Bytes : Count(<<>>, b) = 0
  <2>1. \A b \in Bytes : Occurs(<<>>, b) = {}
    BY DEF Occurs
  <2> QED
    BY <2>1, FS_EmptySet DEF Count
<1>2. ASSUME NEW b \in Bytes PROVE Count(l, b) \in Nat /\ Count(r, b) \in Nat
  BY CountFinite
<1>3. Len(l) \in Nat /\ Len(r) \in Nat
  OBVIOUS
<1>4. CASE l = <<>>
  <2>1. merge[<<l, r>>] = r
    BY <1>4, MergeDefined DEF MergeOf
  <2>2. \A b \in Bytes : Count(r, b) = Count(l, b) + Count(r, b)
    BY <1>1, <1>2, <1>4
  <2>3. Len(r) = Len(l) + Len(r)
    BY <1>0, <1>3, <1>4
  <2> QED
    BY <2>1, <2>2, <2>3, Zenon DEF Merges
<1>5. CASE r = <<>>
  <2>1. merge[<<l, r>>] = l
    BY <1>5, MergeDefined DEF MergeOf
  <2>2. \A b \in Bytes : Count(l, b) = Count(l, b) + Count(r, b)
    BY <1>1, <1>2, <1>5
  <2>3. Len(l) = Len(l) + Len(r)
    BY <1>0, <1>3, <1>5
  <2> QED
    BY <2>1, <2>2, <2>3, Zenon DEF Merges
<1> QED
  BY <1>4, <1>5

(* merge puts two sequences together, in order if both are, by the least   *)
(* number of elements for which it would not.                              *)
LEMMA MergeWorks ==
  ASSUME NEW l \in Seq(Bytes), NEW r \in Seq(Bytes)
  PROVE  Merges(l, r)
<1> DEFINE T == {z \in Nat : \E u, v \in Seq(Bytes) : Len(u) + Len(v) = z /\ ~Merges(u, v)}
<1>1. ASSUME T # {} PROVE FALSE
  <2>1. PICK z \in T : \A y \in T : z <= y
    BY <1>1, LeastNatural
  <2>2. PICK u \in Seq(Bytes), v \in Seq(Bytes) : Len(u) + Len(v) = z /\ ~Merges(u, v)
    BY <2>1
  <2>3. u # <<>> /\ v # <<>>
    BY <2>2, EmptyMerges
  <2>4. /\ u[1] \in Bytes /\ Tail(u) \in Seq(Bytes) /\ Len(Tail(u)) = Len(u) - 1 /\ Len(u) \in Nat
        /\ v[1] \in Bytes /\ Tail(v) \in Seq(Bytes) /\ Len(Tail(v)) = Len(v) - 1 /\ Len(v) \in Nat
        /\ Len(Tail(u)) \in Nat /\ Len(Tail(v)) \in Nat
    BY <2>3, HeadTail
  <2>5. ASSUME NEW y \in Seq(Bytes), NEW w \in Seq(Bytes), Len(y) + Len(w) \in Nat, Len(y) + Len(w) < z
        PROVE  Merges(y, w)
    BY <2>1, <2>5
  <2>6. merge[<<u, v>>] = MergeOf(merge, u, v)
    BY MergeDefined
  <2> DEFINE tu == Tail(u)
             tv == Tail(v)
  <2>7. Merges(tu, v) /\ Merges(u, tv)
    <3>1. /\ Len(tu) + Len(v) \in Nat /\ Len(tu) + Len(v) < z
          /\ Len(u) + Len(tv) \in Nat /\ Len(u) + Len(tv) < z
      BY <2>2, <2>4
    <3>2. tu \in Seq(Bytes) /\ tv \in Seq(Bytes)
      BY <2>4
    <3> HIDE DEF tu, tv
    <3> QED
      BY <2>5, <3>1, <3>2
  <2>8. CASE u[1] <= v[1]
    <3> DEFINE m == merge[<<tu, v>>]
    <3>1. merge[<<u, v>>] = <<u[1]>> \o m
      BY <2>3, <2>6, <2>8, Zenon DEF MergeOf
    <3>2. /\ m \in Seq(Bytes) /\ Len(m) = Len(tu) + Len(v)
          /\ \A b \in Bytes : Count(m, b) = Count(tu, b) + Count(v, b)
          /\ \A x \in Bytes : From(tu, x) /\ From(v, x) => From(m, x)
          /\ Ordered(tu) /\ Ordered(v) => Ordered(m)
      BY <2>7, Zenon DEF Merges
    <3>3. tu \in Seq(Bytes) /\ tu = Tail(u)
      BY <2>4
    <3> HIDE DEF m, tu
    <3>4. Merges(u, v)
      BY <2>3, <2>8, <3>1, <3>2, <3>3, MergeHead
    <3> QED
      BY <2>2, <3>4
  <2>9. CASE ~(u[1] <= v[1])
    <3> DEFINE m == merge[<<u, tv>>]
    <3>1. merge[<<u, v>>] = <<v[1]>> \o m
      BY <2>3, <2>6, <2>9, Zenon DEF MergeOf
    <3>2. /\ m \in Seq(Bytes) /\ Len(m) = Len(u) + Len(tv)
          /\ \A b \in Bytes : Count(m, b) = Count(u, b) + Count(tv, b)
          /\ \A x \in Bytes : From(u, x) /\ From(tv, x) => From(m, x)
          /\ Ordered(u) /\ Ordered(tv) => Ordered(m)
      BY <2>7, Zenon DEF Merges
    <3>3. tv \in Seq(Bytes) /\ tv = Tail(v)
      BY <2>4
    <3>4. v[1] <= u[1]
      BY <2>4, <2>9, ByteOrder, Zenon
    <3>5. Len(m) = Len(tv) + Len(u)
      BY <2>4, <3>2
    <3>6. \A b \in Bytes : Count(m, b) = Count(tv, b) + Count(u, b)
      <4>1. \A b \in Bytes : Count(u, b) \in Nat /\ Count(tv, b) \in Nat
        BY <2>4, CountFinite
      <4> HIDE DEF m, tv
      <4> QED
        BY <3>2, <4>1
    <3> HIDE DEF m, tv
    <3>7. Merges(u, v)
      BY <2>3, <3>1, <3>2, <3>3, <3>4, <3>5, <3>6, MergeHead
    <3> QED
      BY <2>2, <3>7
  <2> QED
    BY <2>8, <2>9
<1>2. Len(l) + Len(r) \in Nat
  OBVIOUS
<1> QED
  BY <1>1, <1>2

-----------------------------------------------------------------------------
(* mergeSort: its two halves are shorter,                                  *)
Left(s) == SubSeq(s, 1, Half(Len(s) - 1) + 1)
Right(s) == SubSeq(s, Half(Len(s) - 1) + 2, Len(s))

(* A segment of two elements or more has two halves that are shorter.      *)
LEMMA HalvesOf ==
  ASSUME NEW s \in Seq(Bytes), Len(s) > 1
  PROVE  /\ Left(s) \in Seq(Bytes) /\ Right(s) \in Seq(Bytes)
         /\ Len(Left(s)) \in Nat /\ Len(Right(s)) \in Nat /\ Len(s) \in Nat
         /\ Len(Left(s)) < Len(s) /\ Len(Right(s)) < Len(s)
         /\ Len(Left(s)) + Len(Right(s)) = Len(s)
         /\ s = Left(s) \o Right(s)
<1> DEFINE m == Len(s)
           x == Half(m - 1) + 1
<1>1. m \in Nat /\ m > 1
  BY LenProperties
<1>2. x \in 1..m - 1
  BY <1>1 DEF Half
<1> HIDE DEF x
<1>3. \A k \in 1..m : s[k] \in Bytes
  BY ElementOfSeq
<1>4. SubSeq(s, 1, x) \in Seq(Bytes) /\ Len(SubSeq(s, 1, x)) = x
  <2>1. \A k \in 1..x : s[k] \in Bytes
    BY <1>1, <1>2, <1>3
  <2>2. /\ SubSeq(s, 1, x) \in Seq(Bytes)
        /\ Len(SubSeq(s, 1, x)) = IF 1 <= x THEN x - 1 + 1 ELSE 0
    BY <1>2, <2>1, SubSeqProperties
  <2> QED
    BY <1>2, <2>2
<1>5. SubSeq(s, x + 1, m) \in Seq(Bytes) /\ Len(SubSeq(s, x + 1, m)) = m - x
  <2>1. \A k \in x + 1..m : s[k] \in Bytes
    BY <1>1, <1>2, <1>3
  <2>2. /\ SubSeq(s, x + 1, m) \in Seq(Bytes)
        /\ Len(SubSeq(s, x + 1, m)) = IF x + 1 <= m THEN m - (x + 1) + 1 ELSE 0
    BY <1>1, <1>2, <2>1, SubSeqProperties
  <2> QED
    BY <1>1, <1>2, <2>2
<1>6. SubSeq(s, 1, x) \o SubSeq(s, x + 1, m) = SubSeq(s, 1, m)
  <2>1. 1 \in 1..Len(s) + 1 /\ x \in 1 - 1..Len(s) /\ m \in x..Len(s)
    BY <1>1, <1>2
  <2> QED
    BY <2>1, ConcatAdjacentSubSeq
<1>7. SubSeq(s, 1, m) = s
  BY SubSeqFull
<1>8. Left(s) = SubSeq(s, 1, x) /\ Right(s) = SubSeq(s, x + 1, m)
  <2>1. Half(m - 1) + 2 = x + 1
    <3>1. Half(m - 1) \in Int
      BY <1>1 DEF Half
    <3> QED
      BY <3>1 DEF x
  <2> HIDE DEF m
  <2> QED
    BY <2>1, Zenon DEF Left, Right, x, m
<1> HIDE DEF m
<1> DEFINE u == SubSeq(s, 1, x)
           v == SubSeq(s, x + 1, m)
<1> HIDE DEF u, v
<1>9. Len(u) = x /\ Len(v) = m - x /\ u \in Seq(Bytes) /\ v \in Seq(Bytes) /\ s = u \o v
  BY <1>4, <1>5, <1>6, <1>7, Zenon DEF u, v
<1>10. Left(s) = u /\ Right(s) = v
  BY <1>8, Zenon DEF u, v
<1>11. m - x \in Nat /\ x \in Nat /\ x < m /\ m - x < m /\ x + (m - x) = m
  BY <1>1, <1>2
<1> QED
  BY <1>1, <1>9, <1>10, <1>11, Zenon DEF m

(* so that it, too, is defined by what it computes of them.                *)
SortOf(f, s) == IF Len(s) <= 1 THEN s ELSE merge[<<f[Left(s)], f[Right(s)]>>]

(* mergeSort is what its definition makes of it.                           *)
LEMMA SortDefined ==
  ASSUME NEW s \in Seq(Bytes)
  PROVE  mergeSort[s] = SortOf(mergeSort, s)
<1> DEFINE D == Seq(Bytes)
           size == [x \in D |-> Len(x)]
           body == [f \in [D -> D] |-> [x \in D |-> SortOf(f, x)]]
<1>1. mergeSort = CHOOSE f : f = [x \in D |-> SortOf(f, x)]
  <2>1. \A x \in D : Half(Len(x) - 1) + 1 + 1 = Half(Len(x) - 1) + 2
    BY DEF Half
  <2>2. \A f : [x \in D |-> IF Len(x) <= 1 THEN x
                            ELSE LET mid == Half(Len(x) - 1) + 1
                                 IN  merge[<<f[SubSeq(x, 1, mid)], f[SubSeq(x, mid + 1, Len(x))]>>]]
               = [x \in D |-> SortOf(f, x)]
    BY <2>1, Zenon DEF SortOf, Left, Right
  <2> QED
    BY <2>2, Zenon DEF mergeSort
<1>2. size \in [D -> Nat]
  OBVIOUS
<1>3. ASSUME NEW f \in [D -> D], NEW x \in D PROVE SortOf(f, x) \in D
  <2>1. CASE Len(x) <= 1
    BY <2>1, Zenon DEF SortOf
  <2>2. CASE ~(Len(x) <= 1)
    <3>1. Len(x) > 1
      BY <2>2
    <3>2. Left(x) \in D /\ Right(x) \in D
      BY <3>1, HalvesOf
    <3>3. f[Left(x)] \in D /\ f[Right(x)] \in D
      BY <3>2
    <3>4. merge[<<f[Left(x)], f[Right(x)]>>] \in D
      BY <3>3, MergeWorks, Zenon DEF Merges
    <3> QED
      BY <2>2, <3>4, Zenon DEF SortOf
  <2> QED
    BY <2>1, <2>2
<1>4. ASSUME NEW f \in [D -> D] PROVE body[f] = [x \in D |-> SortOf(f, x)]
  OBVIOUS
<1>5. body \in [[D -> D] -> [D -> D]]
  BY <1>3
<1>6. ASSUME NEW x \in D, NEW f \in [D -> D], NEW g \in [D -> D],
             \A y \in D : size[y] < size[x] => f[y] = g[y]
      PROVE  body[f][x] = body[g][x]
  <2>1. body[f][x] = SortOf(f, x) /\ body[g][x] = SortOf(g, x)
    BY <1>4
  <2>2. CASE Len(x) <= 1
    <3> HIDE DEF body
    <3> QED
      BY <2>1, <2>2, Zenon DEF SortOf
  <2>3. CASE ~(Len(x) <= 1)
    <3>1. Len(x) > 1
      BY <2>3
    <3>2. Left(x) \in D /\ Right(x) \in D /\ Len(Left(x)) < Len(x) /\ Len(Right(x)) < Len(x)
      BY <3>1, HalvesOf
    <3>3. f[Left(x)] = g[Left(x)] /\ f[Right(x)] = g[Right(x)]
      <4>1. size[Left(x)] = Len(Left(x)) /\ size[Right(x)] = Len(Right(x)) /\ size[x] = Len(x)
        BY <3>2, Zenon
      <4> HIDE DEF size
      <4>2. size[Left(x)] < size[x] /\ size[Right(x)] < size[x]
        BY <3>2, <4>1, Zenon
      <4> QED
        BY <1>6, <3>2, <4>2, Zenon
    <3> HIDE DEF body
    <3> QED
      BY <2>1, <2>3, <3>3, Zenon DEF SortOf
  <2> QED
    BY <2>2, <2>3
<1>7. Smaller(D, D, size, body)
  <2>1. <<>> \in D
    OBVIOUS
  <2> HIDE DEF size, body
  <2> QED
    BY <1>2, <1>5, <1>6, <2>1 DEF Smaller
<1>8. PICK f \in [D -> D] : f = body[f]
  <2> HIDE DEF size, body
  <2> QED
    BY <1>7, RecursionExists
<1>9. f = [x \in D |-> SortOf(f, x)]
  BY <1>4, <1>8
<1>10. mergeSort = [x \in D |-> SortOf(mergeSort, x)]
  BY <1>1, <1>9
<1> QED
  BY <1>10

(* What mergeSort makes of a sequence.                                     *)
Sorts(s) ==
  /\ mergeSort[s] \in Seq(Bytes) /\ Len(mergeSort[s]) = Len(s)
  /\ \A b \in Bytes : Count(mergeSort[s], b) = Count(s, b)
  /\ Ordered(mergeSort[s])

(* mergeSort rearranges a sequence into order, by the least length of one  *)
(* for which it would not.                                                 *)
THEOREM SortWorks == ASSUME NEW s \in Seq(Bytes) PROVE Sorts(s)
<1> DEFINE T == {z \in Nat : \E u \in Seq(Bytes) : Len(u) = z /\ ~Sorts(u)}
<1>1. ASSUME T # {} PROVE FALSE
  <2>1. PICK z \in T : \A y \in T : z <= y
    BY <1>1, LeastNatural
  <2>2. PICK u \in Seq(Bytes) : Len(u) = z /\ ~Sorts(u)
    BY <2>1
  <2>3. ASSUME NEW y \in Seq(Bytes), Len(y) \in Nat, Len(y) < z PROVE Sorts(y)
    BY <2>1, <2>3
  <2>4. mergeSort[u] = SortOf(mergeSort, u)
    BY SortDefined
  <2>5. CASE Len(u) <= 1
    <3>1. mergeSort[u] = u
      BY <2>4, <2>5, Zenon DEF SortOf
    <3>2. Ordered(u)
      <4>1. ASSUME NEW p \in 1..Len(u), NEW q \in 1..Len(u) PROVE u[p] <= u[q]
        <5>1. p = q /\ u[p] \in Bytes
          BY <2>5, ElementOfSeq
        <5>2. u[p] <= u[p]
          BY <5>1, ByteOrder, Zenon
        <5> QED
          BY <5>1, <5>2
      <4> QED
        BY <4>1 DEF Ordered
    <3> QED
      BY <2>2, <3>1, <3>2, Zenon DEF Sorts
  <2>6. CASE ~(Len(u) <= 1)
    <3> DEFINE l == Left(u)
               r == Right(u)
               x == mergeSort[l]
               y == mergeSort[r]
    <3>1. /\ l \in Seq(Bytes) /\ r \in Seq(Bytes) /\ Len(l) \in Nat /\ Len(r) \in Nat /\ Len(u) \in Nat
          /\ Len(l) < Len(u) /\ Len(r) < Len(u) /\ Len(l) + Len(r) = Len(u) /\ u = l \o r
      <4>1. Len(u) > 1
        BY <2>6
      <4> QED
        BY <4>1, HalvesOf
    <3>2. mergeSort[u] = merge[<<x, y>>]
      BY <2>4, <2>6, Zenon DEF SortOf
    <3> HIDE DEF l, r
    <3>3. Sorts(l) /\ Sorts(r)
      BY <2>2, <2>3, <3>1
    <3>4. /\ x \in Seq(Bytes) /\ Len(x) = Len(l) /\ Ordered(x) /\ \A b \in Bytes : Count(x, b) = Count(l, b)
          /\ y \in Seq(Bytes) /\ Len(y) = Len(r) /\ Ordered(y) /\ \A b \in Bytes : Count(y, b) = Count(r, b)
      BY <3>3, Zenon DEF Sorts
    <3> HIDE DEF x, y
    <3> DEFINE m == merge[<<x, y>>]
    <3>5. /\ m \in Seq(Bytes) /\ Len(m) = Len(x) + Len(y) /\ Ordered(m)
          /\ \A b \in Bytes : Count(m, b) = Count(x, b) + Count(y, b)
      BY <3>4, MergeWorks, Zenon DEF Merges
    <3>6. \A b \in Bytes : Count(u, b) = Count(l, b) + Count(r, b)
      BY <3>1, CountCat
    <3> HIDE DEF m
    <3>7. Len(m) = Len(u) /\ \A b \in Bytes : Count(m, b) = Count(u, b)
      BY <3>1, <3>4, <3>5, <3>6, Zenon
    <3>8. mergeSort[u] = m
      BY <3>2 DEF m
    <3> QED
      BY <2>2, <3>5, <3>7, <3>8, Zenon DEF Sorts
  <2> QED
    BY <2>5, <2>6
<1>2. Len(s) \in Nat
  OBVIOUS
<1> QED
  BY <1>1, <1>2

-----------------------------------------------------------------------------
(* Segments of an array, of which Segment(lo, hi) is arr's.                *)
Part(a, lo, hi) == [i \in 1 .. hi - lo + 1 |-> a[lo + i - 1]]

(* The part of an array between two places in it.                          *)
LEMMA PartFacts ==
  ASSUME NEW m \in Nat, NEW a \in [0 .. m - 1 -> Bytes], NEW lo \in Int, NEW hi \in Int,
         lo >= 0, hi < m, lo - 1 <= hi
  PROVE  /\ Part(a, lo, hi) \in Seq(Bytes) /\ Len(Part(a, lo, hi)) = hi - lo + 1
         /\ \A i \in 1 .. hi - lo + 1 : Part(a, lo, hi)[i] = a[lo + i - 1]
<1>1. hi - lo + 1 \in Nat
  OBVIOUS
<1>2. \A i \in 1 .. hi - lo + 1 : a[lo + i - 1] \in Bytes
  OBVIOUS
<1> QED
  BY <1>1, <1>2 DEF Part

(* A part is what is up to its middle and what is after it.                *)
LEMMA PartCat ==
  ASSUME NEW m \in Nat, NEW a \in [0 .. m - 1 -> Bytes], NEW lo \in Int, NEW mid \in Int, NEW hi \in Int,
         lo >= 0, hi < m, lo - 1 <= mid, mid <= hi
  PROVE  Part(a, lo, hi) = Part(a, lo, mid) \o Part(a, mid + 1, hi)
<1> DEFINE l == Part(a, lo, mid)
           r == Part(a, mid + 1, hi)
           s == Part(a, lo, hi)
<1>1. /\ l \in Seq(Bytes) /\ Len(l) = mid - lo + 1
      /\ \A i \in 1 .. mid - lo + 1 : l[i] = a[lo + i - 1]
  BY PartFacts
<1>2. /\ r \in Seq(Bytes) /\ Len(r) = hi - mid
      /\ \A i \in 1 .. hi - mid : r[i] = a[mid + i]
  <2>1. /\ r \in Seq(Bytes) /\ Len(r) = hi - (mid + 1) + 1
        /\ \A i \in 1 .. hi - (mid + 1) + 1 : r[i] = a[mid + 1 + i - 1]
    BY PartFacts
  <2> HIDE DEF r
  <2>2. hi - (mid + 1) + 1 = hi - mid /\ \A i \in Int : mid + 1 + i - 1 = mid + i
    OBVIOUS
  <2> QED
    BY <2>1, <2>2
<1>3. /\ s \in Seq(Bytes) /\ Len(s) = hi - lo + 1
      /\ \A i \in 1 .. hi - lo + 1 : s[i] = a[lo + i - 1]
  BY PartFacts
<1> HIDE DEF l, r, s
<1> DEFINE c == l \o r
<1>4. /\ c \in Seq(Bytes) /\ Len(c) = Len(l) + Len(r)
      /\ \A i \in 1 .. Len(l) : c[i] = l[i]
      /\ \A i \in 1 .. Len(r) : c[Len(l) + i] = r[i]
  BY <1>1, <1>2, Cat
<1> HIDE DEF c
<1>5. Len(c) = Len(s)
  BY <1>1, <1>2, <1>3, <1>4
<1>6. ASSUME NEW i \in 1 .. Len(s) PROVE c[i] = s[i]
  <2>1. CASE i <= Len(l)
    BY <1>1, <1>3, <1>4, <2>1
  <2>2. CASE i > Len(l)
    <3>1. i - Len(l) \in 1 .. Len(r) /\ Len(l) + (i - Len(l)) = i /\ mid + (i - Len(l)) = lo + i - 1
      BY <1>1, <1>2, <1>3, <2>2
    <3>2. c[i] = r[i - Len(l)]
      BY <1>4, <3>1
    <3>3. r[i - Len(l)] = a[lo + i - 1]
      BY <1>2, <3>1
    <3> QED
      BY <1>3, <3>2, <3>3
  <2> QED
    BY <1>1, <1>3, <2>1, <2>2
<1>7. c = s
  BY <1>3, <1>4, <1>5, <1>6, SeqEqual
<1> QED
  BY <1>7 DEF c, l, r, s

(* Two arrays that agree on a segment have it in common.                   *)
LEMMA PartSame ==
  ASSUME NEW a, NEW b, NEW lo \in Int, NEW hi \in Int,
         \A i \in lo .. hi : a[i] = b[i]
  PROVE  Part(a, lo, hi) = Part(b, lo, hi)
<1>1. \A i \in 1 .. hi - lo + 1 : lo + i - 1 \in lo .. hi
  OBVIOUS
<1> QED
  BY <1>1 DEF Part

(* Writing a sequence into an array.                                       *)
LEMMA Overwritten ==
  ASSUME NEW m \in Nat, NEW a \in [0 .. m - 1 -> Bytes], NEW lo \in Int, NEW hi \in Int,
         lo >= 0, hi < m, lo - 1 <= hi, NEW s \in Seq(Bytes), Len(s) = hi - lo + 1,
         NEW b, b = [i \in DOMAIN a |-> IF i \in lo .. lo + Len(s) - 1 THEN s[i - lo + 1] ELSE a[i]]
  PROVE  /\ b \in [0 .. m - 1 -> Bytes]
         /\ \A i \in 0 .. m - 1 : i \notin lo .. hi => b[i] = a[i]
         /\ Part(b, lo, hi) = s
         /\ \A x \in Bytes : Count(s, x) = Count(Part(a, lo, hi), x) =>
              Count(Part(b, 0, m - 1), x) = Count(Part(a, 0, m - 1), x)
<1>1. /\ DOMAIN a = 0 .. m - 1 /\ lo + Len(s) - 1 = hi
      /\ \A i \in 1 .. hi - lo + 1 : s[i] \in Bytes
  BY ElementOfSeq
<1>2. b = [i \in 0 .. m - 1 |-> IF i \in lo .. hi THEN s[i - lo + 1] ELSE a[i]]
  BY <1>1, Zenon
<1>3. b \in [0 .. m - 1 -> Bytes]
  <2>1. ASSUME NEW i \in 0 .. m - 1 PROVE (IF i \in lo .. hi THEN s[i - lo + 1] ELSE a[i]) \in Bytes
    BY <1>1
  <2> QED
    BY <1>2, <2>1
<1>4. ASSUME NEW i \in 0 .. m - 1, i \notin lo .. hi PROVE b[i] = a[i]
  BY <1>2, <1>4
<1>5. ASSUME NEW i \in lo .. hi PROVE b[i] = s[i - lo + 1]
  BY <1>2
<1>6. Part(b, lo, hi) = s
  <2> DEFINE p == Part(b, lo, hi)
  <2>1. /\ p \in Seq(Bytes) /\ Len(p) = hi - lo + 1
        /\ \A i \in 1 .. hi - lo + 1 : p[i] = b[lo + i - 1]
    BY <1>3, PartFacts
  <2>2. ASSUME NEW i \in 1 .. hi - lo + 1 PROVE b[lo + i - 1] = s[i]
    <3>1. lo + i - 1 \in lo .. hi /\ lo + i - 1 - lo + 1 = i
      OBVIOUS
    <3> QED
      BY <1>5, <3>1
  <2> HIDE DEF p
  <2>3. p = s
    BY <2>1, <2>2, SeqEqual
  <2> QED
    BY <2>3 DEF p
<1>7. ASSUME NEW x \in Bytes, NEW c \in [0 .. m - 1 -> Bytes]
      PROVE  Count(Part(c, 0, m - 1), x) = Count(Part(c, 0, lo - 1), x) + Count(Part(c, lo, hi), x)
                                             + Count(Part(c, hi + 1, m - 1), x)
  <2> DEFINE u == Part(c, 0, lo - 1)
             v == Part(c, lo, hi)
             w == Part(c, hi + 1, m - 1)
             vw == Part(c, lo, m - 1)
  <2>1. u \in Seq(Bytes) /\ v \in Seq(Bytes) /\ w \in Seq(Bytes) /\ vw \in Seq(Bytes)
    BY PartFacts
  <2>2. Part(c, 0, m - 1) = u \o vw
    <3> DEFINE q == lo - 1
               e == m - 1
               z == 0
    <3>1. /\ q \in Int /\ q + 1 = lo /\ e \in Int /\ e < m /\ z \in Int /\ z >= 0
          /\ z - 1 <= q /\ q <= e
      OBVIOUS
    <3> HIDE DEF q, e, z
    <3>2. Part(c, z, e) = Part(c, z, q) \o Part(c, q + 1, e)
      <4>1. c \in [0 .. m - 1 -> Bytes] /\ m \in Nat
        OBVIOUS
      <4> QED
        BY ONLY <3>1, <4>1, PartCat
    <3> QED
      BY <3>1, <3>2, Zenon DEF q, e, z
  <2>3. vw = v \o w
    BY PartCat
  <2>4. Count(u, x) \in Nat /\ Count(v, x) \in Nat /\ Count(w, x) \in Nat
    BY <2>1, CountFinite
  <2> HIDE DEF u, v, w, vw
  <2>5. Count(u \o vw, x) = Count(u, x) + Count(vw, x)
    BY <2>1, CountCat
  <2>6. Count(v \o w, x) = Count(v, x) + Count(w, x)
    BY <2>1, CountCat
  <2>7. Count(vw, x) = Count(v, x) + Count(w, x)
    BY <2>3, <2>6, Zenon
  <2>8. Count(Part(c, 0, m - 1), x) = Count(u, x) + Count(vw, x)
    BY <2>2, <2>5, Zenon
  <2>9. Count(Part(c, 0, m - 1), x) = Count(u, x) + Count(v, x) + Count(w, x)
    BY <2>4, <2>7, <2>8
  <2> QED
    BY <2>9, Zenon DEF u, v, w
<1>8. Part(b, 0, lo - 1) = Part(a, 0, lo - 1) /\ Part(b, hi + 1, m - 1) = Part(a, hi + 1, m - 1)
  BY <1>4, PartSame
<1>9. ASSUME NEW x \in Bytes, Count(s, x) = Count(Part(a, lo, hi), x)
      PROVE  Count(Part(b, 0, m - 1), x) = Count(Part(a, 0, m - 1), x)
  <2>1. Count(Part(a, 0, m - 1), x) = Count(Part(a, 0, lo - 1), x) + Count(Part(a, lo, hi), x)
                                        + Count(Part(a, hi + 1, m - 1), x)
    BY <1>7
  <2>2. Count(Part(b, 0, m - 1), x) = Count(Part(b, 0, lo - 1), x) + Count(Part(b, lo, hi), x)
                                        + Count(Part(b, hi + 1, m - 1), x)
    BY <1>3, <1>7
  <2> QED
    BY <1>6, <1>8, <1>9, <2>1, <2>2, Zenon
<1> QED
  BY <1>3, <1>4, <1>6, <1>9

-----------------------------------------------------------------------------
(* The rest of what is true of the state: segments, handles and the lock,  *)
Inside(k) == /\ 0 <= args[k].begin /\ args[k].begin <= n + args[k].height
             /\ -1 <= args[k].end /\ args[k].end <= n - 1 + args[k].height
             /\ args[k].begin - 2 <= args[k].end
             /\ args[k].begin < args[k].end => args[k].end < n

Unborn(k) == /\ k \notin Started => args[k] = NoArgs
             /\ k \notin Counted /\ pc[k] # "counted" => tempThreadCount[k] = 0

Bounds == /\ \A k \in Started : Inside(k)
          /\ \A k \in Tree : Unborn(k)
          /\ th \in [0 .. t - 1 -> Tree \union {NoThread}]
          /\ numThreadsLock \in Tree \union {NoThread} /\ (numThreadsLock # NoThread => h > 0)
          /\ status \in {"running", "finished", "aborted"}

(* and the bytes.                                                          *)
Content == /\ arr \in [0 .. n - 1 -> Bytes]
           /\ copy \in [Tree -> [left : Seq(Bytes), right : Seq(Bytes)]]

(* What a thread has in order, in arr and in its copies.                   *)
LeftOf(k) == Part(arr, args[k].begin, Mid(args[k]))
RightOf(k) == Part(arr, Mid(args[k]) + 1, args[k].end)
AllOf(k) == Part(arr, args[k].begin, args[k].end)

Data(k) ==
  /\ pc[k] = "done" /\ ~Joined(k) => Ordered(AllOf(k))
  /\ pc[k] \in {"join2", "merge", "write"} => Ordered(LeftOf(k))
  /\ pc[k] \in {"merge", "write"} => Ordered(RightOf(k))
  /\ pc[k] = "write" => copy[k] = [left |-> LeftOf(k), right |-> RightOf(k)]
  /\ pc[k] = "sort" => copy[k].left = AllOf(k)

(* The array has the bytes of the input, in an order that Data tells.      *)
Permuted == \A b \in Bytes : Count(Part(arr, 0, n - 1), b) = Count(input, b)

DataInv == LargeEnough => Permuted /\ \A k \in Tree : Data(k)


(* The two halves of a segment in range are in range.                      *)
LEMMA RangeChild ==
  ASSUME NEW b \in Int, NEW e \in Int, NEW x \in Nat, NEW a, a.begin = b, a.end = e, n \in Nat,
         0 <= b, b <= n + x, -1 <= e, e <= n - 1 + x, b - 2 <= e, b < e => e < n
  PROVE  /\ -1 <= Mid(a) /\ Mid(a) <= n - 1 + (x + 1) /\ b - 2 <= Mid(a) /\ (b < Mid(a) => Mid(a) < n)
         /\ 0 <= Mid(a) + 1 /\ Mid(a) + 1 <= n + (x + 1) /\ Mid(a) + 1 - 2 <= e
         /\ Mid(a) + 1 < e => e < n
         /\ Mid(a) \in Int
<1> DEFINE d == e - b
<1>1. Mid(a) = IF d < 0 THEN b - ((-d) \div 2) ELSE b + (d \div 2)
  BY DEF Mid, Half
<1>2. d \in Int /\ e = b + d
  OBVIOUS
<1> DEFINE q == IF d < 0 THEN -((-d) \div 2) ELSE d \div 2
<1>3. q \in Int /\ Mid(a) = b + q
  BY <1>1, <1>2
<1>4. /\ d >= 0 => q >= 0 /\ (d = 2 * q \/ d = 2 * q + 1)
      /\ d < 0 => q <= 0 /\ (d = 2 * q \/ d = 2 * q - 1)
  BY <1>2
<1> DEFINE m == Mid(a)
<1> HIDE DEF d, q, m
<1>5. m = b + q
  BY <1>3 DEF m
<1>6. /\ -1 <= m /\ m <= n - 1 + (x + 1) /\ b - 2 <= m /\ (b < m => m < n)
      /\ 0 <= m + 1 /\ m + 1 <= n + (x + 1) /\ m + 1 - 2 <= e
      /\ m + 1 < e => e < n
      /\ m \in Int
  BY <1>2, <1>3, <1>4, <1>5
<1> QED
  BY <1>6 DEF m

(* The bounds hold at first, and each step keeps them.                     *)
LEMMA BoundsInit == ASSUME Init PROVE Bounds
<1>1. IInv
  BY InitInv
<1>2. /\ \A k \in Tree : pc[k] = IF k = 1 THEN "start" ELSE "none"
      /\ \A k \in Tree : k # 1 => args[k] = NoArgs
      /\ \A k \in Tree : tempThreadCount[k] = 0
      /\ 1 \in Tree /\ numThreadsLock = NoThread /\ status = "running"
      /\ th = [i \in 0 .. t - 1 |-> NoThread]
  BY DEF Init, Tree
<1>3. Started = {1} /\ n \in Nat /\ args[1] = [threadID |-> 0, height |-> 0, begin |-> 0, end |-> n - 1]
  BY <1>1, <1>2, TreeFacts DEF Started, IInv, Types, Places
<1>4. Inside(1)
  BY <1>3 DEF Inside
<1>5. \A k \in Tree : Unborn(k)
  BY <1>2, <1>3 DEF Unborn
<1> QED
  BY <1>2, <1>3, <1>4, <1>5 DEF Bounds

(* Splitting keeps segments in bounds by RangeChild; the other steps move  *)
(* no segment.                                                             *)
LEMMA BoundsStep == ASSUME IInv, Bounds, NEW k \in Tree, func(k) PROVE Bounds'
<1>1. /\ Types /\ Places /\ Numbers
      /\ Types' /\ Tree' = Tree /\ h' = h /\ t' = t /\ input' = input
  BY TypesStep DEF IInv
<1>2. Started = {j \in Tree : pc[j] # "none"} /\ Started' = {j \in Tree : pc'[j] # "none"} /\ n' = n
      /\ n \in Nat
  BY <1>1, TreeFacts DEF Started, Types, n
<1>3. status' \in {"running", "finished", "aborted"}
  BY Zenon DEF func, Split, ReadCount, AddCount, Create1, Create2, Create, Join1, Join2, Join,
               MergeCopy, MergeOutside, MergeThrows, MergeWrite, SortNothing, SortCopy, SortWrite,
               Goto
<1>4. ASSUME NEW j \in Started, args'[j] = args[j] PROVE Inside(j)'
  BY <1>2, <1>4 DEF Bounds, Inside
<1> DEFINE Has == {"create1", "create2", "join1", "join2", "merge", "write"}
           Taken(j) == pc[j] = "counted" \/ pc[j] \in Has \/ (pc[j] = "done" /\ Splits(j))
<1>5. ASSUME NEW j \in Tree PROVE Unborn(j) <=> /\ pc[j] = "none" => args[j] = NoArgs
                                                /\ ~Taken(j) => tempThreadCount[j] = 0
  BY <1>2 DEF Unborn, Counted, Past
<1>6. ASSUME NEW j \in Tree,
             pc'[j] = "none" => pc[j] = "none" /\ args'[j] = args[j],
             ~Taken(j)' => ~Taken(j) /\ tempThreadCount'[j] = tempThreadCount[j]
      PROVE  Unborn(j)'
  <2>1. /\ pc[j] = "none" => args[j] = NoArgs
        /\ ~Taken(j) => tempThreadCount[j] = 0
    BY <1>5 DEF Bounds
  <2>2. /\ pc'[j] = "none" => args'[j] = NoArgs
        /\ ~Taken(j)' => tempThreadCount'[j] = 0
    BY <1>6, <2>1, Zenon
  <2>3. /\ j \notin Started' => pc'[j] = "none"
        /\ j \notin Counted' /\ pc'[j] # "counted" => ~Taken(j)'
    BY <1>1, <1>2 DEF Counted, Past
  <2>4. NoArgs' = NoArgs
    BY DEF NoArgs
  <2> QED
    BY <2>2, <2>3, <2>4 DEF Unborn
<1> DEFINE Bounded == /\ \A j \in Started' : Inside(j)'
                      /\ \A j \in Tree : Unborn(j)'
           LockBounded == numThreadsLock' \in Tree \union {NoThread} /\ (numThreadsLock' # NoThread => h > 0)
<1>0. numThreadsLock' \in {NoThread, numThreadsLock} => LockBounded
  BY DEF Bounds
<1>7. ASSUME Bounded, th' \in [0 .. t - 1 -> Tree \union {NoThread}],
             LockBounded
      PROVE  Bounds'
  <2>2. NoThread' = NoThread
    BY DEF NoThread
  <2> QED
    BY <1>1, <1>3, <1>7, <2>2 DEF Bounds
<1>8. ASSUME args' = args, th' = th,
             LockBounded,
             \A j \in Tree : j # k => pc'[j] = pc[j] /\ tempThreadCount'[j] = tempThreadCount[j],
             pc'[k] = "none" => pc[k] = "none", pc[k] = "none" => pc'[k] = "none",
             ~Taken(k)' => ~Taken(k) /\ tempThreadCount'[k] = tempThreadCount[k]
      PROVE  Bounds'
  <2>1. ASSUME NEW j \in Started' PROVE Inside(j)'
    <3>1. j \in Started
      BY <1>2, <1>8
    <3> QED
      BY <1>4, <1>8, <3>1
  <2>2. ASSUME NEW j \in Tree PROVE Unborn(j)'
    <3>1. CASE j = k
      BY <1>6, <1>8, <3>1
    <3>2. CASE j # k
      <4>1. Taken(j)' <=> Taken(j)
        BY <1>1, <1>8, <3>2 DEF Splits
      <4> QED
        BY <1>6, <1>8, <3>2, <4>1
    <3> QED
      BY <3>1, <3>2
  <2> QED
    BY <1>7, <1>8, <2>1, <2>2 DEF Bounds
<1> USE DEF Goto, Unchanged, shared
<1>9. CASE Split(k)
  <2>1. h > 0 /\ numThreadsLock' = k
    BY <1>1, <1>9 DEF Split, Types
  <2>2. /\ pc[k] = "start" /\ pc' = [pc EXCEPT ![k] = "count"] /\ args' = args /\ th' = th
        /\ tempThreadCount' = tempThreadCount
    BY <1>9 DEF Split
  <2>3. ~Taken(k) /\ \A j \in Tree : j # k => pc'[j] = pc[j]
    BY <1>1, <2>2 DEF Types
  <2>4. pc'[k] = "count"
    BY <1>1, <2>2 DEF Types
  <2> QED
    BY <1>8, <2>1, <2>2, <2>3, <2>4
<1>10. CASE ReadCount(k)
  <2>1. /\ pc[k] = "count" /\ pc' = [pc EXCEPT ![k] = "counted"] /\ args' = args /\ th' = th
        /\ numThreadsLock' = numThreadsLock
        /\ tempThreadCount' = [tempThreadCount EXCEPT ![k] = threadCount]
    BY <1>10 DEF ReadCount
  <2>2. /\ pc'[k] = "counted" /\ Taken(k)'
        /\ \A j \in Tree : j # k => pc'[j] = pc[j] /\ tempThreadCount'[j] = tempThreadCount[j]
    BY <1>1, <2>1 DEF Types
  <2> QED
    BY <1>0, <1>8, <2>1, <2>2
<1>11. CASE AddCount(k)
  <2>1. /\ pc[k] = "counted" /\ pc' = [pc EXCEPT ![k] = "create1"] /\ args' = args /\ th' = th
        /\ numThreadsLock' = NoThread /\ tempThreadCount' = tempThreadCount
    BY <1>11 DEF AddCount
  <2>2. pc'[k] = "create1" /\ Taken(k)' /\ \A j \in Tree : j # k => pc'[j] = pc[j]
    BY <1>1, <2>1 DEF Types
  <2> QED
    BY <1>0, <1>8, <2>1, <2>2
<1>12. CASE Join1(k) \/ Join2(k) \/ Plain(k)
  <2>1. /\ tempThreadCount' = tempThreadCount /\ numThreadsLock' = numThreadsLock
        /\ args' = args /\ th' = th
        /\ \A j \in Tree : j # k => pc'[j] = pc[j]
        /\ pc'[k] = "none" <=> pc[k] = "none"
        /\ Taken(k) => Taken(k)'
    <3>1. CASE Join1(k) \/ Join2(k)
      BY <1>1, <3>1 DEF Join1, Join2, Join, Types, Splits
    <3>2. CASE Idle
      BY <1>1, <3>2 DEF Idle, Splits
    <3>3. CASE Plain(k) /\ ~Idle
      BY <1>1, <3>3 DEF Plain, Goes, Types, Places, Splitting, Splits
    <3> QED
      BY <1>12, <3>1, <3>2, <3>3
  <2> QED
    BY <1>0, <1>8, <2>1
<1>14. ASSUME NEW c, NEW slot, NEW lo, NEW hi, NEW to \in {"create2", "join1"},
              Born(k, c, slot, lo, hi), pc' = [pc EXCEPT ![k] = to, ![c] = "start"],
              \/ lo = args[k].begin /\ hi = Mid(args[k])
              \/ lo = Mid(args[k]) + 1 /\ hi = args[k].end
       PROVE  Bounds'
  <2>1. /\ c \in Tree /\ c # k /\ pc[c] = "none" /\ Splits(k) /\ k \in Started
        /\ args'[c] = [threadID |-> slot, height |-> args[k].height + 1, begin |-> lo, end |-> hi]
        /\ \A x \in Tree : x # c => args'[x] = args[x]
        /\ pc'[c] = "start" /\ pc'[k] = to
        /\ \A x \in Tree : x # c /\ x # k => pc'[x] = pc[x]
        /\ tempThreadCount' = tempThreadCount /\ numThreadsLock' = numThreadsLock
        /\ th' = [th EXCEPT ![slot] = c] /\ slot \in DOMAIN th
    BY <1>1, <1>14 DEF Born, Types
  <2>2. Inside(c)'
    <3> DEFINE x == args[k].height
               b == args[k].begin
               e == args[k].end
               m == Mid(args[k])
    <3>1. x \in Nat /\ b \in Int /\ e \in Int
      BY <1>1 DEF Types
    <3>2. /\ 0 <= b /\ b <= n + x /\ -1 <= e /\ e <= n - 1 + x /\ b - 2 <= e /\ (b < e => e < n)
      BY <2>1 DEF Bounds, Inside
    <3>3. /\ -1 <= m /\ m <= n - 1 + (x + 1) /\ b - 2 <= m /\ (b < m => m < n)
          /\ 0 <= m + 1 /\ m + 1 <= n + (x + 1) /\ m + 1 - 2 <= e
          /\ m + 1 < e => e < n
          /\ m \in Int
      BY <1>2, <3>1, <3>2, RangeChild
    <3>4. (lo = b /\ hi = m) \/ (lo = m + 1 /\ hi = e)
      BY <1>14
    <3> HIDE DEF x, b, e, m
    <3>5. /\ 0 <= lo /\ lo <= n + (x + 1) /\ -1 <= hi /\ hi <= n - 1 + (x + 1)
          /\ lo - 2 <= hi /\ (lo < hi => hi < n)
      BY <1>2, <3>1, <3>2, <3>3, <3>4
    <3>6. args'[c].begin = lo /\ args'[c].end = hi /\ args'[c].height = x + 1
      BY <2>1 DEF x
    <3> QED
      BY <1>2, <3>5, <3>6 DEF Inside
  <2>3. ASSUME NEW j \in Started' PROVE Inside(j)'
    <3>1. CASE j = c
      BY <2>2, <3>1
    <3>2. CASE j # c
      <4>1. j \in Started /\ args'[j] = args[j]
        BY <1>2, <2>1, <3>2
      <4> QED
        BY <1>4, <4>1
    <3> QED
      BY <3>1, <3>2
  <2>4. ASSUME NEW j \in Tree PROVE Unborn(j)'
    <3>1. pc'[j] = "none" => pc[j] = "none" /\ args'[j] = args[j]
      BY <2>1
    <3>2. ~Taken(j)' => ~Taken(j)
      BY <1>1, <1>14, <2>1 DEF Splits
    <3> QED
      BY <1>6, <2>1, <3>1, <3>2
  <2>5. th' \in [0 .. t - 1 -> Tree \union {NoThread}]
    BY <2>1 DEF Bounds
  <2> QED
    BY <1>0, <1>7, <2>1, <2>3, <2>4, <2>5
<1>15. CASE Create1(k)
  BY <1>14, <1>15, BornFacts
<1>16. CASE Create2(k)
  BY <1>14, <1>16, BornFacts
<1> QED
  BY <1>1, <1>9, <1>10, <1>11, <1>12, <1>15, <1>16, Shapes

-----------------------------------------------------------------------------
(* The steps that touch arr and the copies.                                *)
LEMMA ArrSteps ==
  ASSUME NEW k \in Tree, func(k)
  PROVE  \/ arr' = arr /\ copy' = copy
         \/ MergeCopy(k) \/ SortCopy(k) \/ MergeWrite(k) \/ SortWrite(k)
BY Zenon DEF func, Split, ReadCount, AddCount, Create1, Create2, Create, Join1, Join2, Join,
             MergeOutside, MergeThrows, SortNothing, shared, local

(* Bytes written into an array of bytes leave one, wherever they go.       *)
LEMMA OverwriteTyped ==
  ASSUME NEW m \in Nat, arr \in [0 .. m - 1 -> Bytes], NEW lo \in Int, NEW s \in Seq(Bytes)
  PROVE  Overwrite(lo, s) \in [0 .. m - 1 -> Bytes]
<1>1. ASSUME NEW i \in 0 .. m - 1
      PROVE  (IF i \in lo .. lo + Len(s) - 1 THEN s[i - lo + 1] ELSE arr[i]) \in Bytes
  <2>1. CASE i \in lo .. lo + Len(s) - 1
    <3>1. Len(s) \in Nat
      OBVIOUS
    <3>2. i - lo + 1 \in 1 .. Len(s)
      BY <2>1, <3>1
    <3>3. s[i - lo + 1] \in Bytes
      BY <3>2, ElementOfSeq
    <3> QED
      BY <2>1, <3>3
  <2>2. CASE i \notin lo .. lo + Len(s) - 1
    BY <2>2
  <2> QED
    BY <2>1, <2>2
<1>2. DOMAIN arr = 0 .. m - 1
  OBVIOUS
<1> DEFINE At(i) == IF i \in lo .. lo + Len(s) - 1 THEN s[i - lo + 1] ELSE arr[i]
<1>3. Overwrite(lo, s) = [i \in 0 .. m - 1 |-> At(i)]
  BY <1>2, Zenon DEF Overwrite
<1>4. \A i \in 0 .. m - 1 : At(i) \in Bytes
  BY <1>1
<1> HIDE DEF At
<1> QED
  BY <1>3, <1>4

(* A segment that lies in arr and has a right half of no negative length,  *)
(* as MergeCopy asks, has both halves in arr.                              *)
LEMMA HalvesIn ==
  ASSUME NEW m \in Nat, NEW x \in [0 .. m - 1 -> Bytes], NEW b \in Int, NEW e \in Int,
         NEW a, a.begin = b, a.end = e, b >= 0, e < m, e - Mid(a) >= 0
  PROVE  /\ Mid(a) \in Int /\ b <= Mid(a) /\ Mid(a) <= e
         /\ Part(x, b, Mid(a)) \in Seq(Bytes) /\ Len(Part(x, b, Mid(a))) = Mid(a) - b + 1
         /\ Part(x, Mid(a) + 1, e) \in Seq(Bytes) /\ Len(Part(x, Mid(a) + 1, e)) = e - Mid(a)
         /\ Part(x, b, e) = Part(x, b, Mid(a)) \o Part(x, Mid(a) + 1, e)
<1> DEFINE d == Mid(a)
<1>1. d \in Int /\ (e - d >= 0 => e - b + 1 >= 1) /\ (e - b >= 0 => b <= d /\ d <= e)
  BY Halves
<1>2. e - d >= 0
  OBVIOUS
<1> HIDE DEF d
<1>3. b <= d /\ d <= e /\ d + 1 \in Int /\ d + 1 >= 0 /\ d < m /\ d + 1 - 1 <= e /\ b - 1 <= d
  BY <1>1, <1>2
<1>4. Part(x, b, d) \in Seq(Bytes) /\ Len(Part(x, b, d)) = d - b + 1
  BY ONLY <1>1, <1>3, PartFacts, m \in Nat, x \in [0 .. m - 1 -> Bytes], b \in Int, b >= 0
<1>5. Part(x, d + 1, e) \in Seq(Bytes) /\ Len(Part(x, d + 1, e)) = e - (d + 1) + 1
  BY ONLY <1>1, <1>3, PartFacts, m \in Nat, x \in [0 .. m - 1 -> Bytes], e \in Int, e < m
<1>6. e - (d + 1) + 1 = e - d
  BY <1>1
<1>7. Part(x, b, e) = Part(x, b, d) \o Part(x, d + 1, e)
  BY ONLY <1>1, <1>3, PartCat, m \in Nat, x \in [0 .. m - 1 -> Bytes], e \in Int, e < m, b \in Int, b >= 0
<1> QED
  BY <1>1, <1>3, <1>4, <1>5, <1>6, <1>7, Zenon DEF d

(* The array stays one of bytes, and the copies are sequences of them.     *)
LEMMA ContentInit == ASSUME Init PROVE Content
<1>1. input \in Seq(Bytes) /\ n \in Nat
  BY InputAssumption DEF Init, n
<1>2. arr = [i \in 0 .. n - 1 |-> input[i + 1]]
  BY DEF Init
<1>3. ASSUME NEW i \in 0 .. n - 1 PROVE input[i + 1] \in Bytes
  <2>1. i + 1 \in 1 .. Len(input)
    BY <1>1 DEF n
  <2> QED
    BY <1>1, <2>1, ElementOfSeq
<1>4. arr \in [0 .. n - 1 -> Bytes]
  BY <1>2, <1>3
<1>5. copy = [k \in Tree |-> NoCopy]
  BY DEF Init, Tree
<1>6. NoCopy \in [left : Seq(Bytes), right : Seq(Bytes)]
  BY DEF NoCopy
<1> QED
  BY <1>4, <1>5, <1>6 DEF Content

(* The four steps that touch arr or the copies put parts of arr in the     *)
(* copies, and what merge and mergeSort make of these in arr.              *)
LEMMA ContentStep == ASSUME IInv, Bounds, Content, NEW k \in Tree, func(k) PROVE Content'
<1> DEFINE Copies == [left : Seq(Bytes), right : Seq(Bytes)]
           b == args[k].begin
           e == args[k].end
<1>1. Types /\ Tree' = Tree /\ n' = n /\ n \in Nat /\ b \in Int /\ e \in Int
  BY TypesStep, TreeFacts DEF IInv, n, Types
<1>2. arr \in [0 .. n - 1 -> Bytes] /\ copy \in [Tree -> Copies]
  BY DEF Content
<1> HIDE DEF b, e
<1>3. ASSUME arr' \in [0 .. n - 1 -> Bytes], copy' \in [Tree -> Copies] PROVE Content'
  BY <1>1, <1>3 DEF Content
<1> HIDE DEF Copies
<1>4. CASE arr' = arr /\ copy' = copy
  BY <1>2, <1>3, <1>4
<1>5. CASE MergeCopy(k)
  <2> DEFINE d == Mid(args[k])
  <2>1. /\ b >= 0 /\ e < n /\ e - d >= 0 /\ arr' = arr
        /\ copy' = [copy EXCEPT ![k] = [left |-> Part(arr, b, d), right |-> Part(arr, d + 1, e)]]
    BY <1>5, Zenon DEF MergeCopy, InRange, Segment, Part, shared, b, e
  <2>2. Part(arr, b, d) \in Seq(Bytes) /\ Part(arr, d + 1, e) \in Seq(Bytes)
    <3>1. args[k].begin = b /\ args[k].end = e
      BY DEF b, e
    <3> QED
      BY <1>1, <1>2, <2>1, <3>1, HalvesIn
  <2>3. [left |-> Part(arr, b, d), right |-> Part(arr, d + 1, e)] \in Copies
    BY <2>2 DEF Copies
  <2> HIDE DEF d
  <2> QED
    BY <1>2, <1>3, <2>1, <2>3
<1>6. CASE SortCopy(k)
  <2>1. /\ b < e /\ arr' = arr /\ pc[k] = "start"
        /\ copy' = [copy EXCEPT ![k].left = Part(arr, b, e)]
    BY <1>6, Zenon DEF SortCopy, Segment, Part, shared, b, e, Goto
  <2>2. b >= 0 /\ e < n
    <3>1. Inside(k)
      BY <1>1, <2>1 DEF Bounds, Started, Types
    <3> QED
      BY <1>1, <2>1, <3>1 DEF Inside, b, e
  <2>3. Part(arr, b, e) \in Seq(Bytes)
    BY <1>1, <1>2, <2>1, <2>2, PartFacts
  <2> DEFINE s == Part(arr, b, e)
  <2> HIDE DEF s
  <2>4. copy' \in [Tree -> Copies]
    <3>1. copy' = [copy EXCEPT ![k] = [copy[k] EXCEPT !.left = s]]
      BY <2>1 DEF s
    <3>2. [copy[k] EXCEPT !.left = s] \in Copies
      BY <1>2, <2>3 DEF Copies, s
    <3> QED
      BY <1>2, <3>1, <3>2
  <2> QED
    BY <1>2, <1>3, <2>1, <2>4
<1>7. NoCopy \in Copies
  BY DEF NoCopy, Copies
<1>8. copy[k].left \in Seq(Bytes) /\ copy[k].right \in Seq(Bytes)
  BY <1>2 DEF Copies
<1>9. CASE MergeWrite(k)
  <2> DEFINE s == merge[<<copy[k].left, copy[k].right>>]
  <2>1. arr' = Overwrite(b, s) /\ copy' = [copy EXCEPT ![k] = NoCopy]
    BY <1>9 DEF MergeWrite, b
  <2>2. s \in Seq(Bytes)
    BY <1>8, MergeWorks, Zenon DEF Merges
  <2> HIDE DEF s
  <2>3. Overwrite(b, s) \in [0 .. n - 1 -> Bytes]
    BY <1>1, <1>2, <2>2, OverwriteTyped
  <2> QED
    BY <1>2, <1>3, <1>7, <2>1, <2>3
<1>10. CASE SortWrite(k)
  <2> DEFINE s == mergeSort[copy[k].left]
  <2>1. arr' = Overwrite(b, s) /\ copy' = [copy EXCEPT ![k] = NoCopy]
    BY <1>10 DEF SortWrite, b
  <2>2. s \in Seq(Bytes)
    BY <1>8, SortWorks, Zenon DEF Sorts
  <2> HIDE DEF s
  <2>3. Overwrite(b, s) \in [0 .. n - 1 -> Bytes]
    BY <1>1, <1>2, <2>2, OverwriteTyped
  <2> QED
    BY <1>2, <1>3, <1>7, <2>1, <2>3
<1> QED
  BY <1>4, <1>5, <1>6, <1>9, <1>10, ArrSteps

-----------------------------------------------------------------------------
(* In a file that is large enough every segment is in arr, and one that is *)
(* split has both halves.                                                  *)
LEMMA LargeFacts ==
  ASSUME IInv, LargeEnough, NEW k \in Started
  PROVE  /\ k \in Tree /\ args[k].begin \in Int /\ args[k].end \in Int /\ Mid(args[k]) \in Int
         /\ args[k].begin >= 0 /\ args[k].end < n /\ args[k].begin - 1 <= args[k].end
         /\ Splits(k) => args[k].begin <= Mid(args[k]) /\ Mid(args[k]) <= args[k].end
<1> DEFINE b == args[k].begin
           e == args[k].end
           m == Mid(args[k])
<1>1. Types /\ Sizes /\ k \in Tree
  BY TreeFacts DEF IInv
<1>2. b \in Int /\ e \in Int /\ args[k].height \in Nat /\ h \in Int
  BY <1>1 DEF Types
<1>3. m \in Int /\ (e - b >= 0 => b <= m /\ m <= e)
  BY <1>2, Halves
<1>4. b >= 0 /\ e < n /\ e - b + 1 >= IF Splits(k) THEN Pow(h - 1 - args[k].height) ELSE 0
  BY <1>1 DEF Sizes, Fits, Size
<1>5. ASSUME Splits(k) PROVE e - b >= 0
  <2>1. Pow(h - 1 - args[k].height) \in Nat /\ Pow(h - 1 - args[k].height) >= 1
    BY <1>2, <1>5, PowAbove DEF Splits
  <2> HIDE DEF b, e
  <2> QED
    BY <1>2, <1>4, <1>5, <2>1
<1>6. b - 1 <= e
  <2>1. CASE Splits(k)
    BY <1>2, <1>5, <2>1
  <2>2. CASE ~Splits(k)
    BY <1>2, <1>4, <2>2
  <2> QED
    BY <2>1, <2>2
<1> QED
  BY <1>1, <1>2, <1>3, <1>4, <1>5, <1>6

(* So merge neither throws nor leaves arr.                                 *)
LEMMA NeverThrows ==
  ASSUME IInv, LargeEnough, NEW k \in Tree
  PROVE  ~MergeThrows(k) /\ ~MergeOutside(k)
<1>1. ASSUME pc[k] = "merge" PROVE args[k].end - Mid(args[k]) >= 0 /\ InRange(args[k].begin, args[k].end)
  <2>1. k \in Started /\ Splits(k)
    BY <1>1 DEF IInv, Places, Splitting, Started, Types
  <2>2. /\ args[k].begin \in Int /\ args[k].end \in Int /\ Mid(args[k]) \in Int
        /\ args[k].begin >= 0 /\ args[k].end < n /\ Mid(args[k]) <= args[k].end
    BY <2>1, LargeFacts
  <2> QED
    BY <2>2 DEF InRange
<1>2. args[k].end \in Int /\ Mid(args[k]) \in Int
  <2>1. args[k].begin \in Int /\ args[k].end \in Int
    BY DEF IInv, Types
  <2> QED
    BY <2>1, Halves
<1> QED
  BY <1>1, <1>2 DEF MergeThrows, MergeOutside, Goto

(* What has been joined stays so.                                          *)
LEMMA JoinedStays == ASSUME IInv, NEW k \in Tree, func(k), NEW c \in Tree, Joined(c) PROVE Joined(c)'
<1>1. Types /\ Tree' = Tree /\ h' = h
  BY TypesStep DEF IInv
<1>2. SUFFICES ASSUME NEW j \in Tree PROVE /\ JoinedLeft(j) => JoinedLeft(j)'
                                           /\ JoinedRight(j) => JoinedRight(j)'
  BY <1>1 DEF Joined
<1>3. CASE Idle
  BY <1>1, <1>3, OthersKeep DEF Idle
<1>4. CASE Stays(k)
  <2>1. CASE j = k
    BY <1>4, <2>1 DEF Stays, JoinedLeft, JoinedRight, Past
  <2>2. CASE j # k
    BY <1>1, <1>4, <2>2, OthersKeep DEF Stays
  <2> QED
    BY <2>1, <2>2
<1>5. ASSUME NEW d, NEW slot, NEW lo, NEW hi, NEW to,
             Born(k, d, slot, lo, hi), pc' = [pc EXCEPT ![k] = to, ![d] = "start"],
             pc[k] \in {"create1", "create2"}
      PROVE  /\ JoinedLeft(j) => JoinedLeft(j)'
             /\ JoinedRight(j) => JoinedRight(j)'
  <2>1. /\ d \in Tree /\ d # k /\ pc[d] = "none"
        /\ \A x \in Tree : x # d => args'[x] = args[x]
        /\ \A x \in Tree : x # d /\ x # k => pc'[x] = pc[x]
    BY <1>1, <1>5 DEF Born, Types
  <2>2. CASE j = k \/ j = d
    BY <1>5, <2>1, <2>2 DEF JoinedLeft, JoinedRight, Past
  <2>3. CASE j # k /\ j # d
    BY <1>1, <2>1, <2>3, OthersKeep
  <2> QED
    BY <2>2, <2>3
<1>6. CASE Create1(k)
  BY <1>5, <1>6, BornFacts
<1>7. CASE Create2(k)
  BY <1>5, <1>7, BornFacts
<1> QED
  BY <1>3, <1>4, <1>6, <1>7, StepKinds

(* A thread that does not move has in order what it had, where nobody      *)
(* changes the elements it holds.                                          *)
LEMMA DataStays ==
  ASSUME IInv, LargeEnough, NEW j \in Tree, Data(j), pc'[j] = pc[j], args'[j] = args[j],
         copy'[j] = copy[j], Joined(j) => Joined(j)',
         \A i \in Int : Holds(j, i) => arr'[i] = arr[i]
  PROVE  Data(j)'
<1> DEFINE b == args[j].begin
           e == args[j].end
           m == Mid(args[j])
<1>1. AllOf(j)' = Part(arr', b, e) /\ LeftOf(j)' = Part(arr', b, m) /\ RightOf(j)' = Part(arr', m + 1, e)
  BY DEF AllOf, LeftOf, RightOf, Mid, Half, Part
<1>2. AllOf(j) = Part(arr, b, e) /\ LeftOf(j) = Part(arr, b, m) /\ RightOf(j) = Part(arr, m + 1, e)
  BY DEF AllOf, LeftOf, RightOf
<1>3. pc[j] = "none" \/ j \in Started
  BY DEF Started, IInv, Types
<1>4. ASSUME pc[j] = "none" PROVE Data(j)'
  BY <1>4 DEF Data
<1>5. ASSUME j \in Started PROVE Data(j)'
  <2>1. b \in Int /\ e \in Int /\ m \in Int /\ m + 1 \in Int /\ (Splits(j) => b <= m /\ m <= e)
    BY <1>5, LargeFacts
  <2>2. pc[j] \in {"join2", "merge", "write"} => Splits(j)
    BY DEF IInv, Places, Splitting
  <2>3. ASSUME NEW i \in Int, b <= i, i <= e, pc[j] \in {"merge", "write", "sort"} \/ (pc[j] = "done" /\ ~Joined(j))
        PROVE  Holds(j, i)
    BY <2>3 DEF Holds
  <2>4. ASSUME NEW i \in Int, b <= i, i <= m, pc[j] = "join2" PROVE Holds(j, i)
    BY <2>1, <2>2, <2>4 DEF Holds
  <2> HIDE DEF b, e, m
  <2>5. ASSUME pc[j] \in {"merge", "write", "sort"} \/ (pc[j] = "done" /\ ~Joined(j))
        PROVE  Part(arr', b, e) = Part(arr, b, e)
    BY <2>1, <2>3, <2>5, PartSame
  <2>6. ASSUME pc[j] \in {"join2", "merge", "write"} PROVE Part(arr', b, m) = Part(arr, b, m)
    <3>1. ASSUME NEW i \in b .. m PROVE arr'[i] = arr[i]
      BY <2>1, <2>2, <2>3, <2>4, <2>6, <3>1
    <3> QED
      BY <2>1, <3>1, PartSame
  <2>7. ASSUME pc[j] \in {"merge", "write"} PROVE Part(arr', m + 1, e) = Part(arr, m + 1, e)
    <3>1. ASSUME NEW i \in m + 1 .. e PROVE arr'[i] = arr[i]
      BY <2>1, <2>2, <2>3, <2>7, <3>1
    <3> QED
      BY <2>1, <3>1, PartSame
  <2> QED
    BY <1>1, <1>2, <2>5, <2>6, <2>7, Zenon DEF Data
<1> QED
  BY <1>3, <1>4, <1>5

(* The file does not change, so Permuted is about the new arr.             *)
LEMMA PermutedNext ==
  ASSUME n' = n, input' = input, NEW a, arr' = a,
         \A x \in Bytes : Count(Part(a, 0, n - 1), x) = Count(input, x)
  PROVE  Permuted'
<1>1. ASSUME NEW x \in Bytes PROVE (Count(Part(arr, 0, n - 1), x) = Count(input, x))'
  <2>1. Count(Part(a, 0, n - 1), x) = Count(input, x)
    OBVIOUS
  <2>2. Part(arr, 0, n - 1)' = Part(a, 0, n - 1)
    BY Zenon DEF Part
  <2>3. Occurs(Part(arr, 0, n - 1), x)' = Occurs(Part(a, 0, n - 1), x)
    BY <2>2, Zenon DEF Occurs
  <2>4. Occurs(input, x)' = Occurs(input, x)
    BY Zenon DEF Occurs
  <2> QED
    BY <2>1, <2>3, <2>4, Zenon DEF Count
<1> QED
  BY <1>1, Zenon DEF Permuted

(* A thread that writes a rearrangement of its segment, in order.          *)
LEMMA WriteOrders ==
  ASSUME IInv, LargeEnough, Content, Permuted, \A j \in Tree : Data(j), NEW k \in Tree, func(k),
         pc[k] \in {"write", "sort"}, pc' = [pc EXCEPT ![k] = "done"], args' = args,
         \A j \in Tree : j # k => copy'[j] = copy[j],
         NEW s \in Seq(Bytes), arr' = Overwrite(args[k].begin, s), Len(s) = Len(AllOf(k)),
         Ordered(s), \A x \in Bytes : Count(s, x) = Count(AllOf(k), x)
  PROVE  Permuted' /\ \A j \in Tree : Data(j)'
<1> DEFINE b == args[k].begin
           e == args[k].end
<1>1. Types /\ OneHolds /\ n' = n /\ n \in Nat /\ input' = input /\ k \in Started
  BY TypesStep, TreeFacts DEF IInv, n, Started, Types
<1>2. b \in Int /\ e \in Int /\ b >= 0 /\ e < n /\ b - 1 <= e
  BY <1>1, LargeFacts
<1>3. arr \in [0 .. n - 1 -> Bytes] /\ AllOf(k) = Part(arr, b, e)
  BY DEF Content, AllOf
<1>4. arr' = [i \in DOMAIN arr |-> IF i \in b .. b + Len(s) - 1 THEN s[i - b + 1] ELSE arr[i]]
  BY Zenon DEF Overwrite
<1> HIDE DEF b, e
<1>5. Len(s) = e - b + 1
  BY <1>1, <1>2, <1>3, PartFacts
<1>6. /\ \A i \in 0 .. n - 1 : i \notin b .. e => arr'[i] = arr[i]
      /\ Part(arr', b, e) = s
      /\ \A x \in Bytes : Count(s, x) = Count(Part(arr, b, e), x) =>
           Count(Part(arr', 0, n - 1), x) = Count(Part(arr, 0, n - 1), x)
  <2> DEFINE c == arr'
  <2>1. c = [i \in DOMAIN arr |-> IF i \in b .. b + Len(s) - 1 THEN s[i - b + 1] ELSE arr[i]]
    BY <1>4
  <2> HIDE DEF c
  <2>2. /\ \A i \in 0 .. n - 1 : i \notin b .. e => c[i] = arr[i]
        /\ Part(c, b, e) = s
        /\ \A x \in Bytes : Count(s, x) = Count(Part(arr, b, e), x) =>
             Count(Part(c, 0, n - 1), x) = Count(Part(arr, 0, n - 1), x)
    <3>1. n \in Nat /\ arr \in [0 .. n - 1 -> Bytes]
      BY <1>1, <1>3
    <3> QED
      BY ONLY <1>2, <1>5, <2>1, <3>1, s \in Seq(Bytes), Overwritten
  <2> QED
    BY <2>2 DEF c
<1>7. Permuted'
  <2>1. \A x \in Bytes : Count(Part(arr', 0, n - 1), x) = Count(input, x)
    BY <1>3, <1>6, Zenon DEF Permuted
  <2> QED
    BY <1>1, <2>1, PermutedNext
<1>8. Data(k)'
  <2>1. pc'[k] = "done"
    BY <1>1 DEF Types
  <2>2. AllOf(k)' = Part(arr', b, e)
    BY DEF AllOf, Part, b, e
  <2>3. Ordered(s) => Ordered(AllOf(k)')
    BY <1>6, <2>2, Zenon
  <2> QED
    BY <2>1, <2>3, Zenon DEF Data, Ordered
<1>9. ASSUME NEW j \in Tree, j # k PROVE Data(j)'
  <2>1. pc'[j] = pc[j] /\ args'[j] = args[j] /\ copy'[j] = copy[j] /\ (Joined(j) => Joined(j)')
    BY <1>1, <1>9, JoinedStays DEF Types
  <2>2. ASSUME NEW i \in Int, Holds(j, i) PROVE arr'[i] = arr[i]
    <3>1. ~Holds(k, i)
      BY <1>1, <1>9, <2>2 DEF OneHolds
    <3>2. i \notin b .. e
      BY <1>2, <3>1 DEF Holds, b, e
    <3>3. j \in Started
      BY <2>2 DEF Holds, Started, IInv, Types
    <3>4. i \in 0 .. n - 1
      <4>1. args[j].begin \in Int /\ args[j].end \in Int /\ args[j].begin >= 0 /\ args[j].end < n
        BY <3>3, LargeFacts
      <4> QED
        BY <1>1, <2>2, <4>1 DEF Holds
    <3> QED
      BY <1>6, <3>2, <3>4
  <2> QED
    BY <2>1, <2>2, DataStays
<1> QED
  BY <1>7, <1>8, <1>9

(* Where no bytes are written, only the threads that move are concerned.   *)
LEMMA DataElsewhere ==
  ASSUME IInv, LargeEnough, Permuted, \A j \in Tree : Data(j), NEW k \in Tree, func(k),
         arr' = arr, NEW K \in SUBSET Tree,
         \A j \in Tree \ K : pc'[j] = pc[j] /\ args'[j] = args[j] /\ copy'[j] = copy[j],
         \A j \in K : Data(j)'
  PROVE  Permuted' /\ \A j \in Tree : Data(j)'
<1>1. n' = n /\ input' = input
  BY TypesStep DEF n
<1>2. Permuted'
  BY <1>1, PermutedNext DEF Permuted
<1>3. ASSUME NEW j \in Tree \ K PROVE Data(j)'
  <2>1. Joined(j) => Joined(j)'
    BY JoinedStays
  <2> QED
    BY <2>1, DataStays
<1> QED
  BY <1>2, <1>3

(* Where a thread splits, its segment is its halves put together.          *)
LEMMA SegmentHalves ==
  ASSUME IInv, LargeEnough, Content, NEW k \in Started, Splits(k)
  PROVE  LeftOf(k) \in Seq(Bytes) /\ RightOf(k) \in Seq(Bytes) /\ AllOf(k) = LeftOf(k) \o RightOf(k)
<1> DEFINE b == args[k].begin
           e == args[k].end
           d == Mid(args[k])
<1>1. b \in Int /\ e \in Int /\ d \in Int /\ b >= 0 /\ e < n /\ d <= e /\ n \in Nat
  BY LargeFacts, TreeFacts DEF IInv
<1>2. arr \in [0 .. n - 1 -> Bytes]
  BY DEF Content
<1>3. args[k].begin = b /\ args[k].end = e
  OBVIOUS
<1> HIDE DEF b, e
<1>4. e - d >= 0
  <2> HIDE DEF d
  <2> QED
    BY <1>1
<1>5. /\ Part(arr, b, d) \in Seq(Bytes) /\ Part(arr, d + 1, e) \in Seq(Bytes)
      /\ Part(arr, b, e) = Part(arr, b, d) \o Part(arr, d + 1, e)
  <2>1. b \in Int /\ e \in Int /\ b >= 0 /\ e < n /\ n \in Nat
    BY <1>1
  <2>2. /\ Part(arr, b, d) \in Seq(Bytes) /\ Part(arr, d + 1, e) \in Seq(Bytes)
    BY ONLY <1>2, <1>3, <1>4, <2>1, HalvesIn
  <2>3. Part(arr, b, e) = Part(arr, b, d) \o Part(arr, d + 1, e)
    <3>1. d \in Int /\ d <= e /\ b <= d
      BY LargeFacts DEF b, e
    <3> HIDE DEF d
    <3>2. d + 1 \in Int /\ b - 1 <= d /\ d + 1 - 1 <= e /\ d <= e
      BY <2>1, <3>1
    <3> QED
      BY ONLY <1>2, <2>1, <3>1, <3>2, PartCat
  <2> QED
    BY <2>2, <2>3
<1> QED
  BY <1>5, Zenon DEF AllOf, LeftOf, RightOf, b, e, d

(* Each step keeps what Data tells: a join takes over what the child had   *)
(* in order, a copy what is in arr, and a write leaves the thread's own    *)
(* segment in order and does not touch what others hold.                   *)
LEMMA DataStep == ASSUME IInv, Bounds, Content, DataInv, NEW k \in Tree, func(k) PROVE DataInv'
<1>1. /\ Types /\ Places /\ Family /\ Types' /\ Tree' = Tree /\ h' = h /\ input' = input /\ n' = n
      /\ n \in Nat /\ \A j \in Tree : j \in Nat
  BY TypesStep, TreeFacts DEF IInv, n
<1>2. SUFFICES ASSUME LargeEnough PROVE Permuted' /\ \A j \in Tree : Data(j)'
  BY <1>1 DEF DataInv, LargeEnough
<1>3. Permuted /\ \A j \in Tree : Data(j)
  BY <1>2 DEF DataInv
<1> DEFINE b == args[k].begin
           e == args[k].end
           m == Mid(args[k])
<1> DEFINE One == {k}
(* Of a step of k alone that leaves arr as it is.                          *)
<1>4. ASSUME NEW to, pc' = [pc EXCEPT ![k] = to], args' = args, arr' = arr,
             \A j \in Tree : j # k => copy'[j] = copy[j], Data(k)'
      PROVE  Permuted' /\ \A j \in Tree : Data(j)'
  <2>1. \A j \in Tree \ One : pc'[j] = pc[j] /\ args'[j] = args[j] /\ copy'[j] = copy[j]
    BY <1>1, <1>4 DEF Types
  <2>2. One \in SUBSET Tree /\ \A j \in One : Data(j)'
    BY <1>4
  <2> HIDE DEF One
  <2> QED
    BY <1>2, <1>3, <1>4, <2>1, <2>2, DataElsewhere
<1>5. ASSUME NEW to \in {"count", "counted", "create1"}, pc' = [pc EXCEPT ![k] = to], args' = args,
             arr' = arr, copy' = copy
      PROVE  Permuted' /\ \A j \in Tree : Data(j)'
  <2>1. pc'[k] = to
    BY <1>1, <1>5 DEF Types
  <2>2. Data(k)'
    BY <1>5, <2>1 DEF Data
  <2> QED
    BY <1>4, <1>5, <2>2
<1>6. CASE Split(k) \/ ReadCount(k) \/ AddCount(k)
  <2>1. \E to \in {"count", "counted", "create1"} : /\ pc' = [pc EXCEPT ![k] = to] /\ args' = args
                                                    /\ arr' = arr /\ copy' = copy
    BY <1>6, Zenon DEF Split, ReadCount, AddCount, Goto, shared, Unchanged
  <2> QED
    BY <1>5, <2>1
(* A creation: neither thread has anything in order yet.                   *)
<1>7. ASSUME NEW c, NEW slot, NEW lo, NEW hi, NEW to \in {"create2", "join1"},
             Born(k, c, slot, lo, hi), pc' = [pc EXCEPT ![k] = to, ![c] = "start"],
             arr' = arr, copy' = copy
      PROVE  Permuted' /\ \A j \in Tree : Data(j)'
  <2> DEFINE Two == {k, c}
  <2>1. /\ c \in Tree /\ c # k /\ pc'[c] = "start" /\ pc'[k] = to
        /\ \A x \in Tree : x # c => args'[x] = args[x]
        /\ \A x \in Tree : x # c /\ x # k => pc'[x] = pc[x]
    BY <1>1, <1>7 DEF Born, Types
  <2>2. Data(k)' /\ Data(c)'
    BY <1>7, <2>1 DEF Data
  <2>3. /\ \A j \in Tree \ Two : pc'[j] = pc[j] /\ args'[j] = args[j] /\ copy'[j] = copy[j]
        /\ Two \in SUBSET Tree /\ \A j \in Two : Data(j)'
    BY <1>7, <2>1, <2>2
  <2> HIDE DEF Two
  <2> QED
    BY <1>2, <1>3, <1>7, <2>3, DataElsewhere
<1>8. CASE Create1(k) \/ Create2(k)
  <2>1. arr' = arr /\ copy' = copy
    BY <1>8, Zenon DEF Create1, Create2, Create
  <2> QED
    BY <1>7, <1>8, <2>1, BornFacts
(* A join: what the child left in order is the parent's half.              *)
<1>9. ASSUME arr' = arr, args' = args
      PROVE  AllOf(k)' = AllOf(k) /\ LeftOf(k)' = LeftOf(k) /\ RightOf(k)' = RightOf(k)
  BY <1>9 DEF AllOf, LeftOf, RightOf, Part, Mid, Half
<1>10. CASE Join1(k)
  <2>1. pc[k] = "join1" /\ pc' = [pc EXCEPT ![k] = "join2"] /\ args' = args /\ arr' = arr /\ copy' = copy
    BY <1>10, Zenon DEF Join1, Join, Goto, shared
  <2>2. HasLeft(k) /\ ~JoinedLeft(k) /\ 2 * k \in Tree
    BY <1>1, <2>1, HasFacts DEF HasLeft, JoinedLeft, Past
  <2>3. pc[2 * k] = "done" /\ ~Joined(2 * k)
    <3>1. pc[th[tempThreadCount[k]]] = "done"
      BY <1>10 DEF Join1, Join
    <3>2. th[tempThreadCount[k]] = 2 * k
      BY <1>1, <2>2 DEF Family, Parent
    <3> QED
      BY <1>1, <2>2, <3>1, <3>2, JoinedFacts
  <2>4. Ordered(AllOf(2 * k))
    BY <1>3, <2>2, <2>3 DEF Data
  <2>5. AllOf(2 * k) = LeftOf(k)
    <3>1. args[2 * k].begin = args[k].begin /\ args[2 * k].end = Mid(args[k])
      <4>1. Parent(k)
        BY <1>1 DEF Family
      <4>2. args[2 * k] = [threadID |-> tempThreadCount[k], height |-> args[k].height + 1,
                           begin |-> args[k].begin, end |-> Mid(args[k])]
        BY <2>2, <4>1, Zenon DEF Parent
      <4> QED
        BY <4>2
    <3> QED
      BY <3>1, Zenon DEF AllOf, LeftOf
  <2>6. pc'[k] = "join2"
    BY <1>1, <2>1 DEF Types
  <2>7. Data(k)'
    <3>1. Ordered(LeftOf(k))'
      BY <1>9, <2>1, <2>4, <2>5 DEF Ordered
    <3> QED
      BY <2>6, <3>1 DEF Data
  <2> QED
    BY <1>4, <2>1, <2>7
<1>11. CASE Join2(k)
  <2>1. pc[k] = "join2" /\ pc' = [pc EXCEPT ![k] = "merge"] /\ args' = args /\ arr' = arr /\ copy' = copy
    BY <1>11, Zenon DEF Join2, Join, Goto, shared
  <2>2. HasRight(k) /\ ~JoinedRight(k) /\ 2 * k + 1 \in Tree
    BY <1>1, <2>1, HasFacts DEF HasRight, JoinedRight, Past
  <2>3. pc[2 * k + 1] = "done" /\ ~Joined(2 * k + 1)
    <3>1. pc[th[tempThreadCount[k] + 1]] = "done"
      BY <1>11 DEF Join2, Join
    <3>2. th[tempThreadCount[k] + 1] = 2 * k + 1
      BY <1>1, <2>2 DEF Family, Parent
    <3> QED
      BY <1>1, <2>2, <3>1, <3>2, JoinedFacts
  <2>4. Ordered(AllOf(2 * k + 1)) /\ Ordered(LeftOf(k))
    BY <1>3, <2>1, <2>2, <2>3 DEF Data
  <2>5. AllOf(2 * k + 1) = RightOf(k)
    <3>1. args[2 * k + 1].begin = Mid(args[k]) + 1 /\ args[2 * k + 1].end = args[k].end
      <4>1. Parent(k)
        BY <1>1 DEF Family
      <4>2. args[2 * k + 1] = [threadID |-> tempThreadCount[k] + 1, height |-> args[k].height + 1,
                               begin |-> Mid(args[k]) + 1, end |-> args[k].end]
        BY <2>2, <4>1, Zenon DEF Parent
      <4> QED
        BY <4>2
    <3> QED
      BY <3>1, Zenon DEF AllOf, RightOf
  <2>6. pc'[k] = "merge"
    BY <1>1, <2>1 DEF Types
  <2>7. Data(k)'
    <3>1. Ordered(LeftOf(k))' /\ Ordered(RightOf(k))'
      BY <1>9, <2>1, <2>4, <2>5 DEF Ordered
    <3> QED
      BY <2>6, <3>1 DEF Data
  <2> QED
    BY <1>4, <2>1, <2>7
(* The copies.                                                             *)
<1>12. CASE MergeCopy(k)
  <2>1. /\ pc[k] = "merge" /\ pc' = [pc EXCEPT ![k] = "write"] /\ args' = args /\ arr' = arr
        /\ copy' = [copy EXCEPT ![k] = [left |-> LeftOf(k), right |-> RightOf(k)]]
    BY <1>12, Zenon DEF MergeCopy, Goto, shared, LeftOf, RightOf, Segment, Part
  <2>2. pc'[k] = "write"
    BY <1>1, <2>1 DEF Types
  <2>3. /\ copy'[k] = [left |-> LeftOf(k), right |-> RightOf(k)]
        /\ \A j \in Tree : j # k => copy'[j] = copy[j]
    BY <2>1 DEF Content
  <2>4. Ordered(LeftOf(k)) /\ Ordered(RightOf(k))
    BY <1>3, <2>1 DEF Data
  <2>5. Data(k)'
    <3>1. Ordered(LeftOf(k))' /\ Ordered(RightOf(k))'
      BY <1>9, <2>1, <2>4 DEF Ordered
    <3>2. copy'[k] = [left |-> LeftOf(k)', right |-> RightOf(k)']
      BY <1>9, <2>1, <2>3, Zenon
    <3> QED
      BY <2>2, <3>1, <3>2, Zenon DEF Data
  <2> QED
    BY <1>4, <2>1, <2>3, <2>5
<1>13. CASE SortCopy(k)
  <2>1. /\ pc' = [pc EXCEPT ![k] = "sort"] /\ args' = args /\ arr' = arr
        /\ copy' = [copy EXCEPT ![k].left = AllOf(k)]
    BY <1>13, Zenon DEF SortCopy, Goto, shared, AllOf, Segment, Part
  <2>2. pc'[k] = "sort"
    BY <1>1, <2>1 DEF Types
  <2>3. /\ copy'[k].left = AllOf(k)
        /\ \A j \in Tree : j # k => copy'[j] = copy[j]
    BY <2>1 DEF Content
  <2>4. Data(k)'
    <3>1. copy'[k].left = AllOf(k)'
      BY <1>9, <2>1, <2>3, Zenon
    <3> QED
      BY <2>2, <3>1 DEF Data
  <2> QED
    BY <1>4, <2>1, <2>3, <2>4
<1>14. CASE SortNothing(k)
  <2>1. /\ pc[k] = "start" /\ pc' = [pc EXCEPT ![k] = "done"] /\ args' = args /\ arr' = arr
        /\ copy' = copy /\ b >= e
    BY <1>14, Zenon DEF SortNothing, Goto, shared
  <2>2. pc'[k] = "done" /\ k \in Started
    BY <1>1, <2>1 DEF Types, Started
  <2>3. Ordered(AllOf(k))
    <3>1. b \in Int /\ e \in Int /\ b >= 0 /\ e < n /\ b - 1 <= e /\ arr \in [0 .. n - 1 -> Bytes]
      BY <1>2, <2>2, LargeFacts DEF Content
    <3> HIDE DEF b, e
    <3> DEFINE s == Part(arr, b, e)
    <3>2. s \in Seq(Bytes) /\ Len(s) = e - b + 1
      BY <1>1, <3>1, PartFacts
    <3> HIDE DEF s
    <3>3. ASSUME NEW p \in 1 .. Len(s), NEW q \in 1 .. Len(s) PROVE s[p] <= s[q]
      <4>1. p = q /\ s[p] \in Bytes
        BY <2>1, <3>1, <3>2, ElementOfSeq
      <4>2. s[p] <= s[p]
        BY <4>1, ByteOrder, Zenon
      <4> QED
        BY <4>1, <4>2
    <3> QED
      BY <3>3 DEF Ordered, AllOf, s, b, e
  <2>4. Data(k)'
    <3>1. Ordered(AllOf(k))'
      BY <1>9, <2>1, <2>3 DEF Ordered
    <3> QED
      BY <2>2, <3>1 DEF Data
  <2> QED
    BY <1>4, <2>1, <2>4
(* The writes.                                                             *)
<1>15. CASE MergeWrite(k)
  <2> DEFINE l == LeftOf(k)
             r == RightOf(k)
             s == merge[<<l, r>>]
  <2>1. /\ pc[k] = "write" /\ pc' = [pc EXCEPT ![k] = "done"] /\ args' = args
        /\ copy' = [copy EXCEPT ![k] = NoCopy]
        /\ arr' = Overwrite(b, merge[<<copy[k].left, copy[k].right>>])
    BY <1>15, Zenon DEF MergeWrite, Goto
  <2>2. copy[k] = [left |-> l, right |-> r] /\ Ordered(l) /\ Ordered(r)
    BY <1>3, <2>1 DEF Data
  <2>3. arr' = Overwrite(b, s)
    <3>1. copy[k].left = l /\ copy[k].right = r
      <4> HIDE DEF l, r
      <4> QED
        BY <2>2
    <3> QED
      BY <2>1, <3>1, Zenon
  <2>4. k \in Started /\ Splits(k)
    BY <1>1, <2>1 DEF Started, Types, Places, Splitting
  <2>5. /\ l \in Seq(Bytes) /\ r \in Seq(Bytes) /\ AllOf(k) = l \o r
    <3> HIDE DEF m, b, e, l, r
    <3>1. LeftOf(k) \in Seq(Bytes) /\ RightOf(k) \in Seq(Bytes) /\ AllOf(k) = LeftOf(k) \o RightOf(k)
      BY ONLY <1>2, <2>4, IInv, Content, SegmentHalves, Zenon
    <3> QED
      BY <3>1, Zenon DEF l, r
  <2> HIDE DEF l, r
  <2>6. /\ s \in Seq(Bytes) /\ Len(s) = Len(l) + Len(r) /\ Ordered(s)
        /\ \A x \in Bytes : Count(s, x) = Count(l, x) + Count(r, x)
    BY <2>2, <2>5, MergeWorks, Zenon DEF Merges
  <2>7. Len(l \o r) = Len(l) + Len(r) /\ \A x \in Bytes : Count(l \o r, x) = Count(l, x) + Count(r, x)
    BY <2>5, Cat, CountCat
  <2> HIDE DEF s
  <2>8. Len(s) = Len(AllOf(k)) /\ \A x \in Bytes : Count(s, x) = Count(AllOf(k), x)
    BY <2>5, <2>6, <2>7, Zenon
  <2>9. \A j \in Tree : j # k => copy'[j] = copy[j]
    BY <2>1 DEF Content
  <2>10. pc[k] \in {"write", "sort"}
    BY <2>1
  <2> QED
    BY <1>2, <1>3, <2>1, <2>3, <2>6, <2>8, <2>9, <2>10, WriteOrders
<1>16. CASE SortWrite(k)
  <2> DEFINE a == AllOf(k)
             s == mergeSort[a]
  <2>1. /\ pc[k] = "sort" /\ pc' = [pc EXCEPT ![k] = "done"] /\ args' = args
        /\ copy' = [copy EXCEPT ![k] = NoCopy]
        /\ arr' = Overwrite(b, mergeSort[copy[k].left])
    BY <1>16, Zenon DEF SortWrite, Goto
  <2>2. copy[k].left = a
    BY <1>3, <2>1 DEF Data
  <2>3. arr' = Overwrite(b, s)
    BY <2>1, <2>2, Zenon
  <2>4. a \in Seq(Bytes)
    BY <2>2 DEF Content
  <2>5. /\ s \in Seq(Bytes) /\ Len(s) = Len(a) /\ Ordered(s) /\ \A x \in Bytes : Count(s, x) = Count(a, x)
    BY <2>4, SortWorks, Zenon DEF Sorts
  <2>6. \A j \in Tree : j # k => copy'[j] = copy[j]
    BY <2>1 DEF Content
  <2>7. pc[k] \in {"write", "sort"}
    BY <2>1
  <2> HIDE DEF s
  <2> QED
    BY <1>2, <1>3, <2>1, <2>3, <2>5, <2>6, <2>7, WriteOrders
<1> HIDE DEF b, e, m, One
<1>17. ~MergeThrows(k) /\ ~MergeOutside(k)
  BY <1>2, NeverThrows
<1> QED
  BY <1>6, <1>8, <1>10, <1>11, <1>12, <1>13, <1>14, <1>15, <1>16, <1>17, Zenon DEF func

-----------------------------------------------------------------------------
(* The invariant with the types and the bytes: at first                    *)
LEMMA DataInit == ASSUME Init PROVE DataInv
<1>1. input \in Seq(Bytes) /\ n = Len(input) /\ n \in Nat
  BY InputAssumption DEF Init, n
<1>2. arr = [i \in 0 .. n - 1 |-> input[i + 1]] /\ arr \in [0 .. n - 1 -> Bytes]
  BY ContentInit DEF Init, Content
<1>3. Part(arr, 0, n - 1) = input
  <2> DEFINE s == Part(arr, 0, n - 1)
  <2>1. s \in Seq(Bytes) /\ Len(s) = n - 1 - 0 + 1 /\ \A i \in 1 .. n - 1 - 0 + 1 : s[i] = arr[0 + i - 1]
    <3>1. 0 \in Int /\ n - 1 \in Int /\ 0 >= 0 /\ n - 1 < n /\ 0 - 1 <= n - 1
      BY <1>1
    <3> QED
      BY ONLY <1>1, <1>2, <3>1, PartFacts
  <2> HIDE DEF s
  <2>2. Len(s) = n
    BY <1>1, <2>1
  <2>3. ASSUME NEW i \in 1 .. n PROVE s[i] = input[i]
    <3>1. i \in 1 .. n - 1 - 0 + 1 /\ 0 + i - 1 \in 0 .. n - 1 /\ 0 + i - 1 + 1 = i
      BY <1>1
    <3>2. s[i] = arr[0 + i - 1]
      BY <2>1, <3>1
    <3>3. arr[0 + i - 1] = input[0 + i - 1 + 1]
      BY <1>2, <3>1
    <3> QED
      BY <3>1, <3>2, <3>3
  <2>4. s = input
    BY <1>1, <2>1, <2>2, <2>3
  <2> QED
    BY <2>4 DEF s
<1>4. Permuted
  BY <1>3, Zenon DEF Permuted
<1>5. \A k \in Tree : pc[k] = IF k = 1 THEN "start" ELSE "none"
  BY DEF Init, Tree
<1>6. \A k \in Tree : Data(k)
  BY <1>5 DEF Data
<1> QED
  BY <1>4, <1>6 DEF DataInv

(* and in every reachable state.                                           *)
LEMMA FullInv == Spec => [](IInv /\ Bounds /\ Content /\ DataInv)
<1> DEFINE Rest == Bounds /\ Content /\ DataInv
<1>1. Init => Rest
  BY BoundsInit, ContentInit, DataInit
<1>2. IInv /\ Rest /\ [Next]_vars => Rest'
  <2>1. SUFFICES ASSUME IInv, Rest, [Next]_vars PROVE Rest'
    OBVIOUS
  <2>2. IInv /\ Bounds /\ Content /\ DataInv
    BY <2>1
  <2>4. ASSUME NEW k \in DOMAIN pc, func(k) PROVE Rest'
    <3>1. k \in Tree
      BY <2>2 DEF IInv, Types
    <3> QED
      BY <2>2, <2>4, <3>1, BoundsStep, ContentStep, DataStep
  <2>5. CASE Finish \/ UNCHANGED vars
    <3>1. /\ h' = h /\ t' = t /\ input' = input /\ arr' = arr /\ numThreadsLock' = numThreadsLock
          /\ th' = th /\ pc' = pc /\ args' = args /\ tempThreadCount' = tempThreadCount /\ copy' = copy
      BY <2>5, Zenon DEF Finish, Unchanged, vars, shared, local
    <3>2. status' \in {status, "finished"}
      BY <2>5 DEF Finish, vars
    <3>3. Tree' = Tree /\ Counted' = Counted /\ Started' = Started /\ n' = n /\ NoThread' = NoThread
          /\ (LargeEnough' <=> LargeEnough)
      BY <3>1 DEF Tree, Nodes, Counted, Started, Past, Splits, n, NoThread, LargeEnough
    <3>4. Bounds'
      BY <2>2, <3>1, <3>2, <3>3 DEF Bounds, Inside, Unborn, NoArgs
    <3>5. Content'
      BY <2>2, <3>1, <3>3 DEF Content
    <3>6. ASSUME LargeEnough PROVE Permuted' /\ \A j \in Tree : Data(j)'
      <4>1. Permuted /\ \A j \in Tree : Data(j)
        BY <2>2, <3>6 DEF DataInv
      <4>2. Permuted'
        BY <3>1, <3>3, <4>1, PermutedNext DEF Permuted
      <4>3. ASSUME NEW j \in Tree PROVE Data(j)'
        <5>1. Joined(j) => Joined(j)'
          BY <3>1, <3>3 DEF Joined, JoinedLeft, JoinedRight, Past, Splits
        <5> QED
          BY <2>2, <3>1, <3>6, <4>1, <5>1, DataStays
      <4> QED
        BY <4>2, <4>3
    <3> QED
      BY <3>3, <3>4, <3>5, <3>6 DEF DataInv
  <2> QED
    BY <2>1, <2>4, <2>5 DEF Next, Ended
<1> HIDE DEF Rest
<1>3. Spec => [](IInv /\ Rest)
  BY <1>1, <1>2, IndInv, PTL DEF Spec
<1> QED
  BY <1>3, PTL DEF Rest

-----------------------------------------------------------------------------
(* 2^m is above m: a tree of height h has more than h threads.             *)
LEMMA PowExceeds == ASSUME NEW m \in Nat PROVE Pow(m) > m
<1> DEFINE T == {x \in Nat : ~(Pow(x) > x)}
<1>1. ASSUME T # {} PROVE FALSE
  <2>1. PICK x \in T : \A y \in T : x <= y
    BY <1>1, LeastNatural
  <2>2. x # 0
    BY PowNext
  <2>3. x - 1 \in Nat /\ x = (x - 1) + 1 /\ x - 1 \notin T
    BY <2>1, <2>2
  <2>4. Pow(x) = 2 * Pow(x - 1) /\ Pow(x - 1) \in Nat /\ Pow(x - 1) > x - 1
    BY <2>3, PowNext
  <2> QED
    BY <2>3, <2>4
<1> QED
  BY <1>1

(* Every variable keeps its type: segments stay in the array but for what  *)
(* an empty one is off by, and no number is past the end of th.            *)
THEOREM TypeCorrect == Spec => []TypeOK
<1>1. IInv /\ Bounds /\ Content => TypeOK
  <2>1. SUFFICES ASSUME IInv, Bounds, Content PROVE TypeOK
    OBVIOUS
  <2>2. Types /\ Places /\ Numbers
    BY <2>1 DEF IInv
  <2>3. /\ h \in Int /\ h >= -1 /\ t \in Nat /\ n \in Nat /\ h <= t /\ (h = -1 => t = 0)
        /\ h >= 0 => Tree = Nodes
    <3>1. h + 1 \in Nat /\ Pow(h + 1) \in Nat /\ Pow(h + 1) > h + 1 /\ t = Pow(h + 1) - 1
      BY <2>2, PowExceeds, PowNext DEF Types
    <3>2. t \in Nat /\ n \in Nat
      BY <2>2, TreeFacts
    <3>3. h = -1 => Pow(h + 1) = 1
      BY PowNext
    <3>4. Nodes = 1 .. t
      BY <3>1 DEF Nodes, Pow
    <3>5. h \in Int /\ (h >= 0 => t >= 1)
      BY <2>2, <3>1 DEF Types
    <3> QED
      BY <2>2, <3>1, <3>2, <3>3, <3>4, <3>5 DEF Types, Tree
  <2>4. threadCount \in 1 .. (IF t > 1 THEN t ELSE 1)
    <3>1. Cardinality(Counted) \in Nat /\ (Counted # {} => threadCount <= t)
          /\ threadCount = 1 + 2 * Cardinality(Counted)
      BY <2>2, CountBound DEF Numbers
    <3>2. Counted = {} => Cardinality(Counted) = 0
      BY FS_EmptySet
    <3> QED
      BY <2>3, <3>1, <3>2
  <2>5. numThreadsLock \in Nodes \union {NoThread}
    BY <2>1, <2>3 DEF Bounds
  <2>6. th \in [0 .. t - 1 -> Nodes \union {NoThread}]
    BY <2>1, <2>3 DEF Bounds
  <2>7. pc \in [Nodes \union {1} -> Points] /\ DOMAIN pc = Tree
    BY <2>2 DEF Types, Tree
  <2>8. ASSUME NEW k \in Tree
        PROVE  /\ args[k].height \in 0 .. (IF h < 0 THEN 0 ELSE h)
               /\ args[k].begin \in 0 .. n + t /\ args[k].end \in -1 .. n + t
    <3> DEFINE x == args[k].height
               b == args[k].begin
               e == args[k].end
    <3>1. x \in Nat /\ b \in Int /\ e \in Int
      BY <2>2 DEF Types
    <3>2. CASE k \in Started
      <4>1. x <= IF h < 0 THEN 0 ELSE h
        BY <2>2, <2>3, <3>1, <3>2 DEF Places
      <4>2. 0 <= b /\ b <= n + x /\ -1 <= e /\ e <= n - 1 + x
        BY <2>1, <3>2 DEF Bounds, Inside
      <4> HIDE DEF x, b, e
      <4>3. /\ x \in 0 .. (IF h < 0 THEN 0 ELSE h)
            /\ b \in 0 .. n + t /\ e \in -1 .. n + t
        BY <2>3, <3>1, <4>1, <4>2
      <4> QED
        BY <4>3 DEF x, b, e
    <3>3. CASE k \notin Started
      <4>1. x = 0 /\ b = 0 /\ e = 0
        BY <2>1, <3>3 DEF Bounds, Unborn, NoArgs
      <4> HIDE DEF x, b, e
      <4>2. /\ x \in 0 .. (IF h < 0 THEN 0 ELSE h)
            /\ b \in 0 .. n + t /\ e \in -1 .. n + t
        BY <2>3, <4>1
      <4> QED
        BY <4>2 DEF x, b, e
    <3> QED
      BY <3>2, <3>3
  <2>9. ASSUME NEW k \in Tree PROVE tempThreadCount[k] \in 0 .. t
    <3>1. tempThreadCount[k] \in Nat /\ threadCount \in Nat /\ (Counted # {} => threadCount <= t)
      BY <2>2, CountBound DEF Types
    <3>2. CASE k \in Counted
      <4>1. tempThreadCount[k] + 1 < threadCount
        BY <2>2, <3>2 DEF Numbers
      <4> QED
        BY <2>3, <3>1, <3>2, <4>1
    <3>3. CASE pc[k] = "counted"
      <4>1. tempThreadCount[k] = threadCount
        BY <2>2, <3>3 DEF Numbers
      <4>2. t >= 1
        <5>1. Splits(k)
          BY <2>2, <3>3 DEF Places, Splitting
        <5>2. h > 0
          BY <2>2, <5>1 DEF Splits, Types
        <5> QED
          BY <2>3, <5>2
      <4>3. threadCount <= t
        BY <2>3, <2>4, <4>2
      <4> QED
        BY <2>3, <3>1, <4>1, <4>3
    <3>4. CASE k \notin Counted /\ pc[k] # "counted"
      <4>1. tempThreadCount[k] = 0
        BY <2>1, <3>4 DEF Bounds, Unborn
      <4> QED
        BY <2>3, <4>1
    <3> QED
      BY <3>2, <3>3, <3>4
  <2> QED
    BY <2>1, <2>4, <2>5, <2>6, <2>7, <2>8, <2>9 DEF TypeOK, Bounds, Content
<1> QED
  BY <1>1, FullInv, PTL

(* When main has joined the root, arr holds the bytes of the file, each as *)
(* often, in order: each thread that was joined left its half in order,    *)
(* and none has written since to what another had.                         *)
THEOREM AlwaysSorted == Spec => []Sorted
<1>1. IInv /\ Content /\ DataInv /\ AbortsIffTooSmall => Sorted
  <2>1. SUFFICES ASSUME IInv, Content, DataInv, AbortsIffTooSmall, status = "finished"
                 PROVE  /\ \A i \in 1 .. n - 1 : arr[i - 1] <= arr[i]
                        /\ \A b \in Bytes : Cardinality({i \in 1 .. n : arr[i - 1] = b})
                                             = Cardinality({i \in 1 .. n : input[i] = b})
    BY Zenon DEF Sorted
  <2> DEFINE s == Part(arr, 0, n - 1)
  <2>2. Types /\ pc[1] = "done" /\ args[1].begin = 0 /\ args[1].end = n - 1 /\ n \in Nat /\ 1 \in Tree
    <3>1. Types /\ Places /\ Outcome
      BY <2>1 DEF IInv
    <3> QED
      BY <2>1, <3>1, TreeFacts DEF Places, Outcome
  <2>3. LargeEnough
    BY <2>1 DEF AbortsIffTooSmall
  <2>4. ~Joined(1)
    <3>1. \A k \in Tree : k \in Nat /\ k >= 1
      BY <2>2, TreeFacts
    <3> QED
      BY <3>1 DEF Joined
  <2>5. Ordered(s)
    <3>1. Ordered(AllOf(1))
      BY <2>1, <2>2, <2>3, <2>4 DEF DataInv, Data
    <3> QED
      BY <2>2, <3>1, Zenon DEF AllOf
  <2>6. \A b \in Bytes : Count(s, b) = Count(input, b)
    BY <2>1, <2>3 DEF DataInv, Permuted
  <2>7. s \in Seq(Bytes) /\ Len(s) = n - 1 - 0 + 1 /\ \A i \in 1 .. n - 1 - 0 + 1 : s[i] = arr[0 + i - 1]
    <3>1. 0 \in Int /\ n - 1 \in Int /\ 0 >= 0 /\ n - 1 < n /\ 0 - 1 <= n - 1
      BY <2>2
    <3>2. arr \in [0 .. n - 1 -> Bytes] /\ n \in Nat
      BY <2>1, <2>2 DEF Content
    <3> QED
      BY ONLY <3>1, <3>2, PartFacts
  <2> HIDE DEF s
  <2>8. Len(s) = n
    BY <2>2, <2>7
  <2>9. ASSUME NEW i \in 1 .. n PROVE s[i] = arr[i - 1]
    <3>1. i \in 1 .. n - 1 - 0 + 1 /\ 0 + i - 1 = i - 1
      BY <2>2
    <3> QED
      BY <2>7, <3>1
  <2>10. ASSUME NEW i \in 1 .. n - 1 PROVE arr[i - 1] <= arr[i]
    <3>1. i \in 1 .. n /\ i + 1 \in 1 .. n /\ i + 1 - 1 = i /\ i <= i + 1
      BY <2>2
    <3>2. s[i] <= s[i + 1]
      BY <2>5, <2>8, <3>1 DEF Ordered
    <3> QED
      BY <2>9, <3>1, <3>2
  <2>11. ASSUME NEW b \in Bytes
         PROVE  Cardinality({i \in 1 .. n : arr[i - 1] = b}) = Cardinality({i \in 1 .. n : input[i] = b})
    <3>1. {i \in 1 .. n : arr[i - 1] = b} = Occurs(s, b)
      BY <2>8, <2>9 DEF Occurs
    <3>2. {i \in 1 .. n : input[i] = b} = Occurs(input, b)
      BY DEF Occurs, n
    <3> QED
      BY <2>6, <3>1, <3>2 DEF Count
  <2> QED
    BY <2>10, <2>11
<1> QED
  BY <1>1, FullInv, AbortsOnlyIfTooSmall, PTL
=============================================================================
