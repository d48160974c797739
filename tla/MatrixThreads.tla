---------------------------- MODULE MatrixThreads ----------------------------
(***************************************************************************)
(* A1/Q3: the product of two matrices, divided among threads in three ways *)
(* - multithread1 (a thread for each cell), multithread2 (for each row)    *)
(* and multithread3 (four, for the quadrants of A) - and the product that  *)
(* sequential.cpp computes.  The programs differ in what a thread has to   *)
(* do and in whether it holds a lock while it adds to a cell of C.         *)
(*                                                                         *)
(* The operator += is a read and a write, with the other threads in        *)
(* between.  multiply has no return statement, which these builds survive. *)
(***************************************************************************)
EXTENDS Integers, Sequences, FiniteSets, SequencesExt, FiniteSetsExt

CONSTANTS Instances,   \* pairs of a program, 1 to 3, and a size n
          A, B,        \* the random matrices, functions of row and column
          MaxThreads   \* what the kernel lets the process have besides main

ASSUME MatrixAssumption == /\ Instances \subseteq (1..3) \X (Nat \ {0})
                           /\ MaxThreads \in Nat \ {0}
                           /\ \A instance \in Instances :
                                LET Row == 0..instance[2] - 1 IN
                                \A cell \in Row \X Row : A[cell] \in Nat /\ B[cell] \in Nat

VARIABLES program, n,
          C,     \* the result
          Lock,  \* the thread that holds it, or NoThread
          todo,  \* of each thread: the additions it has still to make
          read,  \* of each thread: the cell as it has read it, or NotRead
          joined,  \* main: how many threads it has waited for
          main     \* main: "create", "join", "returned" or "aborted"

vars == <<program, n, C, Lock, todo, read, joined, main>>

NoThread == 0
NotRead == -1
Indices == 0..n - 1
Threads == CASE program = 1 -> n * n [] program = 2 -> n [] program = 3 -> 4

-----------------------------------------------------------------------------
(* multiply of sequential.cpp.                                             *)
Product(i, j) == MapThenSumSet(LAMBDA k : A[<<i, k>>] * B[<<k, j>>], Indices)

(* The quadrant of multithread3: where a thread begins and how many steps  *)
(* it makes in one direction, for the first (0) or the second half (1).    *)
From(half) == half * (n \div 2)

StepsLimit(half) == IF n % 2 = 0 \/ From(half) = 0 THEN n \div 2 ELSE (n + 1) \div 2

Quadrant(half) == From(half) .. From(half) + StepsLimit(half) - 1

(* multiply, the three of them: the additions that the argument asks for.  *)
(* An addition <<i, j, k>> is C[i][k] += A[i][j] * B[j][k].                *)
multiply(num) ==
  CASE program = 1 -> {num \div n} \X Indices \X {num % n}
    [] program = 2 -> {num} \X Indices \X Indices
    [] program = 3 -> Quadrant(num % 2) \X Quadrant(num \div 2) \X Indices

(* The order of the loops: multithread2 goes through a cell at a time.     *)
Before(a, b) == LET Key(x) == IF program = 2 THEN <<x[1], x[3], x[2]>> ELSE x IN
  \E d \in 1..3 : Key(a)[d] < Key(b)[d] /\ \A e \in 1..d - 1 : Key(a)[e] = Key(b)[e]

Init == /\ \E instance \in Instances : program = instance[1] /\ n = instance[2]
        /\ C = [cell \in Indices \X Indices |-> 0]
        /\ Lock = NoThread
        /\ todo = <<>> /\ read = <<>>
        /\ joined = 0
        /\ main = "create"

-----------------------------------------------------------------------------
Running == {t \in DOMAIN todo : todo[t] # {}}

(* Pthread_create, with the assertion on its result: a thread too many     *)
(* ends the process.                                                       *)
Create == /\ main = "create" /\ Cardinality(Running) < MaxThreads
          /\ todo' = Append(todo, multiply(Len(todo)))
          /\ read' = Append(read, NotRead)
          /\ main' = IF Len(todo') = Threads THEN "join" ELSE "create"
          /\ UNCHANGED <<program, n, C, Lock, joined>>

CreateFails == /\ main = "create" /\ Cardinality(Running) >= MaxThreads
               /\ main' = "aborted"
               /\ UNCHANGED <<program, n, C, Lock, todo, read, joined>>

(* The threads are joined in order, then main returns.                     *)
Join == /\ main = "join" /\ todo[joined + 1] = {}
        /\ joined' = joined + 1
        /\ main' = IF joined' = Threads THEN "returned" ELSE "join"
        /\ UNCHANGED <<program, n, C, Lock, todo, read>>

Returned == main \in {"returned", "aborted"} /\ UNCHANGED vars

-----------------------------------------------------------------------------
First(t) == CHOOSE a \in todo[t] : \A b \in todo[t] \ {a} : Before(a, b)
Cell(t) == <<First(t)[1], First(t)[3]>>
Term(t) == A[<<First(t)[1], First(t)[2]>>] * B[<<First(t)[2], First(t)[3]>>]

Locks == program = 3

Acquire(t) == /\ main # "aborted" /\ t \in Running
              /\ Locks /\ Lock = NoThread /\ Lock' = t
              /\ UNCHANGED <<program, n, C, todo, read, joined, main>>

ReadWhen(t, allowed) == /\ main # "aborted" /\ t \in Running /\ read[t] = NotRead
                        /\ allowed
                        /\ read' = [read EXCEPT ![t] = C[Cell(t)]]
                        /\ UNCHANGED <<program, n, C, Lock, todo, joined, main>>

(* As ReadCell, multithread3 without its lock.                             *)
ReadCellUnlocked(t) == ReadWhen(t, TRUE)

ReadCell(t) == ReadWhen(t, Locks => Lock = t)

Adds(t, holder) == /\ main # "aborted" /\ t \in Running /\ read[t] # NotRead
                   /\ C' = [C EXCEPT ![Cell(t)] = read[t] + Term(t)]
                   /\ read' = [read EXCEPT ![t] = NotRead]
                   /\ todo' = [todo EXCEPT ![t] = @ \ {First(t)}]
                   /\ Lock' = holder
                   /\ UNCHANGED <<program, n, joined, main>>

(* As WriteCell, the lock kept.                                            *)
WriteCellKeepsLock(t) == Adds(t, Lock)

WriteCell(t) == Adds(t, NoThread)

thread(t) == Acquire(t) \/ ReadCell(t) \/ WriteCell(t)

Next == Create \/ CreateFails \/ Join \/ Returned \/ \E t \in DOMAIN todo : thread(t)

Spec == Init /\ [][Next]_vars

(* Threads that can run do.                                                *)
Most == Max({4} \union {instance[2] * instance[2] : instance \in Instances})
FairSpec == /\ Spec /\ WF_vars(Create \/ CreateFails \/ Join)
            /\ \A t \in 1..Most : WF_vars(t \in DOMAIN todo /\ thread(t))

-----------------------------------------------------------------------------
(* When main returns, C is the product the sequential program computes:    *)
(* no addition is lost to another thread and no element belongs to none -  *)
(* but in multithread3 with matrices of one element, whose halves are      *)
(* empty and which stay 0.                                                 *)
ProductComputed ==
  main = "returned" =>
    C = [cell \in Indices \X Indices |->
           IF program = 3 /\ n = 1 THEN 0 ELSE Product(cell[1], cell[2])]

(* main ends; and where the threads are as many as the process may have,   *)
(* it returns.                                                             *)
Ends == <>(main = "returned" \/ (main = "aborted" /\ Threads > MaxThreads))
=============================================================================
