----------------------------- MODULE MergeSort -----------------------------
(***************************************************************************)
(* A2/Q3/q3.cpp: a merge sort in which a thread at a height below h splits *)
(* its segment between two new threads, joins both and merges, and a       *)
(* thread at height h sorts its segment alone.  The array, the counter     *)
(* that numbers the threads and the vector th of their handles are shared. *)
(*                                                                         *)
(* A thread is named by its place in the tree: 1 is the root and 2k and    *)
(* 2k+1 are the children of k.  The number the program gives it is in      *)
(* args, and is what th is indexed with.                                   *)
(***************************************************************************)
EXTENDS Integers, Sequences, FiniteSets

CONSTANTS Inputs,       \* the files: sequences of bytes
          ThreadArgs    \* the values of argv[1]

Bytes == 0 .. 255
ASSUME InputAssumption == \A f \in Inputs : f \in Seq(Bytes)
ASSUME ThreadArgAssumption == ThreadArgs \subseteq Nat \ {0}

VARIABLES h,            \* depth of the recursion into threads
          t,            \* size of th
          input,        \* the file as read, not changed again
          arr,          \* arr[0 .. n-1]
          threadCount, numThreadsLock,
          th,           \* th[i]: the handle pthread_create stored in slot i
          pc,           \* where each thread is
          args,         \* what it was started with
          tempThreadCount,
          copy,         \* the two temporary arrays of merge
          status        \* of the process

shared == <<arr, threadCount, numThreadsLock, th>>
local == <<pc, args, tempThreadCount, copy>>
vars == <<h, t, input, shared, local, status>>

n == Len(input)

(* A mistake this code could have made, kept to see the properties notice  *)
(* it: one thread too few is allowed for.                                  *)
roundNumberOfThreadsShort(m) == 2 ^ m - 2

(* 1 << m, less one; and the integer part of log2, which the quotient of   *)
(* floating-point logarithms yields for every int.                         *)
roundNumberOfThreads(m) == 2 ^ m - 1
heightOfFunc(u) == (CHOOSE k \in 0 .. u : 2 ^ k <= u /\ u < 2 ^ (k + 1)) - 1

(* A mistake this code could have made, kept to see the properties notice  *)
(* it: a middle that is rounded down.                                      *)
HalfRoundedDown(x) == x \div 2

(* int division truncates towards zero: an empty segment has its middle at *)
(* its own beginning.                                                      *)
Half(x) == IF x < 0 THEN -((-x) \div 2) ELSE x \div 2
Mid(a) == a.begin + Half(a.end - a.begin)

NoThread == 0
Nodes == 1 .. 2 ^ (h + 1) - 1
NoArgs == [threadID |-> 0, height |-> 0, begin |-> 0, end |-> 0]
NoCopy == [left |-> <<>>, right |-> <<>>]

Segment(lo, hi) == [i \in 1 .. hi - lo + 1 |-> arr[lo + i - 1]]
InRange(lo, hi) == lo >= 0 /\ hi < n
Overwrite(lo, seq) == [i \in DOMAIN arr |-> IF i \in lo .. lo + Len(seq) - 1
                                              THEN seq[i - lo + 1] ELSE arr[i]]

(* The three loops of merge, on the two temporary arrays.                  *)
merge[halves \in Seq(Bytes) \X Seq(Bytes)] ==
  LET l == halves[1]  r == halves[2] IN
  IF l = <<>> THEN r
  ELSE IF r = <<>> THEN l
  ELSE IF l[1] <= r[1] THEN <<l[1]>> \o merge[<<Tail(l), r>>]
                       ELSE <<r[1]>> \o merge[<<l, Tail(r)>>]

mergeSort[s \in Seq(Bytes)] ==
  IF Len(s) <= 1 THEN s
  ELSE LET mid == Half(Len(s) - 1) + 1
       IN  merge[<<mergeSort[SubSeq(s, 1, mid)], mergeSort[SubSeq(s, mid + 1, Len(s))]>>]

-----------------------------------------------------------------------------
(* main up to the creation of the root thread.                             *)
Init == /\ input \in Inputs
        /\ \E arg \in ThreadArgs : /\ h = heightOfFunc(arg)
                                   /\ t = roundNumberOfThreads(h + 1)
        /\ arr = [i \in 0 .. n - 1 |-> input[i + 1]]
        /\ threadCount = 1
        /\ numThreadsLock = NoThread
        /\ th = [i \in 0 .. t - 1 |-> NoThread]
        /\ LET nodes == Nodes \union {1} IN
             /\ pc = [k \in nodes |-> IF k = 1 THEN "start" ELSE "none"]
             /\ args = [k \in nodes |-> IF k = 1 THEN [NoArgs EXCEPT !.end = n - 1] ELSE NoArgs]
             /\ tempThreadCount = [k \in nodes |-> 0]
             /\ copy = [k \in nodes |-> NoCopy]
        /\ status = "running"

Goto(k, from, to) == /\ status = "running"
                     /\ pc[k] = from
                     /\ pc' = [pc EXCEPT ![k] = to]

Unchanged == UNCHANGED <<h, t, input>>

(* A mistake this code could have made, kept to see the properties notice  *)
(* it: numThreadsLock is not taken.                                        *)
SplitUnlocked(k) ==
  /\ args[k].height < h
  /\ Goto(k, "start", "count")
  /\ Unchanged /\ UNCHANGED <<shared, args, tempThreadCount, copy, status>>

(* func: split or sort.                                                    *)
Split(k) == /\ args[k].height < h
            /\ Goto(k, "start", "count")
            /\ numThreadsLock = NoThread /\ numThreadsLock' = k
            /\ Unchanged /\ UNCHANGED <<arr, threadCount, th, args, tempThreadCount, copy, status>>

ReadCount(k) == /\ Goto(k, "count", "counted")
                /\ tempThreadCount' = [tempThreadCount EXCEPT ![k] = threadCount]
                /\ Unchanged /\ UNCHANGED <<shared, args, copy, status>>

(* A mistake this code could have made, kept to see the properties notice  *)
(* it: numThreadsLock is not released.                                     *)
AddCountKeepsLock(k) ==
  /\ Goto(k, "counted", "create1")
  /\ threadCount' = threadCount + 2
  /\ Unchanged /\ UNCHANGED <<arr, numThreadsLock, th, args, tempThreadCount, copy, status>>

AddCount(k) == /\ Goto(k, "counted", "create1")
               /\ threadCount' = threadCount + 2
               /\ numThreadsLock' = NoThread
               /\ Unchanged /\ UNCHANGED <<arr, th, args, tempThreadCount, copy, status>>

(* Pthread_create with arguments a: the child is started and its handle    *)
(* stored in slot th[a.threadID].                                          *)
Create(k, child, a, from, to) ==
  /\ status = "running" /\ pc[k] = from
  /\ pc' = [pc EXCEPT ![k] = to, ![child] = "start"]
  /\ args' = [args EXCEPT ![child] = a]
  /\ th' = [th EXCEPT ![a.threadID] = child]
  /\ Unchanged /\ UNCHANGED <<arr, threadCount, numThreadsLock, tempThreadCount, copy, status>>

Create1(k) == Create(k, 2 * k,
                     [threadID |-> tempThreadCount[k], height |-> args[k].height + 1,
                      begin |-> args[k].begin, end |-> Mid(args[k])], "create1", "create2")

(* A mistake this code could have made, kept to see the properties notice  *)
(* it: the right half begins at the middle.                                *)
Create2FromMid(k) ==
  Create(k, 2 * k + 1, [threadID |-> tempThreadCount[k] + 1, height |-> args[k].height + 1,
                        begin |-> Mid(args[k]), end |-> args[k].end], "create2", "join1")

Create2(k) == Create(k, 2 * k + 1,
                     [threadID |-> tempThreadCount[k] + 1, height |-> args[k].height + 1,
                      begin |-> Mid(args[k]) + 1, end |-> args[k].end], "create2", "join1")

Join(k, slot, from, to) == /\ Goto(k, from, to)
                           /\ pc[th[slot]] = "done"
                           /\ Unchanged /\ UNCHANGED <<shared, args, tempThreadCount, copy, status>>

Join1(k) == Join(k, tempThreadCount[k], "join1", "join2")

(* A mistake this code could have made, kept to see the properties notice  *)
(* it: the second Pthread_join is missing.                                 *)
Join2Skipped(k) == /\ Goto(k, "join2", "merge")
                   /\ Unchanged /\ UNCHANGED <<shared, args, tempThreadCount, copy, status>>

Join2(k) == Join(k, tempThreadCount[k] + 1, "join2", "merge")

(* merge, first half: allocate the temporary arrays and fill them.  A      *)
(* negative length makes new throw, which ends the process; reading past   *)
(* the end of arr may end it too, or reads a byte of the heap that the     *)
(* second half writes back where it was.                                   *)
MergeCopy(k) ==
  LET a == args[k]  mid == Mid(a)
  IN  /\ Goto(k, "merge", "write")
      /\ a.end - mid >= 0
      /\ InRange(a.begin, a.end)
      /\ copy' = [copy EXCEPT ![k] = [left |-> Segment(a.begin, mid),
                                      right |-> Segment(mid + 1, a.end)]]
      /\ Unchanged /\ UNCHANGED <<shared, args, tempThreadCount, status>>

MergeOutside(k) == /\ Goto(k, "merge", "done")
                   /\ args[k].end - Mid(args[k]) >= 0
                   /\ ~InRange(args[k].begin, args[k].end)
                   /\ status' \in {"running", "aborted"}
                   /\ Unchanged /\ UNCHANGED <<shared, args, tempThreadCount, copy>>

MergeThrows(k) == /\ status = "running" /\ pc[k] = "merge"
                  /\ args[k].end - Mid(args[k]) < 0
                  /\ status' = "aborted"
                  /\ Unchanged /\ UNCHANGED <<shared, local>>

MergeWrite(k) == /\ Goto(k, "write", "done")
                 /\ arr' = Overwrite(args[k].begin, merge[<<copy[k].left, copy[k].right>>])
                 /\ copy' = [copy EXCEPT ![k] = NoCopy]
                 /\ Unchanged
                 /\ UNCHANGED <<threadCount, numThreadsLock, th, args, tempThreadCount, status>>

(* A thread at height h: mergeSort reads its segment, if it has two or     *)
(* more elements, and leaves it sorted.                                    *)
SortNothing(k) == /\ args[k].height >= h
                  /\ args[k].begin >= args[k].end
                  /\ Goto(k, "start", "done")
                  /\ Unchanged /\ UNCHANGED <<shared, args, tempThreadCount, copy, status>>

SortCopy(k) == /\ args[k].height >= h
               /\ args[k].begin < args[k].end
               /\ Goto(k, "start", "sort")
               /\ copy' = [copy EXCEPT ![k].left = Segment(args[k].begin, args[k].end)]
               /\ Unchanged /\ UNCHANGED <<shared, args, tempThreadCount, status>>

SortWrite(k) == /\ Goto(k, "sort", "done")
                /\ arr' = Overwrite(args[k].begin, mergeSort[copy[k].left])
                /\ copy' = [copy EXCEPT ![k] = NoCopy]
                /\ Unchanged
                /\ UNCHANGED <<threadCount, numThreadsLock, th, args, tempThreadCount, status>>

(* main joins the root thread.                                             *)
Finish == /\ status = "running"
          /\ pc[1] = "done"
          /\ status' = "finished"
          /\ Unchanged /\ UNCHANGED <<shared, local>>

Ended == status # "running" /\ UNCHANGED vars

func(k) == \/ Split(k) \/ ReadCount(k) \/ AddCount(k) \/ Create1(k) \/ Create2(k)
           \/ Join1(k) \/ Join2(k) \/ MergeCopy(k) \/ MergeOutside(k) \/ MergeThrows(k)
           \/ MergeWrite(k) \/ SortNothing(k) \/ SortCopy(k) \/ SortWrite(k)

Next == (\E k \in DOMAIN pc : func(k)) \/ Finish \/ Ended

(* Runnable threads run.                                                   *)
Spec == Init /\ [][Next]_vars /\ WF_vars(Next)
-----------------------------------------------------------------------------
Points == {"none", "start", "count", "counted", "create1", "create2", "join1", "join2",
           "merge", "write", "sort", "done"}

TypeOK ==
  /\ arr \in [0 .. n - 1 -> Bytes]
  /\ threadCount \in 1 .. (IF t > 1 THEN t ELSE 1)
  /\ numThreadsLock \in Nodes \union {NoThread}
  /\ th \in [0 .. t - 1 -> Nodes \union {NoThread}]
  /\ pc \in [Nodes \union {1} -> Points]
  /\ \A k \in DOMAIN pc : /\ args[k].height \in 0 .. (IF h < 0 THEN 0 ELSE h)
                          /\ args[k].begin \in 0 .. n + t /\ args[k].end \in -1 .. n + t
                          /\ tempThreadCount[k] \in 0 .. t
  /\ status \in {"running", "finished", "aborted"}

Started == {k \in DOMAIN pc : pc[k] # "none"}

(* The numbers handed out under numThreadsLock are all different and all   *)
(* slots of th, so each Pthread_join waits for the thread its caller       *)
(* created: nobody else's handle is in the slot.                           *)
HandlesKept ==
  /\ \A j, k \in Started : args[j].threadID = args[k].threadID => j = k
  /\ \A k \in Started \ {1} : /\ args[k].threadID \in 1 .. t - 1
                              /\ th[args[k].threadID] = k

(* The depth the thread budget allows always has enough elements.          *)
LargeEnough == h < 1 \/ n >= 2 ^ (h - 1)

Busy == {k \in Started : pc[k] \in {"merge", "write", "sort"}}

(* No two threads are ever at work on the same element of arr, which no    *)
(* lock protects: it is the joins that keep a parent away.                 *)
NoRace ==
  LargeEnough =>
    \A j, k \in Busy : (args[j].begin .. args[j].end) \intersect
                       (args[k].begin .. args[k].end) # {} => j = k

(* When main has joined the root, arr is the input, sorted.                *)
Sorted ==
  status = "finished" =>
    /\ \A i \in 1 .. n - 1 : arr[i - 1] <= arr[i]
    /\ \A b \in Bytes : Cardinality({i \in 1 .. n : arr[i - 1] = b})
                         = Cardinality({i \in 1 .. n : input[i] = b})

(* The program ends with its result exactly when no thread that splits has *)
(* an empty segment; with fewer elements than half the deepest threads it  *)
(* dies in merge instead.                                                  *)
AbortsIffTooSmall == /\ status = "finished" => LargeEnough
                     /\ status = "aborted" => ~LargeEnough

Ends == <>(status # "running")
=============================================================================
