----------------------------- MODULE RingQueue -----------------------------
(***************************************************************************)
(* PeerSync/MultiThreaded-Server-master/queue.hpp: a bounded queue of file *)
(* descriptors in a circular array.  A queue is a record; the functions    *)
(* that change it through a pointer return the new record.                 *)
(***************************************************************************)
EXTENDS Integers, Sequences

CONSTANTS Elements,   \* the ints that are pushed
          NoElement,  \* what malloc left in a cell that was never written: no element
          Capacity    \* maxElements, argv[3] of the server: a positive number

Cells == 0 .. Capacity - 1

Queues == [size : 0 .. Capacity, front : Cells, rear : Cells \union {-1},
           elements : [Cells -> Elements \union {NoElement}]]

createqueue1 == [size |-> 0, front |-> 0, rear |-> -1,
                 elements |-> [i \in Cells |-> NoElement]]

empty(q) == q.size = 0

Wrap(i) == IF i = Capacity THEN 0 ELSE i

(* A mistake this code could have made, kept to see the properties notice  *)
(* it: front is not advanced.                                              *)
popKeepsFront(q) == IF empty(q) THEN q ELSE [q EXCEPT !.size = @ - 1]

pop(q) == IF empty(q) THEN q
          ELSE [q EXCEPT !.size = @ - 1, !.front = Wrap(@ + 1)]

(* A mistake this code could have made, kept to see the properties notice  *)
(* it: the newest element is returned.                                     *)
peekNewest(q) == q.elements[q.rear]

peek(q) == q.elements[q.front]

(* A mistake this code could have made, kept to see the properties notice  *)
(* it: rear does not wrap.                                                 *)
pushNoWrap(q, x) ==
  IF q.size = Capacity THEN q
  ELSE [q EXCEPT !.size = @ + 1, !.rear = @ + 1,
                 !.elements = [i \in DOMAIN @ |-> IF i = q.rear + 1 THEN x ELSE @[i]]]

push(q, x) ==
  LET at == Wrap(q.rear + 1)
  IN  IF q.size = Capacity THEN q
      ELSE [q EXCEPT !.size = @ + 1, !.rear = at, !.elements = [@ EXCEPT ![at] = x]]

-----------------------------------------------------------------------------
(* What the queue holds, oldest first: the meaning of the representation.  *)
Slot(q, i) == IF q.front + i - 1 < Capacity THEN q.front + i - 1
                                            ELSE q.front + i - 1 - Capacity
Contents(q) == [i \in 1 .. q.size |-> q.elements[Slot(q, i)]]

(* The two indices agree with the size, and no unwritten cell is in use.   *)
WellFormed(q) == /\ q \in Queues
                 /\ Wrap(q.rear + 1) = Slot(q, q.size + 1)
                 /\ \A i \in 1 .. q.size : q.elements[Slot(q, i)] \in Elements
=============================================================================
