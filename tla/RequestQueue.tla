---------------------------- MODULE RequestQueue ----------------------------
(***************************************************************************)
(* What the thread-pool server promises of its connection queue: requests  *)
(* are taken in the order they arrived, each at most once, and a request   *)
(* is refused only when the queue is full.                                 *)
(***************************************************************************)
EXTENDS Naturals, Sequences

CONSTANTS Requests,   \* each arrives once
          Failure,    \* a failed accept, which queues like a request and may recur
          Limit       \* the capacity

VARIABLES pending,    \* the requests waiting, oldest first
          taken,      \* those handed to a worker
          refused     \* those that found the queue full

queueVars == <<pending, taken, refused>>

Known == {pending[i] : i \in 1 .. Len(pending)} \union taken \union refused

QueueInit == pending = <<>> /\ taken = {} /\ refused = {}

Admit(r) == /\ r = Failure \/ r \notin Known
            /\ Len(pending) < Limit
            /\ pending' = Append(pending, r)
            /\ UNCHANGED <<taken, refused>>

Refuse(r) == /\ r = Failure \/ r \notin Known
             /\ Len(pending) = Limit
             /\ refused' = refused \union ({r} \ {Failure})
             /\ UNCHANGED <<pending, taken>>

Take == /\ pending # <<>>
        /\ taken' = taken \union {Head(pending)}
        /\ pending' = Tail(pending)
        /\ UNCHANGED refused

QueueNext == Take \/ \E r \in Requests \union {Failure} : Admit(r) \/ Refuse(r)

QueueSpec == QueueInit /\ [][QueueNext]_queueVars
=============================================================================
