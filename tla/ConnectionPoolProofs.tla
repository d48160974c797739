------------------------ MODULE ConnectionPoolProofs ------------------------
(***************************************************************************)
(* The thread-pool server's queue is correct for every number of clients   *)
(* and workers and every capacity.                                         *)
(***************************************************************************)
EXTENDS ConnectionPool, FiniteSetTheorems, TLAPS

USE PoolAssumption

-----------------------------------------------------------------------------
(* The circular array behaves as a sequence.  The slots of the elements    *)
(* are distinct cells, and the next one to write is none of them unless    *)
(* the queue is full.                                                      *)
LEMMA SlotFacts ==
  ASSUME NEW r \in Ring!Queues
  PROVE  /\ \A i \in 1 .. Capacity : Ring!Slot(r, i) \in Ring!Cells
         /\ \A i, j \in 1 .. Capacity : Ring!Slot(r, i) = Ring!Slot(r, j) => i = j
BY DEF Ring!Queues, Ring!Slot, Ring!Cells

LEMMA CreateFacts == /\ Ring!WellFormed(Ring!createqueue1)
                     /\ Ring!Contents(Ring!createqueue1) = <<>>
BY DEF Ring!WellFormed, Ring!createqueue1, Ring!Queues, Ring!Cells, Ring!Slot,
       Ring!Wrap, Ring!Contents

LEMMA ContentsFacts ==
  ASSUME NEW r, Ring!WellFormed(r)
  PROVE  /\ Ring!Contents(r) \in Seq(Fds)
         /\ Len(Ring!Contents(r)) = r.size
         /\ \A i \in 1 .. r.size : Ring!Contents(r)[i] = r.elements[Ring!Slot(r, i)]
BY DEF Ring!WellFormed, Ring!Contents, Ring!Queues

LEMMA PushFacts ==
  ASSUME NEW r, Ring!WellFormed(r), r.size < Capacity, NEW x \in Fds
  PROVE  /\ Ring!WellFormed(Ring!push(r, x))
         /\ Ring!push(r, x).size = r.size + 1
         /\ Ring!Contents(Ring!push(r, x)) = Append(Ring!Contents(r), x)
<1> DEFINE p == Ring!push(r, x)
           at == Ring!Slot(r, r.size + 1)
<1>1. r \in Ring!Queues /\ r.size \in 0 .. Capacity - 1
  BY DEF Ring!WellFormed, Ring!Queues
<1>2. at \in Ring!Cells /\ \A i \in 1 .. r.size : Ring!Slot(r, i) \in Ring!Cells /\ Ring!Slot(r, i) # at
  BY <1>1, SlotFacts
<1>3. p = [size |-> r.size + 1, front |-> r.front, rear |-> at,
           elements |-> [r.elements EXCEPT ![at] = x]]
  <2>1. Ring!Wrap(r.rear + 1) = at /\ r.size # Capacity
    BY <1>1 DEF Ring!WellFormed
  <2>2. p = [r EXCEPT !.size = r.size + 1, !.rear = at,
                      !.elements = [r.elements EXCEPT ![at] = x]]
    BY <2>1 DEF Ring!push
  <2> QED BY <1>1, <2>2 DEF Ring!Queues
<1>4. /\ p.size = r.size + 1 /\ p.front = r.front /\ p.rear = at
      /\ p.elements = [r.elements EXCEPT ![at] = x]
      /\ p \in Ring!Queues
  <2> HIDE DEF p, at
  <2>1. [r.elements EXCEPT ![at] = x] \in [Ring!Cells -> Fds \union {NoFd}]
    BY <1>1, <1>2 DEF Ring!Queues
  <2> QED BY <1>1, <1>2, <1>3, <2>1 DEF Ring!Queues
<1>5. \A i \in 1 .. p.size : Ring!Slot(p, i) = Ring!Slot(r, i)
  BY <1>4 DEF Ring!Slot
<1>6. \A i \in 1 .. p.size : p.elements[Ring!Slot(p, i)] =
                                IF i = p.size THEN x ELSE r.elements[Ring!Slot(r, i)]
  BY <1>1, <1>2, <1>4, <1>5 DEF Ring!Queues
<1>7. Ring!WellFormed(p)
  <2>1. Ring!Wrap(p.rear + 1) = Ring!Slot(p, p.size + 1)
    <3>1. at = IF r.front + r.size < Capacity THEN r.front + r.size
                                             ELSE r.front + r.size - Capacity
      BY <1>1 DEF Ring!Slot, Ring!Queues
    <3>2. p.rear = at /\ p.size = r.size + 1 /\ p.front = r.front
      BY <1>4
    <3>3. r.front \in 0 .. Capacity - 1 /\ r.size \in 0 .. Capacity - 1
      BY <1>1 DEF Ring!Queues, Ring!Cells
    <3>4. Ring!Slot(p, p.size + 1) = IF r.front + r.size + 1 < Capacity
                                       THEN r.front + r.size + 1
                                       ELSE r.front + r.size + 1 - Capacity
      BY <3>2, <3>3 DEF Ring!Slot
    <3> HIDE DEF p, at
    <3> QED BY <3>1, <3>2, <3>3, <3>4 DEF Ring!Wrap
  <2>2. \A i \in 1 .. p.size : p.elements[Ring!Slot(p, i)] \in Fds
    BY <1>1, <1>4, <1>6 DEF Ring!WellFormed
  <2> QED BY <1>4, <2>1, <2>2 DEF Ring!WellFormed
<1>8. Ring!Contents(p) = Append(Ring!Contents(r), x)
  BY <1>1, <1>4, <1>6, <1>7, ContentsFacts DEF Ring!Contents
<1> QED BY <1>4, <1>7, <1>8

LEMMA PopFacts ==
  ASSUME NEW r, Ring!WellFormed(r), r.size > 0
  PROVE  /\ Ring!WellFormed(Ring!pop(r))
         /\ Ring!pop(r).size = r.size - 1
         /\ Ring!Contents(Ring!pop(r)) = Tail(Ring!Contents(r))
         /\ Ring!peek(r) = Head(Ring!Contents(r))
         /\ Ring!peek(r) \in Fds
<1> DEFINE p == Ring!pop(r)
<1>1. r \in Ring!Queues /\ r.size \in 1 .. Capacity
  BY DEF Ring!WellFormed, Ring!Queues
<1>2. /\ p.size = r.size - 1 /\ p.front = Ring!Wrap(r.front + 1) /\ p.rear = r.rear
      /\ p.elements = r.elements
      /\ p \in Ring!Queues
  <2>1. p = [size |-> r.size - 1, front |-> Ring!Wrap(r.front + 1), rear |-> r.rear,
             elements |-> r.elements]
    <3>1. p = [r EXCEPT !.size = r.size - 1, !.front = Ring!Wrap(r.front + 1)]
      BY <1>1 DEF Ring!pop, Ring!empty
    <3> QED BY <1>1, <3>1 DEF Ring!Queues
  <2>2. Ring!Wrap(r.front + 1) \in Ring!Cells
    BY <1>1 DEF Ring!Queues, Ring!Wrap, Ring!Cells
  <2> HIDE DEF p
  <2> QED BY <1>1, <2>1, <2>2 DEF Ring!Queues
<1>3. \A i \in 1 .. r.size : Ring!Slot(p, i) = Ring!Slot(r, i + 1)
  BY <1>1, <1>2 DEF Ring!Slot, Ring!Wrap, Ring!Queues, Ring!Cells
<1>4. Ring!WellFormed(p)
  BY <1>1, <1>2, <1>3 DEF Ring!WellFormed
<1>5. Ring!Contents(p) = Tail(Ring!Contents(r))
  BY <1>1, <1>2, <1>3 DEF Ring!Contents
<1>6. Ring!Slot(r, 1) = r.front
  BY <1>1 DEF Ring!Slot, Ring!Queues, Ring!Cells
<1>7. Ring!peek(r) = Head(Ring!Contents(r)) /\ Ring!peek(r) \in Fds
  BY <1>1, <1>6 DEF Ring!peek, Ring!Contents, Ring!WellFormed
<1> QED BY <1>2, <1>4, <1>5, <1>7

-----------------------------------------------------------------------------
(* The mutex holder is the thread between lock and unlock; the workers in  *)
(* the condition's wait set are those blocked in pthread_cond_wait.        *)
MutHeld == /\ mainPc = "push" <=> mut = MainThread
           /\ \A w \in Workers : pc[w] \in {"check", "pop"} <=> mut = w

WaitersWait == \A w \in Workers : w \in waiting <=> pc[w] = "waiting"

(* What each thread has in hand.  The peeked value is still the head of    *)
(* the queue when it is popped, for the mutex is held in between.          *)
HandsFull == /\ accepted \in IF mainPc \in {"add", "push"} THEN Fds ELSE {NoFd}
             /\ \A w \in Workers :
                  /\ pc[w] = "pop" => q.size > 0 /\ connfd[w] = Ring!peek(q)
                  /\ pc[w] = "recv" => connfd[w] \in Fds
                  /\ pc[w] \in {"torrent", "send"} => connfd[w] \in Clients

PoolInv == /\ TypeOK
           /\ Ring!WellFormed(q)
           /\ MutHeld
           /\ WaitersWait
           /\ HandsFull

LEMMA PoolStep == PoolInv /\ [Next]_vars => PoolInv'
<1> SUFFICES ASSUME PoolInv, [Next]_vars
             PROVE  PoolInv'
  OBVIOUS
<1> USE DEF PoolInv, TypeOK, MutHeld, WaitersWait, HandsFull, poolVars, connVars, Fds
<1>1. ASSUME NEW c \in Clients, Connect(c) PROVE PoolInv'
  BY <1>1 DEF Connect
<1>2. ASSUME NEW c \in Clients, SendMagnet(c) PROVE PoolInv'
  BY <1>2 DEF SendMagnet
<1>3. ASSUME NEW c \in Clients, HangUp(c) PROVE PoolInv'
  BY <1>3 DEF HangUp
<1>4. ASSUME NEW c \in Clients, Accept(c) PROVE PoolInv'
  BY <1>4 DEF Accept, MainGoto
<1>5. ASSUME AcceptFails PROVE PoolInv'
  BY <1>5 DEF AcceptFails, MainGoto
<1>6. ASSUME AddLock PROVE PoolInv'
  BY <1>6 DEF AddLock, MainGoto, Lock
<1>7. ASSUME AddPush PROVE PoolInv'
  <2>1. q' = q \/ (q.size < Capacity /\ q' = Ring!push(q, accepted))
    BY <1>7 DEF AddPush, Ring!push, Ring!WellFormed, Ring!Queues
  <2>2. accepted \in Fds
    BY <1>7 DEF AddPush, MainGoto
  <2>3. Ring!WellFormed(q)'
    BY <2>1, <2>2, PushFacts DEF Ring!WellFormed
  <2>4. q' \in Ring!Queues
    BY <2>3 DEF Ring!WellFormed
  <2>5. \A w \in Workers : pc'[w] # "pop"
    BY <1>7 DEF AddPush, MainGoto
  <2> QED BY <1>7, <2>3, <2>4, <2>5 DEF AddPush, MainGoto, Unlock
<1>8. ASSUME AddSignal PROVE PoolInv'
  BY <1>8 DEF AddSignal, MainGoto
<1>9. ASSUME NEW w \in Workers, GetLock(w) PROVE PoolInv'
  BY <1>9 DEF GetLock, Goto, Lock
<1>10. ASSUME NEW w \in Workers, GetWait(w) PROVE PoolInv'
  BY <1>10 DEF GetWait, Goto, Unlock
<1>11. ASSUME NEW w \in Workers, GetPeek(w) PROVE PoolInv'
  <2>1. q.size > 0
    BY <1>11 DEF GetPeek, Ring!empty, Ring!WellFormed, Ring!Queues
  <2>2. Ring!peek(q) \in Fds
    BY <2>1, PopFacts
  <2>3. Ring!peek(q)' = Ring!peek(q) /\ Ring!WellFormed(q)'
    BY <1>11 DEF GetPeek, Ring!peek
  <2> QED BY <1>11, <2>1, <2>2, <2>3 DEF GetPeek, Goto
<1>12. ASSUME NEW w \in Workers, GetPop(w) PROVE PoolInv'
  <2>1. q.size > 0 /\ connfd[w] = Ring!peek(q) /\ q' = Ring!pop(q)
    BY <1>12 DEF GetPop, Goto
  <2>2. Ring!WellFormed(q)' /\ connfd[w] \in Fds
    BY <2>1, PopFacts
  <2>3. q' \in Ring!Queues
    BY <2>2 DEF Ring!WellFormed
  <2>4. \A v \in Workers : pc'[v] # "pop"
    BY <1>12 DEF GetPop, Goto
  <2> QED BY <1>12, <2>2, <2>3, <2>4 DEF GetPop, Goto, Unlock
<1>13. ASSUME NEW w \in Workers, SpuriousWake(w) PROVE PoolInv'
  BY <1>13 DEF SpuriousWake, Goto
<1>14. ASSUME NEW w \in Workers, Recv(w) PROVE PoolInv'
  BY <1>14 DEF Recv, Goto
<1>15. ASSUME NEW w \in Workers, RecvFails(w) PROVE PoolInv'
  BY <1>15 DEF RecvFails
<1>16. ASSUME NEW w \in Workers, TorrentReturns(w) PROVE PoolInv'
  BY <1>16 DEF TorrentReturns, Goto
<1>17. ASSUME NEW w \in Workers, SendAnswer(w) PROVE PoolInv'
  BY <1>17 DEF SendAnswer, Goto
<1>18. CASE UNCHANGED vars
  BY <1>18 DEF vars
<1> QED
  BY <1>1, <1>2, <1>3, <1>4, <1>5, <1>6, <1>7, <1>8, <1>9, <1>10, <1>11, <1>12, <1>13, <1>14, <1>15, <1>16, <1>17, <1>18
     DEF Next, Main, Scheduled

-----------------------------------------------------------------------------
(* Every descriptor the server has in hand is an opened one, and the main  *)
(* thread's is nobody else's.                                              *)
Owned == /\ OneOwner
         /\ accepted \in Clients => accepted \notin Handled \union closed
         /\ Clients \intersect (Queued \union Handled \union {accepted}) \subseteq opened
         /\ closed \subseteq opened

(* The steps that hand a descriptor on; the others leave every place as it *)
(* was.                                                                    *)
Handover(w) == GetPop(w) \/ SendAnswer(w)
AcceptOrPush == AcceptFails \/ AddPush \/ \E c \in Clients : Accept(c)

PlacesUnchanged == /\ UNCHANGED <<q, opened, closed, accepted>>
                   /\ Handling' = Handling
                   /\ \A w \in Handling : connfd'[w] = connfd[w]

LEMMA OtherSteps ==
  ASSUME PoolInv, [Next]_vars, ~AcceptOrPush, \A w \in Workers : ~Handover(w)
  PROVE  PlacesUnchanged
<1> USE DEF PoolInv, TypeOK, WaitersWait, PlacesUnchanged, Handling, poolVars, connVars
<1>1. CASE \E c \in Clients : Connect(c) \/ SendMagnet(c) \/ HangUp(c)
  BY <1>1 DEF Connect, SendMagnet, HangUp
<1>2. CASE AddLock \/ AddSignal
  BY <1>2 DEF AddLock, AddSignal
<1>3. ASSUME NEW w \in Workers, \/ GetLock(w) \/ GetWait(w) \/ GetPeek(w) \/ SpuriousWake(w)
                                \/ Recv(w) \/ RecvFails(w) \/ TorrentReturns(w)
      PROVE  PlacesUnchanged
  BY <1>3 DEF GetLock, GetWait, GetPeek, SpuriousWake, Recv, RecvFails, TorrentReturns, Goto
<1>4. CASE UNCHANGED vars
  BY <1>4 DEF vars
<1> QED
  BY <1>1, <1>2, <1>3, <1>4 DEF Next, Main, Scheduled, AcceptOrPush, Handover

LEMMA OwnedStep == PoolInv /\ Owned /\ [Next]_vars => Owned'
<1> SUFFICES ASSUME PoolInv, Owned, [Next]_vars
             PROVE  Owned'
  OBVIOUS
<1> USE DEF Fds
<1> DEFINE S == Ring!Contents(q)
<1>0. /\ S \in Seq(Fds) /\ Len(S) = q.size
      /\ Queued = {S[i] : i \in 1 .. Len(S)}
      /\ q.size \in Nat
  BY ContentsFacts DEF PoolInv, Queued, TypeOK, Ring!Queues
<1>00. Handled \subseteq Fds /\ closed \subseteq Clients
  BY DEF PoolInv, HandsFull, TypeOK, Handled, Handling
<1>1. CASE PlacesUnchanged
  <2>1. S' = S /\ q' = q
    BY <1>1 DEF PlacesUnchanged
  <2>2. Queued' = Queued /\ Handled' = Handled
    BY <1>1, <2>1 DEF PlacesUnchanged, Queued, Handled
  <2> QED BY <1>1, <2>1, <2>2 DEF PlacesUnchanged, Owned, OneOwner
<1>2. CASE AddPush
  <2>1. /\ UNCHANGED <<Handling, Handled, opened, closed, connfd>>
        /\ accepted' = NoFd
        /\ accepted \in Fds
    BY <1>2 DEF AddPush, MainGoto, Handling, Handled, connVars, PoolInv, HandsFull
  <2>2. CASE q' = q
    <3>1. S' = S /\ Queued' = Queued
      BY <2>2 DEF Queued
    <3> QED BY <2>1, <2>2, <3>1 DEF Owned, OneOwner
  <2>3. CASE q' # q
    <3>1. q' = Ring!push(q, accepted) /\ q.size < Capacity
      BY <1>2, <2>3 DEF AddPush, Ring!push, PoolInv, TypeOK, Ring!Queues
    <3>2. S' = Append(S, accepted) /\ q'.size = q.size + 1
      BY <2>1, <3>1, PushFacts DEF PoolInv
    <3>3. /\ \A i \in 1 .. q'.size : S'[i] = IF i = q'.size THEN accepted ELSE S[i]
          /\ Queued' = Queued \union {accepted}
      <4> HIDE DEF S
      <4>1. \A i \in 1 .. q'.size : S'[i] = IF i = q'.size THEN accepted ELSE S[i]
        BY <1>0, <2>1, <3>2
      <4>2. Queued' = {S'[i] : i \in 1 .. q'.size}
        BY DEF Queued, S
      <4> QED BY <1>0, <3>2, <4>1, <4>2
    <3>4. accepted \in Clients => accepted \notin Queued \union Handled \union closed
      BY DEF Owned, OneOwner
    <3>5. \A i \in 1 .. q.size : S[i] \in Queued
      BY DEF Queued
    <3>6. \A i, j \in 1 .. q'.size : S'[i] = S'[j] /\ S'[i] \in Clients => i = j
      <4>1. \A i, j \in 1 .. q.size : S[i] = S[j] /\ S[i] \in Clients => i = j
        BY DEF Owned, OneOwner
      <4> HIDE DEF S
      <4> QED BY <1>0, <3>2, <3>3, <3>4, <3>5, <4>1
    <3>7. Clients \intersect Queued' \intersect (Handled' \union closed' \union {accepted'}) = {}
      BY <2>1, <3>3, <3>4 DEF Owned, OneOwner
    <3> QED BY <2>1, <3>3, <3>6, <3>7 DEF Owned, OneOwner
  <2> QED BY <2>2, <2>3
<1>3. ASSUME NEW c \in Clients, Accept(c) PROVE Owned'
  <2>1. /\ UNCHANGED <<Handling, Handled, closed, connfd, q>>
        /\ accepted' = c /\ opened' = opened \union {c}
        /\ c \notin opened
    BY <1>3 DEF Accept, MainGoto, Handling, Handled, poolVars
  <2>2. S' = S /\ Queued' = Queued
    BY <2>1 DEF Queued
  <2> QED BY <2>1, <2>2 DEF Owned, OneOwner
<1>4. CASE AcceptFails
  <2>1. /\ UNCHANGED <<Handling, Handled, closed, opened, connfd, q>>
        /\ accepted' = BadFd
    BY <1>4 DEF AcceptFails, MainGoto, Handling, Handled, poolVars, connVars
  <2>2. S' = S /\ Queued' = Queued
    BY <2>1 DEF Queued
  <2> QED BY <2>1, <2>2 DEF Owned, OneOwner
<1>5. ASSUME NEW w \in Workers, GetPop(w) PROVE Owned'
  <2>1. /\ UNCHANGED <<closed, opened, connfd, accepted>>
        /\ Handling' = Handling \union {w} /\ w \notin Handling
        /\ q' = Ring!pop(q) /\ q.size > 0 /\ connfd[w] = Ring!peek(q)
    BY <1>5 DEF GetPop, Goto, Handling, connVars, PoolInv, HandsFull, TypeOK
  <2>2. Handled' = Handled \union {connfd[w]}
    BY <2>1 DEF Handled
  <2>3. S' = Tail(S) /\ q'.size = q.size - 1 /\ connfd[w] = Head(S)
    BY <2>1, PopFacts DEF PoolInv
  <2>4. /\ connfd[w] = S[1]
        /\ \A i \in 1 .. q'.size : S'[i] = S[i + 1]
    BY <1>0, <2>1, <2>3
  <2>5. \A i \in 1 .. q.size : S[i] \in Queued
    BY DEF Queued
  <2>6. \A i, j \in 1 .. q.size : S[i] = S[j] /\ S[i] \in Clients => i = j
    BY DEF Owned, OneOwner
  <2>7. Queued' \subseteq Queued
    <3>1. Queued' = {S'[i] : i \in 1 .. q'.size}
      BY DEF Queued
    <3> HIDE DEF S
    <3> QED BY <1>0, <2>1, <2>3, <2>4, <2>5, <3>1
  <2>8. connfd[w] \in Clients =>
          connfd[w] \notin Queued' \union Handled \union closed \union {accepted}
    <3>1. Queued' = {S'[i] : i \in 1 .. q'.size}
      BY DEF Queued
    <3>2. connfd[w] \in Queued
      BY <1>0, <2>1, <2>4, <2>5
    <3>3. connfd[w] \in Clients => connfd[w] \notin Queued'
      <4> HIDE DEF S
      <4> QED BY <1>0, <2>1, <2>3, <2>4, <2>6, <3>1
    <3> QED BY <3>2, <3>3 DEF Owned, OneOwner
  <2>9. \A i, j \in 1 .. q'.size : S'[i] = S'[j] /\ S'[i] \in Clients => i = j
    <3> HIDE DEF S
    <3> QED BY <1>0, <2>1, <2>3, <2>4, <2>6
  <2>10. \A v, u \in Handling' : connfd'[v] = connfd'[u] /\ connfd'[v] \in Clients => v = u
    BY <2>1, <2>8 DEF Owned, OneOwner, Handled
  <2> HIDE DEF S
  <2>11. Clients \intersect Queued' \intersect (Handled' \union closed' \union {accepted'}) = {}
    BY <2>1, <2>2, <2>7, <2>8 DEF Owned, OneOwner
  <2>12. Handled' \intersect closed' = {}
    BY <1>00, <2>1, <2>2, <2>8 DEF Owned, OneOwner
  <2>13. OneOwner'
    BY <2>9, <2>10, <2>11, <2>12 DEF OneOwner, S
  <2>14. connfd[w] \in Queued
    BY <1>0, <2>1, <2>4, <2>5
  <2> QED BY <2>1, <2>2, <2>7, <2>8, <2>13, <2>14 DEF Owned
<1>6. ASSUME NEW w \in Workers, SendAnswer(w) PROVE Owned'
  <2>1. /\ UNCHANGED <<q, opened, accepted>>
        /\ w \in Handling /\ Handling' = Handling \ {w}
        /\ \A v \in Handling' : connfd'[v] = connfd[v]
        /\ closed' = closed \union {connfd[w]}
        /\ connfd[w] \in Clients
    BY <1>6 DEF SendAnswer, Goto, Handling, PoolInv, HandsFull, TypeOK
  <2>2. Handled' = Handled \ {connfd[w]} /\ connfd[w] \in Handled
    BY <2>1 DEF Handled, Owned, OneOwner
  <2>3. S' = S /\ Queued' = Queued
    BY <2>1 DEF Queued
  <2> QED BY <2>1, <2>2, <2>3 DEF Owned, OneOwner
<1> QED
  BY <1>1, <1>2, <1>3, <1>4, <1>5, <1>6, OtherSteps DEF AcceptOrPush, Handover

-----------------------------------------------------------------------------
(* Counting the workers that will look at the queue.                       *)
LEMMA LookingFacts ==
  /\ IsFiniteSet(Looking) /\ Cardinality(Looking) \in Nat
  /\ \A w : w \notin Looking => Cardinality(Looking \union {w}) = Cardinality(Looking) + 1
  /\ \A w : w \in Looking => Cardinality(Looking \ {w}) = Cardinality(Looking) - 1
<1>1. IsFiniteSet(Looking)
  BY FS_Subset DEF Looking
<1> QED BY <1>1, FS_CardinalityType, FS_AddElement, FS_RemoveElement

(* A push is paid for by the signal that follows it, the signal by the     *)
(* waiter it wakes, and a worker that stops looking either takes an        *)
(* element with it or has found the queue empty.                           *)
LEMMA SignalStep == PoolInv /\ NoLostSignal /\ [Next]_vars => NoLostSignal'
<1> SUFFICES ASSUME PoolInv, NoLostSignal, [Next]_vars, waiting' # {}
             PROVE  q'.size <= Cardinality(Looking') + (IF mainPc' = "signal" THEN 1 ELSE 0)
  BY DEF NoLostSignal
<1> DEFINE n == Cardinality(Looking)
           n1 == Cardinality(Looking')
           due == IF mainPc = "signal" THEN 1 ELSE 0
           due1 == IF mainPc' = "signal" THEN 1 ELSE 0
<1>0. /\ q.size \in Nat /\ n \in Nat /\ due \in {0, 1} /\ due1 \in {0, 1}
      /\ waiting # {} => q.size <= n + due
  BY LookingFacts DEF PoolInv, TypeOK, Ring!Queues, NoLostSignal
<1> USE DEF PoolInv, TypeOK, WaitersWait, Looking, Goto, MainGoto, poolVars, connVars
<1> HIDE DEF n, n1, due, due1
<1> SUFFICES q'.size <= n1 + due1
  BY DEF n1, due1
<1>1. ASSUME UNCHANGED <<q, waiting, Looking, due>> PROVE q'.size <= n1 + due1
  <2>1. n1 = n
    BY <1>1 DEF n, n1
  <2>2. due1 = due
    BY <1>1 DEF due, due1
  <2>3. q' = q /\ waiting # {}
    BY <1>1
  <2> QED BY <1>0, <2>1, <2>2, <2>3
<1>2. ASSUME NEW w \in Workers, GetWait(w) PROVE q'.size <= n1 + due1
  <2>1. q'.size = 0
    BY <1>2 DEF GetWait, Ring!empty
  <2>2. Looking' = Looking \ {w} /\ w \in Looking
    BY <1>2 DEF GetWait
  <2>3. n1 = n - 1
    BY <2>2, LookingFacts DEF n, n1
  <2>4. n1 >= 0
    BY <2>2, <2>3, LookingFacts, FS_Subset, FS_CardinalityType DEF n1
  <2> QED BY <1>0, <2>1, <2>3, <2>4
<1>3. ASSUME NEW w \in Workers, GetPop(w) PROVE q'.size <= n1 + due1
  <2>1. q'.size = q.size - 1 /\ waiting' = waiting /\ due1 = due
    BY <1>3, PopFacts DEF GetPop, HandsFull, due, due1
  <2>2. Looking' = Looking \ {w} /\ w \in Looking
    BY <1>3 DEF GetPop
  <2>3. n1 = n - 1
    BY <2>2, LookingFacts DEF n, n1
  <2> QED BY <1>0, <2>1, <2>3
<1>4. ASSUME NEW w \in Workers, SpuriousWake(w) \/ SendAnswer(w) PROVE q'.size <= n1 + due1
  <2>1. q' = q /\ waiting # {} /\ due1 = due
    BY <1>4 DEF SpuriousWake, SendAnswer, due, due1
  <2>2. Looking' = Looking \union {w} /\ w \notin Looking
    BY <1>4 DEF SpuriousWake, SendAnswer
  <2>3. n1 = n + 1
    BY <2>2, LookingFacts DEF n, n1
  <2> QED BY <1>0, <2>1, <2>3
<1>5. CASE AddPush
  <2>1. Looking' = Looking /\ waiting' = waiting /\ due = 0 /\ due1 = 1
    BY <1>5 DEF AddPush, due, due1
  <2>2. q' = q \/ q'.size = q.size + 1
    BY <1>5, PushFacts DEF AddPush, HandsFull, Ring!push, Ring!Queues
  <2>3. n1 = n
    BY <2>1 DEF n, n1
  <2> QED BY <1>0, <2>1, <2>2, <2>3
<1>6. CASE AddSignal
  <2>1. PICK w \in waiting : waiting' = waiting \ {w} /\ pc' = [pc EXCEPT ![w] = "woken"]
    BY <1>6 DEF AddSignal
  <2>2. Looking' = Looking \union {w} /\ w \notin Looking
    BY <2>1
  <2>3. q' = q /\ due = 1 /\ due1 = 0
    BY <1>6 DEF AddSignal, due, due1
  <2>4. n1 = n + 1
    BY <2>2, LookingFacts DEF n, n1
  <2> QED BY <1>0, <2>1, <2>3, <2>4
<1>7. CASE \E c \in Clients : Connect(c) \/ SendMagnet(c) \/ HangUp(c) \/ Accept(c)
  <2>1. UNCHANGED <<q, waiting, Looking, due>>
    BY <1>7 DEF Connect, SendMagnet, HangUp, Accept, due
  <2> QED BY <1>1, <2>1
<1>8. CASE AcceptFails \/ AddLock \/ UNCHANGED vars
  <2>1. UNCHANGED <<q, waiting, Looking, due>>
    BY <1>8 DEF AcceptFails, AddLock, vars, due
  <2> QED BY <1>1, <2>1
<1>9. ASSUME NEW w \in Workers, \/ GetLock(w) \/ GetPeek(w) \/ Recv(w) \/ RecvFails(w)
                                \/ TorrentReturns(w)
      PROVE  q'.size <= n1 + due1
  <2>1. UNCHANGED <<q, waiting, Looking, due>>
    BY <1>9 DEF GetLock, GetPeek, Recv, RecvFails, TorrentReturns, due
  <2> QED BY <1>1, <2>1
<1> QED
  BY <1>2, <1>3, <1>4, <1>5, <1>6, <1>7, <1>8, <1>9 DEF Next, Main, Scheduled

-----------------------------------------------------------------------------
IInv == PoolInv /\ Owned /\ NoLostSignal

LEMMA Inductive == Spec => []IInv
<1>1. Init => IInv
  <2> SUFFICES ASSUME Init PROVE IInv
    OBVIOUS
  <2> USE DEF Init, Fds
  <2>1. Ring!WellFormed(q) /\ q \in Ring!Queues /\ q.size = 0 /\ Ring!Contents(q) = <<>>
    BY CreateFacts DEF Ring!WellFormed, Ring!createqueue1
  <2>2. TypeOK
    BY <2>1 DEF TypeOK
  <2>3. MutHeld /\ WaitersWait /\ HandsFull
    BY DEF MutHeld, WaitersWait, HandsFull
  <2>4. Handling = {} /\ Handled = {} /\ Queued = {}
    BY <2>1 DEF Handling, Handled, Queued
  <2>5. Owned
    BY <2>1, <2>4 DEF Owned, OneOwner
  <2>6. NoLostSignal
    BY DEF NoLostSignal
  <2> QED BY <2>1, <2>2, <2>3, <2>5, <2>6 DEF IInv, PoolInv
<1>2. IInv /\ [Next]_vars => IInv'
  BY PoolStep, OwnedStep, SignalStep DEF IInv
<1> QED BY <1>1, <1>2, PTL DEF Spec

(* The indices never leave the array and every hand holds what its owner   *)
(* expects.                                                                *)
THEOREM TypeCorrect == Spec => []TypeOK
BY Inductive, PTL DEF IInv, PoolInv

(* No connection is served by two workers, or queued while it is served,   *)
(* or served after it was closed.                                          *)
THEOREM ConnectionsHaveOneOwner == Spec => []OneOwner
BY Inductive, PTL DEF IInv, Owned

(* One signal per push, sent after the mutex is released, is enough.       *)
THEOREM SignalsKept == Spec => []NoLostSignal
BY Inductive, PTL DEF IInv

-----------------------------------------------------------------------------
(* The abstract queue takes a step when the array does; everything else is *)
(* invisible to it.                                                        *)
LEMMA QueueStep ==
  PoolInv /\ Owned /\ [Next]_vars
    => [Requests!QueueNext]_<<Ring!Contents(q), Taken, Refused>>
<1> SUFFICES ASSUME PoolInv, Owned, [Next]_vars
             PROVE  [Requests!QueueNext]_<<Ring!Contents(q), Taken, Refused>>
  OBVIOUS
<1> USE DEF Fds
<1> DEFINE S == Ring!Contents(q)
<1>0. /\ S \in Seq(Fds) /\ Len(S) = q.size /\ q.size \in 0 .. Capacity
      /\ Queued = {S[i] : i \in 1 .. Len(S)}
      /\ opened \subseteq Clients
  BY ContentsFacts DEF PoolInv, Queued, TypeOK, Ring!Queues
<1>1. CASE PlacesUnchanged
  <2>1. q' = q /\ S' = S
    BY <1>1 DEF PlacesUnchanged
  <2>2. Queued' = Queued /\ Handled' = Handled
    BY <1>1, <2>1 DEF PlacesUnchanged, Queued, Handled
  <2> QED BY <1>1, <2>1, <2>2 DEF PlacesUnchanged, Taken, Refused
<1>2. CASE AddPush
  <2>1. /\ UNCHANGED <<Handled, opened, closed, Taken>>
        /\ accepted' = NoFd
        /\ accepted \in Fds
    BY <1>2 DEF AddPush, MainGoto, Handling, Handled, connVars, PoolInv, HandsFull, Taken
  <2>2. accepted = BadFd \/ accepted \notin Requests!Known
    <3>1. accepted \in Clients => accepted \notin Queued \union Taken \union Refused
      BY DEF Owned, OneOwner, Taken, Refused
    <3> QED BY <1>0, <2>1, <3>1 DEF Requests!Known
  <2>3. CASE q.size < Capacity
    <3>1. q' = Ring!push(q, accepted)
      BY <1>2 DEF AddPush
    <3>2. S' = Append(S, accepted) /\ q'.size = q.size + 1
      BY <2>1, <2>3, <3>1, PushFacts DEF PoolInv
    <3>3. Queued' = Queued \union {accepted}
      <4>1. Queued' = {S'[i] : i \in 1 .. q'.size}
        BY DEF Queued
      <4> HIDE DEF S
      <4> QED BY <1>0, <2>1, <3>2, <4>1
    <3>4. Refused' = Refused
      BY <1>0, <2>1, <3>3 DEF Refused
    <3> QED BY <1>0, <2>1, <2>2, <2>3, <3>2, <3>4 DEF Requests!QueueNext, Requests!Admit
  <2>4. CASE q.size = Capacity
    <3>1. q' = q
      BY <1>2, <2>4 DEF AddPush, Ring!push
    <3>2. S' = S /\ Queued' = Queued
      BY <3>1 DEF Queued
    <3>3. Refused' = Refused \union ({accepted} \ {BadFd})
      BY <1>0, <2>1, <3>2 DEF Refused, Owned, OneOwner, Taken
    <3> QED BY <1>0, <2>1, <2>2, <2>4, <3>2, <3>3 DEF Requests!QueueNext, Requests!Refuse
  <2> QED BY <1>0, <2>3, <2>4
<1>3. CASE AcceptFails \/ \E c \in Clients : Accept(c)
  <2>1. /\ UNCHANGED <<Handled, closed, q>> /\ accepted = NoFd
        /\ \/ opened' = opened /\ accepted' = BadFd
           \/ opened' = opened \union {accepted'} /\ accepted' \notin opened
    BY <1>3 DEF AcceptFails, Accept, MainGoto, Handling, Handled, poolVars, connVars,
                PoolInv, HandsFull
  <2>2. S' = S /\ Queued' = Queued /\ Taken' = Taken
    BY <2>1 DEF Queued, Taken
  <2>3. Refused' = Refused
    BY <1>0, <2>1, <2>2 DEF Refused
  <2> QED BY <2>2, <2>3
<1>4. ASSUME NEW w \in Workers, GetPop(w)
      PROVE  Requests!QueueNext
  <2>1. /\ UNCHANGED <<closed, opened, connfd, accepted>>
        /\ Handling' = Handling \union {w}
        /\ q' = Ring!pop(q) /\ q.size > 0 /\ connfd[w] = Ring!peek(q)
    BY <1>4 DEF GetPop, Goto, Handling, connVars, PoolInv, HandsFull, TypeOK
  <2>2. S' = Tail(S) /\ q'.size = q.size - 1 /\ connfd[w] = Head(S)
    BY <2>1, PopFacts DEF PoolInv
  <2>3. Taken' = Taken \union {Head(S)}
    BY <2>1, <2>2 DEF Taken, Handled
  <2>4. Queued' \union {Head(S)} = Queued
    <3>1. Queued' = {S'[i] : i \in 1 .. q'.size}
      BY DEF Queued
    <3> HIDE DEF S
    <3>2. \A i \in 1 .. q'.size : S'[i] = S[i + 1]
      BY <1>0, <2>1, <2>2
    <3>3. \A i \in 2 .. q.size : i - 1 \in 1 .. q'.size /\ S'[i - 1] = S[i]
      BY <1>0, <2>1, <2>2, <3>2
    <3>4. Head(S) = S[1] /\ 1 \in 1 .. q.size
      BY <1>0, <2>1
    <3>5. Queued' \union {Head(S)} \subseteq Queued
      BY <1>0, <2>1, <2>2, <3>1, <3>2, <3>4
    <3>6. ASSUME NEW i \in 1 .. q.size PROVE S[i] \in Queued' \union {Head(S)}
      BY <1>0, <3>1, <3>3, <3>4
    <3> QED BY <1>0, <3>5, <3>6
  <2>5. Refused' = Refused
    BY <2>1, <2>3, <2>4 DEF Refused
  <2>6. S # <<>>
    BY <1>0, <2>1
  <2> QED BY <2>2, <2>3, <2>5, <2>6 DEF Requests!QueueNext, Requests!Take
<1>5. ASSUME NEW w \in Workers, SendAnswer(w)
      PROVE  UNCHANGED <<S, Taken, Refused>>
  <2>1. /\ UNCHANGED <<q, opened, accepted>>
        /\ w \in Handling /\ Handling' = Handling \ {w}
        /\ \A v \in Handling' : connfd'[v] = connfd[v]
        /\ closed' = closed \union {connfd[w]}
    BY <1>5 DEF SendAnswer, Goto, Handling, PoolInv, TypeOK
  <2>2. S' = S /\ Queued' = Queued
    BY <2>1 DEF Queued
  <2>3. Taken' = Taken
    BY <2>1 DEF Taken, Handled
  <2> QED BY <2>1, <2>2, <2>3 DEF Refused
<1> QED
  BY <1>1, <1>2, <1>3, <1>4, <1>5, OtherSteps DEF AcceptOrPush, Handover

(* The circular array under its mutex is a FIFO queue that hands each      *)
(* connection out at most once and turns one away only when it is full.    *)
THEOREM Implements == Spec => ImplementsQueue
<1>1. Init => Requests!QueueInit
  <2> SUFFICES ASSUME Init PROVE Requests!QueueInit
    OBVIOUS
  <2>1. Ring!Contents(q) = <<>>
    BY CreateFacts DEF Init
  <2>2. Taken = {} /\ Refused = {}
    BY DEF Init, Taken, Refused, Handled, Handling
  <2> QED BY <2>1, <2>2 DEF Requests!QueueInit
<1>2. IInv /\ [Next]_vars => [Requests!QueueNext]_<<Ring!Contents(q), Taken, Refused>>
  BY QueueStep DEF IInv
<1> QED
  BY <1>1, <1>2, Inductive, PTL
     DEF Spec, ImplementsQueue, Requests!QueueSpec, Requests!queueVars
=============================================================================
