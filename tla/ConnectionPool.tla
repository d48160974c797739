--------------------------- MODULE ConnectionPool ---------------------------
(***************************************************************************)
(* PeerSync/MultiThreaded-Server-master/server.cpp: the main thread        *)
(* accepts connections and adds them to the shared queue (queue1_add); a   *)
(* fixed pool of workers takes them off (queue1_get), reads the magnet     *)
(* link, downloads it and answers (doProcessing).  One mutex and one       *)
(* condition variable guard the queue.                                     *)
(*                                                                         *)
(* A connection is named by its client, which connects once (client.cpp).  *)
(* The kernel (listen, accept, recv, send, close) and libtorrent are       *)
(* external; the download itself is one step that may never come.          *)
(***************************************************************************)
EXTENDS Integers, Sequences, FiniteSets

CONSTANTS Clients,      \* the clients, which are also their descriptors
          Workers,      \* threadPool, argv[2]
          Capacity,     \* argv[3]
          BadFd,        \* -1, what a failed accept returns
          NoFd,         \* no descriptor: an unwritten cell, an empty hand
          MainThread,   \* the holder of mut that is not a worker
          MaxMishaps    \* bound: failed accepts and spurious wake-ups in one execution

Fds == Clients \union {BadFd}

ASSUME PoolAssumption ==
  /\ Capacity \in Nat \ {0}
  /\ IsFiniteSet(Workers)
  /\ BadFd \notin Clients /\ NoFd \notin Fds
  /\ MainThread \notin Workers /\ NoFd \notin Workers \union {MainThread}
  /\ MaxMishaps \in Nat

VARIABLES up,        \* the server process runs: exit(1) has not been called
          mainPc,    \* where the main thread is
          accepted,  \* the value accept returned, in the main thread's hand
          q,         \* the queue
          mut,       \* the thread that holds the mutex, or NoFd
          waiting,   \* the workers blocked in pthread_cond_wait
          pc,        \* where each worker is
          connfd,    \* the descriptor each worker has peeked at or handles
          client,    \* what each client has done
          opened,    \* the connections accept has returned
          closed,    \* the connections the server has closed
          mishaps    \* what is left of the bound

poolVars == <<mut, waiting, pc>>
connVars == <<client, opened, closed>>
vars == <<up, mainPc, accepted, q, poolVars, connfd, connVars, mishaps>>

Ring == INSTANCE RingQueue WITH Elements <- Fds, NoElement <- NoFd

Init == /\ up = TRUE
        /\ mainPc = "accept"
        /\ accepted = NoFd
        /\ q = Ring!createqueue1
        /\ mut = NoFd
        /\ waiting = {}
        /\ pc = [w \in Workers |-> "enter"]
        /\ connfd = [w \in Workers |-> NoFd]
        /\ client = [c \in Clients |-> "away"]
        /\ opened = {}
        /\ closed = {}
        /\ mishaps = MaxMishaps

Lock(t) == mut = NoFd /\ mut' = t
Unlock(t) == mut = t /\ mut' = NoFd

-----------------------------------------------------------------------------
(* The clients: connect, write the magnet link, wait for the answer; or    *)
(* die at any point.                                                       *)
Connect(c) == /\ client[c] = "away"
              /\ up
              /\ client' = [client EXCEPT ![c] = "connected"]
              /\ UNCHANGED <<up, mainPc, accepted, q, poolVars, connfd, opened, closed, mishaps>>

SendMagnet(c) == /\ client[c] = "connected"
                 /\ client' = [client EXCEPT ![c] = "sent"]
                 /\ UNCHANGED <<up, mainPc, accepted, q, poolVars, connfd, opened, closed, mishaps>>

HangUp(c) == /\ client[c] \in {"connected", "sent"}
             /\ client' = [client EXCEPT ![c] = "gone"]
             /\ UNCHANGED <<up, mainPc, accepted, q, poolVars, connfd, opened, closed, mishaps>>

-----------------------------------------------------------------------------
(* main: accept returns a connection or fails; either way its value is     *)
(* passed to queue1_add.                                                   *)
MainGoto(from, to) == up /\ mainPc = from /\ mainPc' = to

Accept(c) == /\ MainGoto("accept", "add")
             /\ client[c] # "away" /\ c \notin opened
             /\ accepted' = c
             /\ opened' = opened \union {c}
             /\ UNCHANGED <<up, q, poolVars, connfd, client, closed, mishaps>>

AcceptFails == /\ MainGoto("accept", "add")
               /\ mishaps > 0
               /\ mishaps' = mishaps - 1
               /\ accepted' = BadFd
               /\ UNCHANGED <<up, q, poolVars, connfd, connVars>>

AddLock == /\ MainGoto("add", "push")
           /\ Lock(MainThread)
           /\ UNCHANGED <<up, accepted, q, waiting, pc, connfd, connVars, mishaps>>

(* A mistake this code could have made, kept to see the properties notice  *)
(* it: a signal is sent only when the queue was empty.                     *)
AddPushSignalsOnce == /\ MainGoto("push", IF Ring!empty(q) THEN "signal" ELSE "accept")
                      /\ Unlock(MainThread)
                      /\ q' = Ring!push(q, accepted)
                      /\ accepted' = NoFd
                      /\ UNCHANGED <<up, waiting, pc, connfd, connVars, mishaps>>

AddPush == /\ MainGoto("push", "signal")
           /\ Unlock(MainThread)
           /\ q' = Ring!push(q, accepted)
           /\ accepted' = NoFd
           /\ UNCHANGED <<up, waiting, pc, connfd, connVars, mishaps>>

(* pthread_cond_signal after the mutex is released: some waiter wakes, or  *)
(* there is none.                                                          *)
AddSignal == /\ MainGoto("signal", "accept")
             /\ \/ \E w \in waiting : /\ waiting' = waiting \ {w}
                                      /\ pc' = [pc EXCEPT ![w] = "woken"]
                \/ waiting = {} /\ UNCHANGED <<waiting, pc>>
             /\ UNCHANGED <<up, accepted, q, mut, connfd, connVars, mishaps>>

Main == AcceptFails \/ AddLock \/ AddPush \/ AddSignal \/ \E c \in Clients : Accept(c)

-----------------------------------------------------------------------------
Goto(w, from, to) == up /\ pc[w] = from /\ pc' = [pc EXCEPT ![w] = to]

(* queue1_get: take the mutex, on entry or inside pthread_cond_wait; wait  *)
(* while the queue is empty; else peek, pop, release.                      *)
GetLock(w) == /\ Goto(w, "enter", "check") \/ Goto(w, "woken", "check")
              /\ Lock(w)
              /\ UNCHANGED <<up, mainPc, accepted, q, waiting, connfd, connVars, mishaps>>

GetWait(w) == /\ Goto(w, "check", "waiting")
              /\ Ring!empty(q)
              /\ Unlock(w)
              /\ waiting' = waiting \union {w}
              /\ UNCHANGED <<up, mainPc, accepted, q, connfd, connVars, mishaps>>

GetPeek(w) == /\ Goto(w, "check", "pop")
              /\ ~Ring!empty(q)
              /\ connfd' = [connfd EXCEPT ![w] = Ring!peek(q)]
              /\ UNCHANGED <<up, mainPc, accepted, q, mut, waiting, connVars, mishaps>>

(* A mistake this code could have made, kept to see the properties notice  *)
(* it: the unlock of l.117 is missing.                                     *)
GetPopKeepsLock(w) == /\ Goto(w, "pop", "recv")
                      /\ q' = Ring!pop(q)
                      /\ UNCHANGED <<up, mainPc, accepted, mut, waiting, connfd, connVars, mishaps>>

GetPop(w) == /\ Goto(w, "pop", "recv")
             /\ q' = Ring!pop(q)
             /\ Unlock(w)
             /\ UNCHANGED <<up, mainPc, accepted, waiting, connfd, connVars, mishaps>>

SpuriousWake(w) == /\ Goto(w, "waiting", "woken")
                   /\ mishaps > 0
                   /\ mishaps' = mishaps - 1
                   /\ waiting' = waiting \ {w}
                   /\ UNCHANGED <<up, mainPc, accepted, q, mut, connfd, connVars>>

(* doProcessing: recv blocks until the client wrote or hung up; -1 (a bad  *)
(* descriptor, a reset connection) exits the whole server.                 *)
Recv(w) == /\ Goto(w, "recv", "torrent")
           /\ connfd[w] \in Clients
           /\ client[connfd[w]] \in {"sent", "gone"}
           /\ UNCHANGED <<up, mainPc, accepted, q, mut, waiting, connfd, connVars, mishaps>>

RecvFails(w) == /\ up /\ pc[w] = "recv"
                /\ connfd[w] \in Clients => client[connfd[w]] = "gone"
                /\ up' = FALSE
                /\ UNCHANGED <<mainPc, accepted, q, poolVars, connfd, connVars, mishaps>>

(* The download: torrent() returns, after any time or never.               *)
TorrentReturns(w) ==
  /\ Goto(w, "torrent", "send")
  /\ UNCHANGED <<up, mainPc, accepted, q, mut, waiting, connfd, connVars, mishaps>>

SendAnswer(w) == /\ Goto(w, "send", "enter")
                 /\ client' = [client EXCEPT ![connfd[w]] = "finished"]
                 /\ closed' = closed \union {connfd[w]}
                 /\ connfd' = [connfd EXCEPT ![w] = NoFd]
                 /\ UNCHANGED <<up, mainPc, accepted, q, mut, waiting, opened, mishaps>>

(* What the scheduler alone drives on; SpuriousWake and TorrentReturns are *)
(* not its to promise.                                                     *)
Scheduled(w) == \/ GetLock(w) \/ GetWait(w) \/ GetPeek(w) \/ GetPop(w)
                \/ Recv(w) \/ RecvFails(w) \/ SendAnswer(w)

Next == \/ \E c \in Clients : Connect(c) \/ SendMagnet(c) \/ HangUp(c)
        \/ Main
        \/ \E w \in Workers : Scheduled(w) \/ SpuriousWake(w) \/ TorrentReturns(w)

Fairness == /\ WF_vars(Main)
            /\ \A w \in Workers : WF_vars(Scheduled(w))
            /\ \A c \in Clients : WF_vars(SendMagnet(c))

Spec == Init /\ [][Next]_vars /\ Fairness
-----------------------------------------------------------------------------
TypeOK ==
  /\ up \in BOOLEAN
  /\ mainPc \in {"accept", "add", "push", "signal"}
  /\ accepted \in Fds \union {NoFd}
  /\ q \in Ring!Queues
  /\ mut \in Workers \union {MainThread, NoFd}
  /\ waiting \in SUBSET Workers
  /\ pc \in [Workers -> {"enter", "check", "waiting", "woken", "pop", "recv", "torrent", "send"}]
  /\ connfd \in [Workers -> Fds \union {NoFd}]
  /\ client \in [Clients -> {"away", "connected", "sent", "finished", "gone"}]
  /\ opened \in SUBSET Clients /\ closed \in SUBSET Clients
  /\ mishaps \in 0 .. MaxMishaps

(* Where a connection can be while the server has it: in the main thread's *)
(* hand, in the queue, with a worker.                                      *)
Queued == {Ring!Contents(q)[i] : i \in 1 .. q.size}
Handling == {w \in Workers : pc[w] \in {"recv", "torrent", "send"}}
Handled == {connfd[w] : w \in Handling}

(* No descriptor is handed out twice: two workers never serve one client,  *)
(* a queued connection is not being served or already closed, and the      *)
(* queue does not hold one twice.                                          *)
OneOwner ==
  /\ \A v, w \in Handling : connfd[v] = connfd[w] /\ connfd[v] \in Clients => v = w
  /\ \A i, j \in 1 .. q.size :
        Ring!Contents(q)[i] = Ring!Contents(q)[j] /\ Ring!Contents(q)[i] \in Clients => i = j
  /\ Clients \intersect Queued \intersect (Handled \union closed \union {accepted}) = {}
  /\ Handled \intersect closed = {}

(* The workers that will look at the queue without being signalled.        *)
Looking == {w \in Workers : pc[w] \in {"enter", "woken", "check", "pop"}}

(* queue1_add signals after it has released the mutex, and one signal      *)
(* wakes one waiter that may find its element taken by another.  Still,    *)
(* while a worker waits every queued connection has a worker coming for    *)
(* it or a signal about to be sent.                                        *)
NoLostSignal ==
  waiting # {} => q.size <= Cardinality(Looking) + (IF mainPc = "signal" THEN 1 ELSE 0)

(* A queued connection is served and closed unless the server exits,       *)
(* provided that the downloads before it return.                           *)
QueuedIsServed ==
  (\A w \in Workers : []<>(pc[w] # "torrent"))
     => \A c \in Clients : (c \in Queued) ~> (c \in closed \/ ~up)

(* README.md l.6: "When a new client request arrives, the server should    *)
(* add it to a queue of connections."  An accepted connection is with some *)
(* thread, in the queue, or finished with.                                 *)
EveryRequestKept == opened \subseteq Queued \union Handled \union closed \union {accepted}

(* The circular array, the mutex and the threads implement a FIFO queue.   *)
Taken == Handled \union closed
Refused == opened \ (Queued \union Taken \union {accepted})
Requests == INSTANCE RequestQueue WITH Requests <- Clients, Failure <- BadFd,
              Limit <- Capacity, pending <- Ring!Contents(q), taken <- Taken, refused <- Refused
ImplementsQueue == Requests!QueueSpec
=============================================================================
