-------------------------- MODULE PipeChildrenProofs --------------------------
(***************************************************************************)
(* Of PipeChildren, for all sizes of the pipes and of the buffer: who      *)
(* holds which end, and that what is shown is what was written.            *)
(***************************************************************************)
EXTENDS PipeChildren, SequenceTheorems, TLAPS

(* Where a process can be.                                                 *)
Points == {"none", "fork", "start", "ready", "write", "lastwrite", "select", "scan", "gone"}

(* A process that was started and has not ended.                           *)
Lives(p) == at[p] \notin {"none", "gone"}

(* Where the processes are: children are forked from the fourth down, and  *)
(* the parent reads when all are.                                          *)
Places ==
  /\ at[Parent] \in {"fork", "select", "scan", "gone"}
  /\ \A c \in Pipes : at[c] \in {"none", "start", "ready", "write", "lastwrite", "gone"}
  /\ at[Parent] = "fork" => fork >= 1
  /\ at[Parent] \in {"select", "scan"} => fork = 0
  /\ \A c \in Pipes : at[c] = "none" <=> c <= fork

(* A child holds the write ends of its own pipe and of those whose child   *)
(* was forked after it, and the read ends of all others.                   *)
Held ==
  /\ \A c \in Pipes : Lives(c) => /\ \A d \in 1..c : Write(d) \in ends[c]
                                  /\ \A d \in Pipes \ {c} : Read(d) \in ends[c]
  /\ Lives(Parent) => /\ \A d \in 1..fork : Write(d) \in ends[Parent]
                      /\ \A d \in Pipes : Read(d) \in ends[Parent]

(* A pipe that select has left in the set has something to read or ends.   *)
Gone(c) == \A d \in c..n_children : at[d] = "gone"
Selected == at[Parent] = "scan" => \A c \in prev_set : c >= i => pipe[c] # <<>> \/ Gone(c)

(* What the theorem about the ends rests on.                               *)
EndsInv == TypeOK /\ Places /\ Held /\ Selected /\ EndsAreHeld

(* The pipes are four; each process but the parent has one.                *)
LEMMA Numbers == Pipes = 1..4 /\ Processes = 0..4 /\ n_children = 4 /\ Parent = 0
BY DEF Pipes, Processes, n_children, Parent

(* The ends of the pipes are all different.                                *)
LEMMA Ends ==
  ASSUME NEW c \in Pipes, NEW d \in Pipes
  PROVE  Write(c) # Read(d) /\ Read(d) # Write(c)
         /\ (Write(c) = Write(d) => c = d) /\ (Read(c) = Read(d) => c = d)
         /\ Write(c) \in Pipes \X {"read", "write"} /\ Read(c) \in Pipes \X {"read", "write"}
BY DEF Read, Write

-----------------------------------------------------------------------------
(* The processes whose ends and places a step changes.                     *)
Forked(born, inherited) ==
  /\ at[Parent] = "fork"
  /\ at' = [at EXCEPT ![fork] = born, ![Parent] = IF fork = 1 THEN "select" ELSE "fork"]
  /\ ends' = [ends EXCEPT ![fork] = inherited, ![Parent] = @ \ {Write(fork)}]
  /\ fork' = fork - 1

Frees(p) == /\ Lives(p) /\ fork' = fork
            /\ at' = [at EXCEPT ![p] = "gone"] /\ ends' = [ends EXCEPT ![p] = {}]

Steps(c, to) == /\ Lives(c) /\ fork' = fork /\ to \in {"ready", "write", "lastwrite"}
                /\ at' = [at EXCEPT ![c] = to]
                /\ ends' \in {ends, [ends EXCEPT ![c] = @ \ {Read(c)}]}

Turns(to) == /\ at[Parent] \in {"select", "scan"} /\ to \in {"select", "scan"} /\ fork' = fork
             /\ at' = [at EXCEPT ![Parent] = to] /\ ends' = ends

(* None.                                                                   *)
Stays == UNCHANGED <<at, ends, fork>>
-----------------------------------------------------------------------------
(* A child that is forked has all ends that it is to hold.                 *)
LEMMA ForkHeld ==
  ASSUME TypeOK, Places, Held,
         NEW born \in {"start", "gone"}, NEW inherited, Forked(born, inherited),
         born = "start" => inherited = ends[Parent]
  PROVE  Places' /\ Held'
<1>1. /\ fork \in 1..4 /\ fork' = fork - 1 /\ fork' \in 0..3
      /\ at \in [0..4 -> Points] /\ ends \in [0..4 -> SUBSET (Pipes \X {"read", "write"})]
      /\ at[0] = "fork"
  BY Numbers DEF TypeOK, Places, Forked, Points
<1>2. /\ at'[fork] = born /\ at'[0] = IF fork = 1 THEN "select" ELSE "fork"
      /\ \A c \in 1..4 : c # fork => at'[c] = at[c]
      /\ ends'[fork] = inherited /\ ends'[0] = ends[0] \ {Write(fork)}
      /\ \A c \in 1..4 : c # fork => ends'[c] = ends[c]
  BY <1>1, Numbers DEF Forked
<1>3. Places'
  BY <1>1, <1>2, Numbers DEF Places
<1>4. /\ \A d \in 1..fork : Write(d) \in ends[0]
      /\ \A d \in Pipes : Read(d) \in ends[0]
  BY <1>1, Numbers DEF Held, Lives
<1>5. ASSUME NEW c \in Pipes, Lives(c)'
      PROVE  /\ \A d \in 1..c : Write(d) \in ends'[c]
             /\ \A d \in Pipes \ {c} : Read(d) \in ends'[c]
  <2>1. CASE c = fork
    BY <1>2, <1>4, <1>5, <2>1, Numbers DEF Lives
  <2>2. CASE c # fork
    BY <1>2, <1>5, <2>2, Numbers DEF Held, Lives
  <2> QED
    BY <2>1, <2>2
<1>6. \A d \in 1..fork' : Write(d) \in ends'[0]
  <2> TAKE d \in 1..fork'
  <2>1. d \in 1..fork /\ d # fork /\ d \in Pipes /\ fork \in Pipes
    BY <1>1, Numbers
  <2>2. Write(d) # Write(fork)
    BY <2>1, Ends
  <2> QED
    BY <1>2, <1>4, <2>1, <2>2
<1>7. \A d \in Pipes : Read(d) \in ends'[0]
  <2> TAKE d \in Pipes
  <2>1. fork \in Pipes
    BY <1>1, Numbers
  <2>2. Read(d) # Write(fork)
    BY <2>1, Ends
  <2> QED
    BY <1>2, <1>4, <2>2
<1> QED
  BY <1>3, <1>5, <1>6, <1>7, Numbers DEF Held

(* The other steps take from a process that lives at most the read end of  *)
(* its own pipe.                                                           *)
LEMMA OthersHeld ==
  ASSUME TypeOK, Places, Held,
         \/ \E p \in Processes : Frees(p)
         \/ \E c \in Pipes : \E to \in {"ready", "write", "lastwrite"} : Steps(c, to)
         \/ \E to \in {"select", "scan"} : Turns(to)
         \/ Stays
  PROVE  Places' /\ Held'
<1>1. /\ at \in [0..4 -> Points] /\ ends \in [0..4 -> SUBSET (Pipes \X {"read", "write"})]
      /\ fork \in 0..4
  BY Numbers DEF TypeOK, Points
<1>2. CASE \E p \in Processes : Frees(p)
  <2> PICK p \in Processes : Frees(p)
    BY <1>2
  <2>1. /\ at'[p] = "gone" /\ \A q \in Processes : q # p => at'[q] = at[q] /\ ends'[q] = ends[q]
        /\ fork' = fork /\ at[p] \notin {"none", "gone"}
    BY <1>1, Numbers DEF Frees, Lives
  <2>2. Places'
    BY <2>1, Numbers DEF Places
  <2>3. ASSUME NEW q \in Processes, Lives(q)' PROVE Lives(q) /\ ends'[q] = ends[q]
    BY <2>1, <2>3 DEF Lives
  <2>4. Held'
    BY <2>1, <2>3, Numbers DEF Held
  <2> QED
    BY <2>2, <2>4
<1>3. CASE \E c \in Pipes : \E to \in {"ready", "write", "lastwrite"} : Steps(c, to)
  <2> PICK c \in Pipes, to \in {"ready", "write", "lastwrite"} : Steps(c, to)
    BY <1>3
  <2>1. /\ at'[c] = to /\ \A q \in Processes : q # c => at'[q] = at[q]
        /\ fork' = fork /\ at[c] \notin {"none", "gone"} /\ c # 0 /\ c \in Processes
    BY <1>1, Numbers DEF Steps, Lives
  <2>2. Places'
    BY <2>1, Numbers DEF Places
  <2>3. \A q \in Processes : Lives(q)' <=> Lives(q)
    BY <2>1 DEF Lives
  <2>4. \A q \in Processes : q # c => ends'[q] = ends[q]
    BY <1>1, <2>1, Numbers DEF Steps
  <2>5. ends[c] \ {Read(c)} \subseteq ends'[c]
    BY <1>1, <2>1, Numbers DEF Steps
  <2>6. /\ \A d \in 1..c : Write(d) \in ends'[c]
        /\ \A d \in Pipes \ {c} : Read(d) \in ends'[c]
    <3>1. /\ \A d \in 1..c : Write(d) \in ends[c]
          /\ \A d \in Pipes \ {c} : Read(d) \in ends[c]
      BY <2>1 DEF Held, Lives
    <3>2. ASSUME NEW d \in 1..c PROVE Write(d) \in ends'[c]
      <4>1. d \in Pipes
        BY Numbers
      <4>2. Write(d) # Read(c)
        BY <4>1, Ends
      <4> QED
        BY <2>5, <3>1, <4>2
    <3>3. ASSUME NEW d \in Pipes \ {c} PROVE Read(d) \in ends'[c]
      <4>1. Read(d) # Read(c)
        BY Ends
      <4> QED
        BY <2>5, <3>1, <4>1
    <3> QED
      BY <3>2, <3>3
  <2>7. Held'
    BY <2>1, <2>3, <2>4, <2>6, Numbers DEF Held
  <2> QED
    BY <2>2, <2>7
<1>4. CASE \E to \in {"select", "scan"} : Turns(to)
  <2> PICK to \in {"select", "scan"} : Turns(to)
    BY <1>4
  <2>1. /\ at'[0] = to /\ \A q \in Pipes : at'[q] = at[q]
        /\ fork' = fork /\ at[0] \in {"select", "scan"} /\ ends' = ends
    BY <1>1, Numbers DEF Turns
  <2>2. Places'
    BY <2>1, Numbers DEF Places
  <2>3. \A q \in Processes : Lives(q)' <=> Lives(q)
    BY <2>1, Numbers DEF Lives
  <2>4. Held'
    BY <2>1, <2>3, Numbers DEF Held
  <2> QED
    BY <2>2, <2>4
<1>5. CASE Stays
  BY <1>5 DEF Stays, Places, Held, Lives
<1> QED
  BY <1>2, <1>3, <1>4, <1>5

(* A pipe without a holder of its write end: those that could write to it  *)
(* are gone.  One without a holder of its read end: all others are.        *)
LEMMA NobodyHolds ==
  ASSUME TypeOK, Places, Held, NEW c \in Pipes
  PROVE  /\ Holders(Write(c)) = {} /\ fork = 0 => Gone(c)
         /\ Holders(Read(c)) = {} => \A p \in Processes \ {c} : ~Lives(p)
<1>1. ASSUME Holders(Write(c)) = {}, fork = 0, NEW d \in c..n_children PROVE at[d] = "gone"
  <2>1. d \in Pipes /\ c \in 1..d /\ d \in Processes
    BY Numbers
  <2>2. ~Lives(d)
    BY <1>1, <2>1 DEF Held, Holders
  <2> QED
    BY <1>1, <2>1, <2>2, Numbers DEF Places, Lives
<1>2. ASSUME Holders(Read(c)) = {}, NEW p \in Processes \ {c} PROVE ~Lives(p)
  <2>1. CASE p = Parent
    BY <1>2, <2>1 DEF Held, Holders
  <2>2. CASE p # Parent
    <3>1. p \in Pipes /\ c \in Pipes \ {p}
      BY <1>2, <2>2, Numbers
    <3> QED
      BY <1>2, <3>1 DEF Held, Holders
  <2> QED
    BY <2>1, <2>2
<1> QED
  BY <1>1, <1>2 DEF Gone

-----------------------------------------------------------------------------
(* Which of these a step is.                                               *)
LEMMA Shapes ==
  ASSUME TypeOK, Places, Held, [Next]_vars
  PROVE  \/ \E born \in {"start", "gone"}, inherited \in {ends[Parent], {}} :
              Forked(born, inherited) /\ (born = "start" => inherited = ends[Parent])
         \/ \E p \in Processes : Frees(p)
         \/ \E c \in Pipes : \E to \in {"ready", "write", "lastwrite"} : Steps(c, to)
         \/ \E to \in {"select", "scan"} : Turns(to)
         \/ Stays
<1>1. CASE init_child \/ ForkFails
  BY <1>1 DEF init_child, ForkFails, ForkNext, Forked
<1>2. CASE Select \/ Loop
  BY <1>2 DEF Select, Loop, LoopsWith, Goes, Turns
<1>3. CASE Show \/ Skip
  BY <1>3 DEF Show, ShowsOver, Skip, Skips, Next_i, Stays
<1>4. ASSUME NEW p \in Processes, Kill(p) PROVE Frees(p)
  BY <1>4 DEF Kill, Exits, Goes, Frees, Lives, parent
<1>5. ASSUME NEW c \in Pipes, CloseRead(c) PROVE Steps(c, "ready")
  BY <1>5 DEF CloseRead, Goes, Steps, Lives, parent
<1>6. ASSUME NEW c \in Pipes, Work(c) PROVE Frees(c)
  BY <1>6 DEF Work, Exits, Goes, Frees, Lives, parent
<1>7. ASSUME NEW c \in Pipes, HasLine(c) PROVE Steps(c, "write") \/ Steps(c, "lastwrite")
  BY <1>7 DEF HasLine, Goes, Steps, Lives, parent
<1>8. ASSUME NEW c \in Pipes, WriteLine(c) PROVE Frees(c) \/ Steps(c, "ready")
  <2>1. PICK from \in {"write", "lastwrite"} : Writes(c, from, ends[c])
    BY <1>8 DEF WriteLine
  <2>2. [ends EXCEPT ![c] = ends[c]] = ends
    BY DEF TypeOK
  <2>3. at[c] = from /\ Lives(c) /\ fork' = fork
    BY <2>1 DEF Writes, Exits, Goes, Lives, parent
  <2>4. CASE Exits(c, from)
    BY <2>3, <2>4 DEF Exits, Goes, Frees
  <2>5. CASE Goes(c, from, "ready") /\ ends' = ends
    BY <2>3, <2>5 DEF Goes, Steps
  <2>6. Write(c) \in ends[c]
    BY <2>3, Numbers DEF Held
  <2> QED
    BY <2>1, <2>2, <2>4, <2>5, <2>6 DEF Writes
<1>9. CASE UNCHANGED vars
  BY <1>9 DEF vars, Stays
<1> QED
  BY <1>1, <1>2, <1>3, <1>4, <1>5, <1>6, <1>7, <1>8, <1>9, Numbers DEF Next, main, child

(* Every step keeps where the processes may be and what they must hold.    *)
LEMMA HeldStep == TypeOK /\ Places /\ Held /\ [Next]_vars => Places' /\ Held'
<1> SUFFICES ASSUME TypeOK, Places, Held, [Next]_vars PROVE Places' /\ Held'
  OBVIOUS
<1>1. ASSUME NEW born \in {"start", "gone"}, NEW inherited \in {ends[Parent], {}},
             Forked(born, inherited), born = "start" => inherited = ends[Parent]
      PROVE  Places' /\ Held'
  BY <1>1, ForkHeld
<1> QED
  BY <1>1, Shapes, OthersHeld

(* Who is gone remains so; and when the parent is, nobody is forked.       *)
LEMMA Ages ==
  ASSUME TypeOK, Places, Held, [Next]_vars
  PROVE  /\ \A p \in Processes : at[p] = "gone" => at'[p] = "gone"
         /\ ~Lives(Parent) => \A p \in Processes : ~Lives(p) => ~Lives(p)'
<1>1. at \in [0..4 -> Points] /\ fork \in 0..4
  BY Numbers DEF TypeOK, Points
<1>2. ASSUME NEW born \in {"start", "gone"}, NEW inherited, Forked(born, inherited)
      PROVE  /\ Lives(Parent)
             /\ \A p \in Processes : at[p] = "gone" => at'[p] = "gone"
  <2>1. at[0] = "fork" /\ fork \in 1..4 /\ at[fork] = "none"
    BY <1>1, <1>2, Numbers DEF Forked, Places
  <2> QED
    BY <1>1, <1>2, <2>1, Numbers DEF Forked, Lives
<1>3. ASSUME NEW p \in Processes, Frees(p)
      PROVE  \A q \in Processes : /\ at[q] = "gone" => at'[q] = "gone"
                                  /\ ~Lives(q) => ~Lives(q)'
  BY <1>1, <1>3, Numbers DEF Frees, Lives
<1>4. ASSUME NEW c \in Pipes, NEW to, Steps(c, to)
      PROVE  \A q \in Processes : /\ at[q] = "gone" => at'[q] = "gone"
                                  /\ ~Lives(q) => ~Lives(q)'
  BY <1>1, <1>4, Numbers DEF Steps, Lives
<1>5. ASSUME NEW to, Turns(to)
      PROVE  \A q \in Processes : /\ at[q] = "gone" => at'[q] = "gone"
                                  /\ ~Lives(q) => ~Lives(q)'
  BY <1>1, <1>5, Numbers DEF Turns, Lives
<1>6. CASE Stays
  BY <1>6 DEF Stays, Lives
<1> QED
  BY <1>2, <1>3, <1>4, <1>5, <1>6, Shapes

(* Between select and the read of a pipe nobody else reads from it, and    *)
(* who is gone does not come back.                                         *)
LEMMA SelectedStep ==
  ASSUME TypeOK, Places, Held, Selected, [Next]_vars
  PROVE  Selected'
<1>0. /\ at \in [0..4 -> Points] /\ i \in 1..5 /\ prev_set \subseteq Pipes
      /\ \A c \in Pipes : pipe[c] \in Seq(Nat) /\ pipe \in [Pipes -> Seq(Nat)]
  BY Numbers DEF TypeOK, Points
<1>1. ASSUME NEW c \in Pipes, Gone(c) PROVE Gone(c)'
  BY <1>1, Ages, Numbers DEF Gone
<1>2. CASE Select
  <2>1. /\ at[Parent] = "select" /\ i' = 1
        /\ \A c \in prev_set' : c \in Pipes /\ Ready(c) /\ pipe'[c] = pipe[c]
    BY <1>0, <1>2 DEF Select, Goes
  <2>2. fork = 0
    BY <2>1 DEF Places
  <2>3. ASSUME NEW c \in prev_set' PROVE pipe'[c] # <<>> \/ Gone(c)'
    BY <1>1, <2>1, <2>2, NobodyHolds DEF Ready
  <2> QED
    BY <2>3 DEF Selected
<1>3. CASE Show \/ Skip
  <2>1. /\ at[Parent] = "scan" /\ i' = i + 1 /\ prev_set' = prev_set
        /\ \A c \in Pipes : c # i => pipe'[c] = pipe[c]
    BY <1>0, <1>3 DEF Show, ShowsOver, Skip, Skips, Next_i
  <2>2. ASSUME NEW c \in prev_set', c >= i' PROVE pipe'[c] # <<>> \/ Gone(c)'
    <3>1. c \in prev_set /\ c \in Pipes /\ c # i /\ c >= i
      BY <1>0, <2>1, <2>2, Numbers
    <3> QED
      BY <1>1, <2>1, <3>1 DEF Selected
  <2> QED
    BY <2>2 DEF Selected
<1>4. CASE Loop \/ init_child \/ ForkFails
  <2>1. at'[Parent] # "scan"
    BY <1>0, <1>4, Numbers DEF Loop, LoopsWith, Goes, init_child, ForkFails, ForkNext, Places
  <2> QED
    BY <2>1 DEF Selected
<1>5. ASSUME at'[Parent] = "scan" => at[Parent] = "scan", UNCHANGED <<prev_set, i>>,
             \A c \in Pipes : pipe[c] # <<>> => pipe'[c] # <<>>
      PROVE  Selected'
  BY <1>0, <1>1, <1>5 DEF Selected
<1>6. ASSUME NEW c \in Pipes, child(c) \/ HasLine(c) PROVE Selected'
  <2>1. c # 0 /\ c \in Processes
    BY Numbers
  <2>2. CASE CloseRead(c) \/ Work(c) \/ HasLine(c)
    <3>1. at'[Parent] = at[Parent] /\ UNCHANGED <<prev_set, i, pipe>>
      BY <1>0, <2>1, <2>2, Numbers DEF CloseRead, Work, HasLine, Exits, Goes, parent
    <3> QED
      BY <1>5, <3>1
  <2>3. ASSUME NEW from, NEW kept, Writes(c, from, kept) PROVE Selected'
    <3>1. at'[Parent] = at[Parent] /\ UNCHANGED <<prev_set, i>>
      BY <1>0, <2>1, <2>3, Numbers DEF Writes, Exits, Goes, parent
    <3>2. pipe' = pipe \/ pipe' = [pipe EXCEPT ![c] = Append(@, written[c] + 1)]
      BY <2>3 DEF Writes
    <3>3. Append(pipe[c], written[c] + 1) # <<>>
      <4>1. pipe[c] \in Seq(Nat) /\ written[c] + 1 \in Nat
        BY <1>0 DEF TypeOK
      <4> QED
        BY <4>1, AppendProperties
    <3>4. \A d \in Pipes : pipe[d] # <<>> => pipe'[d] # <<>>
      BY <1>0, <3>2, <3>3
    <3> QED
      BY <1>5, <3>1, <3>4
  <2> QED
    BY <1>6, <2>2, <2>3 DEF child, WriteLine
<1>7. ASSUME NEW p \in Processes, Kill(p) PROVE Selected'
  BY <1>0, <1>5, <1>7, Numbers DEF Kill, Exits, Goes, parent
<1>8. CASE UNCHANGED vars
  BY <1>5, <1>8 DEF vars
<1> QED
  BY <1>2, <1>3, <1>4, <1>6, <1>7, <1>8 DEF Next, main

(* A read of nothing from a pipe that select left in the set is its end; a *)
(* write that kills finds nobody that could read.                          *)
LEMMA EndsStep ==
  ASSUME TypeOK, Places, Held, Selected, EndsAreHeld, [Next]_vars
  PROVE  EndsAreHeld'
<1>0. /\ at \in [0..4 -> Points] /\ i \in 1..5 /\ prev_set \subseteq Pipes
      /\ ended \subseteq Pipes /\ broken \subseteq Pipes
      /\ pipe \in [Pipes -> Seq(Nat)]
  BY Numbers DEF TypeOK, Points
<1>1. ASSUME ended' \subseteq ended, broken' \subseteq broken PROVE EndsAreHeld'
  <2>1. ASSUME NEW c \in ended', NEW d \in c..n_children PROVE at'[d] = "gone"
    <3>1. c \in Pipes /\ d \in Processes /\ at[d] = "gone"
      BY <1>0, <1>1, <2>1, Numbers DEF EndsAreHeld
    <3> QED
      BY <3>1, Ages
  <2>2. ASSUME NEW c \in broken', NEW p \in Processes \ {c} PROVE at'[p] \in {"none", "gone"}
    <3>1. c \in broken /\ ~Lives(p) /\ ~Lives(Parent)
      BY <1>0, <1>1, <2>2, Numbers DEF EndsAreHeld, Lives
    <3> QED
      BY <3>1, Ages DEF Lives
  <2> QED
    BY <2>1, <2>2 DEF EndsAreHeld
<1>2. CASE Show
  <2> DEFINE size == IF Len(pipe[i]) < ReadSize THEN Len(pipe[i]) ELSE ReadSize
  <2>1. /\ at[Parent] = "scan" /\ i \in prev_set /\ broken' = broken /\ at' = at
        /\ ended' = IF size = 0 THEN ended \union {i} ELSE ended
    BY <1>2 DEF Show, ShowsOver, Next_i
  <2>2. CASE size # 0
    BY <1>1, <2>1, <2>2
  <2>3. CASE size = 0
    <3>1. pipe[i] = <<>>
      <4>1. pipe[i] \in Seq(Nat)
        BY <1>0, <2>1
      <4>2. Len(pipe[i]) = 0
        BY <2>3, PipeAssumption, <4>1
      <4> QED
        BY <4>1, <4>2, EmptySeq
    <3>2. Gone(i)
      BY <1>0, <2>1, <3>1 DEF Selected
    <3> QED
      BY <2>1, <2>3, <3>2 DEF EndsAreHeld, Gone
  <2> QED
    BY <2>2, <2>3
<1>3. ASSUME NEW c \in Pipes, NEW from, NEW kept, Writes(c, from, kept) PROVE EndsAreHeld'
  <2>1. ended' = ended
    BY <1>3 DEF Writes
  <2>2. CASE broken' = broken
    BY <1>1, <2>1, <2>2
  <2>3. CASE Holders(Read(c)) = {} /\ Exits(c, from) /\ broken' = broken \union {c}
    <3>1. \A p \in Processes \ {c} : ~Lives(p) /\ at'[p] = at[p]
      BY <1>0, <2>3, NobodyHolds, Numbers DEF Exits, Goes
    <3>2. at'[c] = "gone" /\ c \in Processes
      BY <1>0, <2>3, Numbers DEF Exits, Goes
    <3>3. \A p \in Processes : at'[p] \in {"none", "gone"}
      BY <3>1, <3>2 DEF Lives
    <3>4. ASSUME NEW e \in ended', NEW d \in e..n_children PROVE at'[d] = "gone"
      <4>1. e \in Pipes /\ d \in Processes /\ at[d] = "gone"
        BY <1>0, <2>1, <3>4, Numbers DEF EndsAreHeld
      <4> QED
        BY <4>1, Ages
    <3> QED
      BY <3>3, <3>4 DEF EndsAreHeld
  <2> QED
    BY <1>3, <2>2, <2>3 DEF Writes
<1>4. CASE init_child \/ ForkFails \/ Select \/ Skip \/ Loop
  BY <1>1, <1>4 DEF init_child, ForkFails, ForkNext, Select, Skip, Skips, Next_i, Loop, LoopsWith, history
<1>5. ASSUME NEW c \in Pipes, child(c) \/ HasLine(c) PROVE EndsAreHeld'
  <2>1. CASE CloseRead(c) \/ Work(c) \/ HasLine(c)
    BY <1>1, <2>1 DEF CloseRead, Work, HasLine, history
  <2> QED
    BY <1>3, <1>5, <2>1 DEF child, WriteLine
<1>6. ASSUME NEW p \in Processes, Kill(p) PROVE EndsAreHeld'
  BY <1>1, <1>6 DEF Kill, history
<1>7. CASE UNCHANGED vars
  BY <1>1, <1>7 DEF vars
<1> QED
  BY <1>2, <1>4, <1>5, <1>6, <1>7 DEF Next, main

-----------------------------------------------------------------------------
(* Of a buffer that was cleared before the lines were read into it, the    *)
(* lines are printed, and after them nothing or what is no line.           *)
Output == Nat \union {-1}

LEMMA Prints ==
  ASSUME NEW lines \in Seq(Nat), Len(lines) \in 1..ReadSize,
         \A k \in 1..Len(lines) : lines[k] # NUL,
         NEW text \in Printed(Filled(Cleared, lines))
  PROVE  /\ text \in Seq(Output) /\ Len(text) >= Len(lines)
         /\ \A k \in 1..Len(lines) : text[k] = lines[k]
         /\ \A k \in Len(lines) + 1..Len(text) : text[k] = Junk
<1> DEFINE cells == Filled(Cleared, lines)
           n == Len(lines)
           nuls == {k \in 1..ReadSize : cells[k] = NUL}
<1>0. n \in Nat /\ n >= 1 /\ n <= ReadSize /\ ReadSize \in Nat
      /\ \A k \in 1..n : lines[k] \in Nat /\ lines[k] # 0
  BY PipeAssumption, LenProperties, ElementOfSeq DEF NUL
<1>1. /\ cells \in [1..ReadSize -> Nat]
      /\ \A k \in 1..n : cells[k] = lines[k]
      /\ \A k \in 1..ReadSize : k > n => cells[k] = 0
  BY <1>0 DEF Filled, Cleared, NUL
<1>2. text \in IF nuls = {} THEN {cells, cells \o <<Junk>>}
               ELSE {SubSeq(cells, 1, (CHOOSE k \in nuls : \A l \in nuls : k <= l) - 1)}
  BY DEF Printed
<1> HIDE DEF cells, n
<1>3. nuls = n + 1..ReadSize
  BY <1>0, <1>1 DEF NUL
<1> HIDE DEF nuls
<1>4. cells \in Seq(Nat) /\ Len(cells) = ReadSize /\ cells \in Seq(Output)
  <2>1. cells \in Seq(Nat) /\ Len(cells) = ReadSize
    BY <1>0, <1>1
  <2> QED
    BY <2>1, SeqMonotonic DEF Output
<1>5. CASE nuls = {}
  <2>1. n = ReadSize
    BY <1>0, <1>3, <1>5
  <2>2. CASE text = cells
    BY <1>0, <1>1, <1>4, <2>1, <2>2 DEF n
  <2>3. CASE text = cells \o <<Junk>>
    <3>1. <<Junk>> \in Seq(Output) /\ Len(<<Junk>>) = 1 /\ <<Junk>>[1] = Junk
      BY DEF Output, Junk
    <3>2. /\ text \in Seq(Output) /\ Len(text) = n + 1
          /\ \A k \in 1..n + 1 : text[k] = IF k <= n THEN cells[k] ELSE <<Junk>>[k - n]
      BY <1>4, <2>1, <2>3, <3>1, ConcatProperties
    <3>3. \A k \in 1..n : text[k] = lines[k]
      BY <1>0, <1>1, <3>2
    <3>4. text[n + 1] = Junk
      BY <1>0, <3>1, <3>2
    <3> QED
      BY <1>0, <3>2, <3>3, <3>4 DEF n
  <2> QED
    BY <1>2, <1>5, <2>2, <2>3
<1>6. CASE nuls # {}
  <2> DEFINE least == CHOOSE k \in nuls : \A l \in nuls : k <= l
  <2>1. n + 1 \in nuls /\ \A l \in nuls : n + 1 <= l
    BY <1>0, <1>3, <1>6
  <2>2. least \in nuls /\ \A l \in nuls : least <= l
    BY <2>1
  <2>3. text = SubSeq(cells, 1, least - 1)
    BY <1>2, <1>6
  <2> HIDE DEF least
  <2>4. least = n + 1
    BY <1>0, <1>3, <2>1, <2>2
  <2>5. text = SubSeq(cells, 1, n)
    BY <1>0, <2>3, <2>4
  <2>6. \A k \in 1..n : cells[k] \in Output
    BY <1>0, <1>1 DEF Output
  <2>7. /\ text \in Seq(Output) /\ Len(text) = IF 1 <= n THEN n - 1 + 1 ELSE 0
        /\ \A k \in 1..n - 1 + 1 : text[k] = cells[1 + k - 1]
    BY <1>0, <2>5, <2>6, SubSeqProperties
  <2>8. Len(text) = n /\ \A k \in 1..n : text[k] = cells[k]
    BY <1>0, <2>7
  <2> QED
    BY <1>0, <1>1, <2>7, <2>8 DEF n
<1> QED
  BY <1>5, <1>6

(* What is shown, without the junk, is 1 .. m in this order.               *)
Shows(s, m) ==
  LET lines == {k \in DOMAIN s : s[k] # Junk} IN
  /\ \A k, l \in lines : k < l => s[k] < s[l]
  /\ {s[k] : k \in lines} = 1..m

(* What is printed next continues what is shown.                           *)
LEMMA Longer ==
  ASSUME NEW s \in Seq(Output), NEW text \in Seq(Output), NEW m \in Nat, NEW size \in Nat,
         Shows(s, m), Len(text) >= size,
         \A k \in 1..size : text[k] = m + k,
         \A k \in size + 1..Len(text) : text[k] = Junk
  PROVE  s \o text \in Seq(Output) /\ Shows(s \o text, m + size)
<1> DEFINE u == s \o text
           n == Len(s)
           t == Len(text)
           lines == {k \in DOMAIN s : s[k] # Junk}
           more == {k \in DOMAIN u : u[k] # Junk}
<1>1. /\ n \in Nat /\ DOMAIN s = 1..n /\ t \in Nat /\ t >= size
      /\ \A k \in 1..n : s[k] \in Output
  BY LenProperties, ElementOfSeq
<1>2. /\ u \in Seq(Output) /\ Len(u) = n + t
      /\ \A k \in 1..n + t : u[k] = IF k <= n THEN s[k] ELSE text[k - n]
  BY ConcatProperties
<1>3. DOMAIN u = 1..n + t
  BY <1>2, LenProperties
<1>4. /\ \A k, l \in lines : k < l => s[k] < s[l]
      /\ {s[k] : k \in lines} = 1..m
  BY DEF Shows
<1>5. /\ \A k \in 1..size : text[k] = m + k
      /\ \A k \in size + 1..t : text[k] = Junk
  OBVIOUS
<1> HIDE DEF u, n, t
<1>6. ASSUME NEW k \in 1..n
      PROVE  u[k] = s[k] /\ (k \in more <=> k \in lines) /\ (k \in lines => u[k] \in 1..m)
  <2>1. u[k] = s[k] /\ k \in DOMAIN u /\ k \in DOMAIN s
    BY <1>1, <1>2, <1>3, <1>6
  <2>2. k \in more <=> k \in lines
    BY <2>1
  <2>3. k \in lines => s[k] \in 1..m
    BY <1>4
  <2> QED
    BY <2>1, <2>2, <2>3
<1>7. ASSUME NEW k \in n + 1..n + t
      PROVE  /\ k \in more <=> k <= n + size
             /\ k \in more => u[k] = m + (k - n)
  <2>1. u[k] = text[k - n] /\ k \in DOMAIN u
    BY <1>1, <1>2, <1>3, <1>7
  <2>2. CASE k <= n + size
    <3>1. k - n \in 1..size
      BY <1>1, <1>7, <2>2
    <3>2. u[k] = m + (k - n)
      BY <1>5, <2>1, <3>1
    <3>3. u[k] # Junk
      BY <1>1, <3>1, <3>2 DEF Junk
    <3> QED
      BY <2>1, <2>2, <3>2, <3>3
  <2>3. CASE k > n + size
    <3>1. k - n \in size + 1..t
      BY <1>1, <1>7, <2>3
    <3>2. u[k] = Junk
      BY <1>5, <2>1, <3>1
    <3> QED
      BY <1>1, <1>7, <2>1, <2>3, <3>2
  <2> QED
    BY <1>1, <1>7, <2>2, <2>3
<1>8. more \subseteq 1..n + t /\ lines \subseteq 1..n
  BY <1>1, <1>3
<1> HIDE DEF more, lines
<1>9. ASSUME NEW k \in more, NEW l \in more, k < l PROVE u[k] < u[l]
  <2>1. k \in 1..n + t /\ l \in 1..n + t
    BY <1>8
  <2>2. CASE l <= n
    <3>1. k \in 1..n /\ l \in 1..n
      BY <1>1, <1>9, <2>1, <2>2
    <3> QED
      BY <1>4, <1>6, <1>9, <3>1
  <2>3. CASE k <= n /\ l > n
    <3>1. k \in 1..n /\ l \in n + 1..n + t
      BY <1>1, <1>9, <2>1, <2>3
    <3>2. u[k] \in 1..m /\ u[l] = m + (l - n)
      BY <1>6, <1>7, <3>1
    <3> QED
      BY <1>1, <3>1, <3>2
  <2>4. CASE k > n
    <3>1. k \in n + 1..n + t /\ l \in n + 1..n + t
      BY <1>1, <1>9, <2>1, <2>4
    <3>2. u[k] = m + (k - n) /\ u[l] = m + (l - n)
      BY <1>7, <3>1
    <3> QED
      BY <1>1, <1>9, <3>1, <3>2
  <2> QED
    BY <1>1, <2>1, <2>2, <2>3, <2>4
<1>10. ASSUME NEW k \in more PROVE u[k] \in 1..m + size
  <2>1. k \in 1..n + t
    BY <1>8
  <2>2. CASE k <= n
    <3>1. k \in 1..n
      BY <1>1, <2>1, <2>2
    <3>2. u[k] \in 1..m
      BY <1>6, <3>1
    <3> QED
      BY <3>2
  <2>3. CASE k > n
    <3>1. k \in n + 1..n + t
      BY <1>1, <2>1, <2>3
    <3>2. u[k] = m + (k - n) /\ k <= n + size
      BY <1>7, <3>1
    <3> QED
      BY <1>1, <3>1, <3>2
  <2> QED
    BY <1>1, <2>1, <2>2, <2>3
<1>11. ASSUME NEW x \in 1..m + size PROVE \E k \in more : u[k] = x
  <2>1. CASE x <= m
    <3>1. x \in 1..m
      BY <2>1
    <3>2. PICK k \in lines : s[k] = x
      BY <1>4, <3>1
    <3> QED
      BY <1>6, <1>8, <3>2
  <2>2. CASE x > m
    <3> DEFINE k == n + (x - m)
    <3>1. k \in n + 1..n + t /\ k <= n + size /\ m + (k - n) = x
      BY <1>1, <2>2
    <3> HIDE DEF k
    <3>2. k \in more /\ u[k] = x
      BY <1>7, <3>1
    <3> QED
      BY <3>2
  <2> QED
    BY <2>1, <2>2
<1>12. {u[k] : k \in more} = 1..m + size
  BY <1>10, <1>11
<1> QED
  BY <1>2, <1>9, <1>12 DEF Shows, more, u

(* Of what a child has written, the last lines are in its pipe and the     *)
(* others have been shown.                                                 *)
Carries(q, n) == Len(q) <= n /\ \A k \in 1..Len(q) : q[k] = n - Len(q) + k

Lines == \A c \in Pipes : /\ Carries(pipe[c], written[c])
                          /\ Shows(shown[c], written[c] - Len(pipe[c]))

(* The inductive invariant.                                                *)
IInv == EndsInv /\ Lines

(* A line that is written follows those that are in the pipe.              *)
LEMMA Carried ==
  ASSUME NEW q \in Seq(Nat), NEW n \in Nat, Carries(q, n)
  PROVE  /\ Append(q, n + 1) \in Seq(Nat) /\ Len(Append(q, n + 1)) = Len(q) + 1
         /\ Carries(Append(q, n + 1), n + 1)
<1>1. /\ Append(q, n + 1) \in Seq(Nat) /\ Len(Append(q, n + 1)) = Len(q) + 1
      /\ \A k \in 1..Len(q) : Append(q, n + 1)[k] = q[k]
      /\ Append(q, n + 1)[Len(q) + 1] = n + 1
      /\ Len(q) \in Nat
  BY AppendProperties, LenProperties
<1> DEFINE r == Append(q, n + 1)
           m == Len(q)
<1>2. m \in Nat /\ m <= n /\ Len(r) = m + 1 /\ r[m + 1] = n + 1
      /\ \A k \in 1..m : r[k] = n - m + k
  BY <1>1 DEF Carries
<1> HIDE DEF r, m
<1>3. m + 1 <= n + 1 /\ \A k \in 1..m + 1 : r[k] = n + 1 - (m + 1) + k
  BY <1>2
<1>4. Carries(r, n + 1)
  BY <1>2, <1>3 DEF Carries
<1> QED
  BY <1>1, <1>4 DEF r

(* A read takes the first lines.                                           *)
LEMMA Taken ==
  ASSUME NEW q \in Seq(Nat), NEW n \in Nat, Carries(q, n), NEW size \in Nat, size <= Len(q)
  PROVE  /\ SubSeq(q, 1, size) \in Seq(Nat) /\ Len(SubSeq(q, 1, size)) = size
         /\ \A k \in 1..size : SubSeq(q, 1, size)[k] = n - Len(q) + k
         /\ SubSeq(q, size + 1, Len(q)) \in Seq(Nat)
         /\ Len(SubSeq(q, size + 1, Len(q))) = Len(q) - size
         /\ Carries(SubSeq(q, size + 1, Len(q)), n)
<1> DEFINE m == Len(q)
           r == SubSeq(q, size + 1, Len(q))
<1>1. m \in Nat /\ m <= n /\ \A k \in 1..m : q[k] \in Nat /\ q[k] = n - m + k
  BY LenProperties, ElementOfSeq DEF Carries
<1>2. \A k \in 1..size : k \in 1..m
  BY <1>1
<1>3. /\ SubSeq(q, 1, size) \in Seq(Nat)
      /\ Len(SubSeq(q, 1, size)) = IF 1 <= size THEN size - 1 + 1 ELSE 0
      /\ \A k \in 1..size - 1 + 1 : SubSeq(q, 1, size)[k] = q[1 + k - 1]
  BY <1>1, <1>2, SubSeqProperties
<1>4. /\ Len(SubSeq(q, 1, size)) = size
      /\ \A k \in 1..size : SubSeq(q, 1, size)[k] = n - m + k
  BY <1>1, <1>2, <1>3
<1>5. \A k \in size + 1..m : q[k] \in Nat
  BY <1>1
<1>6. /\ r \in Seq(Nat) /\ Len(r) = IF size + 1 <= m THEN m - (size + 1) + 1 ELSE 0
      /\ \A k \in 1..m - (size + 1) + 1 : r[k] = q[size + 1 + k - 1]
  BY <1>1, <1>5, SubSeqProperties
<1> HIDE DEF r
<1>7. Len(r) = m - size
  BY <1>1, <1>6
<1>8. ASSUME NEW k \in 1..m - size PROVE r[k] = n - (m - size) + k
  <2>1. size + 1 + k - 1 \in 1..m /\ k \in 1..m - (size + 1) + 1
    BY <1>1
  <2>2. r[k] = q[size + 1 + k - 1]
    BY <1>6, <2>1
  <2>3. q[size + 1 + k - 1] = n - m + (size + 1 + k - 1)
    BY <1>1, <2>1
  <2> QED
    BY <1>1, <2>2, <2>3
<1>9. Carries(r, n)
  BY <1>1, <1>7, <1>8 DEF Carries
<1> QED
  BY <1>3, <1>4, <1>6, <1>7, <1>9 DEF r

-----------------------------------------------------------------------------
(* Show prints the lines it takes from the pipe, and keeps the types.      *)
LEMMA ShowStep == ASSUME TypeOK, Places, Lines, Show PROVE TypeOK' /\ Lines'
<1> DEFINE size == IF Len(pipe[i]) < ReadSize THEN Len(pipe[i]) ELSE ReadSize
           lines == SubSeq(pipe[i], 1, size)
           q == pipe[i]
           n == written[i]
<1>1. /\ i \in prev_set /\ i \in Pipes /\ i \in 1..4 /\ i' = i + 1
      /\ q \in Seq(Nat) /\ Len(q) \in Nat /\ n \in Nat
      /\ shown[i] \in Seq(Output) /\ Carries(q, n) /\ Shows(shown[i], n - Len(q))
      /\ ReadSize \in Nat /\ ReadSize >= 1
  <2>1. i \in prev_set /\ i' = i + 1
    BY DEF Show, ShowsOver, Next_i
  <2>2. i \in Pipes /\ i \in 1..4
    BY <2>1, Numbers DEF TypeOK
  <2>3. q \in Seq(Nat) /\ n \in Nat /\ shown[i] \in Seq(Output)
    BY <2>2 DEF TypeOK, Output
  <2>4. Len(q) \in Nat
    BY <2>3, LenProperties
  <2>5. Carries(q, n) /\ Shows(shown[i], n - Len(q))
    BY <2>2 DEF Lines
  <2>6. ReadSize \in Nat /\ ReadSize >= 1
    BY PipeAssumption
  <2> QED
    BY <2>1, <2>2, <2>3, <2>4, <2>5, <2>6
<1>2. /\ size \in Nat /\ size <= Len(q) /\ size <= ReadSize
  BY <1>1
<1>3. /\ lines \in Seq(Nat) /\ Len(lines) = size
      /\ \A k \in 1..size : lines[k] = n - Len(q) + k
      /\ SubSeq(q, size + 1, Len(q)) \in Seq(Nat)
      /\ Len(SubSeq(q, size + 1, Len(q))) = Len(q) - size
      /\ Carries(SubSeq(q, size + 1, Len(q)), n)
  BY <1>1, <1>2, Taken
<1>4. /\ pipe' = [pipe EXCEPT ![i] = SubSeq(q, size + 1, Len(q))]
      /\ buffer' = Filled(Cleared, lines)
      /\ IF size > 0 THEN \E text \in Printed(buffer') : shown' = [shown EXCEPT ![i] = shown[i] \o text]
                     ELSE shown' = shown
      /\ ended' \in {ended, ended \union {i}}
      /\ UNCHANGED <<at, ends, fork, prev_set, mishaps, written, broken>>
  BY DEF Show, ShowsOver, Next_i
<1> HIDE DEF size, lines
<1> DEFINE left == SubSeq(q, size + 1, Len(q))
<1> HIDE DEF left
<1>5. /\ pipe' \in [Pipes -> Seq(Nat)] /\ pipe'[i] = left
      /\ \A c \in Pipes : c # i => pipe'[c] = pipe[c]
  <2>1. pipe \in [Pipes -> Seq(Nat)]
    BY DEF TypeOK
  <2>2. left \in Seq(Nat) /\ pipe' = [pipe EXCEPT ![i] = left]
    BY <1>3, <1>4 DEF left
  <2> QED
    BY <1>1, <2>1, <2>2
<1>6. buffer' \in [1..ReadSize -> Nat \union {-1}]
  <2>1. \A k \in 1..Len(lines) : lines[k] \in Nat
    BY <1>3, ElementOfSeq
  <2>2. \A k \in 1..ReadSize : k <= Len(lines) => k \in 1..Len(lines)
    BY <1>2, <1>3
  <2> QED
    BY <1>4, <2>1, <2>2 DEF Filled, Cleared, NUL
<1>7. /\ shown' \in [Pipes -> Seq(Output)]
      /\ \A c \in Pipes : c # i => shown'[c] = shown[c]
      /\ Shows(shown'[i], n - Len(q) + size)
  <2>0. shown \in [Pipes -> Seq(Output)]
    BY DEF TypeOK, Output
  <2>1. CASE size = 0
    <3>1. shown' = shown /\ n - Len(q) + size = n - Len(q)
      BY <1>1, <1>4, <2>1
    <3> QED
      BY <1>1, <2>0, <3>1
  <2>2. CASE size > 0
    <3>1. PICK text \in Printed(Filled(Cleared, lines)) : shown' = [shown EXCEPT ![i] = shown[i] \o text]
      BY <1>4, <2>2
    <3> DEFINE m == n - Len(q)
    <3>2. m \in Nat
      BY <1>1 DEF Carries
    <3>3. Shows(shown[i], m) /\ \A k \in 1..size : lines[k] = m + k
      BY <1>1, <1>3
    <3> HIDE DEF m
    <3>4. Len(lines) \in 1..ReadSize
      BY <1>2, <1>3, <2>2
    <3>5. \A k \in 1..Len(lines) : lines[k] # NUL
      BY <1>2, <1>3, <3>2, <3>3 DEF NUL
    <3>6. /\ text \in Seq(Output) /\ Len(text) >= Len(lines)
          /\ \A k \in 1..Len(lines) : text[k] = lines[k]
          /\ \A k \in Len(lines) + 1..Len(text) : text[k] = Junk
      BY <1>3, <3>1, <3>4, <3>5, Prints
    <3>7. /\ Len(text) >= size
          /\ \A k \in 1..size : text[k] = m + k
          /\ \A k \in size + 1..Len(text) : text[k] = Junk
      BY <1>3, <3>3, <3>6
    <3>8. shown[i] \o text \in Seq(Output) /\ Shows(shown[i] \o text, m + size)
      BY <1>1, <1>2, <3>2, <3>3, <3>6, <3>7, Longer
    <3> QED
      BY <1>1, <2>0, <3>1, <3>8 DEF m
  <2> QED
    BY <1>2, <2>1, <2>2
<1>8. i' \in 1..n_children + 1
  BY <1>1, Numbers
<1>9. ended' \subseteq Pipes
  BY <1>1, <1>4 DEF TypeOK
<1>10. TypeOK'
  BY <1>4, <1>5, <1>6, <1>7, <1>8, <1>9 DEF TypeOK, Output
<1>11. Carries(left, n) /\ n - Len(left) = n - Len(q) + size
  BY <1>1, <1>2, <1>3 DEF left
<1>12. Lines'
  BY <1>4, <1>5, <1>7, <1>11 DEF Lines
<1> QED
  BY <1>10, <1>12

(* A write appends the next line.                                          *)
LEMMA WriteStep ==
  ASSUME TypeOK, Lines, NEW c \in Pipes, NEW from \in {"write", "lastwrite"},
         Writes(c, from, ends[c])
  PROVE  TypeOK' /\ Lines'
<1>0. /\ pipe \in [Pipes -> Seq(Nat)] /\ written \in [Pipes -> Nat] /\ c \in Processes
      /\ PipeSize \in Nat
  BY Numbers, PipeAssumption DEF TypeOK
<1>1. /\ UNCHANGED <<fork, prev_set, i, buffer, mishaps, shown, ended>>
      /\ broken' \in {broken, broken \union {c}}
      /\ at' \in {[at EXCEPT ![c] = "ready"], [at EXCEPT ![c] = "gone"]}
  BY DEF Writes, Exits, Goes, parent
<1>2. ends' \in [Processes -> SUBSET (Pipes \X {"read", "write"})]
  BY <1>0 DEF Writes, Exits, TypeOK
<1>3. /\ pipe' \in [Pipes -> Seq(Nat)]
      /\ written' \in [Pipes -> Nat] /\ Lines'
  <2>1. CASE UNCHANGED <<pipe, written>>
    BY <1>1, <2>1 DEF TypeOK, Lines
  <2>2. CASE /\ Len(pipe[c]) < PipeSize
             /\ pipe' = [pipe EXCEPT ![c] = Append(pipe[c], written[c] + 1)]
             /\ written' = [written EXCEPT ![c] = written[c] + 1]
    <3> DEFINE q == pipe[c]
               n == written[c]
               r == Append(q, n + 1)
    <3>1. q \in Seq(Nat) /\ n \in Nat /\ Len(q) \in Nat /\ Carries(q, n)
          /\ Shows(shown[c], n - Len(q)) /\ Len(q) < PipeSize
      BY <1>0, <2>2, LenProperties DEF Lines
    <3>2. r \in Seq(Nat) /\ Len(r) = Len(q) + 1 /\ Carries(r, n + 1)
      BY <3>1, Carried
    <3>3. pipe'[c] = r /\ written'[c] = n + 1
          /\ \A d \in Pipes : d # c => pipe'[d] = pipe[d] /\ written'[d] = written[d]
      BY <1>0, <2>2
    <3> HIDE DEF q, n, r
    <3>4. (n + 1) - Len(r) = n - Len(q)
      BY <1>0, <3>1, <3>2
    <3>5. /\ pipe' \in [Pipes -> Seq(Nat)] /\ written' \in [Pipes -> Nat]
      BY <1>0, <2>2, <3>1, <3>2 DEF q, n, r
    <3>6. ASSUME NEW d \in Pipes
          PROVE  Carries(pipe'[d], written'[d]) /\ Shows(shown'[d], written'[d] - Len(pipe'[d]))
      <4>1. CASE d = c
        <5>1. pipe'[d] = r /\ written'[d] = n + 1 /\ shown'[d] = shown[c]
          BY <1>1, <3>3, <4>1
        <5>2. Shows(shown[c], (n + 1) - Len(r))
          BY <3>1, <3>4
        <5>3. Carries(r, n + 1)
          BY <3>2
        <5>4. Carries(pipe'[d], written'[d])
          BY <5>1, <5>3
        <5>5. Shows(shown'[d], written'[d] - Len(pipe'[d]))
          <6>1. shown'[d] = shown[c] /\ written'[d] - Len(pipe'[d]) = (n + 1) - Len(r)
            BY <5>1, Zenon
          <6> QED
            BY <5>2, <6>1, Zenon
        <5> QED
          BY <5>4, <5>5
      <4>2. CASE d # c
        BY <1>1, <3>3, <4>2 DEF Lines
      <4> QED
        BY <4>1, <4>2
    <3> QED
      BY <3>5, <3>6 DEF Lines
  <2> QED
    BY <2>1, <2>2 DEF Writes, Room
<1>4. at' \in [Processes -> Points]
  BY <1>0, <1>1 DEF TypeOK, Points
<1> QED
  BY <1>0, <1>1, <1>2, <1>3, <1>4 DEF TypeOK, Points

(* Of the other steps none touches what is in the pipes or shown.          *)
LEMMA DataStep == ASSUME TypeOK, Places, Lines, [Next]_vars PROVE TypeOK' /\ Lines'
<1>0. /\ Parent \in Processes /\ \A c \in Pipes : c \in Processes
      /\ fork \in 0..4 /\ i \in 1..5 /\ mishaps \in Nat /\ mishaps <= MaxMishaps /\ MaxMishaps \in Nat
  BY Numbers, PipeAssumption DEF TypeOK
<1>1. ASSUME UNCHANGED <<pipe, written, shown>> PROVE Lines'
  BY <1>1 DEF Lines
<1>2. CASE init_child \/ ForkFails
  <2>1. fork \in 1..4 /\ fork - 1 \in 0..4 /\ fork \in Pipes
    BY <1>0, <1>2, Numbers DEF init_child, ForkFails, ForkNext, Places
  <2>2. mishaps' \in 0..MaxMishaps
    BY <1>0, <1>2 DEF init_child, ForkFails
  <2>3. at' \in [Processes -> Points]
    BY <1>0, <1>2, <2>1 DEF init_child, ForkFails, ForkNext, TypeOK, Points
  <2>4. ends' \in [Processes -> SUBSET (Pipes \X {"read", "write"})]
    BY <1>0, <1>2, <2>1 DEF init_child, ForkFails, ForkNext, TypeOK
  <2>5. UNCHANGED <<pipe, prev_set, i, buffer, written, shown, ended, broken>> /\ fork' = fork - 1
    BY <1>2 DEF init_child, ForkFails, ForkNext, history
  <2> QED
    BY <1>1, <2>1, <2>2, <2>3, <2>4, <2>5, Numbers DEF TypeOK, Points
<1>3. CASE Select
  <2>1. /\ at' \in [Processes -> Points] /\ prev_set' \subseteq Pipes /\ i' \in 1..n_children + 1
        /\ UNCHANGED <<ends, pipe, fork, buffer, mishaps, written, shown, ended, broken>>
    <3>1. at' = [at EXCEPT ![Parent] = "scan"] /\ prev_set' = {c \in prev_set : Ready(c)} /\ i' = 1
      BY <1>3 DEF Select, Goes
    <3>2. at' \in [Processes -> Points]
      BY <1>0, <3>1 DEF TypeOK, Points
    <3>3. prev_set' \subseteq Pipes
      BY <3>1 DEF TypeOK
    <3>4. i' \in 1..n_children + 1
      BY <3>1, Numbers
    <3> QED
      BY <1>3, <3>2, <3>3, <3>4 DEF Select, history
  <2> QED
    BY <1>1, <2>1 DEF TypeOK, Points
<1>4. CASE Show
  BY <1>4, ShowStep
<1>5. CASE Skip
  <2>1. /\ i \in Pipes /\ i' = i + 1
        /\ UNCHANGED <<at, ends, pipe, fork, prev_set, buffer, mishaps, written, shown, ended, broken>>
    BY <1>5 DEF Skip, Skips, Next_i
  <2>2. i' \in 1..n_children + 1
    BY <2>1, Numbers
  <2> QED
    BY <1>1, <2>1, <2>2 DEF TypeOK
<1>6. CASE Loop
  BY <1>0, <1>1, <1>6 DEF Loop, LoopsWith, Goes, history, TypeOK
<1>7. ASSUME NEW c \in Pipes, CloseRead(c) \/ Work(c) \/ HasLine(c) PROVE TypeOK' /\ Lines'
  <2>1. c \in Processes
    BY <1>0
  <2>2. UNCHANGED <<pipe, fork, prev_set, i, buffer, mishaps, written, shown, ended, broken>>
    BY <1>7 DEF CloseRead, Work, HasLine, parent, history
  <2>3. at' \in [Processes -> Points]
    BY <1>7, <2>1 DEF CloseRead, Work, HasLine, Exits, Goes, TypeOK, Points
  <2>4. ends' \in [Processes -> SUBSET (Pipes \X {"read", "write"})]
    BY <1>7, <2>1 DEF CloseRead, Work, HasLine, Exits, TypeOK
  <2> QED
    BY <1>1, <2>2, <2>3, <2>4 DEF TypeOK, Points
<1>8. ASSUME NEW p \in Processes, Kill(p) PROVE TypeOK' /\ Lines'
  <2>1. mishaps' \in 0..MaxMishaps
    BY <1>0, <1>8 DEF Kill
  <2>2. UNCHANGED <<pipe, fork, prev_set, i, buffer, written, shown, ended, broken>>
    BY <1>8 DEF Kill, parent, history
  <2>3. /\ at' \in [Processes -> Points]
        /\ ends' \in [Processes -> SUBSET (Pipes \X {"read", "write"})]
    BY <1>8 DEF Kill, Exits, Goes, TypeOK, Points
  <2> QED
    BY <1>1, <2>1, <2>2, <2>3 DEF TypeOK, Points
<1>9. CASE UNCHANGED vars
  BY <1>1, <1>9 DEF vars, TypeOK
<1> QED
  BY <1>2, <1>3, <1>4, <1>5, <1>6, <1>7, <1>8, <1>9, WriteStep DEF Next, main, child, WriteLine

-----------------------------------------------------------------------------
(* In the beginning there is only the parent, and it holds all ends.       *)
LEMMA Initially == Init => IInv
<1> SUFFICES ASSUME Init PROVE IInv
  OBVIOUS
<1>1. /\ at \in [0..4 -> Points] /\ at[0] = "fork" /\ \A c \in 1..4 : at[c] = "none"
      /\ fork = 4 /\ prev_set = Pipes /\ i = 1 /\ ended = {} /\ broken = {}
      /\ mishaps \in 0..MaxMishaps
  BY Numbers, PipeAssumption DEF Init, Points
<1>2. /\ ends \in [Processes -> SUBSET (Pipes \X {"read", "write"})]
      /\ \A d \in Pipes : Write(d) \in ends[Parent] /\ Read(d) \in ends[Parent]
  BY Numbers, Ends DEF Init
<1>3. /\ \A c \in Pipes : pipe[c] = <<>> /\ shown[c] = <<>> /\ written[c] = 0
      /\ pipe \in [Pipes -> Seq(Nat)] /\ shown \in [Pipes -> Seq(Output)] /\ written \in [Pipes -> Nat]
  BY EmptySeq DEF Init
<1>4. Len(<<>>) = 0 /\ DOMAIN <<>> = {}
  OBVIOUS
<1>5. buffer \in [1..ReadSize -> Nat \union {-1}]
  BY DEF Init, Junk
<1>6. TypeOK
  BY <1>1, <1>2, <1>3, <1>5, Numbers DEF TypeOK, Points, Output
<1>7. Places
  BY <1>1, Numbers DEF Places
<1>8. Held
  BY <1>1, <1>2, Numbers DEF Held, Lives
<1>9. Selected /\ EndsAreHeld
  BY <1>1, Numbers DEF Selected, EndsAreHeld
<1>10. Shows(<<>>, 0)
  BY <1>4 DEF Shows
<1>11. Carries(<<>>, 0)
  BY <1>4 DEF Carries
<1>12. Lines
  BY <1>3, <1>4, <1>10, <1>11 DEF Lines
<1> QED
  BY <1>6, <1>7, <1>8, <1>9, <1>12 DEF IInv, EndsInv

(* Every step keeps IInv.                                                  *)
LEMMA IStep == IInv /\ [Next]_vars => IInv'
BY HeldStep, SelectedStep, EndsStep, DataStep DEF IInv, EndsInv

(* IInv: where the processes are, what they hold, and what is in the pipes.*)
THEOREM IndInv == Spec => []IInv
BY Initially, IStep, PTL DEF Spec

(* The parent's loop does not go past child_fds, no read past the buffer,  *)
(* whatever the children do and whoever is killed.                         *)
THEOREM TypeCorrect == Spec => []TypeOK
<1>1. IInv => TypeOK
  BY DEF IInv, EndsInv
<1> QED
  BY <1>1, IndInv, PTL

(* The parent sees the end of a pipe when its child and all that were      *)
(* forked before it are gone, and no child is killed by a write while      *)
(* anybody else lives: init_child and child_one close too little.          *)
THEOREM EndsHeld == Spec => []EndsAreHeld
<1>1. IInv => EndsAreHeld
  BY DEF IInv, EndsInv
<1> QED
  BY <1>1, IndInv, PTL

(* The parent shows each line once and in order, whatever the sizes of     *)
(* pipes and buffer and whoever is killed: of memset, read and cout.       *)
THEOREM ShowsWritten == Spec => []ShownIsWritten
<1>1. IInv => ShownIsWritten
  BY DEF IInv, Lines, Shows, Carries, ShownIsWritten
<1> QED
  BY <1>1, IndInv, PTL
=============================================================================
