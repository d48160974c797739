---------------------------- MODULE PipeChildren -----------------------------
(***************************************************************************)
(* A2/Q2/source.cpp: a parent forks four children, the fourth first, and   *)
(* shows what they write to their pipes.  The first encrypts what is typed *)
(* and the fourth reports the load of the processor; the second speaks and *)
(* the third copies a file, and neither writes to its pipe.                *)
(*                                                                         *)
(* fork copies every descriptor the parent holds at that moment, and what  *)
(* a child does not close it keeps: the ends of the others' pipes.  A pipe *)
(* ends when nobody holds its write end; a write without a reader kills.   *)
(*                                                                         *)
(* A line is one unit, named by its number among the lines of its child;   *)
(* encrypt depends on the line alone, so the number stands for the result. *)
(***************************************************************************)
EXTENDS Integers, Sequences, FiniteSets, SequencesExt

CONSTANTS PipeSize,   \* lines a pipe holds
          ReadSize,   \* lines that fill the parent's buffer
          MaxLines, MaxReports,  \* bounds: lines that children one and four write
          MaxMishaps  \* bound: processes that are killed, forks that fail

ASSUME PipeAssumption == /\ {PipeSize, ReadSize} \subseteq Nat \ {0}
                         /\ {MaxLines, MaxReports, MaxMishaps} \subseteq Nat

n_children == 4
Pipes == 1..n_children
Parent == 0
Processes == {Parent} \union Pipes

VARIABLES at,        \* where each process is
          ends,      \* child_fds: the ends of pipes that each process holds
          pipe,      \* what is in each pipe
          fork,      \* the parent: the child it forks next
          prev_set,  \* the parent: the set that select narrows
          i, buffer, \* the parent: its loop over the pipes, its buffer
          mishaps,   \* what is left of the bound
          written, shown, \* history: lines written by each child, what the parent printed
          ended, broken   \* history: pipes whose end was read, children killed by a write

vars == <<at, ends, pipe, fork, prev_set, i, buffer, mishaps, written, shown, ended, broken>>
history == <<written, shown, ended, broken>>
parent == <<fork, prev_set, i, buffer>>

Read(c) == <<c, "read">>
Write(c) == <<c, "write">>
Holders(end) == {p \in Processes : end \in ends[p]}

(* What a byte is that nothing was written to; what follows the buffer.    *)
NUL == 0
Junk == -1

Init == /\ at = [p \in Processes |-> IF p = Parent THEN "fork" ELSE "none"]
        /\ ends = [p \in Processes |-> IF p = Parent THEN {Read(c) : c \in Pipes} \union {Write(c) : c \in Pipes}
                                                     ELSE {}]
        /\ pipe = [c \in Pipes |-> <<>>]
        /\ fork = n_children
        /\ prev_set = Pipes
        /\ i = 1
        /\ buffer = [k \in 1..ReadSize |-> Junk]
        /\ mishaps = MaxMishaps
        /\ written = [c \in Pipes |-> 0] /\ shown = [c \in Pipes |-> <<>>]
        /\ ended = {} /\ broken = {}

Goes(p, from, to) == at[p] = from /\ at' = [at EXCEPT ![p] = to]

-----------------------------------------------------------------------------
(* init_child: the child gets what the parent holds, the parent closes the *)
(* write end of this child's pipe - also when fork fails.                  *)
ForkNext(child, inherited) ==
  /\ at' = [at EXCEPT ![fork] = child, ![Parent] = IF fork = 1 THEN "select" ELSE "fork"]
  /\ at[Parent] = "fork"
  /\ ends' = [ends EXCEPT ![fork] = inherited, ![Parent] = @ \ {Write(fork)}]
  /\ fork' = fork - 1
  /\ UNCHANGED <<pipe, prev_set, i, buffer, history>>

init_child == ForkNext("start", ends[Parent]) /\ UNCHANGED mishaps

ForkFails == /\ mishaps > 0 /\ mishaps' = mishaps - 1
             /\ ForkNext("gone", {})

(* The end of a process, by itself or by a signal: its ends are closed.    *)
Exits(p, from) == /\ Goes(p, from, "gone")
                  /\ ends' = [ends EXCEPT ![p] = {}]

Kill(p) == /\ mishaps > 0 /\ mishaps' = mishaps - 1
           /\ at[p] \notin {"none", "gone"}
           /\ Exits(p, at[p])
           /\ UNCHANGED <<pipe, parent, history>>

-----------------------------------------------------------------------------
(* child_one and child_four first close the end that they do not use.      *)
CloseRead(c) == /\ c \in {1, 4} /\ Goes(c, "start", "ready")
                /\ ends' = [ends EXCEPT ![c] = @ \ {Read(c)}]
                /\ UNCHANGED <<pipe, parent, mishaps, history>>

(* child_two and child_three do their work and exit; its files have no     *)
(* part in this.                                                           *)
Work(c) == /\ c \in {2, 3} /\ Exits(c, "start")
           /\ UNCHANGED <<pipe, parent, mishaps, history>>

(* getline returns; two seconds have passed.  At the end of the input      *)
(* child_one writes one more line, an empty one, and leaves; child_four    *)
(* has no child to wait for and never does.                                *)
Bound(c) == IF c = 1 THEN MaxLines ELSE MaxReports

HasLine(c) == /\ c \in {1, 4} /\ written[c] < Bound(c)
              /\ \/ Goes(c, "ready", "write")
                 \/ c = 1 /\ Goes(c, "ready", "lastwrite")
              /\ UNCHANGED <<ends, pipe, parent, mishaps, history>>

Room(c) == Len(pipe[c]) < PipeSize

(* write: waits while the pipe is full; kills who has no reader; and does  *)
(* nothing for who has closed the end.  The child then holds kept.         *)
Writes(c, from, kept) ==
  /\ \/ /\ Holders(Read(c)) # {} /\ Write(c) \in ends[c] /\ Room(c)
        /\ pipe' = [pipe EXCEPT ![c] = Append(@, written[c] + 1)]
        /\ written' = [written EXCEPT ![c] = @ + 1]
        /\ IF from = "write" THEN Goes(c, from, "ready") /\ ends' = [ends EXCEPT ![c] = kept]
                             ELSE Exits(c, from)
        /\ UNCHANGED broken
     \/ /\ Holders(Read(c)) = {} /\ Write(c) \in ends[c]
        /\ Exits(c, from)
        /\ broken' = broken \union {c}
        /\ UNCHANGED <<pipe, written>>
     \/ /\ Write(c) \notin ends[c]
        /\ Goes(c, from, IF from = "write" THEN "ready" ELSE "gone")
        /\ UNCHANGED <<ends, pipe, written, broken>>
  /\ UNCHANGED <<parent, mishaps, shown, ended>>

(* As WriteLine, with the close that the code has commented out.           *)
WriteLineCloses(c) == \E from \in {"write", "lastwrite"} : Writes(c, from, ends[c] \ {Write(c)})

WriteLine(c) == \E from \in {"write", "lastwrite"} : Writes(c, from, ends[c])

child(c) == CloseRead(c) \/ Work(c) \/ WriteLine(c)

-----------------------------------------------------------------------------
(* The parent's loop.  select waits until a pipe of the set has something  *)
(* to read or has ended, and leaves those in the set.                      *)
Ready(c) == pipe[c] # <<>> \/ Holders(Write(c)) = {}

Select == LET ready == {c \in prev_set : Ready(c)} IN
          /\ ready # {}
          /\ Goes(Parent, "select", "scan")
          /\ prev_set' = ready
          /\ i' = 1
          /\ UNCHANGED <<ends, pipe, fork, buffer, mishaps, history>>

(* memset, and read into the buffer.                                       *)
Cleared == [k \in 1..ReadSize |-> NUL]
Filled(old, lines) == [k \in 1..ReadSize |-> IF k <= Len(lines) THEN lines[k] ELSE old[k]]

(* cout prints up to the first NUL; a full buffer has none, and what       *)
(* follows it is printed too, if that is not NUL.                          *)
Printed(cells) == LET nuls == {k \in 1..ReadSize : cells[k] = NUL} IN
                  IF nuls = {} THEN {cells, cells \o <<Junk>>}
                  ELSE {SubSeq(cells, 1, (CHOOSE k \in nuls : \A l \in nuls : k <= l) - 1)}

Next_i == i' = i + 1 /\ UNCHANGED <<at, ends, fork, prev_set, mishaps, written, broken>>

ShowsOver(old) ==
  LET size == IF Len(pipe[i]) < ReadSize THEN Len(pipe[i]) ELSE ReadSize IN
  /\ at[Parent] = "scan" /\ i \in prev_set
  /\ buffer' = Filled(old, SubSeq(pipe[i], 1, size))
  /\ pipe' = [pipe EXCEPT ![i] = SubSeq(@, size + 1, Len(@))]
  /\ IF size > 0 THEN \E text \in Printed(buffer') : shown' = [shown EXCEPT ![i] = @ \o text]
                 ELSE UNCHANGED shown
  /\ ended' = IF size = 0 THEN ended \union {i} ELSE ended
  /\ Next_i

(* As Show, the memset left out.                                           *)
ShowOverOld == ShowsOver(buffer)

Show == ShowsOver(Cleared)

Skips(indices) == /\ at[Parent] = "scan" /\ i \in indices \ prev_set
                  /\ Next_i
                  /\ UNCHANGED <<pipe, buffer, shown, ended>>

(* As Skip, the loop one pipe too long.                                    *)
SkipPastEnd == Skips(1..n_children + 1)

Skip == Skips(Pipes)

LoopsWith(set) == /\ i > n_children
                  /\ Goes(Parent, "scan", "select")
                  /\ prev_set' = set
                  /\ UNCHANGED <<ends, pipe, fork, i, buffer, mishaps, history>>

(* As Loop, the set left as select narrowed it.                            *)
LoopNarrowed == LoopsWith(prev_set)

(* prev_set = fdset; sleep.  select never fails, so that the loop has no   *)
(* end and the wait after it is not reached.                               *)
Loop == LoopsWith(Pipes)

main == init_child \/ Select \/ Show \/ Skip \/ Loop

Next == \/ main \/ ForkFails
        \/ \E c \in Pipes : child(c) \/ HasLine(c)
        \/ \E p \in Processes : Kill(p)

Spec == Init /\ [][Next]_vars

(* Processes run; nobody need type, and the bound may stop child four.     *)
FairSpec == Spec /\ WF_vars(main) /\ \A c \in Pipes : WF_vars(child(c))

-----------------------------------------------------------------------------
(* The variables keep their types: the parent's loop does not go past      *)
(* child_fds, and no read goes past the buffer.                            *)
TypeOK ==
  /\ at \in [Processes -> {"none", "fork", "start", "ready", "write", "lastwrite",
                           "select", "scan", "gone"}]
  /\ ends \in [Processes -> SUBSET (Pipes \X {"read", "write"})]
  /\ pipe \in [Pipes -> Seq(Nat)]
  /\ fork \in 0..n_children /\ prev_set \subseteq Pipes /\ i \in 1..n_children + 1
  /\ buffer \in [1..ReadSize -> Nat \union {-1}]
  /\ mishaps \in 0..MaxMishaps
  /\ written \in [Pipes -> Nat] /\ shown \in [Pipes -> Seq(Nat \union {-1})]
  /\ ended \subseteq Pipes /\ broken \subseteq Pipes

(* The parent reads the end of a pipe only when its child is gone and so   *)
(* are all that were forked before it, which hold its write end too.  And  *)
(* no child is killed by a write while anybody else lives: children one    *)
(* and four hold each other's read end, also after the parent is gone.     *)
EndsAreHeld ==
  /\ \A c \in ended : \A d \in c..n_children : at[d] = "gone"
  /\ \A c \in broken : \A p \in Processes \ {c} : at[p] \in {"none", "gone"}

(* What the parent has shown of a child and what is still in the pipe are  *)
(* the lines the child has written, each once and in order, however the    *)
(* reads divide them - but for what a full buffer lets be printed after it.*)
ShownIsWritten == \A c \in Pipes :
  LET lines == {k \in DOMAIN shown[c] : shown[c][k] # Junk}
      taken == written[c] - Len(pipe[c])
  IN  /\ \A k, l \in lines : k < l => shown[c][k] < shown[c][l]
      /\ {shown[c][k] : k \in lines} = 1..taken
      /\ \A k \in 1..Len(pipe[c]) : pipe[c][k] = taken + k

(* As long as the parent lives, each line is eventually shown, whatever    *)
(* the other children do and although pipes that have ended stay in the    *)
(* set and are always ready.                                               *)
EachLineShown == \A c \in {1, 4} : \A k \in 1..Bound(c) :
  written[c] >= k ~> (k \in Range(shown[c]) \/ at[Parent] = "gone")
=============================================================================
