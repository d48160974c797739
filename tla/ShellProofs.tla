------------------------------ MODULE ShellProofs ------------------------------
(***************************************************************************)
(* Of Shell, for all batch files, command lines, limits and lives: the     *)
(* history file lacks no line that was executed, but those that could not  *)
(* be written to it, and the shell crashes of nothing but files that run   *)
(* themselves and commands that lack an argument.                          *)
(***************************************************************************)
EXTENDS Shell, FiniteSetTheorems, SequenceTheorems, TLAPS

(* Where the shell can be.                                                 *)
Points == Ended \union {"next", "record", "execute", "paused", "waiting"}

-----------------------------------------------------------------------------
(* Lines that are in the history, or should be.                            *)
Noted == Range(history) \union lost

(* Of these, those that were not executed, nor are about to be: each life  *)
(* but the present one leaves one at most.                                 *)
Pending == (Noted \ executed) \ (IF at = "execute" THEN {number} ELSE {})

(* The numbers of the lines in the file only grow, up to the line read     *)
(* last, which is not noted before updateHistory and is when it is         *)
(* executed.                                                               *)
HistoryInv ==
  /\ at \in Points /\ history \in Seq(Nat) /\ number \in Nat /\ lives \in Nat
  /\ \A k \in 1 .. Len(history) : history[k] <= number
  /\ \A k \in 1 .. Len(history) - 1 : history[k] < history[k + 1]
  /\ \A n \in lost : n \in Nat /\ n <= number
  /\ at = "record" => /\ \A k \in 1 .. Len(history) : history[k] < number
                      /\ number \notin lost
  /\ at = "execute" => number \in Noted \ executed
  /\ executed \subseteq Noted /\ IsFiniteSet(Noted)
  /\ Cardinality(Pending) <= IF at \in Ended THEN lives ELSE lives - 1

(* Of what a step does to the shell, what matters here.                    *)
Rests(to) == /\ at \in {"next", "paused", "waiting"} /\ at' \in to
             /\ UNCHANGED <<history, number, lives, executed, lost>>

(* A step that reads the next line, as far as the history goes.            *)
ReadsNext == /\ at = "next" /\ at' \in {"next", "record"}
             /\ number' = number + 1
             /\ UNCHANGED <<history, lives, executed, lost>>

(* A step that executes the line.                                          *)
Runs == /\ at = "execute" /\ at' \in Points \ {"record", "execute"}
        /\ executed' = executed \union {number}
        /\ UNCHANGED <<history, number, lives, lost>>

(* A step that has no part in it.                                          *)
Same == UNCHANGED <<at, history, number, lives, executed, lost>>

(* Every step is one of these, or starts, kills or writes the history.     *)
LEMMA Kinds ==
  ASSUME [Next]_vars
  PROVE  Start \/ Kill \/ updateHistory \/ Rests({"next", "exited"}) \/ ReadsNext \/ Runs \/ Same
<1> USE DEF bounds, recorded, Goes
<1>1. CASE \E l \in Lines : Type(l)
  BY <1>1 DEF Type, Reads, ReadsNext
<1>2. CASE ReadBatch
  BY <1>2 DEF ReadBatch, ReadsBatch, Reads, ReadsNext
<1>3. CASE EndBatch \/ LeaveAtEof \/ Enter \/ ProgramEnds
  BY <1>3 DEF EndBatch, EndsBatch, LeaveAtEof, Enter, ProgramEnds, Rests
<1>4. ASSUME NEW commands, NEW to \in Points \ {"record", "execute"}, Executes(commands, to) PROVE Runs
  BY <1>4 DEF Executes, Runs
<1>5. CASE Display \/ NoArgument \/ quitShell \/ executePause \/ changeDirectory \/ executeProg
           \/ executeMyshell
  BY <1>4, <1>5 DEF Display, NoArgument, quitShell, executePause, changeDirectory, executeProg,
     executeMyshell, Points, Ended
<1>6. CASE EndInput \/ UNCHANGED vars
  BY <1>6 DEF EndInput, vars, Same
<1> QED
  BY <1>1, <1>2, <1>3, <1>5, <1>6 DEF Next, shell

(* Every step keeps HistoryInv: reading a line numbers it, updateHistory   *)
(* appends the number, executing notes it, and a new life leaves at most   *)
(* one line behind.                                                        *)
LEMMA HistoryStep == HistoryInv /\ [Next]_vars => HistoryInv'
<1> SUFFICES ASSUME HistoryInv, [Next]_vars PROVE HistoryInv'
  OBVIOUS
<1> DEFINE U == Noted \ executed
<1>0. /\ IsFiniteSet(U) /\ Cardinality(U) \in Nat
      /\ IsFiniteSet(Pending) /\ Cardinality(Pending) \in Nat
      /\ lives \in Nat
      /\ \A k \in 1 .. Len(history) : history[k] \in Nat /\ number \in Nat
  <2>1. IsFiniteSet(U) /\ IsFiniteSet(Pending)
    BY FS_Subset DEF HistoryInv, Pending
  <2> QED
    BY <2>1, FS_CardinalityType DEF HistoryInv
<1>1. Range(history) = {history[k] : k \in 1 .. Len(history)}
  BY DEF HistoryInv, Range
<1>2. CASE Start
  <2>1. /\ at \in Ended /\ at' \in {"next", "exited", "crashed"} /\ lives' = lives + 1
        /\ UNCHANGED <<history, number, executed, lost>>
    BY <1>2 DEF Start
  <2>2. Pending' = Pending /\ Noted' = Noted
    BY <2>1 DEF Pending, Noted, Ended
  <2>3. Cardinality(Pending) <= lives
    BY <2>1 DEF HistoryInv
  <2> QED
    BY <1>0, <2>1, <2>2, <2>3 DEF HistoryInv, Points, Ended
<1>3. CASE Kill
  <2>1. /\ at \notin Ended /\ at' = "killed" /\ UNCHANGED <<history, number, lives, executed, lost>>
    BY <1>3 DEF Kill, bounds, recorded
  <2>2. Cardinality(Pending) <= lives - 1
    BY <2>1 DEF HistoryInv
  <2>3. Pending' = U
    BY <2>1 DEF Pending, Noted, Ended
  <2>4. Cardinality(U) <= Cardinality(Pending) + 1
    <3>1. CASE at = "execute"
      <4>1. U = Pending \union {number} /\ number \notin Pending
        BY <3>1 DEF HistoryInv, Pending
      <4> QED
        BY <1>0, <4>1, FS_AddElement
    <3>2. CASE at # "execute"
      <4>1. U = Pending
        BY <3>2 DEF Pending
      <4> QED
        BY <1>0, <4>1
    <3> QED
      BY <3>1, <3>2
  <2>5. Cardinality(Pending') <= lives
    BY <1>0, <2>2, <2>3, <2>4
  <2> QED
    BY <2>1, <2>5 DEF HistoryInv, Points, Ended, Noted, Range
<1>4. CASE updateHistory
  <2>0. \/ history' = Append(history, number) /\ lost' = lost
        \/ history' = history /\ lost' = lost \union {number}
    BY <1>4 DEF updateHistory, Records
  <2>1. /\ at = "record" /\ at' = "execute"
        /\ UNCHANGED <<number, lives, executed>>
    BY <1>4 DEF updateHistory, Records, Goes, bounds
  <2>2. number \notin Noted
    BY <1>0, <1>1, <2>1 DEF HistoryInv, Noted
  <2>3. /\ history' \in Seq(Nat) /\ Noted' = Noted \union {number}
        /\ \A k \in 1 .. Len(history') : history'[k] <= number
        /\ \A k \in 1 .. Len(history') - 1 : history'[k] < history'[k + 1]
        /\ \A n \in lost' : n \in Nat /\ n <= number
    <3>1. CASE history' = Append(history, number) /\ lost' = lost
      <4>1. /\ history' \in Seq(Nat) /\ Len(history') = Len(history) + 1 /\ Len(history) \in Nat
            /\ \A k \in 1 .. Len(history) : history'[k] = history[k]
            /\ history'[Len(history) + 1] = number
        BY <1>0, <3>1 DEF HistoryInv
      <4>2. Range(history') = {history'[k] : k \in 1 .. Len(history')}
        BY <4>1 DEF Range
      <4>3. Range(history') = Range(history) \union {number}
        BY <1>1, <4>1, <4>2
      <4> QED
        BY <1>0, <2>1, <3>1, <4>1, <4>3 DEF HistoryInv, Noted
    <3>2. CASE history' = history /\ lost' = lost \union {number}
      BY <1>0, <2>1, <3>2 DEF HistoryInv, Noted
    <3> QED
      BY <2>0, <3>1, <3>2
  <2>4. Pending' = Pending
    BY <2>1, <2>2, <2>3 DEF Pending
  <2>5. IsFiniteSet(Noted')
    BY <2>3, FS_AddElement DEF HistoryInv
  <2>6. number \in Noted' \ executed /\ executed \subseteq Noted'
    BY <2>2, <2>3 DEF HistoryInv
  <2> QED
    BY <2>1, <2>3, <2>4, <2>5, <2>6 DEF HistoryInv, Points, Ended
<1>5. CASE Rests({"next", "exited"})
  <2>1. Pending' = Pending
    BY <1>5 DEF Rests, Pending, Noted
  <2>2. Cardinality(Pending) <= lives - 1
    BY <1>5 DEF Rests, HistoryInv, Ended
  <2> QED
    BY <1>0, <1>5, <2>1, <2>2 DEF Rests, HistoryInv, Points, Ended, Noted, Range
<1>6. CASE ReadsNext
  <2>1. Pending' = Pending
    BY <1>6 DEF ReadsNext, Pending, Noted
  <2>2. /\ \A k \in 1 .. Len(history) : history[k] < number + 1
        /\ \A n \in lost : n < number + 1
    BY <1>0 DEF HistoryInv
  <2>3. number + 1 \in Nat
    BY <1>0 DEF HistoryInv
  <2> QED
    BY <1>0, <1>6, <2>1, <2>2, <2>3 DEF ReadsNext, HistoryInv, Points, Ended, Noted, Range
<1>7. CASE Runs
  <2>1. Pending' = Pending
    BY <1>7 DEF Runs, Pending, Noted
  <2>2. executed' \subseteq Noted /\ Noted' = Noted
    BY <1>7 DEF Runs, HistoryInv, Noted
  <2>3. Cardinality(Pending) <= lives - 1
    BY <1>7 DEF Runs, HistoryInv, Ended
  <2> QED
    BY <1>0, <1>7, <2>1, <2>2, <2>3 DEF Runs, HistoryInv, Points, Ended
<1>8. CASE Same
  BY <1>8 DEF Same, HistoryInv, Pending, Noted, Range
<1> QED
  BY <1>2, <1>3, <1>4, <1>5, <1>6, <1>7, <1>8, Kinds

(* HistoryInv holds of a shell that was never started.                     *)
LEMMA HistoryInit == Init => HistoryInv
<1> SUFFICES ASSUME Init PROVE HistoryInv
  OBVIOUS
<1>1. /\ history = <<>> /\ executed = {} /\ at = "exited" /\ lives = 0 /\ number = 0
      /\ lost = {}
  BY DEF Init
<1>2. Noted = {} /\ Pending = {}
  BY <1>1 DEF Range, Noted, Pending
<1>3. IsFiniteSet({}) /\ Cardinality({}) = 0
  BY FS_EmptySet
<1> QED
  BY <1>1, <1>2, <1>3 DEF HistoryInv, Points, Ended

(* In every behaviour of every shell the history file has each executed    *)
(* line once, in the order of reading, but those for which it could not be *)
(* opened or written: updateHistory writes before the line is executed,    *)
(* and does not look whether it did.  Beyond these at most one line for    *)
(* each life is in it or lost.                                             *)
THEOREM HistoryIsComplete == Spec => []HistoryComplete
<1>1. HistoryInv => HistoryComplete
  <2> SUFFICES ASSUME HistoryInv PROVE HistoryComplete
    OBVIOUS
  <2> DEFINE U == Noted \ executed
  <2>1. IsFiniteSet(U) /\ IsFiniteSet(Pending) /\ lives \in Nat
    BY FS_Subset DEF HistoryInv, Pending
  <2>2. Cardinality(U) \in Nat /\ Cardinality(Pending) \in Nat
    BY <2>1, FS_CardinalityType
  <2>3. Cardinality(U) <= lives
    <3>1. CASE at = "execute"
      <4>1. U = Pending \union {number} /\ number \notin Pending
        BY <3>1 DEF HistoryInv, Pending
      <4>2. Cardinality(U) = Cardinality(Pending) + 1
        BY <2>1, <4>1, FS_AddElement
      <4>3. Cardinality(Pending) <= lives - 1
        BY <3>1 DEF HistoryInv, Ended
      <4> QED
        BY <2>1, <2>2, <4>2, <4>3
    <3>2. CASE at # "execute"
      <4>1. U = Pending
        BY <3>2 DEF Pending
      <4>2. Cardinality(Pending) <= lives
        BY <2>1, <2>2 DEF HistoryInv
      <4> QED
        BY <4>1, <4>2
    <3> QED
      BY <3>1, <3>2
  <2> QED
    BY <2>3 DEF HistoryComplete, HistoryInv, Noted
<1> QED
  BY HistoryInit, HistoryStep, <1>1, PTL DEF Spec

-----------------------------------------------------------------------------
(* A frame of the stack: what is left to execute is the end of its file.   *)
Frames == [of : DOMAIN Files, lines : Seq(CommandLines)]

(* What is left of a frame.                                                *)
Left(frame) ==
  LET all == Files[frame.of] IN
  /\ Len(frame.lines) <= Len(all)
  /\ \A k \in 1 .. Len(frame.lines) : frame.lines[k] = all[Len(all) - Len(frame.lines) + k]

(* It stands at a line that names the file, or none; it had no argument.   *)
Calls(frame, name) ==
  /\ Done(frame) # <<>> /\ Last(Done(frame)).command = "myshell"
  /\ Last(Done(frame)).args \in {<<>>, <<name>>}

(* No line of the frame that was done had an argument.                     *)
Bare(frame) == \A k \in DOMAIN Done(frame) : Done(frame)[k].args = <<>>

(* first is what userArgs[0] holds or held in this life, so that while it  *)
(* is nothing no line had an argument, and so no line has led to a file.   *)
CrashInv ==
  /\ at \in Points /\ stack \in Seq(Frames)
  /\ line \in CommandLines \union {Blank} /\ userArgs = line.args
  /\ \A k \in 1 .. Len(stack) : Left(stack[k])
  /\ \A k \in 1 .. Len(stack) - 1 : Calls(stack[k], stack[k + 1].of)
  /\ at \in {"record", "execute"} /\ stack # <<>> =>
       Done(stack[Len(stack)]) # <<>> /\ Last(Done(stack[Len(stack)])) = line
  /\ userArgs # <<>> => first = userArgs[1]
  /\ first = Nothing => Len(stack) <= 1 /\ (stack # <<>> => batch /\ Bare(stack[1]))
  /\ at = "crashed" /\ Len(stack) < MaxDepth =>
       line.command \in {Empty, "dir", "myshell"} /\ first = Nothing

(* The beginning of a sequence.                                            *)
LEMMA Beginning ==
  ASSUME NEW S, NEW seq \in Seq(S), NEW n \in Nat, n <= Len(seq)
  PROVE  /\ SubSeq(seq, 1, Len(seq) - n) \in Seq(S)
         /\ Len(SubSeq(seq, 1, Len(seq) - n)) = Len(seq) - n
         /\ \A k \in 1 .. Len(seq) - n : SubSeq(seq, 1, Len(seq) - n)[k] = seq[k]
<1>1. Len(seq) \in Nat /\ Len(seq) - n \in Int /\ Len(seq) - n >= 0
  BY LenProperties
<1>2. \A k \in 1 .. Len(seq) - n : seq[k] \in S
  BY <1>1, ElementOfSeq
<1> DEFINE m == Len(seq) - n
<1>3. m \in Int /\ m >= 0 /\ \A k \in 1 .. m : seq[k] \in S
  BY <1>1, <1>2
<1> HIDE DEF m
<1>4. /\ SubSeq(seq, 1, m) \in Seq(S)
      /\ Len(SubSeq(seq, 1, m)) = IF 1 <= m THEN m - 1 + 1 ELSE 0
      /\ \A k \in 1 .. m - 1 + 1 : SubSeq(seq, 1, m)[k] = seq[1 + k - 1]
  BY <1>3, SubSeqProperties
<1>5. /\ Len(SubSeq(seq, 1, m)) = m
      /\ \A k \in 1 .. m : SubSeq(seq, 1, m)[k] = seq[k]
  BY <1>3, <1>4
<1> QED
  BY <1>4, <1>5 DEF m

(* A sequence has a last element when it has any.                          *)
LEMMA Lengths ==
  ASSUME NEW S, NEW seq \in Seq(S)
  PROVE  /\ Len(seq) \in Nat /\ DOMAIN seq = 1 .. Len(seq)
         /\ seq # <<>> <=> Len(seq) >= 1
         /\ \A k \in 1 .. Len(seq) : seq[k] \in S
<1>1. Len(seq) \in Nat /\ DOMAIN seq = 1 .. Len(seq)
  BY LenProperties
<1>2. seq # <<>> => Len(seq) >= 1
  BY EmptySeq
<1>3. seq = <<>> => Len(seq) = 0
  BY EmptySeq
<1>4. \A k \in 1 .. Len(seq) : seq[k] \in S
  BY ElementOfSeq
<1> QED
  BY <1>1, <1>2, <1>3, <1>4

(* The lines of a frame that are done are the beginning of its file.       *)
LEMMA DoneFacts ==
  ASSUME NEW frame \in Frames, Left(frame)
  PROVE  LET all == Files[frame.of] IN
         /\ all \in Seq(CommandLines) /\ Len(all) \in Nat /\ Len(frame.lines) \in Nat
         /\ Done(frame) \in Seq(CommandLines)
         /\ Len(Done(frame)) = Len(all) - Len(frame.lines)
         /\ \A k \in 1 .. Len(all) - Len(frame.lines) : Done(frame)[k] = all[k]
<1>1. frame.of \in DOMAIN Files /\ frame.lines \in Seq(CommandLines)
  BY DEF Frames
<1>2. Files[frame.of] \in Seq(CommandLines)
  BY <1>1, ShellAssumption
<1>3. Len(frame.lines) <= Len(Files[frame.of])
  BY DEF Left
<1>4. Len(Files[frame.of]) \in Nat /\ Len(frame.lines) \in Nat
  BY <1>1, <1>2, LenProperties
<1> QED
  BY <1>2, <1>3, <1>4, Beginning DEF Done

(* A batch file that is entered has nothing done.                          *)
LEMMA NewFrame ==
  ASSUME NEW name \in DOMAIN Files
  PROVE  /\ Frame(name) \in Frames /\ Left(Frame(name)) /\ Frame(name).of = name
         /\ Done(Frame(name)) = <<>> /\ Bare(Frame(name))
<1>1. Files[name] \in Seq(CommandLines)
  BY ShellAssumption
<1>2. Frame(name) \in Frames /\ Frame(name).of = name /\ Frame(name).lines = Files[name]
  BY <1>1 DEF Frame, Frames
<1>3. Left(Frame(name))
  BY <1>1, <1>2 DEF Left
<1>4. Done(Frame(name)) \in Seq(CommandLines) /\ Len(Done(Frame(name))) = 0
  BY <1>2, <1>3, DoneFacts
<1>5. Done(Frame(name)) = <<>>
  BY <1>4
<1> QED
  BY <1>2, <1>3, <1>5 DEF Bare

(* A line that is read is the last one done.                               *)
LEMMA NextFrame ==
  ASSUME NEW frame \in Frames, Left(frame), frame.lines # <<>>,
         NEW g, g = [frame EXCEPT !.lines = Tail(frame.lines)]
  PROVE  /\ g \in Frames /\ Left(g) /\ g.of = frame.of
         /\ Done(g) # <<>> /\ Last(Done(g)) = Head(frame.lines)
         /\ Head(frame.lines) \in CommandLines
         /\ Bare(frame) /\ Head(frame.lines).args = <<>> => Bare(g)
<1> DEFINE all == Files[frame.of]
           now == frame.lines
           rest == Tail(frame.lines)
           m == Len(all) - Len(now)
<1>1. now \in Seq(CommandLines) /\ now # <<>> /\ frame.of \in DOMAIN Files
  BY DEF Frames
<1>2. /\ rest \in Seq(CommandLines) /\ Len(rest) = Len(now) - 1
      /\ \A k \in 1 .. Len(rest) : rest[k] = now[k + 1]
      /\ Head(now) = now[1] /\ Head(now) \in CommandLines
      /\ Len(now) \in Nat /\ Len(now) >= 1
  BY <1>1, HeadTailProperties, Lengths
<1>3. /\ g \in Frames /\ g.of = frame.of /\ g.lines = rest
  BY <1>2 DEF Frames
<1>4. /\ all \in Seq(CommandLines) /\ Len(all) \in Nat
      /\ Done(frame) \in Seq(CommandLines) /\ Len(Done(frame)) = m
      /\ \A k \in 1 .. m : Done(frame)[k] = all[k]
  BY DoneFacts
<1>5. /\ Len(now) <= Len(all)
      /\ \A k \in 1 .. Len(now) : now[k] = all[Len(all) - Len(now) + k]
  BY DEF Left
<1>6. m \in Nat /\ Len(all) = m + Len(now)
  BY <1>2, <1>4, <1>5
<1>7. Files[g.of] = all /\ g.lines = rest
  BY <1>3
<1> HIDE DEF all, now, rest, m
<1>8. \A k \in 1 .. Len(now) : now[k] = all[m + k]
  BY <1>5 DEF m
<1>9. Len(rest) <= Len(all) /\ Len(all) - Len(rest) = m + 1 /\ Len(rest) \in Nat
  BY <1>2, <1>4, <1>6
<1>10. ASSUME NEW k \in 1 .. Len(rest) PROVE rest[k] = all[Len(all) - Len(rest) + k]
  <2>1. k + 1 \in 1 .. Len(now) /\ m + (k + 1) = Len(all) - Len(rest) + k
    BY <1>2, <1>6, <1>9
  <2>2. rest[k] = now[k + 1]
    BY <1>2
  <2>3. now[k + 1] = all[m + (k + 1)]
    BY <1>8, <2>1
  <2> QED
    BY <2>1, <2>2, <2>3
<1>11. Left(g)
  BY <1>7, <1>9, <1>10 DEF Left
<1>12. /\ Done(g) \in Seq(CommandLines) /\ Len(Done(g)) = m + 1
       /\ \A k \in 1 .. m + 1 : Done(g)[k] = all[k]
  BY <1>3, <1>7, <1>9, <1>11, DoneFacts
<1>13. Done(g)[m + 1] = Head(now)
  <2>1. 1 \in 1 .. Len(now) /\ m + 1 \in 1 .. m + 1
    BY <1>2, <1>6
  <2> QED
    BY <1>2, <1>8, <1>12, <2>1
<1>14. Done(g) # <<>> /\ Last(Done(g)) = Head(now)
  <2>1. Len(Done(g)) >= 1
    BY <1>6, <1>12
  <2> QED
    BY <1>12, <1>13, <2>1, Lengths DEF Last
<1>15. ASSUME Bare(frame), Head(now).args = <<>> PROVE Bare(g)
  <2>1. DOMAIN Done(g) = 1 .. m + 1
    BY <1>12, Lengths
  <2>2. DOMAIN Done(frame) = 1 .. m
    <3>1. Len(Done(frame)) = m /\ Done(frame) \in Seq(CommandLines)
      BY <1>4 DEF m
    <3> QED
      BY <3>1, Lengths
  <2>3. ASSUME NEW k \in 1 .. m + 1 PROVE Done(g)[k].args = <<>>
    <3>1. CASE k = m + 1
      BY <1>13, <1>15, <3>1
    <3>2. CASE k # m + 1
      <4>1. k \in 1 .. m
        BY <1>6, <3>2
      <4>2. Done(frame)[k] = all[k]
        BY <1>4, <4>1 DEF m
      <4>3. Done(g)[k] = all[k]
        BY <1>12
      <4> QED
        BY <1>15, <2>2, <4>1, <4>2, <4>3 DEF Bare
    <3> QED
      BY <3>1, <3>2
  <2> QED
    BY <2>1, <2>3 DEF Bare
<1> QED
  BY <1>2, <1>3, <1>11, <1>14, <1>15 DEF now

-----------------------------------------------------------------------------
(* A step that leaves the stack and the line.                              *)
Leaves == /\ UNCHANGED <<stack, batch, line, userArgs, first>>
          /\ at' \in Points
          /\ at' \in {"record", "execute"} => at \in {"record", "execute"}
          /\ at' = "crashed" =>
               \/ at = "crashed"
               \/ line.command \in {"dir", "myshell"} /\ first = Nothing
               \/ Len(stack) = MaxDepth

(* A line that executes a batch file.                                      *)
Pushes == \E name \in DOMAIN Files :
            /\ at = "execute" /\ at' = "next" /\ line.command = "myshell"
            /\ \/ Len(userArgs) = 1 /\ userArgs[1] = name
               \/ userArgs = <<>> /\ first = name
            /\ stack' = Append(stack, Frame(name))
            /\ UNCHANGED <<batch, line, userArgs, first>>

(* The arguments are those of the line.                                    *)
LEMMA ArgumentsOf == CrashInv => userArgs \in Seq(Arguments)
<1> SUFFICES ASSUME CrashInv PROVE userArgs \in Seq(Arguments)
  OBVIOUS
<1>1. CASE line \in CommandLines
  BY <1>1, ShellAssumption DEF CrashInv
<1>2. CASE line = Blank
  <2>1. userArgs = <<>>
    BY <1>2 DEF CrashInv, Blank
  <2> QED
    BY <2>1, EmptySeq
<1> QED
  BY <1>1, <1>2 DEF CrashInv

(* What Executes does, but for the stack and the directory.                *)
LEMMA ShellSteps ==
  ASSUME CrashInv, [Next]_vars
  PROVE  Start \/ ReadBatch \/ EndBatch \/ (\E l \in Lines : Type(l)) \/ Leaves \/ Pushes
<1> USE DEF bounds, recorded, arguments, Goes, Points, Ended
<1>1. at \in Points
  BY DEF CrashInv
<1>2. CASE Kill \/ EndInput \/ Enter \/ ProgramEnds \/ LeaveAtEof \/ updateHistory
  BY <1>1, <1>2 DEF Kill, EndInput, Enter, ProgramEnds, LeaveAtEof, updateHistory, Records, Leaves
<1>3. ASSUME NEW commands, NEW to \in {"next", "exited", "paused", "waiting"},
             Executes(commands, to), stack' = stack
      PROVE  Leaves
  BY <1>3 DEF Executes, Leaves
<1>4. CASE Display \/ quitShell \/ executePause \/ changeDirectory \/ executeProg
  BY <1>3, <1>4 DEF Display, quitShell, executePause, changeDirectory, executeProg
<1>5. CASE NoArgument
  BY <1>5 DEF NoArgument, Executes, Leaves
<1>6. CASE executeMyshell
  <2>1. CASE Executes({"myshell"}, "next") /\ stack' = stack
    BY <1>3, <2>1
  <2>2. ASSUME NEW name \in Target, Found(name), Len(userArgs) <= 1, Executes({"myshell"}, "next"),
               stack' = Append(stack, Frame(name))
        PROVE  Pushes
    <3>1. name \in DOMAIN Files /\ name # Nothing
      BY <2>2, ShellAssumption DEF Found
    <3>2. \/ Len(userArgs) = 1 /\ userArgs[1] = name
          \/ userArgs = <<>> /\ first = name
      <4>1. CASE userArgs = <<>>
        BY <2>2, <3>1, <4>1 DEF Target
      <4>2. CASE userArgs # <<>>
        <5>1. userArgs \in Seq(Arguments)
          BY ArgumentsOf
        <5>2. Len(userArgs) <= 1
          BY <2>2
        <5>3. Len(userArgs) \in Nat /\ Len(userArgs) >= 1
          BY <4>2, <5>1, Lengths
        <5> DEFINE n == Len(userArgs)
        <5>4. n \in Nat /\ n >= 1 /\ n <= 1
          BY <5>2, <5>3
        <5> HIDE DEF n
        <5>5. n = 1
          BY <5>4
        <5> QED
          BY <2>2, <4>2, <5>5 DEF Target, n
      <4> QED
        BY <4>1, <4>2
    <3> QED
      BY <2>2, <3>1, <3>2 DEF Executes, Pushes
  <2>3. ASSUME Len(stack) = MaxDepth, Executes({"myshell"}, "crashed"), stack' = stack PROVE Leaves
    BY <2>3 DEF Executes, Leaves
  <2> QED
    BY <1>6, <2>1, <2>2, <2>3 DEF executeMyshell
<1>7. CASE UNCHANGED vars
  BY <1>1, <1>7 DEF vars, Leaves
<1> QED
  BY <1>2, <1>4, <1>5, <1>6, <1>7 DEF Next, shell

(* After a line has been read, what is known of it.                        *)
LEMMA Parsed ==
  ASSUME CrashInv, NEW l \in CommandLines, parseCommand(l)
  PROVE  /\ line' = l /\ userArgs' = l.args
         /\ userArgs' # <<>> => first' = userArgs'[1]
         /\ first' = Nothing => first = Nothing /\ l.args = <<>>
<1>1. l.args \in Seq(Arguments) /\ Nothing \notin Arguments
  BY ShellAssumption
<1>2. l.args # <<>> => l.args[1] # Nothing
  BY <1>1
<1> QED
  BY <1>2 DEF parseCommand

(* Every step keeps CrashInv: one case for each of the steps that          *)
(* ShellSteps tells apart.                                                 *)
LEMMA CrashStep == CrashInv /\ [Next]_vars => CrashInv'
<1> SUFFICES ASSUME CrashInv, [Next]_vars PROVE CrashInv'
  OBVIOUS
<1>0. /\ stack \in Seq(Frames) /\ Len(stack) \in Nat /\ at \in Points
      /\ \A k \in 1 .. Len(stack) : stack[k] \in Frames /\ Left(stack[k])
      /\ (stack # <<>> <=> Len(stack) > 0)
      /\ MaxDepth \in Nat
  BY ShellAssumption DEF CrashInv
<1>1. CASE Start
  <2>1. /\ line' = Blank /\ userArgs' = <<>> /\ first' = Nothing /\ at' \in {"next", "exited", "crashed"}
        /\ Blank.args = <<>> /\ Blank.command = Empty
    BY <1>1 DEF Start, Blank
  <2>2. CASE stack' = <<>>
    BY <1>0, <2>1, <2>2 DEF CrashInv, Points, Ended
  <2>3. ASSUME NEW name \in DOMAIN Files, stack' = <<Frame(name)>>, batch' = TRUE, at' = "next"
        PROVE  CrashInv'
    <3>1. /\ stack' \in Seq(Frames) /\ Len(stack') = 1 /\ stack'[1] = Frame(name)
      BY <2>3, NewFrame
    <3>2. Left(Frame(name)) /\ Bare(Frame(name))
      BY NewFrame
    <3> QED
      BY <2>1, <2>3, <3>1, <3>2 DEF CrashInv, Points, Ended
  <2> QED
    BY <1>1, <2>2, <2>3 DEF Start
<1>2. CASE ReadBatch
  <2> DEFINE top == stack[Len(stack)]
             l == Head(top.lines)
             g == [top EXCEPT !.lines = Tail(top.lines)]
             m == Len(stack)
  <2>1. /\ stack # <<>> /\ top.lines # <<>> /\ at' \in {"next", "record"}
        /\ stack' = [stack EXCEPT ![m] = g]
        /\ parseCommand(l) /\ batch' = batch
    BY <1>2 DEF ReadBatch, ReadsBatch, Reads, Last
  <2>2. m \in 1 .. m /\ top \in Frames /\ Left(top)
    BY <1>0, <2>1
  <2>3. /\ g \in Frames /\ Left(g) /\ g.of = top.of
        /\ Done(g) # <<>> /\ Last(Done(g)) = l /\ l \in CommandLines
        /\ Bare(top) /\ l.args = <<>> => Bare(g)
    BY <2>1, <2>2, NextFrame
  <2>4. /\ line' = l /\ userArgs' = l.args
        /\ userArgs' # <<>> => first' = userArgs'[1]
        /\ first' = Nothing => first = Nothing /\ l.args = <<>>
    BY <2>1, <2>3, Parsed
  <2> HIDE DEF g, l, top
  <2>5. /\ stack' \in Seq(Frames) /\ Len(stack') = m /\ stack'[m] = g
        /\ \A k \in 1 .. m : k # m => stack'[k] = stack[k]
        /\ stack' # <<>>
    BY <1>0, <2>1, <2>2, <2>3
  <2>6. \A k \in 1 .. m : Left(stack'[k])
    BY <1>0, <2>3, <2>5
  <2>7. \A k \in 1 .. m - 1 : Calls(stack'[k], stack'[k + 1].of)
    <3>1. ASSUME NEW k \in 1 .. m - 1 PROVE Calls(stack'[k], stack'[k + 1].of)
      <4>1. stack'[k] = stack[k] /\ stack'[k + 1].of = stack[k + 1].of
        BY <1>0, <2>3, <2>5 DEF top
      <4> QED
        BY <4>1 DEF CrashInv
    <3> QED
      BY <3>1
  <2>8. first' = Nothing => m <= 1 /\ batch' /\ Bare(stack'[1])
    <3>1. SUFFICES ASSUME first' = Nothing PROVE m <= 1 /\ batch' /\ Bare(stack'[1])
      OBVIOUS
    <3>2. first = Nothing /\ l.args = <<>> /\ m <= 1 /\ batch /\ Bare(stack[1])
      BY <2>1, <2>4, <3>1 DEF CrashInv
    <3>3. m = 1
      <4>1. Len(stack) \in Nat /\ Len(stack) >= 1 /\ Len(stack) <= 1
        BY <1>0, <2>1, <3>2
      <4> QED
        BY <4>1
    <3> QED
      BY <2>1, <2>3, <2>5, <3>2, <3>3 DEF top
  <2> QED
    BY <2>1, <2>3, <2>4, <2>5, <2>6, <2>7, <2>8 DEF CrashInv, Points, Ended
<1>3. CASE EndBatch
  <2>1. /\ stack # <<>> /\ stack' = SubSeq(stack, 1, Len(stack) - 1) /\ at' \in {"next", "exited"}
        /\ UNCHANGED <<batch, line, userArgs, first>>
    BY <1>3 DEF EndBatch, EndsBatch, Front, Goes, arguments
  <2>2. /\ stack' \in Seq(Frames) /\ Len(stack') = Len(stack) - 1
        /\ \A k \in 1 .. Len(stack) - 1 : stack'[k] = stack[k]
    <3>1. 1 \in Nat /\ 1 <= Len(stack)
      BY <1>0, <2>1
    <3> QED
      BY <1>0, <2>1, <3>1, Beginning
  <2>3. \A k \in 1 .. Len(stack') : Left(stack'[k])
    BY <1>0, <2>2
  <2>4. \A k \in 1 .. Len(stack') - 1 : Calls(stack'[k], stack'[k + 1].of)
    BY <1>0, <2>2 DEF CrashInv
  <2>5. first' = Nothing => Len(stack') <= 1 /\ stack' = <<>>
    BY <1>0, <2>1, <2>2 DEF CrashInv
  <2> QED
    BY <2>1, <2>2, <2>3, <2>4, <2>5 DEF CrashInv, Points, Ended
<1>4. CASE \E l \in Lines : Type(l)
  <2> PICK l \in Lines : Type(l)
    BY <1>4
  <2>1. stack = <<>> /\ stack' = stack /\ at' \in {"next", "record"} /\ parseCommand(l) /\ l \in CommandLines
    BY DEF Type, Reads, CommandLines
  <2>2. /\ line' = l /\ userArgs' = l.args
        /\ userArgs' # <<>> => first' = userArgs'[1]
    BY <2>1, Parsed
  <2> QED
    BY <1>0, <2>1, <2>2 DEF CrashInv, Points, Ended
<1>5. CASE Leaves
  BY <1>0, <1>5 DEF Leaves, CrashInv
<1>6. CASE Pushes
  <2> PICK name \in DOMAIN Files :
            /\ at = "execute" /\ at' = "next" /\ line.command = "myshell"
            /\ \/ Len(userArgs) = 1 /\ userArgs[1] = name
               \/ userArgs = <<>> /\ first = name
            /\ stack' = Append(stack, Frame(name))
            /\ UNCHANGED <<batch, line, userArgs, first>>
    BY <1>6 DEF Pushes
  <2>1. Frame(name) \in Frames /\ Left(Frame(name)) /\ Frame(name).of = name
    BY NewFrame
  <2>2. /\ stack' \in Seq(Frames) /\ Len(stack') = Len(stack) + 1
        /\ \A k \in 1 .. Len(stack) : stack'[k] = stack[k]
        /\ stack'[Len(stack) + 1] = Frame(name)
    BY <1>0, <2>1
  <2>3. userArgs \in Seq(Arguments) /\ userArgs = line.args
    BY ArgumentsOf DEF CrashInv
  <2>4. userArgs \in {<<>>, <<name>>}
    BY <2>3
  <2>5. first # Nothing
    <3>1. name # Nothing
      BY ShellAssumption
    <3>2. userArgs # <<>> => first = userArgs[1]
      BY DEF CrashInv
    <3> QED
      BY <2>3, <3>1, <3>2
  <2>6. \A k \in 1 .. Len(stack') : Left(stack'[k])
    BY <1>0, <2>1, <2>2
  <2>7. ASSUME NEW k \in 1 .. Len(stack) PROVE Calls(stack'[k], stack'[k + 1].of)
    <3>1. CASE k = Len(stack)
      <4>1. Done(stack[k]) # <<>> /\ Last(Done(stack[k])) = line
        BY <1>0, <3>1 DEF CrashInv
      <4>2. stack'[k] = stack[k] /\ stack'[k + 1].of = name
        BY <2>1, <2>2, <3>1
      <4> QED
        BY <2>3, <2>4, <4>1, <4>2 DEF Calls
    <3>2. CASE k # Len(stack)
      <4>1. k \in 1 .. Len(stack) - 1 /\ stack'[k] = stack[k] /\ stack'[k + 1] = stack[k + 1]
        BY <1>0, <2>2, <3>2
      <4> QED
        BY <4>1 DEF CrashInv
    <3> QED
      BY <3>1, <3>2
  <2>8. \A k \in 1 .. Len(stack') - 1 : Calls(stack'[k], stack'[k + 1].of)
    BY <1>0, <2>2, <2>7
  <2> QED
    BY <2>2, <2>5, <2>6, <2>8 DEF CrashInv, Points, Ended
<1> QED
  BY <1>1, <1>2, <1>3, <1>4, <1>5, <1>6, ShellSteps

(* CrashInv holds of a shell that was never started.                       *)
LEMMA CrashInit == Init => CrashInv
BY DEF Init, CrashInv, Points, Ended, Blank

(* The frames of executeBatchFile always stand at lines that call the next *)
(* one by name, or call without an argument; and the shell dies with less  *)
(* than a full stack only of a userArgs[0] that no line ever filled.       *)
THEOREM CrashesHaveCause == Spec => []CrashHasCause
<1>1. CrashInv => CrashHasCause
  <2> SUFFICES ASSUME CrashInv PROVE CrashHasCause
    OBVIOUS
  <2>1. ASSUME NEW k \in 1 .. Len(stack) - 1
        PROVE  LET done == Done(stack[k]) IN
               /\ done # <<>> /\ Last(done).command = "myshell"
               /\ Last(done).args \in {<<>>, <<stack[k + 1].of>>}
    BY DEF CrashInv, Calls
  <2>2. Len(stack) \in Nat /\ (stack # <<>> => Len(stack) >= 1)
    BY DEF CrashInv
  <2>3. ASSUME at = "crashed", Len(stack) < MaxDepth
        PROVE  /\ line.command \in {Empty, "dir", "myshell"}
               /\ stack # <<>> => /\ batch /\ Len(stack) = 1
                                  /\ \A k \in DOMAIN Done(stack[1]) : Done(stack[1])[k].args = <<>>
    <3>1. line.command \in {Empty, "dir", "myshell"} /\ first = Nothing
      BY <2>3 DEF CrashInv
    <3>2. Len(stack) <= 1 /\ (stack # <<>> => batch /\ Bare(stack[1]))
      BY <3>1 DEF CrashInv
    <3>3. stack # <<>> => Len(stack) = 1
      BY <2>2, <3>2
    <3> QED
      BY <3>1, <3>2, <3>3 DEF Bare
  <2> QED
    BY <2>1, <2>3 DEF CrashHasCause
<1> QED
  BY CrashInit, CrashStep, <1>1, PTL DEF Spec

-----------------------------------------------------------------------------
(* Where the process may open more files than the stack has room for batch *)
(* files, and the history file is always writable.                         *)
Enough == \A l \in Limits : FALSE \notin l.writable /\ 1 <= MaxDepth /\ MaxDepth < l.files

(* Nothing is lost, for the stack is the first to be full.                 *)
NoneLost == /\ lost = {} /\ Len(stack) <= MaxDepth
            /\ at \notin Ended => limit \in Limits

(* Every step keeps NoneLost: only executeMyshell lets the stack grow, and *)
(* not beyond MaxDepth.                                                    *)
LEMMA NoneLostStep == Enough /\ CrashInv /\ NoneLost /\ [Next]_vars => NoneLost'
<1> SUFFICES ASSUME Enough, CrashInv, NoneLost, [Next]_vars PROVE NoneLost'
  OBVIOUS
<1> USE DEF Ended, Goes, bounds, recorded
<1>1. /\ stack \in Seq(Frames) /\ Len(stack) \in Nat /\ MaxDepth \in Nat
      /\ \A l \in Limits : l.files \in Nat /\ 1 <= MaxDepth /\ MaxDepth < l.files
  <2>1. stack \in Seq(Frames) /\ Len(stack) \in Nat
    BY DEF CrashInv
  <2>2. MaxDepth \in Nat
    BY ShellAssumption
  <2>3. \A l \in Limits : l.files \in Nat
    BY ShellAssumption
  <2> QED
    BY <2>1, <2>2, <2>3 DEF Enough
<1>2. lost = {} /\ Len(stack) <= MaxDepth
  BY DEF NoneLost
<1>3. CASE Start
  <2>1. lost' = lost /\ limit' \in Limits
    BY <1>3 DEF Start
  <2>2. CASE stack' = <<>>
    BY <1>1, <1>2, <2>1, <2>2 DEF NoneLost
  <2>3. ASSUME NEW name \in DOMAIN Files, stack' = <<Frame(name)>> PROVE NoneLost'
    <3>1. Len(stack') = 1
      BY <2>3
    <3> QED
      BY <1>1, <1>2, <2>1, <3>1 DEF NoneLost
  <2> QED
    BY <1>3, <2>2, <2>3 DEF Start
<1>4. CASE updateHistory
  <2>1. /\ at = "record" /\ UNCHANGED <<stack, limit>>
        /\ \/ lost' = lost
           \/ FALSE \in limit.writable
           \/ Len(stack) >= limit.files
    BY <1>4 DEF updateHistory, Records
  <2>2. limit \in Limits /\ FALSE \notin limit.writable
    BY <2>1 DEF NoneLost, Enough
  <2>3. ~(Len(stack) >= limit.files)
    <3>1. limit.files \in Nat /\ MaxDepth < limit.files
      BY <1>1, <2>2
    <3> QED
      BY <1>1, <1>2, <3>1
  <2> QED
    BY <1>2, <2>1, <2>2, <2>3 DEF NoneLost
<1>5. ASSUME lost' = lost, limit' = limit, at \notin Ended \/ at' \in Ended,
             Len(stack') <= MaxDepth
      PROVE  NoneLost'
  BY <1>5 DEF NoneLost
<1>6. CASE ReadBatch
  <2>1. /\ at = "next" /\ lost' = lost /\ limit' = limit
        /\ stack' = [stack EXCEPT ![Len(stack)].lines = Tail(Last(stack).lines)]
    BY <1>6 DEF ReadBatch, ReadsBatch, Reads
  <2>2. Len(stack') = Len(stack)
    BY <1>1, <2>1
  <2> QED
    BY <1>2, <1>5, <2>1, <2>2
<1>7. CASE EndBatch
  <2>1. /\ at = "next" /\ lost' = lost /\ limit' = limit /\ stack # <<>>
        /\ stack' = SubSeq(stack, 1, Len(stack) - 1)
    BY <1>7 DEF EndBatch, EndsBatch, Front
  <2>2. 1 \in Nat /\ 1 <= Len(stack)
    BY <1>1, <2>1
  <2>3. Len(stack') = Len(stack) - 1
    BY <1>1, <2>1, <2>2, Beginning
  <2>4. Len(stack') <= MaxDepth
    BY <1>1, <1>2, <2>3
  <2> QED
    BY <1>5, <2>1, <2>4
<1>8. CASE executeMyshell
  <2>1. at = "execute" /\ lost' = lost /\ limit' = limit
    BY <1>8 DEF executeMyshell, Executes
  <2>2. CASE stack' = stack
    BY <1>2, <1>5, <2>1, <2>2
  <2>3. ASSUME NEW name, Len(stack) < MaxDepth, stack' = Append(stack, Frame(name)), Found(name)
        PROVE  NoneLost'
    <3>1. Frame(name) \in Frames
      BY <2>3, NewFrame DEF Found
    <3>2. Len(stack') = Len(stack) + 1
      BY <1>1, <2>3, <3>1
    <3>3. Len(stack') <= MaxDepth
      BY <1>1, <2>3, <3>2
    <3> QED
      BY <1>5, <2>1, <3>3
  <2> QED
    BY <1>8, <2>2, <2>3 DEF executeMyshell
<1>9. CASE \/ Kill \/ EndInput \/ Enter \/ ProgramEnds \/ LeaveAtEof \/ Display \/ NoArgument
           \/ quitShell \/ executePause \/ changeDirectory \/ executeProg \/ UNCHANGED vars
  <2>1. UNCHANGED <<stack, limit, lost>> /\ (at \notin Ended \/ at' \in Ended)
    BY <1>9 DEF Kill, EndInput, Enter, ProgramEnds, LeaveAtEof, Display, NoArgument, quitShell,
       executePause, changeDirectory, executeProg, Executes, vars
  <2> QED
    BY <1>2, <1>5, <2>1
<1>10. CASE \E l \in Lines : Type(l)
  <2>1. UNCHANGED <<stack, limit, lost>> /\ at \notin Ended
    BY <1>10 DEF Type, Reads
  <2> QED
    BY <1>2, <1>5, <2>1
<1> QED
  BY <1>3, <1>4, <1>6, <1>7, <1>8, <1>9, <1>10 DEF Next, shell

(* What help promises of the history file is kept where it is writable and *)
(* the stack is full before the process may open no more files: then every *)
(* line that was executed is in it, in all lives and all batch files.      *)
THEOREM NothingIsLost ==
  ASSUME Enough
  PROVE  Spec => []ListsExecuted
<1>1. Init => NoneLost
  BY ShellAssumption DEF Init, NoneLost, Ended
<1>2. HistoryInv /\ NoneLost => ListsExecuted
  BY DEF HistoryInv, NoneLost, ListsExecuted, Noted
<1>3. CrashInv /\ NoneLost /\ [Next]_vars => NoneLost'
  BY NoneLostStep
<1> QED
  BY HistoryInit, HistoryStep, CrashInit, CrashStep, <1>1, <1>2, <1>3, PTL DEF Spec
=============================================================================
