------------------------ MODULE DiningStudentsProofs ------------------------
(***************************************************************************)
(* DiningStudents is correct for every table of at least two students,     *)
(* every number of meals and every number of spurious wake-ups.            *)
(***************************************************************************)
EXTENDS DiningStudents, TLAPS

USE NumAssumption, CyclesAssumption, SpuriousAssumption

(* The thread in a critical section is the holder of studentLock, and only *)
(* the threads blocked in wait are in the condition variable's wait set.   *)
LockHeld == \A s \in Students : pc[s] \in Critical <=> studentLock = s
SleepersAsleep == \A s \in Students : s \in sleepers <=> pc[s] = "asleep"

(* What the log shows of a student is behind its program point by at most  *)
(* the two critical sections that update it.                               *)
StateFollows ==
  \A s \in Students :
     /\ state[s] = "eating" => pc[s] \in {"eating", "rising", "clearing"}
     /\ pc[s] = "clearing" => \A k \in SpoonsOf(s) : ~spoonStatus[k]

(* The local counter and the published one agree outside of thinking.      *)
CyclesFollow ==
  \A s \in Students :
     /\ pc[s] = "record" => cyclesDone[s] > 0
     /\ pc[s] \in Points \ {"done", "record"} => cyclesDone[s] < MaxCycles
     /\ pc[s] = "done" => cyclesDone[s] = MaxCycles /\ cyclesCompleted[s] = MaxCycles

(* Who is where: the part of the invariant that needs none of the spoons.  *)
ControlInv == TypeOK /\ LockHeld /\ SleepersAsleep /\ CyclesFollow

IInv == ControlInv /\ SpoonExclusion /\ StateFollows /\ NoLostWakeup

-----------------------------------------------------------------------------
(* The spoon on a student's right is a spoon, is not the one on its left,  *)
(* and is on nobody else's right.                                          *)
LEMMA RightSpoon ==
  /\ \A s \in Students : rightSpoon(s) \in Students /\ rightSpoon(s) # s
  /\ \A s, o \in Students : rightSpoon(s) = rightSpoon(o) => s = o
<1>1. \A s \in Students : rightSpoon(s) = IF s = NumStudents - 1 THEN 0 ELSE s + 1
  BY DEF rightSpoon, Students
<1> QED
  BY <1>1 DEF Students

(* Every variable keeps its type, and in particular no thread counts past  *)
(* MaxCycles: the loop's test bounds cyclesDone, so the bound needs        *)
(* CyclesFollow, which needs to know that a notified thread was asleep.    *)
LEMMA ControlStep == ControlInv /\ [Next]_vars => ControlInv'
<1> SUFFICES ASSUME ControlInv, [Next]_vars
             PROVE  ControlInv'
  OBVIOUS
<1> USE DEF ControlInv, TypeOK, LockHeld, SleepersAsleep, CyclesFollow, Points, Critical,
           Holding, Goto, dataVars, NoOne, Students
<1>1. ASSUME NEW s \in Students, LockToCheck(s) PROVE ControlInv'
  <2>1. TypeOK' BY <1>1 DEF LockToCheck, Lock
  <2>2. LockHeld' BY <1>1 DEF LockToCheck, Lock
  <2>3. SleepersAsleep' BY <1>1 DEF LockToCheck, Lock
  <2>4. CyclesFollow' BY <1>1 DEF LockToCheck, Lock
  <2> QED BY <2>1, <2>2, <2>3, <2>4
<1>2. ASSUME NEW s \in Students, TakeSpoons(s) PROVE ControlInv'
  BY <1>2 DEF TakeSpoons
<1>3. ASSUME NEW s \in Students, FallAsleep(s) PROVE ControlInv'
  <2>1. TypeOK' BY <1>3 DEF FallAsleep, Unlock
  <2>2. LockHeld' BY <1>3 DEF FallAsleep, Unlock
  <2>3. SleepersAsleep' BY <1>3 DEF FallAsleep, Unlock
  <2>4. CyclesFollow' BY <1>3 DEF FallAsleep, Unlock
  <2> QED BY <2>1, <2>2, <2>3, <2>4
<1>4. ASSUME NEW s \in Students, StartEating(s) PROVE ControlInv'
  BY <1>4 DEF StartEating, Unlock
<1>5. ASSUME NEW s \in Students, StopEating(s) PROVE ControlInv'
  <2>1. TypeOK' BY <1>5 DEF StopEating, Lock
  <2>2. LockHeld' BY <1>5 DEF StopEating, Lock
  <2>3. SleepersAsleep' BY <1>5 DEF StopEating, Lock
  <2>4. CyclesFollow' BY <1>5 DEF StopEating, Lock
  <2> QED BY <2>1, <2>2, <2>3, <2>4
<1>6. ASSUME NEW s \in Students, giveUpSpoons(s) PROVE ControlInv'
  BY <1>6 DEF giveUpSpoons
<1>7. ASSUME NEW s \in Students, StartThinking(s) PROVE ControlInv'
  <2>1. TypeOK' BY <1>7 DEF StartThinking, Unlock
  <2>2. LockHeld' BY <1>7 DEF StartThinking, Unlock
  <2>3. SleepersAsleep' BY <1>7 DEF StartThinking, Unlock
  <2>4. CyclesFollow' BY <1>7 DEF StartThinking, Unlock
  <2> QED BY <2>1, <2>2, <2>3, <2>4
<1>8. ASSUME NEW s \in Students, NotifyOne(s) PROVE ControlInv'
  <2>1. TypeOK' BY <1>8 DEF NotifyOne
  <2>2. LockHeld' BY <1>8 DEF NotifyOne
  <2>3. SleepersAsleep' BY <1>8 DEF NotifyOne
  <2>4. CyclesFollow' BY <1>8 DEF NotifyOne
  <2> QED BY <2>1, <2>2, <2>3, <2>4
<1>9. ASSUME NEW s \in Students, StopThinking(s) PROVE ControlInv'
  <2>1. TypeOK'
    <3>a. pc[s] = "thinking" BY <1>9 DEF StopThinking
    <3>b. cyclesDone[s] < MaxCycles BY <3>a
    <3>c. cyclesDone[s] \in 0 .. MaxCycles OBVIOUS
    <3>1. cyclesDone[s] + 1 \in 0 .. MaxCycles BY ONLY <3>b, <3>c, CyclesAssumption
    <3>2. pc' \in [Students -> Points] BY <1>9 DEF StopThinking
    <3> QED BY <1>9, <3>1, <3>2 DEF StopThinking
  <2>2. LockHeld' BY <1>9 DEF StopThinking
  <2>3. SleepersAsleep' BY <1>9 DEF StopThinking
  <2>4. CyclesFollow' BY <1>9 DEF StopThinking
  <2> QED BY <2>1, <2>2, <2>3, <2>4
<1>10. ASSUME NEW s \in Students, Record(s) PROVE ControlInv'
  <2>1. TypeOK' BY <1>10 DEF Record
  <2>2. LockHeld' BY <1>10 DEF Record
  <2>3. SleepersAsleep' BY <1>10 DEF Record
  <2>4. CyclesFollow' BY <1>10 DEF Record
  <2> QED BY <2>1, <2>2, <2>3, <2>4
<1>11. ASSUME NEW s \in Students, SpuriousWake(s) PROVE ControlInv'
  <2>1. TypeOK' BY <1>11 DEF SpuriousWake
  <2>2. LockHeld' BY <1>11 DEF SpuriousWake
  <2>3. SleepersAsleep' BY <1>11 DEF SpuriousWake
  <2>4. CyclesFollow' BY <1>11 DEF SpuriousWake
  <2> QED BY <2>1, <2>2, <2>3, <2>4
<1>12. CASE Join
  BY <1>12 DEF Join, threadVars
<1>13. CASE UNCHANGED vars
  BY <1>13 DEF vars, threadVars
<1> QED
  BY <1>1, <1>2, <1>3, <1>4, <1>5, <1>6, <1>7, <1>8, <1>9, <1>10, <1>11, <1>12, <1>13
     DEF Next, student, Returned

(* Only taking and giving up spoons changes who holds what; in every other *)
(* step spoonStatus and the users of each spoon stay as they are.          *)
LEMMA UsersUnchanged ==
  ASSUME ControlInv, [Next]_vars,
         \A s \in Students : ~TakeSpoons(s) /\ ~giveUpSpoons(s)
  PROVE  UNCHANGED spoonStatus /\ \A k \in Students : Users(k)' = Users(k)
<1> USE DEF ControlInv, TypeOK, Points, Critical, Holding, Goto, dataVars, threadVars
<1> SUFFICES UNCHANGED spoonStatus
             /\ \A s \in Students : pc'[s] \in Holding <=> pc[s] \in Holding
  BY DEF Users, SpoonsOf, leftSpoon, rightSpoon
<1>1. CASE \E s \in Students : student(s)
  BY <1>1 DEF student, LockToCheck, FallAsleep, StartEating, StopEating, StartThinking,
              NotifyOne, StopThinking, Record, SleepersAsleep
<1>2. CASE \E s \in Students : SpuriousWake(s)
  BY <1>2 DEF SpuriousWake, SleepersAsleep
<1>3. CASE Join \/ UNCHANGED vars
  BY <1>3 DEF Join, vars
<1> QED
  BY <1>1, <1>2, <1>3 DEF Next, Returned

LEMMA SpoonStep == ControlInv /\ SpoonExclusion /\ [Next]_vars => SpoonExclusion'
<1> SUFFICES ASSUME ControlInv, SpoonExclusion, [Next]_vars
             PROVE  SpoonExclusion'
  OBVIOUS
<1>0. \A s \in Students : SpoonsOf(s) \subseteq Students
  BY RightSpoon DEF SpoonsOf, leftSpoon
<1>1. ASSUME NEW s \in Students, TakeSpoons(s) PROVE SpoonExclusion'
  <2>1. \A k \in Students : Users(k)' = IF k \in SpoonsOf(s) THEN Users(k) \union {s}
                                                           ELSE Users(k)
    BY <1>1 DEF TakeSpoons, Goto, Users, Holding, ControlInv, TypeOK,
                SpoonsOf, leftSpoon, rightSpoon
  <2>2. \A k \in SpoonsOf(s) : Users(k) = {}
    BY <1>0, <1>1 DEF TakeSpoons, CanTakeSpoons, SpoonExclusion
  <2>3. \A k \in Students : spoonStatus'[k] <=> spoonStatus[k] \/ k \in SpoonsOf(s)
    BY <1>1 DEF TakeSpoons
  <2> QED BY <2>1, <2>2, <2>3 DEF SpoonExclusion
<1>2. ASSUME NEW s \in Students, giveUpSpoons(s) PROVE SpoonExclusion'
  <2>1. \A k \in Students : Users(k)' = Users(k) \ {s}
    BY <1>2 DEF giveUpSpoons, Goto, Users, Holding, ControlInv, TypeOK,
                SpoonsOf, leftSpoon, rightSpoon
  <2>2. \A k \in Students : s \in Users(k) <=> k \in SpoonsOf(s)
    BY <1>2 DEF giveUpSpoons, Goto, Users, Holding
  <2>3. \A k \in Students : spoonStatus'[k] <=> spoonStatus[k] /\ k \notin SpoonsOf(s)
    BY <1>2 DEF giveUpSpoons
  <2> QED BY <2>1, <2>2, <2>3 DEF SpoonExclusion
<1>3. CASE \A s \in Students : ~TakeSpoons(s) /\ ~giveUpSpoons(s)
  BY <1>3, UsersUnchanged DEF SpoonExclusion
<1> QED BY <1>1, <1>2, <1>3

(* A student clearing the table still holds the mutex, so nobody can have  *)
(* taken the spoons it has just put down.                                  *)
LEMMA StateStep == ControlInv /\ StateFollows /\ [Next]_vars => StateFollows'
<1> SUFFICES ASSUME ControlInv, StateFollows, [Next]_vars
             PROVE  StateFollows'
  OBVIOUS
<1> USE DEF ControlInv, TypeOK, StateFollows, Points, Critical, Holding, Goto
<1>0. \A s \in Students : SpoonsOf(s)' = SpoonsOf(s) /\ SpoonsOf(s) \subseteq Students
  BY RightSpoon DEF SpoonsOf, leftSpoon, rightSpoon
<1>1. ASSUME NEW s \in Students, TakeSpoons(s) PROVE StateFollows'
  <2>1. \A o \in Students : pc[o] # "clearing"
    BY <1>1 DEF TakeSpoons, LockHeld
  <2> QED BY <2>1, <1>1 DEF TakeSpoons
<1>2. ASSUME NEW s \in Students, giveUpSpoons(s) PROVE StateFollows'
  BY <1>0, <1>2 DEF giveUpSpoons
<1>3. CASE \A s \in Students : ~TakeSpoons(s) /\ ~giveUpSpoons(s)
  <2>1. UNCHANGED spoonStatus
    BY <1>3, UsersUnchanged
  <2>2. ASSUME NEW s \in Students, student(s) PROVE StateFollows'
    BY <1>0, <1>3, <2>1, <2>2
       DEF student, LockToCheck, FallAsleep, StartEating, StopEating, StartThinking,
           NotifyOne, StopThinking, Record, SleepersAsleep, dataVars
  <2>3. ASSUME NEW s \in Students, SpuriousWake(s) PROVE StateFollows'
    BY <1>0, <2>1, <2>3 DEF SpuriousWake, SleepersAsleep, dataVars
  <2>4. CASE Join \/ UNCHANGED vars
    BY <1>0, <2>1, <2>4 DEF Join, vars, dataVars, threadVars
  <2> QED BY <2>2, <2>3, <2>4 DEF Next, Returned
<1> QED BY <1>1, <1>2, <1>3

(* A student goes to sleep because somebody holds one of its spoons, and   *)
(* that somebody has yet to notify; a notification is spent only on a      *)
(* waiter that then re-checks.                                             *)
LEMMA WakeupStep ==
  ControlInv /\ SpoonExclusion /\ NoLostWakeup /\ [Next]_vars => NoLostWakeup'
<1> SUFFICES ASSUME ControlInv, SpoonExclusion, NoLostWakeup, [Next]_vars, sleepers' # {}
             PROVE  \E s \in Students : pc'[s] \in Promising
  BY DEF NoLostWakeup
<1> USE DEF ControlInv, TypeOK, Points, Critical, Holding, Promising, Goto
<1>1. ASSUME NEW s \in Students, FallAsleep(s)
      PROVE  \E o \in Students : pc'[o] \in Promising
  <2>1. PICK k \in SpoonsOf(s) : spoonStatus[k]
    BY <1>1 DEF FallAsleep, CanTakeSpoons
  <2>2. k \in Students
    BY RightSpoon DEF SpoonsOf, leftSpoon
  <2>3. PICK o \in Users(k) : TRUE
    BY <2>1, <2>2 DEF SpoonExclusion
  <2>4. o \in Students /\ pc[o] \in Holding
    BY DEF Users
  <2> QED BY <1>1, <2>4 DEF FallAsleep
<1>2. ASSUME NEW s \in Students, NotifyOne(s)
      PROVE  \E o \in Students : pc'[o] \in Promising
  BY <1>2 DEF NotifyOne
<1>3. ASSUME NEW s \in Students, SpuriousWake(s)
      PROVE  \E o \in Students : pc'[o] \in Promising
  BY <1>3 DEF SpuriousWake
<1>4. ASSUME NEW s \in Students, StopThinking(s) \/ Record(s)
      PROVE  \E o \in Students : pc'[o] \in Promising
  <2>1. PICK o \in Students : pc[o] \in Promising
    BY <1>4 DEF NoLostWakeup, StopThinking, Record
  <2> QED BY <1>4, <2>1 DEF StopThinking, Record
<1>5. ASSUME NEW s \in Students, \/ LockToCheck(s) \/ TakeSpoons(s) \/ StartEating(s)
                                 \/ StopEating(s) \/ giveUpSpoons(s) \/ StartThinking(s)
      PROVE  \E o \in Students : pc'[o] \in Promising
  BY <1>5 DEF LockToCheck, TakeSpoons, StartEating, StopEating, giveUpSpoons, StartThinking
<1>6. CASE Join \/ UNCHANGED vars
  BY <1>6 DEF NoLostWakeup, Join, vars, threadVars
<1> QED
  BY <1>1, <1>2, <1>3, <1>4, <1>5, <1>6 DEF Next, student, Returned

-----------------------------------------------------------------------------
LEMMA Inductive == Spec => []IInv
<1>1. Init => IInv
  <2> SUFFICES ASSUME Init PROVE IInv
    OBVIOUS
  <2> USE DEF Init, Points, Critical, Holding
  <2>1. TypeOK BY DEF TypeOK
  <2>2. LockHeld /\ SleepersAsleep BY DEF LockHeld, SleepersAsleep, NoOne, Students
  <2>3. CyclesFollow BY DEF CyclesFollow
  <2>4. SpoonExclusion BY DEF SpoonExclusion, Users
  <2>5. StateFollows BY DEF StateFollows
  <2>6. NoLostWakeup BY DEF NoLostWakeup
  <2> QED BY <2>1, <2>2, <2>3, <2>4, <2>5, <2>6 DEF IInv, ControlInv
<1>2. IInv /\ [Next]_vars => IInv'
  BY ControlStep, SpoonStep, StateStep, WakeupStep DEF IInv
<1> QED BY <1>1, <1>2, PTL DEF Spec

(* Type correctness, and that no thread eats more than MaxCycles times.    *)
THEOREM TypeCorrect == Spec => []TypeOK
BY Inductive, PTL DEF IInv, ControlInv

(* No spoon is ever in two hands, whatever the interleaving of the locked  *)
(* and unlocked parts of student().                                        *)
THEOREM SpoonsExclusive == Spec => []SpoonExclusion
BY Inductive, PTL DEF IInv

(* While a student is blocked in wait, some thread is left to notify or to *)
(* re-check: one notify_one per meal is enough.                            *)
THEOREM WakeupKept == Spec => []NoLostWakeup
BY Inductive, PTL DEF IInv

(* What printStudentStatus logs never shows two neighbours eating.         *)
THEOREM LogIsConsistent == Spec => []LogConsistent
<1>1. IInv => LogConsistent
  <2> SUFFICES ASSUME IInv PROVE LogConsistent
    OBVIOUS
  <2> USE DEF IInv, ControlInv
  <2>1. ASSUME NEW s \in Students, state[s] = "eating", state[rightSpoon(s)] = "eating"
        PROVE  FALSE
    <3> DEFINE o == rightSpoon(s)
    <3>1. o \in Students /\ o # s /\ o \in SpoonsOf(s) /\ o \in SpoonsOf(o)
      BY RightSpoon DEF SpoonsOf, leftSpoon
    <3> HIDE DEF o
    <3>2. /\ pc[s] \in {"eating", "rising", "clearing"}
          /\ pc[o] \in {"eating", "rising", "clearing"}
      BY <2>1, <3>1 DEF StateFollows, o
    <3>3. CASE pc[s] = "clearing" /\ pc[o] = "clearing"
      BY <3>1, <3>3 DEF LockHeld, Critical
    <3>4. CASE pc[s] = "clearing" /\ pc[o] # "clearing"
      BY <3>1, <3>2, <3>4 DEF StateFollows, SpoonExclusion, Users, Holding
    <3>5. CASE pc[s] # "clearing" /\ pc[o] = "clearing"
      BY <3>1, <3>2, <3>5 DEF StateFollows, SpoonExclusion, Users, Holding
    <3>6. CASE pc[s] # "clearing" /\ pc[o] # "clearing"
      BY <3>1, <3>2, <3>6 DEF SpoonExclusion, Users, Holding
    <3> QED BY <3>3, <3>4, <3>5, <3>6
  <2>2. \A s \in Students : pc[s] = "done" => cyclesCompleted[s] = MaxCycles
    BY DEF CyclesFollow
  <2> QED BY <2>1, <2>2 DEF LogConsistent
<1> QED BY <1>1, Inductive, PTL

-----------------------------------------------------------------------------
(* The threads, locks and wake-ups implement the table.                    *)
LEMMA TableStep == IInv /\ [Next]_vars => [Table!TableNext]_<<Eating, Meals>>
<1> SUFFICES ASSUME IInv, [Next]_vars
             PROVE  [Table!TableNext]_<<Eating, Meals>>
  OBVIOUS
<1> USE DEF IInv, ControlInv, TypeOK, Points, Critical, Holding, Goto, Eating, Meals
<1>1. ASSUME NEW s \in Students, TakeSpoons(s) PROVE Table!Sit(s)
  <2>1. s \notin Eating /\ Eating' = Eating \union {s} /\ Meals' = Meals
    BY <1>1 DEF TakeSpoons
  <2>2. Meals[s] < MaxCycles
    BY <1>1 DEF TakeSpoons, CyclesFollow
  <2>3. ASSUME NEW o \in Eating, Table!Neighbours(s, o) PROVE FALSE
    <3>1. o \in Students /\ \E k \in Students : k \in SpoonsOf(s) /\ k \in SpoonsOf(o)
      BY <2>3, RightSpoon
         DEF Table!Neighbours, Table!OnTheRight, SpoonsOf, leftSpoon, rightSpoon
    <3> QED BY <1>1, <2>3, <3>1 DEF TakeSpoons, CanTakeSpoons, SpoonExclusion, Users
  <2> QED BY <2>1, <2>2, <2>3 DEF Table!Sit
<1>2. ASSUME NEW s \in Students, giveUpSpoons(s) PROVE Table!Rise(s)
  BY <1>2 DEF giveUpSpoons, Table!Rise
<1>3. ASSUME NEW s \in Students, student(s), ~TakeSpoons(s), ~giveUpSpoons(s)
      PROVE  UNCHANGED <<Eating, Meals>>
  BY <1>3 DEF student, LockToCheck, FallAsleep, StartEating, StopEating, StartThinking,
              NotifyOne, StopThinking, Record, SleepersAsleep, dataVars
<1>4. ASSUME NEW s \in Students, SpuriousWake(s) PROVE UNCHANGED <<Eating, Meals>>
  BY <1>4 DEF SpuriousWake, SleepersAsleep, dataVars
<1>5. CASE Join \/ UNCHANGED vars
  BY <1>5 DEF Join, vars, dataVars, threadVars
<1>6. Students = Table!Seats
  BY DEF Students, Table!Seats
<1> QED
  BY <1>1, <1>2, <1>3, <1>4, <1>5, <1>6 DEF Next, Returned, Table!TableNext

(* Every behaviour of the program is, seen from the table, a behaviour of  *)
(* DiningTable: neighbours never eat together, everyone eats MaxCycles     *)
(* times at most, and one meal is counted for each pair of spoons taken.   *)
THEOREM Implements == Spec => ImplementsTable
<1>1. Init => Table!TableInit
  BY DEF Init, Eating, Meals, Holding, Students, Table!TableInit, Table!Seats
<1> QED
  BY <1>1, Inductive, TableStep, PTL
     DEF Spec, ImplementsTable, Table!TableSpec, Table!tableVars
=============================================================================
