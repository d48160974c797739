--------------------------- MODULE DiningStudents ---------------------------
(***************************************************************************)
(* A1/Q2/DiningStudents.cpp: NUM_STUDENTS threads around a table with as   *)
(* many spoons.  A student waits on one condition variable, under one      *)
(* mutex, until both its spoons are free; it takes both, eats, gives both  *)
(* up, notifies one waiter and thinks, MAX_CYCLES_ALLOWED times.           *)
(*                                                                         *)
(* studentLock is modelled with its holder.  spoonOperationsLock (l.24) is *)
(* only ever taken by a thread that holds studentLock (l.56 called from    *)
(* l.80), so it is never contended and the body of canTakeSpoons is one    *)
(* step.  cout, the sleeps' durations and the log's layout are left out:   *)
(* what printStudentStatus writes is the value of state and                *)
(* cyclesCompleted while the lock is held.                                 *)
(***************************************************************************)
EXTENDS Integers, FiniteSets

CONSTANTS NumStudents,   \* NUM_STUDENTS = NUM_SPOONS
          MaxCycles,     \* MAX_CYCLES_ALLOWED
          MaxSpurious    \* bound: spurious wake-ups in one execution

ASSUME NumAssumption == NumStudents \in Nat /\ NumStudents >= 2
ASSUME CyclesAssumption == MaxCycles \in Nat
ASSUME SpuriousAssumption == MaxSpurious \in Nat

VARIABLES pc,               \* where each student thread is
          studentLock,      \* the holder of the mutex, or NoOne
          sleepers,         \* the threads blocked in conditionVariable.wait
          spoonStatus,      \* spoonStatus[k]: spoon k is taken
          state,            \* studentStatus[s].state
          cyclesCompleted,  \* studentStatus[s].cyclesCompleted
          cyclesDone,       \* the thread's local counter
          joined,           \* how many threads main has joined
          spurious          \* spurious wake-ups that may still happen

threadVars == <<pc, studentLock, sleepers>>
dataVars == <<spoonStatus, state, cyclesCompleted, cyclesDone>>
vars == <<threadVars, dataVars, joined, spurious>>

Students == 0 .. NumStudents - 1
NoOne == -1

leftSpoon(s) == s
rightSpoon(s) == (s + 1) % NumStudents
SpoonsOf(s) == {leftSpoon(s), rightSpoon(s)}

(* Program points.  In Critical the thread holds studentLock; in Holding   *)
(* it has taken its spoons and not yet given them up.                      *)
Critical == {"check", "seated", "rising", "clearing"}
Holding == {"seated", "eating", "rising"}
Points == Critical \union Holding
          \union {"enter", "asleep", "woken", "notify", "thinking", "record", "done"}

Init == /\ pc = [s \in Students |-> IF 0 < MaxCycles THEN "enter" ELSE "done"]
        /\ studentLock = NoOne
        /\ sleepers = {}
        /\ spoonStatus = [k \in Students |-> FALSE]
        /\ state = [s \in Students |-> "waiting"]
        /\ cyclesCompleted = [s \in Students |-> 0]
        /\ cyclesDone = [s \in Students |-> 0]
        /\ joined = 0
        /\ spurious = MaxSpurious

Goto(s, from, to) == pc[s] = from /\ pc' = [pc EXCEPT ![s] = to]

Lock(s) == studentLock = NoOne /\ studentLock' = s
Unlock(s) == studentLock = s /\ studentLock' = NoOne

-----------------------------------------------------------------------------
(* l.79: a student comes to the table, or a woken waiter takes the mutex   *)
(* again inside wait; either way the predicate is evaluated next.          *)
LockToCheck(s) == /\ \/ Goto(s, "enter", "check")
                     \/ Goto(s, "woken", "check")
                  /\ Lock(s)
                  /\ UNCHANGED <<sleepers, dataVars, joined, spurious>>

(* A mistake this code could have made, kept to see the properties notice  *)
(* it: only the left spoon is looked at.                                   *)
CanTakeSpoonsLeftOnly(s) == ~spoonStatus[leftSpoon(s)]

CanTakeSpoons(s) == \A k \in SpoonsOf(s) : ~spoonStatus[k]

(* canTakeSpoons returns true: both spoons are taken and wait returns.     *)
TakeSpoons(s) == /\ Goto(s, "check", "seated")
                 /\ CanTakeSpoons(s)
                 /\ spoonStatus' = [k \in Students |-> spoonStatus[k] \/ k \in SpoonsOf(s)]
                 /\ UNCHANGED <<studentLock, sleepers, state, cyclesCompleted,
                                cyclesDone, joined, spurious>>

(* canTakeSpoons returns false: wait releases the mutex and blocks, in one *)
(* step as far as a notifier can tell.                                     *)
FallAsleep(s) == /\ Goto(s, "check", "asleep")
                 /\ ~CanTakeSpoons(s)
                 /\ Unlock(s)
                 /\ sleepers' = sleepers \union {s}
                 /\ UNCHANGED <<dataVars, joined, spurious>>

(* A mistake this code could have made, kept to see the properties notice  *)
(* it: the unlock of l.85 is missing.                                      *)
StartEatingKeepsLock(s) == /\ Goto(s, "seated", "eating")
                           /\ state' = [state EXCEPT ![s] = "eating"]
                           /\ UNCHANGED <<studentLock, sleepers, spoonStatus,
                                          cyclesCompleted, cyclesDone, joined, spurious>>

StartEating(s) == /\ Goto(s, "seated", "eating")
                  /\ Unlock(s)
                  /\ state' = [state EXCEPT ![s] = "eating"]
                  /\ UNCHANGED <<sleepers, spoonStatus, cyclesCompleted,
                                 cyclesDone, joined, spurious>>

(* A mistake this code could have made, kept to see the properties notice  *)
(* it: the lock of l.88 is missing.                                        *)
StopEatingUnlocked(s) == /\ Goto(s, "eating", "rising")
                         /\ UNCHANGED <<studentLock, sleepers, dataVars, joined, spurious>>

StopEating(s) == /\ Goto(s, "eating", "rising")
                 /\ Lock(s)
                 /\ UNCHANGED <<sleepers, dataVars, joined, spurious>>

giveUpSpoons(s) == /\ Goto(s, "rising", "clearing")
                   /\ spoonStatus' = [k \in Students |-> spoonStatus[k] /\ k \notin SpoonsOf(s)]
                   /\ UNCHANGED <<studentLock, sleepers, state, cyclesCompleted,
                                  cyclesDone, joined, spurious>>

StartThinking(s) == /\ Goto(s, "clearing", "notify")
                    /\ Unlock(s)
                    /\ state' = [state EXCEPT ![s] = "thinking"]
                    /\ UNCHANGED <<sleepers, spoonStatus, cyclesCompleted,
                                   cyclesDone, joined, spurious>>

(* A mistake this code could have made, kept to see the properties notice  *)
(* it: the notify_one of l.95 is missing.                                  *)
NotifyNobody(s) == /\ Goto(s, "notify", "thinking")
                   /\ UNCHANGED <<studentLock, sleepers, dataVars, joined, spurious>>

(* l.95, without the mutex: any one waiter wakes; with none the call is    *)
(* lost.                                                                   *)
NotifyOne(s) == /\ pc[s] = "notify"
                /\ \/ \E w \in sleepers :
                        /\ sleepers' = sleepers \ {w}
                        /\ pc' = [pc EXCEPT ![s] = "thinking", ![w] = "woken"]
                   \/ /\ sleepers = {}
                      /\ pc' = [pc EXCEPT ![s] = "thinking"]
                      /\ UNCHANGED sleepers
                /\ UNCHANGED <<studentLock, dataVars, joined, spurious>>

(* A mistake this code could have made, kept to see the properties notice  *)
(* it: the increment of l.99 is missing.                                   *)
StopThinkingUncounted(s) == /\ Goto(s, "thinking", "record")
                            /\ UNCHANGED <<studentLock, sleepers, dataVars, joined, spurious>>

StopThinking(s) == /\ Goto(s, "thinking", "record")
                   /\ cyclesDone' = [cyclesDone EXCEPT ![s] = @ + 1]
                   /\ UNCHANGED <<studentLock, sleepers, spoonStatus, state,
                                  cyclesCompleted, joined, spurious>>

(* A mistake this code could have made, kept to see the properties notice  *)
(* it: l.78 compares with <=.                                              *)
RecordOneMore(s) ==
  /\ Goto(s, "record", IF cyclesDone[s] <= MaxCycles THEN "enter" ELSE "done")
  /\ studentLock = NoOne
  /\ cyclesCompleted' = [cyclesCompleted EXCEPT ![s] = cyclesDone[s]]
  /\ state' = [state EXCEPT ![s] = "waiting"]
  /\ UNCHANGED <<studentLock, sleepers, spoonStatus, cyclesDone, joined, spurious>>

(* l.101-105 in one step (the mutex is held throughout), and the test of   *)
(* the loop.                                                               *)
Record(s) == /\ Goto(s, "record", IF cyclesDone[s] < MaxCycles THEN "enter" ELSE "done")
             /\ studentLock = NoOne
             /\ cyclesCompleted' = [cyclesCompleted EXCEPT ![s] = cyclesDone[s]]
             /\ state' = [state EXCEPT ![s] = "waiting"]
             /\ UNCHANGED <<studentLock, sleepers, spoonStatus, cyclesDone, joined, spurious>>

(* The standard lets wait return to its predicate without a notification.  *)
SpuriousWake(s) == /\ s \in sleepers
                   /\ spurious > 0
                   /\ spurious' = spurious - 1
                   /\ sleepers' = sleepers \ {s}
                   /\ pc' = [pc EXCEPT ![s] = "woken"]
                   /\ UNCHANGED <<studentLock, dataVars, joined>>

(* main joins the threads in the order of their numbers.                   *)
Join == /\ joined < NumStudents
        /\ pc[joined] = "done"
        /\ joined' = joined + 1
        /\ UNCHANGED <<threadVars, dataVars, spurious>>

Returned == joined = NumStudents /\ UNCHANGED vars

student(s) == \/ LockToCheck(s) \/ TakeSpoons(s) \/ FallAsleep(s) \/ StartEating(s)
              \/ StopEating(s) \/ giveUpSpoons(s) \/ StartThinking(s)
              \/ NotifyOne(s) \/ StopThinking(s) \/ Record(s)

Next == \/ \E s \in Students : student(s) \/ SpuriousWake(s)
        \/ Join
        \/ Returned

(* Runnable threads are scheduled and sleep_for returns.  Nothing is       *)
(* assumed of which waiter notify_one picks or of who wins the mutex.      *)
Fairness == /\ \A s \in 0 .. NumStudents - 1 : WF_vars(student(s))
            /\ WF_vars(Join)

Spec == Init /\ [][Next]_vars /\ Fairness
-----------------------------------------------------------------------------
TypeOK ==
  /\ pc \in [Students -> Points]
  /\ studentLock \in Students \union {NoOne}
  /\ sleepers \in SUBSET Students
  /\ spoonStatus \in [Students -> BOOLEAN]
  /\ state \in [Students -> {"waiting", "eating", "thinking"}]
  /\ cyclesCompleted \in [Students -> 0 .. MaxCycles]
  /\ cyclesDone \in [Students -> 0 .. MaxCycles]
  /\ joined \in 0 .. NumStudents
  /\ spurious \in 0 .. MaxSpurious

Users(k) == {s \in Students : pc[s] \in Holding /\ k \in SpoonsOf(s)}

(* Each spoon is in at most one student's hands, and spoonStatus, which is *)
(* all that canTakeSpoons consults, says exactly whether it is.            *)
SpoonExclusion ==
  \A k \in Students : /\ \A s, o \in Users(k) : s = o
                      /\ spoonStatus[k] <=> Users(k) # {}

(* Threads whose next steps lead to a notify_one, or to a fresh look at    *)
(* the spoons.                                                             *)
Promising == Holding \union {"clearing", "notify", "woken", "check"}

(* notify_one may wake a student who cannot eat yet, and who goes back to  *)
(* sleep: the notification is spent.  Even so, while a student sleeps some *)
(* thread is left that will notify, or is about to re-check, so the last   *)
(* wake-up is never lost.                                                  *)
NoLostWakeup == sleepers # {} => \E s \in Students : pc[s] \in Promising

(* The state change log, written after every change of state, never shows  *)
(* two neighbours eating, nor a finished student short of a meal.          *)
LogConsistent ==
  /\ \A s \in Students : state[s] = "eating" => state[rightSpoon(s)] # "eating"
  /\ \A s \in Students : pc[s] = "done" => cyclesCompleted[s] = MaxCycles

(* Every student eats all its meals and main returns, whichever waiter     *)
(* each notify_one picks.                                                  *)
AllJoined == <>(joined = NumStudents)

(* The threads implement the table: a student eats while it holds spoons,  *)
(* and the meal counts from the moment it gives them up.                   *)
Eating == {s \in Students : pc[s] \in Holding}
Meals == [s \in Students |->
            IF pc[s] \in {"clearing", "notify", "thinking"} THEN cyclesDone[s] + 1
                                                            ELSE cyclesDone[s]]
Table == INSTANCE DiningTable WITH eating <- Eating, meals <- Meals
ImplementsTable == Table!TableSpec
=============================================================================
