----------------------- MODULE DiningStudentsHistory -----------------------
(***************************************************************************)
(* DiningStudents with two history variables that only record order: who   *)
(* has waited longest for its spoons, and who has slept longest since its  *)
(* last look at them.  notify_one is given the most favourable scheduler   *)
(* the report could have meant: it always wakes the longest sleeper.       *)
(***************************************************************************)
EXTENDS DiningStudents, SequencesExt

VARIABLES waitOrder,   \* students between l.79 and the return of wait
          sleepOrder   \* the sleepers

historyVars == <<vars, waitOrder, sleepOrder>>

Waiting == {s \in Students : pc[s] \in {"check", "asleep", "woken"}}

(* The members of S in the order they joined it, newcomers last.           *)
InOrder(seq, S) == SelectSeq(seq, LAMBDA s : s \in S) \o SetToSeq(S \ ToSet(seq))

HistoryInit == Init /\ waitOrder = <<>> /\ sleepOrder = <<>>

LongestSleeperWakes == sleepers \subseteq sleepers' \union {Head(sleepOrder)}

HistoryNext == /\ Next
               /\ sleepers # {} => LongestSleeperWakes
               /\ waitOrder' = InOrder(waitOrder, Waiting')
               /\ sleepOrder' = InOrder(sleepOrder, sleepers')

HistorySpec == HistoryInit /\ [][HistoryNext]_historyVars /\ Fairness

(* A1/Report.md l.65: "When notifying other threads after completion, the  *)
(* scheduler schedules the thread that has waited the most".  Read as      *)
(* kindly as the spoons allow: no student is notified over one who has     *)
(* waited longer and whose two spoons are free.                            *)
LongestWaitFirst ==
  [][\A i, j \in DOMAIN waitOrder :
       (i < j /\ waitOrder[j] \in sleepers \ sleepers' /\ waitOrder[i] \in sleepers)
          => ~CanTakeSpoons(waitOrder[i])]_historyVars
=============================================================================
