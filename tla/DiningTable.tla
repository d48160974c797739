---------------------------- MODULE DiningTable ----------------------------
(***************************************************************************)
(* What the dining program promises, with no locks, threads or wake-ups:   *)
(* students around a table sit down to eat and rise again, two neighbours  *)
(* never eat at the same time because they share a spoon, and a student    *)
(* takes exactly MaxCycles meals and then no more.                         *)
(***************************************************************************)
EXTENDS Naturals

CONSTANTS NumStudents,   \* students, and spoons, around the table
          MaxCycles      \* meals each student takes

VARIABLES eating,   \* the students who hold their two spoons
          meals     \* meals[s]: how often s has finished eating

tableVars == <<eating, meals>>

Seats == 0 .. NumStudents - 1
OnTheRight(s) == (s + 1) % NumStudents
Neighbours(s, o) == o = OnTheRight(s) \/ s = OnTheRight(o)

TableInit == /\ eating = {}
             /\ meals = [s \in Seats |-> 0]

Sit(s) == /\ s \notin eating
          /\ meals[s] < MaxCycles
          /\ \A o \in eating : ~Neighbours(s, o)
          /\ eating' = eating \union {s}
          /\ UNCHANGED meals

Rise(s) == /\ s \in eating
           /\ eating' = eating \ {s}
           /\ meals' = [meals EXCEPT ![s] = @ + 1]

TableNext == \E s \in Seats : Sit(s) \/ Rise(s)

TableSpec == TableInit /\ [][TableNext]_tableVars
=============================================================================
