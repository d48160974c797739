--------------------------- MODULE MCMatrixThreads ---------------------------
(* MatrixThreads with matrices in which every element, and so every term of *)
(* a cell, is another one.                                                  *)
EXTENDS MatrixThreads

MCInstances == (1..3) \X (1..3)
MCA == [cell \in (0..2) \X (0..2) |-> 1 + 3 * cell[1] + cell[2]]
MCB == [cell \in (0..2) \X (0..2) |-> 10 + cell[1] + 3 * cell[2]]
=============================================================================
