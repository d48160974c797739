---------------------------- MODULE MCMergeSort ----------------------------
(* MergeSort on small files: every file of at most three bytes over three  *)
(* values, and longer ones that split unevenly or hold equal bytes.        *)
EXTENDS MergeSort

CONSTANT MaxLen

SmallFiles == UNION {[1 .. m -> 0 .. 2] : m \in 0 .. MaxLen}
LongFiles == {<<2, 0, 1, 0>>, <<3, 2, 1, 0>>, <<4, 0, 3, 1, 2>>, <<1, 3, 2, 5, 4, 0>>}
MCInputs == SmallFiles \union LongFiles
=============================================================================
