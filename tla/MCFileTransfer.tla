---------------------------- MODULE MCFileTransfer ---------------------------
(* FileTransfer with one user who types three commands and meets a mishap, *)
(* or two who share the server; and with one who types one command.        *)
EXTENDS FileTransfer

CONSTANTS u1, u2, f1, f2

MCBounds ==
  {[commands |-> (u1 :> 3 @@ u2 :> 0), mishaps |-> 1, files |-> {f1, f2}],
   [commands |-> (u1 :> 2 @@ u2 :> 0), mishaps |-> 1, files |-> {f1}],
   [commands |-> (u1 :> 2 @@ u2 :> 1), mishaps |-> 0, files |-> {f1}]}
MCOne == {[commands |-> (u1 :> 1), mishaps |-> 0, files |-> {}]}
=============================================================================
