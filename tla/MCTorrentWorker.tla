--------------------------- MODULE MCTorrentWorker ---------------------------
(* TorrentWorker with one worker that is called twice and meets mishaps;   *)
(* or with two whose calls overlap, and a call that meets what they left.  *)
EXTENDS TorrentWorker, TLC

CONSTANTS w1, w2, m1, m2, m3

MCPieces == m1 :> 2 @@ m2 :> 1 @@ m3 :> 0

MCBounds ==
  {[calls |-> (w1 :> links @@ w2 :> <<>>), mishaps |-> 2] :
      links \in {<<m1, m1>>, <<m1, m2>>, <<NoMagnet, m1>>}}
  \union {[calls |-> (w1 :> <<m2>> @@ w2 :> <<m2>>), mishaps |-> 0],
          [calls |-> (w1 :> <<m3, m3>> @@ w2 :> <<m3>>), mishaps |-> 0]}
=============================================================================
