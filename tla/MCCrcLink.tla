------------------------------ MODULE MCCrcLink ------------------------------
(* CrcLink with single blocks that span all blocks - the division is linear *)
(* - unharmed, one block with every two flips, two blocks with every flip,  *)
(* and pairs of messages that two reads can run together.                   *)
EXTENDS CrcLink

A == <<1, 0, 1, 1, 0, 0, 1, 0>>
B == <<0, 1, 1, 0, 1, 0, 0, 1>>
Unit(k) == [i \in 1..8 |-> IF i = k THEN 1 ELSE 0]
Pairs == {<<<<A>>, <<B>>>>, <<<<>>, <<B>>>>}
MCPlans == {<<<<Unit(k)>>>> : k \in 0..8} \union {<<<<A>>>>, <<<<A, B>>>>} \union Pairs
MCMaxFlips == [p \in MCPlans |-> CASE p = <<<<A>>>> -> 2 [] p = <<<<A, B>>>> -> 1 [] OTHER -> 0]
=============================================================================
