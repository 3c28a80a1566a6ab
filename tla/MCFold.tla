------------------------------- MODULE MCFold -------------------------------
(***************************************************************************)
(* TLC instances of Fold: sums and products through several quads,         *)
(* quotients, shifts and powers of two in shorter blocks, and variables    *)
(* that are called as a temporary is or as one another are.                *)
(***************************************************************************)
EXTENDS Fold

Apart     == <<<<"variable", 1>>, <<"variable", 2>>>>
Namesakes == <<<<"temporary", 1>>, <<"temporary", 1>>>>

Blocks ==
    {[ops |-> {"+", "-", "*"}, consts |-> {0, 1}, spread |-> 2, code |-> 3, names |-> Apart],
     [ops |-> {"*", "/", "%", "<<", ">>", "<"}, consts |-> {0, 1, 2, 5}, spread |-> 3, code |-> 2, names |-> Apart],
     [ops |-> {"+", "*"}, consts |-> {0, 1}, spread |-> 2, code |-> 2, names |-> Namesakes]}
=============================================================================
