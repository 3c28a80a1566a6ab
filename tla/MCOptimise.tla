----------------------------- MODULE MCOptimise -----------------------------
(***************************************************************************)
(* TLC instances of Optimise: jumps, labels and dead code in the longer    *)
(* functions, every kind of condition in the shorter ones.                 *)
(***************************************************************************)
EXTENDS Optimise

Functions ==
    {[conditions |-> {"always", "var"}, surplus |-> {0, 1}, code |-> 5],
     [conditions |-> {"always", "var", "zero", "one"}, surplus |-> {0}, code |-> 4]}
=============================================================================
