----------------------------- MODULE MCCodeGen -----------------------------
(***************************************************************************)
(* TLC instances of CodeGen.  Temporaries are interchangeable, and so are  *)
(* variables; registers are not (start_issue orders them).                 *)
(***************************************************************************)
EXTENDS CodeGen, TLC

Interchangeable == Permutations(Temps) \cup Permutations(Vars)
=============================================================================
