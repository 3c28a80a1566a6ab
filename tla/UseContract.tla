---------------------------- MODULE UseContract ----------------------------
(***************************************************************************)
(* What the (alive, next_use) pair of an operand promises the code         *)
(* generator about the rest of the basic block, stated without the         *)
(* instructions.  An access reads or writes one table id and carries       *)
(*   "next"  alive, next_use # null: the id is read next                   *)
(*   "out"   alive, next_use = null: no access follows, the value survives *)
(*   "dead"  not alive: the id is written next, if accessed at all         *)
(* fate[id] is the promise made by the id's last access in this block.     *)
(***************************************************************************)
CONSTANTS NonTemps, Temporaries

VARIABLE fate

Names == NonTemps \cup Temporaries
Flags == {"next", "out", "dead"}

ContractTypeOK == fate \in [Names -> Flags \cup {"in"}]

\* At the start of a block nothing is known of a variable and no temporary
\* is live (reset_tac_info_table).
BlockStart == [n \in Names |-> IF n \in NonTemps THEN "in" ELSE "dead"]

\* A temporary does not outlive its block.
FlagsFor(n) == IF n \in NonTemps THEN Flags ELSE {"next", "dead"}

CanRead(f, n)  == f[n] \in {"in", "next"}
CanWrite(f, n) == f[n] \in {"in", "dead"}
Promise(f, n, flag) == [f EXCEPT ![n] = flag]

\* Nothing promised is left open: no pending read, no pending overwrite.
CanEnd(f) == /\ \A n \in Names : f[n] # "next"
             /\ \A n \in NonTemps : f[n] # "dead"

Read(n, flag)  == CanRead(fate, n) /\ fate' = Promise(fate, n, flag)
Write(n, flag) == CanWrite(fate, n) /\ fate' = Promise(fate, n, flag)
EndBlock       == CanEnd(fate) /\ fate' = BlockStart

\* The operand of a return, the block's last access: promised to survive even
\* when it is a temporary.
ReturnRead(n) == CanRead(fate, n) /\ CanEnd(Promise(fate, n, "out")) /\ fate' = BlockStart

ContractInit == fate = BlockStart
ContractNext ==
    \/ \E n \in Names : \E flag \in FlagsFor(n) : Read(n, flag) \/ Write(n, flag)
    \/ \E n \in Names : ReturnRead(n)
    \/ EndBlock
ContractSpec == ContractInit /\ [][ContractNext]_fate
=============================================================================
