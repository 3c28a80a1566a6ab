------------------------------ MODULE CodeGen ------------------------------
(***************************************************************************)
(* gen_asm_code for the instructions that do not call a function: every    *)
(* handler of code_generator.cpp as one action over the allocator's unit.  *)
(*                                                                         *)
(* Which instruction comes next, on which operands and with which          *)
(* (alive, next_use) pair, is chosen freely within UseContract: fate holds *)
(* what the block's earlier accesses have promised.  create_next_use_info  *)
(* walks backwards through result, arg1, arg2, so the accesses of one      *)
(* instruction happen in the order arg2, arg1, result.                     *)
(***************************************************************************)
EXTENDS MemMan

VARIABLES unit, fate

vars == <<unit, fate>>

NonTemps == Vars \cup Args

Use == INSTANCE UseContract WITH Temporaries <- Temps

MayRead(f, n, flag)  == Use!CanRead(f, n) /\ flag \in Use!FlagsFor(n)
MayWrite(f, n, flag) == Use!CanWrite(f, n) /\ flag \in Use!FlagsFor(n)

\* new_temp and new_mem: a result is a temporary no instruction has named
\* before.  Only "t = t op arg2", which a compound assignment or an increment
\* through a pointer makes, writes a temporary again.
Fresh(n) == n \in Temps => ~unit.loc[n].known

\* What is still worth knowing between two instructions.  A register that is
\* not allocated is never read before it is written; nothing is claimed of
\* the machine after a fault; and the name of a dead temporary that left its
\* register stands for the next new temporary.
Forget(u, f) ==
    [u EXCEPT !.loc = [id \in Ids |-> IF id \in Temps /\ f[id] = "dead" /\ @[id].reg = tINV
                                      THEN InitLocation(id) ELSE @[id]],
              !.rv = [r \in Reg |-> IF u.fault # "none" \/ (r \in TReg /\ @[r] # u.reg_alloc_info[r])
                                    THEN None ELSE @[r]],
              !.mv = [id \in Ids |-> u.fault = "none" /\ @[id]],
              !.stale = IF u.fault = "none" THEN @ ELSE {}]

\* A handler that ran to its end, with the promises f that hold from here on,
\* or the state it began in and the assertion that stopped it.
Outcome(u, f) ==
    \/ /\ u.panic = "none"
       /\ unit' = Forget(u, f)
       /\ fate' = f
    \/ /\ u.panic # "none"
       /\ unit' = [unit EXCEPT !.panic = u.panic, !.fault = u.fault]
       /\ UNCHANGED fate

\* "xxxx" in front of an instruction whose result is dead.
MarkIf(u, fr) == IF fr = "dead" THEN Mark(u) ELSE u

LoadOperand(u, id) == GetReg(u, tINV, id, 2, TRUE)

\* Mutant: get_reg's mem_valid says that the home already has the result.
DestRegMemValid(u, dest, res) == GetReg(u, dest, res, 1, FALSE)

\* The result's register, which takes over the one of an operand that was freed.
DestReg(u, dest, res) == GetReg(u, dest, res, 0, FALSE)

\* Mutant: the register of an operand that is read next is handed over.
HandOverSwapped(flag, r, otherwise) == IF flag = "next" THEN r ELSE otherwise

HandOver(flag, r, otherwise) == IF flag = "next" THEN otherwise ELSE r

(***************************************************************************)
(* Quads.                                                                  *)
(***************************************************************************)

\* gen_asm_instr(operation, result, arg1, arg2)
BinaryUnit(u, a1, f1, a2, f2, res, fr) ==
    LET s1   == LoadOperand(MarkIf(u, fr), a1)
        s2   == LoadOperand(s1.u, a2)
        w    == Release(Release(s2.u, s2.r, f2), s1.r, f1)
        d    == DestReg(w, HandOver(f1, s1.r, HandOver(f2, s2.r, tINV)), res)
        line == DefLine(d.u, {<<a1, s1.r>>, <<a2, s2.r>>}, d.r, res, fr = "dead")
    IN  Settle(line, d.r, fr)

Binary(a1, f1, a2, f2, res, fr) ==
    LET g2 == Use!Promise(fate, a2, f2)
        g1 == Use!Promise(g2, a1, f1)
    IN  /\ MayRead(fate, a2, f2) /\ MayRead(g2, a1, f1) /\ MayWrite(g1, res, fr) /\ (res = a1 \/ Fresh(res))
        /\ Outcome(BinaryUnit(unit, a1, f1, a2, f2, res, fr), Use!Promise(g1, res, fr))

\* gen_asm_instr_imm and gen_asm_instr_limm with three operands.  The operand
\* is loaded before the mark; li says that "li $v1" comes before the result's line.
ImmediateUnit(u, a, fa, li, res, fr) ==
    LET s    == LoadOperand(u, a)
        w    == Release(MarkIf(s.u, fr), s.r, fa)
        d    == DestReg(w, HandOver(fa, s.r, tINV), res)
        pre  == IF li THEN PlainLine(d.u) ELSE d.u
        line == DefLine(pre, {<<a, s.r>>}, d.r, res, fr = "dead")
    IN  Settle(line, d.r, fr)

Immediate(a, fa, li, res, fr) ==
    LET g == Use!Promise(fate, a, fa)
    IN  /\ MayRead(fate, a, fa) /\ MayWrite(g, res, fr) /\ (res = a \/ Fresh(res))
        /\ Outcome(ImmediateUnit(unit, a, fa, li, res, fr), Use!Promise(g, res, fr))

\* The line of gen_asm_instr(operation, result, arg1) for "=", "la", "()" and
\* "!".  "=" has no line when source and destination are one register, which
\* then holds the result; "la" reads no value and has no line for an operand
\* without a home.
UnaryLine(u, op, a, src, dst, res, dead) ==
    CASE op = "=" /\ src = dst ->
           Redefine([u EXCEPT !.stale = @ \cup StaleReads(u, {<<a, src>>})], dst, res, res)
      [] op = "la" /\ ~u.loc[a].home -> Redefine(WithFault(u, "nocode"), dst, res, None)
      [] op = "la" /\ u.loc[a].home  -> DefLine(u, {}, dst, res, dead)
      [] OTHER                       -> DefLine(u, {<<a, src>>}, dst, res, dead)

UnaryUnit(u, op, a, fa, res, fr) ==
    LET s    == LoadOperand(MarkIf(u, fr), a)
        w    == Release(s.u, s.r, fa)
        d    == DestReg(w, HandOver(fa, s.r, tINV), res)
        line == UnaryLine(d.u, op, a, s.r, d.r, res, fr = "dead")
    IN  Settle(line, d.r, fr)

\* "()", whose pointer is a temporary, differs from "!" in nothing the unit tracks.
UnaryOp == {"=", "la", "!"}

Unary(op, a, fa, res, fr) ==
    LET g == Use!Promise(fate, a, fa)
    IN  /\ op = "la" => a \in NonTemps
        /\ MayRead(fate, a, fa) /\ MayWrite(g, res, fr) /\ Fresh(res)
        /\ Outcome(UnaryUnit(unit, op, a, fa, res, fr), Use!Promise(g, res, fr))

\* gen_asm_instr for "()s", the store through a pointer: the pointer, always
\* a temporary (new_mem), is read, and is not freed when it is dead.
StoreIndirectUnit(u, p, fp, a, fa) ==
    LET s    == LoadOperand(u, a)
        w    == Release(s.u, s.r, fa)
        d    == LoadOperand(w, p)
        line == ReadLine(d.u, {<<a, s.r>>, <<p, d.r>>})
    IN  Settle(line, d.r, fp)

StoreIndirect(p, fp, a, fa) ==
    LET g == Use!Promise(fate, a, fa)
    IN  /\ p \in Temps /\ MayRead(fate, a, fa) /\ MayRead(g, p, fp)
        /\ Outcome(StoreIndirectUnit(unit, p, fp, a, fa), Use!Promise(g, p, fp))

\* gen_asm_instr_imm for "()s": "li $v1" and the store.
StoreIndirectImmUnit(u, p, fp) ==
    LET d == LoadOperand(u, p)
    IN  Release(ReadLine(PlainLine(d.u), {<<p, d.r>>}), d.r, fp)

StoreIndirectImm(p, fp) ==
    /\ p \in Temps /\ MayRead(fate, p, fp)
    /\ Outcome(StoreIndirectImmUnit(unit, p, fp), Use!Promise(fate, p, fp))

\* Mutant: the result is settled, as in the other handlers, and then released.
LoadImmediateUnitFreesTwice(u, res, fr) ==
    LET d == DestReg(MarkIf(u, fr), tINV, res)
    IN  Release(Settle(DefLine(d.u, {}, d.r, res, fr = "dead"), d.r, fr), d.r, fr)

\* gen_asm_instr_imm for "=": a dead result gives its register back.
LoadImmediateUnit(u, res, fr) ==
    LET d == DestReg(MarkIf(u, fr), tINV, res)
    IN  Release(DefLine(d.u, {}, d.r, res, fr = "dead"), d.r, fr)

LoadImmediate(res, fr) ==
    /\ MayWrite(fate, res, fr) /\ Fresh(res)
    /\ Outcome(LoadImmediateUnit(unit, res, fr), Use!Promise(fate, res, fr))

\* process_quad on two constants that arithmetic_optimise left unfolded: a
\* register is assigned and nothing computes the result.
ConstantPairUnit(u, res, fr) ==
    LET d == DestReg(u, tINV, res)
    IN  Settle(Redefine(WithFault(d.u, "nocode"), d.r, res, None), d.r, fr)

ConstantPair(res, fr) ==
    /\ MayWrite(fate, res, fr) /\ Fresh(res)
    /\ Outcome(ConstantPairUnit(unit, res, fr), Use!Promise(fate, res, fr))

(***************************************************************************)
(* Control flow.                                                           *)
(***************************************************************************)

\* Mutant: the operand is never released.
CondGotoUnitKeepsOperand(u, n, flag) ==
    LET s == LoadOperand(u, n)
    IN  ReadLine(s.u, {<<n, s.r>>})

\* process_goto with a condition.  The operand is released after the branch,
\* so on the taken path its store has not been executed: "late".
CondGotoUnit(u, n, flag) ==
    LET s     == LoadOperand(u, n)
        taken == ReadLine(s.u, {<<n, s.r>>})
        late  == flag = "out" /\ s.r \in TReg /\ ~taken.loc[n].in_mem
    IN  Release(IF late THEN WithFault(taken, "late") ELSE taken, s.r, flag)

\* The flag a block's last access carries, from reset_tac_info_table.
LastFlag(n) == IF n \in NonTemps THEN "out" ELSE "dead"

CondGoto(n) ==
    /\ MayRead(fate, n, LastFlag(n))
    /\ Use!CanEnd(Use!Promise(fate, n, LastFlag(n)))
    /\ Outcome(CondGotoUnit(unit, n, LastFlag(n)), Use!BlockStart)

\* What ends a block without naming an id: process_goto without a condition, a
\* label and a return of a constant are one line each, a return without a value
\* is none.
PlainEnd(line) ==
    /\ Use!CanEnd(fate)
    /\ Outcome(IF line THEN PlainLine(unit) ELSE unit, Use!BlockStart)

\* process_return.  create_next_use_info always sets alive on the operand, so
\* that a temporary, too, is stored.
ReturnUnit(u, n) ==
    LET s == LoadOperand(u, n)
    IN  Release(ReadLine(s.u, {<<n, s.r>>}), s.r, "out")

ReturnValue(n) ==
    /\ Use!CanRead(fate, n)
    /\ Use!CanEnd(Use!Promise(fate, n, "out"))
    /\ Outcome(ReturnUnit(unit, n), Use!BlockStart)

\* process_save_live without save_temps, as a dereference emits it: the
\* variables in t0..t9 are stored where they differ from their home, in
\* register order, and leave their registers.
SaveLiveUnit(u) ==
    LET held   == {r \in TReg : u.reg_alloc_info[r] \in NonTemps}
        dirty  == {r \in held : ~u.loc[u.reg_alloc_info[r]].in_mem}
        lost   == IF u.mark THEN First(dirty) ELSE {}
        ids    == {u.reg_alloc_info[r] : r \in held}
        stored == {u.reg_alloc_info[r] : r \in dirty \ lost}
        w      == IF lost # {} THEN Swallow(u) ELSE u
    IN  [w EXCEPT !.reg_alloc_info = [r \in TReg |-> IF r \in held THEN None ELSE @[r]],
                  !.loc = [id \in Ids |-> IF id \in ids
                                          THEN [@[id] EXCEPT !.reg = tINV, !.in_mem = TRUE]
                                          ELSE @[id]],
                  !.mv = [id \in Ids |-> IF id \in stored THEN u.rv[u.loc[id].reg] = id ELSE @[id]]]

SaveLive ==
    Outcome(SaveLiveUnit(unit), fate)

\* generate_footer and MemManUnit::reset; the next function starts over.
Reset(u) == [InitUnit EXCEPT !.fault = PlainLine(u).fault, !.stale = u.stale]

EndFunction ==
    /\ Use!CanEnd(fate)
    /\ Outcome(Reset(unit), Use!BlockStart)

Init == unit = InitUnit /\ fate = Use!BlockStart

Handler ==
    \/ \E a1, a2, res \in Ids, f1, f2, fr \in Use!Flags : Binary(a1, f1, a2, f2, res, fr)
    \/ \E a, res \in Ids, fa, fr \in Use!Flags, li \in BOOLEAN : Immediate(a, fa, li, res, fr)
    \/ \E op \in UnaryOp, a, res \in Ids, fa, fr \in Use!Flags : Unary(op, a, fa, res, fr)
    \/ \E p, a \in Ids, fp, fa \in Use!Flags : StoreIndirect(p, fp, a, fa)
    \/ \E p \in Ids, fp \in Use!Flags : StoreIndirectImm(p, fp)
    \/ \E res \in Ids, fr \in Use!Flags : LoadImmediate(res, fr)
    \/ \E res \in Ids, fr \in Use!Flags : ConstantPair(res, fr)
    \/ \E n \in Ids : CondGoto(n)
    \/ \E n \in Ids : ReturnValue(n)
    \/ \E line \in BOOLEAN : PlainEnd(line)
    \/ SaveLive
    \/ EndFunction

\* A failed assertion ends the compiler.
Next == unit.panic = "none" /\ Handler

Spec == Init /\ [][Next]_vars

(***************************************************************************)
(* Properties.                                                             *)
(***************************************************************************)

\* The tables and the promises have their types after every instruction.
TypeOK == unit \in Unit /\ Use!ContractTypeOK

\* reg_alloc_info and memory_locations describe one assignment: a slot names
\* an id exactly when the id's location names that register, so no register
\* is shared and none is lost, and register parameters stay in $a0..$a3.
\* get_empty_reg and get_reg update the two tables in different places, and a
\* freed operand's register is handed to the result by number.
TablesAgree == Agree(unit)

\* Where the generator would find id now, the machine has id's latest value.
Found(id) == IF unit.loc[id].reg # tINV THEN unit.rv[unit.loc[id].reg] = id ELSE unit.mv[id]

Sound == unit.fault = "none"

\* As long as none of the known faults has happened, no emitted line has read
\* a register that did not hold the latest value of the operand it stands for.
ReadsFresh == Sound => unit.stale = {}

\* An id whose value is still needed (read later in the block, or after it) is
\* found by the next get_reg: no eviction, hand-over of an operand's register
\* or skipped store loses the only copy.
ValuesKept == Sound => \A id \in Ids : fate[id] \in {"in", "next", "out"} => Found(id)

\* in_mem is what store_and_free_reg trusts to skip a store: when it is set on
\* a variable that is not about to be overwritten, the home is up to date.
InMemTruthful == Sound => \A id \in Vars : fate[id] # "dead" /\ unit.loc[id].in_mem => unit.mv[id]

\* At the first instruction of a block, whatever block ran before, variables
\* are in their homes and in no register, and parameters in theirs: the
\* generator walks the blocks in text order, the machine in any order.
BlocksIndependent ==
    (Sound /\ fate = Use!BlockStart) =>
        /\ \A id \in Vars : unit.loc[id].reg = tINV /\ unit.loc[id].in_mem /\ unit.mv[id]
        /\ \A id \in Args : unit.rv[NumTempRegs + id] = id

\* While the generated code is right, the assertions of free_reg and
\* store_and_free_reg and those on the load paths of get_reg never fail.
OnlyKnownAborts == Sound => unit.panic \in {"none", "empty_reg", "store"}

(***************************************************************************)
(* What the assertions of code_generator.cpp claim, and the code violates. *)
(***************************************************************************)

\* code_generator.cpp:116-117, "PANIC: Unable to find empty register": a
\* register can always be made available, by evicting a variable if need be.
EmptyRegAlwaysFound == unit.panic # "empty_reg"

\* code_generator.cpp:236-238: whatever store_and_free_reg stores has a home,
\* on the frame or in .data.
StoreHasHome == unit.panic # "store"

\* code_generator.cpp:185 and 197: the register an operand was read from still
\* holds an id when the operand is freed.
FreedRegHeld == unit.panic # "free"
=============================================================================
