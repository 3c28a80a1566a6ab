-------------------------------- MODULE Calls --------------------------------
(***************************************************************************)
(* Function calls, composed with the handlers of CodeGen.                  *)
(*                                                                         *)
(* create_postfix_expr_fun emits, once the arguments are evaluated: an Arg *)
(* for each register argument, SaveLive, an Arg for each other argument,   *)
(* the last one first, and Call.  A load through a pointer (MEM_EMIT) may  *)
(* stand before each Arg.  process_arg saves the caller's own parameter    *)
(* before it overwrites $a0..$a3, process_save_live saves the temporaries, *)
(* and process_call restores whatever temp_stack says was pushed.          *)
(*                                                                         *)
(* stack is the machine's stack below the frame, its top last: the id that *)
(* a word holds the latest value of, or None, which also stands for a      *)
(* constant.  temp_stack is the compiler's idea of it: the register each   *)
(* word was pushed from, or At for an argument, which is just dropped.     *)
(* The callee leaves no $t or $a register as it was.                       *)
(***************************************************************************)
EXTENDS CodeGen, Sequences, FiniteSets

CONSTANT MaxStackArgs    \* bound: arguments that are passed on the stack

ASSUME CallsAssumption == MaxStackArgs \in Nat

VARIABLES
    temp_stack, stack,
    passed,     \* the operands of the call's Args so far, as they were meant
    loaded,     \* the temporary that an Arg's operand has been loaded into, or None
    saved,      \* has the call's SaveLive been emitted?
    mishap      \* the first way in which a call has gone wrong, if one has

callVars == <<unit, fate, temp_stack, stack, passed, loaded, saved, mishap>>

At == -2
Constant == None

\* "swapped":  an Arg reads a parameter whose register an earlier Arg has taken
\* "unsaved":  a variable is in a $t register during the call
\* "unpushed": a parameter of the caller's is in a register that the call passes nothing in
\* "reloaded": the restored registers include the one of the call's result
Mishap == {"none", "swapped", "unsaved", "unpushed", "reloaded"}

\* Only the operand that was loaded for an Arg can be the Arg's, and only there.
MayPass(n, flag) ==
    /\ MayRead(fate, n, flag)
    /\ loaded # None => n = loaded /\ flag = "dead"

Blame(what, happens) == mishap' = IF mishap = "none" /\ happens THEN what ELSE mishap

ParamReg(k) == NumTempRegs + k

\* Mutant: the register's number is offset twice.
PushedPast(r) == [stack |-> Append(stack, unit.rv[r]), temp_stack |-> Append(temp_stack, r + NumRegArgs)]

Pushed(r) == [stack |-> Append(stack, unit.rv[r]), temp_stack |-> Append(temp_stack, r)]

\* The parameters that no longer are in their registers.
Overwritten == {id \in Args : unit.rv[ParamReg(id)] # id}

\* A register that gets the value a move copies from another.
Move(u, r, v) == [u EXCEPT !.rv[r] = v]

(***************************************************************************)
(* process_arg                                                             *)
(***************************************************************************)

\* The register holds a parameter of the caller's own.
SavesParameter(k) == k \in Args

\* Mutant: temp_stack is not told.
SaveParameterSilently(k) ==
    IF SavesParameter(k)
    THEN stack' = Pushed(ParamReg(k)).stack /\ UNCHANGED temp_stack
    ELSE UNCHANGED <<stack, temp_stack>>

SaveParameter(k) ==
    IF SavesParameter(k)
    THEN stack' = Pushed(ParamReg(k)).stack /\ temp_stack' = Pushed(ParamReg(k)).temp_stack
    ELSE UNCHANGED <<stack, temp_stack>>

RegisterArgUnit(u, k, n, flag) ==
    LET s == LoadOperand(u, n)
        w == ReadLine(s.u, IF n \in Overwritten THEN {} ELSE {<<n, s.r>>})
    IN  Release(Move(w, ParamReg(k), w.rv[s.r]), s.r, flag)

RegisterArg(n, flag) ==
    LET k == Len(passed)
    IN  /\ ~saved /\ k < NumRegArgs
        /\ MayPass(n, flag)
        /\ Outcome(RegisterArgUnit(unit, k, n, flag), Use!Promise(fate, n, flag))
        /\ SaveParameter(k)
        /\ passed' = Append(passed, n) /\ loaded' = None
        /\ Blame("swapped", n \in Overwritten)
        /\ UNCHANGED saved

\* "li" of a constant.
RegisterConstant ==
    LET k == Len(passed)
    IN  /\ ~saved /\ k < NumRegArgs /\ loaded = None
        /\ Outcome(Move(PlainLine(unit), ParamReg(k), Constant), fate)
        /\ SaveParameter(k)
        /\ passed' = Append(passed, Constant)
        /\ UNCHANGED <<loaded, saved, mishap>>

StackArgUnit(u, n, flag) ==
    LET s == LoadOperand(u, n)
    IN  Release(ReadLine(s.u, IF n \in Overwritten THEN {} ELSE {<<n, s.r>>}), s.r, flag)

\* Mutant: arguments are pushed before the temporaries are saved.
MayPushEarly == Len(passed) >= NumRegArgs /\ Len(passed) < NumRegArgs + MaxStackArgs

MayPush == saved /\ Len(passed) >= NumRegArgs /\ Len(passed) < NumRegArgs + MaxStackArgs

StackArg(n, flag) ==
    LET s == LoadOperand(unit, n)
    IN  /\ MayPush
        /\ MayPass(n, flag)
        /\ Outcome(StackArgUnit(unit, n, flag), Use!Promise(fate, n, flag))
        /\ stack' = Append(stack, s.u.rv[s.r])
        /\ temp_stack' = Append(temp_stack, At)
        /\ passed' = Append(passed, n) /\ loaded' = None
        /\ Blame("swapped", n \in Overwritten)
        /\ UNCHANGED saved

StackConstant ==
    /\ MayPush /\ loaded = None
    /\ Outcome(PlainLine(unit), fate)
    /\ stack' = Append(stack, Constant) /\ temp_stack' = Append(temp_stack, At)
    /\ passed' = Append(passed, Constant)
    /\ UNCHANGED <<loaded, saved, mishap>>

(***************************************************************************)
(* process_save_live with save_temps: the temporaries are pushed and stay  *)
(* where they are, the variables are stored and leave their registers.     *)
(***************************************************************************)

\* The members of a set of registers, lowest first.
Sorts(q, S) == \A i, j \in 1 .. Cardinality(S) : i < j => q[i] < q[j]

Ascending(S) == CHOOSE q \in [1 .. Cardinality(S) -> S] : Sorts(q, S)

\* Mutant: save_temps is not set.
SavedNone == {}

SavedRegs == {r \in TReg : unit.reg_alloc_info[r] \in Temps}

SaveTemps ==
    LET regs == Ascending(SavedRegs)
    IN  /\ ~saved /\ loaded = None
        /\ saved' = TRUE
        /\ stack' = stack \o [i \in DOMAIN regs |-> unit.rv[regs[i]]]
        /\ temp_stack' = temp_stack \o regs
        /\ Outcome(SaveLiveUnit(unit), fate)
        /\ UNCHANGED <<passed, loaded, mishap>>

(***************************************************************************)
(* process_call                                                            *)
(***************************************************************************)

\* The callee: nothing is left of what t0..t9 and a0..a3 held.
Clobber(u) == [u EXCEPT !.rv = [r \in Reg |-> None]]

\* The word that a register is restored from: the one pushed first is popped last.
Popped(r) ==
    LET at == {i \in DOMAIN temp_stack : temp_stack[i] = r}
    IN  stack[CHOOSE i \in at : \A j \in at : i <= j]

RestoredRegs == {temp_stack[i] : i \in DOMAIN temp_stack} \ {At}

Restore(u) ==
    [u EXCEPT !.rv = [r \in Reg |-> IF r \in RestoredRegs THEN Popped(r) ELSE @[r]]]

\* Mutant: the result always goes to the first register.
ResultInFirst(u, res, flag) ==
    IF res = None \/ flag = "dead" THEN [u |-> u, r |-> tINV]
    ELSE LET d == GetReg(u, 0, res, 2, TRUE) IN [u |-> Redefine(d.u, d.r, res, res), r |-> d.r]

\* res is the temporary that gets the value returned, or None.  get_reg may
\* evict for it, and the move comes before the registers are restored.
Result(u, res, flag) ==
    IF res = None \/ flag = "dead" THEN [u |-> u, r |-> tINV]
    ELSE LET d == LoadOperand(u, res) IN [u |-> Redefine(d.u, d.r, res, res), r |-> d.r]

Unsaved  == \E r \in TReg : unit.reg_alloc_info[r] \in NonTemps
Unpushed == \E id \in Args : fate[id] # "dead" /\ ParamReg(id) \notin RestoredRegs

Call(res, flag) ==
    LET d == Result(Clobber(unit), res, flag)
    IN  /\ saved /\ loaded = None
        /\ res # None => MayWrite(fate, res, flag) /\ Fresh(res)
        /\ res = None => flag = "dead"
        /\ Outcome(Restore(d.u), IF res = None THEN fate ELSE Use!Promise(fate, res, flag))
        /\ temp_stack' = <<>> /\ stack' = <<>> /\ passed' = <<>> /\ saved' = FALSE /\ UNCHANGED loaded
        /\ CASE Unsaved -> Blame("unsaved", TRUE)
             [] ~Unsaved /\ Unpushed -> Blame("unpushed", TRUE)
             [] OTHER -> Blame("reloaded", d.r \in RestoredRegs)

(***************************************************************************)
(* The next instruction.                                                   *)
(***************************************************************************)

Calling == saved \/ passed # <<>> \/ loaded # None

CallInit ==
    /\ Init
    /\ temp_stack = <<>> /\ stack = <<>> /\ passed = <<>> /\ loaded = None /\ saved = FALSE /\ mishap = "none"

\* The load of an argument that is reached through a pointer, before its Arg.
\* A dead temporary's name is not given away while an argument goes by it.
LoadThrough(p, fp, res) ==
    /\ loaded = None /\ \A i \in DOMAIN passed : passed[i] # res
    /\ IF saved THEN MayPush ELSE Len(passed) < NumRegArgs
    /\ Unary("!", p, fp, res, "next")
    /\ loaded' = res
    /\ UNCHANGED <<temp_stack, stack, passed, saved, mishap>>

Other ==
    /\ ~Calling
    /\ Handler
    /\ UNCHANGED <<temp_stack, stack, passed, loaded, saved, mishap>>

CallHandler ==
    \/ \E n \in Ids, flag \in Use!Flags : RegisterArg(n, flag) \/ StackArg(n, flag)
    \/ RegisterConstant \/ StackConstant
    \/ SaveTemps
    \/ \E res \in Temps \cup {None}, flag \in {"next", "dead"} : Call(res, flag)
    \/ \E p, res \in Temps, fp \in {"next", "dead"} : LoadThrough(p, fp, res)

CallNext == unit.panic = "none" /\ unit.fault = "none" /\ mishap = "none" /\ (CallHandler \/ Other)

CallSpec == CallInit /\ [][CallNext]_callVars

(***************************************************************************)
(* Properties.                                                             *)
(***************************************************************************)

\* The compiler's stack, the machine's and the call in progress have their types.
CallTypeOK ==
    /\ TypeOK
    /\ temp_stack \in Seq(Reg \cup {At}) /\ stack \in Seq(Ids \cup {None})
    /\ passed \in Seq(Ids \cup {None}) /\ saved \in BOOLEAN
    /\ loaded \in Temps \cup {None} /\ mishap \in Mishap

\* A compiler that an assertion has stopped has not finished the call.
Right == Sound /\ unit.panic = "none" /\ mishap = "none"

\* At the jal every argument is where the callee looks for it: in $a0..$a3, and
\* on the stack in the order of the parameters, on top of what the call saved.
ArgumentsArrive ==
    (Right /\ saved) =>
        \A k \in 1 .. Len(passed) :
            IF k <= NumRegArgs THEN unit.rv[ParamReg(k - 1)] = passed[k]
            ELSE stack[Len(stack) - Len(passed) + k] = passed[k]

\* Between calls whatever is needed again is found where the generator would
\* look for it: the temporaries and the caller's own parameters come back from
\* the stack into the registers they were saved from.
CallsKeepValues ==
    (Right /\ ~Calling) => \A id \in Ids : fate[id] \in {"in", "next", "out"} => Found(id)

\* temp_stack mirrors the machine's stack word for word, so that a call leaves
\* $sp where it was.
StackMirrored ==
    Sound => Len(stack) = Len(temp_stack) /\ (~Calling => stack = <<>>)

\* A call keeps reg_alloc_info and memory_locations in agreement.
CallTablesAgree == Agree(unit)
=============================================================================
