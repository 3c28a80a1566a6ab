-------------------------------- MODULE Fold --------------------------------
(***************************************************************************)
(* arithmetic_optimise of 3ac.cpp: constant folding and algebraic          *)
(* simplification.  A quad that is simplified dies, and its result's       *)
(* address becomes a copy of an operand's, so that the quad that reads the *)
(* result, which holds the same address, reads the operand instead.        *)
(*                                                                         *)
(* The module makes a block of assignments as the expressions do, runs     *)
(* them with the optimiser's result, and compares with what they meant.    *)
(***************************************************************************)
EXTENDS Integers, Sequences, FiniteSetsExt

CONSTANTS Vars,      \* variables, numbered
          Bounds     \* the kinds of blocks to go through, and how their variables are called

ASSUME FoldAssumption ==
    /\ Vars \subseteq Nat
    /\ \A b \in Bounds : /\ b.consts \subseteq Nat /\ b.spread \in Nat /\ b.code \in Nat
                         /\ b.ops \subseteq {"+", "-", "*", "/", "%", "<", "<<", ">>"}
                         /\ b.names \in [Vars -> {"variable", "temporary"} \X Nat]

VARIABLES heap,        \* the addresses
          ta_code,     \* the quads, over places of the heap
          pending,     \* results of this expression nothing has read yet
          before,      \* heap and ta_code as the optimiser found them
          at,          \* the iterator
          phase, fault,
          bound        \* the block's bound, chosen once

vars == <<bound, heap, ta_code, pending, before, at, phase, fault>>

Consts  == bound.consts   \* bound: constants of the text
Ops     == bound.ops      \* bound: operations of the text
Spread  == bound.spread   \* bound: a variable holds -Spread .. Spread before the block
MaxCode == bound.code     \* bound: quads in the block

None == 0

\* What an address denotes.  Temporaries are numbered by their slot of the heap
\* instead of one after the other.
VariableId(v) == <<"variable", v>>
TempId(k)     == <<"temporary", k>>
NoId          == <<"none", 0>>

\* What it is called.  A constant's name is its value, as to_string and stoi have
\* it, and no other name is a number.  A variable has the name the text gives it,
\* which may be a temporary's ("t1") or that of a variable it shadows.
Number(c)       == <<"number", c>>
VariableName(v) == bound.names[v]
TempName(k)     == <<"temporary", k>>

Constant(c) == [con |-> TRUE, name |-> Number(c), table_id |-> NoId]
Variable(v) == [con |-> FALSE, name |-> VariableName(v), table_id |-> VariableId(v)]
Temp(k)     == [con |-> FALSE, name |-> TempName(k), table_id |-> TempId(k)]

Init ==
    /\ heap = <<>> /\ ta_code = <<>> /\ pending = {}
    /\ before = [heap |-> <<>>, code |-> <<>>]
    /\ at = 1 /\ phase = "emit" /\ fault = "none"
    /\ bound \in Bounds

(***************************************************************************)
(* The block: binary operations into temporaries, each read once, and an   *)
(* assignment at the end of every expression.                              *)
(***************************************************************************)
Leaves == {Constant(c) : c \in Consts} \cup {Variable(v) : v \in Vars}

Slot(n) == Len(heap) + n

\* Operands: an address of their own, or a result that waits to be read.
Sources(slot) == {<<slot, a>> : a \in Leaves} \cup {<<p, heap[p]>> : p \in pending}

Emit(result, op, x, y, place1, place2) ==
    /\ phase = "emit" /\ Len(ta_code) < MaxCode
    /\ heap' = heap \o <<result, x, y>>
    /\ ta_code' = Append(ta_code, [result |-> Slot(1), op |-> op, arg1 |-> place1, arg2 |-> place2, dead |-> FALSE])
    /\ UNCHANGED <<bound, before, at, phase, fault>>

EmitBinary ==
    \E op \in Ops, x \in Sources(Slot(2)), y \in Sources(Slot(3)) :
        /\ x[1] # y[1]
        /\ Emit(Temp(Slot(1)), op, x[2], y[2], x[1], y[1])
        /\ pending' = (pending \ {x[1], y[1]}) \cup {Slot(1)}
        /\ Cardinality(pending') <= MaxCode - Len(ta_code')

EmitAssign ==
    \E v \in Vars, x \in Sources(Slot(2)) :
        /\ pending \subseteq {x[1]} /\ pending' = {}
        /\ Emit(Variable(v), "=", x[2], x[2], x[1], None)

\* v op= x: the variable's one address is result and operand.
EmitCompound ==
    \E op \in Ops, v \in Vars, x \in Sources(Slot(3)) :
        /\ pending \subseteq {x[1]} /\ pending' = {}
        /\ Emit(Variable(v), op, Variable(v), x[2], Slot(1), x[1])

Start ==
    /\ phase = "emit" /\ ta_code # <<>> /\ pending = {}
    /\ phase' = "pass" /\ before' = [heap |-> heap, code |-> ta_code]
    /\ UNCHANGED <<bound, heap, ta_code, pending, at, fault>>

(***************************************************************************)
(* What operations mean; all but the last two fold.                        *)
(***************************************************************************)
Folding == {"+", "-", "*", "/", "<<", ">>"}

Quotient(x, y) ==
    LET q == (IF x < 0 THEN -x ELSE x) \div (IF y < 0 THEN -y ELSE y)
    IN  IF (x < 0) = (y < 0) THEN q ELSE -q

Pow2[k \in 0 .. 30] == IF k = 0 THEN 1 ELSE 2 * Pow2[k - 1]

Defined(op, x, y) == (op \in {"/", "%"} => y # 0) /\ (op \in {"<<", ">>"} => y \in 0 .. 30)

Meaning(op, x, y) ==
    CASE op = "+"  -> x + y
      [] op = "-"  -> x - y
      [] op = "*"  -> x * y
      [] op = "/"  -> Quotient(x, y)
      [] op = "%"  -> x - y * Quotient(x, y)
      [] op = "<<" -> x * Pow2[y]
      [] op = ">>" -> x \div Pow2[y]
      [] op = "<"  -> IF x < y THEN 1 ELSE 0

(***************************************************************************)
(* The optimiser at a quad.  Its tests are an else-if chain over the       *)
(* operands' names, in this order.                                         *)
(***************************************************************************)
Q    == ta_code[at]
Arg1 == heap[Q.arg1]
Arg2 == heap[Q.arg2]
Op(ops) == Q.op \in ops

\* stoi(name)
Value(a) == a.name[2]

Power(n) == \E k \in 0 .. 30 : n = Pow2[k]
Log2(n)  == CHOOSE k \in 0 .. 30 : n = Pow2[k]

Rules == <<"plus zero", "zero plus", "zero minus", "times zero", "zero times", "over zero", "zero over",
           "one on the right", "one times", "times power", "power times", "over power", "over itself",
           "minus itself", "none">>

Matches(rule) ==
    CASE rule = "plus zero"        -> Op({"+", "-"}) /\ Arg2.name = Number(0)
      [] rule = "zero plus"        -> Op({"+"}) /\ Arg1.name = Number(0)
      [] rule = "zero minus"       -> Op({"-"}) /\ Arg1.name = Number(0)
      [] rule = "times zero"       -> Op({"*"}) /\ Arg2.name = Number(0)
      [] rule = "zero times"       -> Op({"*"}) /\ Arg1.name = Number(0)
      [] rule = "over zero"        -> Op({"/"}) /\ Arg2.name = Number(0)
      [] rule = "zero over"        -> Op({"/"}) /\ Arg1.name = Number(0)
      [] rule = "one on the right" -> Op({"*", "/"}) /\ Arg2.name = Number(1)
      [] rule = "one times"        -> Op({"*"}) /\ Arg1.name = Number(1)
      [] rule = "times power"      -> Op({"*"}) /\ Arg2.con /\ Power(Value(Arg2))
      [] rule = "power times"      -> Op({"*"}) /\ Arg1.con /\ Power(Value(Arg1))
      [] rule = "over power"       -> Op({"/"}) /\ Arg2.con /\ Power(Value(Arg2))
      [] rule = "over itself"      -> Op({"/"}) /\ Arg2.name = Arg1.name
      [] rule = "minus itself"     -> Op({"-"}) /\ Arg2.name = Arg1.name
      [] rule = "none"             -> TRUE

Rule == Rules[Min({k \in DOMAIN Rules : Matches(Rules[k])})]

Constants == Arg1.con /\ Arg2.con
Simplify(rules) == phase = "pass" /\ at <= Len(ta_code) /\ Q.arg2 # None /\ ~Constants /\ Rule \in rules

Step(f) == /\ at' = at + 1
           /\ fault' = IF fault = "none" THEN f ELSE fault
           /\ UNCHANGED <<bound, pending, before, phase>>
Die     == ta_code' = [ta_code EXCEPT ![at].dead = TRUE]

\* x = x goes; any other copy stays.  Only the names are compared: t1 = a + b goes
\* when the sum is in the temporary t1, and int x = x when it copies an outer x.
OptimiseCopy ==
    /\ phase = "pass" /\ at <= Len(ta_code) /\ Q.arg2 = None
    /\ LET R    == heap[Q.result]
           dead == Arg1.name = R.name
       IN  /\ ta_code' = [ta_code EXCEPT ![at].dead = dead]
           /\ Step(IF dead /\ Arg1.table_id # R.table_id THEN "namesake" ELSE "none")
    /\ UNCHANGED heap

\* Two constants.  An operation the code does not fold leaves the first, and so
\* does a shift by a count out of range, which means nothing in the text either.
FoldConstants ==
    /\ phase = "pass" /\ at <= Len(ta_code) /\ Q.arg2 # None /\ Constants
    /\ IF Op({"/"}) /\ Value(Arg2) = 0
       THEN UNCHANGED <<heap, ta_code>> /\ Step("none")
       ELSE LET folded == Constant(IF Op(Folding) /\ Defined(Q.op, Value(Arg1), Value(Arg2))
                                 THEN Meaning(Q.op, Value(Arg1), Value(Arg2)) ELSE Value(Arg1))
            IN  /\ heap' = [heap EXCEPT ![Q.arg1] = folded, ![Q.result] = folded]
                /\ Die /\ Step(IF Op(Folding) THEN "none" ELSE "unfolded")

\* Mutant: the result is left with the name only, and no number.
AliasName(a, f) == heap' = [heap EXCEPT ![Q.result] = [a EXCEPT !.con = FALSE, !.table_id = NoId]] /\ Die /\ Step(f)

\* Mutant: the quad dies and its result stays the temporary.
AliasMissed(a, f) == UNCHANGED heap /\ Die /\ Step(f)

Alias(a, f) == heap' = [heap EXCEPT ![Q.result] = a] /\ Die /\ Step(f)

\* The result becomes the left operand.
BecomesLeft == Simplify({"plus zero", "one on the right"}) /\ Alias(Arg1, "none")

\* Mutant: 0 - x is simplified as 0 + x is.
BecomesRightMinus == Simplify({"zero plus", "zero minus", "one times"}) /\ Alias(Arg2, "none")

\* The result becomes the right operand.
BecomesRight == Simplify({"zero plus", "one times"}) /\ Alias(Arg2, "none")

\* The left operand is renamed to the constant the result should be and the
\* result becomes the left operand, which is a variable still unless it was a
\* constant: the generator finds a variable by its number, not by its name.
BecomesConstant ==
    /\ Simplify({"times zero", "zero times", "zero over", "over itself", "minus itself"})
    /\ LET a == [Arg1 EXCEPT !.name = Number(IF Rule = "over itself" THEN 1 ELSE 0)]
       IN  /\ heap' = [heap EXCEPT ![Q.arg1] = a, ![Q.result] = a]
           /\ Die /\ Step(IF a.con THEN "none" ELSE "renamed")

\* Multiplication and division by a power of two.  sra rounds down.
BecomesShift ==
    /\ Simplify({"times power", "over power"})
    /\ heap' = [heap EXCEPT ![Q.arg2].name = Number(Log2(Value(Arg2)))]
    /\ ta_code' = [ta_code EXCEPT ![at].op = IF Rule = "times power" THEN "<<" ELSE ">>"]
    /\ Step(IF Rule = "over power" THEN "rounding" ELSE "none")

\* 2^k * x: the left operand is overwritten before its exponent is taken, and
\* stoi throws on the name of a variable.
PowerTimesVariable ==
    /\ Simplify({"power times"})
    /\ phase' = "crashed"
    /\ UNCHANGED <<bound, heap, ta_code, pending, before, at, fault>>

Stays == /\ Simplify({"zero minus", "over zero", "none"})
         /\ UNCHANGED <<heap, ta_code>> /\ Step("none")

Finish ==
    /\ phase = "pass" /\ at > Len(ta_code)
    /\ phase' = "done"
    /\ UNCHANGED <<bound, heap, ta_code, pending, before, at, fault>>

Done == phase \in {"done", "crashed"} /\ UNCHANGED vars

Next ==
    \/ EmitBinary \/ EmitAssign \/ EmitCompound \/ Start
    \/ OptimiseCopy \/ FoldConstants \/ BecomesLeft \/ BecomesRight \/ BecomesConstant
    \/ BecomesShift \/ PowerTimesVariable \/ Stays \/ Finish \/ Done

Spec == Init /\ [][Next]_vars

(***************************************************************************)
(* The block run from values of the variables, by the variables' and       *)
(* temporaries' numbers, as the generated code does.                       *)
(***************************************************************************)
Ids == {VariableId(v) : v \in Vars} \cup {TempId(k) : k \in 1 .. 3 * MaxCode}

Read(mem, a) == IF a.con THEN Value(a) ELSE mem[a.table_id]

Beginning(start) == [ok |-> TRUE, mem |-> [i \in Ids |-> IF i[1] = "variable" THEN start[i[2]] ELSE 0]]

\* What a quad leaves of s.  ok is FALSE once an operation without a meaning was run.
Execute(q, h, s) ==
    LET x == Read(s.mem, h[q.arg1])
        y == IF q.arg2 = None THEN 0 ELSE Read(s.mem, h[q.arg2])
    IN  IF ~s.ok \/ q.dead THEN s
        ELSE IF q.arg2 # None /\ ~Defined(q.op, x, y) THEN [s EXCEPT !.ok = FALSE]
        ELSE [s EXCEPT !.mem[h[q.result].table_id] = IF q.arg2 = None THEN x ELSE Meaning(q.op, x, y)]

\* The states the code goes through.
Run(h, code, start) ==
    LET after[k \in 0 .. Len(code)] ==
            IF k = 0 THEN Beginning(start) ELSE Execute(code[k], h, after[k - 1])
    IN  after

Executed(h, code, start) == Run(h, code, start)[Len(code)]

(***************************************************************************)
(* Properties.                                                             *)
(***************************************************************************)

\* Addresses that are no constants denote a variable or a temporary, also after
\* they were overwritten.
TypeOK ==
    /\ DOMAIN heap = 1 .. 3 * Len(ta_code)
    /\ \A p \in DOMAIN heap : heap[p].con \/ heap[p].table_id \in Ids
    /\ pending \subseteq {p \in DOMAIN heap : ~heap[p].con}
    /\ at \in 1 .. MaxCode + 1 /\ phase \in {"emit", "pass", "done", "crashed"}
    /\ fault \in {"none", "unfolded", "renamed", "rounding", "namesake"}

\* Unless one of the simplifications known to be wrong was applied, the block
\* leaves in every variable what the text says, whatever it starts from.
MeaningKept ==
    (phase = "done" /\ fault = "none") =>
        \A start \in [Vars -> -Spread .. Spread] :
            LET was == Executed(before.heap, before.code, start)
                now == Executed(heap, ta_code, start)
            IN  was.ok => now.ok /\ \A v \in Vars : now.mem[VariableId(v)] = was.mem[VariableId(v)]

\* No quad that stays reads a temporary whose quad died: the result of a quad
\* that died is another address by the time its reader is reached.
NoTempLost ==
    phase = "done" =>
        \A k \in DOMAIN ta_code : ~ta_code[k].dead =>
            \A p \in {ta_code[k].arg1, ta_code[k].arg2} \ {None} :
                heap[p].table_id[1] = "temporary" =>
                    \E j \in 1 .. k - 1 : ~ta_code[j].dead /\ heap[ta_code[j].result].table_id = heap[p].table_id
=============================================================================
