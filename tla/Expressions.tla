----------------------------- MODULE Expressions -----------------------------
(***************************************************************************)
(* The code of an expression, as the parser's reductions in expression.cpp *)
(* emit it: a reduction pops its operands from the parser's stack, emits   *)
(* quads over their addresses and pushes its result's address.  An object  *)
(* named by an identifier, or reached through a pointer held in a MEM      *)
(* address, is read when an operator uses it.                              *)
(*                                                                         *)
(* Beside the code the module evaluates the text: text is the memory as C  *)
(* says it is after the operators reduced so far.                          *)
(***************************************************************************)
EXTENDS Integers, Sequences

CONSTANT Bounds   \* the kinds of expressions to go through

ASSUME ExpressionsAssumption == \A b \in Bounds : b.steps \in Nat /\ b.stack \in Nat

VARIABLES heap,      \* every Address the parser made
          ta_code,
          stack,     \* the expressions on the parser's stack
          start,     \* memory before the expression
          text,      \* memory as the text has it
          active,    \* the text evaluates the operand being parsed
          truth,     \* what the text decides, if it is a condition
          steps, phase, fault,
          bound      \* the expression's bound, chosen once

given == <<start, bound>>
vars  == <<heap, ta_code, stack, given, text, active, truth, steps, phase, fault>>

Productions == bound.productions   \* bound: the reductions and variables in use
MaxSteps    == bound.steps         \* bound: reductions in the expression
MaxStack    == bound.stack         \* bound: operands that wait

(***************************************************************************)
(* Types and memory.                                                       *)
(***************************************************************************)
Word == 4

Type(ptr, agg) == [ptr |-> ptr, agg |-> agg]
Int4           == Type(0, "none")
Pointed(t)     == Type(t.ptr - 1, IF t.agg = "struct" THEN "struct" ELSE "none")
PointerTo(t)   == Type(t.ptr + 1, t.agg)
IsArray(t)     == t.agg = "array"
IsStruct(t)    == t = Type(0, "struct")
\* is_ea: a name that stands for an address, not for what is there.
IsEa(t)        == IsArray(t) \/ IsStruct(t)
IsPointer(t)   == t.ptr > 0

\* int x; int *p = a; int a[2]; struct { int f, g; } s, *sp = &s; int **pp = &p;
Declared ==
    [x |-> [cell |-> 4, type |-> Int4], p |-> [cell |-> 8, type |-> Type(1, "none")],
     a |-> [cell |-> 12, type |-> Type(1, "array")], s |-> [cell |-> 20, type |-> Type(0, "struct")],
     sp |-> [cell |-> 28, type |-> Type(1, "struct")], pp |-> [cell |-> 32, type |-> Type(2, "none")]]

Cells  == {4, 8, 12, 16, 20, 24, 28, 32}
Memory == {[c \in Cells |-> CASE c = 4 -> v [] c = 8 -> 12 [] c = 28 -> 20 [] c = 32 -> 8
                              [] c \in {12, 20} -> 1 [] OTHER -> 0] : v \in {0, 1}}
Wild   == -1000     \* what a wild address reads
At(mem, c) == IF c \in Cells THEN mem[c] ELSE Wild

None == 0

(***************************************************************************)
(* Addresses and code.  An output o is the heap and the code so far.       *)
(***************************************************************************)
Address(kind, var, ea, val) == [kind |-> kind, var |-> var, ea |-> ea, val |-> val, instr |-> None]
New3Id(v)   == Address("ID3", v.cell, IsEa(v.type), 0)
New3Const(n) == Address("CON", None, FALSE, n)
NewTemp     == Address("TEMP", None, FALSE, 0)
NewMem      == Address("MEM", None, FALSE, 0)

Out       == [heap |-> heap, code |-> ta_code]
With(o, a) == [o EXCEPT !.heap = Append(@, a)]
Last(o)   == Len(o.heap)

Alive(code, ks) == [k \in DOMAIN code |-> IF k \in ks THEN [code[k] EXCEPT !.dead = FALSE] ELSE code[k]]

Instr(op, result, arg1, arg2) ==
    [op |-> op, result |-> result, arg1 |-> arg1, arg2 |-> arg2, when |-> FALSE, to |-> None, dead |-> TRUE]

\* Mutant: the result remembers the quad after the one that computes it.
EmittedAhead(o, op, result, arg1, arg2) ==
    LET n == Len(o.code) + 1
    IN  [heap |-> [o.heap EXCEPT ![result].instr = n + 1],
         code |-> Append(o.code, Instr(op, result, arg1, arg2))]

\* Mutant: only the left operand's quad is found to be read.
EmittedLeftOnly(o, op, result, arg1, arg2) ==
    LET n == Len(o.code) + 1
    IN  [heap |-> [o.heap EXCEPT ![result].instr = n],
         code |-> Alive(Append(o.code, Instr(op, result, arg1, arg2)),
                        {o.heap[arg1].instr}
                        \cup (IF op = "()s" THEN {n, o.heap[result].instr} ELSE {})
                        \cup (IF o.heap[result].kind = "ID3" THEN {n} ELSE {}))]

\* emit: a quad is dead until a quad or a jump that reads its result is made,
\* but one that writes a variable, or through a pointer, is alive.
Emitted(o, op, result, arg1, arg2) ==
    LET n == Len(o.code) + 1
    IN  [heap |-> [o.heap EXCEPT ![result].instr = n],
         code |-> Alive(Append(o.code, Instr(op, result, arg1, arg2)),
                        {o.heap[a].instr : a \in {arg1, arg2} \ {None}}
                        \cup (IF op = "()s" THEN {n, o.heap[result].instr} ELSE {})
                        \cup (IF o.heap[result].kind = "ID3" THEN {n} ELSE {}))]

\* create_new_label with backpatch; no label when there is nothing to patch.
Labelled(o, jumps) ==
    IF jumps = {} THEN o
    ELSE LET n == Len(o.code) + 1
             code == Append(o.code, [Instr("label", None, None, None) EXCEPT !.dead = FALSE])
         IN  [o EXCEPT !.code = [k \in DOMAIN code |-> IF k \in jumps THEN [code[k] EXCEPT !.to = n] ELSE code[k]]]

\* create_new_goto_cond, or M_FALSE with set_res.  The jump of an expression
\* without an address tests nothing: it is always taken.
Jumped(o, res, when) ==
    [o EXCEPT !.code = Append(Alive(@, (IF res = None THEN {} ELSE {o.heap[res].instr}) \ {None}),
                              [Instr("goto", None, res, None) EXCEPT !.when = when, !.dead = FALSE])]

IsMem(o, a) == o.heap[a].kind = "MEM"

\* Mutant: the address is taken for what is there.
LoadedNot(o, a) == [o |-> o, at |-> a]

\* MEM_EMIT: what a MEM address points to is loaded into a temporary.
Loaded(o, a) ==
    IF ~IsMem(o, a) THEN [o |-> o, at |-> a]
    ELSE LET t == With(o, NewTemp) IN [o |-> Emitted(t, "()", Last(t), a, None), at |-> Last(t)]

\* o.at := arg1 op arg2, a new address of the kind of a.
Computed(o, a, op, arg1, arg2) == LET n == With(o, a) IN Emitted(n, op, Last(n), arg1, arg2)

(***************************************************************************)
(* The parser's stack.  cell is the object an expression names, or was     *)
(* computed into; val is its value when there is none.  bad is why its     *)
(* address does not give its value.                                        *)
(***************************************************************************)
Node(type, cell, val, addr) ==
    [type |-> type, cell |-> cell, val |-> val, addr |-> addr, lv |-> FALSE, known |-> active,
     true |-> {}, false |-> {}, mid |-> "none", saved |-> TRUE, unread |-> FALSE, bad |-> "none"]

Lvalue(type, cell, addr) == [Node(type, cell, 0, addr) EXCEPT !.lv = TRUE]

ValueIn(mem, n) == IF n.cell = None THEN n.val ELSE IF IsEa(n.type) THEN n.cell ELSE At(mem, n.cell)
Value(n) == ValueIn(text, n)
Truth(b) == IF b THEN 1 ELSE 0

Top    == stack[Len(stack)]
Second == stack[Len(stack) - 1]
Kind(n) == heap[n.addr].kind

\* The top n expressions wait for a reduction.
Waits(n) ==
    /\ phase = "expression" /\ steps < MaxSteps /\ Len(stack) >= n
    /\ \A k \in Len(stack) - n + 1 .. Len(stack) : stack[k].mid = "none"

\* A reduction of the top n expressions that uses their addresses.
Reduces(production, n) ==
    /\ Waits(n) /\ production \in Productions
    /\ \A k \in Len(stack) - n + 1 .. Len(stack) : stack[k].addr # None

\* The type of a comma expression is never set.
Invalid(n) == n.addr = None /\ n.bad = "comma"

Popped(n) == SubSeq(stack, 1, Len(stack) - n)

\* The first thing that goes wrong is kept.
Blame(wrongs) == fault' = IF fault = "none" /\ wrongs \ {"none"} # {}
                          THEN CHOOSE w \in wrongs \ {"none"} : TRUE ELSE fault

Reduced(n, o, node) ==
    /\ heap' = o.heap /\ ta_code' = o.code
    /\ stack' = Append(Popped(n), node)
    /\ steps' = steps + 1
    /\ UNCHANGED <<given, truth, phase>>

Pure == UNCHANGED <<text, active>>

\* The text writes v to a cell, if it evaluates this operand at all.
Write(c, v) == /\ active => c \in Cells
               /\ text' = IF active THEN [text EXCEPT ![c] = v] ELSE text
               /\ UNCHANGED active
Legal(c) == active => c \in Cells

Init ==
    /\ heap = <<>> /\ ta_code = <<>> /\ stack = <<>>
    /\ start \in Memory /\ text = start
    /\ active = TRUE /\ truth = FALSE
    /\ steps = 0 /\ phase = "expression" /\ fault = "none"
    /\ bound \in Bounds

(***************************************************************************)
(* Primary and postfix expressions.                                        *)
(***************************************************************************)
Identifier ==
    /\ Reduces("identifier", 0) /\ Len(stack) < MaxStack
    /\ \E v \in DOMAIN Declared \cap Productions :
          LET o == With(Out, New3Id(Declared[v]))
          IN  Reduced(0, o, Lvalue(Declared[v].type, Declared[v].cell, Last(o)))
    /\ Pure /\ UNCHANGED fault

Literal ==
    /\ Reduces("constant", 0) /\ Len(stack) < MaxStack
    /\ \E c \in {0, 1} :
          LET o == With(Out, New3Const(c))
          IN  Reduced(0, o, Node(Int4, None, c, Last(o)))
    /\ Pure /\ UNCHANGED fault

\* The index times the element's size; a constant index at compile time.
Scaled(o, a) ==
    IF o.heap[a].kind = "CON" THEN With(o, New3Const(Word * o.heap[a].val))
    ELSE LET c == With(o, New3Const(Word)) IN Computed(c, NewTemp, "*", a, Last(c))

\* e[i]: the index is not loaded.
Index ==
    /\ Reduces("index", 2) /\ IsPointer(Second.type) /\ Top.type = Int4
    /\ LET t1   == Scaled(Out, Top.addr)
           base == IF IsArray(Second.type) \/ ~IsMem(Out, Second.addr) THEN [o |-> t1, at |-> Second.addr]
                   ELSE LET t2 == Computed(t1, NewMem, "()", Second.addr, None) IN [o |-> t2, at |-> Last(t2)]
           o    == Computed(base.o, NewMem, "+", base.at, Last(t1))
           cell == Value(Second) + Word * Value(Top)
       IN  /\ Legal(cell)
           /\ Reduced(2, o, Lvalue(Pointed(Second.type), cell, Last(o)))
    /\ Blame({Second.bad, Top.bad, IF IsMem(Out, Top.addr) THEN "address" ELSE "none"})
    /\ Pure

\* The member at an offset from an address.
Offset(o, base, offset, copy) ==
    IF offset = 0 THEN Computed(o, NewMem, copy, base, None)
    ELSE LET c == With(o, New3Const(offset)) IN Computed(c, NewMem, "+", base, Last(c))

\* e.f
Member ==
    /\ Reduces("member", 1) /\ IsStruct(Top.type)
    /\ \E offset \in {0, Word} :
          LET o == Offset(Out, Top.addr, offset, "=")
          IN  Reduced(1, o, Lvalue(Int4, Top.cell + offset, Last(o)))
    /\ Blame({Top.bad}) /\ Pure

\* e->f: the pointer is loaded from a MEM address, for the first member into
\* the result itself.
Arrow ==
    /\ Reduces("arrow", 1) /\ Top.type = Type(1, "struct")
    /\ \E offset \in {0, Word} :
          LET o == IF offset = 0 THEN Computed(Out, NewMem, IF IsMem(Out, Top.addr) THEN "()" ELSE "=", Top.addr, None)
                   ELSE LET l == Loaded(Out, Top.addr) IN Offset(l.o, l.at, offset, "=")
          IN  /\ Legal(Value(Top) + offset)
              /\ Reduced(1, o, Lvalue(Int4, Value(Top) + offset, Last(o)))
    /\ Blame({Top.bad}) /\ Pure

\* The compiler's lvalues, where they are the text's.
Assignable(n) == n.lv /\ Kind(n) \in {"ID3", "MEM"} /\ n.bad = "none" /\ ~IsEa(n.type)

Increment(n) == IF IsPointer(n.type) THEN Word ELSE 1

\* A pointer that was computed is held in a MEM address: it will be loaded from.
PointerBad(type) == IF IsPointer(type) THEN "pointer" ELSE "none"

\* e++
PostIncrement ==
    /\ Reduces("post", 1) /\ Assignable(Top)
    /\ LET inc == With(Out, New3Const(Increment(Top)))
           res == With(inc, IF IsPointer(Top.type) THEN NewMem ELSE NewTemp)
           r   == Last(res)
           o   == IF IsMem(Out, Top.addr)
                  THEN LET t1 == With(Emitted(res, "()", r, Top.addr, None), NewTemp)
                           t  == Last(t1)
                       IN  Emitted(Emitted(Emitted(t1, "=", t, r, None), "+", t, t, Last(inc)), "()s", Top.addr, t, None)
                  ELSE Emitted(Emitted(res, "=", r, Top.addr, None), "+", Top.addr, Top.addr, Last(inc))
       IN  Reduced(1, o, [Node(Top.type, None, Value(Top), r) EXCEPT !.bad = PointerBad(Top.type)])
    /\ Write(Top.cell, Value(Top) + Increment(Top))
    /\ UNCHANGED fault

Retyped(o, a) == [o EXCEPT !.heap[a].kind = "TEMP"]

\* ++e: the variable's address becomes a temporary's before the quad is made.
PreIncrement ==
    /\ Reduces("pre", 1) /\ Assignable(Top)
    /\ LET inc == With(Out, New3Const(Increment(Top)))
           res == With(inc, IF IsPointer(Top.type) THEN NewMem ELSE NewTemp)
           r   == Last(res)
       IN  IF IsMem(Out, Top.addr)
           THEN LET t1 == Computed(res, NewTemp, "()", Top.addr, None)
                    o  == Emitted(Emitted(t1, "+", r, Last(t1), Last(inc)), "()s", Top.addr, r, None)
                IN  Reduced(1, o, [Node(Top.type, None, Value(Top) + Increment(Top), r) EXCEPT !.bad = PointerBad(Top.type)])
           ELSE LET o == Emitted(Retyped(res, Top.addr), "+", Top.addr, Top.addr, Last(inc))
                IN  Reduced(1, o, [Node(Top.type, Top.cell, 0, Top.addr) EXCEPT !.unread = TRUE])
    /\ Write(Top.cell, Value(Top) + Increment(Top))
    /\ UNCHANGED fault

(***************************************************************************)
(* Unary expressions and casts.                                            *)
(***************************************************************************)

\* !e: the lists are patched to a label here, as both ways go on.
LogicalNot ==
    /\ Reduces("not", 1) /\ Top.type = Int4
    /\ LET l == Loaded(Out, Top.addr)
           b == Labelled(l.o, Top.true \cup Top.false)
           o == Computed(b, NewTemp, "!", l.at, None)
       IN  Reduced(1, o, [Node(Int4, None, Truth(Value(Top) = 0), Last(o)) EXCEPT !.true = Top.false, !.false = Top.true])
    /\ Blame({Top.bad}) /\ Pure

\* &e
AddressOf ==
    /\ Reduces("address", 1) /\ Top.lv /\ Kind(Top) \in {"ID3", "MEM"} /\ ~IsArray(Top.type) /\ Top.type.ptr < 2
    /\ LET o == Computed(Out, NewTemp, IF IsMem(Out, Top.addr) THEN "=" ELSE "la", Top.addr, None)
       IN  Reduced(1, o, Node(PointerTo(Top.type), None, Top.cell, Last(o)))
    /\ Blame({Top.bad}) /\ Pure

\* *e
Dereference ==
    /\ Reduces("star", 1) /\ IsPointer(Top.type) /\ ~IsArray(Top.type) /\ Kind(Top) \in {"ID3", "MEM"}
    /\ Legal(Value(Top))
    /\ LET o == Computed(Out, NewMem, IF IsMem(Out, Top.addr) THEN "()" ELSE "=", Top.addr, None)
       IN  Reduced(1, o, Lvalue(Pointed(Top.type), Value(Top), Last(o)))
    /\ Blame({Top.bad}) /\ Pure

\* -e and +e
Sign ==
    /\ Reduces("sign", 1) /\ Top.type = Int4
    /\ LET l == Loaded(Out, Top.addr)
           z == With(l.o, New3Const(0))
           o == Computed(z, NewTemp, "-", Last(z), l.at)
       IN  Reduced(1, o, Node(Int4, None, -Value(Top), Last(o)))
    /\ Blame({Top.bad}) /\ Pure

\* (int) e: the operand's own address, unless it was loaded.
Cast ==
    /\ Reduces("cast", 1) /\ Top.type = Int4
    /\ LET l == Loaded(Out, Top.addr)
       IN  Reduced(1, l.o, IF IsMem(Out, Top.addr) THEN Node(Int4, None, Value(Top), l.at)
                           ELSE [Node(Int4, Top.cell, Top.val, l.at) EXCEPT !.unread = Top.unread])
    /\ Blame({Top.bad}) /\ Pure

(***************************************************************************)
(* Binary expressions.                                                     *)
(***************************************************************************)
Defined(op, x, y) ==
    /\ op \in {"%", "/"} => x >= 0 /\ y > 0
    /\ op \in {"&", "|", "^", "<<"} => x >= 0 /\ y \in 0 .. 15

Pow2[n \in 0 .. 15] == IF n = 0 THEN 1 ELSE 2 * Pow2[n - 1]
Bit(x, i) == (x \div Pow2[i]) % 2

\* x & y, of a y of four bits.
Common(x, y) ==
    LET low[i \in 0 .. 4] == IF i = 0 THEN 0 ELSE low[i - 1] + Bit(x, i - 1) * Bit(y, i - 1) * Pow2[i - 1]
    IN  low[4]

Meaning(op, x, y) ==
    IF ~Defined(op, x, y) THEN Wild
    ELSE CASE op = "+"  -> x + y
           [] op = "-"  -> x - y
           [] op = "*"  -> x * y
           [] op = "/"  -> x \div y
           [] op = "%"  -> x % y
           [] op = "&"  -> Common(x, y)
           [] op = "|"  -> x + y - Common(x, y)
           [] op = "^"  -> x + y - 2 * Common(x, y)
           [] op = "<<" -> x * Pow2[y]
           [] op = "<"  -> Truth(x < y)
           [] op = "==" -> Truth(x = y)

BothLoaded(first, second) ==
    LET f == Loaded(Out, first)
        s == Loaded(f.o, second)
    IN  [o |-> s.o, first |-> f.at, second |-> s.at]

\* An operator on two loaded operands.
Operator(op, leftFirst) ==
    /\ Reduces(op, 2)
    /\ active => Defined(op, Value(Second), Value(Top))
    /\ LET l == IF leftFirst THEN BothLoaded(Second.addr, Top.addr) ELSE BothLoaded(Top.addr, Second.addr)
           o == IF leftFirst THEN Computed(l.o, NewTemp, op, l.first, l.second)
                ELSE Computed(l.o, NewTemp, op, l.second, l.first)
       IN  Reduced(2, o, Node(Int4, None, Meaning(op, Value(Second), Value(Top)), Last(o)))
    /\ Blame({Second.bad, Top.bad}) /\ Pure

Ints == Len(stack) > 1 /\ Top.type = Int4 /\ Second.type = Int4
Ptrs == Len(stack) > 1 /\ IsPointer(Top.type) /\ Top.type = Second.type

Multiplicative == \E op \in {"*", "/", "%"} : Ints /\ Operator(op, TRUE)
Additive       == \E op \in {"+", "-"} : Ints /\ Operator(op, TRUE)
\* Shifts and comparisons load the right operand first.
Shift          == Ints /\ Operator("<<", FALSE)
Relational     == Ints /\ Operator("<", FALSE)
Equality       == (Ints \/ Ptrs) /\ Operator("==", TRUE)
BitAnd         == Ints /\ Operator("&", TRUE)
ExclusiveOr    == Ints /\ Operator("^", TRUE)
InclusiveOr    == Ints /\ Operator("|", TRUE)

\* A pointer plus an integer, in either order: the pointer is not loaded.
PointerPlus ==
    /\ Reduces("+", 2)
    /\ \E left \in BOOLEAN :
          LET ptr == IF left THEN Second ELSE Top
              int == IF left THEN Top ELSE Second
              l   == Loaded(Out, int.addr)
              w   == With(l.o, New3Const(Word))
              t2  == Computed(w, NewTemp, "*", l.at, Last(w))
              o   == Computed(t2, NewMem, "+", ptr.addr, Last(t2))
          IN  /\ IsPointer(ptr.type) /\ int.type = Int4
              /\ Reduced(2, o, [Node(ptr.type, None, Value(ptr) + Word * Value(int), Last(o)) EXCEPT !.bad = "pointer"])
              /\ Blame({ptr.bad, int.bad, IF IsMem(Out, ptr.addr) THEN "address" ELSE "none"})
    /\ Pure

(***************************************************************************)
(* && and ||.  The jump behind the left operand tests its address.         *)
(***************************************************************************)
InCondition(n) == IF n.bad = "short-circuit" THEN "none" ELSE n.bad
Tested(n)      == IF n.addr # None /\ IsMem(Out, n.addr) THEN "address" ELSE "none"

\* The action behind AND_OP (when is FALSE) and OR_OP.
LeftOperand(op, when) ==
    /\ Waits(1) /\ op \in Productions
    /\ Top.addr # None => Top.type = Int4
    /\ LET jump == Jumped(Out, Top.addr, when)
           g    == {Len(jump.code)}
           o    == Labelled(jump, IF when THEN Top.false ELSE Top.true)
       IN  /\ heap' = o.heap /\ ta_code' = o.code
           /\ stack' = Append(Popped(1), [Top EXCEPT !.mid = op, !.saved = active, !.val = Value(Top), !.cell = None,
                                                     !.true = IF when THEN @ \cup g ELSE {},
                                                     !.false = IF when THEN {} ELSE @ \cup g])
    /\ active' = (active /\ (Value(Top) # 0) # when)
    /\ Blame({InCondition(Top), Tested(Top)})
    /\ UNCHANGED <<given, text, truth, steps, phase>>

AndOp == LeftOperand("and", FALSE)
OrOp  == LeftOperand("or", TRUE)

\* Mutant: the left operand's jumps are not among the result's.
JoinedRight(l, r) == [true |-> r.true, false |-> r.false]

\* The left operand's lists hold what the action behind it left there; those
\* of an invalid operand's expression are dropped, so that its jump leads nowhere.
Joined(l, r) ==
    IF Invalid(l) \/ Invalid(r) THEN [true |-> {}, false |-> {}]
    ELSE [true |-> l.true \cup r.true, false |-> l.false \cup r.false]

JoinedBad(l, r) == IF Invalid(l) \/ Invalid(r) THEN "comma"
                   ELSE IF r.addr = None THEN "conditional" ELSE "short-circuit"

\* The result's address is the right operand's, and nothing has read it.
ReduceLogical ==
    /\ Waits(1) /\ Len(stack) > 1 /\ Second.mid # "none"
    /\ Top.addr # None => Top.type = Int4
    /\ LET l == Second.val # 0
           r == Value(Top) # 0
           v == IF Second.mid = "and" THEN l /\ r ELSE l \/ r
           a == IF Invalid(Second) THEN None ELSE Top.addr
       IN  Reduced(2, Out, [Node(Int4, None, Truth(v), a) EXCEPT
                                !.true = Joined(Second, Top).true, !.false = Joined(Second, Top).false,
                                !.known = Second.known, !.unread = Top.unread, !.bad = JoinedBad(Second, Top)])
    /\ active' = Second.saved
    /\ Blame({InCondition(Top)})
    /\ UNCHANGED text

\* An invalid expression: without an address, without lists, of no type.
NoValue == [Node(Int4, None, 0, None) EXCEPT !.bad = "comma"]

\* c ? e : f emits nothing, and has no address: both branches are evaluated.
Conditional ==
    /\ Waits(3) /\ "conditional" \in Productions
    /\ LET c == stack[Len(stack) - 2]
       IN  IF \E n \in {c, Second, Top} : Invalid(n) THEN Reduced(3, Out, NoValue)
           ELSE /\ c.addr # None => c.type = Int4
                /\ Second.type = Top.type
                /\ Reduced(3, Out, [Node(Top.type, None, 0, None) EXCEPT !.bad = "conditional"])
    /\ Blame({"conditional"}) /\ Pure

(***************************************************************************)
(* Assignments.                                                            *)
(***************************************************************************)
\* Mutant: the variable's address becomes a temporary's before the quad is made.
AssignRetyped ==
    /\ Reduces("=", 2) /\ Assignable(Second) /\ (Second.type = Int4) = (Top.type = Int4) /\ ~IsStruct(Top.type)
    /\ LET l  == IF IsMem(Out, Second.addr) /\ IsPointer(Second.type) THEN [o |-> Out, at |-> Top.addr]
                 ELSE Loaded(Out, Top.addr)
           op == IF IsMem(Out, Second.addr) THEN "()s" ELSE "="
           o  == Emitted(Retyped(l.o, Second.addr), op, Second.addr, l.at, None)
       IN  /\ Reduced(2, o, [Node(Second.type, Second.cell, 0, Second.addr) EXCEPT
                                 !.bad = IF op = "()s" THEN "address" ELSE "none"])
           /\ Blame({Top.bad, IF IsMem(l.o, l.at) THEN "address" ELSE "none"})
    /\ Write(Second.cell, Value(Top))

Assign ==
    /\ Reduces("=", 2) /\ Assignable(Second) /\ (Second.type = Int4) = (Top.type = Int4) /\ ~IsStruct(Top.type)
    /\ LET l  == IF IsMem(Out, Second.addr) /\ IsPointer(Second.type) THEN [o |-> Out, at |-> Top.addr]
                 ELSE Loaded(Out, Top.addr)
           op == IF IsMem(Out, Second.addr) THEN "()s" ELSE "="
           o  == Retyped(Emitted(l.o, op, Second.addr, l.at, None), Second.addr)
       IN  /\ Reduced(2, o, [Node(Second.type, Second.cell, 0, Second.addr) EXCEPT
                                 !.bad = IF op = "()s" THEN "address" ELSE "none"])
           /\ Blame({Top.bad, IF IsMem(l.o, l.at) THEN "address" ELSE "none"})
    /\ Write(Second.cell, Value(Top))

\* e op= f: f is not loaded, and not scaled when e is a pointer.
CompoundAssign(production, op) ==
    /\ Reduces(production, 2) /\ Assignable(Second) /\ Top.type = Int4
    /\ Second.type = Int4 \/ op \in {"+", "-"}
    /\ LET v == Meaning(op, Value(Second), Value(Top) * Increment(Second))
       IN  /\ active => v # Wild
           /\ IF IsMem(Out, Second.addr)
              THEN LET t1 == Computed(Out, NewTemp, "()", Second.addr, None)
                       t  == Last(t1)
                       o  == Emitted(Emitted(t1, op, t, t, Top.addr), "()s", Second.addr, t, None)
                   IN  Reduced(2, o, Node(Second.type, None, v, t))
              ELSE LET o == Retyped(Emitted(Out, op, Second.addr, Second.addr, Top.addr), Second.addr)
                   IN  Reduced(2, o, Node(Second.type, Second.cell, 0, Second.addr))
           /\ Write(Second.cell, v)
    /\ Blame({Top.bad, IF IsMem(Out, Top.addr) THEN "address" ELSE "none",
              IF IsPointer(Second.type) THEN "unscaled" ELSE "none"})

AssignBits    == CompoundAssign("&=", "&") \/ CompoundAssign("|=", "|") \/ CompoundAssign("^=", "^")
AssignSum     == CompoundAssign("+=", "+") \/ CompoundAssign("-=", "-")
AssignShift   == CompoundAssign("<<=", "<<")
AssignProduct == CompoundAssign("*=", "*") \/ CompoundAssign("/=", "/")

\* e %= f: nothing is loaded and nothing is stored.
AssignMod ==
    /\ Reduces("%=", 2) /\ Assignable(Second) /\ Second.type = Int4 /\ Top.type = Int4
    /\ active => Defined("%", Value(Second), Value(Top))
    /\ LET o == Emitted(Out, "%", Second.addr, Second.addr, Top.addr)
       IN  Reduced(2, o, Node(Int4, Second.cell, 0, Second.addr))
    /\ Write(Second.cell, Meaning("%", Value(Second), Value(Top)))
    /\ Blame({Top.bad, IF IsMem(Out, Top.addr) \/ IsMem(Out, Second.addr) THEN "address" ELSE "none"})

\* What is lost when nothing reads an expression: a quad that looks dead.
Unread(n) == IF n.unread THEN "unread" ELSE "none"

\* e, f is invalid: its type is never set.
Comma ==
    /\ Waits(2) /\ "comma" \in Productions
    /\ Reduced(2, Out, [NoValue EXCEPT !.val = Value(Top)])
    /\ Blame({IF n.bad = "short-circuit" THEN n.bad ELSE Unread(n) : n \in {Second, Top}})
    /\ Pure

\* Any other operator on an invalid expression emits nothing and is invalid.
InvalidOperand ==
    /\ \E n \in {1, 2} :
          /\ Waits(n) /\ \E k \in Len(stack) - n + 1 .. Len(stack) : Invalid(stack[k])
          /\ Reduced(n, Out, NoValue)
    /\ Blame({"comma"}) /\ Pure

\* An operator on a conditional expression reads its null address.  (Those that
\* put it in a quad without reading it, as that of a pointer, are left out.)
NoAddress ==
    /\ \E n \in {1, 2} :
          /\ Waits(n)
          /\ \E k \in Len(stack) - n + 1 .. Len(stack) : stack[k].addr = None
          /\ \A k \in Len(stack) - n + 1 .. Len(stack) : ~Invalid(stack[k])
    /\ phase' = "crashed" /\ Blame({"conditional"})
    /\ UNCHANGED <<heap, ta_code, stack, given, text, active, truth, steps>>

(***************************************************************************)
(* The end: an expression statement, or a condition with its jump.         *)
(***************************************************************************)
Ends ==
    /\ phase = "expression" /\ Len(stack) = 1 /\ Top.mid = "none"
    /\ phase' = "end"
    /\ UNCHANGED <<heap, given, text, active, steps>>

ExpressionStatement ==
    /\ Ends
    /\ Blame({Unread(Top)})
    /\ UNCHANGED <<ta_code, stack, truth>>

Condition ==
    /\ Ends
    /\ Top.addr # None => Top.type = Int4
    /\ LET jump == Jumped(Out, Top.addr, FALSE)
       IN  /\ stack' = <<[Top EXCEPT !.false = @ \cup {Len(jump.code)}, !.mid = "if"]>>
           /\ ta_code' = Labelled(jump, Top.true).code
    /\ truth' = (Value(Top) # 0)
    /\ Blame({InCondition(Top), Tested(Top)})

Next ==
    \/ Identifier \/ Literal \/ Index \/ Member \/ Arrow \/ PostIncrement \/ PreIncrement
    \/ LogicalNot \/ AddressOf \/ Dereference \/ Sign \/ Cast
    \/ Multiplicative \/ Additive \/ Shift \/ Relational \/ Equality
    \/ BitAnd \/ ExclusiveOr \/ InclusiveOr \/ PointerPlus
    \/ AndOp \/ OrOp \/ ReduceLogical \/ Conditional
    \/ Assign \/ AssignBits \/ AssignSum \/ AssignShift \/ AssignProduct \/ AssignMod \/ Comma
    \/ InvalidOperand \/ NoAddress
    \/ ExpressionStatement \/ Condition

Spec == Init /\ [][Next]_vars

(***************************************************************************)
(* The code run: all of it, or the quads that stay alive.                  *)
(***************************************************************************)
Denoted(h, m, a) ==
    CASE h[a].kind = "CON" -> h[a].val
      [] h[a].kind # "CON" /\ h[a].ea -> h[a].var
      [] h[a].kind # "CON" /\ ~h[a].ea /\ h[a].var # None -> At(m.mem, h[a].var)
      [] OTHER -> m.temps[a]

\* What a quad computes.
Result(h, m, i) ==
    CASE i.op \in {"=", "()s"} -> Denoted(h, m, i.arg1)
      [] i.op = "()" -> At(m.mem, Denoted(h, m, i.arg1))
      [] i.op = "la" -> h[i.arg1].var
      [] i.op = "!"  -> Truth(Denoted(h, m, i.arg1) = 0)
      [] OTHER       -> Meaning(i.op, Denoted(h, m, i.arg1), Denoted(h, m, i.arg2))

Stored(m, c, v) == IF c \in Cells THEN [m EXCEPT !.mem[c] = v] ELSE m

\* skip is the label a jump goes to, or out of the code when it has none yet.
Left == -1

Taken(h, m, i) == i.arg1 = None \/ (Denoted(h, m, i.arg1) # 0) = i.when

Stepped(h, m, i, k) ==
    CASE i.op = "goto" -> IF Taken(h, m, i) THEN [m EXCEPT !.skip = IF i.to = None THEN Left ELSE i.to, !.from = k] ELSE m
      [] i.op = "()s"  -> Stored(m, Denoted(h, m, i.result), Result(h, m, i))
      [] i.op \notin {"goto", "()s"} /\ h[i.result].var # None -> Stored(m, h[i.result].var, Result(h, m, i))
      [] OTHER         -> [m EXCEPT !.temps[i.result] = Result(h, m, i)]

\* The quad at k in m: all of the code runs, or what is alive.
After(o, all, m, k) ==
    IF m.skip = k THEN [m EXCEPT !.skip = None]
    ELSE IF m.skip # None \/ o.code[k].op = "label" \/ (o.code[k].dead /\ ~all) THEN m
    ELSE Stepped(o.heap, m, o.code[k], k)

Before(mem, o) == [mem |-> mem, temps |-> [a \in DOMAIN o.heap |-> Wild], skip |-> None, from |-> None]

Run(mem, o, all) ==
    LET run[k \in 0 .. Len(o.code)] == IF k = 0 THEN Before(mem, o) ELSE After(o, all, run[k - 1], k)
    IN  run

Executed(mem, o, all) == Run(mem, o, all)[Len(o.code)]

(***************************************************************************)
(* Properties.                                                             *)
(***************************************************************************)

\* Every address, quad and jump that something names exists, and a jump that
\* was patched leads to a label.
TypeOK ==
    /\ \A a \in DOMAIN heap : heap[a].kind \in {"ID3", "CON", "TEMP", "MEM"} /\ heap[a].instr \in 0 .. Len(ta_code)
    /\ \A k \in DOMAIN stack : stack[k].addr \in 0 .. Len(heap)
    /\ \A k \in DOMAIN ta_code : ta_code[k].to = None \/ (ta_code[k].to \in DOMAIN ta_code /\ ta_code[ta_code[k].to].op = "label")
    /\ phase \in {"expression", "end", "crashed"}
    /\ fault \in {"none", "address", "pointer", "short-circuit", "conditional", "unscaled", "unread", "comma"}

\* The address of every operand that waits gives what the text says: a MEM
\* address where the object is, any other its value.  (An operand that fault
\* or its own mark says is wrong is left out, and so is a start from which the
\* jump of a waiting && or || is taken.)
ValuesRight ==
    (phase = "expression" /\ active /\ fault = "none") =>
        LET m == Executed(start, Out, TRUE)
        IN  m.skip = None =>
            \A k \in DOMAIN stack :
                LET n == stack[k]
                IN  (n.known /\ n.bad = "none" /\ n.mid = "none" /\ n.addr # None) =>
                        IF IsMem(Out, n.addr) THEN m.temps[n.addr] = n.cell ELSE Denoted(heap, m, n.addr) = Value(n)

\* The quads that stay alive do to the variables what the text says.
EffectsKept == (phase = "end" /\ fault = "none") => Executed(start, Out, FALSE).mem = text

\* A condition leaves by its false list when the text says it is false, goes on
\* or leaves by its true list when it is true; && and || evaluate what C does.
ConditionRight ==
    (phase = "end" /\ fault = "none" /\ Top.mid = "if") =>
        LET m == Executed(start, Out, FALSE)
        IN  IF truth THEN m.skip = None \/ (m.skip = Left /\ m.from \in Top.true)
            ELSE m.skip = Left /\ m.from \in Top.false

\* A quad that stays alive reads no temporary that only a dead quad computes.
LiveReadsLive ==
    phase = "end" =>
        \A k \in DOMAIN ta_code : ~ta_code[k].dead =>
            \A a \in ({ta_code[k].arg1, ta_code[k].arg2}
                      \cup (IF ta_code[k].op = "()s" THEN {ta_code[k].result} ELSE {})) \ {None} :
                (heap[a].var = None /\ heap[a].kind # "CON") =>
                    \E j \in 1 .. k - 1 : ~ta_code[j].dead /\ ta_code[j].result = a /\ ta_code[j].op # "()s"
=============================================================================
