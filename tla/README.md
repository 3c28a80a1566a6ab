# Verification of the C to MIPS compiler

The repository is a one-pass compiler from a subset of C to MIPS assembly. flex and bison
actions build three-address code (TAC) while they parse. At the end of each function the TAC is
optimised, cut into basic blocks, annotated with next-use information and turned into assembly
by a generator with a round-robin register allocator. The program is sequential; what makes
it hard is that one mutable description of a function is read and rewritten by phases that
trust each other's annotations. Paths below are relative to the repository.

## Inventory

| Part | State | Operations | Correct when |
|---|---|---|---|
| Register allocator, `src/code_generator.cpp` 10-279 | `reg_alloc_info`, `memory_locations`, `start_issue`, `temp_stack` | `get_empty_reg`, `get_reg`, `free_reg`, `store_and_free_reg`, `reset` | the two tables agree; `in_mem` is true of the home; the only copy of a value is never dropped |
| Instruction handlers, `code_generator.cpp` 282-902 | the emitted text, a pending `xxxx` | one handler per TAC instruction and operand shape, `gen_asm_code` | each line reads registers that hold its operands; blocks do not depend on each other |
| Blocks and next use, `src/3ac.cpp` 703-842 | `bb_no`, `tac_info_table`, the operands' `alive` and `next_use` | `create_basic_blocks`, `create_next_use_info`, `reset_tac_info_table` | blocks are straight-line; a pair describes the operand's next access |
| TAC construction, `3ac.cpp` 24-416, 573-590 | `ta_code`, `dead` flags, label reference counts | `emit`, `create_new_...`, `backpatch` | a live instruction's operands are defined by live instructions |
| TAC optimiser, `3ac.cpp` 418-682 | `ta_code` | `optimise_pass1`, `arithmetic_optimise` | it keeps the function's meaning and its reference counts |
| Statements, `src/statement.cpp`, the mid-rule actions of `grammar.y` | jump lists of statements, `tmpSwitch`, `lblSwitch`, `idLabel`, `idGoto` | one function per statement, `backpatch_fn` | every jump is patched once, to the right label |
| Symbol tables, `src/symtab.cpp` | scope level, offsets, `reqd_size`, per-name lists | `increase_level`, `clear_current_level`, `add_to_symbol_table` | a name resolves to the innermost declaration; live variables do not overlap; the frame is large enough |
| Calls and frames, `code_generator.cpp` 664-721, 743-825, `expression.cpp` 188-312 | `temp_stack`, `$sp`, argument registers | `process_arg`, `process_call`, `process_save_live`, header and footer | arguments arrive, and what lives across the call survives |
| Expressions, `src/expression.cpp` | type and result address of a node | one function per production | operands are evaluated once, in order, with the right short circuits |

Interaction: the parser calls statement and expression functions, which append to `ta_code`;
`dump_and_reset_3ac` (at the end of a function) calls the optimiser, the block and next-use
passes and `gen_asm_code` one after the other, and clears the tables. The generator reads nothing of the
future but the pairs `(alive, next_use)` of each operand. That interface is made a module of
its own here, `UseContract`. The symbol table is called by the parser only; the generator reads
the offsets it gave and the frame size it ended with.

Hard behaviours: registers exhausted in the middle of an instruction; values cached in
registers across branches; flags (`in_mem`, `alive`) that allow a store to be skipped;
tables that must be reset at block and function boundaries; lists of unpatched jumps; globals
shared by nested statements. Each is listed, at its line, under "hazards" in `PROJECT.json`.

## Modules

Each module follows one source file or one of its phases. They meet at the interfaces above:
`Calls` extends `CodeGen`, which extends `MemMan`; `NextUse` implements the `UseContract` that
`CodeGen` assumes; `Scopes` implements `Lexical`. The phases that work on three-address code
(`Statements`, `Expressions`, `Optimise`, `Fold`) each start from every piece of code the phase before can leave,
up to the bounds of their runs.

**Code generator**

- `MemMan` has the allocator's operators as functions from *unit* to *unit*. A unit is
  `MemManUnit` (`start_issue`, `reg_alloc_info`, `loc` for `memory_locations`) together with what the
  emitted code has done to the machine: `rv[r]`, the id whose latest value register `r` holds; `mv[id]`,
  whether the home of `id` has its latest value; `mark`, a pending `xxxx`; `stale`, the ids of which a
  line has read a wrong value. `loc[id].home` says that the location has a base register and
  `known` that a temporary has an entry at all.
- `CodeGen` is `gen_asm_code` without calls: one action per handler and operand shape (`Binary`,
  `Immediate`, `Unary`, `StoreIndirect`, `StoreIndirectImm`, `LoadImmediate`, `ConstantPair`,
  `CondGoto`, `ReturnValue`, `PlainEnd`, `SaveLive`, `EndFunction`). An instruction, its operands and
  their pairs are chosen freely within `UseContract`; an action runs the whole handler, and a failed
  assertion ends the compiler (`panic`).
- `Calls` composes `CodeGen` with `process_arg`, `process_save_live` and `process_call`, in the
  order in which `create_postfix_expr_fun` emits them: `RegisterArg`, `RegisterConstant`, `SaveTemps`,
  `StackArg`, `StackConstant`, `Call`; `LoadThrough` is the load (`MEM_EMIT`) that may stand before an
  argument and `Other` any handler of `CodeGen` between calls. `temp_stack` is the compiler's idea of the words below
  the frame, `stack` the machine's; the callee is external and keeps no `$t` or `$a` register.
- `UseContract` states what a pair promises: *next* (read next), *out* (no further access in the
  block, the value survives), *dead* (overwritten before it is read). `fate` is the promise made by the
  last access of each id. It is both CodeGen's environment and the abstract specification of
- `NextUse`, which is `create_basic_blocks` and `create_next_use_info` over an arbitrary short
  function: emission, block numbering, the backward walk one instruction per step, and the
  hand-over of the operands to the generator. `ImplementsContract` is the refinement.

**Front end**

- `Statements` is `statement.cpp` with the mid-rule actions of the grammar and `backpatch`. A
  behaviour is a text, one grammar action at a time; `stack` holds the open statements with their
  lists, `value` the statement reduced last. The program's own lists and globals are modelled as they are; beside them each jump
  carries `want`, the point of the source it stands for, and `place` records where that point came to
  lie. The properties compare the two, over structured and unstructured control flow alike.
- `Expressions` is the code that the reductions of `expression.cpp` emit: addresses with their
  kinds (`ID3`, `CON`, `TEMP`, `MEM`) and defining instructions on `heap`, quads with `emit`'s `dead` flags, the loads
  of `MEM_EMIT`, the jumps of `&&`, `||`. Beside the code the module evaluates the text
  with C's meaning (`text`, a node's `val` and `cell`), and `Executed` runs the code. Bitwise operations are defined by their bits (`Common`).
- `Scopes` is `LocalSymbolTable`: the per-name deques, levels, offsets, `reqd_size` and table ids,
  driven by the parser's actions. `homes` remembers every local the function has had. It implements
- `Lexical`, the abstract specification: a stack of scopes, in which a name means its innermost
  binding and is bound once in a block.

**Optimiser**

- `Optimise` is `optimise_pass1`, one action per way an instruction is dealt with (`SkipDead`, `DropJump`,
  `DropOther`, `MergeLabel`, `KeepLabel`, `KeepQuad`, `KeepJump`), over any function whose jumps lead to its labels.
- `Fold` is `arithmetic_optimise`, one action per kind of simplification, over addresses that quads share.
  `Emit...` make the block as `expression.cpp` does; `Executed` gives its meaning before and after.

`MCCodeGen`, `MCStatements`, `MCExpressions`, `MCOptimise` and `MCFold` hold what TLC needs:
symmetry, and the *bounds* below. `CodeGenProofs` (`CodeGen` and `Calls`), `NextUseProofs`, `StatementsProofs`, `StatementsLanding`,
`ExpressionsProofs`, `OptimiseProofs`, `FoldProofs` and `ScopesProofs` hold the proofs. Those that follow code from one end to the other begin with
the facts about natural numbers that stand in for induction there (`LeastNumber`, `Upwards`, `Recursion`).
The definitions called mutants beside some operators are plausible mistakes in that code. No
specification uses them; each shows that a property would notice.

### Faults

In some situations the code as it stands does the wrong thing. The models take those steps, name the first
of them (`fault`, `mishap`; a set, `faults`, in `Scopes`) and state the properties about meaning up to there, so
that they say that *nothing else* goes wrong. An invariant about the program's own tables (`TypeOK`, `TablesAgree`, `CallTablesAgree`,
`LiveReadsLive`, `CountsCover`, `NoTempLost`, `FrameHolds`, `IdsDistinct`) holds with or without a
fault, except that `Calls` goes no further than its first mishap, so that `CallTablesAgree` ends there. `CodeGen` also stops following what the machine holds (`Forget`), while the allocator's tables are followed as before.

`CodeGen`:

- `lost`: `xxxx` has no newline, so it deletes the line that happens to come next (an operand's load or
  store) rather than the dead result's line; after `x = x` with one register no line
  follows and the next instruction loses its first;
- `late`: `process_goto` stores its operand after the branch, so the taken path misses the store;
- `spill`: `get_empty_reg` gives a spilled temporary a positive offset from `$fp`, over the
  saved registers or the caller's frame;
- `nocode`: nothing computes the result of a quad on two constants, or of `la` on a register parameter.

`Calls` (`mishap`):

- `swapped`: an argument reads a parameter of the caller's whose register an earlier argument took;
- `unsaved`: a variable is loaded into a `$t` register after `process_save_live`, and is there during the call;
- `unpushed`: a parameter is live in a register that this call passes nothing in, so nobody saves it;
- `reloaded`: the registers popped after the call include the one that got its result.

`Statements`: `lost` (a list of jumps is dropped: `continue` in a `case`, any list of a labelled
statement, short circuits in the head of a `for` or in a `switch` or `return`), `nested` (a switch opens where an outer one has
cases already: `lblSwitch` and `tmpSwitch` are shared), `stale` (`idLabel` is not cleared
between functions). Texts that dereference a null statement end in phase `crashed`.

`Optimise`: `name` (a label is renamed after another label has copied its name).

`Fold`: `unfolded` (two constants under an operation that is not folded leave the first), `renamed`
(`x*0`, `x-x`, `x/x` rename a variable's address to the constant, but the generator finds a variable by its
number), `rounding` (`x / 2^k` becomes an arithmetic shift), `namesake` (a copy between two addresses of one name goes as `x = x`,
though they denote different things: `t1 = a + b` with a variable called `t1`, whose sum is in the temporary `t1`, or `int x = x` in a
block inside that of another `x`). `2^k * x` ends in `crashed`: `stoi` of a variable's name.

`Expressions`: `address` (an operator uses a `MEM` address without loading), `pointer` (a computed pointer is kept in a
`MEM` address, so the next use loads), `unscaled` (`p += n`), `short-circuit` (the value of `&&` or `||`
outside a condition), `unread` (an effect whose quad looks dead, as in `++x` alone), `conditional` and `comma` (a result without address). A condition, or an operand of `&&` or `||`,
that is one of the two makes a jump that tests nothing and always leaves by the false list of an `if`, a `while` or `&&`, or the true list of `||`: `while (i++, i < 5)` never enters its body. The type of a comma expression is
never set, so that any other operator on it emits nothing and is invalid in turn (`InvalidOperand`), and `&&` and `||` drop the jumps of their operands; an operator on
a conditional expression reads its null address and ends in `crashed` (`NoAddress`).

`Scopes`: `switch` (a switch's variable gets offset 0, over the first local), `unaligned` (an initialised
`char` is padded by the wrong amount); and three after which the table is not followed: `front` (front of an empty
deque), `early` (an initialiser names a declarator that is entered later), `line` (two switches of a block on one
line have one name).

## Runs

| Run | Module | Instance | Shows |
|---|---|---|---|
| `alloc_params` | `MCCodeGen` | 1 variable, 1 register parameter, 2 temporaries, 2 registers t, 1 register a | tables agree, lines read what they should, values stay findable, blocks are independent, the only assertions that fail are the known ones |
| `calls` | `Calls` | the same ids, 2 registers t, 2 registers a, up to 2 stack arguments | arguments arrive, values survive calls, `temp_stack` mirrors the stack, tables agree |
| `next_use` | `NextUse` | 1 variable, 1 temporary, `MaxCode` = 3 | blocks are straight-line, pairs match a declarative definition, the pass implements `UseContract` |
| `statements` | `MCStatements` | 4 kinds of texts of 4 to 6 statements, one with 2 functions | no jump is forgotten, jumps land where the source says, every case is tested for |
| `expressions` | `MCExpressions` | 4 kinds of texts of 6 or 7 reductions, 2 or 3 waiting operands | operands that wait keep their values, effects happen, live code reads live results, conditions leave by the right list |
| `optimise` | `MCOptimise` | functions of 5 instructions; of 4 with every kind of condition | the meaning is kept, names are printed, counts cover the jumps, the walk ends |
| `fold` | `MCFold` | blocks of 3 quads of sums and products; of 2 with quotients, shifts, comparisons, or with variables of one name with each other and with a temporary | the meaning is kept for every start, no temporary is lost |
| `scopes` | `Scopes` | 2 names, 1 line with a switch, sizes 1 and 4, 3 levels, 3 ids, 8 bytes | lexical scoping, a frame that is large enough, aligned and free of overlap |
| `no_register` | `MCCodeGen` | 2 variables, 1 temporary, 2 registers t | violation: the assertion behind "PANIC: Unable to find empty register" |
| `no_home` | `MCCodeGen` | as `alloc_params` | violation: a returned temporary is stored without a home |
| `freed_evicted` | `MCCodeGen` | as `alloc_params` | violation: an operand's register is evicted by the other operand's load |
| `scopes_parameters` | `Scopes` | size 4, 1 level, 3 ids, 12 bytes | violation: a stack parameter is addressed below where it was pushed |

### Bounds

The specifications of the front end and the optimiser have a constant `Bounds`, a set of records; a
behaviour chooses one at the start, in `bound`, and keeps it. So one run goes through long texts of few
constructs and short texts of many. The proofs hold for every such set.

- Allocator: its decisions distinguish an empty register, one with a variable and one with
  a temporary; two registers have all the combinations a binary instruction can meet, and its three ids force eviction.
  Ids are interchangeable within their kind. Nothing grows in `CodeGen`, and `Forget` drops what no later
  instruction can observe. `Calls` has `MaxStackArgs` = 2, so that order on the stack matters, and a second register `a`, in which
  the caller has no parameter, for `unpushed` and for an argument that reads an overwritten one.
- `NextUse`: three instructions contain every pair of neighbouring accesses with a boundary, a dead
  instruction or a third access in between.
- `Statements`: a loop in a loop or in a switch with a jump out of each takes four or five statements, a
  switch with two cases, a default and breaks six. The constructs are divided so that those that share a list or a global
  are together; two functions show what is not cleared between them.
- `Expressions`: texts of 6 reductions with 3 operands waiting, or of 7; in them every operator meets operands of every kind (name, constant, element, member, `*p`,
  computed value), with another operand waiting. Two of the six variables' start values are enough to tell taken from skipped operands.
- `Optimise`: every rewriting looks at two instructions and what is left of the ones before them; five hold two labels, two jumps and a quad
  in each order. `Surplus` lets a count exceed the jumps, as a list patched twice does.
- `Fold`: a simplified quad's reader, and the reader of that, take three quads. `Spread` = 3 has both signs. One kind of block has both of its variables
  called `t1`, like the first quad's result, so that every pair of addresses with one name meets a copy.
- `Scopes`: three levels are the parameters' scope, a block and a block inside it; two names shadow and redeclare; sizes 1 and 4
  need padding and none.

Deadlock is checked where the program goes on until its text is done (`NextUse`, `Statements`, `Optimise`, `Fold`). It is not in `CodeGen` and
`Calls`, where a failed assertion stops the compiler, and not in `Expressions` and `Scopes`, where a text at its bound
(reductions, bytes of frame) has no next step.

### Fairness

`Optimise` has `WF_vars(Next)`: the walk is a sequential loop that nothing suspends, so it always takes its next
step, and `WalkEnds` says that it gets to the end. The iterator moves over code whose length stays, so what this shows is that the
cases of the loop's body are complete: none of its rewritings leaves an instruction that no case takes. Nothing else waits for anything, and no other fairness is assumed.

### Findings

Three of the violated properties are what assertions of the code claim, the fourth what its tests
of nine-argument functions rely on. The traces are short programs: with ten registers, an instruction that needs an
eleventh while ten variables are alive stops in `get_empty_reg` (`no_register`); `return a[i] += 3;` stores a temporary that has no home
(`no_home`); `(x+a)*((x+b)*(...((x+i)*((x+1)*y))))` with nine pending products frees one register twice (`freed_evicted`); the fifth
parameter of any function with a local is read inside the frame (`scopes_parameters`).

## Proofs

All theorems hold for every value of the constants within the named assumptions: `RegAssumption` (at
least one temporary register; parameters are numbered below `NumRegArgs`), `IdAssumption` (the kinds of ids are disjoint
and none is `None`, which the masks of table ids give), `CallsAssumption`, `NextUseAssumption` (types of the
constants; the null next use is no position in the code), `StatementsAssumption`, `ExpressionsAssumption`, `OptimiseAssumption`, `FoldAssumption`
and `ScopesAssumption` (types of the constants; identifiers and switch names are distinct). TLC
evaluates them in the runs.

**The generator** (`CodeGenProofs`).
`TypeCorrect`: `Spec => []TypeOK`. `TablesAlwaysAgree`: `Spec => []TablesAgree`, a slot of `reg_alloc_info` names an id
exactly when the id's location names that register, and parameters keep theirs.
The inductive invariant `IInv` is their conjunction: agreement is inductive only
together with the types (a location's register is a register or `tINV`, a slot an id or `None`).
Its first part shows what each operator of `MemMan` preserves. Emission does not touch the tables (`SameTables`). In
the middle of `get_reg` they do not agree: the register has been chosen and start_issue moved, but
neither table names the new id. `Vacant(u, r)` describes that state (agreement everywhere but
at `r`, which no id claims); an empty slot, a spill and a handed-over register all lead to it and
`AssignConsistent` leads out of it. A hand-over is safe because `Release` empties the operand's slot
unless a next use follows (`ReleaseConsistent`) and a second release does not fill it again
(`ReleaseKeepsEmpty`). Each handler is then a chain of these lemmas.

**What the generated code computes with** (`CodeGenProofs`). `AlwaysReadsFresh`, `AlwaysValuesKept`, `AlwaysInMemTruthful`,
`AlwaysBlocksIndependent`, `AlwaysOnlyKnownAborts`: the invariants of `CodeGen` about the machine, up to the first fault. They follow from `Values`,
inductive together with `IInv`. Its core is `Coherent(u, f)`, which relates the machine, the tables and the promises `f`: a
value that is still needed is in the register the tables name (`Kept`) or, for a variable with `in_mem`, in its home; `in_mem` is true of
every variable that is not written next; a variable that is not read next in its block is at home and in no register.
Inside a handler `Ready(o, u, f)` says that a handler that began with `o` has come to `u` with coherent tables, has met a fault, or has stopped
at an assertion that is known to fail. There `f` is not the contract's: a result counts as *dead* while it has a register
but no value, as *next* once its line is emitted, and gets its own flag when it is settled. One lemma per operator says how `Ready` moves on
(`LoadReady`, `ReleaseReady`, `DestReady`, `DefReady`, `SettleReady`), and each handler's lemma chains them in the order of its code. `Milder` ends the
chain: promises that ask for less. Faults and aborts are final (`Later`), which settles every path that has left the good ones. What
makes the argument go through is that the contract orders accesses: a value is read only if its last access promised so, and a fresh value
is written only where the old one is not needed.

**Calls** (`CodeGenProofs`, second half). `CallsTypeCorrect`, `CallsMirrorStack`, `CallsTablesAgree`. `CIInv` adds to `IInv` the types of
`temp_stack` and `stack`, their equal lengths, and that both are empty when no call is in progress; the allocator's part
of each step is the lemma chain of the generator's proofs. `process_save_live` goes through the registers in order, which the model
writes as a sorted enumeration of a set; `Enumerated` shows that there is one, by a least counterexample.
`ArgumentsAlwaysArrive` and `CallsAlwaysKeepValues` follow from `CallKept`, inductive together with `CIInv` up to the first fault. A parameter's register is
overwritten by an argument while the parameter may still be needed, so that `Coherent` is false in the middle of a call. `UnitKept`
is what remains: coherence of everything but the overwritten parameters, each of which was pushed before (`RegistersFirst`: until `process_save_live`
no argument goes to the stack, so what is pushed is parameters only). The words on the stack are related to the tables by
`WordsRight` (a word pushed from the register of something needed is its value), `TempsPushed` (after `process_save_live` every needed temporary has one),
`InRegisters` and `OnStack` (an argument that was passed is where the callee looks for it). When the call is over, popping puts the words back and `Coherent` holds again. `Right`, up
to which all this holds, ends also with a compiler that an assertion has stopped: it leaves a call half done, and no program.

**Blocks and next use** (`NextUseProofs`). `NextUseTypeCorrect`, `AlwaysStraightLine`, `AlwaysPairsAreRight`, and `SpecImplementsContract`, the
refinement that justifies what `CodeGen` and `Calls` assume; all for functions of any length. `create_basic_blocks` is a recursive
function over the code, and what the proof needs of it is unfolded along the code by the least counterexample (`Upwards`): numbers never decrease (`InOrder`), two live
neighbours have one number exactly when the first can only fall through into the second (`Joined`), and nothing between
two instructions of one block starts or ends one (`Straight`). The backward walk's invariant is `Describes(table, b, t)`: in block `b`,
seen from time `t`, each entry of `tac_info_table` says whether the first access that follows (`First`) is a read, where it is, and whether the id
is still wanted. An instruction's three accesses have three times, because `x = x + x` reads before it writes. `PairsDone` keeps what the walk has left at the operands.
In the hand-over, `Handed` ties `fate` to the code: what the last access of an id promised (`Promised`) is what its pair says. A contract guard is then a statement about
the next access after the last one. It needs `Straight` (the next access is in the same block or there is none), `Defined` (a temporary is
read only in the block that wrote it) and that a return ends all promises.

**Statements** (`StatementsProofs`, `StatementsLanding`). `TypesRight`, `NoneForgotten`, `EveryCaseTested` and `JumpsAlwaysLand`, for texts of any length and depth.
`Grows(c, d)` says that `d` is `c` with more code and more jumps patched; for each operator of `3ac.cpp` a lemma says how the code grows and which jumps are without a
label after it (`Unpatched`). `Tests` is a fold over a switch's cases; it is unfolded from each subset to the next larger one.
The invariant has two parts. `Shaped` holds with every fault: lists hold jumps of this function, and labels are of this function.
`Right` holds up to the first fault: every jump without a label is held by an open statement, by the statement
reduced last, or waits for a name (`AllHeld`), and every case has been tested for or its switch is open (`CasesKept`).
That is inductive only with reasons why a list that the code drops is empty, or patched already:
a `break` or `continue` exists only inside what it leaves (`Leaving`), so that a loop that has ended leaves nothing to patch and a function's end drops
empty lists; the jumps to the next statement are patched before it begins (`Settled`); only the innermost switch has cases, and
`lblSwitch` has an entry for each (`OwnCases`); a name that has its label has no jump waiting (`Named`). Each step has a
lemma of its own; together they give the induction. Faults are final, so a step that meets one has only `Shaped` to keep.
For `JumpsLand` (`StatementsLanding`) a second invariant (`LInv`, kept together with the first) says of everything that is held what its jumps want: an open
statement's labels lie at the points they stand for (`FrameAt`); the breaks and continues that are held
want the end, the test or the step of the innermost statement they can leave (`Wants`); and the jumps to the next statement want a point
that lies where the text has come to, or where another jump of the same list, taken always, lies (`Nexts`): the end of an `if` that ends a branch is the jump over the other branch, that of
one that ends a loop's body is the jump back. That is why a jump may land where the jump at its target leads. A jump that
a step lets go has its point in `place` and a label there; one let go earlier keeps both, because labels do not move, points keep
their places, and no jump is in two lists (`Apart`), so that nobody patches it again. The exception is a `default`, whose breaks are in two lists of its statement (`NextOf`).
`NamesAt` and `CasesAt` say the same of the labels in `idLabel` and `lblSwitch`. What a step of the parser has to show is one lemma (`Move`), with
a form for statements that begin (`OpenLands`, `SimpleLands`), go on (`RetopLands`) and end (`ReduceLands`).

**Expressions** (`ExpressionsProofs`). `TypesKept`, `ValuesAreRight`, `EffectsAreKept`, `ConditionsAreRight` and `LiveQuadsReadLive`, for expressions of any length
over the operators, types and variables of the model, as long as the operands are those that `Defined` admits: `/` and `%` of a negative number, and `&`, `|`, `^` and `<<`
of one or by more than four bits, are left out of the texts. The argument has four layers.

1. What is emitted is `Good`, with every fault: each quad has the operands its operation needs (`Formed`), a patched jump leads forwards to a label, and every temporary that is
read was computed last by a quad that is alive (`Fed`). For this `Known` says that an address remembers the quad that computed it last, and
`Rewritten` that a temporary is computed a second time only from what it was. `TypesKept` and `LiveQuadsReadLive` need no more.
2. Code that another extends runs as it did, up to the jumps that were patched (`Alike`), although `emit` also marks older quads alive and `backpatch` changes older jumps.
So a reduction has to show only what its own quads do to the machine (`Adds` for code that computes, `Grows` for code that stores), and operands that wait keep what they denote.
3. `Going` holds up to the first fault. The machine that runs all of the code is `Running`: its memory is the text's, and each plain operand that waits is
what the text says (`Holds`). If it skips to a label that does not exist yet, the text does not evaluate the operand being parsed, and the jump is one
of an `&&` or `||` that waits and that its left operand decides; or the operand on top is such a condition, and the jump is in the list its value asks for.
The exception is `Stuck`: a short circuit that waits as an operand of something that is no condition.
There the code is lost already, but the fault is met only when the operator is reduced. `Shaped` ties a node's type and object to what kind of address it has.
`Sane`, `Yields`, `UnaryFine` and `BinaryFine` state what a reduction owes; each operator has a lemma.
4. A quad that assigns a variable and is dead (`Lost`: those of `++x` in prefix position and of a `&&` that ends in one) belongs to an operand that is marked `unread`. At the end of the expression
none is left unless fault `unread` is met, so that the quads alive, which by `Fed` read only quads alive, do what all of the code does (`Ended`).
That layer is why `EffectsKept` and `ConditionRight`, which run only what is alive, follow from an invariant about all of the code.

Two operands never share an address (`Distinct`), as a reduction makes its own or keeps that of an operand it consumes.

**The optimiser** (`OptimiseProofs`). `SpecTypeOK`, `SpecCountsCover`, `SpecNamesPrinted` and `SpecMeaningKept`, for functions of any length. The invariant has a part for each phase: while the code is
made, what is written is well formed (`Written`); during the walk, code and labels have their types and places (`Coded`), the
pointers to the instructions before are what the walk has seen (`Placed`), and counts cover (`Covered`). `Covered` says more than `CountsCover`: it includes the
label behind the iterator when it is the one just kept, because a jump after it adds that
label's count to its own target's. `SpecNamesPrinted` follows from `Named`, inductive together with the invariant up to the first fault: a label that is printed
has its own name; the name of every remaining jump's label is printed; and a label ahead whose name another label has taken
is the target of a jump that was kept, so that `Covered` keeps its count above zero. The third part is what stops the removal of a label that is reached by name only.

`SpecMeaningKept` is about two programs at once, the function as it was made (`before`) and what the walk has made of it so far, and about
control in both: `Moves` are the places one instruction leads to for a jump's variable of this value. Its invariant (`MInv`) keeps a set of places
that is closed under the moves of the function as it was (`Kept`), and from each of which both programs come to the same ends (`Alike`, over `To`, the paths
as a relation). Everything that the walk has not come to is in the set (`Ahead`); code that a jump cuts off leaves it when it is marked dead,
which is sound because the set without it is still closed. Of the steps, most change nothing that a path can see (`KeptSame`); the others
send a jump to where the instruction it led to would have gone (`KeptRedirected`), whether by merging two labels, by turning a branch round or by dropping a jump to what
comes next. Last, `Onward` follows a number of moves bounded by the code's length; by the pigeonhole principle a path that goes on longer repeats itself and never ends
(`OnwardEnds`), so that the evaluator's answer is the one of the relation.

**Constant folding** (`FoldProofs`). `SpecTypeOK`, `SpecNoTempLost` and `SpecMeaningKept`, for blocks of any length over any
constants, and in `MeaningKept` for every value of the variables and every way to call them. `Made` says what the expressions guarantee of a block: each place of the
heap is read by one quad only, its own or, if it is an operation's result, a later one with no assignment between them.
`Walked` says what the walk leaves alone, and `Lives` is `NoTempLost` while it goes on: a dead quad's result has been given the
address of an operand, and that operand's quad lives. For the meaning, the text's block and the optimiser's are run side by side up to the iterator: in `Meant` they
agree in every variable, and wherever a result is still to be read, what its address now denotes has the value the temporary had. Each kind of
simplification is shown to do to one state what its quad did, or to leave its value in the result's address (`Refolds`). Two reasons make
one quad's argument carry over to the run (`Onward`): no quad behind the iterator reads an address that a step changes (`BehindSame`), and no variable is assigned between a result and its reader,
so that a result that has become a variable's address is not overtaken (`AheadIs`). It also needs that an
operand named as a number is a constant (`NumberIs`), which holds up to `renamed` and because no other name is a number. What an address denotes is its `table_id`, as for the generator, which two addresses of one name need not share. Three rules compare
names: `x / x` and `x - x` are fault `renamed` for any `x` that is no constant, and a copy is fault `namesake` when the names are equal and the ids are not.

**The symbol table** (`ScopesProofs`).
`SpecTypeOK`; `SpecFrameHolds` and `SpecIdsDistinct` from `Accounted` (every local the function has had, also of blocks
that ended, has an id below the counter and space below `reqd_size`); `SpecNoOverlap` from `Layout`: deques have
decreasing levels (`Sorted`), the levels fit the phase (`Levels`), and all locals lie below the frame's offset, those of
an inner block above those of the blocks around it (`Stacked`), so that the end of a block gives back no space of another.
`SpecWordsAligned` from `Words`: every offset is in words until one declaration is not. `SpecBlocksShareSpace`, an
action property, from `Shared`: each open block remembers the offset it began at, its locals lie above it, those of the blocks around it below.
`SpecImplementsScopes` is the refinement: by `Layout`, the front of a deque is the binding in the highest scope that
has one (`MeaningIsFront`), and pushing an entry, popping those of a level and opening a level are steps of `Lexical`'s stack.

**Only model-checked**: that `Optimise` terminates (`WalkEnds`), since liveness under fairness is beyond the prover.

## Not modelled

- Lexer, the grammar's tables, syntax tree and dot output, the graph tool, the driver's files: pure input and
  output, or built once and printed. The run-time libraries: hand-written assembly, called and never generated.
- Types: struct layout, type equality and type checking in `expression.cpp` and `symtab.cpp` are long sequential
  case distinctions over data. `Expressions` makes only texts that pass them. Unsigned and floating operands, and string literals, follow the
  same emission with other mnemonics.
- The global symbol table, a map that only grows, and the csv files of the tables.
- In the generator: values, mnemonics, widths, the ranges of immediates. `is_ea` ids (arrays,
  structs, strings) are variables whose address is the value; they are never results, and count among `Vars`.
  A store through a pointer does not make the register copy of its target stale in the model. The sizes of arguments on the stack, and the saved-register
  area of `generate_header`, are constants.
- That a temporary lives in one block is assumed (`NextUse!Emit`); short-circuit operators inside a larger
  expression break it in the real front end (see the hazards).

What would come next: one instance that takes the code of `Expressions` through `NextUse` to `CodeGen`.
