------------------------------ MODULE NextUse ------------------------------
(***************************************************************************)
(* create_basic_blocks and create_next_use_info of 3ac.cpp: a function's   *)
(* instructions are cut into basic blocks, walked backwards to give every  *)
(* operand its (alive, next_use) pair, and then handed to the generator    *)
(* from the first to the last.  The generator sees the pairs only, and     *)
(* UseContract is what it relies on: Spec implements it.                   *)
(***************************************************************************)
EXTENDS Integers, Sequences

CONSTANTS Vars,      \* ids of variables and parameters
          Temps,     \* TEMP_ID_MASK ids
          NoAddr,    \* a null or constant operand
          Null,      \* no next use
          MaxCode    \* bound: instructions in one function

Slots    == {"result", "arg1", "arg2"}
Position == (1 .. MaxCode) \X Slots

ASSUME NextUseAssumption ==
    /\ MaxCode \in Nat
    /\ Vars \cap Temps = {} /\ NoAddr \notin Vars \cup Temps
    /\ Null \notin Position

VARIABLES ta_code,          \* the instructions
          bb_no,            \* their block numbers
          tac_info_table,   \* id -> alive, next_use, while walking backwards
          basic_blk,        \* the block being walked
          operands,         \* instruction -> slot -> alive, next_use
          phase, at, slot,  \* where the pass is
          fate              \* what the operands handed over so far promise

vars == <<ta_code, bb_no, tac_info_table, basic_blk, operands, phase, at, slot, fate>>

Ids      == Vars \cup Temps
Operand  == Ids \cup {NoAddr}
Info     == [alive : BOOLEAN, next_use : Position \cup {Null}]
Kinds    == {"quad", "()s", "goto", "return", "arg", "call", "label", "save"}
Instr    == [kind : Kinds, dead : BOOLEAN, result : Operand, arg1 : Operand, arg2 : Operand]

Reads(i) == {i[s] : s \in IF i.kind = "()s" THEN Slots ELSE {"arg1", "arg2"}} \ {NoAddr}
Writes(i) == IF i.kind \in {"quad", "call"} THEN {i.result} \ {NoAddr} ELSE {}
EndsBlock(i) == i.kind \in {"goto", "return"}

\* The instructions the front end emits.  Any of them may be dead by the time
\* the blocks are made: emit leaves a Quad dead when nothing uses its result,
\* and optimise_pass1 kills unreferenced labels, constant branches and what
\* follows a jump.
WellFormed(i) ==
    CASE i.kind = "quad" -> i.result # NoAddr /\ (i.arg1 = NoAddr => i.arg2 = NoAddr)
      [] i.kind = "()s"  -> i.result \in Temps /\ i.arg2 = NoAddr
      [] i.kind = "call" -> i.result \in Temps \cup {NoAddr} /\ i.arg1 = NoAddr /\ i.arg2 = NoAddr
      [] i.kind \in {"goto", "return", "arg"} -> i.result = NoAddr /\ i.arg2 = NoAddr
      [] OTHER -> i.result = NoAddr /\ i.arg1 = NoAddr /\ i.arg2 = NoAddr

\* The temporaries written since the last instruction that ended a block or
\* began one: a live instruction reads no other temporary.
Written[k \in 0 .. Len(ta_code)] ==
    IF k = 0 THEN {}
    ELSE LET i == ta_code[k]
         IN  IF i.dead THEN Written[k - 1]
             ELSE IF EndsBlock(i) \/ i.kind = "label" THEN {}
             ELSE Written[k - 1] \cup (Writes(i) \cap Temps)

BlockStart == [n \in Ids |-> IF n \in Vars THEN "in" ELSE "dead"]
InitInfo   == [n \in Ids |-> [alive |-> n \in Vars, next_use |-> Null]]
NoOperands == [s \in Slots |-> [alive |-> TRUE, next_use |-> Null]]

Init ==
    /\ ta_code = <<>> /\ bb_no = <<>> /\ operands = <<>>
    /\ tac_info_table = InitInfo /\ basic_blk = 0
    /\ phase = "emit" /\ at = 0 /\ slot = "arg2"
    /\ fate = BlockStart

\* emit and the create_new_ functions append to ta_code.
Emit(i) ==
    /\ phase = "emit" /\ Len(ta_code) < MaxCode
    /\ WellFormed(i)
    /\ ~i.dead => Reads(i) \cap Temps \subseteq Written[Len(ta_code)]
    /\ ta_code' = Append(ta_code, i)
    /\ operands' = Append(operands, NoOperands)
    /\ UNCHANGED <<bb_no, tac_info_table, basic_blk, phase, at, slot, fate>>

\* The loop of create_basic_blocks: after the k-th instruction, the current
\* number, whether it has just been incremented, and the k-th bb_no.
Blocks[k \in 0 .. Len(ta_code)] ==
    IF k = 0 THEN [blks |-> 1, incremented |-> TRUE, bb_no |-> 0]
    ELSE LET i == ta_code[k]
             b == Blocks[k - 1]
         IN  IF i.dead THEN [b EXCEPT !.bb_no = 0]
             ELSE IF i.kind = "label" /\ ~b.incremented
                  THEN [b EXCEPT !.blks = @ + 1, !.bb_no = b.blks + 1]
             ELSE [blks |-> IF EndsBlock(i) THEN b.blks + 1 ELSE b.blks,
                   incremented |-> EndsBlock(i),
                   bb_no |-> b.blks]

\* The block create_next_use_info believes it starts in: the last instruction's
\* number.  Labels and SaveLives are constructed without one, so that a dead
\* one has whatever its memory held.
StartBlock(numbers) ==
    LET last == ta_code[Len(ta_code)]
    IN  IF last.dead /\ last.kind \in {"label", "save"} THEN 0 .. MaxCode + 1
        ELSE {numbers[Len(ta_code)]}

\* Mutant: the number is taken after the increment.
CreateBasicBlocksLate ==
    /\ phase = "emit" /\ ta_code # <<>>
    /\ bb_no' = [k \in 1 .. Len(ta_code) |-> IF ta_code[k].dead THEN 0 ELSE Blocks[k].blks]
    /\ phase' = "uses" /\ at' = Len(ta_code)
    /\ basic_blk' \in StartBlock(bb_no')
    /\ UNCHANGED <<ta_code, tac_info_table, operands, slot, fate>>

CreateBasicBlocks ==
    /\ phase = "emit" /\ ta_code # <<>>
    /\ bb_no' = [k \in 1 .. Len(ta_code) |-> Blocks[k].bb_no]
    /\ phase' = "uses" /\ at' = Len(ta_code)
    /\ basic_blk' \in StartBlock(bb_no')
    /\ UNCHANGED <<ta_code, tac_info_table, operands, slot, fate>>

\* Mutant: "()s" counts as a definition of its pointer.
VisitStoreDefines(s, k, where) ==
    LET id == ta_code[k][where]
    IN  IF id = NoAddr THEN s
        ELSE [table |-> [s.table EXCEPT ![id] =
                            IF where = "result" THEN [alive |-> FALSE, next_use |-> Null]
                            ELSE [alive |-> TRUE, next_use |-> <<k, where>>]],
              pairs |-> [s.pairs EXCEPT ![where] =
                            IF ta_code[k].kind = "return" THEN [s.table[id] EXCEPT !.alive = TRUE]
                            ELSE s.table[id]]]

\* One operand of create_next_use_info: it takes the entry's pair, and the
\* entry says what comes before it.  s pairs the table with the operands.
Visit(s, k, where) ==
    LET id == ta_code[k][where]
    IN  IF id = NoAddr THEN s
        ELSE [table |-> [s.table EXCEPT ![id] =
                            IF where = "result" /\ ta_code[k].kind # "()s"
                            THEN [alive |-> FALSE, next_use |-> Null]
                            ELSE [alive |-> TRUE, next_use |-> <<k, where>>]],
              pairs |-> [s.pairs EXCEPT ![where] =
                            IF ta_code[k].kind = "return" THEN [s.table[id] EXCEPT !.alive = TRUE]
                            ELSE s.table[id]]]

\* Mutant: the table survives the block.
CreateNextUseInfoNoReset ==
    /\ phase = "uses" /\ at > 0
    /\ IF ta_code[at].dead
       THEN UNCHANGED <<tac_info_table, basic_blk, operands>>
       ELSE LET s == [table |-> tac_info_table, pairs |-> operands[at]]
                v == Visit(Visit(Visit(s, at, "result"), at, "arg1"), at, "arg2")
            IN  /\ tac_info_table' = v.table
                /\ basic_blk' = bb_no[at]
                /\ operands' = [operands EXCEPT ![at] = v.pairs]
    /\ at' = at - 1
    /\ UNCHANGED <<ta_code, bb_no, phase, slot, fate>>

\* One step of create_next_use_info, with reset_tac_info_table at the last
\* instruction of a block.
CreateNextUseInfo ==
    /\ phase = "uses" /\ at > 0
    /\ IF ta_code[at].dead
       THEN UNCHANGED <<tac_info_table, basic_blk, operands>>
       ELSE LET t == IF bb_no[at] # basic_blk THEN InitInfo ELSE tac_info_table
                s == [table |-> t, pairs |-> operands[at]]
                v == Visit(Visit(Visit(s, at, "result"), at, "arg1"), at, "arg2")
            IN  /\ tac_info_table' = v.table
                /\ basic_blk' = bb_no[at]
                /\ operands' = [operands EXCEPT ![at] = v.pairs]
    /\ at' = at - 1
    /\ UNCHANGED <<ta_code, bb_no, phase, slot, fate>>

StartGenerator ==
    /\ phase = "uses" /\ at = 0
    /\ phase' = "gen" /\ at' = 1
    /\ UNCHANGED <<ta_code, bb_no, tac_info_table, basic_blk, operands, slot, fate>>

\* What the generator makes of a pair.
Flag(info) == IF ~info.alive THEN "dead" ELSE IF info.next_use = Null THEN "out" ELSE "next"

LastOfBlock(k) == \A m \in k + 1 .. Len(ta_code) : ta_code[m].dead \/ bb_no[m] # bb_no[k]

NextSlot == [arg2 |-> "arg1", arg1 |-> "result", result |-> "end"]

\* The generator takes one operand of a live instruction.
HandOver ==
    /\ phase = "gen" /\ at <= Len(ta_code) /\ ~ta_code[at].dead /\ slot # "end"
    /\ LET id == ta_code[at][slot]
       IN  fate' = CASE id = NoAddr -> fate
                     [] id # NoAddr /\ ta_code[at].kind = "return" -> BlockStart
                     [] OTHER -> [fate EXCEPT ![id] = Flag(operands[at][slot])]
    /\ slot' = NextSlot[slot]
    /\ UNCHANGED <<ta_code, bb_no, tac_info_table, basic_blk, operands, phase, at>>

\* gen_asm_code goes on to the next instruction; a dead one is skipped.
NextInstruction ==
    /\ phase = "gen" /\ at <= Len(ta_code) /\ (ta_code[at].dead \/ slot = "end")
    /\ fate' = IF ~ta_code[at].dead /\ LastOfBlock(at) THEN BlockStart ELSE fate
    /\ at' = at + 1 /\ slot' = "arg2"
    /\ UNCHANGED <<ta_code, bb_no, tac_info_table, basic_blk, operands, phase>>

\* Mutant: the operands' pairs are not cleared.
ResetKeepsOperands ==
    /\ phase = "gen" /\ at > Len(ta_code)
    /\ ta_code' = <<>> /\ bb_no' = <<>>
    /\ tac_info_table' = InitInfo /\ basic_blk' = 0
    /\ phase' = "emit" /\ at' = 0 /\ slot' = "arg2"
    /\ UNCHANGED <<operands, fate>>

\* dump_and_reset_3ac: the tables are cleared for the next function.
Reset ==
    /\ phase = "gen" /\ at > Len(ta_code)
    /\ ta_code' = <<>> /\ bb_no' = <<>> /\ operands' = <<>>
    /\ tac_info_table' = InitInfo /\ basic_blk' = 0
    /\ phase' = "emit" /\ at' = 0 /\ slot' = "arg2"
    /\ UNCHANGED fate

Next ==
    \/ \E i \in Instr : Emit(i)
    \/ CreateBasicBlocks
    \/ CreateNextUseInfo
    \/ StartGenerator
    \/ HandOver
    \/ NextInstruction
    \/ Reset

Spec == Init /\ [][Next]_vars

(***************************************************************************)
(* Properties.                                                             *)
(***************************************************************************)

\* Every table has its shape, also between the passes.
TypeOK ==
    /\ ta_code \in Seq(Instr) /\ Len(ta_code) <= MaxCode
    /\ bb_no \in Seq(0 .. MaxCode + 1) /\ basic_blk \in 0 .. MaxCode + 1
    /\ tac_info_table \in [Ids -> Info]
    /\ operands \in Seq([Slots -> Info]) /\ Len(operands) = Len(ta_code)
    /\ phase \in {"emit", "uses", "gen"} /\ at \in 0 .. MaxCode + 1
    /\ slot \in Slots \cup {"end"}
    /\ fate \in [Ids -> {"in", "next", "out", "dead"}]

\* Two live neighbours are in one block exactly when control can only fall
\* from the first into the second: the first does not jump away and the
\* second is no jump target.
BlocksAreStraightLine ==
    phase # "emit" =>
        \A k, m \in DOMAIN ta_code :
            (k < m /\ ~ta_code[k].dead /\ ~ta_code[m].dead /\ \A j \in k + 1 .. m - 1 : ta_code[j].dead)
            => (bb_no[k] = bb_no[m] <=> ~EndsBlock(ta_code[k]) /\ ta_code[m].kind # "label")

\* The order in which a program's accesses happen, as numbers.
Time(p) == 3 * p[1] + [arg2 |-> 0, arg1 |-> 1, result |-> 2][p[2]]
AccessesOf(id) == {p \in (DOMAIN ta_code) \X Slots : ~ta_code[p[1]].dead /\ ta_code[p[1]][p[2]] = id}
IsRead(p) == ~(p[2] = "result" /\ Writes(ta_code[p[1]]) # {})
Later(p) == {q \in AccessesOf(ta_code[p[1]][p[2]]) : Time(p) < Time(q) /\ bb_no[q[1]] = bb_no[p[1]]}
Following(p) == CHOOSE q \in Later(p) : \A o \in Later(p) : Time(q) <= Time(o)

\* The pair of every operand against its definition over the finished code:
\* next_use is the very next access when that is a read; alive says the value
\* may still be wanted.  A return's operand is always alive.
PairsAreRight ==
    phase = "gen" =>
        \A id \in Ids : \A p \in AccessesOf(id) :
            LET info == operands[p[1]][p[2]]
                read == Later(p) # {} /\ IsRead(Following(p))
            IN  /\ info.next_use = IF read THEN Following(p) ELSE Null
                /\ info.alive = (read \/ ta_code[p[1]].kind = "return"
                                      \/ (Later(p) = {} /\ id \in Vars))

Contract == INSTANCE UseContract WITH NonTemps <- Vars, Temporaries <- Temps

\* What the generator is handed, operand by operand, keeps the promises of
\* UseContract: CodeGen relies on nothing else.
ImplementsContract == Contract!ContractSpec
=============================================================================
