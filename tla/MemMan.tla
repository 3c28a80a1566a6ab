------------------------------- MODULE MemMan -------------------------------
(***************************************************************************)
(* MemManUnit of code_generator.cpp: the register allocator that turns one *)
(* function's three-address code into MIPS.  It keeps two tables that must *)
(* agree, reg_alloc_info (register -> table id) and memory_locations       *)
(* (table id -> register, in_mem), and emits loads and stores as a side    *)
(* effect of allocating and freeing registers.                             *)
(*                                                                         *)
(* The operators below are the member functions and the two emitters, as   *)
(* functions from unit to unit.  A unit holds the compile-time tables and, *)
(* next to them, what the emitted code has done to the machine so far:     *)
(* which id's latest value a register (rv) holds and whether an id's home  *)
(* in memory holds its latest value (mv).  Values, widths, operators and   *)
(* frame offsets are abstracted away.                                      *)
(***************************************************************************)
EXTENDS Integers

CONSTANTS Vars,         \* ids whose home is the frame or a .data label
          Args,         \* ids of register parameters: their numbers, 0..3
          Temps,        \* TEMP_ID_MASK ids
          NumTempRegs,  \* NUM_TEMP_REGS: $t0..$t9 in the code
          NumRegArgs,   \* NUM_REG_ARGS: $a0..$a3 in the code
          None          \* an empty reg_alloc_info slot; an unknown value

ASSUME RegAssumption ==
    /\ NumTempRegs \in Nat \ {0}
    /\ NumRegArgs \in Nat
    /\ Args \subseteq 0 .. NumRegArgs - 1

ASSUME IdAssumption ==
    /\ Vars \cap Args = {} /\ Vars \cap Temps = {} /\ Args \cap Temps = {}
    /\ None \notin Vars \cup Args \cup Temps

Ids  == Vars \cup Args \cup Temps
TReg == 0 .. NumTempRegs - 1
AReg == NumTempRegs .. NumTempRegs + NumRegArgs - 1
Reg  == TReg \cup AReg
tINV == -1

\* The first way in which this unit has emitted wrong code, if it has: see the
\* README.  What the machine holds after that is no longer followed.
Fault == {"none", "spill", "lost", "late", "nocode"}
\* The assertion that stopped the compiler, if one did.
Panic == {"none", "empty_reg", "store", "load", "free"}

Location == [reg : Reg \cup {tINV}, in_mem : BOOLEAN, home : BOOLEAN, known : BOOLEAN]

Unit == [start_issue    : TReg,
         reg_alloc_info : [TReg -> Ids \cup {None}],
         loc            : [Ids -> Location],
         rv             : [Reg -> Ids \cup {None}],
         mv             : [Ids -> BOOLEAN],
         mark           : BOOLEAN,
         stale          : SUBSET Ids,
         fault          : Fault,
         panic          : Panic]

\* create_memory_location for a variable and a register parameter; a
\* temporary has no entry before its first get_reg.
InitLocation(id) ==
    CASE id \in Vars  -> [reg |-> tINV, in_mem |-> TRUE, home |-> TRUE, known |-> TRUE]
      [] id \in Args  -> [reg |-> NumTempRegs + id, in_mem |-> FALSE, home |-> FALSE, known |-> TRUE]
      [] id \in Temps -> [reg |-> tINV, in_mem |-> FALSE, home |-> FALSE, known |-> FALSE]

\* MemManUnit::reset, and the machine at the function's entry.
InitUnit ==
    [start_issue    |-> 0,
     reg_alloc_info |-> [r \in TReg |-> None],
     loc            |-> [id \in Ids |-> InitLocation(id)],
     rv             |-> [r \in Reg |-> IF r - NumTempRegs \in Args THEN r - NumTempRegs ELSE None],
     mv             |-> [id \in Ids |-> id \in Vars],
     mark           |-> FALSE,
     stale          |-> {},
     fault          |-> "none",
     panic          |-> "none"]

Abort(u, why)      == [u EXCEPT !.panic = IF @ = "none" THEN why ELSE @]
WithFault(u, what) == [u EXCEPT !.fault = IF @ = "none" THEN what ELSE @]

(***************************************************************************)
(* Emission.  "xxxx" is written without a newline, so it deletes whichever *)
(* line is emitted next: mark says that one is pending.                    *)
(***************************************************************************)

Mark(u) == [u EXCEPT !.mark = TRUE]

Swallow(u) == [WithFault(u, "lost") EXCEPT !.mark = FALSE]

\* A line that neither reads nor writes what the unit tracks.
PlainLine(u) == IF u.mark THEN Swallow(u) ELSE u

IssueStore(u, r, id) ==
    IF ~u.loc[id].home THEN Abort(u, "store")
    ELSE IF u.mark THEN Swallow(u)
    ELSE [u EXCEPT !.mv[id] = (u.rv[r] = id)]

IssueLoad(u, r, id) ==
    IF ~u.loc[id].home THEN Abort(u, "load")
    ELSE IF u.mark THEN Swallow(u)
    ELSE [u EXCEPT !.rv[r] = IF u.mv[id] THEN id ELSE None]

\* Copies of an id in other registers and in memory go out of date when a
\* line defines it in register r; the register holds v, the id itself or None.
Redefine(u, r, id, v) ==
    [u EXCEPT !.rv = [q \in Reg |-> IF q = r THEN v ELSE IF u.rv[q] = id THEN None ELSE u.rv[q]],
              !.mv[id] = FALSE]

\* The ids of the <<id, register>> pairs whose register does not hold them.
StaleReads(u, reads) == {p[1] : p \in {q \in reads : u.rv[q[2]] # q[1]}}

\* The line of an instruction that reads registers only.
ReadLine(u, reads) ==
    IF u.mark THEN Swallow(u) ELSE [u EXCEPT !.stale = @ \cup StaleReads(u, reads)]

\* The line of an instruction that defines res in register r.  A pending mark
\* deletes it, which is harmless exactly when the result is dead.
DefLine(u, reads, r, res, dead) ==
    IF u.mark
    THEN LET w == Redefine([u EXCEPT !.mark = FALSE], r, res, None)
         IN  IF dead THEN w ELSE WithFault(w, "lost")
    ELSE Redefine([u EXCEPT !.stale = @ \cup StaleReads(u, reads)], r, res, res)

(***************************************************************************)
(* Allocation.  Operators that allocate return [u |-> unit, r |-> register]*)
(***************************************************************************)

\* The k-th slot of the round robin that begins at start_issue.
Slot(u, k) == (u.start_issue + k) % NumTempRegs
\* The least member of S, as a set: empty when S is.
First(S) == {k \in S : \A j \in S : k <= j}
\* The first slot whose table id is in S, as its distance from start_issue.
FirstSlot(u, S) == First({k \in TReg : u.reg_alloc_info[Slot(u, k)] \in S})

\* Mutant: the round robin does not wrap.
IssueNoWrap(u, k) == [u |-> [u EXCEPT !.start_issue = @ + k + 1], r |-> Slot(u, k)]

Issue(u, k) == [u |-> [u EXCEPT !.start_issue = Slot(u, k + 1)], r |-> Slot(u, k)]

\* The third search of get_empty_reg: the temporary is stored in a new stack
\* slot.  "addiu $sp" is the first line emitted.  The slot's offset from
\* $fp is positive, so the store hits the saved registers or the caller: "spill".
SpillTemp(u, k) ==
    LET t == u.reg_alloc_info[Slot(u, k)]
        w == [PlainLine(u) EXCEPT
                 !.loc[t] = [reg |-> tINV, in_mem |-> TRUE, home |-> TRUE, known |-> TRUE],
                 !.mv[t] = (u.rv[Slot(u, k)] = t)]
    IN  Issue(WithFault(w, "spill"), k)

\* The second search, for a register that holds no temporary, starts where
\* the first one ended, at NUM_TEMP_REGS, and never runs.
GetEmptyReg(u) ==
    LET empty == FirstSlot(u, {None})
        temp  == FirstSlot(u, Temps)
    IN  IF empty # {} THEN Issue(u, CHOOSE k \in empty : TRUE)
        ELSE IF temp # {} THEN SpillTemp(u, CHOOSE k \in temp : TRUE)
        ELSE [u |-> Abort(u, "empty_reg"), r |-> tINV]

SetInMem(u, id, mem_valid) ==
    CASE mem_valid = 0 -> [u EXCEPT !.loc[id].in_mem = FALSE]
      [] mem_valid = 1 -> [u EXCEPT !.loc[id].in_mem = TRUE]
      [] OTHER         -> u

ChooseReg(u, dest) == IF dest \in TReg THEN [u |-> u, r |-> dest] ELSE GetEmptyReg(u)

\* The part of get_reg that fetches the value once the register is chosen.
Fetch(u, r, id, load) ==
    IF ~load THEN u
    ELSE IF u.loc[id].in_mem THEN IssueLoad(u, r, id) ELSE Abort(u, "load")

\* The register is recorded in both tables before anything is loaded into it.
Assign(u, r, id) == [u EXCEPT !.reg_alloc_info[r] = id, !.loc[id].reg = r]

GetReg(u, dest, id, mem_valid, load) ==
    LET c == ChooseReg(u, dest)
        w == Assign(c.u, c.r, id)
    IN  IF u.loc[id].reg # tINV
        THEN [u |-> SetInMem(u, id, mem_valid), r |-> u.loc[id].reg]
        ELSE IF c.r = tINV THEN [c EXCEPT !.r = 0]
        ELSE IF u.loc[id].known
        THEN [u |-> SetInMem(Fetch(w, c.r, id, load), id, mem_valid), r |-> c.r]
        ELSE [u |-> [w EXCEPT !.loc[id] = [@ EXCEPT !.in_mem = TRUE, !.known = TRUE]], r |-> c.r]

\* Mutant: the location still names the register.
FreeRegKeepsLocation(u, r) ==
    IF r \notin TReg THEN u ELSE [u EXCEPT !.reg_alloc_info[r] = None]

FreeReg(u, r) ==
    IF r \notin TReg THEN u
    ELSE IF u.reg_alloc_info[r] = None THEN Abort(u, "free")
    ELSE [u EXCEPT !.loc[u.reg_alloc_info[r]].reg = tINV, !.reg_alloc_info[r] = None]

StoreAndFreeReg(u, r) ==
    IF r \notin TReg THEN u
    ELSE IF u.reg_alloc_info[r] = None THEN Abort(u, "free")
    ELSE LET id == u.reg_alloc_info[r]
             w  == IF u.loc[id].in_mem THEN u ELSE IssueStore(u, r, id)
         IN  [w EXCEPT !.loc[id] = [@ EXCEPT !.reg = tINV, !.in_mem = TRUE], !.reg_alloc_info[r] = None]

\* Mutant: an operand that survives its block is not stored.
ReleaseNoStore(u, r, flag) == IF flag = "next" THEN u ELSE FreeReg(u, r)

\* What every handler does with an operand's register once it has been read:
\* "dead" is !alive, "out" is alive with no next use, "next" is a next use.
Release(u, r, flag) ==
    CASE flag = "dead" -> FreeReg(u, r)
      [] flag = "out"  -> StoreAndFreeReg(u, r)
      [] flag = "next" -> u

\* ... and with a result's: a dead result keeps its register.
Settle(u, r, flag) == IF flag = "out" THEN StoreAndFreeReg(u, r) ELSE u

(***************************************************************************)
(* reg_alloc_info and memory_locations describe one assignment.            *)
(***************************************************************************)
Agree(u) ==
    /\ \A r \in TReg, id \in Ids : u.reg_alloc_info[r] = id <=> u.loc[id].reg = r
    /\ \A id \in Args : u.loc[id].reg = NumTempRegs + id
=============================================================================
