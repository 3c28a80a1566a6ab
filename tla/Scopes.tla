------------------------------- MODULE Scopes -------------------------------
(***************************************************************************)
(* LocalSymbolTable of symtab.cpp: the scopes of the function being        *)
(* compiled and the stack frame that is laid out while they open and       *)
(* close.  sym_table maps a name to a deque of entries, innermost first;   *)
(* an entry carries the level of its block and its offset in the frame.    *)
(* A block gives its part of the frame back when it ends, so that the next *)
(* block can use it, and reqd_size remembers the largest extent.           *)
(*                                                                         *)
(* The parser drives it: function_declaration, M_INC and '}' of            *)
(* compound_statement, a declaration's reduction, create_switch, and       *)
(* create_primary_identifier.  A declaration is entered when it has been   *)
(* read whole; until then its declarators are in pending.                  *)
(*                                                                         *)
(* Types are sizes.  A function declared in a block and a variable of type *)
(* void, which is refused before it takes space, are left out.             *)
(***************************************************************************)
EXTENDS Integers, Sequences

CONSTANTS Ident,      \* identifiers of the program
          Lines,      \* "switch:<line>" names, one for each line with a switch
          Sizes,      \* sizes of types, in bytes
          NumRegArgs, \* parameters that arrive in registers: 4 in the code
          MaxLevel,   \* bound: nesting of blocks
          MaxIds,     \* bound: entries made in a function
          MaxOffset,  \* bound: bytes of frame
          None

WORD_SIZE == 4

ASSUME ScopesAssumption ==
    /\ Ident \cap Lines = {}
    /\ Sizes \subseteq Nat \ {0}
    /\ NumRegArgs \in Nat /\ MaxLevel \in Nat /\ MaxIds \in Nat /\ MaxOffset \in Nat
    /\ None \notin Nat

VARIABLES
    phase,          \* between functions, or where in a function the parser is
    sym_table,      \* name -> its entries, the front of the deque first
    known,          \* the names that sym_table has a deque for, empty or not
    current_level, offset, reqd_size, symbol_id,
    pending,        \* the declarators of the declaration or parameter list being read
    found,          \* the id that the last identifier was resolved to
    error_flag,
    faults,         \* what has gone wrong in this function, by cause
    homes,          \* every local that this function has had so far
    blocks          \* of each open block: the offset it began at, and whether a statement was read

vars == <<phase, sym_table, known, current_level, offset, reqd_size, symbol_id,
          pending, found, error_flag, faults, homes, blocks>>

Names == Ident \cup Lines
Entry == [id : Nat, arg : BOOLEAN, level : Nat, offset : Nat, size : Nat]
Declarator == [name : Ident, size : Nat, init : BOOLEAN]

\* "switch":    a switch variable gets the frame's first word, which is in use
\* "unaligned": an initialised char leaves the frame off a word boundary
\* "front":     front() of an empty deque, which no later step is followed after
\* "early":     an initialiser names a declarator that is not in the table yet
\* "line":      a second switch of a block is on the line of the first
Fault == {"switch", "unaligned", "front", "early", "line"}
Fatal == {"front", "early", "line"}

Entries == UNION {{sym_table[n][i] : i \in DOMAIN sym_table[n]} : n \in Names}
Locals  == {e \in Entries : ~e.arg}

Init ==
    /\ phase = "global"
    /\ sym_table = [n \in Names |-> <<>>] /\ known = {}
    /\ current_level = 0 /\ offset = 0 /\ reqd_size = 0 /\ symbol_id = 0
    /\ pending = <<>> /\ found = None /\ error_flag = FALSE
    /\ faults = {} /\ homes = {} /\ blocks = <<>>

(***************************************************************************)
(* add_to_table.  Whether a name was ever declared in this function        *)
(* decides between a new deque and the front of the old one, which may be  *)
(* empty: front() is then whatever is in the freed slot.                   *)
(***************************************************************************)

\* Mutant: the second entry of a name reuses the counter's value.
PushKeepsId(n, e) ==
    /\ sym_table' = [sym_table EXCEPT ![n] = <<e>> \o @]
    /\ symbol_id' = IF n \in known THEN symbol_id ELSE symbol_id + 1
    /\ known' = known \cup {n}
    /\ homes' = IF e.arg THEN homes ELSE homes \cup {e}

Push(n, e) ==
    /\ sym_table' = [sym_table EXCEPT ![n] = <<e>> \o @]
    /\ known' = known \cup {n}
    /\ symbol_id' = symbol_id + 1
    /\ homes' = IF e.arg THEN homes ELSE homes \cup {e}

\* Mutant: a name is refused if any open block has it.
RedeclaredAnywhere(n) == sym_table[n] # <<>>

Redeclared(n) == sym_table[n] # <<>> /\ sym_table[n][1].level = current_level

Dangling(n) == n \in known /\ sym_table[n] = <<>>

\* An entry that is refused has taken its space already.  front() of an empty
\* deque reads a free slot, which lets the entry in if it is null; for any
\* other content see DanglingFront.
AddToTable(n, e) ==
    IF Redeclared(n)
    THEN error_flag' = TRUE /\ UNCHANGED <<sym_table, known, symbol_id, homes>>
    ELSE Push(n, e) /\ UNCHANGED error_flag

NewEntry(off, size, arg) ==
    [id |-> symbol_id, arg |-> arg, level |-> current_level, offset |-> off, size |-> size]

\* What is not followed any further.
Broken(what) ==
    /\ faults' = faults \cup {what}
    /\ UNCHANGED <<phase, sym_table, known, current_level, offset, reqd_size, symbol_id,
                   pending, found, error_flag, homes, blocks>>

\* Mutant: the largest extent is taken before the local is added.
ReserveBehind(size) ==
    /\ offset' = offset + size
    /\ reqd_size' = IF offset > reqd_size THEN offset ELSE reqd_size

\* Mutant: the frame grows downwards.
ReserveDown(size) ==
    /\ offset' = offset - size
    /\ reqd_size' = IF offset + size > reqd_size THEN offset + size ELSE reqd_size

\* Space for one more local.
Reserve(size) ==
    /\ offset' = offset + size
    /\ reqd_size' = IF offset + size > reqd_size THEN offset + size ELSE reqd_size

Aligned(k) == k % WORD_SIZE = 0

(***************************************************************************)
(* A function begins: add_function empties the table and enters the        *)
(* parameters one after the other, at the level of the body's block.       *)
(***************************************************************************)

AddFunction ==
    /\ phase = "global"
    /\ sym_table' = [n \in Names |-> <<>>] /\ known' = {}
    /\ symbol_id' = 0 /\ offset' = 0 /\ reqd_size' = 0
    /\ \E k \in 0 .. NumRegArgs + 1 : \E names \in [1 .. k -> Ident] :
           /\ pending' = [i \in 1 .. k |-> [name |-> names[i], size |-> WORD_SIZE, init |-> FALSE]]
           /\ phase' = IF k = 0 THEN "head" ELSE "params"
           /\ current_level' = IF k = 0 THEN current_level ELSE 1
    /\ homes' = {} /\ faults' = {}
    /\ UNCHANGED <<found, error_flag, blocks>>

AddParameter ==
    /\ phase = "params"
    /\ AddToTable(Head(pending).name, NewEntry(0, Head(pending).size, TRUE))
    /\ pending' = Tail(pending)
    /\ IF Len(pending) = 1 THEN phase' = "head" /\ current_level' = 0
                           ELSE UNCHANGED <<phase, current_level>>
    /\ UNCHANGED <<offset, reqd_size, found, faults, blocks>>

\* A statement of the innermost block has been read: it and the blocks around
\* it, of which it is in a statement, declare nothing any more.
InStatement == [i \in DOMAIN blocks |-> [mark |-> blocks[i].mark, statements |-> TRUE]]

\* M_INC, before a block's '{'.
IncreaseLevel ==
    /\ phase \in {"head", "body"} /\ pending = <<>> /\ current_level < MaxLevel
    /\ phase' = "body"
    /\ current_level' = current_level + 1
    /\ blocks' = Append(InStatement, [mark |-> offset, statements |-> FALSE])
    /\ UNCHANGED <<sym_table, known, offset, reqd_size, symbol_id, pending, found,
                   error_flag, faults, homes>>

(***************************************************************************)
(* Declarations.  The declarators of one declaration are entered in order. *)
(***************************************************************************)

InBlock(statements) ==
    phase = "body" /\ blocks # <<>> /\ blocks[Len(blocks)].statements = statements

\* An initialiser is an assignment to a scalar.
ReadDeclarator ==
    /\ InBlock(FALSE)
    /\ Len(pending) < 2 /\ symbol_id + Len(pending) < MaxIds /\ offset < MaxOffset
    /\ \E n \in Ident, size \in Sizes, init \in BOOLEAN :
           /\ init => size \in {1, WORD_SIZE}
           /\ pending' = Append(pending, [name |-> n, size |-> size, init |-> init])
    /\ UNCHANGED <<phase, sym_table, known, current_level, offset, reqd_size, symbol_id,
                   found, error_flag, faults, homes, blocks>>

\* Mutant: the object's size is not padded.
SpaceUnpadded(d) == d.size

\* A declarator with an initialiser takes size + size % 4 bytes, any other
\* the size rounded up to a word.
Space(d) ==
    IF d.init THEN d.size + (d.size % WORD_SIZE)
    ELSE IF Aligned(d.size) THEN d.size ELSE d.size + WORD_SIZE - (d.size % WORD_SIZE)

EnterDeclarator(d) ==
    /\ Reserve(Space(d))
    /\ AddToTable(d.name, NewEntry(offset, d.size, FALSE))
    /\ faults' = IF d.init /\ ~Aligned(Space(d)) THEN faults \cup {"unaligned"} ELSE faults

Declare ==
    /\ phase \in {"body", "declaring"} /\ pending # <<>>
    /\ EnterDeclarator(Head(pending))
    /\ pending' = Tail(pending)
    /\ phase' = IF Len(pending) = 1 THEN "body" ELSE "declaring"
    /\ UNCHANGED <<current_level, found, blocks>>

\* The deque is empty: the name's other block has ended.
DanglingFront ==
    /\ phase \in {"body", "declaring"} /\ pending # <<>>
    /\ Dangling(Head(pending).name)
    /\ Broken("front")

(***************************************************************************)
(* create_switch declares the variable that holds the value switched on,   *)
(* under a name made of the line number.  Its offset stays 0.              *)
(***************************************************************************)

StatementRead == blocks' = InStatement

CreateSwitch(line) ==
    /\ phase = "body" /\ pending = <<>> /\ symbol_id < MaxIds /\ offset < MaxOffset
    /\ ~Redeclared(line)
    /\ Reserve(WORD_SIZE)
    /\ AddToTable(line, NewEntry(0, WORD_SIZE, FALSE))
    /\ faults' = IF offset > 0 THEN faults \cup {"switch"} ELSE faults
    /\ StatementRead
    /\ UNCHANGED <<phase, current_level, pending, found>>

\* A second switch on the line is taken for the first one declared again.
SwitchRefused(line) ==
    /\ phase = "body" /\ pending = <<>> /\ Redeclared(line)
    /\ Broken("line")

SwitchDangling(line) ==
    /\ phase = "body" /\ pending = <<>> /\ Dangling(line)
    /\ Broken("front")

(***************************************************************************)
(* Identifiers and the end of a block.                                     *)
(***************************************************************************)

\* get_symbol_from_table: None sends the caller to the global table.
LookUp(n) == IF sym_table[n] = <<>> THEN None ELSE sym_table[n][1].id

PendingNames == {pending[i].name : i \in DOMAIN pending}

\* In a statement, or in the initialiser of the declarator read last.
CanUse ==
    /\ phase = "body" /\ blocks # <<>>
    /\ pending # <<>> => pending[Len(pending)].init

Identifier(n) ==
    /\ CanUse /\ n \notin PendingNames
    /\ found' = LookUp(n)
    /\ IF pending = <<>> THEN StatementRead ELSE UNCHANGED blocks
    /\ UNCHANGED <<phase, sym_table, known, current_level, offset, reqd_size, symbol_id,
                   pending, error_flag, faults, homes>>

\* The name's new meaning is not in the table yet.
IdentifierTooEarly(n) == CanUse /\ n \in PendingNames /\ Broken("early")

\* The names whose front entry belongs to the block that ends.
Ending == {n \in Names : Redeclared(n)}

\* Mutant: the space of the block is not given back.
GiveBackNothing(k) == k = offset

\* Mutant: the smallest offset of all visible names.
GiveBackAll(k) ==
    LET low == {offset} \cup {sym_table[n][1].offset : n \in {m \in Names : sym_table[m] # <<>>}}
    IN  k \in low /\ \A m \in low : k <= m

\* k is the smallest offset in the block that ends.
GiveBack(k) ==
    LET low == {offset} \cup {sym_table[n][1].offset : n \in Ending}
    IN  k \in low /\ \A m \in low : k <= m

ClearCurrentLevel ==
    /\ phase = "body" /\ pending = <<>> /\ current_level > 0
    /\ \E k \in 0 .. offset : GiveBack(k) /\ offset' = k
    /\ sym_table' = [n \in Names |-> IF n \in Ending THEN Tail(sym_table[n]) ELSE sym_table[n]]
    /\ current_level' = current_level - 1
    /\ phase' = IF current_level = 1 THEN "global" ELSE "body"
    /\ blocks' = SubSeq(blocks, 1, Len(blocks) - 1)
    /\ UNCHANGED <<known, reqd_size, symbol_id, pending, found, error_flag, faults, homes>>

Followed == faults \cap Fatal = {}

Next ==
    /\ Followed
    /\ \/ AddFunction \/ AddParameter \/ IncreaseLevel
       \/ ReadDeclarator \/ Declare \/ DanglingFront
       \/ \E l \in Lines : CreateSwitch(l) \/ SwitchRefused(l) \/ SwitchDangling(l)
       \/ \E n \in Ident : Identifier(n) \/ IdentifierTooEarly(n)
       \/ ClearCurrentLevel

Spec == Init /\ [][Next]_vars

(***************************************************************************)
(* Properties.                                                             *)
(***************************************************************************)

\* The tables and counters have their types, in every phase.
TypeOK ==
    /\ phase \in {"global", "params", "head", "body", "declaring"}
    /\ sym_table \in [Names -> Seq(Entry)] /\ known \subseteq Names
    /\ current_level \in Nat /\ offset \in Nat /\ reqd_size \in Nat /\ symbol_id \in Nat
    /\ pending \in Seq(Declarator) /\ (phase \in {"params", "declaring"} => pending # <<>>)
    /\ found \in Nat \cup {None} /\ error_flag \in BOOLEAN
    /\ faults \subseteq Fault /\ homes \subseteq Entry
    /\ blocks \in Seq([mark : Nat, statements : BOOLEAN])

\* The frame that generate_header makes, reqd_size bytes below $fp, holds every
\* local that the function had in any of its blocks, ended or not: an object
\* outside it overwrites what a call pushes.
FrameHolds == \A h \in homes : h.offset + h.size <= reqd_size

\* The locals of the open blocks do not share a byte, however blocks were
\* opened and closed before: a block that gives back too much would put the
\* next block's locals over those of a block around it.  "switch" is such a case.
NoOverlap ==
    "switch" \notin faults =>
        \A e, f \in Locals : e = f \/ e.offset + e.size <= f.offset \/ f.offset + f.size <= e.offset

\* A word is at a multiple of four bytes from $fp: issue_load and issue_store
\* use lw and sw at offset - symtab_size.
WordsAligned ==
    "unaligned" \notin faults =>
        Aligned(reqd_size) /\ \A h \in homes : Aligned(h.size) => Aligned(h.offset)

\* No two locals of a function have the same table id: memory_locations and
\* tac_info_table would take one variable for the other, in another block too.
IdsDistinct == \A h, k \in homes : h.id = k.id => h = k

\* When a block ends the frame is as large as when it began.
BlocksShareSpace ==
    [][Len(blocks') < Len(blocks) /\ "switch" \notin faults
           => offset' = blocks[Len(blocks)].mark]_vars

(***************************************************************************)
(* The table is a stack of scopes.  The front of a deque is the innermost  *)
(* binding of its name, a level is a scope, and the parameters are in the  *)
(* scope of level 1 before the body has begun.                             *)
(***************************************************************************)
Depth == CASE phase = "global" -> 0
           [] phase \in {"params", "head"} -> 1
           [] OTHER -> current_level

Binding(n, level) ==
    LET own == {i \in DOMAIN sym_table[n] : sym_table[n][i].level = level}
    IN  IF own = {} THEN None ELSE sym_table[n][CHOOSE i \in own : TRUE].id

C == INSTANCE Lexical WITH
         scopes   <- [level \in 1 .. Depth |-> [n \in Names |-> Binding(n, level)]],
         next     <- symbol_id,
         rejected <- error_flag

\* Every name means what C says it means, and exactly the second bindings of a
\* name in one block are refused.
ImplementsScopes == C!Spec

(***************************************************************************)
(* Parameters beyond the registers.  The caller pushes them in words above *)
(* the eight bytes of $ra and $fp that the prologue saves; the callee      *)
(* addresses them like locals, from symtab_size.                           *)
(***************************************************************************)
Pushed(k) == 8 + WORD_SIZE * (k - NumRegArgs)
Loaded(k) == Pushed(k) - reqd_size

StackParameters == {e.id : e \in {f \in Entries : f.arg /\ f.id >= NumRegArgs}}

\* The tests call functions of nine and ten parameters that sum them up: a
\* parameter is read where the caller left it.
ParametersArrive == phase = "body" => \A k \in StackParameters : Loaded(k) = Pushed(k)
=============================================================================
