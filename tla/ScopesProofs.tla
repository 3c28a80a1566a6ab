---------------------------- MODULE ScopesProofs ----------------------------
(***************************************************************************)
(* TypeOK, FrameHolds, IdsDistinct and NoOverlap are invariants of Scopes  *)
(* for every set of names, sizes and bounds.  So is WordsAligned, and the  *)
(* frame is as large after a block as before it.  Last comes the           *)
(* refinement: Scopes implements Lexical, as looking a name up at the      *)
(* front of its deque is looking for its innermost binding in the stack of *)
(* open scopes.                                                            *)
(***************************************************************************)
EXTENDS Scopes, TLAPS

\* The space taken for a declarator is at least its size.
LEMMA SpaceCovers ==
    ASSUME NEW d \in Declarator
    PROVE  Space(d) \in Nat /\ d.size <= Space(d)
<1> DEFINE s == d.size
<1>1. s \in Nat
  BY DEF Declarator
<1>2. s % 4 \in 0 .. 3
  BY <1>1
<1> HIDE DEF s
<1>3. /\ s + (s % 4) \in Nat /\ s <= s + (s % 4)
      /\ s + 4 - (s % 4) \in Nat /\ s <= s + 4 - (s % 4)
  BY <1>1, <1>2
<1>4. Space(d) \in {s, s + (s % 4), s + 4 - (s % 4)}
  BY DEF Space, Aligned, WORD_SIZE, s
<1>5. QED BY <1>1, <1>3, <1>4 DEF s

\* The two ways in which sequences are built here.
LEMMA IsASeq ==
    ASSUME NEW S, NEW n \in Nat, NEW f, f = [i \in 1 .. n |-> f[i]], \A i \in 1 .. n : f[i] \in S
    PROVE  f \in Seq(S)
OBVIOUS

LEMMA PushFront ==
    ASSUME NEW S, NEW e \in S, NEW q \in Seq(S)
    PROVE  /\ <<e>> \o q \in Seq(S)
           /\ Len(<<e>> \o q) = Len(q) + 1
           /\ (<<e>> \o q)[1] = e
           /\ \A i \in 2 .. Len(q) + 1 : (<<e>> \o q)[i] = q[i - 1]
OBVIOUS

LEMMA Elements ==
    ASSUME NEW S, NEW q \in Seq(S)
    PROVE  /\ Len(q) \in Nat /\ DOMAIN q = 1 .. Len(q)
           /\ \A i \in 1 .. Len(q) : q[i] \in S
           /\ q = <<>> <=> Len(q) = 0
OBVIOUS

LEMMA PopFront ==
    ASSUME NEW S, NEW q \in Seq(S), q # <<>>
    PROVE  /\ Head(q) = q[1] /\ q[1] \in S /\ Len(q) \in Nat \ {0}
           /\ Tail(q) \in Seq(S) /\ Len(Tail(q)) = Len(q) - 1
           /\ \A i \in 1 .. Len(q) - 1 : Tail(q)[i] = q[i + 1]
OBVIOUS

LEMMA PopBack ==
    ASSUME NEW S, NEW q \in Seq(S)
    PROVE  SubSeq(q, 1, Len(q) - 1) \in Seq(S)
<1>1. Len(q) \in Nat /\ \A i \in 1 .. Len(q) : q[i] \in S
  OBVIOUS
<1>2. SubSeq(q, 1, Len(q) - 1) = [i \in 1 .. Len(q) - 1 |-> q[i]]
  BY <1>1
<1>3. CASE Len(q) = 0
  <2>1. 1 .. Len(q) - 1 = 1 .. 0
    BY <1>3
  <2>2. QED BY <1>2, <2>1, IsASeq
<1>4. CASE Len(q) # 0
  <2>1. Len(q) - 1 \in Nat
    BY <1>1, <1>4
  <2>2. QED BY <1>1, <1>2, <2>1, IsASeq
<1>5. QED BY <1>3, <1>4

LEMMA PendingTail ==
    ASSUME pending \in Seq(Declarator), pending # <<>>
    PROVE  /\ Head(pending) \in Declarator
           /\ Tail(pending) \in Seq(Declarator)
           /\ Len(pending) # 1 => Tail(pending) # <<>>
<1> DEFINE D == Declarator
<1> HIDE DEF D
<1>1. pending \in Seq(D)
  BY DEF D
<1>2. /\ Head(pending) \in D /\ Tail(pending) \in Seq(D)
      /\ Len(pending) \in Nat \ {0} /\ Len(Tail(pending)) = Len(pending) - 1
  BY <1>1, PopFront
<1>3. Tail(pending) = <<>> => Len(Tail(pending)) = 0
  BY <1>2, Elements
<1>4. QED BY <1>2, <1>3 DEF D

LEMMA NewEntryType ==
    ASSUME TypeOK, NEW off \in Nat, NEW size \in Nat, NEW arg \in BOOLEAN
    PROVE  NewEntry(off, size, arg) \in Entry
BY DEF TypeOK, NewEntry, Entry

\* What AddToTable may change, and keeps typed.
TableTyped ==
    /\ sym_table \in [Names -> Seq(Entry)] /\ known \subseteq Names
    /\ symbol_id \in Nat /\ error_flag \in BOOLEAN /\ homes \subseteq Entry

LEMMA AddToTableTyped ==
    ASSUME TypeOK, NEW n \in Names, NEW e \in Entry, AddToTable(n, e)
    PROVE  TableTyped'
<1>1. CASE Redeclared(n)
  BY <1>1 DEF AddToTable, TypeOK, TableTyped
<1>2. CASE ~Redeclared(n)
  <2>1. <<e>> \o sym_table[n] \in Seq(Entry)
    BY PushFront DEF TypeOK
  <2>2. sym_table' \in [Names -> Seq(Entry)]
    BY <1>2, <2>1 DEF AddToTable, Push, TypeOK
  <2>3. known' \subseteq Names /\ symbol_id' \in Nat /\ error_flag' \in BOOLEAN
    BY <1>2 DEF AddToTable, Push, TypeOK
  <2>4. homes' \subseteq Entry
    BY <1>2 DEF AddToTable, Push, TypeOK
  <2>5. QED BY <2>2, <2>3, <2>4 DEF TableTyped
<1>3. QED BY <1>1, <1>2

Blocks == Seq([mark : Nat, statements : BOOLEAN])

LEMMA InStatementTyped ==
    ASSUME blocks \in Blocks PROVE InStatement \in Blocks
<1> DEFINE B == [mark : Nat, statements : BOOLEAN]
<1>1. Len(blocks) \in Nat /\ DOMAIN blocks = 1 .. Len(blocks) /\ \A i \in 1 .. Len(blocks) : blocks[i] \in B
  BY Elements DEF Blocks
<1>2. InStatement = [i \in 1 .. Len(blocks) |-> [mark |-> blocks[i].mark, statements |-> TRUE]]
  BY <1>1 DEF InStatement
<1>3. \A i \in 1 .. Len(blocks) : InStatement[i] \in B
  BY <1>1, <1>2
<1>4. InStatement = [i \in 1 .. Len(blocks) |-> InStatement[i]]
  BY <1>2
<1> HIDE DEF B
<1>5. InStatement \in Seq(B)
  BY <1>1, <1>3, <1>4, IsASeq
<1>6. QED BY <1>5 DEF Blocks, B

(***************************************************************************)
(* TypeOK.                                                                 *)
(***************************************************************************)

\* A typed table and counters, and everything else of TypeOK.
LEMMA TypeOKParts ==
    TypeOK <=> /\ TableTyped
               /\ phase \in {"global", "params", "head", "body", "declaring"}
               /\ current_level \in Nat /\ offset \in Nat /\ reqd_size \in Nat
               /\ pending \in Seq(Declarator) /\ (phase \in {"params", "declaring"} => pending # <<>>)
               /\ found \in Nat \cup {None}
               /\ faults \subseteq Fault
               /\ blocks \in Blocks
BY DEF TypeOK, TableTyped, Blocks

LEMMA InitTypeOK == Init => TypeOK
<1>1. Init => sym_table \in [Names -> Seq(Entry)]
  BY DEF Init
<1>2. Init => pending \in Seq(Declarator) /\ blocks \in Seq([mark : Nat, statements : BOOLEAN])
  BY DEF Init
<1>3. Init => /\ current_level \in Nat /\ offset \in Nat /\ reqd_size \in Nat /\ symbol_id \in Nat
  BY DEF Init
<1>4. Init => known \subseteq Names /\ homes \subseteq Entry /\ faults \subseteq Fault
  BY DEF Init
<1>5. Init => phase = "global" /\ found \in Nat \cup {None}
  BY DEF Init
<1>6. Init => error_flag \in BOOLEAN
  BY DEF Init
<1>7. QED BY <1>1, <1>2, <1>3, <1>4, <1>5, <1>6 DEF TypeOK

LEMMA AddFunctionTyped == ASSUME TypeOK, AddFunction PROVE TypeOK'
<1>a. PICK k \in 0 .. NumRegArgs + 1 : \E names \in [1 .. k -> Ident] :
          /\ pending' = [i \in 1 .. k |-> [name |-> names[i], size |-> WORD_SIZE, init |-> FALSE]]
          /\ phase' = IF k = 0 THEN "head" ELSE "params"
          /\ current_level' = IF k = 0 THEN current_level ELSE 1
  BY DEF AddFunction
<1>1. PICK names \in [1 .. k -> Ident] :
          /\ pending' = [i \in 1 .. k |-> [name |-> names[i], size |-> WORD_SIZE, init |-> FALSE]]
          /\ phase' = IF k = 0 THEN "head" ELSE "params"
          /\ current_level' = IF k = 0 THEN current_level ELSE 1
  BY <1>a
<1>2. k \in Nat
  BY ScopesAssumption
<1>3. \A i \in 1 .. k : pending'[i] \in Declarator
  BY <1>1 DEF Declarator, WORD_SIZE
<1>4. pending' = [i \in 1 .. k |-> pending'[i]]
  BY <1>1
<1>5. pending' \in Seq(Declarator)
  BY <1>2, <1>3, <1>4, IsASeq
<1>6. k # 0 => pending' # <<>>
  <2>1. DOMAIN pending' = 1 .. k
    BY <1>1
  <2>2. pending' = <<>> => DOMAIN pending' = {}
    OBVIOUS
  <2>3. QED BY <1>2, <2>1, <2>2
<1>7. sym_table' \in [Names -> Seq(Entry)]
  BY DEF AddFunction
<1>8. QED BY <1>1, <1>5, <1>6, <1>7 DEF AddFunction, TypeOK

LEMMA AddParameterTyped == ASSUME TypeOK, AddParameter PROVE TypeOK'
<1>1. pending \in Seq(Declarator) /\ pending # <<>>
  BY DEF TypeOK, AddParameter
<1>2. /\ Head(pending) \in Declarator /\ Tail(pending) \in Seq(Declarator)
      /\ Len(pending) # 1 => Tail(pending) # <<>>
  BY <1>1, PendingTail
<1>3. Head(pending).name \in Names /\ Head(pending).size \in Nat
  BY <1>2 DEF Declarator, Names
<1>4. NewEntry(0, Head(pending).size, TRUE) \in Entry
  BY <1>3, NewEntryType
<1>5. TableTyped'
  BY <1>3, <1>4, AddToTableTyped DEF AddParameter
<1>6. QED BY <1>2, <1>5, TypeOKParts DEF AddParameter, TypeOK, TableTyped

LEMMA IncreaseLevelTyped == ASSUME TypeOK, IncreaseLevel PROVE TypeOK'
<1>1. InStatement \in Blocks
  BY TypeOKParts, InStatementTyped
<1>2. [mark |-> offset, statements |-> FALSE] \in [mark : Nat, statements : BOOLEAN]
  BY DEF TypeOK
<1>3. blocks' \in Blocks
  BY <1>1, <1>2 DEF IncreaseLevel, Blocks
<1>4. QED BY <1>3 DEF IncreaseLevel, TypeOK, Blocks

LEMMA ReadDeclaratorTyped == ASSUME TypeOK, ReadDeclarator PROVE TypeOK'
<1>1. PICK n \in Ident, size \in Sizes, init \in BOOLEAN :
          pending' = Append(pending, [name |-> n, size |-> size, init |-> init])
  BY DEF ReadDeclarator
<1>2. [name |-> n, size |-> size, init |-> init] \in Declarator
  BY ScopesAssumption DEF Declarator
<1>3. pending' \in Seq(Declarator)
  BY <1>1, <1>2 DEF TypeOK
<1>4. phase = "body" /\ phase' = phase
  BY DEF ReadDeclarator, InBlock
<1>5. QED BY <1>3, <1>4 DEF ReadDeclarator, TypeOK

LEMMA DeclareTyped == ASSUME TypeOK, Declare PROVE TypeOK'
<1>1. pending \in Seq(Declarator) /\ pending # <<>>
  BY DEF TypeOK, Declare
<1> DEFINE d == Head(pending)
<1>2. /\ d \in Declarator /\ Tail(pending) \in Seq(Declarator)
      /\ Len(pending) # 1 => Tail(pending) # <<>>
  BY <1>1, PendingTail
<1>3. d.name \in Names /\ d.size \in Nat /\ Space(d) \in Nat
  BY <1>2, SpaceCovers DEF Declarator, Names
<1>4. NewEntry(offset, d.size, FALSE) \in Entry
  BY <1>3, NewEntryType DEF TypeOK
<1>5. TableTyped'
  BY <1>3, <1>4, AddToTableTyped DEF Declare, EnterDeclarator
<1>6. offset' \in Nat /\ reqd_size' \in Nat
  BY <1>3 DEF Declare, EnterDeclarator, Reserve, TypeOK
<1>7. faults' \subseteq Fault
  BY DEF Declare, EnterDeclarator, TypeOK, Fault
<1>8. QED BY <1>2, <1>5, <1>6, <1>7, TypeOKParts DEF Declare, TypeOK, TableTyped

LEMMA BrokenTyped == ASSUME TypeOK, NEW what \in Fault, Broken(what) PROVE TypeOK'
BY DEF Broken, TypeOK

LEMMA CreateSwitchTyped ==
    ASSUME TypeOK, NEW line \in Lines, CreateSwitch(line) PROVE TypeOK'
<1>1. line \in Names /\ WORD_SIZE \in Nat
  BY DEF Names, WORD_SIZE
<1>2. NewEntry(0, WORD_SIZE, FALSE) \in Entry
  BY <1>1, NewEntryType
<1>3. TableTyped'
  BY <1>1, <1>2, AddToTableTyped DEF CreateSwitch
<1>4. offset' \in Nat /\ reqd_size' \in Nat
  BY <1>1 DEF CreateSwitch, Reserve, TypeOK
<1>5. faults' \subseteq Fault
  BY DEF CreateSwitch, TypeOK, Fault
<1>6. blocks' \in Blocks
  BY TypeOKParts, InStatementTyped DEF CreateSwitch, StatementRead
<1>7. QED BY <1>3, <1>4, <1>5, <1>6, TypeOKParts DEF CreateSwitch, TypeOK, TableTyped, Blocks

LEMMA IdentifierTyped == ASSUME TypeOK, NEW n \in Ident, Identifier(n) PROVE TypeOK'
<1>1. n \in Names /\ sym_table[n] \in Seq(Entry)
  BY DEF Names, TypeOK
<1>2. sym_table[n] # <<>> => sym_table[n][1] \in Entry
  BY <1>1, PopFront
<1>3. found' \in Nat \cup {None}
  BY <1>2 DEF Identifier, LookUp, Entry
<1>4. blocks' \in Blocks
  BY TypeOKParts, InStatementTyped DEF Identifier, StatementRead
<1>5. QED BY <1>3, <1>4 DEF Identifier, TypeOK, Blocks

LEMMA ClearCurrentLevelTyped == ASSUME TypeOK, ClearCurrentLevel PROVE TypeOK'
<1>1. offset' \in Nat /\ current_level' \in Nat
  BY DEF ClearCurrentLevel, TypeOK
<1>2. \A n \in Names : sym_table[n] \in Seq(Entry) /\ (n \in Ending => sym_table[n] # <<>>)
  BY DEF TypeOK, Ending, Redeclared
<1>3. \A n \in Ending : Tail(sym_table[n]) \in Seq(Entry)
  BY <1>2, PopFront DEF Ending
<1>4. sym_table' \in [Names -> Seq(Entry)]
  BY <1>2, <1>3 DEF ClearCurrentLevel
<1>5. blocks' \in Blocks
  BY TypeOKParts, PopBack DEF ClearCurrentLevel, Blocks
<1>6. QED BY <1>1, <1>4, <1>5 DEF ClearCurrentLevel, TypeOK, Blocks

\* The steps after which nothing is followed.
LEMMA OtherSteps ==
    Next => \/ AddFunction \/ AddParameter \/ IncreaseLevel \/ ReadDeclarator \/ Declare
            \/ ClearCurrentLevel
            \/ \E l \in Lines : CreateSwitch(l)
            \/ \E n \in Ident : Identifier(n)
            \/ \E what \in Fault : Broken(what)
BY DEF Next, DanglingFront, SwitchRefused, SwitchDangling, IdentifierTooEarly, Fault

LEMMA NextTypeOK == TypeOK /\ [Next]_vars => TypeOK'
<1> SUFFICES ASSUME TypeOK, [Next]_vars PROVE TypeOK'
  OBVIOUS
<1>1. CASE AddFunction \/ AddParameter \/ IncreaseLevel
  BY <1>1, AddFunctionTyped, AddParameterTyped, IncreaseLevelTyped
<1>2. CASE ReadDeclarator \/ Declare
  BY <1>2, ReadDeclaratorTyped, DeclareTyped
<1>3. CASE ClearCurrentLevel
  BY <1>3, ClearCurrentLevelTyped
<1>4. CASE \E l \in Lines : CreateSwitch(l)
  BY <1>4, CreateSwitchTyped
<1>5. CASE \E n \in Ident : Identifier(n)
  BY <1>5, IdentifierTyped
<1>6. CASE \E what \in Fault : Broken(what)
  BY <1>6, BrokenTyped
<1>7. CASE UNCHANGED vars
  BY <1>7 DEF vars, TypeOK
<1>8. QED BY <1>1, <1>2, <1>3, <1>4, <1>5, <1>6, <1>7, OtherSteps

\* The symbol table's entries, counters and bookkeeping have their types
\* whatever the program declares.
THEOREM SpecTypeOK == Spec => []TypeOK
<1>1. Init => TypeOK
  BY InitTypeOK
<1>2. TypeOK /\ [Next]_vars => TypeOK'
  BY NextTypeOK
<1>3. QED BY <1>1, <1>2, PTL DEF Spec

(***************************************************************************)
(* What every local has had since it was entered: space inside the frame,  *)
(* and a number that no later entry gets.                                  *)
(***************************************************************************)

Accounted ==
    /\ \A h \in homes : h.offset + h.size <= reqd_size /\ h.id < symbol_id
    /\ \A h, k \in homes : h.id = k.id => h = k

\* An entry that is refused changes nothing here, one that is accepted is new.
LEMMA AddToTableAccounted ==
    ASSUME TypeOK, Accounted, NEW n \in Names, NEW off \in Nat, NEW size \in Nat,
           NEW arg \in BOOLEAN, AddToTable(n, NewEntry(off, size, arg)),
           reqd_size' \in Nat, reqd_size <= reqd_size', off + size <= reqd_size'
    PROVE  Accounted'
<1> DEFINE e == NewEntry(off, size, arg)
<1>1. e \in Entry /\ e.id = symbol_id /\ e.offset = off /\ e.size = size
  BY NewEntryType DEF NewEntry
<1>2. symbol_id \in Nat /\ reqd_size \in Nat
      /\ \A h \in homes : h.id \in Nat /\ h.offset \in Nat /\ h.size \in Nat
  BY DEF TypeOK, Entry
<1>3. /\ homes' \subseteq homes \cup {e}
      /\ symbol_id' = symbol_id + 1 \/ (symbol_id' = symbol_id /\ homes' = homes)
  BY DEF AddToTable, Push
<1> HIDE DEF e
<1>4. \A h \in homes' : h.offset + h.size <= reqd_size' /\ h.id < symbol_id'
  BY <1>1, <1>2, <1>3 DEF Accounted
<1>5. \A h, k \in homes' : h.id = k.id => h = k
  BY <1>1, <1>2, <1>3 DEF Accounted
<1>6. QED BY <1>4, <1>5 DEF Accounted

LEMMA NextAccounted == TypeOK /\ Accounted /\ [Next]_vars => Accounted'
<1> SUFFICES ASSUME TypeOK, Accounted, [Next]_vars PROVE Accounted'
  OBVIOUS
<1>1. CASE AddFunction
  BY <1>1 DEF AddFunction, Accounted
<1>2. CASE AddParameter
  <2>1. Head(pending) \in Declarator
    BY <1>2, PendingTail DEF TypeOK, AddParameter
  <2>2. Head(pending).name \in Names /\ Head(pending).size \in Nat
    BY <2>1 DEF Declarator, Names
  <2>3. TypeOK'
    BY <1>2, AddParameterTyped
  <2>4. PICK n \in Names, size \in Nat : AddToTable(n, NewEntry(0, size, TRUE))
    BY <1>2, <2>2 DEF AddParameter
  <2>5. homes' = homes /\ reqd_size' = reqd_size /\ symbol_id <= symbol_id'
    BY <1>2, <2>4 DEF AddParameter, AddToTable, Push, NewEntry, TypeOK
  <2>6. QED BY <2>3, <2>5 DEF Accounted, TypeOK, Entry
<1>3. CASE Declare
  <2> DEFINE d == Head(pending)
  <2>1. d \in Declarator
    BY <1>3, PendingTail DEF TypeOK, Declare
  <2>2. d.name \in Names /\ d.size \in Nat /\ Space(d) \in Nat /\ d.size <= Space(d)
    BY <2>1, SpaceCovers DEF Declarator, Names
  <2>3. AddToTable(d.name, NewEntry(offset, d.size, FALSE)) /\ Reserve(Space(d))
    BY <1>3 DEF Declare, EnterDeclarator
  <2> HIDE DEF d
  <2>4. /\ offset \in Nat /\ reqd_size' \in Nat /\ reqd_size <= reqd_size'
        /\ offset + d.size <= reqd_size'
    BY <2>2, <2>3 DEF Reserve, TypeOK
  <2>5. QED BY <2>2, <2>3, <2>4, AddToTableAccounted
<1>4. CASE \E l \in Lines : CreateSwitch(l)
  <2>1. PICK l \in Lines : CreateSwitch(l)
    BY <1>4
  <2>2. /\ 0 \in Nat /\ WORD_SIZE \in Nat /\ l \in Names
        /\ AddToTable(l, NewEntry(0, WORD_SIZE, FALSE)) /\ Reserve(WORD_SIZE)
    BY <2>1 DEF CreateSwitch, WORD_SIZE, Names
  <2>3. reqd_size' \in Nat /\ reqd_size <= reqd_size' /\ 0 + WORD_SIZE <= reqd_size'
    BY <2>2 DEF Reserve, TypeOK
  <2>4. QED BY <2>2, <2>3, AddToTableAccounted
<1>5. CASE UNCHANGED <<homes, reqd_size, symbol_id>>
  BY <1>5 DEF Accounted
<1>6. IncreaseLevel \/ ReadDeclarator \/ ClearCurrentLevel \/ UNCHANGED vars
          \/ (\E n \in Ident : Identifier(n)) \/ (\E what \in Fault : Broken(what))
      => UNCHANGED <<homes, reqd_size, symbol_id>>
  BY DEF IncreaseLevel, ReadDeclarator, ClearCurrentLevel, vars, Identifier, Broken
<1>7. QED BY <1>1, <1>2, <1>3, <1>4, <1>5, <1>6, OtherSteps

\* The frame that the prologue makes holds every local of the function,
\* whatever blocks it has and whichever of them have ended.
THEOREM SpecFrameHolds == Spec => []FrameHolds
<1>1. Init => TypeOK /\ Accounted
  BY InitTypeOK DEF Init, Accounted
<1>2. TypeOK /\ Accounted /\ [Next]_vars => (TypeOK /\ Accounted)'
  BY NextTypeOK, NextAccounted
<1>3. Accounted => FrameHolds
  BY DEF Accounted, FrameHolds
<1>4. QED BY <1>1, <1>2, <1>3, PTL DEF Spec

\* No two locals of a function have the same table id, so that the tables of
\* the code generator, which are keyed by it, never confuse two variables.
THEOREM SpecIdsDistinct == Spec => []IdsDistinct
<1>1. Init => TypeOK /\ Accounted
  BY InitTypeOK DEF Init, Accounted
<1>2. TypeOK /\ Accounted /\ [Next]_vars => (TypeOK /\ Accounted)'
  BY NextTypeOK, NextAccounted
<1>3. Accounted => IdsDistinct
  BY DEF Accounted, IdsDistinct
<1>4. QED BY <1>1, <1>2, <1>3, PTL DEF Spec

(***************************************************************************)
(* The deques are ordered by level, and a block's locals lie above those   *)
(* of the blocks around it.  Both are needed for ClearCurrentLevel: the    *)
(* first says that what it pops is all of the block, the second that the   *)
(* smallest offset it finds is above everything that stays.                *)
(***************************************************************************)

Sorted(tab, top) ==
    \A n \in Names :
        /\ \A i \in 1 .. Len(tab[n]) :
               /\ 1 <= tab[n][i].level /\ tab[n][i].level <= top
               /\ tab[n][i].arg => tab[n][i].level = 1
        /\ \A i, j \in 1 .. Len(tab[n]) : i < j => tab[n][j].level < tab[n][i].level

\* The level of the innermost scope that has entries.
Level == IF phase = "head" THEN 1 ELSE current_level

Levels ==
    /\ phase \in {"global", "head"} => current_level = 0
    /\ phase = "params" => current_level = 1
    /\ phase \in {"body", "declaring"} => current_level >= 1

EndOf(e) == e.offset + e.size

Apart(e, f) == EndOf(e) <= f.offset \/ EndOf(f) <= e.offset

Stacked ==
    /\ \A e \in Locals : EndOf(e) <= offset
    /\ \A e, f \in Locals : e.level < f.level => EndOf(e) <= f.offset
    /\ \A e, f \in Locals : e.level = f.level => e = f \/ Apart(e, f)

Layout == Sorted(sym_table, Level) /\ Levels /\ ("switch" \notin faults => Stacked)

LEMMA EntriesOf ==
    ASSUME TypeOK
    PROVE  /\ Entries \subseteq Entry
           /\ \A n \in Names : \A i \in 1 .. Len(sym_table[n]) : sym_table[n][i] \in Entries
           /\ \A f \in Entries : \E n \in Names : \E i \in 1 .. Len(sym_table[n]) : f = sym_table[n][i]
<1>1. \A n \in Names : sym_table[n] \in Seq(Entry)
  BY DEF TypeOK
<1>2. \A n \in Names : DOMAIN sym_table[n] = 1 .. Len(sym_table[n])
                       /\ \A i \in 1 .. Len(sym_table[n]) : sym_table[n][i] \in Entry
  BY <1>1, Elements
<1>3. QED BY <1>2 DEF Entries

LEMMA EntriesAfter ==
    ASSUME TypeOK', NEW f \in Entries'
    PROVE  \E n \in Names : \E i \in 1 .. Len(sym_table'[n]) : f = sym_table'[n][i]
<1>1. \A n \in Names : sym_table'[n] \in Seq(Entry)
  BY DEF TypeOK
<1>2. \A n \in Names : DOMAIN sym_table'[n] = 1 .. Len(sym_table'[n])
  BY <1>1, Elements
<1>3. QED BY <1>2 DEF Entries

\* A new entry is its block's only one of the name, and its deque's highest.
LEMMA AddToTableLayout ==
    ASSUME TypeOK, TypeOK', NEW n \in Names, NEW e \in Entry, AddToTable(n, e),
           Sorted(sym_table, current_level), current_level >= 1, e.level = current_level,
           e.arg => current_level = 1
    PROVE  Sorted(sym_table', current_level) /\ Entries' \subseteq Entries \cup {e}
<1>1. CASE Redeclared(n)
  BY <1>1 DEF AddToTable, Entries
<1>2. CASE ~Redeclared(n)
  <2> DEFINE q == sym_table[n]
             r == sym_table'[n]
  <2>1. q \in Seq(Entry) /\ current_level \in Nat
    BY DEF TypeOK
  <2>2. r = <<e>> \o q /\ \A m \in Names \ {n} : sym_table'[m] = sym_table[m]
    BY <1>2 DEF AddToTable, Push, TypeOK
  <2>3. /\ Len(q) \in Nat /\ Len(r) = Len(q) + 1 /\ r[1] = e
        /\ \A i \in 2 .. Len(q) + 1 : r[i] = q[i - 1]
    BY <2>1, <2>2, PushFront, Elements
  <2>4. \A i \in 1 .. Len(q) : q[i] \in Entry /\ q[i].level \in Nat
    <3>1. \A i \in 1 .. Len(q) : q[i] \in Entry
      BY <2>1, Elements
    <3>2. QED BY <3>1 DEF Entry
  <2>5. /\ \A i \in 1 .. Len(q) : /\ 1 <= q[i].level /\ q[i].level <= current_level
                                  /\ q[i].arg => q[i].level = 1
        /\ \A i, j \in 1 .. Len(q) : i < j => q[j].level < q[i].level
        /\ q # <<>> => q[1].level # current_level
    BY <1>2 DEF Sorted, Redeclared
  <2>6. q # <<>> <=> Len(q) # 0
    BY <2>1, Elements
  <2> HIDE DEF q, r
  <2>7. ASSUME NEW i \in 1 .. Len(q) PROVE q[i].level < current_level
    <3>1. 1 \in 1 .. Len(q) /\ q[1].level \in Nat /\ q[i].level \in Nat /\ Len(q) # 0
      BY <2>3, <2>4
    <3>2. i = 1 \/ q[i].level < q[1].level
      BY <2>3, <2>5, <3>1
    <3>3. q[1].level < current_level
      BY <2>1, <2>5, <2>6, <3>1
    <3>4. QED BY <2>1, <3>1, <3>2, <3>3
  <2>8. ASSUME NEW i \in 1 .. Len(r), i # 1
        PROVE  i - 1 \in 1 .. Len(q) /\ r[i] = q[i - 1]
    <3>1. i \in 2 .. Len(q) + 1
      BY <2>3, <2>8
    <3>2. QED BY <2>3, <3>1
  <2>9. \A i \in 1 .. Len(r) :
            /\ 1 <= r[i].level /\ r[i].level <= current_level
            /\ r[i].arg => r[i].level = 1
    <3> SUFFICES ASSUME NEW i \in 1 .. Len(r)
                 PROVE  /\ 1 <= r[i].level /\ r[i].level <= current_level
                        /\ r[i].arg => r[i].level = 1
      OBVIOUS
    <3>1. CASE i = 1
      BY <2>1, <2>3, <3>1
    <3>2. CASE i # 1
      BY <2>5, <2>8, <3>2
    <3>3. QED BY <3>1, <3>2
  <2>10. \A i, j \in 1 .. Len(r) : i < j => r[j].level < r[i].level
    <3> SUFFICES ASSUME NEW i \in 1 .. Len(r), NEW j \in 1 .. Len(r), i < j
                 PROVE  r[j].level < r[i].level
      OBVIOUS
    <3>1. j # 1 /\ j - 1 \in 1 .. Len(q) /\ r[j] = q[j - 1]
      <4>1. j # 1
        BY <2>3
      <4>2. QED BY <2>8, <4>1
    <3>2. CASE i = 1
      BY <2>3, <2>7, <3>1, <3>2
    <3>3. CASE i # 1
      <4>1. i - 1 \in 1 .. Len(q) /\ r[i] = q[i - 1] /\ i - 1 < j - 1
        BY <2>3, <2>8, <3>3
      <4>2. QED BY <2>5, <3>1, <4>1
    <3>4. QED BY <3>2, <3>3
  <2>11. Sorted(sym_table', current_level)
    <3> SUFFICES ASSUME NEW m \in Names
                 PROVE  LET t == sym_table'[m]
                        IN  /\ \A i \in 1 .. Len(t) : /\ 1 <= t[i].level /\ t[i].level <= current_level
                                                      /\ t[i].arg => t[i].level = 1
                            /\ \A i, j \in 1 .. Len(t) : i < j => t[j].level < t[i].level
      BY DEF Sorted
    <3>1. CASE m = n
      BY <2>9, <2>10, <3>1 DEF r
    <3>2. CASE m # n
      BY <2>2, <3>2 DEF Sorted
    <3>3. QED BY <3>1, <3>2
  <2>12. ASSUME NEW f \in Entries' PROVE f \in Entries \cup {e}
    <3>1. PICK m \in Names : \E i \in 1 .. Len(sym_table'[m]) : f = sym_table'[m][i]
      BY EntriesAfter
    <3>2. PICK i \in 1 .. Len(sym_table'[m]) : f = sym_table'[m][i]
      BY <3>1
    <3>3. CASE m = n /\ i = 1
      BY <2>3, <3>2, <3>3 DEF r
    <3>4. CASE m = n /\ i # 1
      <4>1. i - 1 \in 1 .. Len(q) /\ f = q[i - 1]
        BY <2>8, <3>2, <3>4 DEF r
      <4>2. QED BY <4>1, EntriesOf DEF q
    <3>5. CASE m # n
      BY <2>2, <3>2, <3>5, EntriesOf
    <3>6. QED BY <3>3, <3>4, <3>5
  <2>13. QED BY <2>11, <2>12
<1>3. QED BY <1>1, <1>2

\* The new entry lies above all that is in the table.
LEMMA AddLocalStacked ==
    ASSUME TypeOK, TypeOK', Stacked, Sorted(sym_table, current_level),
           NEW e \in Entry, e.level = current_level, e.offset = offset,
           EndOf(e) <= offset', offset <= offset', Entries' \subseteq Entries \cup {e}
    PROVE  Stacked'
<1>1. /\ offset \in Nat /\ offset' \in Nat /\ current_level \in Nat
      /\ \A f \in Entry : f.offset \in Nat /\ f.size \in Nat /\ f.level \in Nat /\ EndOf(f) \in Nat
      /\ \A f \in Locals : f \in Entry
  <2>1. \A f \in Locals : f \in Entry
    BY EntriesOf DEF Locals
  <2>2. \A f \in Entry : f.offset \in Nat /\ f.size \in Nat /\ f.level \in Nat
    BY DEF Entry
  <2>3. offset \in Nat /\ offset' \in Nat /\ current_level \in Nat
    BY DEF TypeOK
  <2>4. QED BY <2>1, <2>2, <2>3 DEF EndOf
<1>2. \A f \in Locals : f.level <= current_level
  BY EntriesOf DEF Sorted, Locals
<1>3. Locals' \subseteq Locals \cup {e}
  BY DEF Locals
<1>4. \A f \in Locals : EndOf(f) <= offset
  BY DEF Stacked
<1>5. \A f \in Locals' : EndOf(f) <= offset'
  BY <1>1, <1>3, <1>4
<1>6. ASSUME NEW f \in Locals', NEW g \in Locals'
      PROVE  /\ f.level < g.level => EndOf(f) <= g.offset
             /\ f.level = g.level => f = g \/ Apart(f, g)
  <2>1. CASE f \in Locals /\ g \in Locals
    BY <2>1 DEF Stacked
  <2>2. CASE f = e /\ g = e
    BY <1>1, <2>2
  <2>3. CASE f \in Locals /\ g = e
    BY <1>4, <2>3 DEF Apart
  <2>4. CASE f = e /\ g \in Locals
    <3>1. ~(f.level < g.level)
      BY <1>1, <1>2, <2>4
    <3>2. Apart(f, g)
      BY <1>4, <2>4 DEF Apart
    <3>3. QED BY <3>1, <3>2
  <2>5. QED BY <1>3, <2>1, <2>2, <2>3, <2>4
<1>7. QED BY <1>5, <1>6 DEF Stacked, EndOf, Apart

\* The end of a block takes all of its entries and nothing else.
LEMMA ClearedTable ==
    ASSUME TypeOK, TypeOK', ClearCurrentLevel, Sorted(sym_table, current_level)
    PROVE  /\ Sorted(sym_table', current_level - 1)
           /\ \A f \in Entries' : f \in Entries /\ f.level < current_level
<1>1. current_level \in Nat \ {0}
  BY DEF TypeOK, ClearCurrentLevel
<1>2. ASSUME NEW n \in Names
      PROVE  /\ \A i \in 1 .. Len(sym_table'[n]) :
                    /\ sym_table'[n][i] \in Entries
                    /\ 1 <= sym_table'[n][i].level /\ sym_table'[n][i].level < current_level
                    /\ sym_table'[n][i].arg => sym_table'[n][i].level = 1
             /\ \A i, j \in 1 .. Len(sym_table'[n]) :
                    i < j => sym_table'[n][j].level < sym_table'[n][i].level
  <2> DEFINE q == sym_table[n]
             r == sym_table'[n]
  <2>1. q \in Seq(Entry) /\ Len(q) \in Nat /\ (q = <<>> <=> Len(q) = 0)
    BY Elements DEF TypeOK
  <2>2. \A i \in 1 .. Len(q) : q[i] \in Entries /\ q[i].level \in Nat
    BY EntriesOf DEF Entry
  <2>3. /\ \A i \in 1 .. Len(q) : /\ 1 <= q[i].level /\ q[i].level <= current_level
                                  /\ q[i].arg => q[i].level = 1
        /\ \A i, j \in 1 .. Len(q) : i < j => q[j].level < q[i].level
    BY DEF Sorted
  <2>4. CASE n \in Ending
    <3>1. q # <<>> /\ q[1].level = current_level /\ r = Tail(q)
      BY <2>4 DEF Ending, Redeclared, ClearCurrentLevel
    <3>2. Len(r) = Len(q) - 1 /\ \A i \in 1 .. Len(q) - 1 : r[i] = q[i + 1]
      BY <2>1, <3>1, PopFront
    <3> HIDE DEF q, r
    <3>3. ASSUME NEW i \in 1 .. Len(r)
          PROVE  i + 1 \in 1 .. Len(q) /\ r[i] = q[i + 1] /\ 1 \in 1 .. Len(q) /\ 1 < i + 1
      BY <2>1, <3>2
    <3>4. ASSUME NEW i \in 1 .. Len(r)
          PROVE  /\ r[i] \in Entries /\ 1 <= r[i].level /\ r[i].level < current_level
                 /\ r[i].arg => r[i].level = 1
      BY <2>2, <2>3, <3>1, <3>3
    <3>5. ASSUME NEW i \in 1 .. Len(r), NEW j \in 1 .. Len(r), i < j
          PROVE  r[j].level < r[i].level
      <4>1. i + 1 < j + 1
        BY <2>1, <3>2, <3>5
      <4>2. QED BY <2>3, <3>3, <4>1
    <3>6. QED BY <3>4, <3>5 DEF r
  <2>5. CASE n \notin Ending
    <3>1. r = q
      BY <2>5 DEF ClearCurrentLevel
    <3>2. q # <<>> => q[1].level # current_level
      BY <2>5 DEF Ending, Redeclared
    <3> HIDE DEF q, r
    <3>3. ASSUME NEW i \in 1 .. Len(q) PROVE q[i].level < current_level
      <4>1. 1 \in 1 .. Len(q) /\ q[1].level \in Nat /\ q[i].level \in Nat /\ q # <<>>
        BY <2>1, <2>2
      <4>2. q[1].level < current_level
        BY <1>1, <2>3, <3>2, <4>1
      <4>3. i = 1 \/ q[i].level < q[1].level
        BY <2>1, <2>3, <4>1
      <4>4. QED BY <1>1, <4>1, <4>2, <4>3
    <3>4. QED BY <2>2, <2>3, <3>1, <3>3 DEF q, r
  <2>6. QED BY <2>4, <2>5
<1>3. \A n \in Names : \A i \in 1 .. Len(sym_table'[n]) :
          sym_table'[n][i].level \in Nat /\ sym_table'[n][i].level <= current_level - 1
  BY <1>1, <1>2, EntriesOf DEF Entry
<1>4. Sorted(sym_table', current_level - 1)
  BY <1>2, <1>3 DEF Sorted
<1>5. QED BY <1>2, <1>4, EntriesAfter

\* What a block gives back is above everything that stays.
LEMMA ClearedStacked ==
    ASSUME TypeOK, TypeOK', ClearCurrentLevel, Sorted(sym_table, current_level), Stacked
    PROVE  Stacked'
<1>1. \A f \in Locals' : f \in Locals /\ f.level < current_level /\ f.level \in Nat /\ 1 <= f.level
  BY ClearedTable, EntriesOf DEF Locals, Sorted, Entry
<1>2. PICK k \in 0 .. offset : GiveBack(k) /\ offset' = k
  BY DEF ClearCurrentLevel
<1>3. k = offset \/ \E n \in Ending : k = sym_table[n][1].offset
  BY <1>2 DEF GiveBack
<1>4. ASSUME NEW f \in Locals' PROVE EndOf(f) <= k
  <2>1. CASE k = offset
    BY <1>1, <2>1 DEF Stacked
  <2>2. CASE \E n \in Ending : k = sym_table[n][1].offset
    <3>1. PICK n \in Ending : k = sym_table[n][1].offset
      BY <2>2
    <3>2. n \in Names /\ sym_table[n] # <<>> /\ sym_table[n][1].level = current_level
      BY <3>1 DEF Ending, Redeclared
    <3>3. sym_table[n] \in Seq(Entry)
      BY <3>2 DEF TypeOK
    <3>4. 1 \in 1 .. Len(sym_table[n])
      BY <3>2, <3>3, Elements
    <3>5. sym_table[n][1] \in Entries /\ (sym_table[n][1].arg => current_level = 1)
      BY <3>2, <3>4, EntriesOf DEF Sorted
    <3>6. sym_table[n][1] \in Locals
      BY <1>1, <3>5, EntriesOf DEF Locals, Entry
    <3>7. QED BY <1>1, <3>1, <3>2, <3>6 DEF Stacked
  <2>3. QED BY <1>3, <2>1, <2>2
<1>5. QED BY <1>1, <1>2, <1>4 DEF Stacked, EndOf, Apart

LEMMA NextLayout == TypeOK /\ Layout /\ [Next]_vars => Layout'
<1> SUFFICES ASSUME TypeOK, Layout, [Next]_vars PROVE Layout'
  OBVIOUS
<1>a. TypeOK'
  BY NextTypeOK
<1>b. offset \in Nat /\ current_level \in Nat
  BY DEF TypeOK
<1>1. CASE AddFunction
  <2>1. sym_table' = [n \in Names |-> <<>>]
    BY <1>1 DEF AddFunction
  <2>2. Sorted(sym_table', Level') /\ Locals' = {}
    BY <2>1 DEF Sorted, Locals, Entries
  <2>3. Levels'
    BY <1>1 DEF AddFunction, Levels, Layout
  <2>4. QED BY <2>2, <2>3 DEF Layout, Stacked
<1>2. CASE AddParameter
  <2>1. Head(pending) \in Declarator
    BY <1>2, PendingTail DEF TypeOK, AddParameter
  <2>2. Head(pending).name \in Names /\ Head(pending).size \in Nat
    BY <2>1 DEF Declarator, Names
  <2> DEFINE e == NewEntry(0, Head(pending).size, TRUE)
  <2>3. e \in Entry /\ e.arg /\ e.level = current_level
    BY <2>2, NewEntryType DEF NewEntry
  <2>4. AddToTable(Head(pending).name, e) /\ current_level = 1 /\ Level = 1
    BY <1>2 DEF AddParameter, Layout, Levels, Level
  <2> HIDE DEF e
  <2>5. Sorted(sym_table', 1) /\ Entries' \subseteq Entries \cup {e}
    BY <1>a, <2>2, <2>3, <2>4, AddToTableLayout DEF Layout
  <2>6. Locals' \subseteq Locals
    BY <2>3, <2>5 DEF Locals
  <2>7. Level' = 1 /\ Levels' /\ UNCHANGED <<offset, faults>>
    BY <1>2, <2>4 DEF AddParameter, Level, Levels
  <2>8. QED BY <2>5, <2>6, <2>7 DEF Layout, Stacked
<1>3. CASE IncreaseLevel
  <2>1. Sorted(sym_table, current_level')
    BY <1>b, <1>3, EntriesOf DEF IncreaseLevel, Layout, Sorted, Levels, Level, Entry
  <2>2. UNCHANGED <<sym_table, Entries, Locals, offset, faults>>
    BY <1>3 DEF IncreaseLevel, Entries, Locals
  <2>3. Level' = current_level' /\ Levels'
    BY <1>b, <1>3 DEF IncreaseLevel, Level, Levels
  <2>4. QED BY <2>1, <2>2, <2>3 DEF Layout, Stacked
<1>4. CASE Declare
  <2> DEFINE d == Head(pending)
             e == NewEntry(offset, d.size, FALSE)
  <2>1. d \in Declarator
    BY <1>4, PendingTail DEF TypeOK, Declare
  <2>2. d.name \in Names /\ d.size \in Nat /\ Space(d) \in Nat /\ d.size <= Space(d)
    BY <2>1, SpaceCovers DEF Declarator, Names
  <2>3. /\ e \in Entry /\ ~e.arg /\ e.level = current_level /\ e.offset = offset
        /\ e.size = d.size
    BY <1>b, <2>2, NewEntryType DEF NewEntry
  <2>4. /\ AddToTable(d.name, e) /\ offset' = offset + Space(d)
        /\ "switch" \in faults => "switch" \in faults'
    BY <1>4 DEF Declare, EnterDeclarator, Reserve
  <2>5. current_level >= 1 /\ Level = current_level /\ Level' = current_level /\ Levels'
    BY <1>4 DEF Declare, Layout, Levels, Level
  <2> HIDE DEF d, e
  <2>6. offset <= offset' /\ EndOf(e) <= offset'
    BY <1>b, <2>2, <2>3, <2>4 DEF EndOf
  <2>7. Sorted(sym_table, current_level)
    BY <2>5 DEF Layout
  <2>8. Sorted(sym_table', current_level) /\ Entries' \subseteq Entries \cup {e}
    BY <1>a, <2>2, <2>3, <2>4, <2>5, <2>7, AddToTableLayout
  <2>9. Stacked => Stacked'
    BY <1>a, <2>3, <2>6, <2>7, <2>8, AddLocalStacked
  <2>10. QED BY <2>4, <2>5, <2>8, <2>9 DEF Layout
<1>5. CASE \E l \in Lines : CreateSwitch(l)
  <2> DEFINE e == NewEntry(0, WORD_SIZE, FALSE)
  <2>1. PICK l \in Lines : CreateSwitch(l)
    BY <1>5
  <2>2. l \in Names /\ 0 \in Nat /\ WORD_SIZE \in Nat
    BY DEF Names, WORD_SIZE
  <2>3. /\ e \in Entry /\ ~e.arg /\ e.level = current_level /\ e.offset = 0
        /\ e.size = WORD_SIZE
    BY <2>2, NewEntryType DEF NewEntry
  <2>4. /\ AddToTable(l, e) /\ offset' = offset + WORD_SIZE
        /\ "switch" \notin faults' => offset = 0 /\ "switch" \notin faults
    <3>1. AddToTable(l, e) /\ offset' = offset + WORD_SIZE
      BY <2>1 DEF CreateSwitch, Reserve
    <3>2. faults' = IF offset > 0 THEN faults \cup {"switch"} ELSE faults
      BY <2>1 DEF CreateSwitch
    <3>3. offset > 0 \/ offset = 0
      BY <1>b
    <3>4. QED BY <3>1, <3>2, <3>3
  <2>5. current_level >= 1 /\ Level = current_level /\ Level' = current_level /\ Levels'
    BY <2>1 DEF CreateSwitch, Layout, Levels, Level
  <2> HIDE DEF e
  <2>6. offset <= offset' /\ EndOf(e) <= offset'
    BY <1>b, <2>3, <2>4 DEF EndOf, WORD_SIZE
  <2>7. Sorted(sym_table, current_level)
    BY <2>5 DEF Layout
  <2>8. Sorted(sym_table', current_level) /\ Entries' \subseteq Entries \cup {e}
    BY <1>a, <2>2, <2>3, <2>4, <2>5, <2>7, AddToTableLayout
  <2>9. offset = 0 /\ Stacked => Stacked'
    BY <1>a, <2>3, <2>6, <2>7, <2>8, AddLocalStacked
  <2>10. QED BY <2>4, <2>5, <2>8, <2>9 DEF Layout
<1>6. CASE ClearCurrentLevel
  <2>1. Sorted(sym_table, current_level) /\ current_level >= 1
    BY <1>6 DEF ClearCurrentLevel, Layout, Level, Levels
  <2>2. Sorted(sym_table', current_level - 1)
    BY <1>a, <1>6, <2>1, ClearedTable
  <2>3. Level' = current_level - 1 /\ Levels' /\ faults' = faults
    BY <1>b, <1>6 DEF ClearCurrentLevel, Level, Levels
  <2>4. Stacked => Stacked'
    BY <1>a, <1>6, <2>1, ClearedStacked
  <2>5. QED BY <2>2, <2>3, <2>4 DEF Layout
<1>7. CASE \/ ReadDeclarator \/ UNCHANGED vars \/ \E n \in Ident : Identifier(n)
           \/ \E what \in Fault : Broken(what)
  <2>1. /\ UNCHANGED <<phase, current_level, sym_table, offset>>
        /\ "switch" \in faults => "switch" \in faults'
    BY <1>7 DEF ReadDeclarator, vars, Identifier, Broken
  <2>2. UNCHANGED <<Level, Levels, Locals>>
    BY <2>1 DEF Level, Levels, Locals, Entries
  <2>3. QED BY <2>1, <2>2 DEF Layout, Stacked
<1>8. QED BY <1>1, <1>2, <1>3, <1>4, <1>5, <1>6, <1>7, OtherSteps

\* The locals of the open blocks never share a byte of the frame, however
\* blocks open and close, unless a switch was given a word that is in use.
THEOREM SpecNoOverlap == Spec => []NoOverlap
<1>1. Init => TypeOK /\ Layout
  <2>1. Init => sym_table = [n \in Names |-> <<>>] /\ Level = 0 /\ Levels
    BY DEF Init, Level, Levels
  <2>2. sym_table = [n \in Names |-> <<>>] => Sorted(sym_table, 0) /\ Locals = {}
    BY DEF Sorted, Locals, Entries
  <2>3. QED BY <2>1, <2>2, InitTypeOK DEF Layout, Stacked
<1>2. TypeOK /\ Layout /\ [Next]_vars => (TypeOK /\ Layout)'
  BY NextTypeOK, NextLayout
<1>3. TypeOK /\ Layout => NoOverlap
  <2> SUFFICES ASSUME TypeOK, Layout, "switch" \notin faults, NEW e \in Locals, NEW f \in Locals
               PROVE  e = f \/ Apart(e, f)
    BY DEF NoOverlap, Apart, EndOf
  <2>1. e.level \in Nat /\ f.level \in Nat
    BY EntriesOf DEF Locals, Entry
  <2>2. e.level < f.level \/ f.level < e.level \/ e.level = f.level
    BY <2>1
  <2>3. QED BY <2>2 DEF Layout, Stacked, Apart
<1>4. QED BY <1>1, <1>2, <1>3, PTL DEF Spec

(***************************************************************************)
(* Alignment.  Space is taken in words and given back up to an object,     *)
(* which begins at a word.                                                 *)
(***************************************************************************)

InWords ==
    /\ Aligned(offset) /\ Aligned(reqd_size)
    /\ \A e \in Entries : Aligned(e.offset)
    /\ \A h \in homes : Aligned(h.offset)

Words == "unaligned" \notin faults => InWords

LEMMA AlignedSum ==
    ASSUME NEW a \in Nat, NEW b \in Nat, Aligned(a), Aligned(b) PROVE Aligned(a + b)
BY DEF Aligned, WORD_SIZE

\* Without an initialised char the space of a declarator is a number of words.
LEMMA SpaceAligned ==
    ASSUME NEW d \in Declarator, ~d.init \/ Aligned(Space(d)) PROVE Aligned(Space(d))
<1> DEFINE s == d.size
<1>1. s \in Nat
  BY DEF Declarator
<1> HIDE DEF s
<1>2. s % 4 # 0 => (s + 4 - (s % 4)) % 4 = 0
  BY <1>1
<1>3. ~d.init => Space(d) = IF s % 4 = 0 THEN s ELSE s + 4 - (s % 4)
  BY DEF Space, Aligned, WORD_SIZE, s
<1>4. QED BY <1>2, <1>3 DEF Aligned, WORD_SIZE

LEMMA ReserveAligned ==
    ASSUME TypeOK, InWords, NEW space \in Nat, Aligned(space), Reserve(space)
    PROVE  Aligned(offset') /\ Aligned(reqd_size')
<1>1. offset \in Nat /\ Aligned(offset) /\ Aligned(reqd_size)
  BY DEF TypeOK, InWords
<1>2. Aligned(offset + space)
  BY <1>1, AlignedSum
<1>3. QED BY <1>1, <1>2 DEF Reserve

LEMMA AddToTableAligned ==
    ASSUME TypeOK, TypeOK', InWords, NEW n \in Names, NEW e \in Entry, AddToTable(n, e), Aligned(e.offset),
           Sorted(sym_table, current_level), current_level >= 1, e.level = current_level,
           e.arg => current_level = 1, Aligned(offset'), Aligned(reqd_size')
    PROVE  InWords'
<1>1. Entries' \subseteq Entries \cup {e}
  BY AddToTableLayout
<1>2. homes' \subseteq homes \cup {e}
  BY DEF AddToTable, Push
<1>3. QED BY <1>1, <1>2 DEF InWords, Aligned

LEMMA NextWords == TypeOK /\ Layout /\ Words /\ [Next]_vars => Words'
<1> SUFFICES ASSUME TypeOK, Layout, Words, [Next]_vars, "unaligned" \notin faults' PROVE InWords'
  BY DEF Words
<1>a. TypeOK' /\ offset \in Nat
  BY NextTypeOK DEF TypeOK
<1>z. Aligned(0) /\ Aligned(WORD_SIZE)
  BY DEF Aligned, WORD_SIZE
<1>1. CASE AddFunction
  <2>1. Entries' = {} /\ homes' = {} /\ offset' = 0 /\ reqd_size' = 0
    BY <1>1 DEF AddFunction, Entries
  <2>2. QED BY <1>z, <2>1 DEF InWords, Aligned
<1>2. CASE AddParameter
  <2> DEFINE e == NewEntry(0, Head(pending).size, TRUE)
             n == Head(pending).name
  <2>1. Head(pending) \in Declarator
    BY <1>2, PendingTail DEF TypeOK, AddParameter
  <2>2. n \in Names /\ Head(pending).size \in Nat
    BY <2>1 DEF Declarator, Names
  <2>3. e \in Entry /\ e.offset = 0 /\ e.level = current_level
    BY <2>2, NewEntryType DEF NewEntry
  <2>4. AddToTable(n, e) /\ UNCHANGED <<offset, reqd_size, faults>>
    BY <1>2 DEF AddParameter
  <2>5. current_level = 1 /\ Sorted(sym_table, current_level)
    BY <1>2 DEF AddParameter, Layout, Levels, Level
  <2> HIDE DEF n, e
  <2>6. InWords
    BY <2>4 DEF Words
  <2>7. Aligned(offset') /\ Aligned(reqd_size')
    BY <2>4, <2>6 DEF InWords
  <2>8. QED BY <1>a, <1>z, <2>2, <2>3, <2>4, <2>5, <2>6, <2>7, AddToTableAligned
<1>3. CASE Declare
  <2> DEFINE d == Head(pending)
             e == NewEntry(offset, d.size, FALSE)
  <2>1. d \in Declarator
    BY <1>3, PendingTail DEF TypeOK, Declare
  <2>2. d.name \in Names /\ d.size \in Nat /\ Space(d) \in Nat
    BY <2>1, SpaceCovers DEF Declarator, Names
  <2>3. e \in Entry /\ ~e.arg /\ e.level = current_level /\ e.offset = offset
    BY <1>a, <2>2, NewEntryType DEF NewEntry
  <2>4. /\ AddToTable(d.name, e) /\ Reserve(Space(d))
        /\ faults' = IF d.init /\ ~Aligned(Space(d)) THEN faults \cup {"unaligned"} ELSE faults
    BY <1>3 DEF Declare, EnterDeclarator
  <2>5. current_level >= 1 /\ Sorted(sym_table, current_level)
    BY <1>3 DEF Declare, Layout, Levels, Level
  <2> HIDE DEF d, e
  <2>6. InWords /\ (~d.init \/ Aligned(Space(d)))
    BY <2>4 DEF Words
  <2>7. Aligned(Space(d))
    BY <2>1, <2>6, SpaceAligned
  <2>8. Aligned(offset') /\ Aligned(reqd_size') /\ Aligned(e.offset)
    BY <2>2, <2>3, <2>4, <2>6, <2>7, ReserveAligned DEF InWords
  <2>9. QED BY <1>a, <2>2, <2>3, <2>4, <2>5, <2>6, <2>8, AddToTableAligned
<1>4. CASE \E l \in Lines : CreateSwitch(l)
  <2> DEFINE e == NewEntry(0, WORD_SIZE, FALSE)
  <2>1. PICK l \in Lines : CreateSwitch(l)
    BY <1>4
  <2>2. l \in Names /\ WORD_SIZE \in Nat
    BY DEF Names, WORD_SIZE
  <2>3. e \in Entry /\ ~e.arg /\ e.level = current_level /\ e.offset = 0
    BY <2>2, NewEntryType DEF NewEntry
  <2>4. /\ AddToTable(l, e) /\ Reserve(WORD_SIZE)
        /\ "unaligned" \notin faults
    BY <2>1 DEF CreateSwitch
  <2>5. current_level >= 1 /\ Sorted(sym_table, current_level)
    BY <2>1 DEF CreateSwitch, Layout, Levels, Level
  <2> HIDE DEF e
  <2>6. InWords
    BY <2>4 DEF Words
  <2>7. Aligned(offset') /\ Aligned(reqd_size') /\ Aligned(e.offset)
    BY <1>z, <2>2, <2>3, <2>4, <2>6, ReserveAligned
  <2>8. QED BY <1>a, <2>2, <2>3, <2>4, <2>5, <2>6, <2>7, AddToTableAligned
<1>5. CASE ClearCurrentLevel
  <2>1. Sorted(sym_table, current_level) /\ UNCHANGED <<reqd_size, homes, faults>>
    BY <1>5 DEF ClearCurrentLevel, Layout, Level, Levels
  <2>2. InWords
    BY <2>1 DEF Words
  <2>3. Entries' \subseteq Entries
    BY <1>a, <1>5, <2>1, ClearedTable
  <2>4. PICK k \in 0 .. offset : GiveBack(k) /\ offset' = k
    BY <1>5 DEF ClearCurrentLevel
  <2>5. k = offset \/ \E n \in Ending : k = sym_table[n][1].offset
    BY <2>4 DEF GiveBack
  <2>6. ASSUME NEW n \in Ending PROVE sym_table[n][1] \in Entries
    <3>1. n \in Names /\ sym_table[n] # <<>> /\ sym_table[n] \in Seq(Entry)
      BY DEF Ending, Redeclared, TypeOK
    <3>2. 1 \in 1 .. Len(sym_table[n])
      BY <3>1, Elements
    <3>3. QED BY <3>1, <3>2, EntriesOf
  <2>7. Aligned(offset')
    BY <2>2, <2>4, <2>5, <2>6 DEF InWords
  <2>8. QED BY <2>1, <2>2, <2>3, <2>7 DEF InWords, Aligned
<1>6. CASE \/ IncreaseLevel \/ ReadDeclarator \/ UNCHANGED vars \/ \E n \in Ident : Identifier(n)
           \/ \E what \in Fault : Broken(what)
  <2>1. UNCHANGED <<sym_table, offset, reqd_size, homes>> /\ faults \subseteq faults'
    BY <1>6 DEF IncreaseLevel, ReadDeclarator, vars, Identifier, Broken
  <2>2. InWords /\ UNCHANGED Entries
    BY <2>1 DEF Words, Entries
  <2>3. QED BY <2>1, <2>2 DEF InWords, Aligned
<1>7. QED BY <1>1, <1>2, <1>3, <1>4, <1>5, <1>6, OtherSteps

\* The frame is a number of words and every object of words begins at one,
\* until a char with an initialiser has taken its two bytes.
THEOREM SpecWordsAligned == Spec => []WordsAligned
<1>1. Init => TypeOK /\ Layout /\ Words
  <2>1. Init => sym_table = [n \in Names |-> <<>>] /\ Level = 0 /\ Levels
    BY DEF Init, Level, Levels
  <2>2. sym_table = [n \in Names |-> <<>>] => Sorted(sym_table, 0) /\ Entries = {}
    BY DEF Sorted, Entries
  <2>3. Init => offset = 0 /\ reqd_size = 0 /\ homes = {}
    BY DEF Init
  <2>4. QED BY <2>1, <2>2, <2>3, InitTypeOK DEF Layout, Stacked, Locals, Words, InWords, Aligned, WORD_SIZE
<1>2. TypeOK /\ Layout /\ Words /\ [Next]_vars => (TypeOK /\ Layout /\ Words)'
  BY NextTypeOK, NextLayout, NextWords
<1>3. Words => WordsAligned
  BY DEF Words, InWords, WordsAligned
<1>4. QED BY <1>1, <1>2, <1>3, PTL DEF Spec

(***************************************************************************)
(* Blocks share space.  An open block l has the part of the frame from its *)
(* mark to the next block's, or to offset.  Its part is empty and it has   *)
(* no entry, or it has one right at the mark: that is what the end of the  *)
(* block finds as the smallest offset.                                     *)
(***************************************************************************)

BlockLevels ==
    /\ phase \in {"global", "params", "head"} => blocks = <<>>
    /\ phase \in {"body", "declaring"} => Len(blocks) = current_level
    /\ phase \in {"params", "head"} => offset = 0 /\ \A e \in Entries : e.offset = 0

Upto(l) == IF l < Len(blocks) THEN blocks[l + 1].mark ELSE offset

Of(l) == {e \in Entries : e.level = l}

Marked ==
    \A l \in 1 .. Len(blocks) :
        /\ blocks[l].mark <= Upto(l)
        /\ \A e \in Of(l) : blocks[l].mark <= e.offset
        /\ \/ \E e \in Of(l) : e.offset = blocks[l].mark
           \/ Of(l) = {} /\ Upto(l) = blocks[l].mark

Shared == BlockLevels /\ ("switch" \notin faults => Marked)

LEMMA MarksTyped ==
    ASSUME TypeOK
    PROVE  /\ Len(blocks) \in Nat /\ DOMAIN blocks = 1 .. Len(blocks)
           /\ \A l \in 1 .. Len(blocks) : blocks[l].mark \in Nat
           /\ offset \in Nat /\ current_level \in Nat
           /\ \A e \in Entries : e.offset \in Nat /\ e.level \in Nat
<1>1. blocks \in Seq([mark : Nat, statements : BOOLEAN])
  BY DEF TypeOK
<1>2. /\ Len(blocks) \in Nat /\ DOMAIN blocks = 1 .. Len(blocks)
      /\ \A l \in 1 .. Len(blocks) : blocks[l] \in [mark : Nat, statements : BOOLEAN]
  BY <1>1, Elements
<1>3. QED BY <1>2, EntriesOf DEF TypeOK, Entry

LEMMA InEntriesAfter ==
    ASSUME TypeOK', NEW n \in Names, NEW i \in 1 .. Len(sym_table'[n])
    PROVE  sym_table'[n][i] \in Entries'
<1>1. sym_table'[n] \in Seq(Entry)
  BY DEF TypeOK
<1>2. DOMAIN sym_table'[n] = 1 .. Len(sym_table'[n])
  BY <1>1, Elements
<1>3. QED BY <1>2 DEF Entries

\* A new entry leaves the others where they are.
LEMMA AddToTableKeeps ==
    ASSUME TypeOK, TypeOK', NEW n \in Names, NEW e \in Entry, AddToTable(n, e)
    PROVE  Entries \subseteq Entries' /\ (Redeclared(n) \/ e \in Entries')
<1>1. CASE Redeclared(n)
  BY <1>1 DEF AddToTable, Entries
<1>2. CASE ~Redeclared(n)
  <2> DEFINE q == sym_table[n]
             r == sym_table'[n]
  <2>1. q \in Seq(Entry) /\ r = <<e>> \o q /\ \A m \in Names \ {n} : sym_table'[m] = sym_table[m]
    BY <1>2 DEF AddToTable, Push, TypeOK
  <2> HIDE DEF q, r
  <2>2. /\ Len(q) \in Nat /\ Len(r) = Len(q) + 1 /\ r[1] = e
        /\ \A i \in 2 .. Len(q) + 1 : r[i] = q[i - 1]
    BY <2>1, PushFront, Elements
  <2>3. e \in Entries'
    <3>1. 1 \in 1 .. Len(r)
      BY <2>2
    <3>2. QED BY <2>2, <3>1, InEntriesAfter DEF r
  <2>4. ASSUME NEW m \in Names, NEW i \in 1 .. Len(sym_table[m]) PROVE sym_table[m][i] \in Entries'
    <3>1. CASE m = n
      <4>1. i + 1 \in 1 .. Len(r) /\ r[i + 1] = q[i]
        BY <2>2, <3>1 DEF q
      <4>2. QED BY <3>1, <4>1, InEntriesAfter DEF q, r
    <3>2. CASE m # n
      BY <2>1, <3>2, InEntriesAfter
    <3>3. QED BY <3>1, <3>2
  <2>5. QED BY <2>3, <2>4, EntriesOf
<1>3. QED BY <1>1, <1>2

\* The entries of the innermost block are the fronts that its end takes.
LEMMA EndingHasAll ==
    ASSUME TypeOK, Sorted(sym_table, current_level)
    PROVE  /\ \A f \in Of(current_level) : \E n \in Ending : f = sym_table[n][1]
           /\ \A n \in Ending : sym_table[n][1] \in Of(current_level)
<1>1. ASSUME NEW f \in Of(current_level) PROVE \E n \in Ending : f = sym_table[n][1]
  <2>1. f \in Entries /\ f.level = current_level
    BY DEF Of
  <2>2. PICK n \in Names : \E i \in 1 .. Len(sym_table[n]) : f = sym_table[n][i]
    BY <2>1, EntriesOf
  <2>3. PICK i \in 1 .. Len(sym_table[n]) : f = sym_table[n][i]
    BY <2>2
  <2>4. sym_table[n] \in Seq(Entry)
    BY DEF TypeOK
  <2>5. 1 \in 1 .. Len(sym_table[n]) /\ sym_table[n] # <<>> /\ (i = 1 \/ 1 < i)
    BY <2>4, Elements
  <2>6. sym_table[n][1] \in Entries /\ sym_table[n][1].level <= current_level
    BY <2>5, EntriesOf DEF Sorted
  <2>7. i = 1 \/ f.level < sym_table[n][1].level
    BY <2>3, <2>5 DEF Sorted
  <2>8. sym_table[n][1].level \in Nat /\ current_level \in Nat
    BY <2>6, MarksTyped
  <2>9. i = 1
    BY <2>1, <2>6, <2>7, <2>8
  <2>10. QED BY <2>1, <2>3, <2>5, <2>9 DEF Ending, Redeclared
<1>2. ASSUME NEW n \in Ending PROVE sym_table[n][1] \in Of(current_level)
  <2>1. n \in Names /\ sym_table[n] # <<>> /\ sym_table[n][1].level = current_level
        /\ sym_table[n] \in Seq(Entry)
    BY DEF Ending, Redeclared, TypeOK
  <2>2. 1 \in 1 .. Len(sym_table[n])
    BY <2>1, Elements
  <2>3. QED BY <2>1, <2>2, EntriesOf DEF Of
<1>3. QED BY <1>1, <1>2

\* The entries of the blocks around it stay.
LEMMA ClearedKeeps ==
    ASSUME TypeOK, TypeOK', ClearCurrentLevel, Sorted(sym_table, current_level),
           NEW f \in Entries, f.level < current_level
    PROVE  f \in Entries'
<1>1. PICK n \in Names : \E i \in 1 .. Len(sym_table[n]) : f = sym_table[n][i]
  BY EntriesOf
<1>2. PICK i \in 1 .. Len(sym_table[n]) : f = sym_table[n][i]
  BY <1>1
<1> DEFINE q == sym_table[n]
           r == sym_table'[n]
<1>3. q \in Seq(Entry)
  BY DEF TypeOK
<1>4. CASE n \in Ending
  <2>1. q # <<>> /\ q[1].level = current_level /\ r = Tail(q)
    BY <1>4 DEF Ending, Redeclared, ClearCurrentLevel
  <2>2. current_level \in Nat
    BY DEF TypeOK
  <2>3. i # 1
    BY <1>2, <2>1, <2>2
  <2> HIDE DEF q, r
  <2>4. Len(q) \in Nat /\ Len(r) = Len(q) - 1 /\ \A j \in 1 .. Len(q) - 1 : r[j] = q[j + 1]
    BY <1>3, <2>1, PopFront
  <2>5. i \in 1 .. Len(q)
    BY DEF q
  <2>6. i - 1 \in 1 .. Len(r) /\ r[i - 1] = q[i]
    BY <2>3, <2>4, <2>5
  <2>7. QED BY <1>2, <2>6, InEntriesAfter DEF q, r
<1>5. CASE n \notin Ending
  <2>1. r = q
    BY <1>5 DEF ClearCurrentLevel
  <2>2. QED BY <1>2, <2>1, InEntriesAfter
<1>6. QED BY <1>4, <1>5

\* What the end of a block gives back is all of the block's part.
LEMMA GivenBack ==
    ASSUME TypeOK, Sorted(sym_table, current_level), Marked, Len(blocks) = current_level,
           current_level >= 1, NEW k \in 0 .. offset, GiveBack(k)
    PROVE  k = blocks[Len(blocks)].mark
<1> DEFINE l == current_level
           m == blocks[l].mark
<1>1. l \in 1 .. Len(blocks) /\ m \in Nat /\ k \in Nat /\ offset \in Nat /\ Upto(l) = offset
  BY MarksTyped DEF Upto
<1>2. /\ m <= offset /\ \A e \in Of(l) : m <= e.offset
      /\ (\E e \in Of(l) : e.offset = m) \/ (Of(l) = {} /\ offset = m)
  BY <1>1 DEF Marked
<1>3. /\ k = offset \/ \E n \in Ending : k = sym_table[n][1].offset
      /\ k <= offset /\ \A n \in Ending : k <= sym_table[n][1].offset
  BY DEF GiveBack
<1> HIDE DEF l, m
<1>4. (\A f \in Of(l) : \E n \in Ending : f = sym_table[n][1])
      /\ \A n \in Ending : sym_table[n][1] \in Of(l)
  BY EndingHasAll DEF l
<1>5. m <= k
  BY <1>2, <1>3, <1>4
<1>6. k <= m
  <2>1. CASE \E e \in Of(l) : e.offset = m
    BY <1>3, <1>4, <2>1
  <2>2. CASE Of(l) = {} /\ offset = m
    BY <1>3, <2>2
  <2>3. QED BY <1>2, <2>1, <2>2
<1>7. QED BY <1>1, <1>5, <1>6 DEF l, m

SameMarks ==
    Len(blocks') = Len(blocks) /\ \A l \in 1 .. Len(blocks) : blocks'[l].mark = blocks[l].mark

LEMMA InStatementMarks ==
    ASSUME TypeOK
    PROVE  /\ Len(InStatement) = Len(blocks)
           /\ \A l \in 1 .. Len(blocks) : InStatement[l].mark = blocks[l].mark
<1>1. Len(blocks) \in Nat /\ DOMAIN blocks = 1 .. Len(blocks)
  BY MarksTyped
<1>2. InStatement = [l \in 1 .. Len(blocks) |-> [mark |-> blocks[l].mark, statements |-> TRUE]]
  BY <1>1 DEF InStatement
<1>3. QED BY <1>1, <1>2

\* A new entry takes the first of its block's space or comes behind.
LEMMA AddToTableMarked ==
    ASSUME TypeOK, TypeOK', Marked, SameMarks, Len(blocks) = current_level, current_level >= 1,
           NEW n \in Names, NEW e \in Entry, AddToTable(n, e),
           e.level = current_level, e.offset = offset, e.arg => current_level = 1,
           Sorted(sym_table, current_level), offset <= offset'
    PROVE  Marked'
<1>1. /\ Entries' \subseteq Entries \cup {e} /\ Entries \subseteq Entries'
      /\ Redeclared(n) \/ e \in Entries'
      /\ Redeclared(n) => Entries' = Entries
  <2>1. Redeclared(n) => UNCHANGED sym_table
    BY DEF AddToTable
  <2>2. Redeclared(n) => Entries' = Entries
    BY <2>1 DEF Entries
  <2>3. QED BY <2>2, AddToTableLayout, AddToTableKeeps
<1>2. Redeclared(n) => Of(current_level) # {}
  <2>1. Redeclared(n) => n \in Ending
    BY DEF Ending
  <2>2. QED BY <2>1, EndingHasAll
<1>3. Len(blocks) \in Nat /\ offset \in Nat /\ offset' \in Nat
      /\ \A l \in 1 .. Len(blocks) : blocks[l].mark \in Nat
  BY MarksTyped DEF TypeOK
<1>4. SUFFICES ASSUME NEW l \in 1 .. Len(blocks)
               PROVE  /\ blocks[l].mark <= Upto(l)'
                      /\ \A f \in Of(l)' : blocks[l].mark <= f.offset
                      /\ \/ \E f \in Of(l)' : f.offset = blocks[l].mark
                         \/ Of(l)' = {} /\ Upto(l)' = blocks[l].mark
  BY DEF SameMarks, Marked
<1>5. /\ blocks[l].mark <= Upto(l)
      /\ \A f \in Of(l) : blocks[l].mark <= f.offset
      /\ \/ \E f \in Of(l) : f.offset = blocks[l].mark
         \/ Of(l) = {} /\ Upto(l) = blocks[l].mark
  BY DEF Marked
<1>6. CASE l < Len(blocks)
  <2>1. Upto(l)' = Upto(l)
    <3>1. l + 1 \in 1 .. Len(blocks) /\ blocks'[l + 1].mark = blocks[l + 1].mark
      BY <1>3, <1>6 DEF SameMarks
    <3>2. QED BY <1>6, <3>1 DEF Upto, SameMarks
  <2>2. l # current_level
    BY <1>3, <1>6
  <2>3. Of(l)' = Of(l)
    BY <1>1, <2>2 DEF Of
  <2>4. QED BY <1>5, <2>1, <2>3
<1>7. CASE ~(l < Len(blocks))
  <2>1. l = current_level /\ Upto(l) = offset /\ Upto(l)' = offset'
    BY <1>3, <1>7 DEF Upto, SameMarks
  <2>2. Of(l) \subseteq Of(l)' /\ Of(l)' \subseteq Of(l) \cup {e}
    BY <1>1 DEF Of
  <2>3. blocks[l].mark <= Upto(l)' /\ blocks[l].mark <= e.offset
    BY <1>3, <1>5, <2>1
  <2>4. \A f \in Of(l)' : blocks[l].mark <= f.offset
    BY <1>5, <2>2, <2>3
  <2>5. \E f \in Of(l)' : f.offset = blocks[l].mark
    <3>1. CASE \E f \in Of(l) : f.offset = blocks[l].mark
      BY <2>2, <3>1
    <3>2. CASE Of(l) = {} /\ Upto(l) = blocks[l].mark
      <4>1. e \in Of(l)'
        BY <1>1, <1>2, <2>1, <3>2 DEF Of
      <4>2. QED BY <2>1, <3>2, <4>1
    <3>3. QED BY <1>5, <3>1, <3>2
  <2>6. QED BY <2>3, <2>4, <2>5
<1>8. QED BY <1>6, <1>7

LEMMA IncreaseLevelMarked ==
    ASSUME TypeOK, Layout, Shared, IncreaseLevel
    PROVE  Shared'
<1> DEFINE n == Len(blocks)
<1>1. /\ n \in Nat /\ offset \in Nat /\ current_level \in Nat
      /\ \A l \in 1 .. n : blocks[l].mark \in Nat
  BY MarksTyped
<1>2. InStatement \in Blocks /\ Len(InStatement) = n
      /\ \A l \in 1 .. n : InStatement[l].mark = blocks[l].mark
  BY TypeOKParts, InStatementTyped, InStatementMarks
<1>3. /\ Len(blocks') = n + 1 /\ blocks'[n + 1].mark = offset
      /\ \A l \in 1 .. n : blocks'[l].mark = blocks[l].mark
  <2> DEFINE b == [mark |-> offset, statements |-> FALSE]
             B == [mark : Nat, statements : BOOLEAN]
  <2>1. blocks' = Append(InStatement, b) /\ b \in B /\ InStatement \in Seq(B) /\ b.mark = offset
    BY <1>1, <1>2 DEF IncreaseLevel, Blocks
  <2> HIDE DEF b, B
  <2>2. QED BY <1>1, <1>2, <2>1
<1>4. /\ UNCHANGED <<sym_table, offset, faults>> /\ phase' = "body" /\ current_level' = current_level + 1
      /\ phase \in {"head", "body"} /\ UNCHANGED Entries
  BY DEF IncreaseLevel, Entries
<1>5. n = current_level
  <2>1. CASE phase = "head"
    <3>1. blocks = <<>> /\ current_level = 0
      BY <2>1 DEF Shared, BlockLevels, Layout, Levels
    <3>2. QED BY <3>1
  <2>2. CASE phase = "body"
    BY <2>2 DEF Shared, BlockLevels
  <2>3. QED BY <1>4, <2>1, <2>2
<1>6. BlockLevels'
  BY <1>3, <1>4, <1>5 DEF BlockLevels
<1>7. \A e \in Entries : e.level \in Nat /\ e.offset \in Nat
  BY MarksTyped
<1>8. \/ Of(n + 1) = {}
      \/ offset = 0 /\ \A e \in Of(n + 1) : e.offset = 0
  <2>1. CASE phase = "head"
    BY <2>1 DEF Shared, BlockLevels, Of
  <2>2. CASE phase = "body"
    <3>1. \A e \in Entries : e.level <= n
      BY <1>5, <2>2, EntriesOf DEF Layout, Level, Sorted
    <3>2. QED BY <1>1, <1>7, <3>1 DEF Of
  <2>3. QED BY <1>4, <2>1, <2>2
<1>9. ASSUME Marked PROVE Marked'
  <2> HIDE DEF n
  <2>1. SUFFICES ASSUME NEW l \in 1 .. n + 1
                 PROVE  /\ blocks'[l].mark <= Upto(l)'
                        /\ \A f \in Of(l)' : blocks'[l].mark <= f.offset
                        /\ \/ \E f \in Of(l)' : f.offset = blocks'[l].mark
                           \/ Of(l)' = {} /\ Upto(l)' = blocks'[l].mark
    BY <1>3 DEF Marked
  <2>2. Of(l)' = Of(l)
    BY <1>4 DEF Of
  <2>3. CASE l = n + 1
    <3>1. Upto(l)' = offset /\ blocks'[l].mark = offset
      BY <1>1, <1>3, <1>4, <2>3 DEF Upto
    <3>2. QED BY <1>1, <1>8, <2>2, <2>3, <3>1
  <2>4. CASE l # n + 1
    <3>1. l \in 1 .. n
      BY <1>1, <2>4
    <3>2. Upto(l)' = Upto(l)
      <4>1. CASE l = n
        BY <1>1, <1>3, <4>1 DEF Upto, n
      <4>2. CASE l # n
        <5>1. l < n /\ l + 1 \in 1 .. n /\ l < n + 1
          BY <1>1, <3>1, <4>2
        <5>2. QED BY <1>3, <5>1 DEF Upto, n
      <4>3. QED BY <4>1, <4>2
    <3>3. blocks'[l].mark = blocks[l].mark
      BY <1>3, <3>1
    <3>4. QED BY <1>9, <2>2, <3>1, <3>2, <3>3 DEF Marked, n
  <2>5. QED BY <2>3, <2>4
<1>10. QED BY <1>4, <1>6, <1>9 DEF Shared

LEMMA ClearCurrentLevelMarked ==
    ASSUME TypeOK, TypeOK', Layout, Shared, ClearCurrentLevel
    PROVE  Shared' /\ ("switch" \notin faults => offset' = blocks[Len(blocks)].mark)
<1> DEFINE n == Len(blocks)
<1>1. /\ n \in Nat /\ offset \in Nat /\ current_level \in Nat
      /\ \A l \in 1 .. n : blocks[l].mark \in Nat
      /\ n = current_level /\ current_level >= 1 /\ Sorted(sym_table, current_level)
  BY MarksTyped DEF ClearCurrentLevel, Shared, BlockLevels, Layout, Level, Levels
<1>2. /\ Len(blocks') = n - 1
      /\ \A l \in 1 .. n - 1 : blocks'[l] = blocks[l]
      /\ n = 1 => blocks' = <<>>
  <2> DEFINE B == [mark : Nat, statements : BOOLEAN]
  <2>1. blocks \in Seq(B) /\ blocks' = SubSeq(blocks, 1, n - 1) /\ blocks' \in Seq(B)
    BY DEF TypeOK, ClearCurrentLevel
  <2> HIDE DEF B
  <2>2. blocks' = [l \in 1 .. n - 1 |-> blocks[l]]
    BY <1>1, <2>1
  <2>3. n - 1 \in Nat /\ Len(blocks') = n - 1
    BY <1>1, <2>1
  <2>4. QED BY <2>1, <2>2, <2>3, Elements
<1>3. BlockLevels'
  <2>1. /\ phase' = IF current_level = 1 THEN "global" ELSE "body"
        /\ current_level' = current_level - 1
    BY DEF ClearCurrentLevel
  <2>2. QED BY <1>1, <1>2, <2>1 DEF BlockLevels
<1>4. PICK k \in 0 .. offset : GiveBack(k) /\ offset' = k
  BY DEF ClearCurrentLevel
<1>5. ASSUME Marked PROVE offset' = blocks[n].mark /\ Marked'
  <2>1. offset' = blocks[n].mark
    BY <1>1, <1>4, <1>5, GivenBack
  <2> HIDE DEF n
  <2>2. SUFFICES ASSUME NEW l \in 1 .. n - 1
                 PROVE  /\ blocks[l].mark <= Upto(l)'
                        /\ \A f \in Of(l)' : blocks[l].mark <= f.offset
                        /\ \/ \E f \in Of(l)' : f.offset = blocks[l].mark
                           \/ Of(l)' = {} /\ Upto(l)' = blocks[l].mark
    BY <1>2, <2>1 DEF Marked
  <2>3. l \in 1 .. n /\ l < n /\ l < current_level
    BY <1>1
  <2>4. Upto(l)' = Upto(l)
    <3>1. CASE l = n - 1
      BY <1>1, <1>2, <2>1, <2>3, <3>1 DEF Upto, n
    <3>2. CASE l # n - 1
      <4>1. l + 1 \in 1 .. n - 1 /\ l < n - 1
        BY <1>1, <3>2
      <4>2. QED BY <1>2, <2>3, <4>1 DEF Upto, n
    <3>3. QED BY <3>1, <3>2
  <2>5. Of(l)' = Of(l)
    <3>1. \A f \in Entries' : f \in Entries
      BY <1>1, ClearedTable
    <3>2. \A f \in Entries : f.level = l => f \in Entries'
      BY <1>1, <2>3, ClearedKeeps
    <3>3. QED BY <3>1, <3>2 DEF Of
  <2>6. QED BY <1>5, <2>3, <2>4, <2>5 DEF Marked, n
<1>6. faults' = faults
  BY DEF ClearCurrentLevel
<1>7. QED BY <1>3, <1>5, <1>6 DEF Shared

LEMMA NextShared == TypeOK /\ Layout /\ Shared /\ [Next]_vars => Shared'
<1> SUFFICES ASSUME TypeOK, Layout, Shared, [Next]_vars PROVE Shared'
  OBVIOUS
<1>a. TypeOK' /\ offset \in Nat
  BY NextTypeOK DEF TypeOK
<1>1. CASE AddFunction
  <2>1. /\ blocks = <<>> /\ blocks' = <<>> /\ offset' = 0 /\ Entries' = {}
        /\ phase' \in {"params", "head"}
    BY <1>1 DEF AddFunction, Shared, BlockLevels, Entries
  <2>2. QED BY <2>1 DEF Shared, BlockLevels, Marked
<1>2. CASE AddParameter
  <2> DEFINE e == NewEntry(0, Head(pending).size, TRUE)
             n == Head(pending).name
  <2>1. Head(pending) \in Declarator
    BY <1>2, PendingTail DEF TypeOK, AddParameter
  <2>2. n \in Names /\ Head(pending).size \in Nat
    BY <2>1 DEF Declarator, Names
  <2>3. e \in Entry /\ e.offset = 0 /\ e.level = current_level
    BY <2>2, NewEntryType DEF NewEntry
  <2>4. /\ AddToTable(n, e) /\ UNCHANGED <<offset, blocks>>
        /\ phase = "params" /\ phase' \in {"params", "head"}
    BY <1>2 DEF AddParameter
  <2>5. current_level = 1 /\ Sorted(sym_table, current_level)
    BY <2>4 DEF Layout, Levels, Level
  <2> HIDE DEF n, e
  <2>6. Entries' \subseteq Entries \cup {e}
    BY <1>a, <2>2, <2>3, <2>4, <2>5, AddToTableLayout
  <2>7. blocks' = <<>> /\ offset' = 0 /\ \A f \in Entries' : f.offset = 0
    BY <2>3, <2>4, <2>6 DEF Shared, BlockLevels
  <2>8. QED BY <2>4, <2>7 DEF Shared, BlockLevels, Marked
<1>3. CASE IncreaseLevel
  BY <1>3, IncreaseLevelMarked
<1>4. CASE Declare
  <2> DEFINE d == Head(pending)
             e == NewEntry(offset, d.size, FALSE)
  <2>1. d \in Declarator
    BY <1>4, PendingTail DEF TypeOK, Declare
  <2>2. d.name \in Names /\ d.size \in Nat /\ Space(d) \in Nat
    BY <2>1, SpaceCovers DEF Declarator, Names
  <2>3. e \in Entry /\ ~e.arg /\ e.level = current_level /\ e.offset = offset
    BY <1>a, <2>2, NewEntryType DEF NewEntry
  <2>4. /\ AddToTable(d.name, e) /\ offset' = offset + Space(d) /\ UNCHANGED <<blocks, current_level>>
        /\ faults \subseteq faults'
        /\ phase \in {"body", "declaring"} /\ phase' \in {"body", "declaring"}
    BY <1>4 DEF Declare, EnterDeclarator, Reserve
  <2>5. current_level >= 1 /\ Sorted(sym_table, current_level) /\ Len(blocks) = current_level
    BY <2>4 DEF Layout, Levels, Level, Shared, BlockLevels
  <2> HIDE DEF d, e
  <2>6. offset <= offset' /\ SameMarks
    BY <1>a, <2>2, <2>4 DEF SameMarks
  <2>7. Marked => Marked'
    BY <1>a, <2>2, <2>3, <2>4, <2>5, <2>6, AddToTableMarked
  <2>8. BlockLevels'
    BY <2>4, <2>5 DEF BlockLevels
  <2>9. QED BY <2>4, <2>7, <2>8 DEF Shared
<1>5. CASE \E l \in Lines : CreateSwitch(l)
  <2> DEFINE e == NewEntry(0, WORD_SIZE, FALSE)
  <2>1. PICK l \in Lines : CreateSwitch(l)
    BY <1>5
  <2>2. l \in Names /\ WORD_SIZE \in Nat
    BY DEF Names, WORD_SIZE
  <2>3. e \in Entry /\ ~e.arg /\ e.level = current_level /\ e.offset = 0
    BY <2>2, NewEntryType DEF NewEntry
  <2>4. /\ AddToTable(l, e) /\ offset' = offset + WORD_SIZE /\ blocks' = InStatement
        /\ UNCHANGED <<current_level, phase>> /\ phase = "body"
        /\ faults' = IF offset > 0 THEN faults \cup {"switch"} ELSE faults
    BY <2>1 DEF CreateSwitch, Reserve, StatementRead
  <2>5. current_level >= 1 /\ Sorted(sym_table, current_level) /\ Len(blocks) = current_level
    BY <2>4 DEF Layout, Levels, Level, Shared, BlockLevels
  <2> HIDE DEF e
  <2>6. offset <= offset' /\ SameMarks
    BY <1>a, <2>2, <2>4, InStatementMarks DEF SameMarks
  <2>7. offset = 0 /\ Marked => Marked'
    BY <1>a, <2>2, <2>3, <2>4, <2>5, <2>6, AddToTableMarked
  <2>8. "switch" \notin faults' => offset = 0 /\ "switch" \notin faults
    <3>1. offset > 0 \/ offset = 0
      BY <1>a
    <3>2. QED BY <2>4, <3>1
  <2>9. BlockLevels'
    BY <2>4, <2>5, <2>6 DEF BlockLevels, SameMarks
  <2>10. QED BY <2>7, <2>8, <2>9 DEF Shared
<1>6. CASE ClearCurrentLevel
  BY <1>a, <1>6, ClearCurrentLevelMarked
<1>7. CASE \/ ReadDeclarator \/ UNCHANGED vars \/ \E n \in Ident : Identifier(n)
           \/ \E what \in Fault : Broken(what)
  <2>1. /\ UNCHANGED <<phase, current_level, sym_table, offset>> /\ faults \subseteq faults'
        /\ blocks' = blocks \/ blocks' = InStatement
    BY <1>7 DEF ReadDeclarator, vars, Identifier, Broken, StatementRead
  <2>2. UNCHANGED Entries /\ SameMarks
    BY <2>1, InStatementMarks DEF Entries, SameMarks
  <2>3. blocks = <<>> => blocks' = <<>>
    <3>1. CASE blocks' = blocks
      BY <3>1
    <3>2. CASE blocks' = InStatement
      <4>1. blocks = <<>> => Len(blocks') = 0
        BY <2>2 DEF SameMarks
      <4>2. blocks' \in Blocks
        BY <1>a DEF TypeOK, Blocks
      <4>3. QED BY <4>1, <4>2, Elements DEF Blocks
    <3>3. QED BY <2>1, <3>1, <3>2
  <2>4. BlockLevels'
    BY <2>1, <2>2, <2>3 DEF Shared, BlockLevels, SameMarks
  <2>5. ASSUME Marked PROVE Marked'
    <3>1. \A l : Of(l)' = Of(l)
      BY <2>2 DEF Of
    <3>2. Len(blocks) \in Nat
      BY MarksTyped
    <3>3. \A l \in 1 .. Len(blocks) : Upto(l)' = Upto(l)
      <4>1. SUFFICES ASSUME NEW l \in 1 .. Len(blocks) PROVE Upto(l)' = Upto(l)
        OBVIOUS
      <4>2. l < Len(blocks) => l + 1 \in 1 .. Len(blocks)
        BY <3>2
      <4>3. QED BY <2>1, <2>2, <4>2 DEF Upto, SameMarks
    <3>4. QED BY <2>2, <2>5, <3>1, <3>3 DEF Marked, SameMarks
  <2>6. QED BY <2>1, <2>4, <2>5 DEF Shared
<1>8. QED BY <1>1, <1>2, <1>3, <1>4, <1>5, <1>6, <1>7, OtherSteps

LEMMA InitShared == Init => TypeOK /\ Layout /\ Shared
<1>1. Init => sym_table = [n \in Names |-> <<>>] /\ Level = 0 /\ Levels
  BY DEF Init, Level, Levels
<1>2. sym_table = [n \in Names |-> <<>>] => Sorted(sym_table, 0) /\ Entries = {}
  BY DEF Sorted, Entries
<1>3. Init => offset = 0 /\ blocks = <<>> /\ phase = "global"
  BY DEF Init
<1>4. QED BY <1>1, <1>2, <1>3, InitTypeOK DEF Layout, Stacked, Locals, Shared, BlockLevels, Marked

\* The end of a block gives back the part of the frame that the block took, all
\* of it and nothing more, so that blocks side by side share it.
THEOREM SpecBlocksShareSpace == Spec => BlocksShareSpace
<1>1. Init => TypeOK /\ Layout /\ Shared
  BY InitShared
<1>2. TypeOK /\ Layout /\ Shared /\ [Next]_vars => (TypeOK /\ Layout /\ Shared)'
  BY NextTypeOK, NextLayout, NextShared
<1>3. TypeOK /\ Layout /\ Shared /\ [Next]_vars
      => [Len(blocks') < Len(blocks) /\ "switch" \notin faults
              => offset' = blocks[Len(blocks)].mark]_vars
  <2> SUFFICES ASSUME TypeOK, Layout, Shared, Next,
                      Len(blocks') < Len(blocks), "switch" \notin faults
               PROVE  offset' = blocks[Len(blocks)].mark
    OBVIOUS
  <2>1. TypeOK' /\ Len(blocks) \in Nat
    BY NextTypeOK, MarksTyped
  <2>2. Len(blocks') # Len(blocks)
    BY <2>1
  <2>3. CASE ClearCurrentLevel
    BY <2>1, <2>3, ClearCurrentLevelMarked
  <2>4. CASE IncreaseLevel
    <3>1. InStatement \in Blocks /\ Len(InStatement) = Len(blocks)
      BY TypeOKParts, InStatementTyped, InStatementMarks
    <3>2. Len(blocks') = Len(blocks) + 1
      BY <2>1, <2>4, <3>1 DEF IncreaseLevel, Blocks
    <3>3. QED BY <2>1, <3>2
  <2>5. CASE \/ AddFunction \/ AddParameter \/ ReadDeclarator \/ Declare
             \/ (\E l \in Lines : CreateSwitch(l)) \/ (\E n \in Ident : Identifier(n))
             \/ \E what \in Fault : Broken(what)
    <3>1. blocks' = blocks \/ blocks' = InStatement
      BY <2>5 DEF AddFunction, AddParameter, ReadDeclarator, Declare, CreateSwitch, Identifier, Broken,
                  StatementRead
    <3>2. QED BY <2>2, <3>1, InStatementMarks
  <2>6. QED BY <2>3, <2>4, <2>5, OtherSteps
<1>4. QED BY <1>1, <1>2, <1>3, PTL DEF Spec, BlocksShareSpace

(***************************************************************************)
(* Lexical scopes.  In is the binding that a deque has for a level, and    *)
(* ScopesIn the scopes of a table.                                         *)
(***************************************************************************)
In(q, level) ==
    LET own == {i \in DOMAIN q : q[i].level = level}
    IN  IF own = {} THEN None ELSE q[CHOOSE i \in own : TRUE].id

ScopesIn(table, depth) == [level \in 1 .. depth |-> [n \in Names |-> In(table[n], level)]]

Tables == [Names -> Seq(Entry)]

Decreasing(q) == \A i, j \in 1 .. Len(q) : i < j => q[j].level < q[i].level

LEMMA InIs ==
    ASSUME NEW q \in Seq(Entry), Decreasing(q), NEW i \in 1 .. Len(q)
    PROVE  In(q, q[i].level) = q[i].id /\ q[i].id \in Nat
<1>1. DOMAIN q = 1 .. Len(q) /\ Len(q) \in Nat /\ \A j \in 1 .. Len(q) : q[j] \in Entry
  BY Elements
<1>2. \A j \in 1 .. Len(q) : q[j].level \in Nat /\ q[j].id \in Nat
  BY <1>1 DEF Entry
<1>3. ASSUME NEW j \in 1 .. Len(q), q[j].level = q[i].level PROVE j = i
  <2>1. ~(j < i) /\ ~(i < j)
    BY <1>2, <1>3 DEF Decreasing
  <2>2. QED BY <1>1, <2>1
<1>4. {j \in DOMAIN q : q[j].level = q[i].level} = {i}
  BY <1>1, <1>3
<1>5. (CHOOSE j \in {i} : TRUE) = i
  OBVIOUS
<1>6. QED BY <1>2, <1>4, <1>5 DEF In

LEMMA InNone ==
    ASSUME NEW q \in Seq(Entry), NEW level, \A i \in 1 .. Len(q) : q[i].level # level
    PROVE  In(q, level) = None
<1>1. DOMAIN q = 1 .. Len(q)
  BY Elements
<1>2. {j \in DOMAIN q : q[j].level = level} = {}
  BY <1>1
<1>3. QED BY <1>2 DEF In

\* A deque bound at a level has an entry of it.
LEMMA InSome ==
    ASSUME NEW q \in Seq(Entry), NEW level, In(q, level) # None
    PROVE  \E i \in 1 .. Len(q) : q[i].level = level
BY InNone

\* Two deques with the same entries of a level have the same binding.
LEMMA InSame ==
    ASSUME NEW q \in Seq(Entry), NEW r \in Seq(Entry), Decreasing(q), Decreasing(r), NEW level,
           \A i \in 1 .. Len(q) : q[i].level = level => \E j \in 1 .. Len(r) : r[j] = q[i],
           \A j \in 1 .. Len(r) : r[j].level = level => \E i \in 1 .. Len(q) : q[i] = r[j]
    PROVE  In(q, level) = In(r, level)
<1>1. CASE \E i \in 1 .. Len(q) : q[i].level = level
  <2>1. PICK i \in 1 .. Len(q) : q[i].level = level
    BY <1>1
  <2>2. PICK j \in 1 .. Len(r) : r[j] = q[i]
    BY <2>1
  <2>3. QED BY <2>1, <2>2, InIs
<1>2. CASE ~\E i \in 1 .. Len(q) : q[i].level = level
  <2>1. \A j \in 1 .. Len(r) : r[j].level # level
    BY <1>2
  <2>2. QED BY <1>2, <2>1, InNone
<1>3. QED BY <1>1, <1>2

(***************************************************************************)
(* The scopes as a sequence.                                               *)
(***************************************************************************)

LEMMA UpTo ==
    ASSUME NEW a \in Nat, NEW b \in Nat, 1 .. a = 1 .. b PROVE a = b
<1>1. a >= 1 => a \in 1 .. b
  OBVIOUS
<1>2. b >= 1 => b \in 1 .. a
  OBVIOUS
<1>3. QED BY <1>1, <1>2

\* A function from the first numbers is the sequence of its values.
LEMMA LenIs ==
    ASSUME NEW S, NEW k \in Nat, NEW f, f = [i \in 1 .. k |-> f[i]], \A i \in 1 .. k : f[i] \in S
    PROVE  f \in Seq(S) /\ Len(f) = k /\ DOMAIN f = 1 .. k /\ (f = <<>> <=> k = 0)
<1>1. f \in Seq(S)
  BY IsASeq
<1>2. DOMAIN f = 1 .. k
  OBVIOUS
<1>3. Len(f) \in Nat /\ DOMAIN f = 1 .. Len(f) /\ (f = <<>> <=> Len(f) = 0)
  BY <1>1, Elements
<1>4. Len(f) = k
  BY <1>2, <1>3, UpTo
<1>5. QED BY <1>1, <1>2, <1>3, <1>4

AnyScope == [Names -> Nat \cup {None}]

LEMMA InType ==
    ASSUME NEW q \in Seq(Entry), NEW level
    PROVE  In(q, level) \in Nat \cup {None}
<1> DEFINE own == {i \in DOMAIN q : q[i].level = level}
<1>1. \A i \in DOMAIN q : q[i] \in Entry
  BY Elements
<1>2. ASSUME own # {} PROVE q[CHOOSE i \in own : TRUE].id \in Nat
  <2>1. (CHOOSE i \in own : TRUE) \in own
    BY <1>2
  <2>2. QED BY <1>1, <2>1 DEF Entry
<1>3. QED BY <1>2 DEF In

LEMMA ScopesAre ==
    ASSUME NEW table \in Tables, NEW depth \in Nat
    PROVE  LET sc == ScopesIn(table, depth)
           IN  /\ sc \in Seq(AnyScope) /\ Len(sc) = depth /\ DOMAIN sc = 1 .. depth
               /\ sc = <<>> <=> depth = 0
               /\ \A i \in 1 .. depth : sc[i] = [n \in Names |-> In(table[n], i)]
               /\ \A i \in 1 .. depth, n \in Names : sc[i][n] = In(table[n], i)
<1> DEFINE sc == ScopesIn(table, depth)
<1>1. \A i \in 1 .. depth : sc[i] = [n \in Names |-> In(table[n], i)]
  BY DEF ScopesIn
<1>2. ASSUME NEW i \in 1 .. depth PROVE sc[i] \in AnyScope
  <2>1. \A n \in Names : table[n] \in Seq(Entry)
    BY DEF Tables
  <2>2. \A n \in Names : In(table[n], i) \in Nat \cup {None}
    BY <2>1, InType
  <2>3. QED BY <1>1, <2>2 DEF AnyScope
<1>3. sc = [i \in 1 .. depth |-> sc[i]]
  BY DEF ScopesIn
<1> HIDE DEF sc
<1>4. sc \in Seq(AnyScope) /\ Len(sc) = depth /\ DOMAIN sc = 1 .. depth /\ (sc = <<>> <=> depth = 0)
  BY <1>2, <1>3, LenIs
<1>5. QED BY <1>1, <1>4 DEF sc

\* What the refinement mapping gives C for its scopes.
Mapped == [level \in 1 .. Depth |-> [n \in Names |-> Binding(n, level)]]

LEMMA MappedScopes ==
    Mapped = ScopesIn(sym_table, Depth) /\ Mapped' = ScopesIn(sym_table', Depth')
BY DEF Mapped, ScopesIn, Binding, In

MeaningIn(sc, n) ==
    LET bound == {i \in DOMAIN sc : sc[i][n] # None}
    IN  IF bound = {} THEN None
        ELSE LET i == CHOOSE i \in bound : \A j \in bound : j <= i IN sc[i][n]

(***************************************************************************)
(* Tables that differ in one step.                                         *)
(***************************************************************************)

SortedTable(table, top) == table \in Tables /\ Sorted(table, top)

LEMMA SortedDeque ==
    ASSUME NEW table, NEW top, SortedTable(table, top), NEW n \in Names
    PROVE  /\ table[n] \in Seq(Entry) /\ Decreasing(table[n])
           /\ \A i \in 1 .. Len(table[n]) : /\ 1 <= table[n][i].level /\ table[n][i].level <= top
                                            /\ table[n][i].level \in Nat
<1>1. table[n] \in Seq(Entry)
  BY DEF SortedTable, Tables
<1>2. \A i \in 1 .. Len(table[n]) : table[n][i] \in Entry
  BY <1>1, Elements
<1>3. QED BY <1>1, <1>2 DEF SortedTable, Sorted, Decreasing, Entry

\* A block that begins binds nothing yet.
LEMMA OpenedScopes ==
    ASSUME NEW table, NEW top \in Nat, SortedTable(table, top)
    PROVE  ScopesIn(table, top + 1) = Append(ScopesIn(table, top), C!Empty)
<1> DEFINE a == ScopesIn(table, top)
           b == ScopesIn(table, top + 1)
           c == Append(a, C!Empty)
<1>1. table \in Tables
  BY DEF SortedTable
<1>2. /\ a \in Seq(AnyScope) /\ Len(a) = top
      /\ b \in Seq(AnyScope) /\ Len(b) = top + 1
      /\ \A i \in 1 .. top : a[i] = [n \in Names |-> In(table[n], i)]
      /\ \A i \in 1 .. top + 1 : b[i] = [n \in Names |-> In(table[n], i)]
  BY <1>1, ScopesAre
<1>3. ASSUME NEW n \in Names PROVE In(table[n], top + 1) = None
  <2>1. /\ table[n] \in Seq(Entry)
        /\ \A i \in 1 .. Len(table[n]) : table[n][i].level <= top /\ table[n][i].level \in Nat
    BY SortedDeque
  <2>2. \A i \in 1 .. Len(table[n]) : table[n][i].level # top + 1
    BY <2>1
  <2>3. QED BY <2>1, <2>2, InNone
<1>4. b[top + 1] = C!Empty
  BY <1>2, <1>3 DEF C!Empty
<1> HIDE DEF a, b
<1>5. C!Empty \in AnyScope
  BY DEF C!Empty, AnyScope
<1>6. b = Append(a, C!Empty)
  BY <1>2, <1>4, <1>5
<1>7. QED BY <1>6 DEF a, b

\* A block that ends takes its bindings and leaves all others.
LEMMA ClosedScopes ==
    ASSUME NEW table, NEW top \in Nat \ {0}, SortedTable(table, top),
           NEW rest, SortedTable(rest, top - 1),
           \A n \in Names : IF table[n] # <<>> /\ table[n][1].level = top
                            THEN rest[n] = Tail(table[n]) ELSE rest[n] = table[n]
    PROVE  LET sc == ScopesIn(table, top)
           IN  ScopesIn(rest, top - 1) = SubSeq(sc, 1, Len(sc) - 1)
<1> DEFINE a == ScopesIn(table, top)
           b == ScopesIn(rest, top - 1)
<1>1. table \in Tables /\ rest \in Tables /\ top - 1 \in Nat
  BY DEF SortedTable
<1>2. /\ a \in Seq(AnyScope) /\ Len(a) = top
      /\ b \in Seq(AnyScope) /\ Len(b) = top - 1
      /\ \A i \in 1 .. top : a[i] = [n \in Names |-> In(table[n], i)]
      /\ \A i \in 1 .. top - 1 : b[i] = [n \in Names |-> In(rest[n], i)]
  BY <1>1, ScopesAre
<1>3. ASSUME NEW n \in Names, NEW level \in 1 .. top - 1
      PROVE  In(rest[n], level) = In(table[n], level)
  <2> DEFINE q == table[n]
             r == rest[n]
  <2>1. CASE q # <<>> /\ q[1].level = top
    <3>1. r = Tail(q)
      BY <2>1
    <3>2. q \in Seq(Entry) /\ r \in Seq(Entry) /\ Decreasing(q) /\ Decreasing(r)
      BY <1>1, SortedDeque
    <3> HIDE DEF q, r
    <3>3. /\ Len(q) \in Nat \ {0} /\ Len(r) = Len(q) - 1
          /\ \A i \in 1 .. Len(q) - 1 : r[i] = q[i + 1]
      BY <2>1, <3>1, <3>2, PopFront
    <3>4. \A j \in 1 .. Len(r) : \E i \in 1 .. Len(q) : q[i] = r[j]
      BY <3>3
    <3>5. ASSUME NEW i \in 1 .. Len(q), q[i].level = level
          PROVE  \E j \in 1 .. Len(r) : r[j] = q[i]
      <4>1. i # 1
        BY <2>1, <3>5
      <4>2. i - 1 \in 1 .. Len(r) /\ r[i - 1] = q[i]
        BY <3>3, <4>1
      <4>3. QED BY <4>2
    <3>6. QED BY <3>2, <3>4, <3>5, InSame DEF q, r
  <2>2. CASE ~(q # <<>> /\ q[1].level = top)
    BY <2>2
  <2>3. QED BY <2>1, <2>2
<1>4. \A i \in 1 .. top - 1 : b[i] = a[i]
  BY <1>2, <1>3
<1> HIDE DEF a, b
<1>5. b = SubSeq(a, 1, Len(a) - 1)
  <2> DEFINE c == SubSeq(a, 1, Len(a) - 1)
  <2>1. c = [i \in 1 .. top - 1 |-> a[i]]
    BY <1>2
  <2>2. b = [i \in 1 .. Len(b) |-> b[i]]
    BY <1>2
  <2>3. QED BY <1>2, <1>4, <2>1, <2>2
<1>6. QED BY <1>5 DEF a, b

InFront(table, n, e)  == [table EXCEPT ![n] = <<e>> \o @]
BindIn(sc, n, number) == [sc EXCEPT ![Len(sc)][n] = number]

\* An entry in front of a deque binds its name in the innermost scope, where
\* it was not bound, and no other name anywhere.
LEMMA BoundScopes ==
    ASSUME NEW table, NEW top \in Nat \ {0}, SortedTable(table, top), NEW n \in Names,
           table[n] = <<>> \/ table[n][1].level # top,
           NEW e \in Entry, e.level = top,
           NEW more, SortedTable(more, top), more = InFront(table, n, e)
    PROVE  /\ Len(ScopesIn(table, top)) = top
           /\ ScopesIn(table, top)[top][n] = None
           /\ ScopesIn(more, top) = BindIn(ScopesIn(table, top), n, e.id)
<1> DEFINE a == ScopesIn(table, top)
           b == ScopesIn(more, top)
           q == table[n]
           r == more[n]
<1>1. table \in Tables /\ more \in Tables
  BY DEF SortedTable
<1>2. /\ a \in Seq(AnyScope) /\ Len(a) = top /\ DOMAIN a = 1 .. top
      /\ b \in Seq(AnyScope) /\ Len(b) = top /\ DOMAIN b = 1 .. top
      /\ \A i \in 1 .. top : a[i] = [m \in Names |-> In(table[m], i)]
      /\ \A i \in 1 .. top : b[i] = [m \in Names |-> In(more[m], i)]
  BY <1>1, ScopesAre
<1>3. \A m \in Names \ {n} : more[m] = table[m]
  BY <1>1 DEF Tables, InFront
<1>4. r = <<e>> \o q
  BY <1>1 DEF Tables, InFront
<1>5. /\ q \in Seq(Entry) /\ Decreasing(q) /\ r \in Seq(Entry) /\ Decreasing(r)
      /\ \A i \in 1 .. Len(q) : q[i].level <= top /\ q[i].level \in Nat
  BY SortedDeque
<1>6. q = <<>> \/ q[1].level # top
  OBVIOUS
<1> HIDE DEF a, b, q, r
<1>7. /\ Len(q) \in Nat /\ Len(r) = Len(q) + 1 /\ r[1] = e
      /\ \A i \in 2 .. Len(q) + 1 : r[i] = q[i - 1]
  BY <1>4, <1>5, PushFront, Elements
<1>8. ASSUME NEW i \in 1 .. Len(q) PROVE q[i].level # top
  <2>1. q # <<>>
    BY <1>5, Elements
  <2>2. 1 \in 1 .. Len(q) /\ q[1].level # top
    BY <1>6, <1>7, <2>1
  <2>3. i = 1 \/ q[i].level < q[1].level
    <3>1. i = 1 \/ 1 < i
      BY <1>7
    <3>2. Decreasing(q)
      BY <1>5
    <3>3. QED BY <2>2, <3>1, <3>2 DEF Decreasing
  <2>4. QED BY <1>5, <2>2, <2>3
<1>9. In(q, top) = None
  BY <1>5, <1>8, InNone
<1>10. In(r, top) = e.id
  <2>1. 1 \in 1 .. Len(r)
    BY <1>7
  <2>2. In(r, r[1].level) = r[1].id
    BY <1>5, <2>1, InIs
  <2>3. QED BY <1>7, <2>2
<1>11. ASSUME NEW level, level # top PROVE In(r, level) = In(q, level)
  <2>1. ASSUME NEW j \in 1 .. Len(r), r[j].level = level
        PROVE  \E i \in 1 .. Len(q) : q[i] = r[j]
    <3>1. j # 1
      BY <1>7, <1>11, <2>1
    <3>2. j - 1 \in 1 .. Len(q) /\ q[j - 1] = r[j]
      BY <1>7, <3>1
    <3>3. QED BY <3>2
  <2>2. ASSUME NEW i \in 1 .. Len(q) PROVE \E j \in 1 .. Len(r) : r[j] = q[i]
    <3>1. i + 1 \in 1 .. Len(r) /\ r[i + 1] = q[i]
      BY <1>7
    <3>2. QED BY <3>1
  <2>3. QED BY <1>5, <2>1, <2>2, InSame
<1>12. a[top][n] = None
  BY <1>2, <1>9 DEF q
<1>13. \A i \in 1 .. top : b[i] = IF i = top THEN [a[i] EXCEPT ![n] = e.id] ELSE a[i]
  <2> SUFFICES ASSUME NEW i \in 1 .. top
               PROVE  b[i] = IF i = top THEN [a[i] EXCEPT ![n] = e.id] ELSE a[i]
    OBVIOUS
  <2>1. \A m \in Names \ {n} : In(more[m], i) = In(table[m], i)
    BY <1>3
  <2>2. In(more[n], i) = IF i = top THEN e.id ELSE In(table[n], i)
    BY <1>10, <1>11 DEF q, r
  <2>3. QED BY <1>2, <2>1, <2>2
<1>14. b = [i \in 1 .. top |-> b[i]] /\ a = [i \in 1 .. top |-> a[i]]
  BY <1>2
<1>15. b = [a EXCEPT ![top][n] = e.id]
  BY <1>2, <1>13, <1>14
<1>16. b = BindIn(a, n, e.id)
  BY <1>2, <1>15 DEF BindIn
<1>17. QED BY <1>2, <1>12, <1>16 DEF a, b

\* The innermost binding of a name is the front of its deque.
LEMMA MeaningIsFront ==
    ASSUME TypeOK, Sorted(sym_table, Depth), Depth \in Nat, NEW n \in Names
    PROVE  C!Meaning(n) = LookUp(n)
<1> DEFINE sc == ScopesIn(sym_table, Depth)
           q == sym_table[n]
           bound == {i \in DOMAIN sc : sc[i][n] # None}
<1>1. sym_table \in Tables /\ SortedTable(sym_table, Depth)
  BY DEF TypeOK, Tables, SortedTable
<1>2. DOMAIN sc = 1 .. Depth /\ \A i \in 1 .. Depth : sc[i][n] = In(q, i)
  BY <1>1, ScopesAre
<1>3. C!Meaning(n) = IF bound = {} THEN None
                     ELSE sc[CHOOSE i \in bound : \A j \in bound : j <= i][n]
  <2>1. C!Meaning(n) = MeaningIn(Mapped, n)
    BY DEF C!Meaning, C!Bound, MeaningIn, Mapped
  <2>2. C!Meaning(n) = MeaningIn(sc, n)
    BY <2>1, MappedScopes
  <2>3. QED BY <2>2 DEF MeaningIn
<1>4. /\ q \in Seq(Entry) /\ Decreasing(q)
      /\ \A i \in 1 .. Len(q) : 1 <= q[i].level /\ q[i].level <= Depth /\ q[i].level \in Nat
  BY <1>1, SortedDeque
<1>5. Len(q) \in Nat /\ (q = <<>> <=> Len(q) = 0)
  BY <1>4, Elements
<1>6. LookUp(n) = IF q = <<>> THEN None ELSE q[1].id
  BY DEF LookUp
<1> HIDE DEF sc, q
<1>7. ASSUME NEW j \in bound PROVE \E i \in 1 .. Len(q) : q[i].level = j
  BY <1>2, <1>4, InSome
<1>8. CASE q = <<>>
  <2>1. bound = {}
    BY <1>5, <1>7, <1>8
  <2>2. QED BY <1>3, <1>6, <1>8, <2>1
<1>9. CASE q # <<>>
  <2>1. 1 \in 1 .. Len(q)
    BY <1>5, <1>9
  <2> DEFINE top == q[1].level
  <2>2. In(q, top) = q[1].id /\ q[1].id # None
    BY <1>4, <2>1, InIs, ScopesAssumption
  <2>3. top \in bound
    BY <1>2, <1>4, <2>1, <2>2
  <2>4. ASSUME NEW j \in bound PROVE j <= top
    <3>1. PICK i \in 1 .. Len(q) : q[i].level = j
      BY <1>7
    <3>2. i = 1 \/ 1 < i
      BY <1>5
    <3>3. i = 1 \/ q[i].level < q[1].level
      BY <1>4, <2>1, <3>2 DEF Decreasing
    <3>4. QED BY <1>4, <2>1, <3>1, <3>3
  <2>5. \A j \in bound : j \in Nat
    BY <1>2
  <2> HIDE DEF bound, top
  <2>6. (CHOOSE i \in bound : \A j \in bound : j <= i) = top
    BY <2>3, <2>4, <2>5
  <2>7. top \in 1 .. Depth
    BY <1>2, <2>3 DEF bound
  <2>8. sc[top][n] = q[1].id
    BY <1>2, <2>2, <2>7
  <2>9. QED BY <1>3, <1>6, <1>9, <2>3, <2>6, <2>8 DEF bound
<1>10. QED BY <1>8, <1>9

(***************************************************************************)
(* Every step of Scopes is a step of Lexical or changes nothing there.     *)
(***************************************************************************)

Stutter == UNCHANGED <<sym_table, Depth, symbol_id, found, error_flag>>

LEMMA Stutters == Stutter => UNCHANGED C!vars
<1> SUFFICES ASSUME Stutter PROVE UNCHANGED C!vars
  OBVIOUS
<1>1. UNCHANGED <<Mapped, symbol_id, found, error_flag>>
  BY MappedScopes DEF Stutter
<1>2. QED BY <1>1 DEF C!vars, Mapped

LEMMA AddFunctionStep ==
    ASSUME TypeOK, Layout, AddFunction PROVE C!Function
<1> DEFINE b == ScopesIn(sym_table', 1)
<1>1. Depth = 0 /\ Depth' = 1 /\ sym_table' = [n \in Names |-> <<>>]
  <2>1. phase' \in {"head", "params"}
    BY DEF AddFunction
  <2>2. QED BY <2>1 DEF AddFunction, Depth
<1>2. sym_table \in Tables /\ sym_table' \in Tables
  BY <1>1 DEF TypeOK, Tables
<1>3. Mapped = <<>>
  BY <1>1, <1>2, ScopesAre, MappedScopes
<1>4. \A n \in Names : In(sym_table'[n], 1) = None
  <2>1. <<>> \in Seq(Entry) /\ 1 .. Len(<<>>) = {}
    OBVIOUS
  <2>2. In(<<>>, 1) = None
    BY <2>1, InNone
  <2>3. QED BY <1>1, <2>2
<1>5. Len(b) = 1 /\ b \in Seq(AnyScope) /\ b[1] = C!Empty
  <2>1. /\ b \in Seq(AnyScope) /\ Len(b) = 1
        /\ b[1] = [n \in Names |-> In(sym_table'[n], 1)]
    <3>1. 1 \in Nat /\ 1 \in 1 .. 1
      OBVIOUS
    <3>2. QED BY <1>2, <3>1, ScopesAre, ZenonT(40)
  <2>2. QED BY <1>4, <2>1 DEF C!Empty
<1> HIDE DEF b
<1>6. b = <<C!Empty>>
  BY <1>5
<1>7. Mapped' = <<C!Empty>>
  BY <1>1, <1>6, MappedScopes DEF b
<1>8. symbol_id' = 0 /\ found' = found /\ error_flag' = error_flag
  BY DEF AddFunction
<1>9. QED BY <1>3, <1>7, <1>8 DEF C!Function, Mapped

LEMMA IncreaseLevelStep ==
    ASSUME TypeOK, Layout, IncreaseLevel PROVE C!Open \/ Stutter
<1>1. UNCHANGED <<sym_table, symbol_id, found, error_flag>> /\ phase' = "body"
      /\ current_level' = current_level + 1 /\ Depth' = current_level + 1
  BY DEF IncreaseLevel, Depth
<1>2. CASE phase = "head"
  <2>1. Depth = 1 /\ Depth' = 1
    BY <1>1, <1>2 DEF Depth, Layout, Levels
  <2>2. QED BY <1>1, <2>1 DEF Stutter
<1>3. CASE phase = "body"
  <2>1. Depth = current_level /\ Depth \in Nat \ {0} /\ SortedTable(sym_table, Depth)
    BY <1>3 DEF Depth, Layout, Levels, Level, TypeOK, SortedTable, Tables
  <2>2. ScopesIn(sym_table', Depth') = Append(ScopesIn(sym_table, Depth), C!Empty)
    BY <1>1, <2>1, OpenedScopes
  <2>3. Mapped # <<>>
    BY <2>1, ScopesAre, MappedScopes DEF SortedTable
  <2>4. Mapped' = Append(Mapped, C!Empty)
    BY <2>2, MappedScopes
  <2>5. QED BY <1>1, <2>3, <2>4 DEF C!Open, Mapped
<1>4. QED BY <1>2, <1>3 DEF IncreaseLevel

LEMMA ClearCurrentLevelStep ==
    ASSUME TypeOK, Layout, ClearCurrentLevel PROVE C!Close
<1>1. /\ Depth = current_level /\ Depth \in Nat \ {0} /\ SortedTable(sym_table, Depth)
      /\ Depth' = Depth - 1
  BY DEF ClearCurrentLevel, Depth, Layout, Levels, Level, TypeOK, SortedTable, Tables
<1>2. TypeOK'
  BY ClearCurrentLevelTyped
<1>3. SortedTable(sym_table', Depth - 1)
  <2>1. Sorted(sym_table', Depth - 1)
    BY <1>1, <1>2, ClearedTable DEF SortedTable
  <2>2. QED BY <1>2, <2>1 DEF SortedTable, Tables, TypeOK
<1>4. \A n \in Names : IF sym_table[n] # <<>> /\ sym_table[n][1].level = Depth
                       THEN sym_table'[n] = Tail(sym_table[n]) ELSE sym_table'[n] = sym_table[n]
  BY <1>1 DEF ClearCurrentLevel, Ending, Redeclared
<1>5. Mapped' = SubSeq(Mapped, 1, Len(Mapped) - 1)
  BY <1>1, <1>3, <1>4, ClosedScopes, MappedScopes
<1>6. Mapped # <<>>
  BY <1>1, ScopesAre, MappedScopes DEF SortedTable
<1>7. UNCHANGED <<symbol_id, found, error_flag>>
  BY DEF ClearCurrentLevel
<1>8. QED BY <1>5, <1>6, <1>7 DEF C!Close, Mapped

LEMMA AddToTableStep ==
    ASSUME TypeOK, TypeOK', NEW n \in Names, NEW e \in Entry, AddToTable(n, e),
           Sorted(sym_table, current_level), current_level >= 1,
           e.level = current_level, e.id = symbol_id, e.arg => current_level = 1,
           Depth = current_level, Depth' = current_level, found' = found
    PROVE  C!Bind(n) \/ C!Refuse(n)
<1>1. /\ Depth \in Nat \ {0} /\ SortedTable(sym_table, Depth)
      /\ sym_table \in Tables /\ sym_table' \in Tables
  BY DEF TypeOK, SortedTable, Tables
<1>2. /\ Mapped # <<>> /\ Len(Mapped) = Depth
      /\ Mapped[Depth][n] = In(sym_table[n], Depth)
  <2>1. Depth \in 1 .. Depth
    BY <1>1
  <2>2. QED BY <1>1, <2>1, ScopesAre, MappedScopes
<1>3. CASE Redeclared(n)
  <2>1. UNCHANGED <<sym_table, symbol_id>> /\ error_flag' = TRUE
    BY <1>3 DEF AddToTable
  <2>2. Mapped' = Mapped
    BY <2>1, MappedScopes
  <2>3. In(sym_table[n], Depth) # None
    <3>1. sym_table[n] \in Seq(Entry) /\ Decreasing(sym_table[n])
      BY <1>1, SortedDeque
    <3>2. 1 \in 1 .. Len(sym_table[n]) /\ sym_table[n][1].level = Depth
      BY <1>3, <3>1, Elements DEF Redeclared
    <3>3. In(sym_table[n], Depth) \in Nat
      BY <3>1, <3>2, InIs
    <3>4. QED BY <3>3, ScopesAssumption
  <2>4. C!Refuse(n)
    BY <1>2, <2>1, <2>2, <2>3 DEF C!Refuse, Mapped
  <2>5. QED BY <2>4
<1>4. CASE ~Redeclared(n)
  <2>1. /\ sym_table' = InFront(sym_table, n, e) /\ symbol_id' = symbol_id + 1
        /\ error_flag' = error_flag
    BY <1>4 DEF AddToTable, Push, InFront
  <2>2. SortedTable(sym_table', Depth)
    BY <1>1, AddToTableLayout DEF SortedTable
  <2>3. sym_table[n] = <<>> \/ sym_table[n][1].level # Depth
    BY <1>4 DEF Redeclared
  <2>4. /\ ScopesIn(sym_table, Depth)[Depth][n] = None
        /\ ScopesIn(sym_table', Depth) = BindIn(ScopesIn(sym_table, Depth), n, symbol_id)
    <3>1. e.level = Depth
      OBVIOUS
    <3>2. QED BY <1>1, <2>1, <2>2, <2>3, <3>1, BoundScopes
  <2>5. Mapped' = BindIn(Mapped, n, symbol_id) /\ Mapped[Len(Mapped)][n] = None
    BY <1>2, <2>4, MappedScopes
  <2>6. C!Bind(n)
    BY <1>2, <2>1, <2>5 DEF C!Bind, Mapped, BindIn
  <2>7. QED BY <2>6
<1>5. QED BY <1>3, <1>4

Step == \/ C!Function \/ C!Open \/ C!Close \/ Stutter
        \/ \E n \in Names : C!Bind(n) \/ C!Refuse(n) \/ C!Use(n)

LEMMA AddParameterStep ==
    ASSUME TypeOK, Layout, AddParameter PROVE Step
<1>1. TypeOK'
  BY AddParameterTyped
<1>2. Head(pending) \in Declarator
  BY PendingTail DEF TypeOK, AddParameter
<1> DEFINE n == Head(pending).name
           e == NewEntry(0, Head(pending).size, TRUE)
<1>3. n \in Names /\ Head(pending).size \in Nat
  BY <1>2 DEF Declarator, Names
<1>4. e \in Entry /\ e.level = current_level /\ e.id = symbol_id
  BY <1>3, NewEntryType DEF NewEntry
<1>5. AddToTable(n, e) /\ found' = found
  BY DEF AddParameter
<1>6. current_level = 1 /\ Depth = 1 /\ Depth' = 1 /\ Sorted(sym_table, current_level)
  <2>1. phase = "params" /\ phase' \in {"head", "params"}
    BY DEF AddParameter
  <2>2. QED BY <2>1 DEF Layout, Levels, Level, Depth
<1> HIDE DEF n, e
<1>7. C!Bind(n) \/ C!Refuse(n)
  BY <1>1, <1>3, <1>4, <1>5, <1>6, AddToTableStep
<1>8. QED BY <1>3, <1>7 DEF Step

LEMMA DeclareStep ==
    ASSUME TypeOK, Layout, Declare PROVE Step
<1>1. TypeOK'
  BY DeclareTyped
<1>2. Head(pending) \in Declarator
  BY PendingTail DEF TypeOK, Declare
<1> DEFINE n == Head(pending).name
           e == NewEntry(offset, Head(pending).size, FALSE)
<1>3. n \in Names /\ Head(pending).size \in Nat /\ offset \in Nat
  BY <1>2 DEF Declarator, Names, TypeOK
<1>4. e \in Entry /\ e.level = current_level /\ e.id = symbol_id /\ ~e.arg
  BY <1>3, NewEntryType DEF NewEntry
<1>5. AddToTable(n, e) /\ found' = found
  BY DEF Declare, EnterDeclarator
<1>6. /\ current_level >= 1 /\ Depth = current_level /\ Depth' = current_level
      /\ Sorted(sym_table, current_level)
  <2>1. phase \in {"body", "declaring"} /\ phase' \in {"body", "declaring"} /\ current_level' = current_level
    BY DEF Declare
  <2>2. QED BY <2>1 DEF Layout, Levels, Level, Depth
<1> HIDE DEF n, e
<1>7. C!Bind(n) \/ C!Refuse(n)
  BY <1>1, <1>3, <1>4, <1>5, <1>6, AddToTableStep
<1>8. QED BY <1>3, <1>7 DEF Step

LEMMA CreateSwitchStep ==
    ASSUME TypeOK, Layout, NEW line \in Lines, CreateSwitch(line) PROVE Step
<1>1. TypeOK'
  BY CreateSwitchTyped
<1> DEFINE e == NewEntry(0, WORD_SIZE, FALSE)
<1>2. line \in Names /\ WORD_SIZE \in Nat
  BY DEF Names, WORD_SIZE
<1>3. e \in Entry /\ e.level = current_level /\ e.id = symbol_id /\ ~e.arg
  BY <1>2, NewEntryType DEF NewEntry
<1>4. AddToTable(line, e) /\ found' = found
  BY DEF CreateSwitch
<1>5. /\ current_level >= 1 /\ Depth = current_level /\ Depth' = current_level
      /\ Sorted(sym_table, current_level)
  BY DEF CreateSwitch, Layout, Levels, Level, Depth
<1> HIDE DEF e
<1>6. C!Bind(line) \/ C!Refuse(line)
  BY <1>1, <1>2, <1>3, <1>4, <1>5, AddToTableStep
<1>7. QED BY <1>2, <1>6 DEF Step

LEMMA IdentifierStep ==
    ASSUME TypeOK, Layout, NEW n \in Ident, Identifier(n) PROVE Step
<1>1. n \in Names /\ Depth = current_level /\ Depth' = current_level /\ Depth \in Nat
      /\ Sorted(sym_table, Depth)
  BY DEF Identifier, CanUse, Names, Layout, Levels, Level, Depth, TypeOK
<1>2. found' = C!Meaning(n)
  BY <1>1, MeaningIsFront DEF Identifier
<1>3. UNCHANGED <<Mapped, symbol_id, error_flag>>
  BY <1>1, MappedScopes DEF Identifier
<1>4. C!Use(n)
  BY <1>2, <1>3 DEF C!Use, Mapped
<1>5. QED BY <1>1, <1>4 DEF Step

LEMMA NextStep ==
    TypeOK /\ Layout /\ [Next]_vars => [C!Next]_(C!vars)
<1> SUFFICES ASSUME TypeOK, Layout, [Next]_vars PROVE Step
  BY Stutters DEF Step, C!Next
<1>1. CASE AddFunction
  BY <1>1, AddFunctionStep DEF Step
<1>2. CASE AddParameter \/ Declare
  BY <1>2, AddParameterStep, DeclareStep
<1>3. CASE IncreaseLevel
  BY <1>3, IncreaseLevelStep DEF Step
<1>4. CASE ClearCurrentLevel
  BY <1>4, ClearCurrentLevelStep DEF Step
<1>5. CASE \E l \in Lines : CreateSwitch(l)
  BY <1>5, CreateSwitchStep
<1>6. CASE \E n \in Ident : Identifier(n)
  BY <1>6, IdentifierStep
<1>7. CASE ReadDeclarator \/ UNCHANGED vars \/ \E what \in Fault : Broken(what)
  <2>1. UNCHANGED <<sym_table, phase, current_level, symbol_id, found, error_flag>>
    BY <1>7 DEF ReadDeclarator, vars, Broken
  <2>2. QED BY <2>1 DEF Stutter, Step, Depth
<1>8. QED BY <1>1, <1>2, <1>3, <1>4, <1>5, <1>6, <1>7, OtherSteps

\* LocalSymbolTable implements the scopes of C: an identifier gets the entry of
\* its innermost binding, the end of a block takes its bindings and no other,
\* and exactly the second bindings of a name in one block are refused.
THEOREM SpecImplementsScopes == Spec => ImplementsScopes
<1>1. Init => TypeOK /\ Layout
  <2>1. Init => sym_table = [n \in Names |-> <<>>] /\ Level = 0 /\ Levels
    BY DEF Init, Level, Levels
  <2>2. sym_table = [n \in Names |-> <<>>] => Sorted(sym_table, 0) /\ Locals = {}
    BY DEF Sorted, Locals, Entries
  <2>3. QED BY <2>1, <2>2, InitTypeOK DEF Layout, Stacked
<1>2. Init => C!Init
  <2> SUFFICES ASSUME Init PROVE C!Init
    OBVIOUS
  <2>1. TypeOK /\ Depth = 0 /\ symbol_id = 0 /\ found = None /\ error_flag = FALSE
    BY InitTypeOK DEF Init, Depth
  <2>2. Mapped = <<>>
    BY <2>1, ScopesAre, MappedScopes DEF TypeOK, Tables
  <2>3. QED BY <2>1, <2>2 DEF C!Init, Mapped
<1>3. TypeOK /\ Layout /\ [Next]_vars => (TypeOK /\ Layout)'
  BY NextTypeOK, NextLayout
<1>4. TypeOK /\ Layout /\ [Next]_vars => [C!Next]_(C!vars)
  BY NextStep
<1>5. QED BY <1>1, <1>2, <1>3, <1>4, PTL DEF Spec, ImplementsScopes, C!Spec
===============================================================================
