---------------------------- MODULE CodeGenProofs ----------------------------
(***************************************************************************)
(* The invariants of CodeGen, and after them those of Calls, for every     *)
(* number of registers, parameters, variables and temporaries. TypeOK and  *)
(* TablesAgree together are inductive. First what the operators of MemMan  *)
(* preserve: the type of the unit, and the agreement of reg_alloc_info     *)
(* with memory_locations. Then the handlers, each of which is a            *)
(* composition of these operators, provided that the register handed to    *)
(* the result is empty, which is what Release establishes.                 *)
(*                                                                         *)
(* ReadsFresh, ValuesKept, InMemTruthful, BlocksIndependent and            *)
(* OnlyKnownAborts follow from one statement about the machine and the     *)
(* tables together, Coherent: what is still needed is in the register that *)
(* the tables name, or in its home, and in_mem tells the truth about homes.*)
(***************************************************************************)
EXTENDS Calls, FiniteSetTheorems, WellFoundedInduction, TLAPS

(***************************************************************************)
(* A set of natural numbers that is not empty has a least one.             *)
(***************************************************************************)
LEMMA LeastNumber ==
    ASSUME NEW S \in SUBSET Nat, S # {}
    PROVE  \E n \in S : \A k \in S : n <= k
<1>1. PICK n \in S : \A k \in S : ~(<<k, n>> \in OpToRel(<, Nat))
  BY NatLessThanWellFounded, WFMin
<1>2. \A j, k \in Nat : j < k => <<j, k>> \in OpToRel(<, Nat)
  BY DEF OpToRel
<1>3. \A k \in S : ~(k < n)
  BY <1>1, <1>2
<1>4. QED BY <1>3

(***************************************************************************)
(* The operators of MemMan.                                                *)
(***************************************************************************)
Consistent(u) == u \in Unit /\ Agree(u)

\* Between get_empty_reg and get_reg's update of the tables, the tables agree
\* everywhere but on the register that was chosen, which no id claims.
Vacant(u, r) ==
    /\ u \in Unit
    /\ r \in TReg
    /\ \A q \in TReg, id \in Ids : q # r => (u.reg_alloc_info[q] = id <=> u.loc[id].reg = q)
    /\ \A id \in Ids : u.loc[id].reg # r
    /\ \A id \in Args : u.loc[id].reg = NumTempRegs + id

\* Registers and parameters are numbers, t0..t9 before a0..a3, and tINV is neither.
LEMMA Registers ==
    /\ TReg \subseteq Nat /\ 0 \in TReg /\ TReg \subseteq Reg
    /\ tINV \notin Reg /\ tINV \notin TReg
    /\ \A id \in Args : NumTempRegs + id \in Reg /\ NumTempRegs + id \notin TReg
                        /\ NumTempRegs + id # tINV
    /\ Vars \subseteq Ids /\ Args \subseteq Ids /\ Temps \subseteq Ids /\ None \notin Ids
BY RegAssumption, IdAssumption DEF TReg, AReg, Reg, tINV, Ids

\* A function begins with empty registers t0..t9 and its parameters in a0..a3.
LEMMA InitConsistent == Consistent(InitUnit)
<1>1. \A id \in Ids : InitLocation(id) \in Location
  BY Registers, IdAssumption DEF InitLocation, Location, Ids
<1>2. InitUnit \in Unit
  BY <1>1, Registers, RegAssumption DEF InitUnit, Unit, Fault, Panic, TReg, Reg, AReg, Ids
<1>3. Agree(InitUnit)
  BY Registers, IdAssumption DEF InitUnit, Agree, InitLocation, Ids
<1> QED BY <1>2, <1>3 DEF Consistent

(***************************************************************************)
(* Emission changes neither table.                                         *)
(***************************************************************************)

\* v differs from u in what has been emitted only.
SameTables(u, v) ==
    /\ v \in Unit
    /\ v.reg_alloc_info = u.reg_alloc_info
    /\ v.loc = u.loc
    /\ v.start_issue = u.start_issue

LEMMA SameTablesConsistent ==
    ASSUME NEW u, NEW v, Consistent(u), SameTables(u, v)
    PROVE  Consistent(v)
BY DEF Consistent, Agree, SameTables

LEMMA SameTablesVacant ==
    ASSUME NEW u, NEW v, NEW r, Vacant(u, r), SameTables(u, v)
    PROVE  Vacant(v, r)
BY DEF Vacant, SameTables

LEMMA AbortSame ==
    ASSUME NEW u \in Unit, NEW why \in Panic
    PROVE  SameTables(u, Abort(u, why))
BY DEF Abort, SameTables, Unit, Panic

LEMMA WithFaultSame ==
    ASSUME NEW u \in Unit, NEW what \in Fault
    PROVE  SameTables(u, WithFault(u, what))
BY DEF WithFault, SameTables, Unit, Fault

LEMMA MarkSame == ASSUME NEW u \in Unit PROVE SameTables(u, Mark(u))
BY DEF Mark, SameTables, Unit

LEMMA SwallowSame == ASSUME NEW u \in Unit PROVE SameTables(u, Swallow(u))
<1>1. SameTables(u, WithFault(u, "lost"))
  BY WithFaultSame DEF Fault
<1> QED BY <1>1 DEF Swallow, SameTables, Unit

LEMMA PlainLineSame == ASSUME NEW u \in Unit PROVE SameTables(u, PlainLine(u))
BY SwallowSame DEF PlainLine, SameTables, Unit

LEMMA IssueStoreSame ==
    ASSUME NEW u \in Unit, NEW r \in Reg, NEW id \in Ids
    PROVE  SameTables(u, IssueStore(u, r, id))
<1>1. SameTables(u, Abort(u, "store"))
  BY AbortSame DEF Panic
<1>2. SameTables(u, [u EXCEPT !.mv[id] = (u.rv[r] = id)])
  BY DEF SameTables, Unit
<1> QED BY <1>1, <1>2, SwallowSame DEF IssueStore

LEMMA IssueLoadSame ==
    ASSUME NEW u \in Unit, NEW r \in Reg, NEW id \in Ids
    PROVE  SameTables(u, IssueLoad(u, r, id))
<1>1. SameTables(u, Abort(u, "load"))
  BY AbortSame DEF Panic
<1>2. SameTables(u, [u EXCEPT !.rv[r] = IF u.mv[id] THEN id ELSE None])
  BY DEF SameTables, Unit
<1> QED BY <1>1, <1>2, SwallowSame DEF IssueLoad

LEMMA RedefineSame ==
    ASSUME NEW u \in Unit, NEW r \in Reg, NEW id \in Ids, NEW v \in Ids \cup {None}
    PROVE  SameTables(u, Redefine(u, r, id, v))
<1> DEFINE rv == [q \in Reg |-> IF q = r THEN v ELSE IF u.rv[q] = id THEN None ELSE u.rv[q]]
<1>1. rv \in [Reg -> Ids \cup {None}]
  BY DEF Unit
<1>2. [u EXCEPT !.rv = rv, !.mv[id] = FALSE] \in Unit
  BY <1>1 DEF Unit
<1> QED BY <1>2 DEF Redefine, SameTables, Unit

\* A set of <<id, register>> pairs, as the handlers pass them.
LEMMA StaleReadsType ==
    ASSUME NEW u \in Unit, NEW reads \in SUBSET (Ids \X Reg)
    PROVE  StaleReads(u, reads) \in SUBSET Ids
BY DEF StaleReads

LEMMA StaleSame ==
    ASSUME NEW u \in Unit, NEW reads \in SUBSET (Ids \X Reg)
    PROVE  SameTables(u, [u EXCEPT !.stale = @ \cup StaleReads(u, reads)])
BY StaleReadsType DEF SameTables, Unit

LEMMA ReadLineSame ==
    ASSUME NEW u \in Unit, NEW reads \in SUBSET (Ids \X Reg)
    PROVE  SameTables(u, ReadLine(u, reads))
BY StaleSame, SwallowSame DEF ReadLine

LEMMA DefLineSame ==
    ASSUME NEW u \in Unit, NEW reads \in SUBSET (Ids \X Reg), NEW r \in Reg,
           NEW res \in Ids, NEW dead \in BOOLEAN
    PROVE  SameTables(u, DefLine(u, reads, r, res, dead))
<1> DEFINE m == [u EXCEPT !.mark = FALSE]
           w == Redefine(m, r, res, None)
           s == [u EXCEPT !.stale = @ \cup StaleReads(u, reads)]
<1>1. SameTables(u, m)
  BY DEF SameTables, Unit
<1>2. SameTables(u, s)
  BY StaleSame
<1>3. m \in Unit /\ s \in Unit
  BY <1>1, <1>2 DEF SameTables
<1> HIDE DEF m, s
<1>4. SameTables(m, w) /\ SameTables(s, Redefine(s, r, res, res))
  BY <1>3, RedefineSame
<1>5. w \in Unit
  BY <1>4 DEF SameTables
<1> HIDE DEF w
<1>8. SameTables(w, WithFault(w, "lost"))
  BY <1>5, WithFaultSame DEF Fault
<1>6. SameTables(u, IF dead THEN w ELSE WithFault(w, "lost"))
  BY <1>1, <1>4, <1>8 DEF SameTables
<1>7. SameTables(u, Redefine(s, r, res, res))
  BY <1>2, <1>4 DEF SameTables
<1> QED BY <1>6, <1>7 DEF DefLine, m, w, s

(***************************************************************************)
(* Allocation.                                                             *)
(***************************************************************************)

LEMMA SlotType == ASSUME NEW u \in Unit, NEW k \in Nat PROVE Slot(u, k) \in TReg
BY RegAssumption DEF Slot, Unit, TReg

\* Moving start_issue past the chosen slot leaves the tables alone.
LEMMA IssueVacant ==
    ASSUME NEW u, NEW k \in TReg, Vacant(u, Slot(u, k))
    PROVE  /\ Issue(u, k).r = Slot(u, k)
           /\ Vacant(Issue(u, k).u, Slot(u, k))
           /\ Issue(u, k).u.loc = u.loc
<1> DEFINE v == [u EXCEPT !.start_issue = Slot(u, k + 1)]
<1>1. u \in Unit /\ k + 1 \in Nat
  BY Registers DEF Vacant
<1>2. Slot(u, k + 1) \in TReg
  BY <1>1, SlotType
<1>3. v \in Unit /\ v.loc = u.loc /\ v.reg_alloc_info = u.reg_alloc_info
  BY <1>1, <1>2 DEF Unit
<1>4. Issue(u, k) = [u |-> v, r |-> Slot(u, k)]
  BY DEF Issue
<1> HIDE DEF v
<1>5. Vacant(v, Slot(u, k))
  BY <1>3 DEF Vacant
<1> QED BY <1>3, <1>4, <1>5

\* An empty slot's register is claimed by no id.
LEMMA EmptySlotVacant ==
    ASSUME NEW u, Consistent(u), NEW r \in TReg, u.reg_alloc_info[r] = None
    PROVE  Vacant(u, r)
BY Registers DEF Consistent, Agree, Vacant

\* Spilling the temporary in a slot leaves its register claimed by no id.
LEMMA SpillTempVacant ==
    ASSUME NEW u, Consistent(u), NEW k \in TReg, u.reg_alloc_info[Slot(u, k)] \in Temps
    PROVE  /\ SpillTemp(u, k).r = Slot(u, k)
           /\ Vacant(SpillTemp(u, k).u, Slot(u, k))
           /\ \A id \in Ids : u.loc[id].reg = tINV => SpillTemp(u, k).u.loc[id].reg = tINV
<1> DEFINE r == Slot(u, k)
           t == u.reg_alloc_info[r]
           p == PlainLine(u)
           l == [reg |-> tINV, in_mem |-> TRUE, home |-> TRUE, known |-> TRUE]
           w == [p EXCEPT !.loc[t] = l, !.mv[t] = (u.rv[r] = t)]
           f == WithFault(w, "spill")
<1>1. u \in Unit /\ Agree(u)
  BY DEF Consistent
<1>2. r \in TReg /\ t \in Ids /\ t \notin Args /\ u.reg_alloc_info[r] = t
  BY <1>1, SlotType, Registers, IdAssumption
<1>3. SameTables(u, p) /\ p \in Unit
  BY <1>1, PlainLineSame DEF SameTables
<1>4. l \in Location /\ l.reg = tINV
  BY DEF Location
<1> HIDE DEF r, t, p, l
<1>5. w \in Unit
  BY <1>2, <1>3, <1>4 DEF Unit
<1>6. /\ w.reg_alloc_info = u.reg_alloc_info
      /\ \A id \in Ids : w.loc[id].reg = IF id = t THEN tINV ELSE u.loc[id].reg
      /\ w.start_issue = u.start_issue
  BY <1>2, <1>3, <1>4 DEF SameTables, Unit
<1> HIDE DEF w
<1>7. SameTables(w, f) /\ f \in Unit
  BY <1>5, WithFaultSame DEF Fault, SameTables
<1> HIDE DEF f
<1>8. SpillTemp(u, k) = Issue(f, k)
  BY DEF SpillTemp, f, w, l, p, t, r
<1>9. Slot(f, k) = r
  BY <1>6, <1>7 DEF Slot, SameTables, r
<1>10. \A id \in Ids : f.loc[id].reg = IF id = t THEN tINV ELSE u.loc[id].reg
  BY <1>6, <1>7 DEF SameTables
<1>11. \A id \in Ids : f.loc[id].reg # r
  BY <1>1, <1>2, <1>10, Registers DEF Agree
<1>12. \A q \in TReg, id \in Ids : q # r => (f.reg_alloc_info[q] = id <=> f.loc[id].reg = q)
  BY <1>1, <1>2, <1>6, <1>7, <1>10, Registers DEF Agree, SameTables
<1>13. \A id \in Args : f.loc[id].reg = NumTempRegs + id
  BY <1>1, <1>2, <1>10, Registers DEF Agree
<1>14. Vacant(f, Slot(f, k))
  BY <1>2, <1>7, <1>9, <1>11, <1>12, <1>13 DEF Vacant
<1> QED BY <1>8, <1>9, <1>10, <1>14, IssueVacant DEF r

\* What get_empty_reg returns is a register no id claims, or it panics, and
\* then the tables are as they were.
LEMMA GetEmptyRegVacant ==
    ASSUME NEW u, Consistent(u)
    PROVE  LET c == GetEmptyReg(u)
           IN  /\ c.r \in TReg \cup {tINV}
               /\ c.r \in TReg => Vacant(c.u, c.r)
               /\ c.r = tINV => Consistent(c.u)
               /\ \A id \in Ids : u.loc[id].reg = tINV => c.u.loc[id].reg = tINV
<1> DEFINE empty == FirstSlot(u, {None})
           temp  == FirstSlot(u, Temps)
<1>1. u \in Unit /\ \A k \in TReg : Slot(u, k) \in TReg
  BY SlotType, Registers DEF Consistent
<1>2. CASE empty # {}
  <2>1. PICK k : k = (CHOOSE j \in empty : TRUE) /\ k \in empty
    BY <1>2
  <2>2. k \in TReg /\ u.reg_alloc_info[Slot(u, k)] = None
    BY <2>1 DEF FirstSlot, First
  <2>3. Vacant(u, Slot(u, k)) /\ Slot(u, k) \in TReg
    BY <1>1, <2>2, EmptySlotVacant
  <2>4. GetEmptyReg(u) = Issue(u, k)
    BY <1>2, <2>1 DEF GetEmptyReg
  <2> QED BY <2>2, <2>3, <2>4, IssueVacant, Registers
<1>3. CASE empty = {} /\ temp # {}
  <2>1. PICK k : k = (CHOOSE j \in temp : TRUE) /\ k \in temp
    BY <1>3
  <2>2. k \in TReg /\ u.reg_alloc_info[Slot(u, k)] \in Temps
    BY <2>1 DEF FirstSlot, First
  <2>3. GetEmptyReg(u) = SpillTemp(u, k)
    BY <1>3, <2>1 DEF GetEmptyReg
  <2> QED BY <1>1, <2>2, <2>3, SpillTempVacant, Registers
<1>4. CASE empty = {} /\ temp = {}
  <2>1. GetEmptyReg(u) = [u |-> Abort(u, "empty_reg"), r |-> tINV]
    BY <1>4 DEF GetEmptyReg
  <2>2. SameTables(u, Abort(u, "empty_reg"))
    BY <1>1, AbortSame DEF Panic
  <2>3. Consistent(Abort(u, "empty_reg"))
    BY <2>2, SameTablesConsistent
  <2> QED BY <2>1, <2>2, <2>3, Registers DEF SameTables
<1> QED BY <1>2, <1>3, <1>4

LEMMA ChooseRegVacant ==
    ASSUME NEW u, Consistent(u), NEW dest, dest \in TReg => u.reg_alloc_info[dest] = None
    PROVE  LET c == ChooseReg(u, dest)
           IN  /\ c.r \in TReg \cup {tINV}
               /\ c.r \in TReg => Vacant(c.u, c.r)
               /\ c.r = tINV => Consistent(c.u)
               /\ \A id \in Ids : u.loc[id].reg = tINV => c.u.loc[id].reg = tINV
<1>1. CASE dest \in TReg
  BY <1>1, EmptySlotVacant, Registers DEF ChooseReg
<1>2. CASE dest \notin TReg
  <2>1. ChooseReg(u, dest) = GetEmptyReg(u)
    BY <1>2 DEF ChooseReg
  <2> QED BY <2>1, GetEmptyRegVacant
<1> QED BY <1>1, <1>2

\* New tables of the right type make a unit of the right type.
LEMMA TablesType ==
    ASSUME NEW u \in Unit, NEW id \in Ids, NEW l \in Location,
           NEW r \in TReg, NEW s \in Ids \cup {None}
    PROVE  /\ [u EXCEPT !.loc = [u.loc EXCEPT ![id] = l]] \in Unit
           /\ [u EXCEPT !.loc = [u.loc EXCEPT ![id] = l],
                        !.reg_alloc_info = [u.reg_alloc_info EXCEPT ![r] = s]] \in Unit
<1> DEFINE loc == [u.loc EXCEPT ![id] = l]
           alloc == [u.reg_alloc_info EXCEPT ![r] = s]
<1>1. loc \in [Ids -> Location] /\ alloc \in [TReg -> Ids \cup {None}]
  BY DEF Unit
<1> HIDE DEF loc, alloc
<1>2. [u EXCEPT !.loc = loc] \in Unit /\ [u EXCEPT !.loc = loc, !.reg_alloc_info = alloc] \in Unit
  BY <1>1 DEF Unit
<1> QED BY <1>2 DEF loc, alloc

\* A location's fields.
LEMMA LocationFields ==
    ASSUME NEW l \in Location, NEW r \in Reg \cup {tINV}, NEW b \in BOOLEAN
    PROVE  /\ [l EXCEPT !.reg = r] \in Location
           /\ [l EXCEPT !.in_mem = b] \in Location
           /\ [l EXCEPT !.in_mem = TRUE, !.known = TRUE] \in Location
           /\ [l EXCEPT !.reg = tINV, !.in_mem = TRUE] \in Location
BY DEF Location

\* Recording an id that has no register in a vacant one.
LEMMA AssignConsistent ==
    ASSUME NEW u, NEW r, Vacant(u, r), NEW id \in Ids, u.loc[id].reg = tINV
    PROVE  Consistent(Assign(u, r, id))
<1> DEFINE w == Assign(u, r, id)
<1>1. u \in Unit /\ r \in TReg /\ r \in Reg
  BY Registers DEF Vacant
<1>2. w \in Unit
  <2> DEFINE l == [u.loc[id] EXCEPT !.reg = r]
  <2>1. u.loc[id] \in Location /\ id \in Ids \cup {None}
    BY <1>1 DEF Unit
  <2>2. l \in Location
    BY <1>1, <2>1, LocationFields
  <2>3. w = [u EXCEPT !.loc = [u.loc EXCEPT ![id] = l],
                      !.reg_alloc_info = [u.reg_alloc_info EXCEPT ![r] = id]]
    BY <1>1 DEF Assign, Unit
  <2> HIDE DEF l, w
  <2> QED BY <1>1, <2>1, <2>2, <2>3, TablesType
<1>3. /\ \A q \in TReg : w.reg_alloc_info[q] = IF q = r THEN id ELSE u.reg_alloc_info[q]
      /\ \A i \in Ids : w.loc[i].reg = IF i = id THEN r ELSE u.loc[i].reg
  BY <1>1 DEF Assign, Unit, Location
<1>4. id \notin Args
  BY Registers DEF Vacant
<1> HIDE DEF w
<1>5. Agree(w)
  BY <1>1, <1>3, <1>4, Registers DEF Agree, Vacant
<1> QED BY <1>2, <1>5 DEF Consistent, w

\* A change of an id's in_mem and known leaves the tables' agreement alone.
LEMMA FlagsConsistent ==
    ASSUME NEW u, Consistent(u), NEW v \in Unit, v.reg_alloc_info = u.reg_alloc_info,
           \A id \in Ids : v.loc[id].reg = u.loc[id].reg
    PROVE  Consistent(v)
BY Registers DEF Consistent, Agree

LEMMA SetInMemConsistent ==
    ASSUME NEW u, Consistent(u), NEW id \in Ids, NEW mem_valid \in 0 .. 2
    PROVE  Consistent(SetInMem(u, id, mem_valid))
<1>1. u \in Unit
  BY DEF Consistent
<1>2. \A b \in BOOLEAN : Consistent([u EXCEPT !.loc[id].in_mem = b])
  <2> SUFFICES ASSUME NEW b \in BOOLEAN PROVE Consistent([u EXCEPT !.loc[id].in_mem = b])
    OBVIOUS
  <2> DEFINE v == [u EXCEPT !.loc[id].in_mem = b]
  <2>3. u.loc[id] \in Location
    BY <1>1 DEF Unit
  <2>4. [u.loc[id] EXCEPT !.in_mem = b] \in Location
    BY <2>3, LocationFields
  <2>5. v = [u EXCEPT !.loc = [u.loc EXCEPT ![id] = [u.loc[id] EXCEPT !.in_mem = b]]]
    BY <1>1 DEF Unit
  <2>6. v \in Unit
    BY <1>1, <2>4, <2>5, Registers, TablesType
  <2>1. v \in Unit /\ v.reg_alloc_info = u.reg_alloc_info
    BY <1>1, <2>6 DEF Unit
  <2>2. \A i \in Ids : v.loc[i].reg = u.loc[i].reg
    BY <1>1 DEF Unit, Location
  <2> HIDE DEF v
  <2>7. Consistent(v)
    BY <2>1, <2>2, FlagsConsistent
  <2> QED BY <2>7 DEF v
<1>3. CASE mem_valid = 0
  BY <1>2, <1>3 DEF SetInMem
<1>4. CASE mem_valid = 1
  BY <1>2, <1>4 DEF SetInMem
<1>5. CASE mem_valid = 2
  BY <1>5 DEF SetInMem
<1> QED BY <1>3, <1>4, <1>5

LEMMA FetchSame ==
    ASSUME NEW u \in Unit, NEW r \in Reg, NEW id \in Ids, NEW load \in BOOLEAN
    PROVE  SameTables(u, Fetch(u, r, id, load))
<1>1. SameTables(u, u)
  BY DEF SameTables
<1>2. SameTables(u, Abort(u, "load"))
  BY AbortSame DEF Panic
<1> QED BY <1>1, <1>2, IssueLoadSame DEF Fetch

\* get_reg returns a register and keeps the tables in agreement, provided the
\* register it is handed for the result, if any, is empty.
LEMMA GetRegConsistent ==
    ASSUME NEW u, Consistent(u), NEW id \in Ids, NEW mem_valid \in 0 .. 2, NEW load \in BOOLEAN,
           NEW dest, dest \in TReg => u.reg_alloc_info[dest] = None
    PROVE  /\ Consistent(GetReg(u, dest, id, mem_valid, load).u)
           /\ GetReg(u, dest, id, mem_valid, load).r \in Reg
<1> DEFINE g == GetReg(u, dest, id, mem_valid, load)
           c == ChooseReg(u, dest)
           w == Assign(c.u, c.r, id)
<1>1. u \in Unit
  BY DEF Consistent
<1>2. CASE u.loc[id].reg # tINV
  <2>1. g = [u |-> SetInMem(u, id, mem_valid), r |-> u.loc[id].reg]
    BY <1>2 DEF GetReg
  <2>2. u.loc[id].reg \in Reg
    BY <1>1, <1>2 DEF Unit, Location
  <2> QED BY <2>1, <2>2, SetInMemConsistent
<1>3. CASE u.loc[id].reg = tINV /\ c.r = tINV
  <2>1. g = [c EXCEPT !.r = 0]
    BY <1>3 DEF GetReg
  <2>2. Consistent(c.u)
    BY <1>3, ChooseRegVacant
  <2>3. g.u = c.u /\ g.r = 0
    BY <2>1 DEF ChooseReg, GetEmptyReg, Issue, SpillTemp
  <2> HIDE DEF g, c
  <2>4. Consistent(g.u) /\ g.r \in Reg
    BY <2>2, <2>3, Registers
  <2> QED BY <2>4 DEF g
<1>4. CASE u.loc[id].reg = tINV /\ c.r # tINV
  <2>1. c.r \in TReg /\ Vacant(c.u, c.r) /\ c.u.loc[id].reg = tINV
    BY <1>4, ChooseRegVacant
  <2> HIDE DEF c
  <2>2. Consistent(w) /\ w \in Unit /\ c.r \in Reg
    BY <2>1, AssignConsistent, Registers DEF Consistent
  <2> HIDE DEF w
  <2>3. CASE u.loc[id].known
    <3> DEFINE f == Fetch(w, c.r, id, load)
    <3>1. SameTables(w, f)
      BY <2>2, FetchSame
    <3> HIDE DEF f
    <3>2. Consistent(f)
      BY <2>2, <3>1, SameTablesConsistent
    <3>3. Consistent(SetInMem(f, id, mem_valid))
      BY <3>2, SetInMemConsistent
    <3>4. g = [u |-> SetInMem(f, id, mem_valid), r |-> c.r]
      BY <1>4, <2>3 DEF GetReg, f, w, c
    <3> QED BY <2>2, <3>3, <3>4
  <2>4. CASE ~u.loc[id].known
    <3> DEFINE v == [w EXCEPT !.loc[id] = [@ EXCEPT !.in_mem = TRUE, !.known = TRUE]]
           l == [w.loc[id] EXCEPT !.in_mem = TRUE, !.known = TRUE]
    <3>5. w.loc[id] \in Location
      BY <2>2 DEF Unit
    <3>6. l \in Location
      BY <3>5, Registers, LocationFields
    <3>7. v = [w EXCEPT !.loc = [w.loc EXCEPT ![id] = l]]
      BY <2>2 DEF Unit
    <3>8. v \in Unit
      BY <2>2, <3>6, <3>7, Registers, TablesType
    <3>1. v \in Unit /\ v.reg_alloc_info = w.reg_alloc_info
      BY <2>2, <3>8 DEF Unit
    <3>2. \A i \in Ids : v.loc[i].reg = w.loc[i].reg
      BY <2>2 DEF Unit, Location
    <3> HIDE DEF v
    <3>3. Consistent(v)
      BY <2>2, <3>1, <3>2, FlagsConsistent
    <3>4. g = [u |-> v, r |-> c.r]
      BY <1>4, <2>4 DEF GetReg, v, w, c
    <3> QED BY <2>2, <3>3, <3>4
  <2> QED BY <2>3, <2>4
<1> QED BY <1>2, <1>3, <1>4

\* The two tables give up a register together.
Vacate(u, r, id, l) ==
    [u EXCEPT !.loc = [u.loc EXCEPT ![id] = l],
              !.reg_alloc_info = [u.reg_alloc_info EXCEPT ![r] = None]]

LEMMA VacateConsistent ==
    ASSUME NEW u, Consistent(u), NEW r \in TReg, NEW id \in Ids, u.reg_alloc_info[r] = id,
           NEW l \in Location, l.reg = tINV
    PROVE  /\ Consistent(Vacate(u, r, id, l))
           /\ \A q \in TReg : Vacate(u, r, id, l).reg_alloc_info[q] =
                               IF q = r THEN None ELSE u.reg_alloc_info[q]
<1> DEFINE v == Vacate(u, r, id, l)
<1>1. u \in Unit /\ Agree(u)
  BY DEF Consistent
<1>2. id \notin Args
  BY <1>1, Registers DEF Agree
<1>3. v \in Unit
  BY <1>1, TablesType DEF Vacate
<1>4. /\ \A q \in TReg : v.reg_alloc_info[q] = IF q = r THEN None ELSE u.reg_alloc_info[q]
      /\ \A i \in Ids : v.loc[i].reg = IF i = id THEN tINV ELSE u.loc[i].reg
  BY <1>1 DEF Unit, Vacate
<1> HIDE DEF v
<1>5. Agree(v)
  BY <1>1, <1>2, <1>4, Registers DEF Agree
<1>6. Consistent(v)
  BY <1>3, <1>5 DEF Consistent
<1> QED BY <1>4, <1>6 DEF v

LEMMA FreeRegConsistent ==
    ASSUME NEW u, Consistent(u), NEW r
    PROVE  /\ Consistent(FreeReg(u, r))
           /\ r \in TReg => FreeReg(u, r).reg_alloc_info[r] = None
           /\ \A q \in TReg : u.reg_alloc_info[q] = None => FreeReg(u, r).reg_alloc_info[q] = None
<1>1. u \in Unit
  BY DEF Consistent
<1>2. CASE r \notin TReg
  BY <1>2 DEF FreeReg
<1>3. CASE r \in TReg /\ u.reg_alloc_info[r] = None
  <2>1. SameTables(u, Abort(u, "free"))
    BY <1>1, AbortSame DEF Panic
  <2> QED BY <1>3, <2>1, SameTablesConsistent DEF FreeReg, SameTables
<1>4. CASE r \in TReg /\ u.reg_alloc_info[r] # None
  <2> DEFINE l == [u.loc[u.reg_alloc_info[r]] EXCEPT !.reg = tINV]
  <2>1. FreeReg(u, r) = [u EXCEPT !.loc[u.reg_alloc_info[r]].reg = tINV, !.reg_alloc_info[r] = None]
    BY <1>4 DEF FreeReg
  <2>2. u.reg_alloc_info[r] \in Ids /\ u.loc[u.reg_alloc_info[r]] \in Location
    BY <1>1, <1>4 DEF Unit
  <2>3. l \in Location /\ l.reg = tINV
    BY <2>2, LocationFields DEF Location
  <2>4. FreeReg(u, r) = Vacate(u, r, u.reg_alloc_info[r], l)
    BY <1>1, <2>1 DEF Unit, Vacate
  <2> HIDE DEF l
  <2> QED BY <1>4, <2>2, <2>3, <2>4, VacateConsistent
<1> QED BY <1>2, <1>3, <1>4

LEMMA StoreAndFreeRegConsistent ==
    ASSUME NEW u, Consistent(u), NEW r
    PROVE  /\ Consistent(StoreAndFreeReg(u, r))
           /\ r \in TReg => StoreAndFreeReg(u, r).reg_alloc_info[r] = None
           /\ \A q \in TReg : u.reg_alloc_info[q] = None => StoreAndFreeReg(u, r).reg_alloc_info[q] = None
<1>1. u \in Unit
  BY DEF Consistent
<1>2. CASE r \notin TReg
  BY <1>2 DEF StoreAndFreeReg
<1>3. CASE r \in TReg /\ u.reg_alloc_info[r] = None
  <2>1. SameTables(u, Abort(u, "free"))
    BY <1>1, AbortSame DEF Panic
  <2> QED BY <1>3, <2>1, SameTablesConsistent DEF StoreAndFreeReg, SameTables
<1>4. CASE r \in TReg /\ u.reg_alloc_info[r] # None
  <2> DEFINE id == u.reg_alloc_info[r]
             w == IF u.loc[id].in_mem THEN u ELSE IssueStore(u, r, id)
             l == [w.loc[id] EXCEPT !.reg = tINV, !.in_mem = TRUE]
  <2>1. id \in Ids /\ r \in Reg /\ u.reg_alloc_info[r] = id
    BY <1>1, <1>4, Registers DEF Unit
  <2>2. StoreAndFreeReg(u, r) = [w EXCEPT !.loc[id] = [@ EXCEPT !.reg = tINV, !.in_mem = TRUE],
                                          !.reg_alloc_info[r] = None]
    BY <1>4 DEF StoreAndFreeReg
  <2> HIDE DEF id
  <2>3. SameTables(u, w)
    BY <1>1, <2>1, IssueStoreSame DEF SameTables
  <2> HIDE DEF w
  <2>4. Consistent(w) /\ w \in Unit /\ w.reg_alloc_info = u.reg_alloc_info
    BY <2>1, <2>3, SameTablesConsistent DEF SameTables
  <2>5. w.loc[id] \in Location
    BY <2>1, <2>4 DEF Unit
  <2>6. l \in Location /\ l.reg = tINV
    BY <2>5, LocationFields DEF Location
  <2>7. StoreAndFreeReg(u, r) = Vacate(w, r, id, l)
    BY <2>2, <2>4 DEF Unit, Vacate
  <2> HIDE DEF l
  <2> QED BY <1>4, <2>1, <2>4, <2>6, <2>7, VacateConsistent
<1> QED BY <1>2, <1>3, <1>4

\* A released register is empty unless its id is read next: it may be handed
\* to the result.
LEMMA ReleaseConsistent ==
    ASSUME NEW u, Consistent(u), NEW r, NEW flag \in {"next", "out", "dead"}
    PROVE  /\ Consistent(Release(u, r, flag))
           /\ (r \in TReg /\ flag # "next") => Release(u, r, flag).reg_alloc_info[r] = None
BY FreeRegConsistent, StoreAndFreeRegConsistent DEF Release

LEMMA SettleConsistent ==
    ASSUME NEW u, Consistent(u), NEW r, NEW flag
    PROVE  Consistent(Settle(u, r, flag))
BY StoreAndFreeRegConsistent DEF Settle

\* Releasing a register empties a slot or leaves the slots alone.
LEMMA ReleaseKeepsEmpty ==
    ASSUME NEW u, Consistent(u), NEW r, NEW flag \in {"next", "out", "dead"},
           NEW q \in TReg, u.reg_alloc_info[q] = None
    PROVE  Release(u, r, flag).reg_alloc_info[q] = None
<1> QED BY FreeRegConsistent, StoreAndFreeRegConsistent DEF Release

(***************************************************************************)
(* The handlers of CodeGen.                                                *)
(***************************************************************************)
Promises == [Ids -> {"next", "out", "dead", "in"}]

\* The contract's names, in CodeGen's terms.
LEMMA ContractTypes ==
    /\ Use!Flags = {"next", "out", "dead"}
    /\ Use!ContractTypeOK <=> fate \in Promises
    /\ Use!BlockStart \in Promises
    /\ \A f \in Promises, n \in Ids, flag \in Use!Flags : Use!Promise(f, n, flag) \in Promises
    /\ \A n \in Ids : LastFlag(n) \in Use!Flags
BY DEF Use!Flags, Use!ContractTypeOK, Use!Names, Use!BlockStart, Use!Promise, Promises,
       NonTemps, Ids, LastFlag

(***************************************************************************)
(* The steps of a handler.                                                 *)
(***************************************************************************)

LEMMA MarkIfConsistent == ASSUME NEW u, Consistent(u), NEW fr PROVE Consistent(MarkIf(u, fr))
BY MarkSame, SameTablesConsistent DEF MarkIf, Consistent

LEMMA PlainLineConsistent == ASSUME NEW u, Consistent(u) PROVE Consistent(PlainLine(u))
BY PlainLineSame, SameTablesConsistent DEF Consistent

LEMMA WithFaultConsistent ==
    ASSUME NEW u, Consistent(u), NEW what \in Fault PROVE Consistent(WithFault(u, what))
BY WithFaultSame, SameTablesConsistent DEF Consistent

LEMMA ReadLineConsistent ==
    ASSUME NEW u, Consistent(u), NEW reads \in SUBSET (Ids \X Reg)
    PROVE  Consistent(ReadLine(u, reads))
BY ReadLineSame, SameTablesConsistent DEF Consistent

LEMMA RedefineConsistent ==
    ASSUME NEW u, Consistent(u), NEW r \in Reg, NEW id \in Ids, NEW v \in Ids \cup {None}
    PROVE  Consistent(Redefine(u, r, id, v))
BY RedefineSame, SameTablesConsistent DEF Consistent

LEMMA DefLineConsistent ==
    ASSUME NEW u, Consistent(u), NEW reads \in SUBSET (Ids \X Reg), NEW r \in Reg,
           NEW res \in Ids, NEW dead \in BOOLEAN
    PROVE  Consistent(DefLine(u, reads, r, res, dead))
BY DefLineSame, SameTablesConsistent DEF Consistent

LEMMA LoadOperandConsistent ==
    ASSUME NEW u, Consistent(u), NEW id \in Ids
    PROVE  Consistent(LoadOperand(u, id).u) /\ LoadOperand(u, id).r \in Reg
<1>1. 2 \in 0 .. 2 /\ TRUE \in BOOLEAN /\ (tINV \in TReg => u.reg_alloc_info[tINV] = None)
  BY Registers
<1>2. /\ Consistent(GetReg(u, tINV, id, 2, TRUE).u)
      /\ GetReg(u, tINV, id, 2, TRUE).r \in Reg
  BY <1>1, GetRegConsistent
<1> QED BY <1>2 DEF LoadOperand

LEMMA DestRegConsistent ==
    ASSUME NEW u, Consistent(u), NEW id \in Ids,
           NEW dest, dest \in TReg => u.reg_alloc_info[dest] = None
    PROVE  Consistent(DestReg(u, dest, id).u) /\ DestReg(u, dest, id).r \in Reg
<1>1. 0 \in 0 .. 2 /\ FALSE \in BOOLEAN
  OBVIOUS
<1>2. /\ Consistent(GetReg(u, dest, id, 0, FALSE).u)
      /\ GetReg(u, dest, id, 0, FALSE).r \in Reg
  BY <1>1, GetRegConsistent
<1> QED BY <1>2 DEF DestReg

(***************************************************************************)
(* The handlers.                                                           *)
(***************************************************************************)

LEMMA BinaryConsistent ==
    ASSUME NEW u, Consistent(u), NEW a1 \in Ids, NEW a2 \in Ids, NEW res \in Ids,
           NEW f1 \in Use!Flags, NEW f2 \in Use!Flags, NEW fr \in Use!Flags
    PROVE  Consistent(BinaryUnit(u, a1, f1, a2, f2, res, fr))
<1> DEFINE s1   == LoadOperand(MarkIf(u, fr), a1)
           s2   == LoadOperand(s1.u, a2)
           w2   == Release(s2.u, s2.r, f2)
           w1   == Release(w2, s1.r, f1)
           dest == HandOver(f1, s1.r, HandOver(f2, s2.r, tINV))
           d    == DestReg(w1, dest, res)
           rd   == {<<a1, s1.r>>, <<a2, s2.r>>}
           line == DefLine(d.u, rd, d.r, res, fr = "dead")
<1>1. Consistent(s1.u) /\ s1.r \in Reg
  BY MarkIfConsistent, LoadOperandConsistent
<1>2. BinaryUnit(u, a1, f1, a2, f2, res, fr) = Settle(line, d.r, fr)
  BY DEF BinaryUnit
<1> HIDE DEF s1
<1>3. Consistent(s2.u) /\ s2.r \in Reg
  BY <1>1, LoadOperandConsistent
<1> HIDE DEF s2
<1>4. Consistent(w2) /\ ((s2.r \in TReg /\ f2 # "next") => w2.reg_alloc_info[s2.r] = None)
  BY <1>3, ReleaseConsistent, ContractTypes
<1> HIDE DEF w2
<1>5. /\ Consistent(w1)
      /\ (s1.r \in TReg /\ f1 # "next") => w1.reg_alloc_info[s1.r] = None
      /\ (s2.r \in TReg /\ f2 # "next") => w1.reg_alloc_info[s2.r] = None
  <2>1. f1 \in {"next", "out", "dead"}
    BY ContractTypes
  <2>2. Consistent(w1) /\ ((s1.r \in TReg /\ f1 # "next") => w1.reg_alloc_info[s1.r] = None)
    BY <1>4, <2>1, ReleaseConsistent
  <2>3. (s2.r \in TReg /\ w2.reg_alloc_info[s2.r] = None) => w1.reg_alloc_info[s2.r] = None
    BY <1>4, <2>1, ReleaseKeepsEmpty
  <2> QED BY <1>4, <2>2, <2>3
<1> HIDE DEF w1
<1>6. dest \in TReg => w1.reg_alloc_info[dest] = None
  BY <1>5, Registers DEF HandOver
<1>7. Consistent(d.u) /\ d.r \in Reg
  BY <1>5, <1>6, DestRegConsistent
<1> HIDE DEF d
<1>8. rd \in SUBSET (Ids \X Reg)
  BY <1>1, <1>3
<1>9. Consistent(line)
  BY <1>7, <1>8, DefLineConsistent
<1> QED BY <1>2, <1>9, SettleConsistent

\* The register of a single operand, handed over or not, is a lawful destination.
LEMMA HandOverEmpty ==
    ASSUME NEW u, Consistent(u), NEW r, NEW flag \in Use!Flags
    PROVE  LET w == Release(u, r, flag)
               dest == HandOver(flag, r, tINV)
           IN  Consistent(w) /\ (dest \in TReg => w.reg_alloc_info[dest] = None)
BY ReleaseConsistent, ContractTypes, Registers DEF HandOver

LEMMA ImmediateConsistent ==
    ASSUME NEW u, Consistent(u), NEW a \in Ids, NEW res \in Ids, NEW fa \in Use!Flags,
           NEW fr \in Use!Flags, NEW li \in BOOLEAN
    PROVE  Consistent(ImmediateUnit(u, a, fa, li, res, fr))
<1> DEFINE s    == LoadOperand(u, a)
           w    == Release(MarkIf(s.u, fr), s.r, fa)
           dest == HandOver(fa, s.r, tINV)
           d    == DestReg(w, dest, res)
           pre  == IF li THEN PlainLine(d.u) ELSE d.u
           rd   == {<<a, s.r>>}
           line == DefLine(pre, rd, d.r, res, fr = "dead")
<1>1. Consistent(s.u) /\ s.r \in Reg
  BY LoadOperandConsistent
<1>2. ImmediateUnit(u, a, fa, li, res, fr) = Settle(line, d.r, fr)
  BY DEF ImmediateUnit
<1> HIDE DEF s
<1>3. Consistent(w) /\ (dest \in TReg => w.reg_alloc_info[dest] = None)
  BY <1>1, MarkIfConsistent, HandOverEmpty
<1> HIDE DEF w, dest
<1>4. Consistent(d.u) /\ d.r \in Reg
  BY <1>3, DestRegConsistent
<1> HIDE DEF d
<1>5. Consistent(pre) /\ rd \in SUBSET (Ids \X Reg)
  BY <1>1, <1>4, PlainLineConsistent
<1> HIDE DEF pre, rd
<1>6. Consistent(line)
  BY <1>4, <1>5, DefLineConsistent
<1> QED BY <1>2, <1>6, SettleConsistent

LEMMA UnaryLineConsistent ==
    ASSUME NEW u, Consistent(u), NEW op \in UnaryOp, NEW a \in Ids, NEW src \in Reg,
           NEW dst \in Reg, NEW res \in Ids, NEW dead \in BOOLEAN
    PROVE  Consistent(UnaryLine(u, op, a, src, dst, res, dead))
<1> DEFINE st == [u EXCEPT !.stale = @ \cup StaleReads(u, {<<a, src>>})]
           nc == WithFault(u, "nocode")
<1>1. {<<a, src>>} \in SUBSET (Ids \X Reg) /\ {} \in SUBSET (Ids \X Reg)
  OBVIOUS
<1>2. Consistent(st)
  BY <1>1, StaleSame, SameTablesConsistent DEF Consistent
<1>3. Consistent(nc)
  BY WithFaultConsistent DEF Fault
<1>4. Consistent(DefLine(u, {}, dst, res, dead))
  BY <1>1, DefLineConsistent
<1>5. Consistent(DefLine(u, {<<a, src>>}, dst, res, dead))
  BY <1>1, DefLineConsistent
<1> HIDE DEF st, nc
<1>6. Consistent(Redefine(st, dst, res, res)) /\ Consistent(Redefine(nc, dst, res, None))
  BY <1>2, <1>3, RedefineConsistent
<1> QED BY <1>4, <1>5, <1>6 DEF UnaryLine, st, nc

LEMMA UnaryConsistent ==
    ASSUME NEW u, Consistent(u), NEW op \in UnaryOp, NEW a \in Ids, NEW res \in Ids,
           NEW fa \in Use!Flags, NEW fr \in Use!Flags
    PROVE  Consistent(UnaryUnit(u, op, a, fa, res, fr))
<1> DEFINE s    == LoadOperand(MarkIf(u, fr), a)
           w    == Release(s.u, s.r, fa)
           dest == HandOver(fa, s.r, tINV)
           d    == DestReg(w, dest, res)
           line == UnaryLine(d.u, op, a, s.r, d.r, res, fr = "dead")
<1>1. Consistent(s.u) /\ s.r \in Reg
  BY MarkIfConsistent, LoadOperandConsistent
<1>2. UnaryUnit(u, op, a, fa, res, fr) = Settle(line, d.r, fr)
  BY DEF UnaryUnit
<1> HIDE DEF s
<1>3. Consistent(w) /\ (dest \in TReg => w.reg_alloc_info[dest] = None)
  BY <1>1, HandOverEmpty
<1> HIDE DEF w, dest
<1>4. Consistent(d.u) /\ d.r \in Reg
  BY <1>3, DestRegConsistent
<1> HIDE DEF d
<1>5. Consistent(line)
  BY <1>1, <1>4, UnaryLineConsistent
<1> QED BY <1>2, <1>5, SettleConsistent

LEMMA StoreIndirectConsistent ==
    ASSUME NEW u, Consistent(u), NEW p \in Ids, NEW a \in Ids,
           NEW fp \in Use!Flags, NEW fa \in Use!Flags
    PROVE  Consistent(StoreIndirectUnit(u, p, fp, a, fa))
<1> DEFINE s    == LoadOperand(u, a)
           w    == Release(s.u, s.r, fa)
           d    == LoadOperand(w, p)
           rd   == {<<a, s.r>>, <<p, d.r>>}
           line == ReadLine(d.u, rd)
<1>1. Consistent(s.u) /\ s.r \in Reg
  BY LoadOperandConsistent
<1>2. StoreIndirectUnit(u, p, fp, a, fa) = Settle(line, d.r, fp)
  BY DEF StoreIndirectUnit
<1> HIDE DEF s
<1>3. Consistent(w)
  BY <1>1, ReleaseConsistent, ContractTypes
<1> HIDE DEF w
<1>4. Consistent(d.u) /\ d.r \in Reg
  BY <1>3, LoadOperandConsistent
<1> HIDE DEF d
<1>5. rd \in SUBSET (Ids \X Reg)
  BY <1>1, <1>4
<1> QED BY <1>2, <1>4, <1>5, ReadLineConsistent, SettleConsistent

LEMMA StoreIndirectImmConsistent ==
    ASSUME NEW u, Consistent(u), NEW p \in Ids, NEW fp \in Use!Flags
    PROVE  Consistent(StoreIndirectImmUnit(u, p, fp))
<1> DEFINE d    == LoadOperand(u, p)
           rd   == {<<p, d.r>>}
<1>1. Consistent(d.u) /\ d.r \in Reg
  BY LoadOperandConsistent
<1>2. StoreIndirectImmUnit(u, p, fp) = Release(ReadLine(PlainLine(d.u), rd), d.r, fp)
  BY DEF StoreIndirectImmUnit
<1> HIDE DEF d
<1>3. rd \in SUBSET (Ids \X Reg) /\ Consistent(PlainLine(d.u))
  BY <1>1, PlainLineConsistent
<1> QED BY <1>2, <1>3, ReadLineConsistent, ReleaseConsistent, ContractTypes

LEMMA LoadImmediateConsistent ==
    ASSUME NEW u, Consistent(u), NEW res \in Ids, NEW fr \in Use!Flags
    PROVE  Consistent(LoadImmediateUnit(u, res, fr))
<1> DEFINE d    == DestReg(MarkIf(u, fr), tINV, res)
           line == DefLine(d.u, {}, d.r, res, fr = "dead")
<1>1. Consistent(d.u) /\ d.r \in Reg
  BY MarkIfConsistent, DestRegConsistent, Registers
<1>2. LoadImmediateUnit(u, res, fr) = Release(line, d.r, fr)
  BY DEF LoadImmediateUnit
<1> HIDE DEF d
<1>3. Consistent(line)
  BY <1>1, DefLineConsistent
<1> QED BY <1>2, <1>3, ReleaseConsistent, ContractTypes

LEMMA ConstantPairConsistent ==
    ASSUME NEW u, Consistent(u), NEW res \in Ids, NEW fr \in Use!Flags
    PROVE  Consistent(ConstantPairUnit(u, res, fr))
<1> DEFINE d == DestReg(u, tINV, res)
           w == WithFault(d.u, "nocode")
<1>1. Consistent(d.u) /\ d.r \in Reg
  BY DestRegConsistent, Registers
<1>2. ConstantPairUnit(u, res, fr) = Settle(Redefine(w, d.r, res, None), d.r, fr)
  BY DEF ConstantPairUnit
<1> HIDE DEF d
<1>3. Consistent(w)
  BY <1>1, WithFaultConsistent DEF Fault
<1> HIDE DEF w
<1> QED BY <1>1, <1>2, <1>3, RedefineConsistent, SettleConsistent

LEMMA CondGotoConsistent ==
    ASSUME NEW u, Consistent(u), NEW n \in Ids, NEW flag \in Use!Flags
    PROVE  Consistent(CondGotoUnit(u, n, flag))
<1> DEFINE s     == LoadOperand(u, n)
           taken == ReadLine(s.u, {<<n, s.r>>})
           late  == flag = "out" /\ s.r \in TReg /\ ~taken.loc[n].in_mem
           w     == IF late THEN WithFault(taken, "late") ELSE taken
<1>1. Consistent(s.u) /\ s.r \in Reg
  BY LoadOperandConsistent
<1>2. CondGotoUnit(u, n, flag) = Release(w, s.r, flag)
  BY DEF CondGotoUnit
<1> HIDE DEF s
<1>3. Consistent(taken)
  BY <1>1, ReadLineConsistent
<1> HIDE DEF taken, late
<1>4. Consistent(w)
  BY <1>3, WithFaultConsistent DEF Fault
<1> QED BY <1>2, <1>4, ReleaseConsistent, ContractTypes

LEMMA ReturnConsistent ==
    ASSUME NEW u, Consistent(u), NEW n \in Ids
    PROVE  Consistent(ReturnUnit(u, n))
<1> DEFINE s == LoadOperand(u, n)
           w == ReadLine(s.u, {<<n, s.r>>})
<1>1. Consistent(s.u) /\ s.r \in Reg
  BY LoadOperandConsistent
<1>2. ReturnUnit(u, n) = Release(w, s.r, "out")
  BY DEF ReturnUnit
<1> HIDE DEF s
<1>3. Consistent(w)
  BY <1>1, ReadLineConsistent
<1> QED BY <1>2, <1>3, ReleaseConsistent

\* Every variable in t0..t9 leaves its register in both tables.
LEMMA SaveLiveConsistent ==
    ASSUME NEW u, Consistent(u)
    PROVE  Consistent(SaveLiveUnit(u))
<1> DEFINE held   == {r \in TReg : u.reg_alloc_info[r] \in NonTemps}
           dirty  == {r \in held : ~u.loc[u.reg_alloc_info[r]].in_mem}
           lost   == IF u.mark THEN First(dirty) ELSE {}
           ids    == {u.reg_alloc_info[r] : r \in held}
           stored == {u.reg_alloc_info[r] : r \in dirty \ lost}
           w      == IF lost # {} THEN Swallow(u) ELSE u
           alloc  == [r \in TReg |-> IF r \in held THEN None ELSE w.reg_alloc_info[r]]
           loc    == [id \in Ids |-> IF id \in ids
                                     THEN [w.loc[id] EXCEPT !.reg = tINV, !.in_mem = TRUE]
                                     ELSE w.loc[id]]
           mv     == [id \in Ids |-> IF id \in stored THEN u.rv[u.loc[id].reg] = id ELSE w.mv[id]]
           v      == [w EXCEPT !.reg_alloc_info = alloc, !.loc = loc, !.mv = mv]
<1>1. SaveLiveUnit(u) = v
  BY DEF SaveLiveUnit
<1>2. SameTables(u, w)
  BY SwallowSame DEF Consistent, SameTables
<1> HIDE DEF w
<1>3. Consistent(w) /\ w \in Unit /\ w.reg_alloc_info = u.reg_alloc_info /\ w.loc = u.loc
  BY <1>2, SameTablesConsistent DEF SameTables
<1>4. alloc \in [TReg -> Ids \cup {None}] /\ loc \in [Ids -> Location] /\ mv \in [Ids -> BOOLEAN]
  <2>1. \A id \in Ids : w.loc[id] \in Location
    BY <1>3 DEF Unit
  <2>2. \A id \in Ids : [w.loc[id] EXCEPT !.reg = tINV, !.in_mem = TRUE] \in Location
    BY <2>1, Registers, LocationFields
  <2>3. \A r \in TReg : w.reg_alloc_info[r] \in Ids \cup {None}
    BY <1>3 DEF Unit
  <2>4. \A id \in Ids : w.mv[id] \in BOOLEAN
    BY <1>3 DEF Unit
  <2>5. alloc \in [TReg -> Ids \cup {None}] /\ loc \in [Ids -> Location]
    BY <2>1, <2>2, <2>3
  <2>6. mv \in [Ids -> BOOLEAN]
    BY <2>4
  <2> QED BY <2>5, <2>6
<1>5. \A r \in TReg : alloc[r] = IF u.reg_alloc_info[r] \in NonTemps THEN None ELSE u.reg_alloc_info[r]
  BY <1>3
<1>6. \A id \in Ids : loc[id].reg = IF id \in ids THEN tINV ELSE u.loc[id].reg
  BY <1>3 DEF Unit, Location
<1>7. ids = {u.reg_alloc_info[r] : r \in {q \in TReg : u.reg_alloc_info[q] \in NonTemps}}
  OBVIOUS
<1> HIDE DEF alloc, loc, mv, ids
<1>8. v \in Unit /\ v.reg_alloc_info = alloc /\ v.loc = loc
  BY <1>3, <1>4 DEF Unit
<1> HIDE DEF v
<1>9. Agree(v)
  <2>1. Agree(u)
    BY DEF Consistent
  <2>2. \A id \in Args : id \notin ids /\ v.loc[id].reg = NumTempRegs + id
    BY <2>1, <1>6, <1>7, <1>8, Registers DEF Agree
  <2>3. ASSUME NEW r \in TReg, NEW id \in Ids
        PROVE  v.reg_alloc_info[r] = id <=> v.loc[id].reg = r
    <3>1. id \in ids => u.reg_alloc_info[r] # id \/ u.reg_alloc_info[r] \in NonTemps
      BY <1>7
    <3>2. (id \in Ids /\ u.reg_alloc_info[r] = id /\ id \in NonTemps) => id \in ids
      BY <1>7
    <3> QED BY <2>1, <1>5, <1>6, <1>8, <3>1, <3>2, <1>7, Registers DEF Agree
  <2> QED BY <2>2, <2>3 DEF Agree
<1> QED BY <1>1, <1>8, <1>9 DEF Consistent

LEMMA ResetConsistent ==
    ASSUME NEW u, Consistent(u)
    PROVE  Consistent(Reset(u))
<1>1. PlainLine(u) \in Unit
  BY PlainLineConsistent DEF Consistent
<1>2. PlainLine(u).fault \in Fault /\ u.stale \in SUBSET Ids
  BY <1>1 DEF Consistent, Unit
<1>3. InitUnit \in Unit
  BY InitConsistent DEF Consistent
<1>4. SameTables(InitUnit, Reset(u))
  BY <1>2, <1>3 DEF Reset, SameTables, Unit
<1> QED BY <1>4, InitConsistent, SameTablesConsistent

(***************************************************************************)
(* The end of a handler.                                                   *)
(***************************************************************************)

\* Forgetting a dead temporary that has no register changes no register.
LEMMA ForgetConsistent ==
    ASSUME NEW u, Consistent(u), NEW f
    PROVE  Consistent(Forget(u, f))
<1> DEFINE loc == [id \in Ids |-> IF id \in Temps /\ f[id] = "dead" /\ u.loc[id].reg = tINV
                                  THEN InitLocation(id) ELSE u.loc[id]]
           rv  == [r \in Reg |-> IF u.fault # "none" \/ (r \in TReg /\ u.rv[r] # u.reg_alloc_info[r])
                                 THEN None ELSE u.rv[r]]
           mv  == [id \in Ids |-> u.fault = "none" /\ u.mv[id]]
           st  == IF u.fault = "none" THEN u.stale ELSE {}
           v   == Forget(u, f)
<1>1. v = [u EXCEPT !.loc = loc, !.rv = rv, !.mv = mv, !.stale = st]
  BY DEF Forget
<1>2. u \in Unit
  BY DEF Consistent
<1>3. \A id \in Temps : InitLocation(id) \in Location /\ InitLocation(id).reg = tINV
  BY IdAssumption, Registers DEF InitLocation, Location
<1>4. loc \in [Ids -> Location]
  BY <1>2, <1>3 DEF Unit
<1>5. rv \in [Reg -> Ids \cup {None}] /\ mv \in [Ids -> BOOLEAN] /\ st \in SUBSET Ids
  BY <1>2 DEF Unit
<1>6. \A id \in Ids : loc[id].reg = u.loc[id].reg
  BY <1>3
<1> HIDE DEF loc, rv, mv, st, v
<1>7. v \in Unit /\ v.loc = loc /\ v.reg_alloc_info = u.reg_alloc_info
  BY <1>1, <1>2, <1>4, <1>5 DEF Unit
<1> QED BY <1>6, <1>7, FlagsConsistent DEF v

\* The inductive invariant.
IInv == TypeOK /\ TablesAgree

LEMMA OutcomeIInv ==
    ASSUME IInv, NEW u, Consistent(u), NEW f \in Promises, Outcome(u, f)
    PROVE  IInv'
<1>1. Consistent(unit) /\ fate \in Promises
  BY ContractTypes DEF IInv, TypeOK, TablesAgree, Consistent
<1>2. CASE unit' = Forget(u, f) /\ fate' = f
  <2>1. Consistent(unit')
    BY <1>2, ForgetConsistent
  <2> QED BY <1>2, <2>1 DEF IInv, TypeOK, TablesAgree, Consistent, Promises,
                            Use!ContractTypeOK, Use!Names, Use!Flags, NonTemps, Ids
<1>3. CASE unit' = [unit EXCEPT !.panic = u.panic, !.fault = u.fault] /\ UNCHANGED fate
  <2>1. unit \in Unit /\ u.panic \in Panic /\ u.fault \in Fault
    BY <1>1 DEF Consistent, Unit
  <2>2. SameTables(unit, unit')
    BY <1>3, <2>1 DEF SameTables, Unit
  <2>3. Consistent(unit')
    BY <1>1, <2>2, SameTablesConsistent
  <2> QED BY <1>1, <1>3, <2>3 DEF IInv, TypeOK, TablesAgree, Consistent, Promises,
                                  Use!ContractTypeOK, Use!Names, Use!Flags, NonTemps, Ids
<1> QED BY <1>2, <1>3 DEF Outcome

LEMMA InitIInv == Init => IInv
BY InitConsistent, ContractTypes DEF Init, IInv, TypeOK, TablesAgree, Consistent

\* No handler leaves a unit of the wrong type or tables that disagree.
LEMMA NextIInv == IInv /\ [Next]_vars => IInv'
<1> SUFFICES ASSUME IInv, [Next]_vars PROVE IInv'
  OBVIOUS
<1>1. Consistent(unit) /\ fate \in Promises
  BY ContractTypes DEF IInv, TypeOK, TablesAgree, Consistent
<1> USE ContractTypes
<1>2. ASSUME NEW a1 \in Ids, NEW a2 \in Ids, NEW res \in Ids, NEW f1 \in Use!Flags,
             NEW f2 \in Use!Flags, NEW fr \in Use!Flags, Binary(a1, f1, a2, f2, res, fr)
      PROVE  IInv'
  BY <1>1, <1>2, BinaryConsistent, OutcomeIInv DEF Binary
<1>3. ASSUME NEW a \in Ids, NEW res \in Ids, NEW fa \in Use!Flags, NEW fr \in Use!Flags,
             NEW li \in BOOLEAN, Immediate(a, fa, li, res, fr)
      PROVE  IInv'
  BY <1>1, <1>3, ImmediateConsistent, OutcomeIInv DEF Immediate
<1>4. ASSUME NEW op \in UnaryOp, NEW a \in Ids, NEW res \in Ids, NEW fa \in Use!Flags,
             NEW fr \in Use!Flags, Unary(op, a, fa, res, fr)
      PROVE  IInv'
  BY <1>1, <1>4, UnaryConsistent, OutcomeIInv DEF Unary
<1>5. ASSUME NEW p \in Ids, NEW a \in Ids, NEW fp \in Use!Flags, NEW fa \in Use!Flags,
             StoreIndirect(p, fp, a, fa)
      PROVE  IInv'
  BY <1>1, <1>5, StoreIndirectConsistent, OutcomeIInv DEF StoreIndirect
<1>6. ASSUME NEW p \in Ids, NEW fp \in Use!Flags, StoreIndirectImm(p, fp)
      PROVE  IInv'
  BY <1>1, <1>6, StoreIndirectImmConsistent, OutcomeIInv DEF StoreIndirectImm
<1>7. ASSUME NEW res \in Ids, NEW fr \in Use!Flags, LoadImmediate(res, fr)
      PROVE  IInv'
  BY <1>1, <1>7, LoadImmediateConsistent, OutcomeIInv DEF LoadImmediate
<1>8. ASSUME NEW res \in Ids, NEW fr \in Use!Flags, ConstantPair(res, fr)
      PROVE  IInv'
  BY <1>1, <1>8, ConstantPairConsistent, OutcomeIInv DEF ConstantPair
<1>9. ASSUME NEW n \in Ids, CondGoto(n)
      PROVE  IInv'
  BY <1>1, <1>9, CondGotoConsistent, OutcomeIInv DEF CondGoto
<1>10. ASSUME NEW n \in Ids, ReturnValue(n)
       PROVE  IInv'
  BY <1>1, <1>10, ReturnConsistent, OutcomeIInv DEF ReturnValue
<1>11. ASSUME NEW line \in BOOLEAN, PlainEnd(line)
       PROVE  IInv'
  BY <1>1, <1>11, PlainLineConsistent, OutcomeIInv DEF PlainEnd
<1>12. CASE SaveLive
  BY <1>1, <1>12, SaveLiveConsistent, OutcomeIInv DEF SaveLive
<1>13. CASE EndFunction
  BY <1>1, <1>13, ResetConsistent, OutcomeIInv DEF EndFunction
<1>14. CASE UNCHANGED vars
  BY <1>14 DEF vars, IInv, TypeOK, TablesAgree, Use!ContractTypeOK
<1> QED BY <1>2, <1>3, <1>4, <1>5, <1>6, <1>7, <1>8, <1>9, <1>10, <1>11, <1>12, <1>13, <1>14
        DEF Next, Handler

\* The unit and the promises keep their types: no handler reads the tables
\* outside their domains or leaves a register number that does not exist.
THEOREM TypeCorrect == Spec => []TypeOK
<1>1. IInv => TypeOK
  BY DEF IInv
<1> QED BY <1>1, InitIInv, NextIInv, PTL DEF Spec

\* reg_alloc_info and memory_locations describe one assignment of registers
\* after every instruction, whatever the numbers of registers and ids: freed
\* registers, hand-overs, spills and save_live update both tables alike.
THEOREM TablesAlwaysAgree == Spec => []TablesAgree
<1>1. IInv => TablesAgree
  BY DEF IInv
<1> QED BY <1>1, InitIInv, NextIInv, PTL DEF Spec

(***************************************************************************)
(* What the generated code computes with.                                  *)
(***************************************************************************)
Known == {"none", "empty_reg", "store"}

\* Where the tables look for id, the machine has it; only variables rest in memory.
Kept(u, id) ==
    IF u.loc[id].reg # tINV THEN u.rv[u.loc[id].reg] = id
    ELSE id \in Vars /\ u.loc[id].in_mem = TRUE /\ u.mv[id] = TRUE

\* The machine against the promises f, which hold from here on: a value that is
\* still needed is kept, and a variable that is not going to be read next in
\* this block is in its home and in no register.
Coherent(u, f) ==
    /\ u.stale = {}
    /\ \A id \in Vars : u.loc[id].home = TRUE /\ u.loc[id].known = TRUE
    /\ \A id \in Ids \ Args : u.loc[id].reg \in TReg \cup {tINV}
    /\ \A id \in Ids : f[id] # "dead" => Kept(u, id)
    /\ \A id \in Vars : (f[id] # "dead" /\ u.loc[id].in_mem = TRUE) => u.mv[id] = TRUE
    /\ \A id \in Vars : f[id] \in {"in", "out"} => u.loc[id].reg = tINV /\ u.loc[id].in_mem = TRUE

Good(u) == u.fault = "none" /\ u.panic = "none"

\* Up to the first fault: the compiler goes on with coherent tables or has
\* stopped at an assertion that is known to fail.
Settled(u, f) ==
    u.fault = "none" => u.panic \in Known /\ (u.panic = "none" => Coherent(u, f))

\* A fault, and an assertion that failed, are for good.
Later(u, v) ==
    /\ v.fault = "none" => u.fault = "none"
    /\ u.panic # "none" => v.panic = u.panic

\* A handler that began with unit o has come to u.
Ready(o, u, f) == Consistent(u) /\ Later(o, u) /\ Settled(u, f)

LEMMA LaterTransitive ==
    ASSUME NEW u, NEW v, NEW w, Later(u, v), Later(v, w) PROVE Later(u, w)
BY DEF Later

LEMMA ReadyGood ==
    ASSUME NEW o, NEW u, NEW f, Ready(o, u, f), Good(u) PROVE Coherent(u, f)
BY DEF Ready, Settled, Good

\* How a step of a handler is shown to keep coherence.
LEMMA ReadyStep ==
    ASSUME NEW o, NEW u, NEW v, NEW f, NEW h, Ready(o, u, f), Consistent(v), Later(u, v),
           (Good(u) /\ Coherent(u, f) /\ v.fault = "none")
              => v.panic \in Known /\ (v.panic = "none" => Coherent(v, h))
    PROVE  Ready(o, v, h) /\ (Good(v) => Good(u))
<1>1. Later(o, v)
  BY LaterTransitive DEF Ready
<1>2. Good(v) => Good(u)
  BY DEF Later, Good
<1>3. Settled(v, h)
  BY DEF Settled, Later, Good, Ready
<1>4. QED BY <1>1, <1>2, <1>3 DEF Ready

\* h asks for no more than f.
Milder(f, h) ==
    \A id \in Ids : \/ h[id] = f[id] \/ h[id] = "dead"
                    \/ h[id] = "next" /\ f[id] # "dead"
                    \/ h[id] = "in" /\ f[id] = "out"

LEMMA CoherentMilder ==
    ASSUME NEW u, NEW f, NEW h, Coherent(u, f), Milder(f, h) PROVE Coherent(u, h)
BY Registers DEF Coherent, Milder

LEMMA ReadyMilder ==
    ASSUME NEW o, NEW u, NEW f, NEW h, Ready(o, u, f), Milder(f, h) PROVE Ready(o, u, h)
BY CoherentMilder DEF Ready, Settled

(***************************************************************************)
(* Faults and failed assertions stay.                                      *)
(***************************************************************************)

\* v differs from u in neither.
LEMMA LaterSame ==
    ASSUME NEW u, NEW v, v.fault = u.fault, v.panic = u.panic PROVE Later(u, v)
BY DEF Later

LEMMA AbortLater ==
    ASSUME NEW u \in Unit, NEW why \in Panic
    PROVE  /\ Later(u, Abort(u, why)) /\ Abort(u, why).fault = u.fault
           /\ u.panic = "none" => Abort(u, why).panic = why
BY DEF Abort, Later, Unit

LEMMA WithFaultLater ==
    ASSUME NEW u \in Unit, NEW what \in Fault, what # "none"
    PROVE  Later(u, WithFault(u, what)) /\ WithFault(u, what).fault # "none"
           /\ WithFault(u, what).panic = u.panic
BY DEF WithFault, Later, Unit

LEMMA SwallowLater ==
    ASSUME NEW u \in Unit PROVE Later(u, Swallow(u)) /\ Swallow(u).fault # "none"
<1>1. Later(u, WithFault(u, "lost")) /\ WithFault(u, "lost").fault # "none" /\ WithFault(u, "lost") \in Unit
  BY WithFaultLater, WithFaultSame DEF Fault, SameTables
<1> DEFINE w == WithFault(u, "lost")
<1> HIDE DEF w
<1>2. Later(u, w) /\ w.fault # "none" /\ w \in Unit
  BY <1>1 DEF w
<1>3. Swallow(u) = [w EXCEPT !.mark = FALSE]
  BY DEF Swallow, w
<1>4. [w EXCEPT !.mark = FALSE].fault = w.fault /\ [w EXCEPT !.mark = FALSE].panic = w.panic
  BY <1>2 DEF Unit
<1>5. QED BY <1>2, <1>3, <1>4 DEF Later

LEMMA PlainLineLater ==
    ASSUME NEW u \in Unit
    PROVE  Later(u, PlainLine(u)) /\ (PlainLine(u).fault = "none" => PlainLine(u) = u)
BY SwallowLater, LaterSame DEF PlainLine

LEMMA MarkLater ==
    ASSUME NEW u \in Unit, NEW fr
    PROVE  /\ Later(u, MarkIf(u, fr)) /\ MarkIf(u, fr).fault = u.fault /\ MarkIf(u, fr).panic = u.panic
           /\ MarkIf(u, fr).loc = u.loc /\ MarkIf(u, fr).rv = u.rv /\ MarkIf(u, fr).mv = u.mv
           /\ MarkIf(u, fr).stale = u.stale /\ MarkIf(u, fr).reg_alloc_info = u.reg_alloc_info
BY DEF MarkIf, Mark, Later, Unit

\* What a store and a load do to the machine.
Stored(u, r, id) == [u EXCEPT !.mv[id] = (u.rv[r] = id)]
Loaded(u, r, id) == [u EXCEPT !.rv[r] = IF u.mv[id] THEN id ELSE None]
\* What get_reg records about a temporary it has not met before.
Named(u, id) == [u EXCEPT !.loc[id] = [@ EXCEPT !.in_mem = TRUE, !.known = TRUE]]

LEMMA IssueStoreLater ==
    ASSUME NEW u \in Unit, NEW r \in Reg, NEW id \in Ids
    PROVE  /\ Later(u, IssueStore(u, r, id))
           /\ IssueStore(u, r, id).fault = "none" =>
                \/ IssueStore(u, r, id).panic # "none" /\ (u.panic = "none" => IssueStore(u, r, id).panic = "store")
                \/ IssueStore(u, r, id) = Stored(u, r, id)
<1> DEFINE v == Stored(u, r, id)
<1>1. v.fault = u.fault /\ v.panic = u.panic
  BY DEF Unit, Stored
<1>2. Later(u, v)
  BY <1>1, LaterSame
<1> HIDE DEF v
<1>3. IssueStore(u, r, id) \in {Abort(u, "store"), Swallow(u), v}
  BY DEF IssueStore, v, Stored
<1>4. Later(u, Abort(u, "store")) /\ (u.panic = "none" => Abort(u, "store").panic = "store")
  BY AbortLater DEF Panic
<1>5. Abort(u, "store").panic # "none"
  BY <1>4 DEF Later
<1>6. Later(u, Swallow(u)) /\ Swallow(u).fault # "none"
  BY SwallowLater
<1>7. QED BY <1>2, <1>3, <1>4, <1>5, <1>6 DEF v

LEMMA IssueLoadLater ==
    ASSUME NEW u \in Unit, NEW r \in Reg, NEW id \in Ids
    PROVE  /\ Later(u, IssueLoad(u, r, id))
           /\ (IssueLoad(u, r, id).fault = "none" /\ u.loc[id].home = TRUE)
                => IssueLoad(u, r, id) = Loaded(u, r, id)
<1> DEFINE v == Loaded(u, r, id)
<1>1. v.fault = u.fault /\ v.panic = u.panic
  BY DEF Unit, Loaded
<1>2. Later(u, v)
  BY <1>1, LaterSame
<1> HIDE DEF v
<1>4. Later(u, Abort(u, "load"))
  BY AbortLater DEF Panic
<1>6. Later(u, Swallow(u)) /\ Swallow(u).fault # "none"
  BY SwallowLater
<1>7. IssueLoad(u, r, id) \in {Abort(u, "load"), Swallow(u), v}
  BY DEF IssueLoad, v, Loaded
<1>8. (IssueLoad(u, r, id).fault = "none" /\ u.loc[id].home = TRUE) => IssueLoad(u, r, id) = v
  BY <1>6 DEF IssueLoad, v, Loaded
<1>9. QED BY <1>2, <1>4, <1>6, <1>7, <1>8 DEF v

(***************************************************************************)
(* get_reg.                                                                *)
(***************************************************************************)

\* v differs from u at most in start_issue.
SameBut(u, v) ==
    /\ v.reg_alloc_info = u.reg_alloc_info /\ v.loc = u.loc /\ v.rv = u.rv /\ v.mv = u.mv
    /\ v.stale = u.stale /\ v.mark = u.mark /\ v.fault = u.fault /\ v.panic = u.panic

\* A register is chosen in one of three ways: an empty one, by a spill, which is
\* a fault, or none, which stops the compiler.
LEMMA ChooseRegIs ==
    ASSUME NEW u, Consistent(u), NEW dest, dest \in TReg => u.reg_alloc_info[dest] = None
    PROVE  LET c == ChooseReg(u, dest)
           IN  /\ Later(u, c.u)
               /\ \/ c.r \in TReg /\ u.reg_alloc_info[c.r] = None /\ SameBut(u, c.u)
                  \/ c.r \in TReg /\ c.u.fault # "none"
                  \/ c.r = tINV /\ c.u.panic # "none" /\ (u.panic = "none" => c.u.panic = "empty_reg")
<1>1. u \in Unit /\ \A k \in TReg : Slot(u, k) \in TReg
  BY SlotType, Registers DEF Consistent
<1>2. CASE dest \in TReg
  BY <1>2, LaterSame DEF ChooseReg, SameBut
<1>3. CASE dest \notin TReg
  <2> DEFINE empty == FirstSlot(u, {None})
             temp  == FirstSlot(u, Temps)
  <2>1. ChooseReg(u, dest) = GetEmptyReg(u)
    BY <1>3 DEF ChooseReg
  <2>2. CASE empty # {}
    <3>1. PICK k : k = (CHOOSE j \in empty : TRUE) /\ k \in empty
      BY <2>2
    <3>2. k \in TReg /\ u.reg_alloc_info[Slot(u, k)] = None
      BY <3>1 DEF FirstSlot, First
    <3>3. GetEmptyReg(u) = Issue(u, k)
      BY <2>2, <3>1 DEF GetEmptyReg
    <3>4. Issue(u, k).r = Slot(u, k) /\ SameBut(u, Issue(u, k).u)
      BY <1>1 DEF Issue, SameBut, Unit
    <3>5. Later(u, Issue(u, k).u)
      BY <3>4, LaterSame DEF SameBut
    <3>6. QED BY <1>1, <2>1, <3>2, <3>3, <3>4, <3>5
  <2>3. CASE empty = {} /\ temp # {}
    <3>1. PICK k : k = (CHOOSE j \in temp : TRUE) /\ k \in temp
      BY <2>3
    <3>2. k \in TReg /\ u.reg_alloc_info[Slot(u, k)] \in Temps
      BY <3>1 DEF FirstSlot, First
    <3>3. GetEmptyReg(u) = SpillTemp(u, k)
      BY <2>3, <3>1 DEF GetEmptyReg
    <3> DEFINE r == Slot(u, k)
               t == u.reg_alloc_info[r]
               q == PlainLine(u)
               l == [reg |-> tINV, in_mem |-> TRUE, home |-> TRUE, known |-> TRUE]
               w == [q EXCEPT !.loc[t] = l, !.mv[t] = (u.rv[r] = t)]
               f == WithFault(w, "spill")
    <3>4. SpillTemp(u, k) = Issue(f, k) /\ SpillTemp(u, k).r = r
      BY <1>1, <3>2, SpillTempVacant DEF SpillTemp
    <3>5. q \in Unit /\ Later(u, q) /\ t \in Ids /\ l \in Location
      BY <1>1, <3>2, PlainLineSame, PlainLineLater, Registers DEF SameTables, Location
    <3> HIDE DEF q, t, l
    <3>6. w \in Unit /\ w.fault = q.fault /\ w.panic = q.panic
      BY <3>5 DEF Unit
    <3> HIDE DEF w
    <3>7. Later(w, f) /\ f.fault # "none" /\ f \in Unit
      BY <3>6, WithFaultLater, WithFaultSame DEF Fault, SameTables
    <3> HIDE DEF f
    <3>8. Issue(f, k).u.fault = f.fault /\ Issue(f, k).u.panic = f.panic
      BY <3>7 DEF Issue, Unit
    <3>9. Later(u, Issue(f, k).u) /\ Issue(f, k).u.fault # "none"
      BY <3>5, <3>6, <3>7, <3>8 DEF Later
    <3>10. r \in TReg
      BY <1>1, <3>2
    <3> HIDE DEF r
    <3>11. QED BY <2>1, <3>3, <3>4, <3>9, <3>10
  <2>4. CASE empty = {} /\ temp = {}
    <3>1. GetEmptyReg(u) = [u |-> Abort(u, "empty_reg"), r |-> tINV]
      BY <2>4 DEF GetEmptyReg
    <3>2. Later(u, Abort(u, "empty_reg")) /\ (u.panic = "none" => Abort(u, "empty_reg").panic = "empty_reg")
      BY <1>1, AbortLater DEF Panic
    <3>3. Abort(u, "empty_reg").panic # "none"
      BY <3>2 DEF Later
    <3>4. QED BY <2>1, <3>1, <3>2, <3>3
  <2>5. QED BY <2>2, <2>3, <2>4
<1>4. QED BY <1>2, <1>3

LEMMA AssignIs ==
    ASSUME NEW u \in Unit, NEW r \in TReg, NEW id \in Ids, NEW w, w = Assign(u, r, id)
    PROVE  /\ w.rv = u.rv /\ w.mv = u.mv /\ w.stale = u.stale /\ w.mark = u.mark
           /\ w.fault = u.fault /\ w.panic = u.panic
           /\ w.loc[id].reg = r /\ w.loc[id].in_mem = u.loc[id].in_mem
           /\ w.loc[id].home = u.loc[id].home /\ w.loc[id].known = u.loc[id].known
           /\ \A i \in Ids : i # id => w.loc[i] = u.loc[i]
           /\ \A q \in TReg : w.reg_alloc_info[q] = IF q = r THEN id ELSE u.reg_alloc_info[q]
BY DEF Assign, Unit, Location

LEMMA ClearInMem ==
    ASSUME NEW u \in Unit, NEW id \in Ids, NEW w, w = SetInMem(u, id, 0)
    PROVE  /\ w.rv = u.rv /\ w.mv = u.mv /\ w.stale = u.stale /\ w.mark = u.mark
           /\ w.fault = u.fault /\ w.panic = u.panic
           /\ w.loc[id].reg = u.loc[id].reg /\ ~w.loc[id].in_mem
           /\ w.loc[id].home = u.loc[id].home /\ w.loc[id].known = u.loc[id].known
           /\ \A i \in Ids : i # id => w.loc[i] = u.loc[i]
           /\ w.reg_alloc_info = u.reg_alloc_info
<1> DEFINE v == [u EXCEPT !.loc[id].in_mem = FALSE]
<1>1. w = v
  BY DEF SetInMem
<1>2. /\ v.rv = u.rv /\ v.mv = u.mv /\ v.stale = u.stale /\ v.mark = u.mark
      /\ v.fault = u.fault /\ v.panic = u.panic /\ v.reg_alloc_info = u.reg_alloc_info
  BY DEF Unit
<1>3. /\ v.loc[id].reg = u.loc[id].reg /\ ~v.loc[id].in_mem
      /\ v.loc[id].home = u.loc[id].home /\ v.loc[id].known = u.loc[id].known
  BY DEF Unit, Location
<1>4. \A i \in Ids : i # id => v.loc[i] = u.loc[i]
  BY DEF Unit
<1> HIDE DEF v
<1>5. QED BY <1>1, <1>2, <1>3, <1>4

LEMMA KeepInMem == \A u, id : SetInMem(u, id, 2) = u
BY DEF SetInMem

LEMMA FetchLater ==
    ASSUME NEW u \in Unit, NEW r \in Reg, NEW id \in Ids, NEW load \in BOOLEAN
    PROVE  Later(u, Fetch(u, r, id, load))
<1>1. Later(u, u)
  BY LaterSame
<1>2. Later(u, Abort(u, "load"))
  BY AbortLater DEF Panic
<1>3. QED BY <1>1, <1>2, IssueLoadLater DEF Fetch

LEMMA SetInMemLater ==
    ASSUME NEW u \in Unit, NEW id \in Ids, NEW mem_valid \in {0, 2}
    PROVE  Later(u, SetInMem(u, id, mem_valid))
<1>1. CASE mem_valid = 0
  <2>1. PICK w : w = SetInMem(u, id, 0)
    OBVIOUS
  <2>2. w.fault = u.fault /\ w.panic = u.panic
    BY <2>1, ClearInMem
  <2>3. QED BY <1>1, <2>1, <2>2, LaterSame
<1>2. CASE mem_valid = 2
  BY <1>2, KeepInMem, LaterSame
<1>3. QED BY <1>1, <1>2

\* In w, the tables of u give id the empty register g.r; g.u follows from w.
TakesReg(u, id, g, w, mem_valid, load) ==
    /\ g.r \in TReg /\ u.reg_alloc_info[g.r] = None
    /\ w.rv = u.rv /\ w.mv = u.mv /\ w.stale = u.stale /\ w.fault = u.fault /\ w.panic = u.panic
    /\ w.loc[id].reg = g.r /\ w.loc[id].in_mem = u.loc[id].in_mem
    /\ w.loc[id].home = u.loc[id].home /\ w.loc[id].known = u.loc[id].known
    /\ \A i \in Ids : i # id => w.loc[i] = u.loc[i]
    /\ u.loc[id].known => g.u = SetInMem(Fetch(w, g.r, id, load), id, mem_valid)
    /\ ~u.loc[id].known => g.u = Named(w, id)

\* An id that has no register gets an empty one, unless the compiler stops or a
\* spill goes wrong.
LEMMA GetRegParts ==
    ASSUME NEW u, Consistent(u), NEW id \in Ids, NEW mem_valid \in {0, 2}, NEW load \in BOOLEAN,
           NEW dest, dest \in TReg => u.reg_alloc_info[dest] = None, u.loc[id].reg = tINV,
           NEW g, g = GetReg(u, dest, id, mem_valid, load)
    PROVE  /\ Later(u, g.u)
           /\ (g.u.fault = "none" /\ u.panic = "none") =>
                 \/ g.u.panic = "empty_reg"
                 \/ \E w \in Unit : TakesReg(u, id, g, w, mem_valid, load)
<1> DEFINE c == ChooseReg(u, dest)
           w == Assign(c.u, c.r, id)
           f == Fetch(w, c.r, id, load)
           x == Named(w, id)
<1>1. /\ Later(u, c.u)
      /\ \/ c.r \in TReg /\ u.reg_alloc_info[c.r] = None /\ SameBut(u, c.u)
         \/ c.r \in TReg /\ c.u.fault # "none"
         \/ c.r = tINV /\ c.u.panic # "none" /\ (u.panic = "none" => c.u.panic = "empty_reg")
  BY ChooseRegIs
<1>2. /\ c.r \in TReg \cup {tINV}
      /\ c.r \in TReg => Vacant(c.u, c.r) /\ c.u.loc[id].reg = tINV
  BY ChooseRegVacant
<1>3. g = IF c.r = tINV THEN [c EXCEPT !.r = 0]
          ELSE IF u.loc[id].known THEN [u |-> SetInMem(f, id, mem_valid), r |-> c.r]
          ELSE [u |-> x, r |-> c.r]
  BY DEF GetReg, Named
<1>4. c.r = tINV => [c EXCEPT !.r = 0].u = c.u
  BY DEF ChooseReg, GetEmptyReg, Issue, SpillTemp
<1> HIDE DEF c
<1>5. CASE c.r = tINV
  <2>1. g.u = c.u /\ tINV \notin TReg
    BY <1>3, <1>4, <1>5, Registers
  <2>2. QED BY <1>1, <1>5, <2>1
<1>6. CASE c.r \in TReg
  <2>1. c.u \in Unit /\ Vacant(c.u, c.r) /\ c.r \in Reg /\ c.r # tINV
    BY <1>2, <1>6, Registers DEF Vacant
  <2>2. Consistent(w) /\ w \in Unit
    BY <1>2, <1>6, AssignConsistent DEF Consistent
  <2>3. /\ w.rv = c.u.rv /\ w.mv = c.u.mv /\ w.stale = c.u.stale
        /\ w.fault = c.u.fault /\ w.panic = c.u.panic
        /\ w.loc[id].reg = c.r /\ w.loc[id].in_mem = c.u.loc[id].in_mem
        /\ w.loc[id].home = c.u.loc[id].home /\ w.loc[id].known = c.u.loc[id].known
        /\ \A i \in Ids : i # id => w.loc[i] = c.u.loc[i]
    BY <1>6, <2>1, AssignIs
  <2> HIDE DEF w
  <2>4. Later(w, f) /\ f \in Unit
    BY <2>1, <2>2, FetchLater, FetchSame DEF SameTables
  <2> HIDE DEF f
  <2>5. Later(w, SetInMem(f, id, mem_valid))
    BY <2>4, SetInMemLater, LaterTransitive
  <2>6. x.fault = w.fault /\ x.panic = w.panic
    BY <2>2 DEF Unit, Named
  <2>7. Later(w, x)
    BY <2>6, LaterSame
  <2> HIDE DEF x
  <2>8. g.u \in {SetInMem(f, id, mem_valid), x} /\ g.r = c.r
    BY <1>3, <2>1
  <2>9. Later(w, g.u)
    BY <2>5, <2>7, <2>8
  <2>10. Later(u, w)
    BY <1>1, <2>3 DEF Later
  <2>11. Later(u, g.u) /\ (g.u.fault = "none" => c.u.fault = "none")
    BY <2>3, <2>9, <2>10 DEF Later
  <2>12. (u.loc[id].known => g.u = SetInMem(f, id, mem_valid)) /\ (~u.loc[id].known => g.u = x)
    BY <1>3, <2>1
  <2>13. g.u.fault = "none" => u.reg_alloc_info[c.r] = None /\ SameBut(u, c.u)
    BY <1>1, <2>1, <2>11
  <2>14. g.u.fault = "none" => TakesReg(u, id, g, w, mem_valid, load)
    BY <1>6, <2>3, <2>8, <2>12, <2>13 DEF TakesReg, SameBut, f, x
  <2>15. QED BY <2>2, <2>11, <2>14
<1>7. QED BY <1>2, <1>5, <1>6

\* Only the promise, or the location, of id may differ.
Others(u, v, id)  == \A i \in Ids : i # id => v.loc[i] = u.loc[i]
Changes(f, h, id) == \A i \in Ids : i # id => h[i] = f[i]

\* The tables say that r holds id, and it does.
Holds(u, id, r) == u.loc[id].reg = r /\ u.rv[r] = id

LEMMA LoadedIs ==
    ASSUME NEW u \in Unit, NEW r \in Reg, NEW id \in Ids, NEW v, v = Loaded(u, r, id), u.mv[id]
    PROVE  /\ v.loc = u.loc /\ v.mv = u.mv /\ v.stale = u.stale /\ v.panic = u.panic /\ v.fault = u.fault
           /\ v.rv[r] = id /\ \A q \in Reg : q # r => v.rv[q] = u.rv[q]
BY DEF Loaded, Unit

\* Loading into an empty register an id that rests in its home.
LEMMA LoadedCoherent ==
    ASSUME NEW u, Consistent(u), NEW f, Coherent(u, f), NEW a \in Vars, NEW h, Changes(f, h, a), h[a] = "next",
           u.loc[a].in_mem, u.mv[a], NEW r \in TReg, u.reg_alloc_info[r] = None,
           NEW v, Others(u, v, a), v.loc[a].reg = r, v.loc[a].home = u.loc[a].home, v.loc[a].known = u.loc[a].known,
           v.mv = u.mv, v.stale = u.stale, v.rv[r] = a,
           \A q \in Reg : q # r => v.rv[q] = u.rv[q]
    PROVE  Coherent(v, h)
<1>1. a \in Ids /\ r \in Reg /\ r # tINV /\ u \in Unit /\ Agree(u)
  BY Registers DEF Consistent
<1>2. \A i \in Ids : i # a => v.loc[i] = u.loc[i] /\ h[i] = f[i] /\ u.loc[i].reg # r
  BY <1>1, Registers DEF Others, Changes, Agree
<1>3. ASSUME NEW i \in Ids, h[i] # "dead" PROVE Kept(v, i)
  <2>1. CASE i = a
    BY <1>1, <2>1 DEF Kept
  <2>2. CASE i # a
    <3>1. Kept(u, i) /\ v.loc[i] = u.loc[i] /\ u.loc[i].reg # r
      BY <1>2, <1>3, <2>2 DEF Coherent
    <3>2. u.loc[i].reg # tINV => u.loc[i].reg \in Reg
      BY <1>1 DEF Unit, Location
    <3>3. QED BY <3>1, <3>2 DEF Kept
  <2>3. QED BY <2>1, <2>2
<1>4. v.stale = {}
  BY DEF Coherent
<1>5. \A id \in Vars : v.loc[id].home = TRUE /\ v.loc[id].known = TRUE
  BY <1>2, Registers DEF Coherent
<1>6. \A id \in Ids \ Args : v.loc[id].reg \in TReg \cup {tINV}
  BY <1>2 DEF Coherent
<1>7. \A id \in Vars : (h[id] # "dead" /\ v.loc[id].in_mem = TRUE) => v.mv[id] = TRUE
  BY <1>2, Registers DEF Coherent
<1>8. \A id \in Vars : h[id] \in {"in", "out"} => v.loc[id].reg = tINV /\ v.loc[id].in_mem = TRUE
  BY <1>2, Registers DEF Coherent
<1>9. QED BY <1>3, <1>4, <1>5, <1>6, <1>7, <1>8 DEF Coherent

LEMMA LoadLater ==
    ASSUME NEW u, Consistent(u), NEW a \in Ids, NEW g, g = LoadOperand(u, a)
    PROVE  Later(u, g.u) /\ Consistent(g.u) /\ g.r \in Reg /\ (u.loc[a].reg # tINV => g.u = u /\ g.r = u.loc[a].reg)
<1>1. Consistent(g.u) /\ g.r \in Reg
  BY LoadOperandConsistent
<1>2. g = GetReg(u, tINV, a, 2, TRUE)
  BY DEF LoadOperand
<1>3. CASE u.loc[a].reg # tINV
  <2>1. g.u = u /\ g.r = u.loc[a].reg
    BY <1>2, <1>3, KeepInMem DEF GetReg
  <2>2. QED BY <1>1, <2>1, LaterSame
<1>4. CASE u.loc[a].reg = tINV
  <2>1. 2 \in {0, 2} /\ TRUE \in BOOLEAN /\ (tINV \in TReg => u.reg_alloc_info[tINV] = None)
    BY Registers
  <2>2. Later(u, g.u)
    BY <1>2, <1>4, <2>1, GetRegParts
  <2>3. QED BY <1>1, <1>4, <2>2
<1>5. QED BY <1>3, <1>4

\* An operand's value is put in a register, from its home if it has none.
LEMMA LoadReady ==
    ASSUME NEW o, NEW u, NEW f, Ready(o, u, f), NEW a \in Ids, f[a] # "dead",
           NEW h, Changes(f, h, a), h[a] = "next", NEW g, g = LoadOperand(u, a)
    PROVE  /\ Ready(o, g.u, h) /\ Consistent(g.u) /\ g.r \in Reg /\ Later(u, g.u)
           /\ Good(g.u) => Holds(g.u, a, g.r) /\ Others(u, g.u, a)
           /\ u.loc[a].reg # tINV => g.u = u /\ g.r = u.loc[a].reg
<1>1. Consistent(u) /\ u \in Unit /\ Agree(u)
  BY DEF Ready, Consistent
<1>2. Later(u, g.u) /\ Consistent(g.u) /\ g.r \in Reg /\ (u.loc[a].reg # tINV => g.u = u /\ g.r = u.loc[a].reg)
  BY <1>1, LoadLater
<1>3. ASSUME Good(u), Coherent(u, f), g.u.fault = "none"
      PROVE  /\ g.u.panic \in Known
             /\ g.u.panic = "none" => Coherent(g.u, h) /\ Holds(g.u, a, g.r) /\ Others(u, g.u, a)
  <2>1. CASE u.loc[a].reg # tINV
    <3>1. Kept(u, a) /\ Milder(f, h)
      BY <1>3 DEF Coherent, Milder, Changes
    <3>2. Coherent(u, h)
      BY <1>3, <3>1, CoherentMilder
    <3>3. u.rv[u.loc[a].reg] = a
      BY <2>1, <3>1 DEF Kept
    <3>4. QED BY <1>2, <1>3, <2>1, <3>2, <3>3 DEF Good, Known, Holds, Others
  <2>2. CASE u.loc[a].reg = tINV
    <3>1. a \in Vars /\ u.loc[a].in_mem = TRUE /\ u.mv[a] = TRUE /\ u.loc[a].home = TRUE /\ u.loc[a].known = TRUE
      BY <1>3, <2>2 DEF Coherent, Kept
    <3>2. 2 \in {0, 2} /\ TRUE \in BOOLEAN /\ (tINV \in TReg => u.reg_alloc_info[tINV] = None)
      BY Registers
    <3>3. g = GetReg(u, tINV, a, 2, TRUE)
      BY DEF LoadOperand
    <3>4. g.u.panic = "empty_reg" \/ \E w \in Unit : TakesReg(u, a, g, w, 2, TRUE)
      BY <1>1, <1>3, <2>2, <3>2, <3>3, GetRegParts DEF Good
    <3>5. CASE g.u.panic = "empty_reg"
      BY <3>5 DEF Known
    <3>6. ASSUME NEW w \in Unit, TakesReg(u, a, g, w, 2, TRUE)
          PROVE  g.u.panic = "none" /\ Coherent(g.u, h) /\ Holds(g.u, a, g.r) /\ Others(u, g.u, a)
      <4>1. /\ g.r \in TReg /\ u.reg_alloc_info[g.r] = None
            /\ w.rv = u.rv /\ w.mv = u.mv /\ w.stale = u.stale /\ w.fault = u.fault /\ w.panic = u.panic
            /\ w.loc[a].reg = g.r /\ w.loc[a].in_mem = u.loc[a].in_mem
            /\ w.loc[a].home = u.loc[a].home /\ w.loc[a].known = u.loc[a].known
            /\ Others(u, w, a)
        BY <3>6 DEF TakesReg, Others
      <4>2. g.u = SetInMem(Fetch(w, g.r, a, TRUE), a, 2)
        BY <3>1, <3>6 DEF TakesReg
      <4>3. g.u = IssueLoad(w, g.r, a)
        BY <3>1, <4>1, <4>2, KeepInMem DEF Fetch
      <4>4. g.u = Loaded(w, g.r, a)
        BY <1>2, <1>3, <3>1, <4>1, <4>3, IssueLoadLater
      <4>5. /\ g.u.loc = w.loc /\ g.u.mv = w.mv /\ g.u.stale = w.stale /\ g.u.panic = w.panic
            /\ g.u.rv[g.r] = a /\ \A q \in Reg : q # g.r => g.u.rv[q] = w.rv[q]
        <5>1. w \in Unit /\ g.r \in Reg /\ a \in Ids /\ w.mv[a]
          BY <1>2, <3>1, <4>1
        <5>2. QED BY <4>4, <5>1, LoadedIs
      <4>6. Others(u, g.u, a) /\ g.u.loc[a].reg = g.r
           /\ g.u.loc[a].home = u.loc[a].home /\ g.u.loc[a].known = u.loc[a].known
        BY <3>1, <4>1, <4>5 DEF Others
      <4>7. Coherent(g.u, h)
        <5>1. g.r \in TReg /\ g.u.mv = u.mv /\ g.u.stale = u.stale
          BY <4>1, <4>5
        <5>2. g.u.rv[g.r] = a /\ \A q \in Reg : q # g.r => g.u.rv[q] = u.rv[q]
          BY <4>1, <4>5
        <5>3. u.reg_alloc_info[g.r] = None
          BY <4>1
        <5>4. QED BY <1>1, <1>3, <3>1, <4>6, <5>1, <5>2, <5>3, LoadedCoherent
      <4>8. QED BY <1>2, <1>3, <4>1, <4>5, <4>6, <4>7 DEF Good, Holds
    <3>7. QED BY <3>4, <3>5, <3>6 DEF Known
  <2>3. QED BY <2>1, <2>2
<1>4. Ready(o, g.u, h) /\ (Good(g.u) => Good(u))
  BY <1>2, <1>3, ReadyStep
<1>5. Good(g.u) => Coherent(u, f)
  BY <1>4, ReadyGood
<1>6. QED BY <1>2, <1>3, <1>4, <1>5 DEF Good

\* A value that is not needed may go anywhere.
Elsewhere(u, v, id) ==
    /\ v.rv = u.rv /\ (\A i \in Ids : i # id => v.mv[i] = u.mv[i]) /\ v.stale = u.stale /\ Others(u, v, id)
    /\ id \in Vars => v.loc[id].home = TRUE /\ v.loc[id].known = TRUE
    /\ id \notin Args => v.loc[id].reg \in TReg \cup {tINV}

LEMMA OthersCoherent ==
    ASSUME NEW u, NEW f, Coherent(u, f), NEW id \in Ids, NEW h, Changes(f, h, id), h[id] = "dead",
           NEW v, Elsewhere(u, v, id)
    PROVE  Coherent(v, h)
<1>1. v.stale = {}
  BY DEF Coherent, Elsewhere
<1>2. \A i \in Vars : v.loc[i].home = TRUE /\ v.loc[i].known = TRUE
  BY Registers DEF Coherent, Others, Elsewhere
<1>3. \A i \in Ids \ Args : v.loc[i].reg \in TReg \cup {tINV}
  BY DEF Coherent, Others, Elsewhere
<1>4. \A i \in Ids : i # id => v.loc[i] = u.loc[i] /\ h[i] = f[i] /\ v.mv[i] = u.mv[i]
  BY DEF Others, Changes, Elsewhere
<1>5. \A i \in Ids : h[i] # "dead" => Kept(v, i)
  BY <1>4 DEF Coherent, Kept, Elsewhere
<1>6. \A i \in Vars : (h[i] # "dead" /\ v.loc[i].in_mem = TRUE) => v.mv[i] = TRUE
  BY <1>4, Registers DEF Coherent
<1>7. \A i \in Vars : h[i] \in {"in", "out"} => v.loc[i].reg = tINV /\ v.loc[i].in_mem = TRUE
  BY <1>4, Registers DEF Coherent
<1>8. QED BY <1>1, <1>2, <1>3, <1>5, <1>6, <1>7 DEF Coherent

LEMMA NamedIs ==
    ASSUME NEW u \in Unit, NEW id \in Ids, NEW v, v = Named(u, id)
    PROVE  /\ v.rv = u.rv /\ v.mv = u.mv /\ v.stale = u.stale /\ v.fault = u.fault /\ v.panic = u.panic
           /\ v.loc[id].reg = u.loc[id].reg /\ \A i \in Ids : i # id => v.loc[i] = u.loc[i]
BY DEF Named, Unit, Location

LEMMA DestLater ==
    ASSUME NEW u, Consistent(u), NEW res \in Ids, NEW dest, dest \in TReg => u.reg_alloc_info[dest] = None,
           NEW g, g = DestReg(u, dest, res)
    PROVE  Later(u, g.u) /\ Consistent(g.u) /\ g.r \in Reg
<1>1. Consistent(g.u) /\ g.r \in Reg
  BY DestRegConsistent
<1>2. g = GetReg(u, dest, res, 0, FALSE) /\ u \in Unit
  BY DEF DestReg, Consistent
<1>3. 0 \in {0, 2} /\ FALSE \in BOOLEAN
  OBVIOUS
<1>4. CASE u.loc[res].reg # tINV
  <2>1. g.u = SetInMem(u, res, 0)
    BY <1>2, <1>4 DEF GetReg
  <2>2. QED BY <1>1, <1>2, <1>3, <2>1, SetInMemLater
<1>5. CASE u.loc[res].reg = tINV
  <2>1. Later(u, g.u)
    BY <1>2, <1>3, <1>5, GetRegParts
  <2>2. QED BY <1>1, <2>1
<1>6. QED BY <1>4, <1>5

\* The result gets a register; what it held is not needed, and its home is
\* known to be out of date.
LEMMA DestReady ==
    ASSUME NEW o, NEW u, NEW f, Ready(o, u, f), NEW res \in Ids,
           NEW dest, dest \in TReg => u.reg_alloc_info[dest] = None,
           NEW h, Changes(f, h, res), h[res] = "dead", NEW g, g = DestReg(u, dest, res)
    PROVE  /\ Ready(o, g.u, h) /\ Consistent(g.u) /\ g.r \in Reg /\ Later(u, g.u)
           /\ Good(g.u) => /\ g.u.loc[res].reg = g.r /\ g.u.rv = u.rv
                           /\ res \in Vars => ~g.u.loc[res].in_mem
                           /\ Others(u, g.u, res)
<1>1. Consistent(u) /\ u \in Unit /\ Agree(u)
  BY DEF Ready, Consistent
<1>2. Later(u, g.u) /\ Consistent(g.u) /\ g.r \in Reg
  BY <1>1, DestLater
<1>3. g = GetReg(u, dest, res, 0, FALSE)
  BY DEF DestReg
<1>4. ASSUME Good(u), Coherent(u, f), g.u.fault = "none"
      PROVE  \/ g.u.panic = "empty_reg"
             \/ /\ g.u.loc[res].reg = g.r /\ g.u.rv = u.rv /\ g.u.mv = u.mv /\ g.u.stale = u.stale
                /\ g.u.panic = "none"
                /\ res \in Vars => /\ ~g.u.loc[res].in_mem
                                   /\ g.u.loc[res].home = TRUE /\ g.u.loc[res].known = TRUE
                /\ res \notin Args => g.u.loc[res].reg \in TReg \cup {tINV}
                /\ Others(u, g.u, res)
  <2>1. res \in Vars => u.loc[res].home = TRUE /\ u.loc[res].known = TRUE
    BY <1>4 DEF Coherent
  <2>2. CASE u.loc[res].reg # tINV
    <3>1. g.u = SetInMem(u, res, 0) /\ g.r = u.loc[res].reg
      BY <1>3, <2>2 DEF GetReg
    <3>2. /\ g.u.rv = u.rv /\ g.u.mv = u.mv /\ g.u.stale = u.stale /\ g.u.panic = u.panic
          /\ g.u.loc[res].reg = u.loc[res].reg /\ ~g.u.loc[res].in_mem
          /\ g.u.loc[res].home = u.loc[res].home /\ g.u.loc[res].known = u.loc[res].known
          /\ \A i \in Ids : i # res => g.u.loc[i] = u.loc[i]
      BY <1>1, <3>1, ClearInMem
    <3>3. res \notin Args => g.u.loc[res].reg \in TReg \cup {tINV}
      BY <1>4, <3>2 DEF Coherent
    <3>4. QED BY <1>4, <2>1, <3>1, <3>2, <3>3 DEF Good, Others
  <2>3. CASE u.loc[res].reg = tINV
    <3>1. 0 \in {0, 2} /\ FALSE \in BOOLEAN
      OBVIOUS
    <3>2. g.u.panic = "empty_reg" \/ \E w \in Unit : TakesReg(u, res, g, w, 0, FALSE)
      BY <1>1, <1>3, <1>4, <2>3, <3>1, GetRegParts DEF Good
    <3>3. ASSUME NEW w \in Unit, TakesReg(u, res, g, w, 0, FALSE)
          PROVE  /\ g.u.loc[res].reg = g.r /\ g.u.rv = u.rv /\ g.u.mv = u.mv /\ g.u.stale = u.stale
                 /\ g.u.panic = "none"
                 /\ res \in Vars => /\ ~g.u.loc[res].in_mem
                                    /\ g.u.loc[res].home = TRUE /\ g.u.loc[res].known = TRUE
                 /\ g.r \in TReg
                 /\ Others(u, g.u, res)
      <4>1. /\ g.r \in TReg
            /\ w.rv = u.rv /\ w.mv = u.mv /\ w.stale = u.stale /\ w.panic = "none"
            /\ w.loc[res].reg = g.r /\ w.loc[res].home = u.loc[res].home /\ w.loc[res].known = u.loc[res].known
            /\ \A i \in Ids : i # res => w.loc[i] = u.loc[i]
        BY <1>4, <3>3 DEF TakesReg, Good
      <4>2. CASE u.loc[res].known
        <5>1. g.u = SetInMem(w, res, 0)
          BY <3>3, <4>2 DEF TakesReg, Fetch
        <5>2. /\ g.u.rv = w.rv /\ g.u.mv = w.mv /\ g.u.stale = w.stale /\ g.u.panic = w.panic
              /\ g.u.loc[res].reg = w.loc[res].reg /\ ~g.u.loc[res].in_mem
              /\ g.u.loc[res].home = w.loc[res].home /\ g.u.loc[res].known = w.loc[res].known
              /\ \A i \in Ids : i # res => g.u.loc[i] = w.loc[i]
          BY <5>1, ClearInMem
        <5>3. QED BY <2>1, <4>1, <5>2 DEF Others
      <4>3. CASE ~u.loc[res].known
        <5>1. res \notin Vars
          BY <2>1, <4>3
        <5>2. g.u = Named(w, res)
          BY <3>3, <4>3 DEF TakesReg
        <5>3. /\ g.u.rv = w.rv /\ g.u.mv = w.mv /\ g.u.stale = w.stale /\ g.u.panic = w.panic
              /\ g.u.loc[res].reg = w.loc[res].reg /\ \A i \in Ids : i # res => g.u.loc[i] = w.loc[i]
          BY <5>2, NamedIs
        <5>4. QED BY <4>1, <5>1, <5>3 DEF Others
      <4>4. QED BY <4>2, <4>3
    <3>4. QED BY <3>2, <3>3
  <2>4. QED BY <2>2, <2>3
<1>5. ASSUME Good(u), Coherent(u, f), g.u.fault = "none", g.u.panic = "none" PROVE Coherent(g.u, h)
  <2>1. Elsewhere(u, g.u, res)
    BY <1>4, <1>5 DEF Elsewhere
  <2>2. QED BY <1>5, <2>1, OthersCoherent
<1>6. ASSUME Good(u), Coherent(u, f), g.u.fault = "none"
      PROVE  g.u.panic \in Known /\ (g.u.panic = "none" => Coherent(g.u, h))
  BY <1>4, <1>5, <1>6 DEF Known
<1>7. Ready(o, g.u, h) /\ (Good(g.u) => Good(u))
  BY <1>2, <1>6, ReadyStep
<1>8. Good(g.u) => Coherent(u, f)
  BY <1>7, ReadyGood
<1>9. QED BY <1>2, <1>4, <1>7, <1>8 DEF Good

(***************************************************************************)
(* Emitted lines.                                                          *)
(***************************************************************************)

\* Two ids that are needed do not share a register.
LEMMA OneReg ==
    ASSUME NEW u, Consistent(u), NEW f, Coherent(u, f), NEW i \in Ids, NEW j \in Ids,
           u.loc[i].reg = u.loc[j].reg, u.loc[i].reg # tINV
    PROVE  i = j
<1>1. Agree(u)
  BY DEF Consistent
<1>2. CASE i \in Args /\ j \in Args
  <2>1. u.loc[i].reg = NumTempRegs + i /\ u.loc[j].reg = NumTempRegs + j
    BY <1>1, <1>2 DEF Agree
  <2>2. i \in Int /\ j \in Int /\ NumTempRegs \in Int
    BY <1>2, RegAssumption
  <2>3. NumTempRegs + i = NumTempRegs + j
    BY <2>1
  <2>4. QED BY <2>2, <2>3
<1>3. CASE i \notin Args /\ j \notin Args
  <2>1. u.loc[i].reg \in TReg
    BY <1>3 DEF Coherent
  <2>2. u.reg_alloc_info[u.loc[i].reg] = i /\ u.reg_alloc_info[u.loc[i].reg] = j
    BY <1>1, <2>1 DEF Agree
  <2>3. QED BY <2>2
<1>4. CASE i \in Args /\ j \notin Args
  BY <1>1, <1>4, Registers DEF Agree, Coherent
<1>5. CASE i \notin Args /\ j \in Args
  BY <1>1, <1>5, Registers DEF Agree, Coherent
<1>6. QED BY <1>2, <1>3, <1>4, <1>5

\* Defining res in its register makes the other copies of its old value stale,
\* and disturbs no other id.
LEMMA DefinedCoherent ==
    ASSUME NEW u, Consistent(u), NEW f, Coherent(u, f), NEW res \in Ids, NEW r \in Reg, f[res] = "dead",
           u.loc[res].reg = r, res \in Vars => ~u.loc[res].in_mem,
           NEW v, v.loc = u.loc, v.stale = {}, \A q \in Reg : (q # r /\ u.rv[q] # res) => v.rv[q] = u.rv[q],
           \A i \in Ids : i # res => v.mv[i] = u.mv[i],
           NEW h, Changes(f, h, res), h[res] = "dead" \/ (h[res] = "next" /\ v.rv[r] = res)
    PROVE  Coherent(v, h)
<1>1. r # tINV /\ u \in Unit
  BY Registers DEF Consistent
<1>2. ASSUME NEW i \in Ids, h[i] # "dead" PROVE Kept(v, i)
  <2>1. CASE i = res
    BY <1>1, <1>2, <2>1 DEF Kept
  <2>2. CASE i # res
    <3>1. Kept(u, i) /\ v.loc[i] = u.loc[i] /\ v.mv[i] = u.mv[i]
      BY <1>2, <2>2 DEF Coherent, Changes
    <3>2. u.loc[i].reg # tINV => u.loc[i].reg \in Reg /\ u.loc[i].reg # r /\ u.rv[u.loc[i].reg] = i
      BY <1>1, <2>2, <3>1, OneReg DEF Unit, Location, Kept
    <3>3. u.loc[i].reg # tINV => v.rv[u.loc[i].reg] = i
      BY <2>2, <3>2
    <3>4. QED BY <3>1, <3>3 DEF Kept
  <2>3. QED BY <2>1, <2>2
<1>3. \A id \in Vars : v.loc[id].home = TRUE /\ v.loc[id].known = TRUE
  BY DEF Coherent
<1>4. \A id \in Ids \ Args : v.loc[id].reg \in TReg \cup {tINV}
  BY DEF Coherent
<1>5. \A id \in Vars : (h[id] # "dead" /\ v.loc[id].in_mem = TRUE) => v.mv[id] = TRUE
  BY Registers DEF Coherent, Changes
<1>6. \A id \in Vars : h[id] \in {"in", "out"} => v.loc[id].reg = tINV /\ v.loc[id].in_mem = TRUE
  BY Registers DEF Coherent, Changes
<1>7. QED BY <1>2, <1>3, <1>4, <1>5, <1>6 DEF Coherent

LEMMA RedefineIs ==
    ASSUME NEW u \in Unit, NEW r \in Reg, NEW id \in Ids, NEW val, NEW v, v = Redefine(u, r, id, val)
    PROVE  /\ v.loc = u.loc /\ v.stale = u.stale /\ v.fault = u.fault /\ v.panic = u.panic
           /\ v.rv[r] = val /\ \A q \in Reg : (q # r /\ u.rv[q] # id) => v.rv[q] = u.rv[q]
           /\ \A i \in Ids : i # id => v.mv[i] = u.mv[i]
BY DEF Redefine, Unit

\* The line of an instruction whose result carries the flag fr.
ResultLine(u, reads, r, res, fr) == DefLine(u, reads, r, res, fr = "dead")

\* Unless that is a fault, a pending mark deletes a line whose result is dead.
LEMMA DefLineIs ==
    ASSUME NEW u \in Unit, NEW reads \in SUBSET (Ids \X Reg), NEW r \in Reg, NEW res \in Ids,
           NEW fr, NEW v, v = ResultLine(u, reads, r, res, fr)
    PROVE  /\ Later(u, v)
           /\ v.fault = "none" =>
                 /\ v.loc = u.loc /\ v.panic = u.panic
                 /\ v.stale = u.stale \/ v.stale = u.stale \cup StaleReads(u, reads)
                 /\ fr = "dead" \/ v.rv[r] = res
                 /\ \A q \in Reg : (q # r /\ u.rv[q] # res) => v.rv[q] = u.rv[q]
                 /\ \A i \in Ids : i # res => v.mv[i] = u.mv[i]
<1> DEFINE m == [u EXCEPT !.mark = FALSE]
           w == Redefine(m, r, res, None)
           s == [u EXCEPT !.stale = @ \cup StaleReads(u, reads)]
           d == Redefine(s, r, res, res)
<1>1. m \in Unit /\ m.loc = u.loc /\ m.stale = u.stale /\ m.fault = u.fault /\ m.panic = u.panic
      /\ m.rv = u.rv /\ m.mv = u.mv
  BY DEF Unit
<1>2. StaleReads(u, reads) \in SUBSET Ids
  BY StaleReadsType
<1>3. s \in Unit /\ s.loc = u.loc /\ s.stale = u.stale \cup StaleReads(u, reads) /\ s.fault = u.fault
      /\ s.panic = u.panic /\ s.rv = u.rv /\ s.mv = u.mv
  BY <1>2 DEF Unit
<1>4. v = IF u.mark THEN IF fr = "dead" THEN w ELSE WithFault(w, "lost") ELSE d
  BY DEF DefLine, ResultLine
<1> HIDE DEF m, s
<1>5. SameTables(m, w)
  BY <1>1, RedefineSame
<1>6. PICK x : x = w
  OBVIOUS
<1>7. PICK y : y = d
  OBVIOUS
<1>8. /\ x.loc = u.loc /\ x.stale = u.stale /\ x.fault = u.fault /\ x.panic = u.panic
      /\ \A q \in Reg : (q # r /\ u.rv[q] # res) => x.rv[q] = u.rv[q]
      /\ \A i \in Ids : i # res => x.mv[i] = u.mv[i]
  BY <1>1, <1>6, RedefineIs
<1>9. /\ y.loc = u.loc /\ y.stale = u.stale \cup StaleReads(u, reads) /\ y.fault = u.fault /\ y.panic = u.panic
      /\ y.rv[r] = res /\ \A q \in Reg : (q # r /\ u.rv[q] # res) => y.rv[q] = u.rv[q]
      /\ \A i \in Ids : i # res => y.mv[i] = u.mv[i]
  BY <1>3, <1>7, RedefineIs
<1>10. x \in Unit
  BY <1>5, <1>6 DEF SameTables
<1>11. v = IF u.mark THEN IF fr = "dead" THEN x ELSE WithFault(x, "lost") ELSE y
  BY <1>4, <1>6, <1>7
<1>12. Later(x, WithFault(x, "lost")) /\ WithFault(x, "lost").fault # "none"
  BY <1>10, WithFaultLater DEF Fault
<1>13. CASE u.mark /\ fr = "dead"
  BY <1>8, <1>11, <1>13 DEF Later
<1>14. CASE u.mark /\ fr # "dead"
  <2>1. v = WithFault(x, "lost")
    BY <1>11, <1>14
  <2>2. QED BY <1>8, <1>12, <2>1 DEF Later
<1>15. CASE ~u.mark
  BY <1>9, <1>11, <1>15 DEF Later
<1>16. QED BY <1>13, <1>14, <1>15

ReadsFound(u, reads) == \A p \in reads : u.rv[p[2]] = p[1]

LEMMA NoneStale ==
    ASSUME NEW u, NEW reads, ReadsFound(u, reads) PROVE StaleReads(u, reads) = {}
BY DEF ReadsFound, StaleReads

\* The line that defines a result in the register it has got.
LEMMA DefReady ==
    ASSUME NEW o, NEW u, NEW f, Ready(o, u, f), NEW reads \in SUBSET (Ids \X Reg), NEW r \in Reg,
           NEW res \in Ids, NEW fr, f[res] = "dead",
           Good(u) => /\ ReadsFound(u, reads) /\ u.loc[res].reg = r
                      /\ res \in Vars => ~u.loc[res].in_mem,
           NEW h, Changes(f, h, res), h[res] \in {"dead", "next"}, fr = "dead" => h[res] = "dead",
           NEW v, v = ResultLine(u, reads, r, res, fr)
    PROVE  Ready(o, v, h) /\ Consistent(v) /\ Later(u, v) /\ (Good(v) => v.loc = u.loc)
<1>1. Consistent(u) /\ u \in Unit
  BY DEF Ready, Consistent
<1>2. /\ Later(u, v)
      /\ v.fault = "none" =>
            /\ v.loc = u.loc /\ v.panic = u.panic
            /\ v.stale = u.stale \/ v.stale = u.stale \cup StaleReads(u, reads)
            /\ fr = "dead" \/ v.rv[r] = res
            /\ \A q \in Reg : (q # r /\ u.rv[q] # res) => v.rv[q] = u.rv[q]
            /\ \A i \in Ids : i # res => v.mv[i] = u.mv[i]
  BY <1>1, DefLineIs, SMTT(30)
<1>3. Consistent(v)
  BY <1>1, DefLineConsistent DEF ResultLine
<1>4. ASSUME Good(u), Coherent(u, f), v.fault = "none" PROVE v.panic = "none" /\ Coherent(v, h)
  <2>1. v.stale = {}
    BY <1>2, <1>4, NoneStale DEF Coherent
  <2>2. QED BY <1>1, <1>2, <1>4, <2>1, DefinedCoherent DEF Good
<1>5. Ready(o, v, h)
  BY <1>2, <1>3, <1>4, ReadyStep DEF Known
<1>6. QED BY <1>2, <1>3, <1>5 DEF Good

LEMMA ReadLineIs ==
    ASSUME NEW u \in Unit, NEW reads \in SUBSET (Ids \X Reg), NEW v, v = ReadLine(u, reads)
    PROVE  /\ Later(u, v)
           /\ v.fault = "none" => /\ v.loc = u.loc /\ v.rv = u.rv /\ v.mv = u.mv /\ v.panic = u.panic
                                  /\ v.stale = u.stale \cup StaleReads(u, reads)
<1> DEFINE s == [u EXCEPT !.stale = @ \cup StaleReads(u, reads)]
<1>1. StaleReads(u, reads) \in SUBSET Ids
  BY StaleReadsType
<1>2. s.loc = u.loc /\ s.stale = u.stale \cup StaleReads(u, reads) /\ s.fault = u.fault
      /\ s.panic = u.panic /\ s.rv = u.rv /\ s.mv = u.mv
  BY <1>1 DEF Unit
<1>3. v = IF u.mark THEN Swallow(u) ELSE s
  BY DEF ReadLine
<1> HIDE DEF s
<1>4. QED BY <1>2, <1>3, SwallowLater, LaterSame

\* v has the machine and the tables of u.
LEMMA CoherentSame ==
    ASSUME NEW u, NEW f, Coherent(u, f), NEW v, v.loc = u.loc, v.rv = u.rv, v.mv = u.mv, v.stale = {}
    PROVE  Coherent(v, f)
BY DEF Coherent, Kept

\* A line that only reads.
LEMMA ReadReady ==
    ASSUME NEW o, NEW u, NEW f, Ready(o, u, f), NEW reads \in SUBSET (Ids \X Reg),
           Good(u) => ReadsFound(u, reads), NEW v, v = ReadLine(u, reads)
    PROVE  /\ Ready(o, v, f) /\ Consistent(v) /\ Later(u, v)
           /\ Good(v) => v.loc = u.loc /\ v.rv = u.rv
<1>1. Consistent(u) /\ u \in Unit
  BY DEF Ready, Consistent
<1>2. /\ Later(u, v)
      /\ v.fault = "none" => /\ v.loc = u.loc /\ v.rv = u.rv /\ v.mv = u.mv /\ v.panic = u.panic
                             /\ v.stale = u.stale \cup StaleReads(u, reads)
  BY <1>1, ReadLineIs
<1>3. Consistent(v)
  BY <1>1, ReadLineConsistent
<1>4. ASSUME Good(u), Coherent(u, f), v.fault = "none" PROVE v.panic = "none" /\ Coherent(v, f)
  <2>1. v.stale = {}
    BY <1>2, <1>4, NoneStale DEF Coherent
  <2>2. QED BY <1>2, <1>4, <2>1, CoherentSame DEF Good
<1>5. Ready(o, v, f)
  BY <1>2, <1>3, <1>4, ReadyStep DEF Known
<1>6. QED BY <1>2, <1>3, <1>5 DEF Good

\* A line of its own, and a mark.
LEMMA PlainReady ==
    ASSUME NEW o, NEW u, NEW f, Ready(o, u, f), NEW v, v = PlainLine(u)
    PROVE  Ready(o, v, f) /\ Consistent(v) /\ Later(u, v) /\ (Good(v) => v = u)
<1>1. Consistent(u) /\ u \in Unit
  BY DEF Ready, Consistent
<1>2. Later(u, v) /\ (v.fault = "none" => v = u)
  BY <1>1, PlainLineLater
<1>3. Consistent(v)
  BY <1>1, PlainLineConsistent
<1>4. ASSUME Good(u), Coherent(u, f), v.fault = "none" PROVE v.panic = "none" /\ Coherent(v, f)
  BY <1>2, <1>4 DEF Good
<1>5. Ready(o, v, f)
  BY <1>2, <1>3, <1>4, ReadyStep DEF Known
<1>6. QED BY <1>2, <1>3, <1>5 DEF Good

LEMMA MarkReady ==
    ASSUME NEW o, NEW u, NEW f, Ready(o, u, f), NEW fr, NEW v, v = MarkIf(u, fr)
    PROVE  /\ Ready(o, v, f) /\ Consistent(v) /\ Later(u, v)
           /\ v.loc = u.loc /\ v.rv = u.rv /\ v.fault = u.fault /\ v.panic = u.panic
<1>1. Consistent(u) /\ u \in Unit
  BY DEF Ready, Consistent
<1>2. /\ Later(u, v) /\ v.fault = u.fault /\ v.panic = u.panic
      /\ v.loc = u.loc /\ v.rv = u.rv /\ v.mv = u.mv /\ v.stale = u.stale
  BY <1>1, MarkLater
<1>3. Consistent(v)
  BY <1>1, MarkIfConsistent
<1>4. ASSUME Good(u), Coherent(u, f), v.fault = "none" PROVE v.panic = "none" /\ Coherent(v, f)
  <2>1. v.stale = {}
    BY <1>2, <1>4 DEF Coherent
  <2>2. QED BY <1>2, <1>4, <2>1, CoherentSame DEF Good
<1>5. Ready(o, v, f)
  BY <1>2, <1>3, <1>4, ReadyStep DEF Known
<1>6. QED BY <1>2, <1>3, <1>5

(***************************************************************************)
(* Registers that are given back.                                          *)
(***************************************************************************)

LEMMA FreeIs ==
    ASSUME NEW u \in Unit, NEW r \in TReg, NEW a \in Ids, u.reg_alloc_info[r] = a, NEW v, v = FreeReg(u, r)
    PROVE  /\ v.rv = u.rv /\ v.mv = u.mv /\ v.stale = u.stale /\ v.fault = u.fault /\ v.panic = u.panic
           /\ v.loc[a].reg = tINV /\ v.loc[a].home = u.loc[a].home /\ v.loc[a].known = u.loc[a].known
           /\ Others(u, v, a)
<1>1. a # None
  BY Registers
<1>2. v = [u EXCEPT !.loc[a].reg = tINV, !.reg_alloc_info[r] = None]
  BY <1>1 DEF FreeReg
<1>3. QED BY <1>2 DEF Unit, Location, Others

LEMMA FreeLater ==
    ASSUME NEW u \in Unit, NEW r PROVE Later(u, FreeReg(u, r))
<1>1. CASE r \notin TReg
  BY <1>1, LaterSame DEF FreeReg
<1>2. CASE r \in TReg /\ u.reg_alloc_info[r] = None
  BY <1>2, AbortLater DEF FreeReg, Panic
<1>3. CASE r \in TReg /\ u.reg_alloc_info[r] # None
  <2>1. u.reg_alloc_info[r] \in Ids
    BY <1>3 DEF Unit
  <2>2. PICK v : v = FreeReg(u, r)
    OBVIOUS
  <2>3. v.fault = u.fault /\ v.panic = u.panic
    BY <1>3, <2>1, <2>2, FreeIs
  <2>4. QED BY <2>2, <2>3, LaterSame
<1>4. QED BY <1>1, <1>2, <1>3

LEMMA StoredIs ==
    ASSUME NEW u \in Unit, NEW r \in Reg, NEW id \in Ids, NEW v, v = Stored(u, r, id)
    PROVE  /\ v.loc = u.loc /\ v.rv = u.rv /\ v.stale = u.stale /\ v.panic = u.panic /\ v.fault = u.fault
           /\ u.rv[r] = id => v.mv[id]
           /\ \A i \in Ids : i # id => v.mv[i] = u.mv[i]
BY DEF Stored, Unit

\* Vacated, with the home up to date.
Rested(w, r, id) == [w EXCEPT !.loc[id] = [@ EXCEPT !.reg = tINV, !.in_mem = TRUE], !.reg_alloc_info[r] = None]

LEMMA RestedIs ==
    ASSUME NEW w \in Unit, NEW r \in TReg, NEW id \in Ids, NEW v, v = Rested(w, r, id)
    PROVE  /\ v.rv = w.rv /\ v.mv = w.mv /\ v.stale = w.stale /\ v.fault = w.fault /\ v.panic = w.panic
           /\ v.loc[id].reg = tINV /\ v.loc[id].in_mem
           /\ v.loc[id].home = w.loc[id].home /\ v.loc[id].known = w.loc[id].known
           /\ Others(w, v, id)
BY DEF Rested, Unit, Location, Others

LEMMA StoreFreeIs ==
    ASSUME NEW u \in Unit, NEW r \in TReg, NEW a \in Ids, u.reg_alloc_info[r] = a,
           NEW v, v = StoreAndFreeReg(u, r)
    PROVE  /\ Later(u, v)
           /\ v.fault = "none" =>
                \/ v.panic # "none" /\ (u.panic = "none" => v.panic = "store")
                \/ /\ v.rv = u.rv /\ v.stale = u.stale /\ v.panic = u.panic
                   /\ v.loc[a].reg = tINV /\ v.loc[a].in_mem
                   /\ v.loc[a].home = u.loc[a].home /\ v.loc[a].known = u.loc[a].known
                   /\ Others(u, v, a)
                   /\ \A i \in Ids : i # a => v.mv[i] = u.mv[i]
                   /\ u.loc[a].in_mem => v.mv[a] = u.mv[a]
                   /\ (~u.loc[a].in_mem /\ u.rv[r] = a) => v.mv[a]
<1>1. a # None /\ r \in Reg
  BY Registers
<1>2. PICK w : w = IF u.loc[a].in_mem THEN u ELSE IssueStore(u, r, a)
  OBVIOUS
<1>3. v = Rested(w, r, a)
  BY <1>1, <1>2 DEF StoreAndFreeReg, Rested
<1>4. w \in Unit
  BY <1>1, <1>2, IssueStoreSame DEF SameTables
<1>5. /\ v.rv = w.rv /\ v.mv = w.mv /\ v.stale = w.stale /\ v.fault = w.fault /\ v.panic = w.panic
      /\ v.loc[a].reg = tINV /\ v.loc[a].in_mem
      /\ v.loc[a].home = w.loc[a].home /\ v.loc[a].known = w.loc[a].known
      /\ Others(w, v, a)
  BY <1>3, <1>4, RestedIs
<1>6. CASE u.loc[a].in_mem
  BY <1>2, <1>5, <1>6, LaterSame
<1>7. CASE ~u.loc[a].in_mem
  <2>1. w = IssueStore(u, r, a)
    BY <1>2, <1>7
  <2>2. /\ Later(u, w)
        /\ w.fault = "none" => \/ w.panic # "none" /\ (u.panic = "none" => w.panic = "store")
                               \/ w = Stored(u, r, a)
    BY <1>1, <2>1, IssueStoreLater
  <2>3. Later(u, v)
    BY <1>5, <2>2 DEF Later
  <2>4. CASE w = Stored(u, r, a)
    <3>1. /\ w.loc = u.loc /\ w.rv = u.rv /\ w.stale = u.stale /\ w.panic = u.panic
          /\ u.rv[r] = a => w.mv[a]
          /\ \A i \in Ids : i # a => w.mv[i] = u.mv[i]
      BY <1>1, <2>4, StoredIs
    <3>2. QED BY <1>5, <1>7, <2>3, <3>1 DEF Others
  <2>5. QED BY <1>5, <2>2, <2>3, <2>4
<1>8. QED BY <1>6, <1>7

LEMMA StoreFreeLater ==
    ASSUME NEW u \in Unit, NEW r PROVE Later(u, StoreAndFreeReg(u, r))
<1>1. CASE r \notin TReg
  BY <1>1, LaterSame DEF StoreAndFreeReg
<1>2. CASE r \in TReg /\ u.reg_alloc_info[r] = None
  BY <1>2, AbortLater DEF StoreAndFreeReg, Panic
<1>3. CASE r \in TReg /\ u.reg_alloc_info[r] # None
  <2>1. u.reg_alloc_info[r] \in Ids
    BY <1>3 DEF Unit
  <2>2. QED BY <1>3, <2>1, StoreFreeIs
<1>4. QED BY <1>1, <1>2, <1>3

\* The home of a is up to date, so that no register need hold it.
Rests(u, v, a) ==
    /\ v.rv = u.rv /\ v.stale = u.stale /\ Others(u, v, a) /\ \A i \in Ids : i # a => v.mv[i] = u.mv[i]
    /\ v.loc[a].reg = tINV /\ v.loc[a].in_mem = TRUE /\ v.mv[a] = TRUE
    /\ v.loc[a].home = u.loc[a].home /\ v.loc[a].known = u.loc[a].known

LEMMA RestedCoherent ==
    ASSUME NEW u, NEW f, Coherent(u, f), NEW a \in Vars, NEW h, Changes(f, h, a),
           NEW v, Rests(u, v, a)
    PROVE  Coherent(v, h)
<1>1. /\ \A i \in Ids : i # a => v.loc[i] = u.loc[i] /\ h[i] = f[i] /\ v.mv[i] = u.mv[i]
      /\ v.loc[a].reg = tINV /\ v.loc[a].in_mem = TRUE /\ v.mv[a] = TRUE
      /\ v.loc[a].home = u.loc[a].home /\ v.loc[a].known = u.loc[a].known
  BY DEF Others, Changes, Rests
<1>2. \A id \in Ids : h[id] # "dead" => Kept(v, id)
  BY <1>1 DEF Coherent, Kept, Rests
<1>3. v.stale = {}
  BY DEF Coherent, Rests
<1>4. \A id \in Vars : v.loc[id].home = TRUE /\ v.loc[id].known = TRUE
  BY <1>1, Registers DEF Coherent
<1>5. \A id \in Ids \ Args : v.loc[id].reg \in TReg \cup {tINV}
  BY <1>1 DEF Coherent
<1>6. \A id \in Vars : (h[id] # "dead" /\ v.loc[id].in_mem = TRUE) => v.mv[id] = TRUE
  BY <1>1, Registers DEF Coherent
<1>7. \A id \in Vars : h[id] \in {"in", "out"} => v.loc[id].reg = tINV /\ v.loc[id].in_mem = TRUE
  BY <1>1, Registers DEF Coherent
<1>8. QED BY <1>2, <1>3, <1>4, <1>5, <1>6, <1>7 DEF Coherent

\* A parameter rests in its own register.
LEMMA ParameterCoherent ==
    ASSUME NEW u, NEW f, Coherent(u, f), NEW a \in Ids, a \notin Vars, f[a] # "dead", NEW h, Changes(f, h, a)
    PROVE  Coherent(u, h)
BY Registers DEF Coherent, Changes

LEMMA FreeReady ==
    ASSUME NEW o, NEW u, NEW f, Ready(o, u, f), NEW a \in Ids, NEW r, Good(u) => u.loc[a].reg = r,
           NEW h, Changes(f, h, a), h[a] = "dead", NEW v, v = FreeReg(u, r)
    PROVE  Ready(o, v, h) /\ Consistent(v) /\ Later(u, v) /\ (Good(v) => v.rv = u.rv /\ Others(u, v, a))
<1>1. Consistent(u) /\ u \in Unit /\ Agree(u)
  BY DEF Ready, Consistent
<1>2. Later(u, v)
  BY <1>1, FreeLater
<1>3. Consistent(v)
  BY <1>1, FreeRegConsistent
<1>4. ASSUME Good(u), Coherent(u, f), v.fault = "none"
      PROVE  v.panic = "none" /\ Coherent(v, h) /\ v.rv = u.rv /\ Others(u, v, a)
  <2>1. u.loc[a].reg = r
    BY <1>4
  <2>2. CASE r \in TReg
    <3>1. u.reg_alloc_info[r] = a
      BY <1>1, <2>1, <2>2 DEF Agree
    <3>2. /\ v.rv = u.rv /\ v.mv = u.mv /\ v.stale = u.stale /\ v.fault = u.fault /\ v.panic = u.panic
          /\ v.loc[a].reg = tINV /\ v.loc[a].home = u.loc[a].home /\ v.loc[a].known = u.loc[a].known
          /\ Others(u, v, a)
      BY <1>1, <2>2, <3>1, FreeIs
    <3>3. a \in Vars => v.loc[a].home = TRUE /\ v.loc[a].known = TRUE
      BY <1>4, <3>2 DEF Coherent
    <3>4. \A i \in Ids : i # a => v.mv[i] = u.mv[i]
      BY <3>2
    <3>5. a \notin Args => v.loc[a].reg \in TReg \cup {tINV}
      BY <3>2
    <3>6. Elsewhere(u, v, a)
      BY <3>2, <3>3, <3>4, <3>5 DEF Elsewhere
    <3>7. Coherent(v, h)
      BY <1>4, <3>6, OthersCoherent
    <3>8. QED BY <1>4, <3>2, <3>7 DEF Good
  <2>3. CASE r \notin TReg
    <3>1. v = u /\ Milder(f, h)
      BY <2>3 DEF FreeReg, Milder, Changes
    <3>2. QED BY <1>4, <3>1, CoherentMilder DEF Good, Others
  <2>4. QED BY <2>2, <2>3
<1>5. Ready(o, v, h) /\ (Good(v) => Good(u))
  BY <1>2, <1>3, <1>4, ReadyStep DEF Known
<1>6. Good(v) => Coherent(u, f)
  BY <1>5, ReadyGood
<1>7. QED BY <1>2, <1>3, <1>4, <1>5, <1>6 DEF Good

\* Only a variable or a parameter is promised to outlive the block.
LEMMA StoreFreeReady ==
    ASSUME NEW o, NEW u, NEW f, Ready(o, u, f), NEW a \in Ids, NEW r, Good(u) => u.loc[a].reg = r,
           f[a] = "next", NEW h, Changes(f, h, a), a \in Temps => h[a] = "dead",
           NEW v, v = StoreAndFreeReg(u, r)
    PROVE  Ready(o, v, h) /\ Consistent(v) /\ Later(u, v) /\ (Good(v) => v.rv = u.rv /\ Others(u, v, a))
<1>1. Consistent(u) /\ u \in Unit /\ Agree(u)
  BY DEF Ready, Consistent
<1>2. Later(u, v)
  BY <1>1, StoreFreeLater
<1>3. Consistent(v)
  BY <1>1, StoreAndFreeRegConsistent
<1>4. ASSUME Good(u), Coherent(u, f), v.fault = "none"
      PROVE  \/ v.panic = "store"
             \/ v.panic = "none" /\ Coherent(v, h) /\ v.rv = u.rv /\ Others(u, v, a)
  <2>1. u.loc[a].reg = r /\ Kept(u, a)
    BY <1>4 DEF Coherent
  <2>2. CASE r \in TReg
    <3>1. u.reg_alloc_info[r] = a /\ a \notin Args /\ r # tINV
      BY <1>1, <2>1, <2>2, Registers DEF Agree
    <3>2. u.rv[r] = a
      BY <2>1, <3>1 DEF Kept
    <3>3. CASE v.panic = "store"
      BY <3>3
    <3>4. CASE v.panic # "store"
      <4>1. /\ v.rv = u.rv /\ v.stale = u.stale /\ v.panic = u.panic
            /\ v.loc[a].reg = tINV /\ v.loc[a].in_mem
            /\ v.loc[a].home = u.loc[a].home /\ v.loc[a].known = u.loc[a].known
            /\ Others(u, v, a)
            /\ \A i \in Ids : i # a => v.mv[i] = u.mv[i]
            /\ u.loc[a].in_mem => v.mv[a] = u.mv[a]
            /\ (~u.loc[a].in_mem /\ u.rv[r] = a) => v.mv[a]
        BY <1>1, <1>4, <2>2, <3>1, <3>4, StoreFreeIs DEF Good
      <4>2. v.loc[a].in_mem = TRUE /\ v.mv[a] \in BOOLEAN /\ u.loc[a].in_mem \in BOOLEAN /\ u.mv[a] \in BOOLEAN
        BY <1>1, <1>3, <4>1 DEF Consistent, Unit, Location
      <4>3. CASE a \in Vars
        <5>1. u.loc[a].in_mem = TRUE => u.mv[a] = TRUE
          BY <1>4, <4>3 DEF Coherent
        <5>2. v.mv[a] = TRUE
          BY <3>2, <4>1, <4>2, <5>1
        <5>3. Coherent(v, h)
          <6>1. Rests(u, v, a)
            BY <4>1, <4>2, <5>2 DEF Rests
          <6>2. QED BY <1>4, <4>3, <6>1, RestedCoherent
        <5>4. QED BY <1>4, <4>1, <5>3 DEF Good
      <4>4. CASE a \notin Vars
        <5>1. h[a] = "dead"
          BY <3>1, <4>4 DEF Ids
        <5>2. a \notin Args => v.loc[a].reg \in TReg \cup {tINV}
          BY <4>1
        <5>3. Coherent(v, h)
          <6>1. Elsewhere(u, v, a)
            BY <4>1, <4>4, <5>2 DEF Elsewhere
          <6>2. QED BY <1>4, <5>1, <6>1, OthersCoherent
        <5>4. QED BY <1>4, <4>1, <5>3 DEF Good
      <4>5. QED BY <4>3, <4>4
    <3>5. QED BY <3>3, <3>4
  <2>3. CASE r \notin TReg
    <3>1. v = u
      BY <2>3 DEF StoreAndFreeReg
    <3>2. CASE a \in Vars
      <4>1. r = tINV
        BY <1>4, <2>1, <2>3, <3>2, Registers, IdAssumption DEF Coherent
      <4>2. u.loc[a].in_mem = TRUE /\ u.mv[a] = TRUE /\ u.loc[a].reg = tINV
        BY <2>1, <4>1 DEF Kept
      <4>3. Coherent(v, h)
        <5>1. Rests(u, v, a)
          BY <1>1, <1>4, <3>1, <3>2, <4>2 DEF Others, Rests
        <5>2. QED BY <1>4, <3>2, <5>1, RestedCoherent
      <4>4. QED BY <1>4, <3>1, <4>3 DEF Good, Others
    <3>3. CASE a \notin Vars
      <4>1. Coherent(u, h)
        BY <1>4, <3>3, ParameterCoherent
      <4>2. QED BY <1>4, <3>1, <4>1 DEF Good, Others
    <3>4. QED BY <3>2, <3>3
  <2>4. QED BY <2>2, <2>3
<1>5. ASSUME Good(u), Coherent(u, f), v.fault = "none"
      PROVE  v.panic \in Known /\ (v.panic = "none" => Coherent(v, h))
  BY <1>4, <1>5 DEF Known
<1>6. Ready(o, v, h) /\ (Good(v) => Good(u))
  BY <1>2, <1>3, <1>5, ReadyStep
<1>7. Good(v) => Coherent(u, f)
  BY <1>6, ReadyGood
<1>8. QED BY <1>2, <1>3, <1>4, <1>6, <1>7 DEF Good

\* An operand after its read: freed, stored and freed, or kept.
LEMMA ReleaseReady ==
    ASSUME NEW o, NEW u, NEW f, Ready(o, u, f), NEW a \in Ids, NEW r, Good(u) => u.loc[a].reg = r,
           NEW flag \in {"next", "out", "dead"}, flag # "dead" => f[a] = "next",
           NEW h, Changes(f, h, a), h[a] = flag \/ (flag = "out" /\ h[a] = "dead"),
           (a \in Temps /\ flag = "out") => h[a] = "dead",
           NEW v, v = Release(u, r, flag)
    PROVE  /\ Ready(o, v, h) /\ Consistent(v) /\ Later(u, v)
           /\ Good(v) => v.rv = u.rv /\ Others(u, v, a)
           /\ flag = "next" => v = u
           /\ (r \in TReg /\ flag # "next") => v.reg_alloc_info[r] = None
           /\ \A q \in TReg : u.reg_alloc_info[q] = None => v.reg_alloc_info[q] = None
<1>1. Consistent(u)
  BY DEF Ready
<1>2. /\ (r \in TReg /\ flag # "next") => v.reg_alloc_info[r] = None
      /\ \A q \in TReg : u.reg_alloc_info[q] = None => v.reg_alloc_info[q] = None
  BY <1>1, ReleaseConsistent, ReleaseKeepsEmpty
<1>3. CASE flag = "dead"
  <2>1. v = FreeReg(u, r) /\ h[a] = "dead"
    BY <1>3 DEF Release
  <2>2. QED BY <1>2, <1>3, <2>1, FreeReady
<1>4. CASE flag = "out"
  <2>1. v = StoreAndFreeReg(u, r) /\ (a \in Temps => h[a] = "dead") /\ f[a] = "next"
    BY <1>4 DEF Release
  <2>2. QED BY <1>2, <1>4, <2>1, StoreFreeReady
<1>5. CASE flag = "next"
  <2>1. v = u /\ Milder(f, h)
    BY <1>5 DEF Release, Milder, Changes
  <2>2. QED BY <1>1, <1>2, <1>5, <2>1, ReadyMilder, LaterSame DEF Others
<1>6. QED BY <1>3, <1>4, <1>5

\* A result after its line: a dead one keeps its register.
LEMMA SettleReady ==
    ASSUME NEW o, NEW u, NEW f, Ready(o, u, f), NEW a \in Ids, NEW r, Good(u) => u.loc[a].reg = r,
           NEW fr \in {"next", "out", "dead"}, fr # "dead" => f[a] = "next", a \in Temps => fr # "out",
           NEW h, Changes(f, h, a), h[a] = fr, NEW v, v = Settle(u, r, fr)
    PROVE  Ready(o, v, h) /\ Later(u, v)
<1>1. CASE fr = "out"
  <2>1. v = StoreAndFreeReg(u, r) /\ (a \in Temps => h[a] = "dead") /\ f[a] = "next"
    BY <1>1 DEF Settle
  <2>2. QED BY <2>1, StoreFreeReady
<1>2. CASE fr # "out"
  <2>1. v = u /\ Milder(f, h)
    BY <1>2 DEF Settle, Milder, Changes
  <2>2. QED BY <2>1, ReadyMilder, LaterSame
<1>3. QED BY <1>1, <1>2

LEMMA PromiseIs ==
    ASSUME NEW f \in Promises, NEW n \in Ids, NEW flag \in Use!Flags
    PROVE  /\ Use!Promise(f, n, flag) \in Promises /\ Use!Promise(f, n, flag)[n] = flag
           /\ Changes(f, Use!Promise(f, n, flag), n)
BY DEF Use!Promise, Use!Flags, Promises, Changes

LEMMA PromiseCanBe ==
    ASSUME NEW f \in Promises, NEW n \in Ids, NEW flag \in Use!Flags
    PROVE  \E h \in Promises : h[n] = flag /\ Changes(f, h, n)
BY PromiseIs

LEMMA FlagsAre == "next" \in Use!Flags /\ "out" \in Use!Flags /\ "dead" \in Use!Flags
BY DEF Use!Flags

\* What the contract lets an instruction ask, in terms of the promises.
LEMMA MayIs ==
    ASSUME NEW f \in Promises, NEW n \in Ids, NEW flag \in Use!Flags
    PROVE  /\ MayRead(f, n, flag) => f[n] \in {"in", "next"} /\ (n \in Temps => flag # "out")
           /\ MayWrite(f, n, flag) => f[n] \in {"in", "dead"} /\ (n \in Temps => flag # "out")
           /\ flag \in {"next", "out", "dead"}
BY IdAssumption DEF MayRead, MayWrite, Use!CanRead, Use!CanWrite, Use!FlagsFor, Use!Flags, NonTemps

LEMMA GoodLater == ASSUME NEW u, NEW v, Later(u, v), Good(v) PROVE Good(u)
BY DEF Later, Good

(***************************************************************************)
(* The handlers.                                                           *)
(***************************************************************************)

\* What a line reads stays where it is while operands are released and the
\* result gets its register.
LEMMA FoundSame ==
    ASSUME NEW u, NEW v, NEW reads, ReadsFound(u, reads), v.rv = u.rv PROVE ReadsFound(v, reads)
BY DEF ReadsFound

LEMMA BinaryReady ==
    ASSUME NEW o, NEW u, NEW f \in Promises, Ready(o, u, f), NEW a1 \in Ids, NEW a2 \in Ids, NEW res \in Ids,
           NEW f1 \in Use!Flags, NEW f2 \in Use!Flags, NEW fr \in Use!Flags,
           NEW g2, g2 = Use!Promise(f, a2, f2), NEW g1, g1 = Use!Promise(g2, a1, f1),
           MayRead(f, a2, f2), MayRead(g2, a1, f1), MayWrite(g1, res, fr),
           NEW h, h = Use!Promise(g1, res, fr)
    PROVE  Ready(o, BinaryUnit(u, a1, f1, a2, f2, res, fr), h)
<1>1. /\ f1 \in {"next", "out", "dead"} /\ f2 \in {"next", "out", "dead"} /\ fr \in {"next", "out", "dead"}
      /\ f[a2] \in {"in", "next"} /\ (a2 \in Temps => f2 # "out")
  BY MayIs
<1>2. g2 \in Promises /\ g2[a2] = f2 /\ Changes(f, g2, a2)
  BY PromiseIs
<1>3. g1 \in Promises /\ g1[a1] = f1 /\ Changes(g2, g1, a1)
  BY <1>2, PromiseIs
<1>4. g2[a1] \in {"in", "next"} /\ (a1 \in Temps => f1 # "out") /\ (res \in Temps => fr # "out")
  BY <1>2, <1>3, MayIs
<1>5. h[res] = fr /\ Changes(g1, h, res)
  BY <1>3, PromiseIs
<1>6. f[a1] # "dead" /\ (a1 = a2 => f2 = "next")
  BY <1>1, <1>2, <1>4 DEF Changes
<1>7. PICK p1 : p1 \in Promises /\ p1[a1] = "next" /\ Changes(f, p1, a1)
  BY FlagsAre, PromiseCanBe
<1>8. PICK p2 : p2 \in Promises /\ p2[a2] = "next" /\ Changes(p1, p2, a2)
  BY <1>7, FlagsAre, PromiseCanBe
<1>9. PICK p3 : p3 \in Promises /\ p3[a2] = f2 /\ Changes(p2, p3, a2)
  BY <1>1, <1>8, FlagsAre, PromiseCanBe
<1>10. PICK p4 : p4 \in Promises /\ p4[a1] = f1 /\ Changes(p3, p4, a1)
  BY <1>1, <1>9, FlagsAre, PromiseCanBe
<1>11. PICK p5 : p5 \in Promises /\ p5[res] = "dead" /\ Changes(p4, p5, res)
  BY <1>10, FlagsAre, PromiseCanBe
<1>12. PICK p6 : /\ p6 \in Promises /\ p6[res] \in {"dead", "next"} /\ (fr = "dead" <=> p6[res] = "dead")
                 /\ Changes(p5, p6, res)
  BY <1>11, FlagsAre, PromiseCanBe
<1>13. PICK m : m = MarkIf(u, fr)
  OBVIOUS
<1>14. PICK s1 : s1 = LoadOperand(m, a1)
  OBVIOUS
<1>15. PICK s2 : s2 = LoadOperand(s1.u, a2)
  OBVIOUS
<1>16. PICK w2 : w2 = Release(s2.u, s2.r, f2)
  OBVIOUS
<1>17. PICK w1 : w1 = Release(w2, s1.r, f1)
  OBVIOUS
<1>18. PICK dest : dest = HandOver(f1, s1.r, HandOver(f2, s2.r, tINV))
  OBVIOUS
<1>19. PICK d : d = DestReg(w1, dest, res)
  OBVIOUS
<1>20. PICK rd : rd = {<<a1, s1.r>>, <<a2, s2.r>>}
  OBVIOUS
<1>21. PICK line : line = ResultLine(d.u, rd, d.r, res, fr)
  OBVIOUS
<1>22. BinaryUnit(u, a1, f1, a2, f2, res, fr) = Settle(line, d.r, fr)
  BY <1>13, <1>14, <1>15, <1>16, <1>17, <1>18, <1>19, <1>20, <1>21 DEF BinaryUnit, ResultLine
<1>23. Ready(o, m, f)
  BY <1>13, MarkReady
<1>24. /\ Ready(o, s1.u, p1) /\ s1.r \in Reg
       /\ Good(s1.u) => Holds(s1.u, a1, s1.r)
  BY <1>6, <1>7, <1>14, <1>23, LoadReady
<1>25. p1[a2] # "dead"
  BY <1>1, <1>7 DEF Changes
<1>26. /\ Ready(o, s2.u, p2) /\ Consistent(s2.u) /\ s2.r \in Reg /\ Later(s1.u, s2.u)
       /\ Good(s2.u) => Holds(s2.u, a2, s2.r) /\ Others(s1.u, s2.u, a2)
       /\ s1.u.loc[a2].reg # tINV => s2.u = s1.u /\ s2.r = s1.u.loc[a2].reg
  BY <1>8, <1>15, <1>24, <1>25, LoadReady
<1>27. Good(s2.u) => Holds(s2.u, a1, s1.r)
  <2>1. SUFFICES ASSUME Good(s2.u) PROVE Holds(s2.u, a1, s1.r)
    OBVIOUS
  <2>2. Good(s1.u) /\ Holds(s1.u, a1, s1.r) /\ s1.r # tINV
    BY <1>24, <1>26, <2>1, GoodLater, Registers
  <2>3. CASE a1 = a2
    BY <1>26, <2>2, <2>3 DEF Holds
  <2>4. CASE a1 # a2
    <3>1. s2.u.loc[a1].reg = s1.r
      BY <1>26, <2>1, <2>2, <2>4 DEF Holds, Others
    <3>2. p2[a1] = "next"
      BY <1>7, <1>8, <2>4 DEF Changes
    <3>3. Kept(s2.u, a1)
      BY <1>26, <2>1, <3>2, ReadyGood DEF Coherent
    <3>4. QED BY <2>2, <3>1, <3>3 DEF Kept, Holds
  <2>5. QED BY <2>3, <2>4
<1>28. rd \in SUBSET (Ids \X Reg) /\ (Good(s2.u) => ReadsFound(s2.u, rd))
  BY <1>20, <1>24, <1>26, <1>27 DEF ReadsFound, Holds
<1>29. /\ Ready(o, w2, p3) /\ Later(s2.u, w2)
       /\ Good(w2) => w2.rv = s2.u.rv /\ Others(s2.u, w2, a2)
       /\ f2 = "next" => w2 = s2.u
       /\ (s2.r \in TReg /\ f2 # "next") => w2.reg_alloc_info[s2.r] = None
  <2>1. Good(s2.u) => s2.u.loc[a2].reg = s2.r
    BY <1>26 DEF Holds
  <2>2. QED BY <1>1, <1>8, <1>9, <1>16, <1>26, <2>1, ReleaseReady
<1>30. Good(w2) => w2.loc[a1].reg = s1.r
  BY <1>6, <1>27, <1>29, GoodLater DEF Holds, Others
<1>31. p3[a1] = "next"
  BY <1>6, <1>7, <1>8, <1>9 DEF Changes
<1>32. /\ Ready(o, w1, p4) /\ Consistent(w1) /\ Later(w2, w1)
       /\ Good(w1) => w1.rv = w2.rv
       /\ (s1.r \in TReg /\ f1 # "next") => w1.reg_alloc_info[s1.r] = None
       /\ \A q \in TReg : w2.reg_alloc_info[q] = None => w1.reg_alloc_info[q] = None
  BY <1>1, <1>4, <1>10, <1>17, <1>29, <1>30, <1>31, ReleaseReady
<1>33. dest \in TReg => w1.reg_alloc_info[dest] = None
  BY <1>18, <1>29, <1>32, Registers DEF HandOver
<1>34. /\ Ready(o, d.u, p5) /\ d.r \in Reg /\ Later(w1, d.u)
       /\ Good(d.u) => /\ d.u.loc[res].reg = d.r /\ d.u.rv = w1.rv
                       /\ res \in Vars => ~d.u.loc[res].in_mem
  BY <1>11, <1>19, <1>32, <1>33, DestReady
<1>35. Good(d.u) => ReadsFound(d.u, rd)
  <2>1. SUFFICES ASSUME Good(d.u) PROVE ReadsFound(d.u, rd)
    OBVIOUS
  <2>2. Good(w1) /\ Good(w2) /\ Good(s2.u)
    BY <1>29, <1>32, <1>34, <2>1, GoodLater
  <2>3. d.u.rv = s2.u.rv
    BY <1>29, <1>32, <1>34, <2>1, <2>2
  <2>4. QED BY <1>28, <2>2, <2>3, FoundSame
<1>36. Ready(o, line, p6) /\ (Good(line) => line.loc = d.u.loc) /\ Later(d.u, line)
  BY <1>11, <1>12, <1>21, <1>28, <1>34, <1>35, DefReady
<1>37. Good(line) => line.loc[res].reg = d.r
  BY <1>34, <1>36, GoodLater
<1>38. PICK p7 : p7 \in Promises /\ p7[res] = fr /\ Changes(p6, p7, res)
  BY <1>1, <1>12, FlagsAre, PromiseCanBe
<1>39. Ready(o, Settle(line, d.r, fr), p7)
  BY <1>1, <1>4, <1>12, <1>36, <1>37, <1>38, SettleReady
<1>40. Milder(p7, h)
  BY <1>2, <1>3, <1>5, <1>6, <1>7, <1>8, <1>9, <1>10, <1>11, <1>12, <1>38 DEF Milder, Changes
<1>41. QED BY <1>22, <1>39, <1>40, ReadyMilder

\* The tables give the result, which is about to be overwritten, the register r.
Placed(u, res, r) == u.loc[res].reg = r /\ (res \in Vars => ~u.loc[res].in_mem)

\* What stands before the line that defines res, whose flag is fr: the promises
\* are f before the line and h after it.
Awaits(o, u, f, res, r, fr, h) ==
    /\ Ready(o, u, f) /\ res \in Ids /\ r \in Reg /\ f[res] = "dead"
    /\ Good(u) => Placed(u, res, r)
    /\ Changes(f, h, res) /\ h[res] \in {"dead", "next"} /\ (fr = "dead" => h[res] = "dead")

LEMMA DefPlaced ==
    ASSUME NEW o, NEW u, NEW f, NEW res, NEW r, NEW fr, NEW h, Awaits(o, u, f, res, r, fr, h),
           NEW reads \in SUBSET (Ids \X Reg), Good(u) => ReadsFound(u, reads),
           NEW v, v = ResultLine(u, reads, r, res, fr)
    PROVE  Ready(o, v, h) /\ Later(u, v) /\ (Good(v) => v.loc = u.loc)
<1>1. Ready(o, u, f) /\ res \in Ids /\ r \in Reg /\ f[res] = "dead"
  BY DEF Awaits
<1>0. Changes(f, h, res) /\ h[res] \in {"dead", "next"} /\ (fr = "dead" => h[res] = "dead")
  BY DEF Awaits
<1>2. Good(u) => /\ ReadsFound(u, reads) /\ u.loc[res].reg = r
                 /\ res \in Vars => ~u.loc[res].in_mem
  BY DEF Awaits, Placed
<1>3. QED BY <1>0, <1>1, <1>2, DefReady

\* An operand with the flag fa has been loaded into r; q holds once it is released.
Operand(o, u, f, a, r, fa, q) ==
    /\ Ready(o, u, f) /\ a \in Ids /\ r \in Reg /\ f[a] = "next"
    /\ Good(u) => Holds(u, a, r)
    /\ fa \in Use!Flags /\ (a \in Temps => fa # "out") /\ q[a] = fa /\ Changes(f, q, a)

\* From the one operand, in r, to the result's register.
LEMMA OperandReady ==
    ASSUME NEW o, NEW u, NEW f, NEW a, NEW r, NEW fa, NEW q, Operand(o, u, f, a, r, fa, q),
           NEW res \in Ids, NEW p, p[res] = "dead", Changes(q, p, res),
           NEW w, w = Release(u, r, fa), NEW dest, dest = HandOver(fa, r, tINV), NEW d, d = DestReg(w, dest, res)
    PROVE  /\ Ready(o, d.u, p) /\ Consistent(d.u) /\ d.r \in Reg
           /\ Good(d.u) => d.u.rv[r] = a /\ Placed(d.u, res, d.r)
<1>0. Ready(o, u, f) /\ a \in Ids /\ r \in Reg /\ f[a] = "next"
  BY DEF Operand
<1>10. /\ Good(u) => Holds(u, a, r)
       /\ fa \in Use!Flags /\ (a \in Temps => fa # "out") /\ q[a] = fa /\ Changes(f, q, a)
  BY DEF Operand
<1>1. fa \in {"next", "out", "dead"}
  BY <1>10 DEF Use!Flags
<1>2. Good(u) => u.loc[a].reg = r
  BY <1>10 DEF Holds
<1>3. /\ Ready(o, w, q) /\ Consistent(w) /\ Later(u, w)
      /\ Good(w) => w.rv = u.rv
      /\ (r \in TReg /\ fa # "next") => w.reg_alloc_info[r] = None
  BY <1>0, <1>1, <1>2, <1>10, ReleaseReady
<1>5. dest \in TReg => w.reg_alloc_info[dest] = None
  BY <1>3, Registers DEF HandOver
<1>7. /\ Ready(o, d.u, p) /\ Consistent(d.u) /\ d.r \in Reg /\ Later(w, d.u)
      /\ Good(d.u) => /\ d.u.loc[res].reg = d.r /\ d.u.rv = w.rv
                      /\ res \in Vars => ~d.u.loc[res].in_mem
  BY <1>3, <1>5, DestReady
<1>8. Good(d.u) => d.u.rv[r] = a
  <2>1. SUFFICES ASSUME Good(d.u) PROVE d.u.rv[r] = a
    OBVIOUS
  <2>2. Good(w) /\ Good(u)
    BY <1>3, <1>7, <2>1, GoodLater
  <2>3. d.u.rv = u.rv
    BY <1>3, <1>7, <2>1, <2>2
  <2>4. u.rv[r] = a
    BY <1>10, <2>2 DEF Holds
  <2>5. QED BY <2>3, <2>4
<1>9. QED BY <1>7, <1>8 DEF Placed

LEMMA ImmediateReady ==
    ASSUME NEW o, NEW u, NEW f \in Promises, Ready(o, u, f), NEW a \in Ids, NEW res \in Ids,
           NEW fa \in Use!Flags, NEW fr \in Use!Flags, NEW li \in BOOLEAN,
           NEW g, g = Use!Promise(f, a, fa), MayRead(f, a, fa), MayWrite(g, res, fr),
           NEW h, h = Use!Promise(g, res, fr)
    PROVE  Ready(o, ImmediateUnit(u, a, fa, li, res, fr), h)
<1>1. f[a] \in {"in", "next"} /\ (a \in Temps => fa # "out") /\ fr \in {"next", "out", "dead"}
  BY MayIs
<1>2. g \in Promises /\ g[a] = fa /\ Changes(f, g, a)
  BY PromiseIs
<1>3. res \in Temps => fr # "out"
  BY <1>2, MayIs
<1>4. h[res] = fr /\ Changes(g, h, res)
  BY <1>2, PromiseIs
<1>5. PICK p1 : p1 \in Promises /\ p1[a] = "next" /\ Changes(f, p1, a)
  BY FlagsAre, PromiseCanBe
<1>6. PICK p2 : p2 \in Promises /\ p2[a] = fa /\ Changes(p1, p2, a)
  BY <1>5, PromiseCanBe
<1>7. PICK p3 : p3 \in Promises /\ p3[res] = "dead" /\ Changes(p2, p3, res)
  BY <1>6, FlagsAre, PromiseCanBe
<1>8. PICK p4 : /\ p4 \in Promises /\ p4[res] \in {"dead", "next"} /\ (fr = "dead" <=> p4[res] = "dead")
                /\ Changes(p3, p4, res)
  BY <1>7, FlagsAre, PromiseCanBe
<1>9. PICK p5 : p5 \in Promises /\ p5[res] = fr /\ Changes(p4, p5, res)
  BY <1>8, PromiseCanBe
<1>10. PICK s : s = LoadOperand(u, a)
  OBVIOUS
<1>11. PICK m : m = MarkIf(s.u, fr)
  OBVIOUS
<1>12. PICK w : w = Release(m, s.r, fa)
  OBVIOUS
<1>30. PICK dest : dest = HandOver(fa, s.r, tINV)
  OBVIOUS
<1>13. PICK d : d = DestReg(w, dest, res)
  OBVIOUS
<1>31. PICK rd : rd = {<<a, s.r>>}
  OBVIOUS
<1>14. PICK pre : pre = IF li THEN PlainLine(d.u) ELSE d.u
  OBVIOUS
<1>15. PICK line : line = ResultLine(pre, rd, d.r, res, fr)
  OBVIOUS
<1>16. ImmediateUnit(u, a, fa, li, res, fr) = Settle(line, d.r, fr)
  BY <1>10, <1>11, <1>12, <1>13, <1>14, <1>15, <1>30, <1>31 DEF ImmediateUnit, ResultLine
<1>17. f[a] # "dead"
  BY <1>1
<1>18. Ready(o, s.u, p1) /\ s.r \in Reg /\ (Good(s.u) => Holds(s.u, a, s.r))
  BY <1>5, <1>10, <1>17, LoadReady
<1>19. Ready(o, m, p1) /\ m.loc = s.u.loc /\ m.rv = s.u.rv /\ m.fault = s.u.fault /\ m.panic = s.u.panic
  BY <1>11, <1>18, MarkReady
<1>20. Good(m) => Holds(m, a, s.r)
  BY <1>18, <1>19 DEF Good, Holds
<1>21. /\ Ready(o, d.u, p3) /\ Consistent(d.u) /\ d.r \in Reg
       /\ Good(d.u) => d.u.rv[s.r] = a /\ Placed(d.u, res, d.r)
  <2>1. Operand(o, m, p1, a, s.r, fa, p2)
    BY <1>1, <1>5, <1>6, <1>18, <1>19, <1>20 DEF Operand
  <2>2. QED BY <1>7, <1>12, <1>13, <1>30, <2>1, OperandReady
<1>22. /\ Ready(o, pre, p3)
       /\ Good(pre) => pre = d.u
  <2>1. CASE li
    <3>1. pre = PlainLine(d.u)
      BY <1>14, <2>1
    <3>2. QED BY <1>21, <3>1, PlainReady
  <2>2. CASE ~li
    BY <1>14, <1>21, <2>2
  <2>3. QED BY <2>1, <2>2
<1>23. rd \in SUBSET (Ids \X Reg)
  BY <1>18, <1>31
<1>24. Good(pre) => ReadsFound(pre, rd) /\ Placed(pre, res, d.r)
  BY <1>21, <1>22, <1>31 DEF ReadsFound
<1>25. Ready(o, line, p4) /\ (Good(line) => line.loc = pre.loc) /\ Later(pre, line)
  <2>1. Awaits(o, pre, p3, res, d.r, fr, p4)
    BY <1>7, <1>8, <1>21, <1>22, <1>24 DEF Awaits
  <2>2. QED BY <1>15, <1>23, <1>24, <2>1, DefPlaced
<1>26. Good(line) => line.loc[res].reg = d.r
  BY <1>24, <1>25, GoodLater DEF Placed
<1>27. Ready(o, Settle(line, d.r, fr), p5)
  BY <1>1, <1>3, <1>8, <1>9, <1>25, <1>26, SettleReady
<1>28. Milder(p5, h)
  BY <1>2, <1>4, <1>5, <1>6, <1>7, <1>8, <1>9 DEF Milder, Changes
<1>29. QED BY <1>16, <1>27, <1>28, ReadyMilder

\* A fault makes what follows it of no interest.
LEMMA FaultReady ==
    ASSUME NEW o, NEW u, NEW f, Ready(o, u, f), NEW v, Consistent(v), Later(u, v), v.fault # "none", NEW h
    PROVE  Ready(o, v, h) /\ ~Good(v)
<1>1. ~Good(v)
  BY DEF Good
<1>2. QED BY <1>1, ReadyStep

\* What the line reads has been noted.
Noted(u, reads) == [u EXCEPT !.stale = @ \cup StaleReads(u, reads)]

LEMMA CopyReady ==
    ASSUME NEW o, NEW u, NEW f, Ready(o, u, f), NEW reads \in SUBSET (Ids \X Reg), NEW r \in Reg,
           NEW res \in Ids, f[res] = "dead",
           Good(u) => /\ ReadsFound(u, reads) /\ u.loc[res].reg = r
                      /\ res \in Vars => ~u.loc[res].in_mem,
           NEW h, Changes(f, h, res), h[res] \in {"dead", "next"},
           NEW v, v = Redefine(Noted(u, reads), r, res, res)
    PROVE  Ready(o, v, h) /\ Later(u, v) /\ (Good(v) => v.loc = u.loc)
<1>0. PICK s : s = Noted(u, reads)
  OBVIOUS
<1>1. Consistent(u) /\ u \in Unit
  BY DEF Ready, Consistent
<1>2. StaleReads(u, reads) \in SUBSET Ids
  BY <1>1, StaleReadsType
<1>3. s \in Unit /\ s.loc = u.loc /\ s.stale = u.stale \cup StaleReads(u, reads) /\ s.fault = u.fault
      /\ s.panic = u.panic /\ s.rv = u.rv /\ s.mv = u.mv
  BY <1>0, <1>1, <1>2 DEF Unit, Noted
<1>4. SameTables(u, s)
  BY <1>0, <1>1, StaleSame DEF Noted
<1>5. v = Redefine(s, r, res, res)
  BY <1>0
<1>6. /\ v.loc = u.loc /\ v.stale = u.stale \cup StaleReads(u, reads) /\ v.fault = u.fault /\ v.panic = u.panic
      /\ v.rv[r] = res /\ \A q \in Reg : (q # r /\ u.rv[q] # res) => v.rv[q] = u.rv[q]
      /\ \A i \in Ids : i # res => v.mv[i] = u.mv[i]
  BY <1>3, <1>5, RedefineIs
<1>7. Consistent(s)
  BY <1>1, <1>4, SameTablesConsistent
<1>8. Consistent(v)
  BY <1>5, <1>7, RedefineConsistent
<1>9. Later(u, v)
  BY <1>6, LaterSame
<1>10. ASSUME Good(u), Coherent(u, f) PROVE v.panic = "none" /\ Coherent(v, h)
  <2>1. v.stale = {}
    BY <1>6, <1>10, NoneStale DEF Coherent
  <2>2. QED BY <1>1, <1>6, <1>10, <2>1, DefinedCoherent DEF Good
<1>11. QED BY <1>6, <1>8, <1>9, <1>10, ReadyStep DEF Known

LEMMA CopyPlaced ==
    ASSUME NEW o, NEW u, NEW f, NEW res, NEW r, NEW fr, NEW h, Awaits(o, u, f, res, r, fr, h),
           NEW reads \in SUBSET (Ids \X Reg), Good(u) => ReadsFound(u, reads),
           NEW v, v = Redefine(Noted(u, reads), r, res, res)
    PROVE  Ready(o, v, h) /\ Later(u, v) /\ (Good(v) => v.loc = u.loc)
BY CopyReady DEF Placed, Awaits

\* "=", "la" and "!", whose result carries the flag fr.
ResultUnaryLine(u, op, a, src, dst, res, fr) == UnaryLine(u, op, a, src, dst, res, fr = "dead")

LEMMA UnaryLineReady ==
    ASSUME NEW o, NEW u, NEW f, NEW res, NEW dst, NEW fr, NEW h, Awaits(o, u, f, res, dst, fr, h),
           NEW op \in UnaryOp, NEW a \in Ids, NEW src \in Reg, Good(u) => u.rv[src] = a,
           NEW v, v = ResultUnaryLine(u, op, a, src, dst, res, fr)
    PROVE  Ready(o, v, h) /\ Later(u, v) /\ (Good(v) => v.loc = u.loc)
<1>1. Consistent(u) /\ u \in Unit /\ Ready(o, u, f) /\ res \in Ids /\ dst \in Reg
  BY DEF Awaits, Ready, Consistent
<1>2. PICK rd : rd = {<<a, src>>}
  OBVIOUS
<1>3. rd \in SUBSET (Ids \X Reg)
  BY <1>2
<1>4. Good(u) => ReadsFound(u, rd)
  BY <1>2 DEF ReadsFound
<1>5. PICK no : no = {}
  OBVIOUS
<1>6. no \in SUBSET (Ids \X Reg)
  BY <1>5
<1>7. Good(u) => ReadsFound(u, no)
  BY <1>5 DEF ReadsFound
<1>8. CASE op = "=" /\ src = dst
  <2>1. v = Redefine(Noted(u, rd), dst, res, res)
    BY <1>2, <1>8 DEF ResultUnaryLine, UnaryLine, Noted
  <2>2. QED BY <1>3, <1>4, <2>1, CopyPlaced
<1>9. CASE op = "la" /\ ~u.loc[a].home
  <2>1. PICK w : w = WithFault(u, "nocode")
    OBVIOUS
  <2>2. v = Redefine(w, dst, res, None)
    BY <1>9, <2>1 DEF ResultUnaryLine, UnaryLine
  <2>3. Consistent(w) /\ w \in Unit /\ Later(u, w) /\ w.fault # "none"
    BY <1>1, <2>1, WithFaultConsistent, WithFaultLater DEF Fault, Consistent
  <2>4. v.fault = w.fault /\ v.panic = w.panic
    BY <1>1, <2>2, <2>3, RedefineIs
  <2>5. Consistent(v)
    BY <1>1, <2>2, <2>3, RedefineConsistent
  <2>6. Later(u, v) /\ v.fault # "none"
    BY <2>3, <2>4 DEF Later
  <2>7. QED BY <1>1, <2>5, <2>6, FaultReady
<1>10. CASE op = "la" /\ u.loc[a].home
  <2>1. v = ResultLine(u, no, dst, res, fr)
    BY <1>5, <1>10 DEF ResultUnaryLine, UnaryLine, ResultLine
  <2>2. QED BY <1>6, <1>7, <2>1, DefPlaced
<1>11. CASE op # "la" /\ ~(op = "=" /\ src = dst)
  <2>1. v = ResultLine(u, rd, dst, res, fr)
    BY <1>2, <1>11 DEF ResultUnaryLine, UnaryLine, ResultLine
  <2>2. QED BY <1>3, <1>4, <2>1, DefPlaced
<1>12. QED BY <1>8, <1>9, <1>10, <1>11

LEMMA UnaryReady ==
    ASSUME NEW o, NEW u, NEW f \in Promises, Ready(o, u, f), NEW op \in UnaryOp, NEW a \in Ids, NEW res \in Ids,
           NEW fa \in Use!Flags, NEW fr \in Use!Flags,
           NEW g, g = Use!Promise(f, a, fa), MayRead(f, a, fa), MayWrite(g, res, fr),
           NEW h, h = Use!Promise(g, res, fr)
    PROVE  Ready(o, UnaryUnit(u, op, a, fa, res, fr), h)
<1>1. f[a] \in {"in", "next"} /\ (a \in Temps => fa # "out") /\ fr \in {"next", "out", "dead"}
  BY MayIs
<1>2. g \in Promises /\ g[a] = fa /\ Changes(f, g, a)
  BY PromiseIs
<1>3. res \in Temps => fr # "out"
  BY <1>2, MayIs
<1>4. h[res] = fr /\ Changes(g, h, res)
  BY <1>2, PromiseIs
<1>5. PICK p1 : p1 \in Promises /\ p1[a] = "next" /\ Changes(f, p1, a)
  BY FlagsAre, PromiseCanBe
<1>6. PICK p2 : p2 \in Promises /\ p2[a] = fa /\ Changes(p1, p2, a)
  BY <1>5, PromiseCanBe
<1>7. PICK p3 : p3 \in Promises /\ p3[res] = "dead" /\ Changes(p2, p3, res)
  BY <1>6, FlagsAre, PromiseCanBe
<1>8. PICK p4 : /\ p4 \in Promises /\ p4[res] \in {"dead", "next"} /\ (fr = "dead" <=> p4[res] = "dead")
                /\ Changes(p3, p4, res)
  BY <1>7, FlagsAre, PromiseCanBe
<1>9. PICK p5 : p5 \in Promises /\ p5[res] = fr /\ Changes(p4, p5, res)
  BY <1>8, PromiseCanBe
<1>10. PICK m : m = MarkIf(u, fr)
  OBVIOUS
<1>11. PICK s : s = LoadOperand(m, a)
  OBVIOUS
<1>12. PICK w : w = Release(s.u, s.r, fa)
  OBVIOUS
<1>13. PICK dest : dest = HandOver(fa, s.r, tINV)
  OBVIOUS
<1>14. PICK d : d = DestReg(w, dest, res)
  OBVIOUS
<1>15. PICK line : line = ResultUnaryLine(d.u, op, a, s.r, d.r, res, fr)
  OBVIOUS
<1>16. UnaryUnit(u, op, a, fa, res, fr) = Settle(line, d.r, fr)
  BY <1>10, <1>11, <1>12, <1>13, <1>14, <1>15 DEF UnaryUnit, ResultUnaryLine
<1>17. f[a] # "dead"
  BY <1>1
<1>18. Ready(o, m, f)
  BY <1>10, MarkReady
<1>19. Ready(o, s.u, p1) /\ s.r \in Reg /\ (Good(s.u) => Holds(s.u, a, s.r))
  BY <1>5, <1>11, <1>17, <1>18, LoadReady
<1>20. /\ Ready(o, d.u, p3) /\ Consistent(d.u) /\ d.r \in Reg
       /\ Good(d.u) => d.u.rv[s.r] = a /\ Placed(d.u, res, d.r)
  <2>1. Operand(o, s.u, p1, a, s.r, fa, p2)
    BY <1>1, <1>5, <1>6, <1>19 DEF Operand
  <2>2. QED BY <1>7, <1>12, <1>13, <1>14, <2>1, OperandReady
<1>21. Ready(o, line, p4) /\ (Good(line) => line.loc = d.u.loc) /\ Later(d.u, line)
  <2>1. Awaits(o, d.u, p3, res, d.r, fr, p4)
    BY <1>7, <1>8, <1>20 DEF Awaits
  <2>2. QED BY <1>15, <1>19, <1>20, <2>1, UnaryLineReady
<1>22. Good(line) => line.loc[res].reg = d.r
  BY <1>20, <1>21, GoodLater DEF Placed
<1>23. Ready(o, Settle(line, d.r, fr), p5)
  BY <1>1, <1>3, <1>8, <1>9, <1>21, <1>22, SettleReady
<1>24. Milder(p5, h)
  BY <1>2, <1>4, <1>5, <1>6, <1>7, <1>8, <1>9 DEF Milder, Changes
<1>25. QED BY <1>16, <1>23, <1>24, ReadyMilder

LEMMA StoreIndirectReady ==
    ASSUME NEW o, NEW u, NEW f \in Promises, Ready(o, u, f), NEW p \in Temps, NEW a \in Ids,
           NEW fp \in Use!Flags, NEW fa \in Use!Flags,
           NEW g, g = Use!Promise(f, a, fa), MayRead(f, a, fa), MayRead(g, p, fp),
           NEW h, h = Use!Promise(g, p, fp)
    PROVE  Ready(o, StoreIndirectUnit(u, p, fp, a, fa), h)
<1>1. p \in Ids /\ p \notin Vars
  BY IdAssumption DEF Ids
<1>2. f[a] \in {"in", "next"} /\ (a \in Temps => fa # "out") /\ fa \in {"next", "out", "dead"}
  BY MayIs
<1>3. g \in Promises /\ g[a] = fa /\ Changes(f, g, a)
  BY PromiseIs
<1>4. g[p] \in {"in", "next"} /\ fp # "out" /\ fp \in {"next", "out", "dead"}
  BY <1>1, <1>3, MayIs
<1>5. h[p] = fp /\ Changes(g, h, p)
  BY <1>1, <1>3, PromiseIs
<1>6. PICK p1 : p1 \in Promises /\ p1[a] = "next" /\ Changes(f, p1, a)
  BY FlagsAre, PromiseCanBe
<1>7. PICK p2 : p2 \in Promises /\ p2[a] = fa /\ Changes(p1, p2, a)
  BY <1>6, PromiseCanBe
<1>8. PICK p3 : p3 \in Promises /\ p3[p] = "next" /\ Changes(p2, p3, p)
  BY <1>1, <1>7, FlagsAre, PromiseCanBe
<1>9. PICK p4 : p4 \in Promises /\ p4[p] = fp /\ Changes(p3, p4, p)
  BY <1>1, <1>8, PromiseCanBe
<1>10. PICK s : s = LoadOperand(u, a)
  OBVIOUS
<1>11. PICK w : w = Release(s.u, s.r, fa)
  OBVIOUS
<1>12. PICK d : d = LoadOperand(w, p)
  OBVIOUS
<1>13. PICK rd : rd = {<<a, s.r>>, <<p, d.r>>}
  OBVIOUS
<1>14. PICK line : line = ReadLine(d.u, rd)
  OBVIOUS
<1>15. StoreIndirectUnit(u, p, fp, a, fa) = Settle(line, d.r, fp)
  BY <1>10, <1>11, <1>12, <1>13, <1>14 DEF StoreIndirectUnit
<1>16. f[a] # "dead" /\ p2[p] # "dead"
  BY <1>1, <1>2, <1>3, <1>4, <1>6, <1>7 DEF Changes
<1>17. Ready(o, s.u, p1) /\ s.r \in Reg /\ (Good(s.u) => Holds(s.u, a, s.r))
  BY <1>6, <1>10, <1>16, LoadReady
<1>18. Good(s.u) => s.u.loc[a].reg = s.r
  BY <1>17 DEF Holds
<1>19. Ready(o, w, p2) /\ Later(s.u, w) /\ (Good(w) => w.rv = s.u.rv)
  BY <1>2, <1>6, <1>7, <1>11, <1>17, <1>18, ReleaseReady
<1>20. /\ Ready(o, d.u, p3) /\ d.r \in Reg /\ Later(w, d.u)
       /\ Good(d.u) => Holds(d.u, p, d.r)
       /\ w.loc[p].reg # tINV => d.u = w
  BY <1>1, <1>8, <1>12, <1>16, <1>19, LoadReady
<1>21. Good(d.u) => d.u.rv[s.r] = a
  <2>1. SUFFICES ASSUME Good(d.u) PROVE d.u.rv[s.r] = a
    OBVIOUS
  <2>2. Good(w) /\ Good(s.u)
    BY <1>19, <1>20, <2>1, GoodLater
  <2>3. Coherent(w, p2)
    BY <1>19, <2>2, ReadyGood
  <2>4. w.loc[p].reg # tINV
    BY <1>1, <1>16, <2>3 DEF Coherent, Kept
  <2>5. d.u.rv = s.u.rv
    BY <1>19, <1>20, <2>2, <2>4
  <2>6. QED BY <1>17, <2>2, <2>5 DEF Holds
<1>22. Good(d.u) => ReadsFound(d.u, rd)
  BY <1>13, <1>20, <1>21 DEF ReadsFound, Holds
<1>23. rd \in SUBSET (Ids \X Reg)
  BY <1>1, <1>13, <1>17, <1>20
<1>24. Ready(o, line, p3) /\ Later(d.u, line) /\ (Good(line) => line.loc = d.u.loc)
  BY <1>14, <1>20, <1>22, <1>23, ReadReady
<1>25. Good(line) => line.loc[p].reg = d.r
  BY <1>20, <1>24, GoodLater DEF Holds
<1>26. Ready(o, Settle(line, d.r, fp), p4)
  BY <1>1, <1>4, <1>8, <1>9, <1>24, <1>25, SettleReady
<1>27. Milder(p4, h)
  BY <1>3, <1>5, <1>6, <1>7, <1>8, <1>9 DEF Milder, Changes
<1>28. QED BY <1>15, <1>26, <1>27, ReadyMilder

LEMMA StoreIndirectImmReady ==
    ASSUME NEW o, NEW u, NEW f \in Promises, Ready(o, u, f), NEW p \in Temps,
           NEW fp \in Use!Flags, MayRead(f, p, fp), NEW h, h = Use!Promise(f, p, fp)
    PROVE  Ready(o, StoreIndirectImmUnit(u, p, fp), h)
<1>1. p \in Ids
  BY DEF Ids
<1>2. f[p] \in {"in", "next"} /\ fp # "out" /\ fp \in {"next", "out", "dead"}
  BY <1>1, MayIs
<1>3. h[p] = fp /\ Changes(f, h, p)
  BY <1>1, PromiseIs
<1>4. PICK p1 : p1 \in Promises /\ p1[p] = "next" /\ Changes(f, p1, p)
  BY <1>1, FlagsAre, PromiseCanBe
<1>5. PICK p2 : p2 \in Promises /\ p2[p] = fp /\ Changes(p1, p2, p)
  BY <1>1, <1>4, PromiseCanBe
<1>6. PICK d : d = LoadOperand(u, p)
  OBVIOUS
<1>7. PICK pre : pre = PlainLine(d.u)
  OBVIOUS
<1>8. PICK rd : rd = {<<p, d.r>>}
  OBVIOUS
<1>9. PICK line : line = ReadLine(pre, rd)
  OBVIOUS
<1>10. StoreIndirectImmUnit(u, p, fp) = Release(line, d.r, fp)
  BY <1>6, <1>7, <1>8, <1>9 DEF StoreIndirectImmUnit
<1>11. f[p] # "dead"
  BY <1>2
<1>12. Ready(o, d.u, p1) /\ d.r \in Reg /\ (Good(d.u) => Holds(d.u, p, d.r))
  BY <1>1, <1>4, <1>6, <1>11, LoadReady
<1>13. Ready(o, pre, p1) /\ (Good(pre) => pre = d.u)
  BY <1>7, <1>12, PlainReady
<1>14. rd \in SUBSET (Ids \X Reg) /\ (Good(pre) => ReadsFound(pre, rd))
  BY <1>1, <1>8, <1>12, <1>13 DEF ReadsFound, Holds
<1>15. Ready(o, line, p1) /\ Later(pre, line) /\ (Good(line) => line.loc = pre.loc)
  BY <1>9, <1>13, <1>14, ReadReady
<1>16. Good(line) => line.loc[p].reg = d.r
  BY <1>12, <1>13, <1>15, GoodLater DEF Holds
<1>17. Ready(o, Release(line, d.r, fp), p2)
  BY <1>1, <1>2, <1>4, <1>5, <1>15, <1>16, ReleaseReady
<1>18. Milder(p2, h)
  BY <1>3, <1>4, <1>5 DEF Milder, Changes
<1>19. QED BY <1>10, <1>17, <1>18, ReadyMilder

LEMMA LoadImmediateReady ==
    ASSUME NEW o, NEW u, NEW f \in Promises, Ready(o, u, f), NEW res \in Ids, NEW fr \in Use!Flags,
           MayWrite(f, res, fr), NEW h, h = Use!Promise(f, res, fr)
    PROVE  Ready(o, LoadImmediateUnit(u, res, fr), h)
<1>1. fr \in {"next", "out", "dead"} /\ (res \in Temps => fr # "out")
  BY MayIs
<1>2. h[res] = fr /\ Changes(f, h, res)
  BY PromiseIs
<1>3. PICK p1 : p1 \in Promises /\ p1[res] = "dead" /\ Changes(f, p1, res)
  BY FlagsAre, PromiseCanBe
<1>4. PICK p2 : /\ p2 \in Promises /\ p2[res] \in {"dead", "next"} /\ (fr = "dead" <=> p2[res] = "dead")
                /\ Changes(p1, p2, res)
  BY <1>3, FlagsAre, PromiseCanBe
<1>5. PICK p3 : p3 \in Promises /\ p3[res] = fr /\ Changes(p2, p3, res)
  BY <1>4, PromiseCanBe
<1>6. PICK m : m = MarkIf(u, fr)
  OBVIOUS
<1>7. PICK d : d = DestReg(m, tINV, res)
  OBVIOUS
<1>8. PICK no : no = {}
  OBVIOUS
<1>9. PICK line : line = ResultLine(d.u, no, d.r, res, fr)
  OBVIOUS
<1>10. LoadImmediateUnit(u, res, fr) = Release(line, d.r, fr)
  BY <1>6, <1>7, <1>8, <1>9 DEF LoadImmediateUnit, ResultLine
<1>11. Ready(o, m, f)
  BY <1>6, MarkReady
<1>12. tINV \in TReg => m.reg_alloc_info[tINV] = None
  BY Registers
<1>13. /\ Ready(o, d.u, p1) /\ d.r \in Reg
       /\ Good(d.u) => /\ d.u.loc[res].reg = d.r
                       /\ res \in Vars => ~d.u.loc[res].in_mem
  BY <1>3, <1>7, <1>11, <1>12, DestReady
<1>14. Good(d.u) => Placed(d.u, res, d.r)
  BY <1>13 DEF Placed
<1>15. Awaits(o, d.u, p1, res, d.r, fr, p2)
  BY <1>3, <1>4, <1>13, <1>14 DEF Awaits
<1>16. no \in SUBSET (Ids \X Reg) /\ (Good(d.u) => ReadsFound(d.u, no))
  BY <1>8 DEF ReadsFound
<1>17. Ready(o, line, p2) /\ Later(d.u, line) /\ (Good(line) => line.loc = d.u.loc)
  BY <1>9, <1>15, <1>16, DefPlaced
<1>18. Good(line) => line.loc[res].reg = d.r
  BY <1>13, <1>17, GoodLater
<1>19. fr # "dead" => p2[res] = "next"
  BY <1>4
<1>20. p3[res] = fr /\ Changes(p2, p3, res) /\ ~(res \in Temps /\ fr = "out")
  BY <1>1, <1>5
<1>21. Ready(o, Release(line, d.r, fr), p3)
  BY <1>1, <1>17, <1>18, <1>19, <1>20, ReleaseReady
<1>22. Milder(p3, h)
  BY <1>2, <1>3, <1>4, <1>5 DEF Milder, Changes
<1>23. QED BY <1>10, <1>21, <1>22, ReadyMilder

LEMMA ConstantPairReady ==
    ASSUME NEW o, NEW u, NEW f \in Promises, Ready(o, u, f), NEW res \in Ids, NEW fr \in Use!Flags,
           MayWrite(f, res, fr), NEW h, h = Use!Promise(f, res, fr)
    PROVE  Ready(o, ConstantPairUnit(u, res, fr), h)
<1>1. fr \in {"next", "out", "dead"} /\ (res \in Temps => fr # "out")
  BY MayIs
<1>2. h[res] = fr /\ Changes(f, h, res)
  BY PromiseIs
<1>3. PICK p1 : p1 \in Promises /\ p1[res] = "dead" /\ Changes(f, p1, res)
  BY FlagsAre, PromiseCanBe
<1>4. PICK p2 : p2 \in Promises /\ p2[res] = "next" /\ Changes(f, p2, res)
  BY FlagsAre, PromiseCanBe
<1>5. PICK p3 : p3 \in Promises /\ p3[res] = fr /\ Changes(p2, p3, res)
  BY <1>4, PromiseCanBe
<1>6. PICK d : d = DestReg(u, tINV, res)
  OBVIOUS
<1>7. PICK w : w = WithFault(d.u, "nocode")
  OBVIOUS
<1>8. PICK v : v = Redefine(w, d.r, res, None)
  OBVIOUS
<1>9. ConstantPairUnit(u, res, fr) = Settle(v, d.r, fr)
  BY <1>6, <1>7, <1>8 DEF ConstantPairUnit
<1>10. tINV \in TReg => u.reg_alloc_info[tINV] = None
  BY Registers
<1>11. Ready(o, d.u, p1) /\ d.r \in Reg
  BY <1>3, <1>6, <1>10, DestReady
<1>12. Consistent(d.u) /\ d.u \in Unit
  BY <1>11 DEF Ready, Consistent
<1>13. Consistent(w) /\ w \in Unit /\ Later(d.u, w) /\ w.fault # "none"
  BY <1>7, <1>12, WithFaultConsistent, WithFaultLater DEF Fault, Consistent
<1>14. v.fault = w.fault /\ v.panic = w.panic
  BY <1>8, <1>11, <1>13, RedefineIs
<1>15. Consistent(v)
  BY <1>8, <1>11, <1>13, RedefineConsistent
<1>16. Later(d.u, v) /\ v.fault # "none"
  BY <1>13, <1>14 DEF Later
<1>17. Ready(o, v, p2) /\ ~Good(v)
  BY <1>11, <1>15, <1>16, FaultReady
<1>18. Ready(o, Settle(v, d.r, fr), p3)
  BY <1>1, <1>4, <1>5, <1>17, SettleReady
<1>19. Milder(p3, h)
  BY <1>2, <1>4, <1>5 DEF Milder, Changes
<1>20. QED BY <1>9, <1>18, <1>19, ReadyMilder

\* Where a block may end, the promises of the next block's start hold.
LEMMA EndMilder ==
    ASSUME NEW f \in Promises, Use!CanEnd(f) PROVE Milder(f, Use!BlockStart) /\ Use!BlockStart \in Promises
<1>1. \A id \in Ids : id \in NonTemps \/ id \in Temps
  BY DEF Ids, NonTemps
<1>2. \A id \in NonTemps : f[id] \in {"in", "out"}
  BY DEF Use!CanEnd, Promises, Use!Names, Ids, NonTemps
<1>3. \A id \in Ids : Use!BlockStart[id] = IF id \in NonTemps THEN "in" ELSE "dead"
  BY DEF Use!BlockStart, Use!Names, Ids, NonTemps
<1>4. Use!BlockStart \in Promises
  BY DEF Use!BlockStart, Promises, Use!Names, Ids, NonTemps
<1>5. QED BY <1>2, <1>3, <1>4 DEF Milder

LEMMA CondGotoReady ==
    ASSUME NEW o, NEW u, NEW f \in Promises, Ready(o, u, f), NEW n \in Ids,
           MayRead(f, n, LastFlag(n)), NEW g, g = Use!Promise(f, n, LastFlag(n)), Use!CanEnd(g)
    PROVE  Ready(o, CondGotoUnit(u, n, LastFlag(n)), Use!BlockStart)
<1>1. PICK flag : flag = LastFlag(n)
  OBVIOUS
<1>2. flag \in Use!Flags /\ flag \in {"next", "out", "dead"} /\ ~(n \in Temps /\ flag = "out")
  BY <1>1, IdAssumption DEF LastFlag, Use!Flags, NonTemps
<1>3. f[n] # "dead"
  BY <1>1, <1>2, MayIs
<1>4. g \in Promises /\ g[n] = flag /\ Changes(f, g, n)
  BY <1>1, <1>2, PromiseIs
<1>5. PICK p1 : p1 \in Promises /\ p1[n] = "next" /\ Changes(f, p1, n)
  BY FlagsAre, PromiseCanBe
<1>6. PICK p2 : p2 \in Promises /\ p2[n] = flag /\ Changes(p1, p2, n)
  BY <1>2, <1>5, PromiseCanBe
<1>7. PICK s : s = LoadOperand(u, n)
  OBVIOUS
<1>8. PICK rd : rd = {<<n, s.r>>}
  OBVIOUS
<1>9. PICK taken : taken = ReadLine(s.u, rd)
  OBVIOUS
<1>10. PICK w : w = WithFault(taken, "late")
  OBVIOUS
<1>11. PICK v : /\ CondGotoUnit(u, n, flag) = Release(v, s.r, flag)
                /\ v = taken \/ v = w
  BY <1>7, <1>8, <1>9, <1>10 DEF CondGotoUnit
<1>12. Ready(o, s.u, p1) /\ s.r \in Reg /\ (Good(s.u) => Holds(s.u, n, s.r))
  BY <1>3, <1>5, <1>7, LoadReady
<1>13. rd \in SUBSET (Ids \X Reg) /\ (Good(s.u) => ReadsFound(s.u, rd))
  BY <1>8, <1>12 DEF ReadsFound, Holds
<1>14. Ready(o, taken, p1) /\ Later(s.u, taken) /\ (Good(taken) => taken.loc = s.u.loc)
  BY <1>9, <1>12, <1>13, ReadReady
<1>15. Good(taken) => taken.loc[n].reg = s.r
  BY <1>12, <1>14, GoodLater DEF Holds
<1>16. Ready(o, w, p1) /\ ~Good(w)
  <2>1. Consistent(taken) /\ taken \in Unit
    BY <1>14 DEF Ready, Consistent
  <2>2. Consistent(w) /\ Later(taken, w) /\ w.fault # "none"
    BY <1>10, <2>1, WithFaultConsistent, WithFaultLater DEF Fault
  <2>3. QED BY <1>14, <2>2, FaultReady
<1>17. Ready(o, v, p1) /\ (Good(v) => v.loc[n].reg = s.r)
  BY <1>11, <1>14, <1>15, <1>16
<1>18. Ready(o, Release(v, s.r, flag), p2)
  BY <1>2, <1>5, <1>6, <1>17, ReleaseReady
<1>19. Milder(p2, g)
  BY <1>4, <1>5, <1>6 DEF Milder, Changes
<1>20. QED BY <1>1, <1>4, <1>11, <1>18, <1>19, ReadyMilder, EndMilder

LEMMA ReturnReady ==
    ASSUME NEW o, NEW u, NEW f \in Promises, Ready(o, u, f), NEW n \in Ids,
           Use!CanRead(f, n), NEW g, g = Use!Promise(f, n, "out"), Use!CanEnd(g)
    PROVE  Ready(o, ReturnUnit(u, n), Use!BlockStart)
<1>1. f[n] # "dead"
  BY DEF Use!CanRead
<1>2. g \in Promises /\ g[n] = "out" /\ Changes(f, g, n)
  BY FlagsAre, PromiseIs
<1>3. Milder(g, Use!BlockStart) /\ Use!BlockStart \in Promises
  BY <1>2, EndMilder
<1>4. PICK p1 : p1 \in Promises /\ p1[n] = "next" /\ Changes(f, p1, n)
  BY FlagsAre, PromiseCanBe
<1>5. PICK p2 : /\ p2 \in Promises /\ p2[n] = (IF n \in Temps THEN "dead" ELSE "out")
                /\ Changes(p1, p2, n)
  BY <1>4, FlagsAre, PromiseCanBe
<1>6. PICK s : s = LoadOperand(u, n)
  OBVIOUS
<1>7. PICK rd : rd = {<<n, s.r>>}
  OBVIOUS
<1>8. PICK line : line = ReadLine(s.u, rd)
  OBVIOUS
<1>9. ReturnUnit(u, n) = Release(line, s.r, "out")
  BY <1>6, <1>7, <1>8 DEF ReturnUnit
<1>10. Ready(o, s.u, p1) /\ s.r \in Reg /\ (Good(s.u) => Holds(s.u, n, s.r))
  BY <1>1, <1>4, <1>6, LoadReady
<1>11. rd \in SUBSET (Ids \X Reg) /\ (Good(s.u) => ReadsFound(s.u, rd))
  BY <1>7, <1>10 DEF ReadsFound, Holds
<1>12. Ready(o, line, p1) /\ Later(s.u, line) /\ (Good(line) => line.loc = s.u.loc)
  BY <1>8, <1>10, <1>11, ReadReady
<1>13. Good(line) => line.loc[n].reg = s.r
  BY <1>10, <1>12, GoodLater DEF Holds
<1>14. PICK flag : flag = "out"
  OBVIOUS
<1>15. /\ flag \in {"next", "out", "dead"} /\ p1[n] = "next"
       /\ p2[n] = flag \/ (flag = "out" /\ p2[n] = "dead")
       /\ (n \in Temps /\ flag = "out") => p2[n] = "dead"
  BY <1>4, <1>5, <1>14
<1>16. Ready(o, Release(line, s.r, flag), p2)
  BY <1>5, <1>12, <1>13, <1>15, ReleaseReady
<1>17. Milder(p2, Use!BlockStart)
  <2>1. n \in Temps => Use!BlockStart[n] = "dead"
    BY IdAssumption DEF Use!BlockStart, Use!Names, NonTemps
  <2>2. \A i \in Ids : i # n => p2[i] = g[i]
    BY <1>2, <1>4, <1>5 DEF Changes
  <2>3. n \notin Temps => p2[n] = g[n]
    BY <1>2, <1>5
  <2>4. QED BY <1>3, <2>1, <2>2, <2>3 DEF Milder
<1>18. QED BY <1>9, <1>14, <1>16, <1>17, ReadyMilder

LEMMA PlainEndReady ==
    ASSUME NEW o, NEW u, NEW f \in Promises, Ready(o, u, f), Use!CanEnd(f), NEW line
    PROVE  Ready(o, IF line THEN PlainLine(u) ELSE u, Use!BlockStart)
<1>1. Ready(o, PlainLine(u), f)
  BY PlainReady
<1>2. QED BY <1>1, EndMilder, ReadyMilder

\* What process_save_live takes from the registers, and what it stores.
Cached(u) == {u.reg_alloc_info[r] : r \in {q \in TReg : u.reg_alloc_info[q] \in NonTemps}}
Dirty(u)  == {id \in Cached(u) : ~u.loc[id].in_mem}

Saved(u, v) ==
    /\ v.rv = u.rv /\ v.stale = u.stale /\ v.panic = u.panic
    /\ \A id \in Ids : id \notin Cached(u) => v.loc[id] = u.loc[id]
    /\ \A id \in Ids : v.loc[id].home = u.loc[id].home /\ v.loc[id].known = u.loc[id].known
    /\ \A id \in Ids : id \in Cached(u) => v.loc[id].reg = tINV /\ v.loc[id].in_mem
    /\ \A id \in Ids : id \notin Dirty(u) => v.mv[id] = u.mv[id]
    /\ \A id \in Ids : (id \in Dirty(u) /\ u.rv[u.loc[id].reg] = id) => v.mv[id]

\* It does so, unless a mark is pending.
LEMMA SaveLiveIs ==
    ASSUME NEW u, Consistent(u), NEW v, v = SaveLiveUnit(u)
    PROVE  Later(u, v) /\ (v.fault = "none" => Saved(u, v))
<1> DEFINE held   == {r \in TReg : u.reg_alloc_info[r] \in NonTemps}
           dirty  == {r \in held : ~u.loc[u.reg_alloc_info[r]].in_mem}
           lost   == IF u.mark THEN First(dirty) ELSE {}
           ids    == {u.reg_alloc_info[r] : r \in held}
           kept   == {u.reg_alloc_info[r] : r \in dirty \ lost}
           stored == {id \in ids : ~u.loc[id].in_mem}
           w      == IF lost # {} THEN Swallow(u) ELSE u
           alloc  == [r \in TReg |-> IF r \in held THEN None ELSE w.reg_alloc_info[r]]
           loc    == [id \in Ids |-> IF id \in ids
                                     THEN [w.loc[id] EXCEPT !.reg = tINV, !.in_mem = TRUE]
                                     ELSE w.loc[id]]
           mv     == [id \in Ids |-> IF id \in kept THEN u.rv[u.loc[id].reg] = id ELSE w.mv[id]]
<1>1. v = [w EXCEPT !.reg_alloc_info = alloc, !.loc = loc, !.mv = mv]
  BY DEF SaveLiveUnit
<1>2. u \in Unit
  BY DEF Consistent
<1>3. w \in Unit /\ Later(u, w) /\ (w.fault = "none" => w = u /\ lost = {})
  BY <1>2, SwallowLater, SwallowSame, LaterSame DEF SameTables
<1>4. lost = {} => kept = stored
  OBVIOUS
<1> HIDE DEF lost, ids, kept, stored, w
<1>5. /\ v.rv = w.rv /\ v.stale = w.stale /\ v.fault = w.fault /\ v.panic = w.panic
      /\ v.loc = loc /\ v.mv = mv
  BY <1>1, <1>3 DEF Unit
<1>6. Later(u, v)
  BY <1>3, <1>5 DEF Later
<1>7. ASSUME v.fault = "none"
      PROVE  /\ v.rv = u.rv /\ v.stale = u.stale /\ v.panic = u.panic
             /\ \A id \in Ids : id \notin ids => v.loc[id] = u.loc[id]
             /\ \A id \in Ids : v.loc[id].home = u.loc[id].home /\ v.loc[id].known = u.loc[id].known
             /\ \A id \in Ids : id \in ids => v.loc[id].reg = tINV /\ v.loc[id].in_mem
             /\ \A id \in Ids : id \notin stored => v.mv[id] = u.mv[id]
             /\ \A id \in Ids : (id \in stored /\ u.rv[u.loc[id].reg] = id) => v.mv[id]
  <2>1. w = u /\ kept = stored
    BY <1>3, <1>4, <1>5, <1>7
  <2>2. v.rv = u.rv /\ v.stale = u.stale /\ v.panic = u.panic
    BY <1>5, <2>1
  <2>3. \A id \in Ids : v.loc[id] = IF id \in ids THEN [u.loc[id] EXCEPT !.reg = tINV, !.in_mem = TRUE] ELSE u.loc[id]
    BY <1>5, <2>1
  <2>4. \A id \in Ids : u.loc[id] \in Location
    BY <1>2 DEF Unit
  <2>5. \A id \in Ids : v.mv[id] = IF id \in stored THEN u.rv[u.loc[id].reg] = id ELSE u.mv[id]
    BY <1>5, <2>1
  <2>6. \A id \in Ids : id \notin ids => v.loc[id] = u.loc[id]
    BY <2>3
  <2>7. \A id \in Ids : /\ v.loc[id].home = u.loc[id].home /\ v.loc[id].known = u.loc[id].known
                        /\ id \in ids => v.loc[id].reg = tINV /\ v.loc[id].in_mem
    BY <2>3, <2>4 DEF Location
  <2>8. \A id \in Ids : /\ id \notin stored => v.mv[id] = u.mv[id]
                        /\ (id \in stored /\ u.rv[u.loc[id].reg] = id) => v.mv[id]
    BY <2>5
  <2>9. QED BY <2>2, <2>6, <2>7, <2>8
<1>8. ids = Cached(u) /\ stored = Dirty(u)
  BY DEF ids, stored, Cached, Dirty
<1>9. QED BY <1>6, <1>7, <1>8 DEF Saved

LEMMA SaveLiveReady ==
    ASSUME NEW o, NEW u, NEW f, Ready(o, u, f), NEW v, v = SaveLiveUnit(u)
    PROVE  Ready(o, v, f)
<1>1. Consistent(u) /\ Agree(u) /\ u \in Unit
  BY DEF Ready, Consistent
<1>2. Consistent(v)
  BY <1>1, SaveLiveConsistent
<1>3. Later(u, v)
  BY <1>1, SaveLiveIs
<1>4. ASSUME Good(u), Coherent(u, f), v.fault = "none"
      PROVE  v.panic \in Known /\ (v.panic = "none" => Coherent(v, f))
  <2>1. PICK ids : ids = Cached(u)
    OBVIOUS
  <2>2. PICK stored : stored = Dirty(u)
    OBVIOUS
  <2>3. /\ v.rv = u.rv /\ v.stale = u.stale /\ v.panic = u.panic
        /\ \A id \in Ids : id \notin ids => v.loc[id] = u.loc[id]
        /\ \A id \in Ids : v.loc[id].home = u.loc[id].home /\ v.loc[id].known = u.loc[id].known
        /\ \A id \in Ids : id \in ids => v.loc[id].reg = tINV /\ v.loc[id].in_mem
        /\ \A id \in Ids : id \notin stored => v.mv[id] = u.mv[id]
        /\ \A id \in Ids : (id \in stored /\ u.rv[u.loc[id].reg] = id) => v.mv[id]
    <3>1. Saved(u, v)
      BY <1>1, <1>4, SaveLiveIs
    <3>2. QED BY <2>1, <2>2, <3>1 DEF Saved
  <2>4. \A id \in Ids : id \in ids => id \in Vars /\ u.loc[id].reg # tINV
    BY <1>1, <2>1, Registers, IdAssumption DEF Agree, NonTemps, Ids, Cached
  <2>5. \A id \in Vars : id \notin ids => u.loc[id].reg = tINV
    <3>1. SUFFICES ASSUME NEW id \in Vars, u.loc[id].reg # tINV PROVE id \in ids
      BY <2>1
    <3>2. id \in Ids /\ id \notin Args
      BY Registers, IdAssumption
    <3>3. PICK r \in TReg : r = u.loc[id].reg
      BY <1>4, <3>1, <3>2 DEF Coherent
    <3>4. u.reg_alloc_info[r] = id /\ id \in NonTemps
      BY <1>1, <3>2, <3>3 DEF Agree, NonTemps
    <3>5. QED BY <2>1, <3>4 DEF Cached
  <2>6. \A id \in Vars : (f[id] # "dead" /\ id \in ids) => v.mv[id] = TRUE
    <3>1. SUFFICES ASSUME NEW id \in Vars, f[id] # "dead", id \in ids PROVE v.mv[id] = TRUE
      OBVIOUS
    <3>2. id \in Ids /\ u.loc[id].reg # tINV /\ u.mv[id] \in BOOLEAN /\ v.mv[id] \in BOOLEAN
          /\ u.loc[id].in_mem \in BOOLEAN
      BY <1>1, <1>2, <2>4, <3>1, Registers DEF Unit, Consistent, Location
    <3>3. u.rv[u.loc[id].reg] = id
      BY <1>4, <3>1, <3>2 DEF Coherent, Kept
    <3>4. CASE id \in stored
      BY <2>3, <3>2, <3>3, <3>4
    <3>5. CASE id \notin stored
      <4>1. u.loc[id].in_mem = TRUE
        BY <2>1, <2>2, <3>1, <3>2, <3>5 DEF Dirty
      <4>2. u.mv[id] = TRUE
        BY <1>4, <3>1, <4>1 DEF Coherent
      <4>3. QED BY <2>3, <3>2, <3>5, <4>2
    <3>6. QED BY <3>4, <3>5
  <2>7. \A id \in Ids : id \in ids => v.loc[id].reg = tINV /\ v.loc[id].in_mem = TRUE
    <3>1. \A id \in Ids : v.loc[id].in_mem \in BOOLEAN
      BY <1>2 DEF Unit, Consistent, Location
    <3>2. QED BY <2>3, <3>1
  <2>8. \A id \in Ids : id \notin ids => v.loc[id] = u.loc[id] /\ v.mv[id] = u.mv[id]
    BY <2>1, <2>2, <2>3 DEF Dirty
  <2>9. Coherent(v, f)
    <3>1. v.stale = {} /\ \A id \in Vars : v.loc[id].home = TRUE /\ v.loc[id].known = TRUE
      BY <1>4, <2>3, Registers DEF Coherent
    <3>2. \A id \in Ids \ Args : v.loc[id].reg \in TReg \cup {tINV}
      BY <1>4, <2>7, <2>8 DEF Coherent
    <3>3. \A id \in Ids : f[id] # "dead" => Kept(v, id)
      BY <1>4, <2>3, <2>4, <2>6, <2>7, <2>8 DEF Coherent, Kept
    <3>4. \A id \in Vars : (f[id] # "dead" /\ v.loc[id].in_mem = TRUE) => v.mv[id] = TRUE
      BY <1>4, <2>6, <2>8, Registers DEF Coherent
    <3>5. \A id \in Vars : f[id] \in {"in", "out"} => v.loc[id].reg = tINV /\ v.loc[id].in_mem = TRUE
      BY <1>4, <2>7, <2>8, Registers DEF Coherent
    <3>6. QED BY <3>1, <3>2, <3>3, <3>4, <3>5 DEF Coherent
  <2>10. QED BY <1>4, <2>3, <2>9 DEF Good, Known
<1>5. QED BY <1>2, <1>3, <1>4, ReadyStep

(***************************************************************************)
(* The next function, and what is forgotten between two instructions.      *)
(***************************************************************************)

LEMMA StartCoherent ==
    ASSUME NEW v, v.loc = InitUnit.loc, v.rv = InitUnit.rv, v.mv = InitUnit.mv, v.stale = {}
    PROVE  Coherent(v, Use!BlockStart)
<1>1. \A id \in Vars : /\ v.loc[id].reg = tINV /\ v.loc[id].in_mem = TRUE /\ v.mv[id] = TRUE
                       /\ v.loc[id].home = TRUE /\ v.loc[id].known = TRUE
  <2>1. SUFFICES ASSUME NEW id \in Vars
                 PROVE  /\ v.loc[id].reg = tINV /\ v.loc[id].in_mem = TRUE /\ v.mv[id] = TRUE
                        /\ v.loc[id].home = TRUE /\ v.loc[id].known = TRUE
    OBVIOUS
  <2>2. InitLocation(id) = [reg |-> tINV, in_mem |-> TRUE, home |-> TRUE, known |-> TRUE]
    BY IdAssumption DEF InitLocation
  <2>3. v.loc[id] = InitLocation(id)
    BY Registers DEF InitUnit
  <2>4. v.mv[id] = TRUE
    BY Registers DEF InitUnit
  <2>5. QED BY <2>2, <2>3, <2>4
<1>2. \A id \in Temps : v.loc[id].reg = tINV /\ Use!BlockStart[id] = "dead"
  BY Registers, IdAssumption DEF InitUnit, InitLocation, Use!BlockStart, Use!Names, NonTemps, Ids
<1>3. \A id \in Args : Kept(v, id)
  <2>1. SUFFICES ASSUME NEW id \in Args PROVE Kept(v, id)
    OBVIOUS
  <2>2. PICK r : r = NumTempRegs + id
    OBVIOUS
  <2>31. id \in Int /\ NumTempRegs \in Int
    BY RegAssumption
  <2>32. r - NumTempRegs = id
    BY <2>2, <2>31
  <2>3. r \in Reg /\ r # tINV /\ r - NumTempRegs = id
    BY <2>2, <2>32, Registers
  <2>4. v.loc[id].reg = r
    BY <2>2, Registers, IdAssumption DEF InitUnit, InitLocation
  <2>5. v.rv[r] = id
    BY <2>3 DEF InitUnit
  <2>6. QED BY <2>3, <2>4, <2>5 DEF Kept
<1>4. \A id \in Vars : Kept(v, id)
  BY <1>1 DEF Kept
<1>5. QED BY <1>1, <1>2, <1>3, <1>4 DEF Coherent, Ids

LEMMA ResetReady ==
    ASSUME NEW u, NEW f, Ready(u, u, f), u.panic = "none", NEW v, v = Reset(u)
    PROVE  Ready(u, v, Use!BlockStart)
<1>1. Consistent(u) /\ u \in Unit
  BY DEF Ready, Consistent
<1>2. Consistent(v)
  BY <1>1, ResetConsistent
<1>3. Later(u, PlainLine(u))
  BY <1>1, PlainLineLater
<1>4. /\ v.fault = PlainLine(u).fault /\ v.stale = u.stale /\ v.panic = "none"
      /\ v.loc = InitUnit.loc /\ v.rv = InitUnit.rv /\ v.mv = InitUnit.mv
  BY DEF Reset, InitUnit
<1>5. Later(u, v)
  BY <1>3, <1>4 DEF Later
<1>6. ASSUME Good(u), Coherent(u, f) PROVE Coherent(v, Use!BlockStart)
  <2>1. v.stale = {}
    BY <1>4, <1>6 DEF Coherent
  <2>2. QED BY <1>4, <2>1, StartCoherent
<1>7. QED BY <1>2, <1>4, <1>5, <1>6, ReadyStep DEF Known

LEMMA ForgetCoherent ==
    ASSUME NEW u, Consistent(u), NEW f, Coherent(u, f), u.fault = "none", NEW v, v = Forget(u, f)
    PROVE  Coherent(v, f) /\ v.panic = u.panic /\ v.fault = u.fault
<1> DEFINE loc == [id \in Ids |-> IF id \in Temps /\ f[id] = "dead" /\ u.loc[id].reg = tINV
                                  THEN InitLocation(id) ELSE u.loc[id]]
           rv  == [r \in Reg |-> IF u.fault # "none" \/ (r \in TReg /\ u.rv[r] # u.reg_alloc_info[r])
                                 THEN None ELSE u.rv[r]]
           mv  == [id \in Ids |-> u.fault = "none" /\ u.mv[id]]
           st  == IF u.fault = "none" THEN u.stale ELSE {}
<1>1. u \in Unit /\ Agree(u)
  BY DEF Consistent
<1>15. v = [u EXCEPT !.loc = loc, !.rv = rv, !.mv = mv, !.stale = st]
  BY DEF Forget
<1>3. \A id \in Ids : loc[id] = IF id \in Temps /\ f[id] = "dead" /\ u.loc[id].reg = tINV
                                THEN InitLocation(id) ELSE u.loc[id]
  OBVIOUS
<1>4. \A r \in Reg : rv[r] = IF r \in TReg /\ u.rv[r] # u.reg_alloc_info[r] THEN None ELSE u.rv[r]
  OBVIOUS
<1>5. (\A id \in Ids : mv[id] = u.mv[id]) /\ st = u.stale
  <2>1. \A id \in Ids : u.mv[id] \in BOOLEAN
    BY <1>1 DEF Unit
  <2>2. \A id \in Ids : mv[id] <=> u.mv[id]
    OBVIOUS
  <2>3. \A id \in Ids : mv[id] \in BOOLEAN
    OBVIOUS
  <2>4. st = u.stale
    OBVIOUS
  <2> HIDE DEF mv
  <2>5. QED BY <2>1, <2>2, <2>3, <2>4
<1> HIDE DEF loc, rv, mv, st
<1>2. /\ v.panic = u.panic /\ v.fault = u.fault /\ v.stale = u.stale
      /\ v.loc = loc /\ v.rv = rv /\ v.mv = mv
  BY <1>1, <1>5, <1>15 DEF Unit
<1>6. \A id \in Ids : id \notin Temps \/ f[id] # "dead" => v.loc[id] = u.loc[id]
  BY <1>2, <1>3
<1>7. \A id \in Ids : v.loc[id].reg = u.loc[id].reg
  BY <1>2, <1>3, IdAssumption DEF InitLocation
<1>8. \A id \in Ids : f[id] # "dead" => Kept(v, id)
  <2>1. SUFFICES ASSUME NEW id \in Ids, f[id] # "dead" PROVE Kept(v, id)
    OBVIOUS
  <2>2. Kept(u, id) /\ v.loc[id] = u.loc[id]
    BY <1>6, <2>1 DEF Coherent
  <2>3. CASE u.loc[id].reg = tINV
    BY <1>2, <1>5, <2>2, <2>3 DEF Kept
  <2>4. CASE u.loc[id].reg # tINV
    <3>1. u.rv[u.loc[id].reg] = id /\ u.loc[id].reg \in Reg
      BY <1>1, <2>2, <2>4 DEF Kept, Unit, Location
    <3>2. u.loc[id].reg \in TReg => u.reg_alloc_info[u.loc[id].reg] = id
      BY <1>1 DEF Agree
    <3>3. QED BY <1>2, <1>4, <2>2, <2>4, <3>1, <3>2 DEF Kept
  <2>5. QED BY <2>3, <2>4
<1>9. \A id \in Vars : v.loc[id] = u.loc[id] /\ v.mv[id] = u.mv[id]
  BY <1>2, <1>5, <1>6, Registers, IdAssumption
<1>10. v.stale = {} /\ \A id \in Vars : v.loc[id].home = TRUE /\ v.loc[id].known = TRUE
  BY <1>2, <1>9 DEF Coherent
<1>11. \A id \in Ids \ Args : v.loc[id].reg \in TReg \cup {tINV}
  BY <1>7 DEF Coherent
<1>12. \A id \in Vars : (f[id] # "dead" /\ v.loc[id].in_mem = TRUE) => v.mv[id] = TRUE
  BY <1>9 DEF Coherent
<1>13. \A id \in Vars : f[id] \in {"in", "out"} => v.loc[id].reg = tINV /\ v.loc[id].in_mem = TRUE
  BY <1>9 DEF Coherent
<1>14. QED BY <1>2, <1>8, <1>10, <1>11, <1>12, <1>13 DEF Coherent

(***************************************************************************)
(* The inductive invariant, and what follows from it.                      *)
(***************************************************************************)

Values == unit.fault = "none" => unit.panic \in Known /\ Coherent(unit, fate)

LEMMA HandlerStart ==
    ASSUME IInv, Values, unit.panic = "none"
    PROVE  Ready(unit, unit, fate) /\ fate \in Promises
<1>1. Consistent(unit) /\ fate \in Promises
  BY ContractTypes DEF IInv, TypeOK, TablesAgree, Consistent
<1>2. Later(unit, unit)
  BY LaterSame
<1>3. QED BY <1>1, <1>2 DEF Ready, Settled, Values

LEMMA OutcomeValues ==
    ASSUME IInv, Values, unit.panic = "none", NEW u, NEW f, Ready(unit, u, f), Outcome(u, f)
    PROVE  Values'
<1>1. Consistent(u) /\ unit \in Unit
  BY DEF Ready, IInv, TypeOK
<1>2. CASE u.panic = "none" /\ unit' = Forget(u, f) /\ fate' = f
  <2>1. unit'.fault = u.fault
    BY <1>1, <1>2 DEF Forget, Unit, Consistent
  <2>2. SUFFICES ASSUME unit'.fault = "none" PROVE unit'.panic \in Known /\ Coherent(unit', fate')
    BY DEF Values
  <2>3. Coherent(u, f)
    BY <1>2, <2>1, <2>2, ReadyGood DEF Good
  <2>4. Coherent(unit', f) /\ unit'.panic = "none"
    BY <1>1, <1>2, <2>1, <2>2, <2>3, ForgetCoherent, ZenonT(60)
  <2>5. QED BY <1>2, <2>4 DEF Known
<1>3. CASE u.panic # "none" /\ unit' = [unit EXCEPT !.panic = u.panic, !.fault = u.fault] /\ UNCHANGED fate
  <2>1. /\ unit'.fault = u.fault /\ unit'.panic = u.panic /\ unit'.loc = unit.loc
        /\ unit'.rv = unit.rv /\ unit'.mv = unit.mv /\ unit'.stale = unit.stale
    BY <1>1, <1>3 DEF Unit
  <2>2. SUFFICES ASSUME unit'.fault = "none" PROVE unit'.panic \in Known /\ Coherent(unit', fate')
    BY DEF Values
  <2>3. unit'.panic \in Known /\ unit.fault = "none"
    BY <2>1, <2>2 DEF Ready, Settled, Later
  <2>4. Coherent(unit, fate)
    BY <2>3 DEF Values
  <2>5. unit'.stale = {}
    BY <2>1, <2>4 DEF Coherent
  <2>6. Coherent(unit', fate)
    BY <2>1, <2>4, <2>5, CoherentSame
  <2>7. QED BY <1>3, <2>3, <2>6
<1>4. QED BY <1>2, <1>3 DEF Outcome

LEMMA InitValues == Init => Values
<1> SUFFICES ASSUME Init PROVE Values
  OBVIOUS
<1>1. unit.stale = {} /\ unit.panic = "none" /\ fate = Use!BlockStart
  BY DEF Init, InitUnit
<1>2. Coherent(unit, Use!BlockStart)
  BY <1>1, StartCoherent DEF Init
<1>3. QED BY <1>1, <1>2 DEF Values, Known

\* No handler loses a value that is still needed, reads an old one or stops at
\* an assertion that is not known to fail.
LEMMA NextValues == IInv /\ Values /\ [Next]_vars => Values'
<1> SUFFICES ASSUME IInv, Values, [Next]_vars PROVE Values'
  OBVIOUS
<1>1. CASE UNCHANGED vars
  BY <1>1 DEF vars, Values, Coherent, Kept
<1>2. ASSUME Next PROVE Values'
  <2>1. unit.panic = "none" /\ Handler
    BY <1>2 DEF Next
  <2>2. Ready(unit, unit, fate) /\ fate \in Promises
    BY <2>1, HandlerStart
  <2>3. ASSUME NEW a1 \in Ids, NEW a2 \in Ids, NEW res \in Ids, NEW f1 \in Use!Flags,
               NEW f2 \in Use!Flags, NEW fr \in Use!Flags, Binary(a1, f1, a2, f2, res, fr)
        PROVE  Values'
    <3>1. PICK g2 : g2 = Use!Promise(fate, a2, f2)
      OBVIOUS
    <3>2. PICK g1 : g1 = Use!Promise(g2, a1, f1)
      OBVIOUS
    <3>3. PICK h : h = Use!Promise(g1, res, fr)
      OBVIOUS
    <3>4. PICK v : v = BinaryUnit(unit, a1, f1, a2, f2, res, fr)
      OBVIOUS
    <3>5. MayRead(fate, a2, f2) /\ MayRead(g2, a1, f1) /\ MayWrite(g1, res, fr) /\ Outcome(v, h)
      BY <2>3, <3>1, <3>2, <3>3, <3>4 DEF Binary
    <3>6. Ready(unit, v, h)
      BY <2>2, <3>1, <3>2, <3>3, <3>4, <3>5, BinaryReady
    <3>7. QED BY <2>1, <3>5, <3>6, OutcomeValues
  <2>4. ASSUME NEW a \in Ids, NEW res \in Ids, NEW fa \in Use!Flags, NEW fr \in Use!Flags,
               NEW li \in BOOLEAN, Immediate(a, fa, li, res, fr)
        PROVE  Values'
    <3>1. PICK g : g = Use!Promise(fate, a, fa)
      OBVIOUS
    <3>2. PICK h : h = Use!Promise(g, res, fr)
      OBVIOUS
    <3>3. PICK v : v = ImmediateUnit(unit, a, fa, li, res, fr)
      OBVIOUS
    <3>4. MayRead(fate, a, fa) /\ MayWrite(g, res, fr) /\ Outcome(v, h)
      BY <2>4, <3>1, <3>2, <3>3 DEF Immediate
    <3>5. Ready(unit, v, h)
      BY <2>2, <3>1, <3>2, <3>3, <3>4, ImmediateReady
    <3>6. QED BY <2>1, <3>4, <3>5, OutcomeValues
  <2>5. ASSUME NEW op \in UnaryOp, NEW a \in Ids, NEW res \in Ids, NEW fa \in Use!Flags,
               NEW fr \in Use!Flags, Unary(op, a, fa, res, fr)
        PROVE  Values'
    <3>1. PICK g : g = Use!Promise(fate, a, fa)
      OBVIOUS
    <3>2. PICK h : h = Use!Promise(g, res, fr)
      OBVIOUS
    <3>3. PICK v : v = UnaryUnit(unit, op, a, fa, res, fr)
      OBVIOUS
    <3>4. MayRead(fate, a, fa) /\ MayWrite(g, res, fr) /\ Outcome(v, h)
      BY <2>5, <3>1, <3>2, <3>3 DEF Unary
    <3>5. Ready(unit, v, h)
      BY <2>2, <3>1, <3>2, <3>3, <3>4, UnaryReady
    <3>6. QED BY <2>1, <3>4, <3>5, OutcomeValues
  <2>6. ASSUME NEW p \in Ids, NEW a \in Ids, NEW fp \in Use!Flags, NEW fa \in Use!Flags,
               StoreIndirect(p, fp, a, fa)
        PROVE  Values'
    <3>1. PICK g : g = Use!Promise(fate, a, fa)
      OBVIOUS
    <3>2. PICK h : h = Use!Promise(g, p, fp)
      OBVIOUS
    <3>3. PICK v : v = StoreIndirectUnit(unit, p, fp, a, fa)
      OBVIOUS
    <3>4. p \in Temps /\ MayRead(fate, a, fa) /\ MayRead(g, p, fp) /\ Outcome(v, h)
      BY <2>6, <3>1, <3>2, <3>3 DEF StoreIndirect
    <3>5. Ready(unit, v, h)
      BY <2>2, <3>1, <3>2, <3>3, <3>4, StoreIndirectReady
    <3>6. QED BY <2>1, <3>4, <3>5, OutcomeValues
  <2>7. ASSUME NEW p \in Ids, NEW fp \in Use!Flags, StoreIndirectImm(p, fp)
        PROVE  Values'
    <3>1. PICK h : h = Use!Promise(fate, p, fp)
      OBVIOUS
    <3>2. PICK v : v = StoreIndirectImmUnit(unit, p, fp)
      OBVIOUS
    <3>3. p \in Temps /\ MayRead(fate, p, fp) /\ Outcome(v, h)
      BY <2>7, <3>1, <3>2 DEF StoreIndirectImm
    <3>4. Ready(unit, v, h)
      BY <2>2, <3>1, <3>2, <3>3, StoreIndirectImmReady
    <3>5. QED BY <2>1, <3>3, <3>4, OutcomeValues
  <2>8. ASSUME NEW res \in Ids, NEW fr \in Use!Flags, LoadImmediate(res, fr)
        PROVE  Values'
    <3>1. PICK h : h = Use!Promise(fate, res, fr)
      OBVIOUS
    <3>2. PICK v : v = LoadImmediateUnit(unit, res, fr)
      OBVIOUS
    <3>3. MayWrite(fate, res, fr) /\ Outcome(v, h)
      BY <2>8, <3>1, <3>2 DEF LoadImmediate
    <3>4. Ready(unit, v, h)
      BY <2>2, <3>1, <3>2, <3>3, LoadImmediateReady
    <3>5. QED BY <2>1, <3>3, <3>4, OutcomeValues
  <2>9. ASSUME NEW res \in Ids, NEW fr \in Use!Flags, ConstantPair(res, fr)
        PROVE  Values'
    <3>1. PICK h : h = Use!Promise(fate, res, fr)
      OBVIOUS
    <3>2. PICK v : v = ConstantPairUnit(unit, res, fr)
      OBVIOUS
    <3>3. MayWrite(fate, res, fr) /\ Outcome(v, h)
      BY <2>9, <3>1, <3>2 DEF ConstantPair
    <3>4. Ready(unit, v, h)
      BY <2>2, <3>1, <3>2, <3>3, ConstantPairReady
    <3>5. QED BY <2>1, <3>3, <3>4, OutcomeValues
  <2>10. ASSUME NEW n \in Ids, CondGoto(n) PROVE Values'
    <3>1. PICK v : v = CondGotoUnit(unit, n, LastFlag(n))
      OBVIOUS
    <3>2. PICK g : g = Use!Promise(fate, n, LastFlag(n))
      OBVIOUS
    <3>3. MayRead(fate, n, LastFlag(n)) /\ Use!CanEnd(g) /\ Outcome(v, Use!BlockStart)
      BY <2>10, <3>1, <3>2 DEF CondGoto
    <3>4. Ready(unit, v, Use!BlockStart)
      BY <2>2, <3>1, <3>2, <3>3, CondGotoReady
    <3>5. QED BY <2>1, <3>3, <3>4, OutcomeValues
  <2>11. ASSUME NEW n \in Ids, ReturnValue(n) PROVE Values'
    <3>1. PICK v : v = ReturnUnit(unit, n)
      OBVIOUS
    <3>2. PICK g : g = Use!Promise(fate, n, "out")
      OBVIOUS
    <3>3. Use!CanRead(fate, n) /\ Use!CanEnd(g) /\ Outcome(v, Use!BlockStart)
      BY <2>11, <3>1, <3>2 DEF ReturnValue
    <3>4. Ready(unit, v, Use!BlockStart)
      BY <2>2, <3>1, <3>2, <3>3, ReturnReady
    <3>5. QED BY <2>1, <3>3, <3>4, OutcomeValues
  <2>12. ASSUME NEW line \in BOOLEAN, PlainEnd(line) PROVE Values'
    <3>1. PICK v : v = IF line THEN PlainLine(unit) ELSE unit
      OBVIOUS
    <3>2. Use!CanEnd(fate) /\ Outcome(v, Use!BlockStart)
      BY <2>12, <3>1 DEF PlainEnd
    <3>3. Ready(unit, v, Use!BlockStart)
      BY <2>2, <3>1, <3>2, PlainEndReady
    <3>4. QED BY <2>1, <3>2, <3>3, OutcomeValues
  <2>13. CASE SaveLive
    <3>1. PICK v : v = SaveLiveUnit(unit)
      OBVIOUS
    <3>2. Outcome(v, fate) /\ Ready(unit, v, fate)
      BY <2>2, <2>13, <3>1, SaveLiveReady DEF SaveLive
    <3>3. QED BY <2>1, <3>2, OutcomeValues
  <2>14. CASE EndFunction
    <3>1. PICK v : v = Reset(unit)
      OBVIOUS
    <3>2. Outcome(v, Use!BlockStart) /\ Ready(unit, v, Use!BlockStart)
      BY <2>1, <2>2, <2>14, <3>1, ResetReady DEF EndFunction
    <3>3. QED BY <2>1, <3>2, OutcomeValues
  <2>15. QED BY <2>1, <2>3, <2>4, <2>5, <2>6, <2>7, <2>8, <2>9, <2>10, <2>11, <2>12, <2>13, <2>14
            DEF Handler
<1>3. QED BY <1>1, <1>2

LEMMA AlwaysValues == Spec => [](IInv /\ Values)
<1>1. Init => IInv /\ Values
  BY InitIInv, InitValues
<1>2. (IInv /\ Values) /\ [Next]_vars => (IInv /\ Values)'
  BY NextIInv, NextValues
<1>3. QED BY <1>1, <1>2, PTL DEF Spec

\* However many registers, variables, parameters and temporaries there are: until
\* one of the known faults, no line reads a register that does not hold the
\* latest value of the operand it stands for.
THEOREM AlwaysReadsFresh == Spec => []ReadsFresh
<1>1. IInv /\ Values => ReadsFresh
  BY DEF Values, ReadsFresh, Sound, Coherent
<1>2. QED BY <1>1, AlwaysValues, PTL

\* Until then no eviction, hand-over of a register or skipped store loses the
\* only copy of a value that is still needed: get_reg finds it.
THEOREM AlwaysValuesKept == Spec => []ValuesKept
<1>1. IInv /\ Values => ValuesKept
  BY DEF Values, ValuesKept, Sound, Coherent, Kept, Found
<1>2. QED BY <1>1, AlwaysValues, PTL

\* Until then in_mem, for which store_and_free_reg skips a store, is set only on
\* variables whose home is up to date or which are written next.
THEOREM AlwaysInMemTruthful == Spec => []InMemTruthful
<1>1. IInv /\ Values => InMemTruthful
  <2>1. SUFFICES ASSUME IInv, Values, Sound PROVE \A id \in Vars : fate[id] # "dead" /\ unit.loc[id].in_mem => unit.mv[id]
    BY DEF InMemTruthful
  <2>2. \A id \in Vars : unit.loc[id].in_mem \in BOOLEAN
    BY <2>1, Registers DEF IInv, TypeOK, Unit, Location
  <2>3. QED BY <2>1, <2>2 DEF Values, Sound, Coherent
<1>2. QED BY <1>1, AlwaysValues, PTL

\* Until then every block begins with the variables in their homes and in no
\* register and the parameters in theirs, whichever block ran before.
THEOREM AlwaysBlocksIndependent == Spec => []BlocksIndependent
<1>1. IInv /\ Values => BlocksIndependent
  <2>1. SUFFICES ASSUME IInv, Values, Sound, fate = Use!BlockStart
                 PROVE  /\ \A id \in Vars : unit.loc[id].reg = tINV /\ unit.loc[id].in_mem /\ unit.mv[id]
                        /\ \A id \in Args : unit.rv[NumTempRegs + id] = id
    BY DEF BlocksIndependent
  <2>2. Coherent(unit, fate) /\ Agree(unit)
    BY <2>1 DEF Values, Sound, IInv, TablesAgree
  <2>3. \A id \in Vars \cup Args : fate[id] = "in"
    BY <2>1 DEF Use!BlockStart, Use!Names, NonTemps
  <2>4. \A id \in Vars : unit.loc[id].reg = tINV /\ unit.loc[id].in_mem = TRUE
    BY <2>2, <2>3 DEF Coherent
  <2>5. \A id \in Vars : unit.mv[id] = TRUE
    BY <2>2, <2>3, <2>4 DEF Coherent
  <2>6. \A id \in Args : unit.loc[id].reg = NumTempRegs + id /\ NumTempRegs + id # tINV
    BY <2>2, Registers DEF Agree
  <2>7. \A id \in Args : unit.rv[NumTempRegs + id] = id
    BY <2>2, <2>3, <2>6, Registers DEF Coherent, Kept
  <2>8. QED BY <2>4, <2>5, <2>7
<1>2. QED BY <1>1, AlwaysValues, PTL

\* Until then the assertions of free_reg and store_and_free_reg and those on the
\* load paths of get_reg hold.
THEOREM AlwaysOnlyKnownAborts == Spec => []OnlyKnownAborts
<1>1. IInv /\ Values => OnlyKnownAborts
  BY DEF Values, OnlyKnownAborts, Sound, Known
<1>2. QED BY <1>1, AlwaysValues, PTL

(***************************************************************************)
(* Calls.  CallTypeOK, StackMirrored, CallTablesAgree, ArgumentsArrive and *)
(* CallsKeepValues are invariants of Calls for every number of registers,  *)
(* parameters, variables, temporaries and stack arguments.  First the      *)
(* tables and temp_stack are followed through a call; then the values, by  *)
(* an invariant that relates the words of the machine's stack to what the  *)
(* tables say of the registers they were pushed from.                      *)
(***************************************************************************)
(***************************************************************************)
(* Sets of numbers.                                                        *)
(***************************************************************************)
LEMMA BelowFinite ==
    ASSUME NEW n \in Nat, NEW S \in SUBSET (0 .. n - 1)
    PROVE  IsFiniteSet(S) /\ Cardinality(S) \in Nat
<1>1. IsFiniteSet(0 .. n - 1)
  BY FS_Interval
<1>2. IsFiniteSet(S)
  BY <1>1, FS_Subset
<1>3. QED BY <1>2, FS_CardinalityType

\* A sorted enumeration of S.
Enumerates(q, S) == q \in [1 .. Cardinality(S) -> S] /\ Sorts(q, S)

\* One more number, above all others.
LEMMA EnumeratesMore ==
    ASSUME NEW n \in Nat, NEW S \in SUBSET (0 .. n - 1), NEW q, Enumerates(q, S)
    PROVE  \E p : Enumerates(p, S \cup {n})
<1> DEFINE c == Cardinality(S)
           p == [i \in 1 .. c + 1 |-> IF i = c + 1 THEN n ELSE q[i]]
<1>1. c \in Nat /\ n \notin S /\ IsFiniteSet(S)
  <2>1. n \notin S
    <3>1. n \notin 0 .. n - 1
      OBVIOUS
    <3>2. QED BY <3>1
  <2>2. QED BY <2>1, BelowFinite
<1>2. Cardinality(S \cup {n}) = c + 1
  BY <1>1, FS_AddElement
<1>3. q \in [1 .. c -> S] /\ \A i, j \in 1 .. c : i < j => q[i] < q[j]
  BY DEF Enumerates, Sorts
<1> HIDE DEF c
<1>4. p \in [1 .. c + 1 -> S \cup {n}]
  BY <1>1, <1>3
<1>5. \A i, j \in 1 .. c + 1 : i < j => p[i] < p[j]
  <2>1. SUFFICES ASSUME NEW i \in 1 .. c + 1, NEW j \in 1 .. c + 1, i < j PROVE p[i] < p[j]
    OBVIOUS
  <2>2. i \in 1 .. c /\ i # c + 1
    BY <1>1, <2>1
  <2>6. p[i] = q[i] /\ q[i] \in S
    BY <1>3, <2>2
  <2>7. q[i] \in 0 .. n - 1
    BY <2>6
  <2>3. CASE j = c + 1
    BY <1>1, <2>6, <2>7, <2>3
  <2>4. CASE j # c + 1
    <3>1. j \in 1 .. c /\ p[j] = q[j]
      BY <1>1, <2>1, <2>4
    <3>2. QED BY <1>3, <2>1, <2>2, <2>6, <3>1
  <2>5. QED BY <2>3, <2>4
<1>6. Enumerates(p, S \cup {n})
  BY <1>2, <1>4, <1>5 DEF Enumerates, Sorts
<1>7. QED BY <1>6

LEMMA Enumerated ==
    ASSUME NEW n \in Nat, NEW S \in SUBSET (0 .. n - 1)
    PROVE  \E q : Enumerates(q, S)
<1> DEFINE Bad == {m \in Nat : \E T \in SUBSET (0 .. m - 1) : \A q : ~Enumerates(q, T)}
<1>1. SUFFICES Bad = {}
  OBVIOUS
<1>2. SUFFICES ASSUME Bad # {} PROVE FALSE
  OBVIOUS
<1>3. PICK m \in Bad : \A k \in Bad : m <= k
  <2>1. Bad \in SUBSET Nat
    OBVIOUS
  <2> HIDE DEF Bad
  <2>2. QED BY <1>2, <2>1, LeastNumber
<1>4. m \in Nat
  OBVIOUS
<1>5. PICK T \in SUBSET (0 .. m - 1) : \A q : ~Enumerates(q, T)
  OBVIOUS
<1>6. m # 0
  <2>1. SUFFICES ASSUME m = 0 PROVE FALSE
    OBVIOUS
  <2>2. T = {} /\ Cardinality(T) = 0
    <3>1. T = {}
      BY <2>1
    <3>2. QED BY <3>1, FS_EmptySet
  <2>3. Enumerates([i \in 1 .. 0 |-> i], T)
    BY <2>2 DEF Enumerates, Sorts
  <2>4. QED BY <1>5, <2>3
<1>7. m - 1 \in Nat /\ m - 1 \notin Bad
  BY <1>3, <1>4, <1>6
<1>8. \A U \in SUBSET (0 .. m - 1 - 1) : \E q : Enumerates(q, U)
  BY <1>7
<1>9. CASE m - 1 \notin T
  <2>1. T \in SUBSET (0 .. m - 1 - 1)
    BY <1>4, <1>6, <1>9
  <2>2. QED BY <1>5, <1>8, <2>1
<1>10. CASE m - 1 \in T
  <2>1. T \ {m - 1} \in SUBSET (0 .. m - 1 - 1)
    BY <1>4, <1>6
  <2>2. PICK q : Enumerates(q, T \ {m - 1})
    BY <1>8, <2>1
  <2>3. \E p : Enumerates(p, (T \ {m - 1}) \cup {m - 1})
    BY <1>7, <2>1, <2>2, EnumeratesMore
  <2>4. (T \ {m - 1}) \cup {m - 1} = T
    BY <1>10
  <2>5. QED BY <1>5, <2>3, <2>4
<1>11. QED BY <1>9, <1>10

(***************************************************************************)
(* The unit through a call.                                                *)
(***************************************************************************)
Contents == Ids \cup {None}

\* What is in registers changes, the tables do not.
LEMMA HoldsConsistent ==
    ASSUME NEW u, Consistent(u), NEW rv \in [Reg -> Contents]
    PROVE  Consistent([u EXCEPT !.rv = rv])
<1>1. SameTables(u, [u EXCEPT !.rv = rv])
  BY DEF SameTables, Consistent, Unit, Contents
<1>2. QED BY <1>1, SameTablesConsistent

LEMMA RvType == ASSUME NEW u, Consistent(u), NEW r \in Reg PROVE u.rv[r] \in Contents
BY DEF Consistent, Unit, Contents

LEMMA MoveConsistent ==
    ASSUME NEW u, Consistent(u), NEW r \in Reg, NEW v \in Contents
    PROVE  Consistent(Move(u, r, v))
<1>1. u \in Unit
  BY DEF Consistent
<1> DEFINE rv == [u.rv EXCEPT ![r] = v]
<1>2. rv \in [Reg -> Contents]
  BY <1>1 DEF Unit, Contents
<1>3. Move(u, r, v) = [u EXCEPT !.rv = rv]
  BY DEF Move
<1> HIDE DEF rv
<1>4. QED BY <1>2, <1>3, HoldsConsistent

LEMMA ParamRegType == ASSUME NEW k \in Nat, k < NumRegArgs PROVE ParamReg(k) \in Reg
BY RegAssumption DEF ParamReg, Reg, AReg

\* What an Arg reads is one operand in one register, or nothing.
LEMMA ArgReadConsistent ==
    ASSUME NEW u, Consistent(u), NEW n \in Ids
    PROVE  LET s == LoadOperand(u, n)
               w == ReadLine(s.u, IF n \in Overwritten THEN {} ELSE {<<n, s.r>>})
           IN  Consistent(w) /\ s.r \in Reg /\ Consistent(s.u)
<1> DEFINE s == LoadOperand(u, n)
           rd == IF n \in Overwritten THEN {} ELSE {<<n, s.r>>}
<1>1. Consistent(s.u) /\ s.r \in Reg
  BY LoadOperandConsistent
<1>2. rd \in SUBSET (Ids \X Reg)
  <2> HIDE DEF s
  <2>1. QED BY <1>1
<1> HIDE DEF s, rd
<1>3. Consistent(ReadLine(s.u, rd))
  BY <1>1, <1>2, ReadLineConsistent
<1>4. QED BY <1>1, <1>3 DEF s, rd

LEMMA RegisterArgConsistent ==
    ASSUME NEW u, Consistent(u), NEW k \in Nat, k < NumRegArgs, NEW n \in Ids, NEW flag \in Use!Flags
    PROVE  Consistent(RegisterArgUnit(u, k, n, flag))
<1> DEFINE s == LoadOperand(u, n)
           w == ReadLine(s.u, IF n \in Overwritten THEN {} ELSE {<<n, s.r>>})
           m == Move(w, ParamReg(k), w.rv[s.r])
<1>1. Consistent(w) /\ s.r \in Reg
  BY ArgReadConsistent
<1>2. RegisterArgUnit(u, k, n, flag) = Release(m, s.r, flag)
  BY DEF RegisterArgUnit
<1> HIDE DEF s, w
<1>3. Consistent(m)
  BY <1>1, ParamRegType, RvType, MoveConsistent
<1> HIDE DEF m
<1>4. QED BY <1>2, <1>3, ReleaseConsistent, ContractTypes

LEMMA StackArgConsistent ==
    ASSUME NEW u, Consistent(u), NEW n \in Ids, NEW flag \in Use!Flags
    PROVE  Consistent(StackArgUnit(u, n, flag))
<1> DEFINE s == LoadOperand(u, n)
           w == ReadLine(s.u, IF n \in Overwritten THEN {} ELSE {<<n, s.r>>})
<1>1. Consistent(w) /\ s.r \in Reg
  BY ArgReadConsistent
<1>2. StackArgUnit(u, n, flag) = Release(w, s.r, flag)
  BY DEF StackArgUnit
<1> HIDE DEF s, w
<1>3. QED BY <1>1, <1>2, ReleaseConsistent, ContractTypes

LEMMA ClobberConsistent == ASSUME NEW u, Consistent(u) PROVE Consistent(Clobber(u))
<1>1. [r \in Reg |-> None] \in [Reg -> Contents]
  BY DEF Contents
<1>2. QED BY <1>1, HoldsConsistent DEF Clobber

LEMMA ResultConsistent ==
    ASSUME NEW u, Consistent(u), NEW res \in Temps \cup {None}, NEW flag
    PROVE  Consistent(Result(u, res, flag).u)
<1>1. CASE res = None \/ flag = "dead"
  BY <1>1 DEF Result
<1>2. CASE ~(res = None \/ flag = "dead")
  <2> DEFINE d == LoadOperand(u, res)
             w == Redefine(d.u, d.r, res, res)
  <2>1. res \in Ids
    BY <1>2, Registers
  <2>2. Consistent(d.u) /\ d.r \in Reg
    BY <2>1, LoadOperandConsistent
  <2>3. Result(u, res, flag).u = w
    BY <1>2 DEF Result
  <2> HIDE DEF d
  <2>4. Consistent(w)
    BY <2>1, <2>2, RedefineConsistent
  <2>5. QED BY <2>3, <2>4
<1>3. QED BY <1>1, <1>2

(***************************************************************************)
(* The inductive invariant.                                                *)
(***************************************************************************)
StackOK ==
    /\ temp_stack \in Seq(Reg \cup {At}) /\ stack \in Seq(Contents)
    /\ Len(stack) = Len(temp_stack)

CIInv ==
    /\ IInv
    /\ StackOK
    /\ passed \in Seq(Contents) /\ saved \in BOOLEAN
    /\ loaded \in Temps \cup {None} /\ mishap \in Mishap
    /\ ~Calling => stack = <<>>

LEMMA PushKeeps ==
    ASSUME StackOK, NEW r \in Reg \cup {At}, NEW v \in Contents,
           stack' = Append(stack, v), temp_stack' = Append(temp_stack, r)
    PROVE  StackOK'
BY DEF StackOK, Contents

LEMMA SaveParameterKeeps ==
    ASSUME CIInv, NEW k \in Nat, k < NumRegArgs, SaveParameter(k)
    PROVE  StackOK'
<1>1. CASE SavesParameter(k)
  <2>1. ParamReg(k) \in Reg
    BY ParamRegType
  <2>2. unit.rv[ParamReg(k)] \in Contents
    BY <2>1, RvType DEF CIInv, IInv, TypeOK, TablesAgree, Consistent
  <2>3. stack' = Append(stack, unit.rv[ParamReg(k)]) /\ temp_stack' = Append(temp_stack, ParamReg(k))
    BY <1>1 DEF SaveParameter, Pushed
  <2>4. QED BY <2>1, <2>2, <2>3, PushKeeps DEF CIInv
<1>2. CASE ~SavesParameter(k)
  BY <1>2 DEF SaveParameter, CIInv, StackOK, Contents
<1>3. QED BY <1>1, <1>2

LEMMA BlameType == ASSUME mishap \in Mishap, NEW what \in Mishap, NEW b, Blame(what, b) PROVE mishap' \in Mishap
BY DEF Blame

LEMMA PassedMore ==
    ASSUME passed \in Seq(Contents), NEW v \in Contents, passed' = Append(passed, v)
    PROVE  passed' \in Seq(Contents) /\ passed' # <<>>
BY DEF Contents

LEMMA CallingUnit == ASSUME CIInv PROVE Consistent(unit) /\ fate \in Promises
BY ContractTypes DEF CIInv, IInv, TypeOK, TablesAgree, Consistent

(***************************************************************************)
(* The steps.                                                              *)
(***************************************************************************)
LEMMA CallInitCIInv == CallInit => CIInv
<1> SUFFICES ASSUME CallInit PROVE CIInv
  OBVIOUS
<1>1. IInv
  BY InitIInv DEF CallInit
<1>2. /\ temp_stack = <<>> /\ stack = <<>> /\ passed = <<>> /\ loaded = None
      /\ saved = FALSE /\ mishap \in Mishap
  BY DEF CallInit, Mishap
<1>3. StackOK /\ passed \in Seq(Contents)
  BY <1>2 DEF StackOK
<1>4. QED BY <1>1, <1>2, <1>3 DEF CIInv

LEMMA RegisterArgKeeps ==
    ASSUME CIInv, NEW n \in Ids, NEW flag \in Use!Flags, RegisterArg(n, flag)
    PROVE  CIInv'
<1> DEFINE k == Len(passed)
<1>1. k \in Nat /\ k < NumRegArgs
  BY DEF CIInv, RegisterArg
<1>2. Consistent(RegisterArgUnit(unit, k, n, flag)) /\ Use!Promise(fate, n, flag) \in Promises
  BY <1>1, CallingUnit, RegisterArgConsistent, ContractTypes
<1>3. Outcome(RegisterArgUnit(unit, k, n, flag), Use!Promise(fate, n, flag)) /\ SaveParameter(k)
  BY DEF RegisterArg
<1> HIDE DEF k
<1>4. IInv'
  BY <1>2, <1>3, OutcomeIInv DEF CIInv
<1>5. StackOK'
  BY <1>1, <1>3, SaveParameterKeeps
<1>6. passed' \in Seq(Contents) /\ passed' # <<>>
  BY PassedMore DEF RegisterArg, Contents, CIInv
<1>7. mishap' \in Mishap
  BY BlameType DEF RegisterArg, CIInv, Mishap
<1>8. QED BY <1>4, <1>5, <1>6, <1>7 DEF CIInv, RegisterArg, Calling

LEMMA RegisterConstantKeeps == ASSUME CIInv, RegisterConstant PROVE CIInv'
<1> DEFINE k == Len(passed)
           u == Move(PlainLine(unit), ParamReg(k), Constant)
<1>1. k \in Nat /\ k < NumRegArgs
  BY DEF CIInv, RegisterConstant
<1>2. Consistent(u) /\ fate \in Promises
  BY <1>1, CallingUnit, PlainLineConsistent, ParamRegType, MoveConsistent DEF Contents, Constant
<1>3. Outcome(u, fate) /\ SaveParameter(k)
  BY DEF RegisterConstant
<1> HIDE DEF k, u
<1>4. IInv'
  BY <1>2, <1>3, OutcomeIInv DEF CIInv
<1>5. StackOK'
  BY <1>1, <1>3, SaveParameterKeeps
<1>6. passed' \in Seq(Contents) /\ passed' # <<>>
  BY PassedMore DEF RegisterConstant, Contents, Constant, CIInv
<1>7. QED BY <1>4, <1>5, <1>6 DEF CIInv, RegisterConstant, Calling

LEMMA StackArgKeeps ==
    ASSUME CIInv, NEW n \in Ids, NEW flag \in Use!Flags, StackArg(n, flag)
    PROVE  CIInv'
<1> DEFINE s == LoadOperand(unit, n)
           u == StackArgUnit(unit, n, flag)
           v == s.u.rv[s.r]
<1>1. Consistent(u) /\ Use!Promise(fate, n, flag) \in Promises
  BY CallingUnit, StackArgConsistent, ContractTypes
<1>2. v \in Contents
  <2>1. Consistent(s.u) /\ s.r \in Reg
    BY CallingUnit, LoadOperandConsistent
  <2> HIDE DEF s
  <2>2. QED BY <2>1, RvType
<1>3. /\ Outcome(u, Use!Promise(fate, n, flag)) /\ stack' = Append(stack, v)
      /\ temp_stack' = Append(temp_stack, At)
  BY DEF StackArg
<1> HIDE DEF u, v
<1>4. IInv'
  BY <1>1, <1>3, OutcomeIInv DEF CIInv
<1>5. StackOK'
  BY <1>2, <1>3, PushKeeps DEF CIInv
<1>6. passed' \in Seq(Contents) /\ passed' # <<>>
  BY PassedMore DEF StackArg, Contents, CIInv
<1>7. mishap' \in Mishap
  BY BlameType DEF StackArg, CIInv, Mishap
<1>8. QED BY <1>4, <1>5, <1>6, <1>7 DEF CIInv, StackArg, Calling

LEMMA StackConstantKeeps == ASSUME CIInv, StackConstant PROVE CIInv'
<1>1. Consistent(PlainLine(unit)) /\ fate \in Promises
  BY CallingUnit, PlainLineConsistent
<1>2. IInv'
  BY <1>1, OutcomeIInv DEF CIInv, StackConstant
<1>3. StackOK'
  BY PushKeeps DEF CIInv, StackConstant, Contents, Constant
<1>4. passed' \in Seq(Contents) /\ passed' # <<>>
  BY PassedMore DEF StackConstant, Contents, Constant, CIInv
<1>5. QED BY <1>2, <1>3, <1>4 DEF CIInv, StackConstant, Calling

LEMMA Joined ==
    ASSUME NEW A, NEW s \in Seq(A), NEW q \in Seq(A)
    PROVE  s \o q \in Seq(A) /\ Len(s \o q) = Len(s) + Len(q)
OBVIOUS

\* Pushing one word for each of a list of registers.
LEMMA PushAllKeeps ==
    ASSUME StackOK, NEW c \in Nat, NEW q \in [1 .. c -> Reg], NEW w \in [1 .. c -> Contents],
           stack' = stack \o w, temp_stack' = temp_stack \o q
    PROVE  StackOK'
<1>1. q \in Seq(Reg \cup {At}) /\ Len(q) = c
  <2>1. q \in Seq(Reg)
    OBVIOUS
  <2>2. QED BY <2>1
<1>2. w \in Seq(Contents) /\ Len(w) = c
  OBVIOUS
<1>3. temp_stack' \in Seq(Reg \cup {At}) /\ Len(temp_stack') = Len(temp_stack) + c
  <2>1. temp_stack \in Seq(Reg \cup {At})
    BY DEF StackOK
  <2>2. /\ temp_stack \o q \in Seq(Reg \cup {At})
        /\ Len(temp_stack \o q) = Len(temp_stack) + Len(q)
    BY <1>1, <2>1, Joined
  <2>3. QED BY <1>1, <2>2
<1>4. stack' \in Seq(Contents) /\ Len(stack') = Len(stack) + c
  <2>1. stack \in Seq(Contents)
    BY DEF StackOK
  <2>2. stack \o w \in Seq(Contents) /\ Len(stack \o w) = Len(stack) + Len(w)
    BY <1>2, <2>1, Joined
  <2>3. QED BY <1>2, <2>2
<1>5. Len(stack') = Len(temp_stack')
  BY <1>3, <1>4 DEF StackOK
<1>6. QED BY <1>3, <1>4, <1>5 DEF StackOK, Contents

LEMMA SaveTempsKeeps == ASSUME CIInv, SaveTemps PROVE CIInv'
<1> DEFINE regs == Ascending(SavedRegs)
           w == [i \in DOMAIN regs |-> unit.rv[regs[i]]]
           c == Cardinality(SavedRegs)
<1>1. SavedRegs \in SUBSET (0 .. NumTempRegs - 1) /\ NumTempRegs \in Nat
  BY RegAssumption DEF SavedRegs, TReg
<1>2. c \in Nat
  BY <1>1, BelowFinite
<1>3. regs \in [1 .. c -> SavedRegs]
  <2>1. PICK q : Enumerates(q, SavedRegs)
    BY <1>1, Enumerated
  <2>2. \E p \in [1 .. Cardinality(SavedRegs) -> SavedRegs] : Sorts(p, SavedRegs)
    BY <2>1 DEF Enumerates
  <2>3. QED BY <2>2 DEF Ascending
<1>4. /\ stack' = stack \o w /\ temp_stack' = temp_stack \o regs
      /\ Outcome(SaveLiveUnit(unit), fate)
  BY DEF SaveTemps
<1> HIDE DEF regs, c
<1>5. regs \in [1 .. c -> Reg]
  BY <1>1, <1>3, Registers DEF TReg
<1>6. w \in [1 .. c -> Contents]
  BY <1>5, CallingUnit, RvType
<1> HIDE DEF w
<1>7. StackOK'
  BY <1>2, <1>4, <1>5, <1>6, PushAllKeeps DEF CIInv
<1>8. IInv'
  BY <1>4, CallingUnit, SaveLiveConsistent, OutcomeIInv DEF CIInv
<1>9. QED BY <1>7, <1>8 DEF CIInv, SaveTemps, Calling

\* A register comes back from a word of the stack.
LEMMA PoppedType == ASSUME StackOK, NEW r \in RestoredRegs PROVE Popped(r) \in Contents
<1> DEFINE at == {i \in DOMAIN temp_stack : temp_stack[i] = r}
<1>1. at \in SUBSET Nat /\ at # {}
  BY DEF RestoredRegs, StackOK
<1>2. PICK i \in at : \A j \in at : i <= j
  <2> HIDE DEF at
  <2>1. QED BY <1>1, LeastNumber
<1>3. (CHOOSE k \in at : \A j \in at : k <= j) \in at
  <2> HIDE DEF at
  <2>1. QED BY <1>2
<1>4. \A k \in at : stack[k] \in Contents
  BY DEF StackOK, Contents
<1>5. QED BY <1>3, <1>4 DEF Popped

LEMMA RestoreConsistent == ASSUME StackOK, NEW u, Consistent(u) PROVE Consistent(Restore(u))
<1> DEFINE rv == [r \in Reg |-> IF r \in RestoredRegs THEN Popped(r) ELSE u.rv[r]]
<1>1. rv \in [Reg -> Contents]
  BY PoppedType, RvType
<1>2. Restore(u) = [u EXCEPT !.rv = rv]
  BY DEF Restore
<1> HIDE DEF rv
<1>3. QED BY <1>1, <1>2, HoldsConsistent

LEMMA CallKeeps ==
    ASSUME CIInv, NEW res \in Temps \cup {None}, NEW flag \in {"next", "dead"}, Call(res, flag)
    PROVE  CIInv'
<1> DEFINE d == Result(Clobber(unit), res, flag)
           f == IF res = None THEN fate ELSE Use!Promise(fate, res, flag)
<1>1. Consistent(d.u)
  BY CallingUnit, ClobberConsistent, ResultConsistent
<1>2. f \in Promises
  BY CallingUnit, ContractTypes, Registers
<1>3. Outcome(Restore(d.u), f)
  BY DEF Call
<1>4. mishap' \in Mishap
  <2>1. CASE Unsaved
    <3>1. Blame("unsaved", TRUE)
      BY <2>1 DEF Call
    <3>2. QED BY <3>1, BlameType DEF CIInv, Mishap
  <2>2. CASE ~Unsaved /\ Unpushed
    <3>1. Blame("unpushed", TRUE)
      BY <2>2 DEF Call
    <3>2. QED BY <3>1, BlameType DEF CIInv, Mishap
  <2>3. CASE ~Unsaved /\ ~Unpushed
    <3>1. Blame("reloaded", d.r \in RestoredRegs)
      BY <2>3 DEF Call
    <3>2. QED BY <3>1, BlameType DEF CIInv, Mishap
  <2>4. QED BY <2>1, <2>2, <2>3
<1> HIDE DEF d, f
<1>5. IInv'
  BY <1>1, <1>2, <1>3, RestoreConsistent, OutcomeIInv DEF CIInv
<1>6. /\ temp_stack' = <<>> /\ stack' = <<>> /\ passed' = <<>> /\ saved' = FALSE /\ loaded' = loaded
  BY DEF Call
<1>7. StackOK' /\ passed' \in Seq(Contents)'
  BY <1>6 DEF StackOK
<1>8. QED BY <1>4, <1>5, <1>6, <1>7 DEF CIInv

\* What CodeGen does between calls, and the load of an argument's operand.
LEMMA HandlerKeeps == ASSUME CIInv, unit.panic = "none", Handler PROVE IInv'
BY NextIInv DEF CIInv, Next

LEMMA OtherKeeps == ASSUME CIInv, unit.panic = "none", Other PROVE CIInv'
<1>1. IInv'
  BY HandlerKeeps DEF Other
<1>2. UNCHANGED <<temp_stack, stack, passed, loaded, saved, mishap>>
  BY DEF Other
<1>3. QED BY <1>1, <1>2 DEF CIInv, StackOK, Calling

LEMMA LoadThroughKeeps ==
    ASSUME CIInv, unit.panic = "none", NEW p \in Temps, NEW res \in Temps, NEW fp \in {"next", "dead"},
           LoadThrough(p, fp, res)
    PROVE  CIInv'
<1>1. Handler
  <2>1. Unary("!", p, fp, res, "next") /\ p \in Ids /\ res \in Ids
    BY Registers DEF LoadThrough
  <2>2. "!" \in UnaryOp /\ fp \in Use!Flags /\ "next" \in Use!Flags
    BY ContractTypes DEF UnaryOp
  <2>3. QED BY <2>1, <2>2 DEF Handler
<1>2. IInv'
  BY <1>1, HandlerKeeps
<1>3. UNCHANGED <<temp_stack, stack, passed, saved, mishap>> /\ loaded' = res /\ loaded' # None
  BY Registers DEF LoadThrough
<1>4. QED BY <1>2, <1>3 DEF CIInv, StackOK, Calling

LEMMA CallNextCIInv == ASSUME CIInv, [CallNext]_callVars PROVE CIInv'
<1>1. CASE CallNext
  <2>1. unit.panic = "none"
    BY <1>1 DEF CallNext
  <2>2. CASE CallHandler
    BY <2>1, <2>2, RegisterArgKeeps, RegisterConstantKeeps, StackArgKeeps, StackConstantKeeps, SaveTempsKeeps,
       CallKeeps, LoadThroughKeeps DEF CallHandler
  <2>3. CASE Other
    BY <2>1, <2>3, OtherKeeps
  <2>4. QED BY <1>1, <2>2, <2>3 DEF CallNext
<1>2. CASE UNCHANGED callVars
  BY <1>2 DEF callVars, CIInv, IInv, TypeOK, TablesAgree, Use!ContractTypeOK, StackOK, Calling
<1>3. QED BY <1>1, <1>2

LEMMA CallSpecCIInv == CallSpec => []CIInv
BY CallInitCIInv, CallNextCIInv, PTL DEF CallSpec

(***************************************************************************)
(* The theorems.                                                           *)
(***************************************************************************)

\* The allocator's tables, temp_stack and the machine's stack keep their types
\* through process_arg, process_save_live and process_call.
THEOREM CallsTypeCorrect == CallSpec => []CallTypeOK
<1>1. CIInv => CallTypeOK
  BY DEF CIInv, IInv, StackOK, CallTypeOK, Contents
<1>2. QED BY <1>1, CallSpecCIInv, PTL

\* process_call pops exactly what process_arg and process_save_live have
\* pushed: temp_stack has an entry for every word, and none is left after it.
THEOREM CallsMirrorStack == CallSpec => []StackMirrored
<1>1. CIInv => StackMirrored
  BY DEF CIInv, StackOK, StackMirrored
<1>2. QED BY <1>1, CallSpecCIInv, PTL

\* No argument, saved temporary or result leaves reg_alloc_info and
\* memory_locations in disagreement.
THEOREM CallsTablesAgree == CallSpec => []CallTablesAgree
<1>1. CIInv => CallTablesAgree
  BY DEF CIInv, IInv, TablesAgree, CallTablesAgree
<1>2. QED BY <1>1, CallSpecCIInv, PTL

(***************************************************************************)
(* Values through a call.  While its arguments are passed, the caller's    *)
(* parameters leave $a0..$a3, so that the unit is coherent without them.   *)
(***************************************************************************)

\* The promises f when nothing of S is needed any more.
Without(f, S) == [id \in Ids |-> IF id \in S THEN "dead" ELSE f[id]]

LEMMA WithoutIs ==
    ASSUME NEW f \in Promises, NEW S, NEW g, g = Without(f, S)
    PROVE  /\ g \in Promises
           /\ \A id \in Ids : (id \in S => g[id] = "dead") /\ (id \notin S => g[id] = f[id])
BY DEF Without, Promises

\* h asks for less than g, or for a parameter that is in its register.
Recoverable(u, g, h) ==
    \A id \in Ids : \/ h[id] = g[id] \/ h[id] = "dead"
                    \/ id \in Args /\ u.rv[ParamReg(id)] = id

LEMMA Recovered ==
    ASSUME NEW u, Consistent(u), NEW g, Coherent(u, g), NEW h, Recoverable(u, g, h)
    PROVE  Coherent(u, h)
<1>1. Agree(u)
  BY DEF Consistent
<1>2. \A id \in Args : u.rv[ParamReg(id)] = id => Kept(u, id)
  BY <1>1, Registers DEF Agree, Kept, ParamReg
<1>3. \A id \in Ids : h[id] # "dead" => Kept(u, id)
  BY <1>2 DEF Coherent, Recoverable
<1>4. \A id \in Vars : id \in Ids /\ (h[id] = g[id] \/ h[id] = "dead")
  BY Registers, IdAssumption DEF Recoverable
<1>5. \A id \in Vars : (h[id] # "dead" /\ u.loc[id].in_mem = TRUE) => u.mv[id] = TRUE
  BY <1>4 DEF Coherent
<1>6. \A id \in Vars : h[id] \in {"in", "out"} => u.loc[id].reg = tINV /\ u.loc[id].in_mem = TRUE
  BY <1>4 DEF Coherent
<1>7. QED BY <1>3, <1>5, <1>6 DEF Coherent

\* A parameter that is kept is in its register.
LEMMA ParameterKept ==
    ASSUME NEW u, Consistent(u), NEW id \in Args
    PROVE  u.loc[id].reg = ParamReg(id) /\ (Kept(u, id) <=> u.rv[ParamReg(id)] = id)
<1>1. u.loc[id].reg = NumTempRegs + id /\ NumTempRegs + id # tINV
  BY Registers DEF Consistent, Agree
<1>2. QED BY <1>1 DEF Kept, ParamReg

\* Temporaries, except for n, have the registers in v that they have in u.
Stay(u, v, n) == \A t \in Temps : t # n => v.loc[t].reg = u.loc[t].reg

\* What is forgotten between two instructions.
LEMMA ForgetKeeps ==
    ASSUME NEW u \in Unit, NEW f, NEW v, v = Forget(u, f)
    PROVE  /\ v.fault = u.fault /\ v.panic = u.panic
           /\ \A id \in Ids : v.loc[id].reg = u.loc[id].reg
           /\ u.fault = "none" => \A q \in AReg : v.rv[q] = u.rv[q]
<1> DEFINE loc == [id \in Ids |-> IF id \in Temps /\ f[id] = "dead" /\ u.loc[id].reg = tINV
                                  THEN InitLocation(id) ELSE u.loc[id]]
           rv  == [r \in Reg |-> IF u.fault # "none" \/ (r \in TReg /\ u.rv[r] # u.reg_alloc_info[r])
                                 THEN None ELSE u.rv[r]]
           mv  == [id \in Ids |-> u.fault = "none" /\ u.mv[id]]
           st  == IF u.fault = "none" THEN u.stale ELSE {}
<1>1. v = [u EXCEPT !.loc = loc, !.rv = rv, !.mv = mv, !.stale = st]
  BY DEF Forget
<1>2. \A id \in Ids : loc[id].reg = u.loc[id].reg
  BY IdAssumption DEF InitLocation
<1>3. \A q \in AReg : q \in Reg /\ q \notin TReg
  BY RegAssumption DEF Reg, AReg, TReg
<1>4. u.fault = "none" => \A q \in AReg : rv[q] = u.rv[q]
  BY <1>3
<1> HIDE DEF loc, rv, mv, st
<1>5. v.loc = loc /\ v.rv = rv /\ v.fault = u.fault /\ v.panic = u.panic
  BY <1>1 DEF Unit
<1>6. QED BY <1>2, <1>4, <1>5

\* Only what is promised of temporaries tells what is forgotten.
LEMMA ForgetSame ==
    ASSUME NEW u, NEW f, NEW g, \A t \in Temps : f[t] = g[t]
    PROVE  Forget(u, f) = Forget(u, g)
<1>1. \A id \in Ids : (id \in Temps /\ f[id] = "dead" /\ u.loc[id].reg = tINV)
                      <=> (id \in Temps /\ g[id] = "dead" /\ u.loc[id].reg = tINV)
  OBVIOUS
<1>2. QED BY <1>1, ZenonT(40) DEF Forget

\* An instruction that went well.
LEMMA WentWell ==
    ASSUME unit \in Unit, NEW u \in Unit, NEW f, Outcome(u, f), unit'.fault = "none", unit'.panic = "none"
    PROVE  Good(u) /\ unit' = Forget(u, f) /\ fate' = f
<1>1. u.panic = "none"
  <2>1. SUFFICES ASSUME u.panic # "none" PROVE FALSE
    OBVIOUS
  <2>2. unit' = [unit EXCEPT !.panic = u.panic, !.fault = u.fault]
    BY <2>1 DEF Outcome
  <2>3. unit'.panic = u.panic
    BY <2>2 DEF Unit
  <2>4. QED BY <2>1, <2>3
<1>2. unit' = Forget(u, f) /\ fate' = f
  BY <1>1 DEF Outcome
<1>3. unit'.fault = u.fault
  BY <1>2, ForgetKeeps
<1>4. QED BY <1>1, <1>2, <1>3 DEF Good

\* What holds after it; g are the promises without the parameters that have
\* left their registers.
LEMMA Emitted ==
    ASSUME unit \in Unit, NEW u, NEW f, NEW g, Ready(unit, u, g), \A t \in Temps : f[t] = g[t],
           Outcome(u, f), unit'.fault = "none", unit'.panic = "none"
    PROVE  /\ Good(u) /\ fate' = f /\ Coherent(unit', g)
           /\ \A id \in Ids : unit'.loc[id].reg = u.loc[id].reg
           /\ \A q \in AReg : unit'.rv[q] = u.rv[q]
<1>1. Consistent(u) /\ u \in Unit
  BY DEF Ready, Consistent
<1>2. Good(u) /\ unit' = Forget(u, f) /\ fate' = f
  BY <1>1, WentWell
<1>3. /\ \A id \in Ids : unit'.loc[id].reg = u.loc[id].reg
      /\ \A q \in AReg : unit'.rv[q] = u.rv[q]
  BY <1>1, <1>2, ForgetKeeps DEF Good
<1>4. Coherent(u, g)
  BY <1>2, ReadyGood
<1>5. unit' = Forget(u, g)
  BY <1>2, ForgetSame
<1>6. Coherent(unit', g)
  BY <1>1, <1>2, <1>4, <1>5, ForgetCoherent DEF Good
<1>7. QED BY <1>2, <1>3, <1>6

\* A load changes no register of a parameter.
LEMMA LoadQuiet ==
    ASSUME NEW u, Consistent(u), Good(u), NEW a \in Ids, NEW g, g = LoadOperand(u, a), Good(g.u)
    PROVE  \A q \in AReg : g.u.rv[q] = u.rv[q]
<1>1. u \in Unit /\ \A q \in AReg : q \in Reg /\ q \notin TReg
  BY RegAssumption DEF Consistent, Reg, AReg, TReg
<1>2. g = GetReg(u, tINV, a, 2, TRUE)
  BY DEF LoadOperand
<1>3. CASE u.loc[a].reg # tINV
  BY <1>2, <1>3, KeepInMem DEF GetReg
<1>4. CASE u.loc[a].reg = tINV
  <2>1. 2 \in {0, 2} /\ TRUE \in BOOLEAN /\ (tINV \in TReg => u.reg_alloc_info[tINV] = None)
    BY Registers
  <2>2. g.u.panic = "empty_reg" \/ \E w \in Unit : TakesReg(u, a, g, w, 2, TRUE)
    BY <1>2, <1>4, <2>1, GetRegParts DEF Good
  <2>3. PICK w \in Unit : TakesReg(u, a, g, w, 2, TRUE)
    BY <2>2 DEF Good
  <2>4. g.r \in TReg /\ g.r \in Reg /\ w.rv = u.rv /\ w.fault = u.fault /\ w.panic = u.panic
    BY <2>3, Registers DEF TakesReg
  <2>5. CASE u.loc[a].known
    <3>1. g.u = Fetch(w, g.r, a, TRUE)
      BY <2>3, <2>5, KeepInMem DEF TakesReg
    <3>2. Abort(w, "load").panic # "none"
      BY AbortLater DEF Panic, Later
    <3>3. g.u = IssueLoad(w, g.r, a)
      BY <3>1, <3>2 DEF Fetch, Good
    <3>4. w.loc[a].home
      BY <3>2, <3>3 DEF IssueLoad, Good
    <3>5. Swallow(w).fault # "none"
      BY SwallowLater
    <3>6. g.u = Loaded(w, g.r, a)
      BY <3>3, <3>4, <3>5 DEF IssueLoad, Good, Loaded
    <3>7. \A q \in Reg : q # g.r => g.u.rv[q] = w.rv[q]
      BY <2>4, <3>6 DEF Loaded, Unit
    <3>8. QED BY <1>1, <2>4, <3>7
  <2>6. CASE ~u.loc[a].known
    <3>1. g.u = Named(w, a)
      BY <2>3, <2>6 DEF TakesReg
    <3>2. g.u.rv = w.rv
      BY <3>1, NamedIs
    <3>3. QED BY <2>4, <3>2
  <2>7. QED BY <2>5, <2>6
<1>5. QED BY <1>3, <1>4

\* No temporary moves and no parameter's register changes.
Quiet(u, v) == (\A t \in Temps : v.loc[t].reg = u.loc[t].reg) /\ (\A q \in AReg : v.rv[q] = u.rv[q])

\* An operand that is still needed, loaded for an Arg.
LEMMA OperandLoaded ==
    ASSUME NEW o, NEW u, NEW f, Ready(o, u, f), NEW n \in Ids, f[n] # "dead",
           NEW p, Changes(f, p, n), p[n] = "next", NEW s, s = LoadOperand(u, n)
    PROVE  /\ Ready(o, s.u, p) /\ s.r \in Reg /\ Consistent(s.u)
           /\ Good(s.u) => Good(u) /\ Holds(s.u, n, s.r) /\ Quiet(u, s.u)
<1>1. /\ Ready(o, s.u, p) /\ Consistent(s.u) /\ s.r \in Reg /\ Later(u, s.u)
      /\ Good(s.u) => Holds(s.u, n, s.r) /\ Others(u, s.u, n)
      /\ u.loc[n].reg # tINV => s.u = u /\ s.r = u.loc[n].reg
  BY LoadReady
<1>2. SUFFICES ASSUME Good(s.u) PROVE Good(u) /\ Quiet(u, s.u)
  BY <1>1
<1>3. Good(u) /\ Consistent(u)
  BY <1>1, <1>2, GoodLater DEF Ready
<1>4. \A q \in AReg : s.u.rv[q] = u.rv[q]
  BY <1>2, <1>3, LoadQuiet
<1>5. Coherent(u, f)
  BY <1>3, ReadyGood
<1>6. n \in Temps => u.loc[n].reg # tINV
  BY <1>5, IdAssumption DEF Coherent, Kept
<1>7. \A t \in Temps : s.u.loc[t].reg = u.loc[t].reg
  BY <1>1, <1>2, <1>6, Registers DEF Others
<1>8. QED BY <1>3, <1>4, <1>7 DEF Quiet

\* The line of an Arg reads the one register it is meant to.
LEMMA ArgRead ==
    ASSUME NEW o, NEW u, NEW f, Ready(o, u, f), NEW n \in Ids, f[n] # "dead",
           NEW p, Changes(f, p, n), p[n] = "next", NEW s, s = LoadOperand(u, n),
           NEW rd, rd = {<<n, s.r>>}, NEW w, w = ReadLine(s.u, rd)
    PROVE  /\ Ready(o, w, p) /\ Consistent(w) /\ s.r \in Reg
           /\ Good(w) => /\ Good(u) /\ Good(s.u) /\ s.u.rv[s.r] = n
                         /\ Holds(w, n, s.r) /\ Quiet(u, w)
<1>1. /\ Ready(o, s.u, p) /\ s.r \in Reg /\ Consistent(s.u)
      /\ Good(s.u) => Good(u) /\ Holds(s.u, n, s.r) /\ Quiet(u, s.u)
  BY OperandLoaded
<1>2. rd \in SUBSET (Ids \X Reg)
  BY <1>1
<1>3. Good(s.u) => ReadsFound(s.u, rd)
  BY <1>1 DEF ReadsFound, Holds
<1>4. /\ Ready(o, w, p) /\ Consistent(w) /\ Later(s.u, w)
      /\ Good(w) => w.loc = s.u.loc /\ w.rv = s.u.rv
  BY <1>1, <1>2, <1>3, ReadReady
<1>5. QED BY <1>1, <1>4, GoodLater DEF Holds, Quiet

\* Overwriting the register of a parameter that is not needed any more, or with
\* what it holds anyway.
LEMMA MoveReady ==
    ASSUME NEW o, NEW u, NEW p, Ready(o, u, p), NEW r \in AReg, NEW x \in Contents,
           NEW h, \A id \in Ids : h[id] = p[id] \/ h[id] = "dead",
           Good(u) => \A id \in Args : r = ParamReg(id) => h[id] = "dead" \/ x = id,
           NEW v, v = Move(u, r, x)
    PROVE  /\ Ready(o, v, h) /\ Consistent(v) /\ v.loc = u.loc /\ v.fault = u.fault /\ v.panic = u.panic
           /\ v.rv[r] = x /\ \A q \in Reg : q # r => v.rv[q] = u.rv[q]
<1>1. Consistent(u) /\ u \in Unit /\ r \in Reg /\ r \notin TReg
  BY RegAssumption DEF Ready, Consistent, Reg, AReg, TReg
<1>2. Consistent(v)
  BY <1>1, MoveConsistent
<1>3. /\ v.loc = u.loc /\ v.mv = u.mv /\ v.stale = u.stale /\ v.fault = u.fault /\ v.panic = u.panic
      /\ v.rv[r] = x /\ \A q \in Reg : q # r => v.rv[q] = u.rv[q]
  BY <1>1 DEF Move, Unit
<1>4. Later(u, v)
  BY <1>3, LaterSame
<1>5. ASSUME Good(u), Coherent(u, p), v.fault = "none" PROVE v.panic = "none" /\ Coherent(v, h)
  <2>1. ASSUME NEW id \in Ids, h[id] # "dead" PROVE Kept(v, id)
    <3>1. Kept(u, id)
      BY <1>5, <2>1 DEF Coherent
    <3>2. CASE id \in Args
      <4>1. u.rv[ParamReg(id)] = id /\ u.loc[id].reg = ParamReg(id)
        BY <1>1, <3>1, <3>2, ParameterKept
      <4>2. ParamReg(id) \in Reg
        BY <3>2, Registers DEF ParamReg
      <4>3. v.rv[ParamReg(id)] = id
        BY <1>3, <1>5, <2>1, <3>2, <4>1, <4>2
      <4>4. QED BY <1>2, <3>2, <4>3, ParameterKept
    <3>3. CASE id \notin Args
      <4>1. u.loc[id].reg \in TReg \cup {tINV}
        BY <1>5, <3>3 DEF Coherent
      <4>2. u.loc[id].reg # tINV => v.rv[u.loc[id].reg] = u.rv[u.loc[id].reg]
        BY <1>1, <1>3, <4>1, Registers
      <4>3. QED BY <1>3, <3>1, <4>2 DEF Kept
    <3>4. QED BY <3>2, <3>3
  <2>2. \A id \in Vars : id \in Ids /\ (h[id] = p[id] \/ h[id] = "dead")
    BY Registers
  <2>3. \A id \in Vars : (h[id] # "dead" /\ v.loc[id].in_mem = TRUE) => v.mv[id] = TRUE
    BY <1>3, <1>5, <2>2 DEF Coherent
  <2>4. \A id \in Vars : h[id] \in {"in", "out"} => v.loc[id].reg = tINV /\ v.loc[id].in_mem = TRUE
    BY <1>3, <1>5, <2>2 DEF Coherent
  <2>5. Coherent(v, h)
    BY <1>3, <1>5, <2>1, <2>3, <2>4 DEF Coherent
  <2>6. QED BY <1>3, <1>5, <2>5 DEF Good
<1>6. Ready(o, v, h)
  BY <1>2, <1>4, <1>5, ReadyStep DEF Known
<1>7. QED BY <1>2, <1>3, <1>6

(***************************************************************************)
(* The inductive invariant.                                                *)
(***************************************************************************)

\* The promises without the parameters that have been overwritten.
Intact == Without(fate, Overwritten)

\* Apart from the parameters, what is needed is kept; and a parameter that is
\* needed is in its register unless an argument has been passed there.
UnitKept ==
    /\ Coherent(unit, Without(fate, Args))
    /\ \A id \in Overwritten : fate[id] # "dead" => id < Len(passed)

InRegisters == \A k \in 1 .. Len(passed) : k <= NumRegArgs => unit.rv[ParamReg(k - 1)] = passed[k]

OnStack ==
    \A k \in 1 .. Len(passed) : k > NumRegArgs =>
        /\ Len(stack) - Len(passed) + k \in 1 .. Len(stack)
        /\ stack[Len(stack) - Len(passed) + k] = passed[k]

\* Until SaveLive the registers are not used up.
RegistersFirst == ~saved => Len(passed) <= NumRegArgs

\* What the call must bring back: the operand that is loaded for an Arg is used up by it.
Living == {id \in Temps \cup Args : fate[id] # "dead" /\ id # loaded}

\* A word that was pushed from the register of something needed is that.
WordsRight ==
    \A i \in 1 .. Len(temp_stack) : \A id \in Living : temp_stack[i] = unit.loc[id].reg => stack[i] = id

\* SaveLive has pushed all temporaries that are needed.
TempsPushed ==
    saved => \A id \in Living : id \in Temps => \E i \in 1 .. Len(temp_stack) : temp_stack[i] = unit.loc[id].reg

CallKept ==
    Right => /\ UnitKept
             /\ InRegisters /\ OnStack
             /\ RegistersFirst /\ WordsRight /\ TempsPushed

LEMMA AllParamRegs ==
    /\ \A k \in Nat : k < NumRegArgs => ParamReg(k) \in AReg /\ ParamReg(k) \in Reg
    /\ \A j, k \in Nat : ParamReg(j) = ParamReg(k) => j = k
    /\ \A id \in Args : id \in Nat /\ id < NumRegArgs
    /\ \A q \in AReg : q \in Nat /\ q \notin TReg /\ q # At /\ q # tINV
    /\ At \notin Reg \cup {tINV}
BY RegAssumption DEF ParamReg, AReg, Reg, TReg, At, tINV

\* What a step of a call begins with.
LEMMA CallStart ==
    ASSUME CIInv, CallKept, Right
    PROVE  /\ Consistent(unit) /\ unit \in Unit /\ fate \in Promises
           /\ Ready(unit, unit, Intact) /\ Intact \in Promises
           /\ \A id \in Ids : (id \in Overwritten => Intact[id] = "dead") /\ (id \notin Overwritten => Intact[id] = fate[id])
<1>1. Consistent(unit) /\ unit \in Unit /\ fate \in Promises
  BY CallingUnit DEF Consistent
<1>2. PICK g : g = Without(fate, Args)
  OBVIOUS
<1>3. PICK h : h = Intact
  OBVIOUS
<1>4. \A id \in Ids : (id \in Args => g[id] = "dead") /\ (id \notin Args => g[id] = fate[id])
  BY <1>1, <1>2, WithoutIs
<1>5. /\ h \in Promises
      /\ \A id \in Ids : (id \in Overwritten => h[id] = "dead") /\ (id \notin Overwritten => h[id] = fate[id])
  BY <1>1, <1>3, WithoutIs DEF Intact
<1>6. Coherent(unit, g)
  BY <1>2 DEF CallKept, UnitKept
<1>7. Recoverable(unit, g, h)
  BY <1>4, <1>5 DEF Recoverable, Overwritten
<1>8. Coherent(unit, h)
  BY <1>1, <1>6, <1>7, Recovered
<1>9. Ready(unit, unit, h)
  BY <1>1, <1>8, LaterSame DEF Ready, Settled, Right, Sound, Known
<1>10. QED BY <1>1, <1>3, <1>5, <1>9

\* g tells what is needed after a step.
LEMMA UnitKeptStep ==
    ASSUME CIInv', NEW g, Coherent(unit', g), \A id \in Ids \ Args : g[id] = fate'[id],
           \A id \in Args : fate'[id] # "dead" => g[id] # "dead" \/ id < Len(passed')
    PROVE  UnitKept'
<1>1. Consistent(unit') /\ fate' \in Promises
  <2>1. CIInv' => Consistent(unit') /\ unit' \in Unit
    BY DEF CIInv, IInv, TypeOK, TablesAgree, Consistent
  <2>2. CIInv' => fate' \in Promises
    BY DEF CIInv, IInv, TypeOK, Use!ContractTypeOK, Promises, Use!Names, Use!Flags, NonTemps, Ids
  <2>3. QED BY <2>1, <2>2
<1>2. PICK h : h = Without(fate', Args)
  OBVIOUS
<1>3. \A id \in Ids : (id \in Args => h[id] = "dead") /\ (id \notin Args => h[id] = fate'[id])
  BY <1>1, <1>2, WithoutIs
<1>4. Recoverable(unit', g, h)
  BY <1>3 DEF Recoverable
<1>5. Coherent(unit', h)
  BY <1>1, <1>4, Recovered
<1>6. \A id \in Overwritten' : fate'[id] # "dead" => id < Len(passed')
  <2>1. SUFFICES ASSUME NEW id \in Args, unit'.rv[ParamReg(id)] # id, fate'[id] # "dead" PROVE id < Len(passed')
    BY DEF Overwritten
  <2>2. ~Kept(unit', id)
    BY <1>1, <2>1, ParameterKept
  <2>3. g[id] = "dead"
    BY <2>1, <2>2, Registers DEF Coherent
  <2>4. QED BY <2>1, <2>3
<1>7. QED BY <1>2, <1>5, <1>6 DEF UnitKept

\* Nothing comes to life in a step, and what is alive stays where it is.
Survive == \A id \in Living' : id \in Living /\ unit'.loc[id].reg = unit.loc[id].reg

LEMMA SurviveStep ==
    ASSUME CIInv, CIInv', NEW n, Stay(unit, unit', n) \/ Stay(unit, unit', None),
           Stay(unit, unit', None) \/ n \notin Living',
           \A id \in Ids : id \in Living' => id \in Living
    PROVE  Survive
<1>1. \A id \in Args : unit.loc[id].reg = NumTempRegs + id /\ unit'.loc[id].reg = NumTempRegs + id
  BY DEF CIInv, IInv, TablesAgree, Agree
<1>2. \A id \in Temps : id # None /\ id \in Ids
  BY Registers
<1>3. \A id \in Living' : id \in Temps \/ id \in Args
  BY DEF Living
<1>4. \A id \in Args : id \in Ids
  BY Registers
<1>5. QED BY <1>1, <1>2, <1>3, <1>4 DEF Survive, Stay

\* One more word.
LEMMA WordPushed ==
    ASSUME CIInv, WordsRight, Survive, NEW r, NEW x, stack' = Append(stack, x), temp_stack' = Append(temp_stack, r),
           \A id \in Living' : r = unit'.loc[id].reg => x = id
    PROVE  WordsRight'
<1>1. /\ temp_stack \in Seq(Reg \cup {At}) /\ stack \in Seq(Contents) /\ Len(stack) = Len(temp_stack)
  BY DEF CIInv, StackOK
<1>2. Len(temp_stack') = Len(temp_stack) + 1
  BY <1>1
<1>3. \A i \in 1 .. Len(temp_stack) : temp_stack'[i] = temp_stack[i] /\ stack'[i] = stack[i]
  BY <1>1
<1>4. temp_stack'[Len(temp_stack) + 1] = r /\ stack'[Len(temp_stack) + 1] = x
  BY <1>1
<1>5. ASSUME NEW i \in 1 .. Len(temp_stack'), NEW id \in Living', temp_stack'[i] = unit'.loc[id].reg PROVE stack'[i] = id
  <2>1. id \in Living /\ unit'.loc[id].reg = unit.loc[id].reg
    BY <1>5 DEF Survive
  <2>2. CASE i \in 1 .. Len(temp_stack)
    BY <1>3, <1>5, <2>1, <2>2 DEF WordsRight
  <2>3. CASE i \notin 1 .. Len(temp_stack)
    <3>1. i = Len(temp_stack) + 1
      BY <1>1, <1>2, <2>3
    <3>2. QED BY <1>4, <1>5, <3>1
  <2>4. QED BY <2>2, <2>3
<1>6. QED BY <1>5 DEF WordsRight

LEMMA WordsStay ==
    ASSUME WordsRight, Survive, stack' = stack, temp_stack' = temp_stack PROVE WordsRight'
BY DEF WordsRight, Survive

LEMMA TempsStayPushed ==
    ASSUME CIInv, TempsPushed, Survive, saved' = saved,
           temp_stack' = temp_stack \/ \E r : temp_stack' = Append(temp_stack, r)
    PROVE  TempsPushed'
<1>1. temp_stack \in Seq(Reg \cup {At})
  BY DEF CIInv, StackOK
<1>2. \A i \in 1 .. Len(temp_stack) : i \in 1 .. Len(temp_stack') /\ temp_stack'[i] = temp_stack[i]
  BY <1>1
<1>3. QED BY <1>2 DEF TempsPushed, Survive

(***************************************************************************)
(* An Arg for a register.                                                  *)
(***************************************************************************)

\* What Right says of the next state, when it follows from this one.
LEMMA RightNext ==
    ASSUME Right'
    PROVE  unit'.fault = "none" /\ unit'.panic = "none" /\ mishap' = "none"
BY DEF Right, Sound

LEMMA Blameless ==
    ASSUME NEW what \in Mishap \ {"none"}, NEW happens \in BOOLEAN, Blame(what, happens), mishap' = "none"
    PROVE  mishap = "none" /\ ~happens
BY DEF Blame

\* The unit after an Arg's instruction: x is what it read, and d are the
\* promises from there on, without the parameters that have been overwritten.
LEMMA RegisterArgUnitReady ==
    ASSUME NEW o, NEW u, NEW f \in Promises, Ready(o, u, f), NEW n \in Ids, NEW flag \in Use!Flags,
           n \notin Overwritten, MayRead(f, n, flag), NEW k \in Nat, k < NumRegArgs,
           NEW v, v = RegisterArgUnit(u, k, n, flag)
    PROVE  \E d : /\ Ready(o, v, d) /\ d[n] = flag
                  /\ \A id \in Ids : id # n => d[id] = f[id] \/ (id \in Args /\ id = k)
                  /\ Good(v) => /\ Good(u) /\ v.rv[ParamReg(k)] = n
                                /\ \A q \in AReg : q # ParamReg(k) => v.rv[q] = u.rv[q]
                                /\ Stay(u, v, n)
                                /\ flag # "dead" => Stay(u, v, None)
<1>1. f[n] \in {"in", "next"} /\ (n \in Temps => flag # "out") /\ flag \in {"next", "out", "dead"}
  BY MayIs
<1>2. PICK p : p \in Promises /\ p[n] = "next" /\ Changes(f, p, n)
  BY FlagsAre, PromiseCanBe
<1>3. PICK S : S = {id \in Args : id = k /\ id # n}
  OBVIOUS
<1>4. PICK h : h = Without(p, S)
  OBVIOUS
<1>5. h \in Promises /\ \A id \in Ids : (id \in S => h[id] = "dead") /\ (id \notin S => h[id] = p[id])
  BY <1>2, <1>4, WithoutIs
<1>6. PICK d : d \in Promises /\ d[n] = flag /\ Changes(h, d, n)
  BY <1>5, PromiseCanBe
<1>7. PICK s : s = LoadOperand(u, n)
  OBVIOUS
<1>8. PICK rd : rd = {<<n, s.r>>}
  OBVIOUS
<1>9. PICK w : w = ReadLine(s.u, rd)
  OBVIOUS
<1>10. PICK x : x = w.rv[s.r]
  OBVIOUS
<1>11. PICK m : m = Move(w, ParamReg(k), x)
  OBVIOUS
<1>12. v = Release(m, s.r, flag)
  BY <1>7, <1>8, <1>9, <1>10, <1>11 DEF RegisterArgUnit
<1>13. f[n] # "dead"
  BY <1>1
<1>14. /\ Ready(o, w, p) /\ Consistent(w) /\ s.r \in Reg
       /\ Good(w) => Good(u) /\ Holds(w, n, s.r) /\ Quiet(u, w)
  BY <1>2, <1>7, <1>8, <1>9, <1>13, ArgRead
<1>15. ParamReg(k) \in AReg /\ ParamReg(k) \in Reg
  BY AllParamRegs
<1>16. x \in Contents
  BY <1>10, <1>14, RvType
<1>17. Good(w) => x = n
  BY <1>10, <1>14 DEF Holds
<1>18. \A id \in Ids : h[id] = p[id] \/ h[id] = "dead"
  BY <1>5
<1>19. Good(w) => \A id \in Args : ParamReg(k) = ParamReg(id) => h[id] = "dead" \/ x = id
  <2>1. \A id \in Args : ParamReg(k) = ParamReg(id) => id = k /\ id \in Ids
    BY AllParamRegs, Registers
  <2>2. QED BY <1>3, <1>5, <1>17, <2>1
<1>20. /\ Ready(o, m, h) /\ m.loc = w.loc /\ m.fault = w.fault /\ m.panic = w.panic
       /\ m.rv[ParamReg(k)] = x /\ \A q \in Reg : q # ParamReg(k) => m.rv[q] = w.rv[q]
  BY <1>11, <1>14, <1>15, <1>16, <1>18, <1>19, MoveReady
<1>21. Good(m) => Good(w) /\ m.loc[n].reg = s.r
  BY <1>14, <1>20 DEF Good, Holds
<1>22. h[n] = "next"
  BY <1>2, <1>3, <1>5
<1>23. /\ Ready(o, v, d) /\ Later(m, v)
       /\ Good(v) => v.rv = m.rv /\ Others(m, v, n)
       /\ flag = "next" => v = m
  <2>1. flag # "dead" => h[n] = "next"
    BY <1>22
  <2>2. d[n] = flag \/ (flag = "out" /\ d[n] = "dead")
    BY <1>6
  <2>3. (n \in Temps /\ flag = "out") => d[n] = "dead"
    BY <1>1
  <2>4. Good(m) => m.loc[n].reg = s.r
    BY <1>21
  <2>5. QED BY <1>1, <1>6, <1>12, <1>20, <2>1, <2>2, <2>3, <2>4, ReleaseReady
<1>24. Good(v) => Good(m)
  BY <1>23, GoodLater
<1>25. \A id \in Ids : id # n => d[id] = f[id] \/ (id \in Args /\ id = k)
  BY <1>2, <1>3, <1>5, <1>6 DEF Changes
<1>26. ASSUME Good(v)
       PROVE  /\ Good(u) /\ v.rv[ParamReg(k)] = n
              /\ \A q \in AReg : q # ParamReg(k) => v.rv[q] = u.rv[q]
              /\ Stay(u, v, n)
              /\ flag # "dead" => Stay(u, v, None)
  <2>1. Good(m) /\ Good(w) /\ Quiet(u, w)
    BY <1>14, <1>21, <1>24, <1>26
  <2>2. \A q \in AReg : q # ParamReg(k) => v.rv[q] = u.rv[q]
    <3>1. \A q \in AReg : q \in Reg
      BY DEF Reg
    <3>2. QED BY <1>20, <1>23, <1>26, <2>1, <3>1 DEF Quiet
  <2>3. \A t \in Temps : m.loc[t].reg = u.loc[t].reg
    BY <1>20, <2>1 DEF Quiet
  <2>4. \A t \in Temps : t # n => v.loc[t].reg = m.loc[t].reg
    BY <1>23, <1>26, Registers DEF Others
  <2>5. Stay(u, v, n)
    BY <2>3, <2>4 DEF Stay
  <2>6. ASSUME flag # "dead" PROVE Stay(u, v, None)
    <3>1. CASE flag = "next"
      BY <1>23, <2>3, <3>1 DEF Stay
    <3>2. CASE flag = "out"
      BY <1>1, <2>3, <2>4, <3>2 DEF Stay
    <3>3. QED BY <1>1, <2>6, <3>1, <3>2
  <2>7. QED BY <1>14, <1>17, <1>20, <1>23, <1>26, <2>1, <2>2, <2>5, <2>6
<1>27. QED BY <1>6, <1>23, <1>25, <1>26

\* The word that an Arg without SaveLive pushes.
LEMMA ParameterSaved ==
    ASSUME CIInv, UnitKept, WordsRight, Survive, NEW k \in Nat, k = Len(passed), k < NumRegArgs, SaveParameter(k)
    PROVE  WordsRight'
<1>1. CASE ~SavesParameter(k)
  BY <1>1, WordsStay DEF SaveParameter
<1>2. CASE SavesParameter(k)
  <2>1. PICK r : r = ParamReg(k)
    OBVIOUS
  <2>2. PICK x : x = unit.rv[r]
    OBVIOUS
  <2>3. stack' = Append(stack, x) /\ temp_stack' = Append(temp_stack, r)
    BY <1>2, <2>1, <2>2 DEF SaveParameter, Pushed
  <2>4. k \in Args /\ k \in Ids /\ r \in AReg
    BY <1>2, <2>1, Registers, AllParamRegs DEF SavesParameter
  <2>5. ASSUME NEW id \in Living', r = unit'.loc[id].reg PROVE x = id
    <3>1. id \in Living /\ unit.loc[id].reg = r
      BY <2>5 DEF Survive
    <3>2. id \in Ids
      BY <3>1, Registers DEF Living
    <3>3. unit.loc[k].reg = r
      BY <2>1, <2>4, CallingUnit, ParameterKept
    <3>4. PICK g : g = Without(fate, Args)
      OBVIOUS
    <3>5. Coherent(unit, g) /\ Consistent(unit) /\ r # tINV
      BY <2>4, <3>4, CallingUnit, AllParamRegs DEF UnitKept
    <3>6. id = k
      BY <2>4, <3>1, <3>2, <3>3, <3>5, OneReg
    <3>7. k \notin Overwritten
      BY <3>1, <3>6 DEF UnitKept, Living
    <3>8. QED BY <2>1, <2>2, <2>4, <3>6, <3>7 DEF Overwritten
  <2>6. QED BY <2>3, <2>5, WordPushed
<1>3. QED BY <1>1, <1>2

\* The argument x has been moved into the next register.
LEMMA RegisterPassed ==
    ASSUME CIInv, CallKept, Right, NEW k \in Nat, k = Len(passed), k < NumRegArgs, ~saved, ~saved', Survive,
           SaveParameter(k), NEW x, passed' = Append(passed, x), unit'.rv[ParamReg(k)] = x,
           \A q \in AReg : q # ParamReg(k) => unit'.rv[q] = unit.rv[q]
    PROVE  InRegisters' /\ OnStack' /\ RegistersFirst' /\ WordsRight' /\ TempsPushed'
<1>1. NumRegArgs \in Nat /\ passed \in Seq(Contents)
  BY RegAssumption DEF CIInv
<1>2. Len(passed') = k + 1 /\ passed'[k + 1] = x /\ \A j \in 1 .. k : passed'[j] = passed[j]
  BY <1>1
<1>3. InRegisters'
  <2>1. ASSUME NEW j \in 1 .. k + 1, j <= NumRegArgs PROVE unit'.rv[ParamReg(j - 1)] = passed'[j]
    <3>1. j - 1 \in Nat /\ j - 1 < NumRegArgs /\ j \in Int
      BY <1>1, <2>1
    <3>2. ParamReg(j - 1) \in AReg
      BY <3>1, AllParamRegs
    <3>3. CASE j = k + 1
      <4>1. j - 1 = k
        BY <3>1, <3>3
      <4>2. QED BY <1>2, <3>3, <4>1
    <3>4. CASE j # k + 1
      <4>1. j \in 1 .. k /\ j - 1 # k
        BY <2>1, <3>4
      <4>2. ParamReg(j - 1) # ParamReg(k)
        BY <3>1, <4>1, AllParamRegs
      <4>3. unit.rv[ParamReg(j - 1)] = passed[j]
        BY <2>1, <4>1 DEF CallKept, InRegisters
      <4>4. QED BY <1>2, <3>2, <4>1, <4>2, <4>3
    <3>5. QED BY <3>3, <3>4
  <2>2. QED BY <1>2, <2>1 DEF InRegisters
<1>4. OnStack'
  BY <1>1, <1>2 DEF OnStack
<1>5. RegistersFirst' /\ WordsRight'
  BY <1>1, <1>2, ParameterSaved DEF CallKept, RegistersFirst
<1>6. TempsPushed'
  BY DEF TempsPushed
<1>7. QED BY <1>3, <1>4, <1>5, <1>6

\* The operand of an Arg is not needed by the call any more, if it was loaded for it.
LEMMA ArgSurvives ==
    ASSUME CIInv, CIInv', NEW n \in Ids, NEW flag \in Use!Flags, MayPass(n, flag), loaded' = None,
           fate[n] # "dead", Changes(fate, fate', n), fate'[n] = flag,
           Stay(unit, unit', n), flag # "dead" => Stay(unit, unit', None)
    PROVE  Survive
<1>1. flag = "dead" => n \notin Living'
  BY DEF Living
<1>2. ASSUME NEW id \in Ids, id \in Living' PROVE id \in Living
  <2>1. fate'[id] # "dead" /\ (id \in Temps \/ id \in Args)
    BY <1>2 DEF Living
  <2>2. fate[id] # "dead"
    BY <2>1 DEF Changes
  <2>3. id # loaded
    <3>1. SUFFICES ASSUME id = loaded PROVE FALSE
      OBVIOUS
    <3>2. id # None
      BY Registers
    <3>3. n = id /\ flag = "dead"
      BY <3>1, <3>2 DEF MayPass
    <3>4. QED BY <2>1, <3>3
  <2>4. QED BY <2>1, <2>2, <2>3 DEF Living
<1>3. QED BY <1>1, <1>2, SurviveStep

LEMMA RegisterArgKept ==
    ASSUME CIInv, CIInv', CallKept, Right, NEW n \in Ids, NEW flag \in Use!Flags, RegisterArg(n, flag)
    PROVE  CallKept'
<1>1. SUFFICES ASSUME Right' PROVE /\ UnitKept' /\ InRegisters' /\ OnStack'
                                   /\ RegistersFirst' /\ WordsRight' /\ TempsPushed'
  BY DEF CallKept
<1>2. PICK k : k = Len(passed)
  OBVIOUS
<1>3. k \in Nat /\ k < NumRegArgs /\ ~saved /\ passed \in Seq(Contents) /\ NumRegArgs \in Nat
  BY <1>2, RegAssumption DEF CIInv, RegisterArg
<1>4. PICK u : u = RegisterArgUnit(unit, k, n, flag)
  OBVIOUS
<1>5. PICK h : h = Use!Promise(fate, n, flag)
  OBVIOUS
<1>6. /\ MayPass(n, flag) /\ Outcome(u, h) /\ SaveParameter(k)
      /\ passed' = Append(passed, n) /\ loaded' = None /\ saved' = saved
      /\ Blame("swapped", n \in Overwritten)
  BY <1>2, <1>4, <1>5 DEF RegisterArg
<1>7. n \notin Overwritten
  <2>1. "swapped" \in Mishap \ {"none"} /\ (n \in Overwritten) \in BOOLEAN
    BY DEF Mishap
  <2>2. QED BY <1>1, <1>6, <2>1, RightNext, Blameless
<1>8. /\ Consistent(unit) /\ unit \in Unit /\ fate \in Promises
      /\ Ready(unit, unit, Intact) /\ Intact \in Promises
      /\ \A id \in Ids : (id \in Overwritten => Intact[id] = "dead") /\ (id \notin Overwritten => Intact[id] = fate[id])
  BY CallStart
<1>9. PICK f : f = Intact
  OBVIOUS
<1>10. MayRead(fate, n, flag) /\ f[n] = fate[n]
  BY <1>6, <1>7, <1>8, <1>9 DEF MayPass
<1>11. MayRead(f, n, flag)
  BY <1>10 DEF MayRead, Use!CanRead
<1>12. PICK d : /\ Ready(unit, u, d) /\ d[n] = flag
                /\ \A id \in Ids : id # n => d[id] = f[id] \/ (id \in Args /\ id = k)
                /\ Good(u) => /\ Good(unit) /\ u.rv[ParamReg(k)] = n
                              /\ \A q \in AReg : q # ParamReg(k) => u.rv[q] = unit.rv[q]
                              /\ Stay(unit, u, n)
                              /\ flag # "dead" => Stay(unit, u, None)
  BY <1>3, <1>4, <1>7, <1>8, <1>9, <1>11, RegisterArgUnitReady
<1>13. h \in Promises /\ h[n] = flag /\ Changes(fate, h, n)
  BY <1>5, <1>8, PromiseIs
<1>14. \A t \in Temps : h[t] = d[t]
  BY <1>8, <1>9, <1>12, <1>13, Registers, IdAssumption DEF Changes, Overwritten
<1>15. /\ Good(u) /\ fate' = h /\ Coherent(unit', d)
       /\ \A id \in Ids : unit'.loc[id].reg = u.loc[id].reg
       /\ \A q \in AReg : unit'.rv[q] = u.rv[q]
  BY <1>1, <1>6, <1>8, <1>12, <1>14, RightNext, Emitted
<1>16. Len(passed') = k + 1 /\ passed'[k + 1] = n /\ \A j \in 1 .. k : passed'[j] = passed[j]
  BY <1>2, <1>3, <1>6
<1>17. UnitKept'
  <2>1. \A id \in Ids \ Args : d[id] = fate'[id]
    BY <1>8, <1>9, <1>12, <1>13, <1>15 DEF Changes, Overwritten
  <2>2. ASSUME NEW id \in Args, fate'[id] # "dead", d[id] = "dead" PROVE id < Len(passed')
    <3>1. id \in Ids /\ id \in Nat
      BY Registers, AllParamRegs
    <3>2. CASE id = n
      BY <1>12, <1>13, <1>15, <2>2, <3>2
    <3>3. CASE id = k
      BY <1>3, <1>16, <3>3
    <3>4. CASE id # n /\ id # k
      <4>1. d[id] = f[id] /\ fate'[id] = fate[id]
        BY <1>12, <1>13, <1>15, <3>1, <3>4 DEF Changes
      <4>2. id \in Overwritten
        BY <1>8, <1>9, <2>2, <3>1, <4>1
      <4>3. id < k
        BY <1>2, <2>2, <4>1, <4>2 DEF CallKept, UnitKept
      <4>4. QED BY <1>3, <1>16, <3>1, <4>3
    <3>5. QED BY <3>2, <3>3, <3>4
  <2>3. QED BY <1>15, <2>1, <2>2, UnitKeptStep
<1>18. Survive
  <2>1. Stay(unit, unit', n) /\ (flag # "dead" => Stay(unit, unit', None))
    BY <1>12, <1>15, Registers DEF Stay
  <2>2. fate[n] # "dead"
    BY <1>8, <1>10, MayIs
  <2>3. QED BY <1>6, <1>13, <1>15, <2>1, <2>2, ArgSurvives
<1>19. /\ unit'.rv[ParamReg(k)] = n /\ ~saved'
       /\ \A q \in AReg : q # ParamReg(k) => unit'.rv[q] = unit.rv[q]
  BY <1>3, <1>6, <1>12, <1>15, AllParamRegs
<1>20. QED BY <1>2, <1>3, <1>6, <1>17, <1>18, <1>19, RegisterPassed
LEMMA RegisterConstantKept ==
    ASSUME CIInv, CIInv', CallKept, Right, RegisterConstant
    PROVE  CallKept'
<1>1. SUFFICES ASSUME Right' PROVE /\ UnitKept' /\ InRegisters' /\ OnStack'
                                   /\ RegistersFirst' /\ WordsRight' /\ TempsPushed'
  BY DEF CallKept
<1>2. PICK k : k = Len(passed)
  OBVIOUS
<1>3. PICK w : w = PlainLine(unit)
  OBVIOUS
<1>4. PICK x : x = Constant
  OBVIOUS
<1>5. PICK u : u = Move(w, ParamReg(k), x)
  OBVIOUS
<1>6. /\ k < NumRegArgs /\ ~saved /\ loaded = None
      /\ Outcome(u, fate) /\ SaveParameter(k)
      /\ passed' = Append(passed, x) /\ loaded' = loaded /\ saved' = saved
  BY <1>2, <1>3, <1>4, <1>5 DEF RegisterConstant
<1>7. k \in Nat /\ passed \in Seq(Contents) /\ x \in Contents
  BY <1>2, <1>4 DEF CIInv, Constant, Contents
<1>8. /\ Consistent(unit) /\ unit \in Unit /\ fate \in Promises
      /\ Ready(unit, unit, Intact) /\ Intact \in Promises
      /\ \A id \in Ids : (id \in Overwritten => Intact[id] = "dead") /\ (id \notin Overwritten => Intact[id] = fate[id])
  BY CallStart
<1>9. PICK f : f = Intact
  OBVIOUS
<1>10. PICK S : S = {id \in Args : id = k}
  OBVIOUS
<1>11. PICK h : h = Without(f, S)
  OBVIOUS
<1>12. h \in Promises /\ \A id \in Ids : (id \in S => h[id] = "dead") /\ (id \notin S => h[id] = f[id])
  BY <1>8, <1>9, <1>11, WithoutIs
<1>13. ParamReg(k) \in AReg /\ ParamReg(k) \in Reg
  BY <1>6, <1>7, AllParamRegs
<1>14. Ready(unit, w, f) /\ Consistent(w) /\ (Good(w) => w = unit)
  BY <1>3, <1>8, <1>9, PlainReady
<1>15. \A id \in Args : ParamReg(k) = ParamReg(id) => h[id] = "dead"
  <2>1. \A id \in Args : ParamReg(k) = ParamReg(id) => id = k /\ id \in Ids
    BY <1>7, AllParamRegs, Registers
  <2>2. QED BY <1>10, <1>12, <2>1
<1>16. /\ Ready(unit, u, h) /\ u.loc = w.loc /\ u.fault = w.fault /\ u.panic = w.panic
       /\ u.rv[ParamReg(k)] = x /\ \A q \in Reg : q # ParamReg(k) => u.rv[q] = w.rv[q]
  BY <1>5, <1>7, <1>12, <1>13, <1>14, <1>15, MoveReady
<1>17. \A t \in Temps : fate[t] = h[t]
  BY <1>8, <1>9, <1>10, <1>12, Registers, IdAssumption DEF Overwritten
<1>18. /\ Good(u) /\ fate' = fate /\ Coherent(unit', h)
       /\ \A id \in Ids : unit'.loc[id].reg = u.loc[id].reg
       /\ \A q \in AReg : unit'.rv[q] = u.rv[q]
  BY <1>1, <1>6, <1>8, <1>16, <1>17, RightNext, Emitted
<1>19. w = unit
  BY <1>14, <1>16, <1>18 DEF Good
<1>20. UnitKept'
  <2>1. \A id \in Ids \ Args : h[id] = fate'[id]
    BY <1>8, <1>9, <1>10, <1>12, <1>18 DEF Overwritten
  <2>2. Len(passed') = k + 1
    BY <1>2, <1>6, <1>7
  <2>3. ASSUME NEW id \in Args, fate'[id] # "dead", h[id] = "dead" PROVE id < Len(passed')
    <3>1. id \in Ids /\ id \in Nat
      BY Registers, AllParamRegs
    <3>2. CASE id = k
      BY <1>7, <2>2, <3>2
    <3>3. CASE id # k
      <4>1. id \in Overwritten
        BY <1>8, <1>9, <1>10, <1>12, <1>18, <2>3, <3>1, <3>3
      <4>2. id < k
        BY <1>2, <1>18, <2>3, <4>1 DEF CallKept, UnitKept
      <4>3. QED BY <1>7, <2>2, <3>1, <4>2
    <3>4. QED BY <3>2, <3>3
  <2>4. QED BY <1>18, <2>1, <2>3, UnitKeptStep
<1>21. Survive
  <2>1. Stay(unit, unit', None)
    BY <1>16, <1>18, <1>19, Registers DEF Stay
  <2>2. \A id \in Ids : id \in Living' => id \in Living
    BY <1>6, <1>18 DEF Living
  <2>3. QED BY <2>1, <2>2, SurviveStep
<1>22. /\ unit'.rv[ParamReg(k)] = x
       /\ \A q \in AReg : q # ParamReg(k) => unit'.rv[q] = unit.rv[q]
  <2>1. \A q \in AReg : q \in Reg
    BY DEF Reg
  <2>2. QED BY <1>13, <1>16, <1>18, <1>19, <2>1
<1>23. QED BY <1>2, <1>6, <1>7, <1>20, <1>21, <1>22, RegisterPassed

(***************************************************************************)
(* An Arg for the stack.                                                   *)
(***************************************************************************)

\* The argument x has been pushed.
LEMMA StackPassed ==
    ASSUME CIInv, CIInv', CallKept, Right, MayPush, saved' = saved, Survive, NEW x, passed' = Append(passed, x),
           stack' = Append(stack, x), temp_stack' = Append(temp_stack, At),
           \A q \in AReg : unit'.rv[q] = unit.rv[q]
    PROVE  InRegisters' /\ OnStack' /\ RegistersFirst' /\ WordsRight' /\ TempsPushed'
<1>1. /\ NumRegArgs \in Nat /\ passed \in Seq(Contents) /\ stack \in Seq(Contents)
      /\ saved /\ NumRegArgs <= Len(passed)
  BY RegAssumption DEF CIInv, StackOK, MayPush
<1>2. PICK k : k = Len(passed)
  OBVIOUS
<1>3. PICK c : c = Len(stack)
  OBVIOUS
<1>4. k \in Nat /\ c \in Nat
  BY <1>1, <1>2, <1>3
<1>5. Len(passed') = k + 1 /\ passed'[k + 1] = x /\ \A j \in 1 .. k : passed'[j] = passed[j]
  BY <1>1, <1>2
<1>6. Len(stack') = c + 1 /\ stack'[c + 1] = x /\ \A j \in 1 .. c : stack'[j] = stack[j]
  BY <1>1, <1>3
<1>7. InRegisters'
  <2>1. ASSUME NEW j \in 1 .. k + 1, j <= NumRegArgs PROVE unit'.rv[ParamReg(j - 1)] = passed'[j]
    <3>1. j - 1 \in Nat /\ j - 1 < NumRegArgs /\ j \in 1 .. k
      BY <1>1, <1>2, <1>4, <2>1
    <3>2. ParamReg(j - 1) \in AReg
      BY <3>1, AllParamRegs
    <3>3. unit.rv[ParamReg(j - 1)] = passed[j]
      BY <1>2, <2>1, <3>1 DEF CallKept, InRegisters
    <3>4. QED BY <1>5, <3>1, <3>2, <3>3
  <2>2. QED BY <1>5, <2>1 DEF InRegisters
<1>8. OnStack'
  <2>1. ASSUME NEW j \in 1 .. k + 1, j > NumRegArgs
        PROVE  (c + 1) - (k + 1) + j \in 1 .. c + 1 /\ stack'[(c + 1) - (k + 1) + j] = passed'[j]
    <3>1. PICK i : i = c - k + j
      OBVIOUS
    <3>2. (c + 1) - (k + 1) + j = i /\ i \in Int
      BY <1>4, <2>1, <3>1
    <3>3. CASE j = k + 1
      <4>1. i = c + 1
        BY <1>4, <3>1, <3>3
      <4>2. i \in 1 .. c + 1
        BY <1>4, <4>1
      <4>3. stack'[i] = passed'[j]
        BY <1>5, <1>6, <3>3, <4>1
      <4>4. QED BY <3>2, <4>2, <4>3
    <3>4. CASE j # k + 1
      <4>1. j \in 1 .. k
        BY <1>4, <2>1, <3>4
      <4>2. i \in 1 .. c /\ stack[i] = passed[j]
        BY <1>2, <1>3, <2>1, <3>1, <4>1 DEF CallKept, OnStack
      <4>3. i \in 1 .. c + 1
        BY <1>4, <4>2
      <4>4. QED BY <1>5, <1>6, <3>2, <4>1, <4>2, <4>3
    <3>5. QED BY <3>3, <3>4
  <2>2. QED BY <1>5, <1>6, <2>1 DEF OnStack
<1>9. RegistersFirst'
  BY <1>1 DEF RegistersFirst
<1>10. WordsRight'
  <2>1. ASSUME NEW id \in Living' PROVE At # unit'.loc[id].reg
    <3>1. id \in Ids
      BY Registers DEF Living
    <3>2. unit'.loc[id].reg \in Reg \cup {tINV}
      <4>1. unit' \in Unit
        BY DEF CIInv, IInv, TypeOK
      <4>2. QED BY <3>1, <4>1 DEF Unit, Location
    <3>3. QED BY <3>2, AllParamRegs
  <2>2. WordsRight
    BY DEF CallKept
  <2>3. QED BY <2>1, <2>2, WordPushed
<1>11. TempsPushed'
  <2>1. TempsPushed
    BY DEF CallKept
  <2>2. QED BY <2>1, TempsStayPushed
<1>12. QED BY <1>7, <1>8, <1>9, <1>10, <1>11

\* The unit after it.
LEMMA StackArgUnitReady ==
    ASSUME NEW o, NEW u, NEW f \in Promises, Ready(o, u, f), NEW n \in Ids, NEW flag \in Use!Flags,
           n \notin Overwritten, MayRead(f, n, flag), NEW v, v = StackArgUnit(u, n, flag),
           NEW s, s = LoadOperand(u, n)
    PROVE  \E d : /\ Ready(o, v, d) /\ d[n] = flag /\ Changes(f, d, n)
                  /\ Good(v) => /\ Good(u) /\ s.u.rv[s.r] = n
                                /\ \A q \in AReg : v.rv[q] = u.rv[q]
                                /\ Stay(u, v, n)
                                /\ flag # "dead" => Stay(u, v, None)
<1>1. f[n] \in {"in", "next"} /\ (n \in Temps => flag # "out") /\ flag \in {"next", "out", "dead"}
  BY MayIs
<1>2. PICK p : p \in Promises /\ p[n] = "next" /\ Changes(f, p, n)
  BY FlagsAre, PromiseCanBe
<1>3. PICK d : d \in Promises /\ d[n] = flag /\ Changes(p, d, n)
  BY <1>2, PromiseCanBe
<1>4. PICK rd : rd = {<<n, s.r>>}
  OBVIOUS
<1>5. PICK w : w = ReadLine(s.u, rd)
  OBVIOUS
<1>6. v = Release(w, s.r, flag)
  BY <1>4, <1>5 DEF StackArgUnit
<1>7. f[n] # "dead"
  BY <1>1
<1>8. /\ Ready(o, w, p) /\ Consistent(w) /\ s.r \in Reg
      /\ Good(w) => /\ Good(u) /\ Good(s.u) /\ s.u.rv[s.r] = n
                    /\ Holds(w, n, s.r) /\ Quiet(u, w)
  BY <1>2, <1>4, <1>5, <1>7, ArgRead
<1>9. Good(w) => w.loc[n].reg = s.r
  BY <1>8 DEF Holds
<1>10. /\ Ready(o, v, d) /\ Later(w, v)
       /\ Good(v) => v.rv = w.rv /\ Others(w, v, n)
       /\ flag = "next" => v = w
  <2>1. flag # "dead" => p[n] = "next"
    BY <1>2
  <2>2. d[n] = flag \/ (flag = "out" /\ d[n] = "dead")
    BY <1>3
  <2>3. (n \in Temps /\ flag = "out") => d[n] = "dead"
    BY <1>1
  <2>4. QED BY <1>1, <1>3, <1>6, <1>8, <1>9, <2>1, <2>2, <2>3, ReleaseReady
<1>11. Good(v) => Good(w)
  BY <1>10, GoodLater
<1>12. Changes(f, d, n)
  BY <1>2, <1>3 DEF Changes
<1>13. ASSUME Good(v)
       PROVE  /\ Good(u) /\ s.u.rv[s.r] = n
              /\ \A q \in AReg : v.rv[q] = u.rv[q]
              /\ Stay(u, v, n)
              /\ flag # "dead" => Stay(u, v, None)
  <2>1. Good(w) /\ Quiet(u, w) /\ Good(u) /\ s.u.rv[s.r] = n
    BY <1>8, <1>11, <1>13
  <2>2. \A q \in AReg : v.rv[q] = u.rv[q]
    BY <1>10, <1>13, <2>1 DEF Quiet
  <2>3. \A t \in Temps : w.loc[t].reg = u.loc[t].reg
    BY <2>1 DEF Quiet
  <2>4. \A t \in Temps : t # n => v.loc[t].reg = w.loc[t].reg
    BY <1>10, <1>13, Registers DEF Others
  <2>5. Stay(u, v, n)
    BY <2>3, <2>4 DEF Stay
  <2>6. ASSUME flag # "dead" PROVE Stay(u, v, None)
    <3>1. CASE flag = "next"
      BY <1>10, <2>3, <3>1 DEF Stay
    <3>2. CASE flag = "out"
      BY <1>1, <2>3, <2>4, <3>2 DEF Stay
    <3>3. QED BY <1>1, <2>6, <3>1, <3>2
  <2>7. QED BY <2>1, <2>2, <2>5, <2>6
<1>14. QED BY <1>3, <1>10, <1>12, <1>13

LEMMA StackArgKept ==
    ASSUME CIInv, CIInv', CallKept, Right, NEW n \in Ids, NEW flag \in Use!Flags, StackArg(n, flag)
    PROVE  CallKept'
<1>1. SUFFICES ASSUME Right' PROVE /\ UnitKept' /\ InRegisters' /\ OnStack'
                                   /\ RegistersFirst' /\ WordsRight' /\ TempsPushed'
  BY DEF CallKept
<1>2. PICK s : s = LoadOperand(unit, n)
  OBVIOUS
<1>3. PICK u : u = StackArgUnit(unit, n, flag)
  OBVIOUS
<1>4. PICK h : h = Use!Promise(fate, n, flag)
  OBVIOUS
<1>5. PICK x : x = s.u.rv[s.r]
  OBVIOUS
<1>6. /\ MayPush /\ MayPass(n, flag) /\ Outcome(u, h)
      /\ stack' = Append(stack, x) /\ temp_stack' = Append(temp_stack, At)
      /\ passed' = Append(passed, n) /\ loaded' = None /\ saved' = saved
      /\ Blame("swapped", n \in Overwritten)
  BY <1>2, <1>3, <1>4, <1>5 DEF StackArg
<1>7. n \notin Overwritten
  <2>1. "swapped" \in Mishap \ {"none"} /\ (n \in Overwritten) \in BOOLEAN
    BY DEF Mishap
  <2>2. QED BY <1>1, <1>6, <2>1, RightNext, Blameless
<1>8. /\ Consistent(unit) /\ unit \in Unit /\ fate \in Promises
      /\ Ready(unit, unit, Intact) /\ Intact \in Promises
      /\ \A id \in Ids : (id \in Overwritten => Intact[id] = "dead") /\ (id \notin Overwritten => Intact[id] = fate[id])
  BY CallStart
<1>9. PICK f : f = Intact
  OBVIOUS
<1>10. MayRead(fate, n, flag) /\ f[n] = fate[n]
  BY <1>6, <1>7, <1>8, <1>9 DEF MayPass
<1>11. MayRead(f, n, flag)
  BY <1>10 DEF MayRead, Use!CanRead
<1>12. PICK d : /\ Ready(unit, u, d) /\ d[n] = flag /\ Changes(f, d, n)
                /\ Good(u) => /\ Good(unit) /\ x = n
                              /\ \A q \in AReg : u.rv[q] = unit.rv[q]
                              /\ Stay(unit, u, n)
                              /\ flag # "dead" => Stay(unit, u, None)
  BY <1>2, <1>3, <1>5, <1>7, <1>8, <1>9, <1>11, StackArgUnitReady
<1>13. h \in Promises /\ h[n] = flag /\ Changes(fate, h, n)
  BY <1>4, <1>8, PromiseIs
<1>14. \A t \in Temps : h[t] = d[t]
  BY <1>8, <1>9, <1>12, <1>13, Registers, IdAssumption DEF Changes, Overwritten
<1>15. /\ Good(u) /\ fate' = h /\ Coherent(unit', d)
       /\ \A id \in Ids : unit'.loc[id].reg = u.loc[id].reg
       /\ \A q \in AReg : unit'.rv[q] = u.rv[q]
  BY <1>1, <1>6, <1>8, <1>12, <1>14, RightNext, Emitted
<1>16. UnitKept'
  <2>1. \A id \in Ids \ Args : d[id] = fate'[id]
    BY <1>8, <1>9, <1>12, <1>13, <1>15 DEF Changes, Overwritten
  <2>2. Len(passed') = Len(passed) + 1 /\ Len(passed) \in Nat
    BY <1>6 DEF CIInv
  <2>3. ASSUME NEW id \in Args, fate'[id] # "dead", d[id] = "dead" PROVE id < Len(passed')
    <3>1. id \in Ids /\ id \in Nat /\ id # n
      BY <1>12, <1>13, <1>15, <2>3, Registers, AllParamRegs
    <3>2. d[id] = f[id] /\ fate'[id] = fate[id]
      BY <1>12, <1>13, <1>15, <3>1 DEF Changes
    <3>3. id \in Overwritten
      BY <1>8, <1>9, <2>3, <3>1, <3>2
    <3>4. id < Len(passed)
      BY <2>3, <3>2, <3>3 DEF CallKept, UnitKept
    <3>5. QED BY <2>2, <3>1, <3>4
  <2>4. QED BY <1>15, <2>1, <2>3, UnitKeptStep
<1>17. Survive
  <2>1. Stay(unit, unit', n) /\ (flag # "dead" => Stay(unit, unit', None))
    BY <1>12, <1>15, Registers DEF Stay
  <2>2. fate[n] # "dead"
    BY <1>8, <1>10, MayIs
  <2>3. QED BY <1>6, <1>13, <1>15, <2>1, <2>2, ArgSurvives
<1>18. \A q \in AReg : unit'.rv[q] = unit.rv[q]
  BY <1>12, <1>15
<1>19. x = n
  BY <1>12, <1>15
<1>20. QED BY <1>6, <1>16, <1>17, <1>18, <1>19, StackPassed

LEMMA StackConstantKept ==
    ASSUME CIInv, CIInv', CallKept, Right, StackConstant
    PROVE  CallKept'
<1>1. SUFFICES ASSUME Right' PROVE /\ UnitKept' /\ InRegisters' /\ OnStack'
                                   /\ RegistersFirst' /\ WordsRight' /\ TempsPushed'
  BY DEF CallKept
<1>2. PICK u : u = PlainLine(unit)
  OBVIOUS
<1>3. PICK x : x = Constant
  OBVIOUS
<1>4. /\ MayPush /\ loaded = None /\ Outcome(u, fate)
      /\ stack' = Append(stack, x) /\ temp_stack' = Append(temp_stack, At)
      /\ passed' = Append(passed, x) /\ loaded' = loaded /\ saved' = saved
  BY <1>2, <1>3 DEF StackConstant
<1>5. /\ Consistent(unit) /\ unit \in Unit /\ fate \in Promises
      /\ Ready(unit, unit, Intact) /\ Intact \in Promises
      /\ \A id \in Ids : (id \in Overwritten => Intact[id] = "dead") /\ (id \notin Overwritten => Intact[id] = fate[id])
  BY CallStart
<1>6. PICK f : f = Intact
  OBVIOUS
<1>7. Ready(unit, u, f) /\ (Good(u) => u = unit)
  BY <1>2, <1>5, <1>6, PlainReady
<1>8. \A t \in Temps : fate[t] = f[t]
  BY <1>5, <1>6, Registers, IdAssumption DEF Overwritten
<1>9. /\ Good(u) /\ fate' = fate /\ Coherent(unit', f)
      /\ \A id \in Ids : unit'.loc[id].reg = u.loc[id].reg
      /\ \A q \in AReg : unit'.rv[q] = u.rv[q]
  BY <1>1, <1>4, <1>5, <1>7, <1>8, RightNext, Emitted
<1>10. UnitKept'
  <2>1. \A id \in Ids \ Args : f[id] = fate'[id]
    BY <1>5, <1>6, <1>9 DEF Overwritten
  <2>2. Len(passed') = Len(passed) + 1 /\ Len(passed) \in Nat
    BY <1>4 DEF CIInv
  <2>3. ASSUME NEW id \in Args, fate'[id] # "dead", f[id] = "dead" PROVE id < Len(passed')
    <3>1. id \in Ids /\ id \in Nat
      BY Registers, AllParamRegs
    <3>2. id \in Overwritten
      BY <1>5, <1>6, <1>9, <2>3, <3>1
    <3>3. id < Len(passed)
      BY <1>9, <2>3, <3>2 DEF CallKept, UnitKept
    <3>4. QED BY <2>2, <3>1, <3>3
  <2>4. QED BY <1>9, <2>1, <2>3, UnitKeptStep
<1>11. Survive
  <2>1. Stay(unit, unit', None)
    BY <1>7, <1>9, Registers DEF Stay
  <2>2. \A id \in Ids : id \in Living' => id \in Living
    BY <1>4, <1>9 DEF Living
  <2>3. QED BY <2>1, <2>2, SurviveStep
<1>12. \A q \in AReg : unit'.rv[q] = unit.rv[q]
  BY <1>7, <1>9
<1>13. QED BY <1>4, <1>10, <1>11, <1>12, StackPassed

(***************************************************************************)
(* SaveLive.                                                               *)
(***************************************************************************)
\* p is s and then q.
Joins(p, s, q) ==
    /\ Len(p) = Len(s) + Len(q) /\ Len(s) \in Nat /\ Len(q) \in Nat
    /\ \A i \in 1 .. Len(s) : p[i] = s[i]
    /\ \A i \in 1 .. Len(q) : p[Len(s) + i] = q[i]
    /\ \A i \in 1 .. Len(p) : i \in 1 .. Len(s) \/ \E j \in 1 .. Len(q) : i = Len(s) + j

LEMMA JoinedAt == ASSUME NEW A, NEW s \in Seq(A), NEW q \in Seq(A), NEW p, p = s \o q PROVE Joins(p, s, q)
<1>1. Len(p) = Len(s) + Len(q) /\ Len(s) \in Nat /\ Len(q) \in Nat
  OBVIOUS
<1>2. \A i \in 1 .. Len(s) : p[i] = s[i]
  OBVIOUS
<1>3. \A i \in 1 .. Len(q) : p[Len(s) + i] = q[i]
  OBVIOUS
<1>4. ASSUME NEW i \in 1 .. Len(p), i \notin 1 .. Len(s) PROVE \E j \in 1 .. Len(q) : i = Len(s) + j
  <2>1. i - Len(s) \in 1 .. Len(q) /\ i = Len(s) + (i - Len(s))
    BY <1>1, <1>4
  <2>2. QED BY <2>1
<1>5. QED BY <1>1, <1>2, <1>3, <1>4 DEF Joins

\* All registers of temporaries are listed.
LEMMA SavedRegsListed ==
    ASSUME NEW regs, regs = Ascending(SavedRegs), NEW c, c = Cardinality(SavedRegs)
    PROVE  /\ c \in Nat /\ regs \in [1 .. c -> SavedRegs]
           /\ \A r \in SavedRegs : \E i \in 1 .. c : regs[i] = r
<1>1. PICK S : S = SavedRegs
  OBVIOUS
<1>2. S \in SUBSET (0 .. NumTempRegs - 1) /\ NumTempRegs \in Nat
  BY <1>1, RegAssumption DEF SavedRegs, TReg
<1>3. c \in Nat /\ IsFiniteSet(S)
  BY <1>1, <1>2, BelowFinite
<1>4. regs \in [1 .. c -> S] /\ Sorts(regs, S)
  <2>1. PICK q : Enumerates(q, S)
    BY <1>2, Enumerated
  <2>2. \E p \in [1 .. Cardinality(S) -> S] : Sorts(p, S)
    BY <2>1 DEF Enumerates
  <2>3. QED BY <1>1, <2>2 DEF Ascending
<1>5. \A i, j \in 1 .. c : i < j => regs[i] < regs[j]
  BY <1>1, <1>4 DEF Sorts
<1>6. \A i \in 1 .. c : regs[i] \in Int
  <2>1. \A x \in S : x \in Int
    BY <1>2
  <2>2. \A i \in 1 .. c : regs[i] \in S
    BY <1>1, <1>4
  <2>3. QED BY <2>1, <2>2
<1>7. \A i, j \in 1 .. c : regs[i] = regs[j] => i = j
  <2>1. SUFFICES ASSUME NEW i \in 1 .. c, NEW j \in 1 .. c, regs[i] = regs[j], i # j PROVE FALSE
    OBVIOUS
  <2>2. i < j \/ j < i
    BY <1>3, <2>1
  <2>3. QED BY <1>5, <1>6, <2>1, <2>2
<1>8. regs \in Injection(1 .. c, S)
  BY <1>4, <1>7 DEF Injection, IsInjective
<1>9. Cardinality(1 .. c) = c
  <2>1. 1 \in Int /\ c \in Int
    BY <1>3
  <2>2. Cardinality(1 .. c) = IF 1 > c THEN 0 ELSE c - 1 + 1
    BY <2>1, FS_Interval
  <2>3. QED BY <1>3, <2>2
<1>10. regs \in Surjection(1 .. c, S)
  BY <1>1, <1>3, <1>8, <1>9, FS_Injection
<1>11. \A r \in S : \E i \in 1 .. c : regs[i] = r
  BY <1>10 DEF Surjection
<1>12. QED BY <1>1, <1>3, <1>4, <1>11

\* Where the tables put what the call must bring back.
LEMMA LivingPlaced ==
    ASSUME CIInv, CallKept, Right, NEW id \in Living
    PROVE  /\ id \in Ids /\ fate[id] # "dead"
           /\ id \in Args => unit.loc[id].reg = ParamReg(id) /\ unit.loc[id].reg \in AReg
           /\ id \in Temps => /\ unit.loc[id].reg \in TReg /\ unit.reg_alloc_info[unit.loc[id].reg] = id
                              /\ unit.rv[unit.loc[id].reg] = id /\ unit.loc[id].reg \in SavedRegs
<1>1. id \in Ids /\ fate[id] # "dead" /\ (id \in Temps \/ id \in Args)
  BY Registers DEF Living
<1>2. Consistent(unit) /\ Agree(unit)
  BY CallStart DEF Consistent
<1>3. CASE id \in Args
  <2>1. unit.loc[id].reg = ParamReg(id)
    BY <1>2, <1>3, ParameterKept
  <2>2. QED BY <1>1, <1>3, <2>1, AllParamRegs, IdAssumption
<1>4. CASE id \in Temps
  <2>1. PICK f : f = Intact
    OBVIOUS
  <2>2. id \notin Args /\ id \notin Vars
    BY <1>4, IdAssumption
  <2>3. f[id] = fate[id] /\ Ready(unit, unit, f)
    BY <1>1, <2>1, <2>2, CallStart DEF Overwritten
  <2>4. Coherent(unit, f)
    BY <2>3, ReadyGood DEF Good, Right, Sound
  <2>5. Kept(unit, id)
    BY <1>1, <2>3, <2>4 DEF Coherent
  <2>6. unit.loc[id].reg # tINV /\ unit.rv[unit.loc[id].reg] = id
    BY <2>2, <2>5 DEF Kept
  <2>7. unit.loc[id].reg \in TReg
    BY <1>1, <2>2, <2>4, <2>6 DEF Coherent
  <2>8. unit.reg_alloc_info[unit.loc[id].reg] = id
    BY <1>1, <1>2, <2>7 DEF Agree
  <2>9. QED BY <1>1, <1>4, <2>2, <2>6, <2>7, <2>8 DEF SavedRegs
<1>5. QED BY <1>1, <1>3, <1>4

LEMMA SaveTempsKept ==
    ASSUME CIInv, CIInv', CallKept, Right, SaveTemps
    PROVE  CallKept'
<1>1. SUFFICES ASSUME Right' PROVE /\ UnitKept' /\ InRegisters' /\ OnStack'
                                   /\ RegistersFirst' /\ WordsRight' /\ TempsPushed'
  BY DEF CallKept
<1>2. PICK u : u = SaveLiveUnit(unit)
  OBVIOUS
<1>3. PICK regs : regs = Ascending(SavedRegs)
  OBVIOUS
<1>4. PICK c : c = Cardinality(SavedRegs)
  OBVIOUS
<1>5. /\ c \in Nat /\ regs \in [1 .. c -> SavedRegs]
      /\ \A r \in SavedRegs : \E i \in 1 .. c : regs[i] = r
  BY <1>3, <1>4, SavedRegsListed
<1>6. PICK w : w = [i \in 1 .. c |-> unit.rv[regs[i]]]
  OBVIOUS
<1>7. /\ ~saved /\ loaded = None /\ saved' = TRUE /\ passed' = passed /\ loaded' = loaded
      /\ stack' = stack \o w /\ temp_stack' = temp_stack \o regs /\ Outcome(u, fate)
  BY <1>2, <1>3, <1>5, <1>6 DEF SaveTemps
<1>8. /\ Consistent(unit) /\ unit \in Unit /\ fate \in Promises
      /\ Ready(unit, unit, Intact) /\ Intact \in Promises
      /\ \A id \in Ids : (id \in Overwritten => Intact[id] = "dead") /\ (id \notin Overwritten => Intact[id] = fate[id])
  BY CallStart
<1>9. PICK f : f = Intact
  OBVIOUS
<1>10. Ready(unit, u, f)
  BY <1>2, <1>8, <1>9, SaveLiveReady
<1>11. \A t \in Temps : fate[t] = f[t]
  BY <1>8, <1>9, Registers, IdAssumption DEF Overwritten
<1>12. /\ Good(u) /\ fate' = fate /\ Coherent(unit', f)
       /\ \A id \in Ids : unit'.loc[id].reg = u.loc[id].reg
       /\ \A q \in AReg : unit'.rv[q] = u.rv[q]
  BY <1>1, <1>7, <1>8, <1>10, <1>11, RightNext, Emitted
<1>13. Saved(unit, u)
  BY <1>2, <1>8, <1>12, SaveLiveIs DEF Good
<1>14. Survive
  <2>1. \A t \in Temps : t \in Ids /\ t \notin Cached(unit)
    BY Registers, IdAssumption DEF Cached, NonTemps
  <2>2. Stay(unit, unit', None)
    BY <1>12, <1>13, <2>1 DEF Stay, Saved
  <2>3. \A id \in Ids : id \in Living' => id \in Living
    BY <1>7, <1>12 DEF Living
  <2>4. QED BY <2>2, <2>3, SurviveStep
<1>15. UnitKept'
  <2>1. \A id \in Ids \ Args : f[id] = fate'[id]
    BY <1>8, <1>9, <1>12 DEF Overwritten
  <2>2. ASSUME NEW id \in Args, fate'[id] # "dead", f[id] = "dead" PROVE id < Len(passed')
    <3>1. id \in Overwritten
      BY <1>8, <1>9, <1>12, <2>2, Registers
    <3>2. id < Len(passed)
      BY <1>12, <2>2, <3>1 DEF CallKept, UnitKept
    <3>3. QED BY <1>7, <3>2
  <2>3. QED BY <1>12, <2>1, <2>2, UnitKeptStep
<1>16. NumRegArgs \in Nat /\ Len(passed) \in Nat /\ Len(passed) <= NumRegArgs
  BY <1>7, RegAssumption DEF CIInv, CallKept, RegistersFirst
<1>17. InRegisters'
  <2>1. ASSUME NEW j \in 1 .. Len(passed), j <= NumRegArgs PROVE unit'.rv[ParamReg(j - 1)] = passed[j]
    <3>1. j - 1 \in Nat /\ j - 1 < NumRegArgs
      BY <1>16, <2>1
    <3>2. ParamReg(j - 1) \in AReg
      BY <3>1, AllParamRegs
    <3>3. unit.rv[ParamReg(j - 1)] = passed[j]
      BY <2>1 DEF CallKept, InRegisters
    <3>4. QED BY <1>12, <1>13, <3>2, <3>3 DEF Saved
  <2>2. QED BY <1>7, <2>1 DEF InRegisters
<1>18. OnStack'
  BY <1>7, <1>16 DEF OnStack
<1>19. RegistersFirst'
  BY <1>7 DEF RegistersFirst
<1>20. PICK L : L = Len(temp_stack)
  OBVIOUS
<1>21. /\ Len(temp_stack') = L + c /\ L \in Nat
       /\ \A i \in 1 .. L : temp_stack'[i] = temp_stack[i] /\ stack'[i] = stack[i]
       /\ \A i \in 1 .. c : temp_stack'[L + i] = regs[i] /\ stack'[L + i] = unit.rv[regs[i]]
       /\ \A i \in 1 .. Len(temp_stack') : i \in 1 .. L \/ \E j \in 1 .. c : i = L + j
  <2>1. regs \in [1 .. c -> Reg]
    BY <1>5, Registers DEF SavedRegs
  <2>2. w \in [1 .. c -> Contents]
    <3>1. \A i \in 1 .. c : regs[i] \in Reg
      BY <2>1
    <3>2. QED BY <1>6, <1>8, <3>1, RvType
  <2>3. regs \in Seq(Reg \cup {At}) /\ Len(regs) = c
    <3>1. regs \in Seq(Reg)
      BY <1>5, <2>1
    <3>2. QED BY <1>5, <2>1, <3>1
  <2>4. w \in Seq(Contents) /\ Len(w) = c
    BY <1>5, <2>2
  <2>5. /\ temp_stack \in Seq(Reg \cup {At}) /\ stack \in Seq(Contents) /\ Len(stack) = L
    BY <1>20 DEF CIInv, StackOK
  <2>6. /\ Len(temp_stack') = L + c /\ L \in Nat
        /\ \A i \in 1 .. L : temp_stack'[i] = temp_stack[i]
        /\ \A i \in 1 .. c : temp_stack'[L + i] = regs[i]
        /\ \A i \in 1 .. Len(temp_stack') : i \in 1 .. L \/ \E j \in 1 .. c : i = L + j
    <3>1. PICK A : A = Reg \cup {At}
      OBVIOUS
    <3>2. PICK p : p = temp_stack'
      OBVIOUS
    <3>3. temp_stack \in Seq(A) /\ regs \in Seq(A) /\ p = temp_stack \o regs
      BY <1>7, <2>3, <2>5, <3>1, <3>2
    <3>4. Joins(p, temp_stack, regs)
      BY <3>3, JoinedAt
    <3>5. QED BY <1>20, <2>3, <3>2, <3>4 DEF Joins
  <2>7. /\ \A i \in 1 .. L : stack'[i] = stack[i]
        /\ \A i \in 1 .. c : stack'[L + i] = w[i]
    <3>1. Joins(stack', stack, w)
      BY <1>7, <2>4, <2>5, JoinedAt
    <3>2. QED BY <2>4, <2>5, <3>1 DEF Joins
  <2>8. \A i \in 1 .. c : w[i] = unit.rv[regs[i]]
    BY <1>6
  <2>9. \A i \in 1 .. c : stack'[L + i] = unit.rv[regs[i]]
    BY <2>7, <2>8
  <2>10. QED BY <2>6, <2>7, <2>9
<1>22. \A i \in 1 .. c : regs[i] \in SavedRegs /\ regs[i] \in TReg
  BY <1>5 DEF SavedRegs
<1>23. WordsRight'
  <2>1. SUFFICES ASSUME NEW i \in 1 .. Len(temp_stack'), NEW id \in Living', temp_stack'[i] = unit'.loc[id].reg
                 PROVE  stack'[i] = id
    BY DEF WordsRight
  <2>2. id \in Living /\ unit'.loc[id].reg = unit.loc[id].reg
    BY <1>14, <2>1 DEF Survive
  <2>3. CASE i \in 1 .. L
    <3>1. temp_stack'[i] = temp_stack[i] /\ stack'[i] = stack[i] /\ i \in 1 .. Len(temp_stack)
      BY <1>20, <1>21, <2>3
    <3>2. temp_stack[i] = unit.loc[id].reg
      BY <2>1, <2>2, <3>1
    <3>3. WordsRight
      BY <1>20 DEF CallKept
    <3>4. stack[i] = id
      BY <2>2, <3>1, <3>2, <3>3 DEF WordsRight
    <3>5. QED BY <3>1, <3>4
  <2>4. ASSUME NEW j \in 1 .. c, i = L + j PROVE stack'[i] = id
    <3>1. regs[j] = unit.loc[id].reg /\ stack'[i] = unit.rv[regs[j]]
      BY <1>21, <2>1, <2>2, <2>4
    <3>2. id \notin Args
      BY <1>22, <2>2, <3>1, LivingPlaced, AllParamRegs
    <3>3. id \in Temps
      BY <2>2, <3>2 DEF Living
    <3>4. unit.rv[unit.loc[id].reg] = id
      BY <2>2, <3>3, LivingPlaced
    <3>5. QED BY <3>1, <3>4
  <2>5. QED BY <1>21, <2>3, <2>4
<1>24. TempsPushed'
  <2>1. SUFFICES ASSUME NEW id \in Living', id \in Temps
                 PROVE  \E i \in 1 .. Len(temp_stack') : temp_stack'[i] = unit'.loc[id].reg
    BY DEF TempsPushed
  <2>2. id \in Living /\ unit'.loc[id].reg = unit.loc[id].reg
    BY <1>14, <2>1 DEF Survive
  <2>3. unit.loc[id].reg \in SavedRegs
    BY <2>1, <2>2, LivingPlaced
  <2>4. PICK j \in 1 .. c : regs[j] = unit.loc[id].reg
    BY <1>5, <2>3
  <2>5. L + j \in 1 .. Len(temp_stack')
    BY <1>5, <1>21
  <2>6. QED BY <1>21, <2>2, <2>4, <2>5
<1>25. QED BY <1>15, <1>17, <1>18, <1>19, <1>23, <1>24

(***************************************************************************)
(* Call.                                                                   *)
(***************************************************************************)

\* The register of something that the call must bring back, popped, is that.
LEMMA PoppedIs ==
    ASSUME CIInv, WordsRight, NEW id \in Living, NEW r \in RestoredRegs, unit.loc[id].reg = r
    PROVE  Popped(r) = id
<1> DEFINE at == {i \in DOMAIN temp_stack : temp_stack[i] = r}
<1>1. DOMAIN temp_stack = 1 .. Len(temp_stack)
  BY DEF CIInv, StackOK
<1>2. at \in SUBSET Nat /\ at # {} /\ \A i \in at : i \in 1 .. Len(temp_stack) /\ temp_stack[i] = unit.loc[id].reg
  BY <1>1 DEF RestoredRegs
<1>3. \A i \in at : stack[i] = id
  <2> HIDE DEF at
  <2>1. QED BY <1>2 DEF WordsRight
<1>4. Popped(r) = stack[CHOOSE i \in at : \A j \in at : i <= j]
  BY DEF Popped
<1> HIDE DEF at
<1>5. PICK i \in at : \A j \in at : i <= j
  BY <1>2, LeastNumber
<1>6. (CHOOSE k \in at : \A j \in at : k <= j) \in at
  BY <1>5
<1>7. QED BY <1>3, <1>4, <1>6

\* After the callee only the tables and the homes are what they were.
LEMMA ClobberIs ==
    ASSUME NEW u \in Unit, NEW c, c = Clobber(u)
    PROVE  /\ c.loc = u.loc /\ c.mv = u.mv /\ c.stale = u.stale /\ c.fault = u.fault /\ c.panic = u.panic
           /\ c.reg_alloc_info = u.reg_alloc_info
BY DEF Clobber, Unit

\* v finds what u finds in homes, and res, if it is one, in register r.
Returned(u, v, res, r) ==
    /\ v.stale = u.stale
    /\ \A i \in Ids : i # res => v.loc[i] = u.loc[i] /\ v.mv[i] = u.mv[i]
    /\ res # None => v.loc[res].reg \in TReg \cup {tINV}
    /\ r # tINV => r \in TReg /\ v.loc[res].reg = r /\ v.rv[r] = res

\* The result gets a register, and nothing else moves.
LEMMA ResultIs ==
    ASSUME NEW u, Consistent(u), Good(u), NEW res \in Temps, u.loc[res].reg \in TReg \cup {tINV}, ~u.loc[res].known,
           NEW c, c = Clobber(u), NEW e, e = LoadOperand(c, res), NEW v, v = Redefine(e.u, e.r, res, res), Good(v)
    PROVE  Returned(u, v, res, e.r) /\ e.r # tINV
<1>1. u \in Unit /\ res \in Ids /\ res # None /\ tINV \notin TReg
  BY Registers DEF Consistent
<1>2. /\ c.loc = u.loc /\ c.mv = u.mv /\ c.stale = u.stale /\ c.fault = u.fault /\ c.panic = u.panic
      /\ c.reg_alloc_info = u.reg_alloc_info
  BY <1>1, ClobberIs
<1>3. Consistent(c) /\ Good(c)
  BY <1>2, ClobberConsistent DEF Good
<1>4. Consistent(e.u) /\ e.r \in Reg /\ e.u \in Unit
  BY <1>1, <1>3, LoadOperandConsistent DEF Consistent
<1>5. /\ v.loc = e.u.loc /\ v.stale = e.u.stale /\ v.fault = e.u.fault /\ v.panic = e.u.panic
      /\ v.rv[e.r] = res /\ \A i \in Ids : i # res => v.mv[i] = e.u.mv[i]
  BY <1>1, <1>4, RedefineIs
<1>6. /\ e.r \in TReg /\ e.u.loc[res].reg = e.r /\ e.u.stale = c.stale
      /\ \A i \in Ids : i # res => e.u.loc[i] = c.loc[i] /\ e.u.mv[i] = c.mv[i]
  <2>1. e = GetReg(c, tINV, res, 2, TRUE)
    BY DEF LoadOperand
  <2>2. CASE c.loc[res].reg # tINV
    <3>1. e.u = c /\ e.r = c.loc[res].reg
      BY <2>1, <2>2, KeepInMem DEF GetReg
    <3>2. QED BY <1>2, <2>2, <3>1
  <2>3. CASE c.loc[res].reg = tINV
    <3>1. 2 \in {0, 2} /\ TRUE \in BOOLEAN /\ (tINV \in TReg => c.reg_alloc_info[tINV] = None)
      BY <1>1
    <3>2. e.u.fault = "none" /\ e.u.panic = "none"
      BY <1>5 DEF Good
    <3>3. e.u.panic = "empty_reg" \/ \E w \in Unit : TakesReg(c, res, e, w, 2, TRUE)
      BY <1>1, <1>3, <2>1, <2>3, <3>1, <3>2, GetRegParts DEF Good
    <3>4. PICK w \in Unit : TakesReg(c, res, e, w, 2, TRUE)
      BY <3>2, <3>3
    <3>5. e.u = Named(w, res)
      BY <1>2, <3>4 DEF TakesReg
    <3>6. /\ e.u.mv = w.mv /\ e.u.stale = w.stale /\ e.u.loc[res].reg = w.loc[res].reg
          /\ \A i \in Ids : i # res => e.u.loc[i] = w.loc[i]
      BY <1>1, <3>4, <3>5, NamedIs
    <3>7. QED BY <3>4, <3>6 DEF TakesReg
  <2>4. QED BY <2>2, <2>3
<1>7. QED BY <1>1, <1>2, <1>5, <1>6 DEF Returned

LEMMA RestoreIs ==
    ASSUME NEW u \in Unit, NEW v, v = Restore(u)
    PROVE  /\ v.loc = u.loc /\ v.mv = u.mv /\ v.stale = u.stale /\ v.fault = u.fault /\ v.panic = u.panic
           /\ \A r \in Reg : (r \in RestoredRegs => v.rv[r] = Popped(r)) /\ (r \notin RestoredRegs => v.rv[r] = u.rv[r])
<1> DEFINE rv == [r \in Reg |-> IF r \in RestoredRegs THEN Popped(r) ELSE u.rv[r]]
<1>1. v = [u EXCEPT !.rv = rv]
  BY DEF Restore
<1>2. \A r \in Reg : (r \in RestoredRegs => rv[r] = Popped(r)) /\ (r \notin RestoredRegs => rv[r] = u.rv[r])
  OBVIOUS
<1> HIDE DEF rv
<1>3. /\ v.loc = u.loc /\ v.mv = u.mv /\ v.stale = u.stale /\ v.fault = u.fault /\ v.panic = u.panic
      /\ v.rv = rv
  BY <1>1 DEF Unit
<1>4. QED BY <1>2, <1>3

LEMMA ResultReturned ==
    ASSUME CIInv, CallKept, Right, NEW res \in Temps \cup {None}, NEW flag, res # None => Fresh(res),
           NEW d, d = Result(Clobber(unit), res, flag), Good(d.u)
    PROVE  /\ Consistent(d.u) /\ Returned(unit, d.u, res, d.r)
           /\ (res # None /\ flag # "dead") => d.r # tINV
<1>1. /\ Consistent(unit) /\ unit \in Unit /\ Ready(unit, unit, Intact)
      /\ Good(unit)
  BY CallStart DEF Right, Sound, Good
<1>2. PICK f : f = Intact
  OBVIOUS
<1>3. Coherent(unit, f)
  BY <1>1, <1>2, ReadyGood
<1>4. res # None => res \in Temps /\ res \in Ids /\ res \notin Args /\ unit.loc[res].reg \in TReg \cup {tINV}
  BY <1>3, Registers, IdAssumption DEF Coherent
<1>5. PICK c : c = Clobber(unit)
  OBVIOUS
<1>6. Consistent(d.u)
  BY <1>1, ClobberConsistent, ResultConsistent
<1>7. CASE res = None \/ flag = "dead"
  <2>1. d = [u |-> c, r |-> tINV]
    BY <1>5, <1>7 DEF Result
  <2>2. d.u = c /\ d.r = tINV
    BY <2>1
  <2>3. c.loc = unit.loc /\ c.mv = unit.mv /\ c.stale = unit.stale
    BY <1>1, <1>5, ClobberIs
  <2>4. Returned(unit, d.u, res, d.r)
    BY <1>4, <2>2, <2>3 DEF Returned
  <2>5. QED BY <1>6, <1>7, <2>4
<1>8. CASE ~(res = None \/ flag = "dead")
  <2>1. PICK e : e = LoadOperand(c, res)
    OBVIOUS
  <2>2. PICK v : v = Redefine(e.u, e.r, res, res)
    OBVIOUS
  <2>3. d = [u |-> v, r |-> e.r]
    BY <1>5, <1>8, <2>1, <2>2 DEF Result
  <2>4. d.u = v /\ d.r = e.r
    BY <2>3
  <2>5. ~unit.loc[res].known
    BY <1>4, <1>8 DEF Fresh
  <2>6. Returned(unit, v, res, e.r) /\ e.r # tINV
    BY <1>1, <1>4, <1>5, <1>8, <2>1, <2>2, <2>4, <2>5, ResultIs
  <2>7. QED BY <1>6, <2>4, <2>6
<1>9. QED BY <1>7, <1>8

\* With everything in its home or popped, the tables are right again.
LEMMA CallCoherent ==
    ASSUME CIInv, CallKept, Right, saved, loaded = None, ~Unsaved, ~Unpushed,
           NEW res \in Temps \cup {None}, NEW r, r \notin RestoredRegs,
           NEW u, Consistent(u), Returned(unit, u, res, r), NEW v, v = Restore(u),
           NEW h, \A id \in Ids : id # res => h[id] = fate[id],
           res # None => h[res] = "dead" \/ r # tINV
    PROVE  Coherent(v, h)
<1>1. /\ Consistent(unit) /\ unit \in Unit /\ Agree(unit) /\ Ready(unit, unit, Intact)
      /\ \A id \in Ids : id \notin Overwritten => Intact[id] = fate[id]
  BY CallStart DEF Consistent
<1>2. PICK f : f = Intact
  OBVIOUS
<1>3. Coherent(unit, f) /\ \A id \in Ids \ Args : f[id] = fate[id]
  BY <1>1, <1>2, ReadyGood DEF Right, Sound, Good, Overwritten
<1>4. /\ v.loc = u.loc /\ v.mv = u.mv /\ v.stale = u.stale
      /\ \A q \in Reg : (q \in RestoredRegs => v.rv[q] = Popped(q)) /\ (q \notin RestoredRegs => v.rv[q] = u.rv[q])
  BY RestoreIs DEF Consistent
<1>5. \A id \in Ids : id # res => v.loc[id] = unit.loc[id] /\ v.mv[id] = unit.mv[id]
  BY <1>4 DEF Returned
<1>6. \A id \in Vars : id \in Ids \ Args /\ id # res /\ id \notin Temps
  BY Registers, IdAssumption
<1>7. \A id \in Vars : unit.loc[id].reg = tINV
  <2>1. SUFFICES ASSUME NEW id \in Vars, unit.loc[id].reg # tINV PROVE FALSE
    OBVIOUS
  <2>2. unit.loc[id].reg \in TReg
    BY <1>3, <1>6, <2>1 DEF Coherent
  <2>3. unit.reg_alloc_info[unit.loc[id].reg] = id
    BY <1>1, <1>6, <2>2 DEF Agree
  <2>4. QED BY <2>2, <2>3 DEF Unsaved, NonTemps
<1>8. ASSUME NEW id \in Living, unit.loc[id].reg \in RestoredRegs, id # res PROVE Kept(v, id)
  <2>1. id \in Ids /\ unit.loc[id].reg \in Reg /\ unit.loc[id].reg # tINV
    BY <1>8, Registers, LivingPlaced, AllParamRegs DEF Living, Reg
  <2>2. Popped(unit.loc[id].reg) = id
    <3>1. PICK q : q = unit.loc[id].reg
      OBVIOUS
    <3>2. q \in RestoredRegs /\ WordsRight
      BY <1>8, <3>1 DEF CallKept
    <3>3. QED BY <3>1, <3>2, PoppedIs
  <2>3. v.rv[unit.loc[id].reg] = id /\ v.loc[id].reg = unit.loc[id].reg
    BY <1>4, <1>5, <1>8, <2>1, <2>2
  <2>4. QED BY <2>1, <2>3 DEF Kept
<1>9. ASSUME NEW id \in Ids, h[id] # "dead" PROVE Kept(v, id)
  <2>1. CASE id = res
    <3>1. r # tINV /\ r \in TReg /\ u.loc[res].reg = r /\ u.rv[r] = res
      BY <1>9, <2>1, Registers DEF Returned
    <3>2. v.rv[r] = res /\ v.loc[res].reg = r
      BY <1>4, <3>1, Registers
    <3>3. QED BY <2>1, <3>1, <3>2 DEF Kept
  <2>2. CASE id # res /\ id \in Vars
    <3>1. Kept(unit, id)
      BY <1>3, <1>6, <1>9, <2>2 DEF Coherent
    <3>2. QED BY <1>5, <1>7, <2>2, <3>1 DEF Kept
  <2>3. CASE id # res /\ id \in Temps \cup Args
    <3>1. fate[id] # "dead" /\ id # None
      BY <1>9, <2>3, Registers
    <3>2. id \in Living
      BY <2>3, <3>1 DEF Living
    <3>3. unit.loc[id].reg \in RestoredRegs
      <4>1. CASE id \in Args
        <5>1. unit.loc[id].reg = ParamReg(id)
          BY <3>2, <4>1, LivingPlaced
        <5>2. QED BY <3>1, <4>1, <5>1 DEF Unpushed
      <4>2. CASE id \in Temps
        <5>1. PICK i \in 1 .. Len(temp_stack) : temp_stack[i] = unit.loc[id].reg
          BY <3>2, <4>2 DEF CallKept, TempsPushed
        <5>2. unit.loc[id].reg \in Reg
          BY <3>2, <4>2, LivingPlaced, Registers
        <5>3. i \in DOMAIN temp_stack
          BY <5>1 DEF CIInv, StackOK
        <5>4. QED BY <5>1, <5>2, <5>3, AllParamRegs DEF RestoredRegs
      <4>3. QED BY <2>3, <4>1, <4>2
    <3>4. QED BY <1>8, <2>3, <3>2, <3>3
  <2>4. QED BY <2>1, <2>2, <2>3 DEF Ids
<1>10. v.stale = {}
  BY <1>3, <1>4 DEF Returned, Coherent
<1>11. \A id \in Vars : v.loc[id] = unit.loc[id] /\ v.mv[id] = unit.mv[id] /\ h[id] = f[id]
  BY <1>3, <1>5, <1>6
<1>12. \A id \in Vars : v.loc[id].home = TRUE /\ v.loc[id].known = TRUE
  BY <1>3, <1>11 DEF Coherent
<1>13. \A id \in Ids \ Args : v.loc[id].reg \in TReg \cup {tINV}
  <2>1. SUFFICES ASSUME NEW id \in Ids \ Args PROVE v.loc[id].reg \in TReg \cup {tINV}
    OBVIOUS
  <2>2. CASE id = res
    BY <1>4, <2>2, Registers DEF Returned
  <2>3. CASE id # res
    BY <1>3, <1>5, <2>3 DEF Coherent
  <2>4. QED BY <2>2, <2>3
<1>14. \A id \in Vars : (h[id] # "dead" /\ v.loc[id].in_mem = TRUE) => v.mv[id] = TRUE
  BY <1>3, <1>11 DEF Coherent
<1>15. \A id \in Vars : h[id] \in {"in", "out"} => v.loc[id].reg = tINV /\ v.loc[id].in_mem = TRUE
  BY <1>3, <1>11 DEF Coherent
<1>16. QED BY <1>9, <1>10, <1>12, <1>13, <1>14, <1>15 DEF Coherent

LEMMA CallReturnsKept ==
    ASSUME CIInv, CIInv', CallKept, Right, NEW res \in Temps \cup {None}, NEW flag \in {"next", "dead"}, Call(res, flag)
    PROVE  CallKept'
<1>1. SUFFICES ASSUME Right' PROVE /\ UnitKept' /\ InRegisters' /\ OnStack'
                                   /\ RegistersFirst' /\ WordsRight' /\ TempsPushed'
  BY DEF CallKept
<1>2. PICK d : d = Result(Clobber(unit), res, flag)
  OBVIOUS
<1>3. PICK u : u = d.u
  OBVIOUS
<1>4. PICK v : v = Restore(u)
  OBVIOUS
<1>5. PICK h : h = IF res = None THEN fate ELSE Use!Promise(fate, res, flag)
  OBVIOUS
<1>6. /\ saved /\ loaded = None /\ (res # None => Fresh(res)) /\ Outcome(v, h)
      /\ temp_stack' = <<>> /\ stack' = <<>> /\ passed' = <<>> /\ saved' = FALSE /\ loaded' = loaded
  BY <1>2, <1>3, <1>4, <1>5 DEF Call
<1>7. mishap' = "none" /\ unit'.fault = "none" /\ unit'.panic = "none" /\ unit \in Unit
  BY <1>1, RightNext, CallStart
<1>8. ~Unsaved /\ ~Unpushed /\ d.r \notin RestoredRegs
  <2>1. {"unsaved", "unpushed", "reloaded"} \in SUBSET (Mishap \ {"none"})
    BY DEF Mishap
  <2>2. CASE Unsaved
    <3>1. Blame("unsaved", TRUE)
      BY <2>2 DEF Call
    <3>2. QED BY <1>7, <2>1, <3>1, Blameless
  <2>3. CASE ~Unsaved /\ Unpushed
    <3>1. Blame("unpushed", TRUE)
      BY <2>3 DEF Call
    <3>2. QED BY <1>7, <2>1, <3>1, Blameless
  <2>4. CASE ~Unsaved /\ ~Unpushed
    <3>1. PICK b : b = (d.r \in RestoredRegs)
      OBVIOUS
    <3>2. Blame("reloaded", b) /\ b \in BOOLEAN
      BY <1>2, <2>4, <3>1 DEF Call
    <3>3. ~b
      BY <1>7, <2>1, <3>2, Blameless
    <3>4. QED BY <2>4, <3>1, <3>3
  <2>5. QED BY <2>2, <2>3, <2>4
<1>9. Consistent(u)
  BY <1>2, <1>3, CallStart, ClobberConsistent, ResultConsistent
<1>10. Consistent(v) /\ v \in Unit /\ u \in Unit
  BY <1>4, <1>9, RestoreConsistent DEF CIInv, Consistent
<1>11. Good(v) /\ unit' = Forget(v, h) /\ fate' = h
  BY <1>6, <1>7, <1>10, WentWell
<1>12. Good(u)
  BY <1>4, <1>10, <1>11, RestoreIs DEF Good
<1>13. Returned(unit, u, res, d.r) /\ ((res # None /\ flag # "dead") => d.r # tINV)
  BY <1>2, <1>3, <1>6, <1>12, ResultReturned
<1>14. (\A id \in Ids : id # res => h[id] = fate[id]) /\ (res # None => h[res] = flag)
  <2>1. res # None => res \in Ids /\ flag \in Use!Flags /\ fate \in Promises
    BY Registers, FlagsAre, CallStart
  <2>2. res # None => h[res] = flag /\ Changes(fate, h, res)
    BY <1>5, <2>1, PromiseIs
  <2>3. CASE res = None
    BY <1>5, <2>3
  <2>4. CASE res # None
    BY <2>2, <2>4 DEF Changes
  <2>5. QED BY <2>3, <2>4
<1>15. Coherent(v, h)
  <2>1. PICK r : r = d.r
    OBVIOUS
  <2>2. /\ r \notin RestoredRegs /\ Returned(unit, u, res, r)
        /\ res # None => h[res] = "dead" \/ r # tINV
    BY <1>8, <1>13, <1>14, <2>1
  <2>3. QED BY <1>4, <1>6, <1>8, <1>9, <1>14, <2>2, CallCoherent
<1>16. Coherent(unit', h)
  BY <1>10, <1>11, <1>15, ForgetCoherent DEF Good
<1>17. UnitKept'
  <2>1. \A id \in Ids \ Args : h[id] = fate'[id]
    BY <1>11
  <2>2. \A id \in Args : fate'[id] # "dead" => h[id] # "dead" \/ id < Len(passed')
    BY <1>11
  <2>3. QED BY <1>16, <2>1, <2>2, UnitKeptStep
<1>18. Len(passed') = 0 /\ Len(temp_stack') = 0
  BY <1>6
<1>19. InRegisters' /\ OnStack' /\ WordsRight'
  BY <1>18 DEF InRegisters, OnStack, WordsRight
<1>20. RegistersFirst' /\ TempsPushed'
  BY <1>6, <1>18, RegAssumption DEF RegistersFirst, TempsPushed
<1>21. QED BY <1>17, <1>19, <1>20

(***************************************************************************)
(* The load of an Arg's operand.                                           *)
(***************************************************************************)

\* It moves the pointer at most if it is not needed any more, and takes no
\* register of a parameter.
LEMMA LoadThroughFrame ==
    ASSUME NEW o, NEW u, NEW f \in Promises, Ready(o, u, f), NEW p \in Temps, NEW res \in Temps, NEW fp \in {"next", "dead"},
           f[p] # "dead", NEW v, v = UnaryUnit(u, "!", p, fp, res, "next"), Good(v)
    PROVE  /\ \A t \in Temps : (t # res /\ (t = p => fp = "next")) => v.loc[t].reg = u.loc[t].reg
           /\ \A q \in AReg : u.rv[q] # res => v.rv[q] = u.rv[q]
<1>1. p \in Ids /\ res \in Ids /\ res \notin Args /\ fp \in Use!Flags /\ fp \in {"next", "out", "dead"} /\ fp # "out"
  BY Registers, FlagsAre, IdAssumption
<1>2. PICK p1 : p1 \in Promises /\ p1[p] = "next" /\ Changes(f, p1, p)
  BY <1>1, FlagsAre, PromiseCanBe
<1>3. PICK p2 : p2 \in Promises /\ p2[p] = fp /\ Changes(p1, p2, p)
  BY <1>1, <1>2, PromiseCanBe
<1>4. PICK p3 : p3 \in Promises /\ p3[res] = "dead" /\ Changes(p2, p3, res)
  BY <1>1, <1>3, FlagsAre, PromiseCanBe
<1>5. PICK s : s = LoadOperand(u, p)
  OBVIOUS
<1>6. PICK w : w = Release(s.u, s.r, fp)
  OBVIOUS
<1>7. PICK dest : dest = HandOver(fp, s.r, tINV)
  OBVIOUS
<1>8. PICK d : d = DestReg(w, dest, res)
  OBVIOUS
<1>9. PICK e : e = d.u
  OBVIOUS
<1>10. PICK rd : rd = {<<p, s.r>>}
  OBVIOUS
<1>11. v = ResultLine(e, rd, d.r, res, "next")
  BY <1>5, <1>6, <1>7, <1>8, <1>9, <1>10 DEF UnaryUnit, MarkIf, UnaryLine, ResultLine, Settle
<1>12. /\ Ready(o, s.u, p1) /\ s.r \in Reg
       /\ Good(s.u) => Holds(s.u, p, s.r) /\ Quiet(u, s.u)
  BY <1>1, <1>2, <1>5, OperandLoaded
<1>13. /\ Ready(o, w, p2) /\ Consistent(w) /\ Later(s.u, w)
       /\ Good(w) => w.rv = s.u.rv /\ Others(s.u, w, p)
       /\ fp = "next" => w = s.u
       /\ (s.r \in TReg /\ fp # "next") => w.reg_alloc_info[s.r] = None
  <2>1. Good(s.u) => s.u.loc[p].reg = s.r
    BY <1>12 DEF Holds
  <2>2. fp # "dead" => p1[p] = "next"
    BY <1>2
  <2>3. (p \in Temps /\ fp = "out") => p2[p] = "dead"
    BY <1>1
  <2>4. QED BY <1>1, <1>3, <1>6, <1>12, <2>1, <2>2, <2>3, ReleaseReady
<1>14. dest \in TReg => w.reg_alloc_info[dest] = None
  BY <1>7, <1>13, Registers DEF HandOver
<1>15. /\ Ready(o, e, p3) /\ Consistent(e) /\ e \in Unit /\ d.r \in Reg /\ Later(w, e)
       /\ Good(e) => e.loc[res].reg = d.r /\ e.rv = w.rv /\ Others(w, e, res)
  BY <1>1, <1>4, <1>8, <1>9, <1>13, <1>14, DestReady DEF Consistent
<1>16. rd \in SUBSET (Ids \X Reg)
  BY <1>1, <1>10, <1>12
<1>17. Later(e, v) /\ v.loc = e.loc /\ \A q \in Reg : (q # d.r /\ e.rv[q] # res) => v.rv[q] = e.rv[q]
  BY <1>1, <1>11, <1>15, <1>16, DefLineIs DEF Good
<1>18. Good(e) /\ Good(w) /\ Good(s.u)
  BY <1>13, <1>15, <1>17, GoodLater
<1>19. d.r \in TReg
  <2>1. Coherent(e, p3)
    BY <1>15, <1>18, ReadyGood
  <2>2. QED BY <1>1, <1>15, <1>18, <2>1, Registers DEF Coherent
<1>20. ASSUME NEW t \in Temps, t # res, t = p => fp = "next" PROVE v.loc[t].reg = u.loc[t].reg
  <2>1. t \in Ids /\ s.u.loc[t].reg = u.loc[t].reg
    BY <1>12, <1>18, <1>20, Registers DEF Quiet
  <2>2. w.loc[t].reg = s.u.loc[t].reg
    BY <1>13, <1>18, <1>20, <2>1 DEF Others
  <2>3. e.loc[t].reg = w.loc[t].reg
    BY <1>15, <1>18, <1>20, <2>1 DEF Others
  <2>4. QED BY <1>17, <2>1, <2>2, <2>3
<1>21. ASSUME NEW q \in AReg, u.rv[q] # res PROVE v.rv[q] = u.rv[q]
  <2>1. q \in Reg /\ q # d.r
    BY <1>19, AllParamRegs DEF Reg
  <2>2. e.rv[q] = u.rv[q]
    BY <1>12, <1>13, <1>15, <1>18 DEF Quiet
  <2>3. QED BY <1>17, <1>21, <2>1, <2>2
<1>22. QED BY <1>20, <1>21

LEMMA LoadThroughKept ==
    ASSUME CIInv, CIInv', CallKept, Right, NEW p \in Temps, NEW res \in Temps, NEW fp \in {"next", "dead"},
           LoadThrough(p, fp, res)
    PROVE  CallKept'
<1>1. SUFFICES ASSUME Right' PROVE /\ UnitKept' /\ InRegisters' /\ OnStack'
                                   /\ RegistersFirst' /\ WordsRight' /\ TempsPushed'
  BY DEF CallKept
<1>2. PICK u : u = UnaryUnit(unit, "!", p, fp, res, "next")
  OBVIOUS
<1>3. PICK fr : fr = "next"
  OBVIOUS
<1>4. PICK g : g = Use!Promise(fate, p, fp)
  OBVIOUS
<1>5. PICK h : h = Use!Promise(g, res, fr)
  OBVIOUS
<1>6. /\ loaded = None /\ (\A i \in DOMAIN passed : passed[i] # res)
      /\ MayRead(fate, p, fp) /\ MayWrite(g, res, fr) /\ Outcome(u, h)
      /\ loaded' = res /\ temp_stack' = temp_stack /\ stack' = stack /\ passed' = passed /\ saved' = saved
  BY <1>2, <1>3, <1>4, <1>5 DEF LoadThrough, Unary
<1>7. p \in Ids /\ res \in Ids /\ p \notin Args /\ res \notin Args /\ fp \in Use!Flags /\ fr \in Use!Flags
  BY <1>3, Registers, FlagsAre, IdAssumption
<1>8. /\ Consistent(unit) /\ unit \in Unit /\ fate \in Promises
      /\ Ready(unit, unit, Intact) /\ Intact \in Promises
      /\ \A id \in Ids : (id \in Overwritten => Intact[id] = "dead") /\ (id \notin Overwritten => Intact[id] = fate[id])
  BY CallStart
<1>9. PICK f : f = Intact
  OBVIOUS
<1>10. \A id \in Ids : id \notin Args => f[id] = fate[id]
  BY <1>8, <1>9 DEF Overwritten
<1>11. PICK a : a = Use!Promise(f, p, fp)
  OBVIOUS
<1>12. PICK b : b = Use!Promise(a, res, fr)
  OBVIOUS
<1>13. /\ g \in Promises /\ g[p] = fp /\ Changes(fate, g, p)
       /\ h \in Promises /\ h[res] = "next" /\ Changes(g, h, res)
  <2>1. g \in Promises /\ g[p] = fp /\ Changes(fate, g, p)
    BY <1>4, <1>7, <1>8, PromiseIs
  <2>2. h \in Promises /\ h[res] = fr /\ Changes(g, h, res)
    BY <1>5, <1>7, <2>1, PromiseIs
  <2>3. QED BY <1>3, <2>1, <2>2
<1>14. /\ a \in Promises /\ a[p] = fp /\ Changes(f, a, p)
       /\ b \in Promises /\ b[res] = "next" /\ Changes(a, b, res)
  <2>1. a \in Promises /\ a[p] = fp /\ Changes(f, a, p)
    BY <1>7, <1>8, <1>9, <1>11, PromiseIs
  <2>2. b \in Promises /\ b[res] = fr /\ Changes(a, b, res)
    BY <1>7, <1>12, <2>1, PromiseIs
  <2>3. QED BY <1>3, <2>1, <2>2
<1>15. MayRead(f, p, fp) /\ MayWrite(a, res, fr)
  <2>1. f[p] = fate[p] /\ a[res] = g[res]
    BY <1>7, <1>10, <1>13, <1>14 DEF Changes
  <2>2. QED BY <1>6, <2>1 DEF MayRead, MayWrite, Use!CanRead, Use!CanWrite
<1>16. Ready(unit, u, b)
  <2>1. PICK op : op = "!"
    OBVIOUS
  <2>2. op \in UnaryOp /\ u = UnaryUnit(unit, op, p, fp, res, fr)
    BY <1>2, <1>3, <2>1 DEF UnaryOp
  <2>3. QED BY <1>7, <1>8, <1>9, <1>11, <1>12, <1>15, <2>2, UnaryReady
<1>17. \A id \in Ids : id \notin Args => b[id] = h[id]
  BY <1>7, <1>10, <1>13, <1>14 DEF Changes
<1>18. /\ Good(u) /\ fate' = h /\ Coherent(unit', b)
       /\ \A id \in Ids : unit'.loc[id].reg = u.loc[id].reg
       /\ \A q \in AReg : unit'.rv[q] = u.rv[q]
  <2>1. \A t \in Temps : h[t] = b[t]
    BY <1>17, Registers, IdAssumption
  <2>2. QED BY <1>1, <1>6, <1>8, <1>16, <2>1, RightNext, Emitted
<1>19. fate[p] # "dead" /\ f[p] # "dead"
  BY <1>6, <1>7, <1>8, <1>10, MayIs
<1>20. /\ \A t \in Temps : (t # res /\ (t = p => fp = "next")) => unit'.loc[t].reg = unit.loc[t].reg
       /\ \A q \in AReg : unit.rv[q] # res => unit'.rv[q] = unit.rv[q]
  <2>1. /\ \A t \in Temps : (t # res /\ (t = p => fp = "next")) => u.loc[t].reg = unit.loc[t].reg
        /\ \A q \in AReg : unit.rv[q] # res => u.rv[q] = unit.rv[q]
    BY <1>2, <1>8, <1>9, <1>18, <1>19, LoadThroughFrame
  <2>2. QED BY <1>18, <2>1, Registers
<1>21. UnitKept'
  <2>1. \A id \in Ids \ Args : b[id] = fate'[id]
    BY <1>17, <1>18
  <2>2. ASSUME NEW id \in Args, fate'[id] # "dead", b[id] = "dead" PROVE id < Len(passed')
    <3>1. id \in Ids /\ id # p /\ id # res
      BY <1>7, Registers
    <3>2. b[id] = f[id] /\ fate'[id] = fate[id]
      BY <1>13, <1>14, <1>18, <3>1 DEF Changes
    <3>3. id \in Overwritten
      BY <1>8, <1>9, <2>2, <3>1, <3>2
    <3>4. QED BY <1>6, <2>2, <3>2, <3>3 DEF CallKept, UnitKept
  <2>3. QED BY <1>18, <2>1, <2>2, UnitKeptStep
<1>22. Survive
  <2>1. SUFFICES ASSUME NEW id \in Living' PROVE id \in Living /\ unit'.loc[id].reg = unit.loc[id].reg
    BY DEF Survive
  <2>2. id \in Ids /\ fate'[id] # "dead" /\ id # res /\ (id \in Temps \/ id \in Args) /\ id # None
    BY <1>6, <2>1, Registers DEF Living
  <2>3. fate[id] # "dead"
    BY <1>13, <1>18, <1>19, <2>2 DEF Changes
  <2>4. id \in Living
    BY <1>6, <2>2, <2>3 DEF Living
  <2>5. CASE id \in Temps
    <3>1. id = p => fp = "next"
      BY <1>13, <1>18, <2>2 DEF Changes
    <3>2. QED BY <1>20, <2>2, <2>4, <2>5, <3>1
  <2>6. CASE id \in Args
    BY <2>4, <2>6 DEF CIInv, IInv, TablesAgree, Agree
  <2>7. QED BY <2>2, <2>5, <2>6
<1>23. InRegisters'
  <2>1. ASSUME NEW j \in 1 .. Len(passed), j <= NumRegArgs PROVE unit'.rv[ParamReg(j - 1)] = passed[j]
    <3>1. j - 1 \in Nat /\ j - 1 < NumRegArgs /\ j \in DOMAIN passed
      BY <2>1, RegAssumption DEF CIInv
    <3>2. ParamReg(j - 1) \in AReg
      BY <3>1, AllParamRegs
    <3>3. unit.rv[ParamReg(j - 1)] = passed[j] /\ passed[j] # res
      BY <1>6, <2>1, <3>1 DEF CallKept, InRegisters
    <3>4. QED BY <1>20, <3>2, <3>3
  <2>2. QED BY <1>6, <2>1 DEF InRegisters
<1>24. OnStack' /\ RegistersFirst'
  BY <1>6 DEF CallKept, OnStack, RegistersFirst
<1>25. WordsRight' /\ TempsPushed'
  BY <1>6, <1>22, WordsStay, TempsStayPushed DEF CallKept
<1>26. QED BY <1>21, <1>23, <1>24, <1>25

(***************************************************************************)
(* Between calls, and the theorems.                                        *)
(***************************************************************************)

\* Outside a call nothing is pushed, and the unit is coherent as it is.
LEMMA Between ==
    ASSUME CIInv, CallKept, Right, ~Calling
    PROVE  /\ passed = <<>> /\ stack = <<>> /\ Len(temp_stack) = 0 /\ ~saved
           /\ Coherent(unit, fate)
<1>1. passed = <<>> /\ ~saved /\ stack = <<>>
  BY DEF Calling, CIInv
<1>2. Len(temp_stack) = 0
  BY <1>1 DEF CIInv, StackOK
<1>3. \A id \in Overwritten : fate[id] = "dead"
  <2>1. \A id \in Overwritten : id \in Nat
    BY AllParamRegs DEF Overwritten
  <2>2. \A id \in Overwritten : fate[id] # "dead" => id < 0
    BY <1>1 DEF CallKept, UnitKept
  <2>3. QED BY <2>1, <2>2
<1>4. PICK g : g = Without(fate, Args)
  OBVIOUS
<1>5. Consistent(unit) /\ fate \in Promises /\ Coherent(unit, g)
  BY <1>4, CallingUnit DEF CallKept, UnitKept
<1>6. \A id \in Ids : id \notin Args => g[id] = fate[id]
  BY <1>4, <1>5, WithoutIs
<1>7. Recoverable(unit, g, fate)
  BY <1>3, <1>6 DEF Recoverable, Overwritten
<1>8. Coherent(unit, fate)
  BY <1>5, <1>7, Recovered
<1>9. QED BY <1>1, <1>2, <1>8

LEMMA OtherKept ==
    ASSUME CIInv, CIInv', CallKept, Right, Other
    PROVE  CallKept'
<1>1. SUFFICES ASSUME Right' PROVE /\ UnitKept' /\ InRegisters' /\ OnStack'
                                   /\ RegistersFirst' /\ WordsRight' /\ TempsPushed'
  BY DEF CallKept
<1>2. /\ passed = <<>> /\ stack = <<>> /\ Len(temp_stack) = 0 /\ ~saved
      /\ Coherent(unit, fate)
  BY Between DEF Other
<1>3. passed' = <<>> /\ temp_stack' = temp_stack /\ ~saved'
  BY <1>2 DEF Other
<1>4. Values' /\ unit'.fault = "none"
  <2>1. IInv /\ Values /\ Next
    BY <1>2 DEF CIInv, Values, Known, Right, Next, Other
  <2>2. QED BY <1>1, <2>1, NextValues, RightNext
<1>5. Coherent(unit', fate')
  BY <1>4 DEF Values
<1>6. UnitKept'
  <2>1. PICK h : h = fate'
    OBVIOUS
  <2>2. Coherent(unit', h) /\ (\A id \in Ids \ Args : h[id] = fate'[id])
    BY <1>5, <2>1
  <2>3. \A id \in Args : fate'[id] # "dead" => h[id] # "dead" \/ id < Len(passed')
    BY <2>1
  <2>4. QED BY <2>2, <2>3, UnitKeptStep
<1>7. Len(passed') = 0 /\ Len(temp_stack') = 0
  BY <1>2, <1>3
<1>8. InRegisters' /\ OnStack' /\ WordsRight'
  BY <1>7 DEF InRegisters, OnStack, WordsRight
<1>9. RegistersFirst' /\ TempsPushed'
  BY <1>3, <1>7, RegAssumption DEF RegistersFirst, TempsPushed
<1>10. QED BY <1>6, <1>8, <1>9

LEMMA InitKept == CallInit => CallKept
<1> SUFFICES ASSUME CallInit PROVE CallKept
  OBVIOUS
<1>1. CIInv /\ Values
  BY CallInitCIInv, InitValues DEF CallInit
<1>2. Consistent(unit) /\ fate \in Promises
  BY <1>1, CallingUnit
<1>3. unit.fault = "none"
  BY DEF CallInit, Init, InitUnit
<1>4. Coherent(unit, fate)
  BY <1>1, <1>3 DEF Values
<1>5. PICK g : g = Without(fate, Args)
  OBVIOUS
<1>6. Recoverable(unit, fate, g)
  BY <1>2, <1>5, WithoutIs DEF Recoverable
<1>7. Coherent(unit, g)
  BY <1>2, <1>4, <1>6, Recovered
<1>8. \A id \in Overwritten : fate[id] = "dead"
  BY <1>2, <1>4, ParameterKept, Registers DEF Coherent, Overwritten
<1>9. UnitKept
  BY <1>5, <1>7, <1>8 DEF UnitKept
<1>10. passed = <<>> /\ temp_stack = <<>> /\ ~saved
  BY DEF CallInit
<1>11. InRegisters /\ OnStack /\ WordsRight
  BY <1>10 DEF InRegisters, OnStack, WordsRight
<1>12. RegistersFirst /\ TempsPushed
  BY <1>10, RegAssumption DEF RegistersFirst, TempsPushed
<1>13. QED BY <1>9, <1>11, <1>12 DEF CallKept

LEMMA CallNextKept == CIInv /\ CIInv' /\ CallKept /\ [CallNext]_callVars => CallKept'
<1> SUFFICES ASSUME CIInv, CIInv', CallKept, [CallNext]_callVars PROVE CallKept'
  OBVIOUS
<1>1. CASE CallNext
  <2>1. Right
    BY <1>1 DEF CallNext, Right, Sound
  <2>2. CASE CallHandler
    BY <2>1, <2>2, RegisterArgKept, RegisterConstantKept, StackArgKept, StackConstantKept, SaveTempsKept,
       CallReturnsKept, LoadThroughKept DEF CallHandler
  <2>3. CASE Other
    BY <2>1, <2>3, OtherKept
  <2>4. QED BY <1>1, <2>2, <2>3 DEF CallNext
<1>2. CASE UNCHANGED callVars
  BY <1>2 DEF callVars, CallKept, Right, Sound, UnitKept, Overwritten, InRegisters, OnStack, RegistersFirst,
              Living, WordsRight, TempsPushed
<1>3. QED BY <1>1, <1>2

LEMMA CallSpecKept == CallSpec => [](CIInv /\ CallKept)
BY CallInitCIInv, CallNextCIInv, InitKept, CallNextKept, PTL DEF CallSpec

\* At the jal, process_arg and process_save_live have put every argument where
\* the callee looks for it: the register arguments are in $a0..$a3 although
\* temporaries were loaded and pushed in between, and the others are on top of
\* the stack, in order.
THEOREM ArgumentsAlwaysArrive == CallSpec => []ArgumentsArrive
<1>1. CallKept => ArgumentsArrive
  BY RegAssumption DEF CallKept, InRegisters, OnStack, ArgumentsArrive
<1>2. QED BY <1>1, CallSpecKept, PTL

\* What process_call restores from temp_stack is what the caller still needs:
\* after the call every temporary, parameter and variable with a later use is
\* where get_reg looks for it, unless one of the four mishaps has been met.
THEOREM CallsAlwaysKeepValues == CallSpec => []CallsKeepValues
<1>1. CIInv /\ CallKept => CallsKeepValues
  <2>1. SUFFICES ASSUME CIInv, CallKept, Right, ~Calling, NEW id \in Ids, fate[id] \in {"in", "next", "out"}
                 PROVE  Found(id)
    BY DEF CallsKeepValues
  <2>2. Kept(unit, id)
    BY <2>1, Between DEF Coherent
  <2>3. QED BY <2>2 DEF Kept, Found
<1>2. QED BY <1>1, CallSpecKept, PTL
=============================================================================
