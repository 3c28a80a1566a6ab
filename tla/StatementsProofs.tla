-------------------------- MODULE StatementsProofs --------------------------
(***************************************************************************)
(* TypeOK, NoJumpForgotten and CasesDispatched are invariants of           *)
(* Statements for texts of any length and depth.  The operators of 3ac.cpp *)
(* come first: what each adds to the code, and which jumps are left        *)
(* without a label.  The inductive invariant is about the code, the        *)
(* parser's stack and what it holds, given as parameters, so that a step   *)
(* is described by what it does to each.                                   *)
(***************************************************************************)
EXTENDS Statements, FiniteSetTheorems, WellFoundedInduction, TLAPS

(***************************************************************************)
(* A set of numbers that has 0, and k if it has k - 1, has all.            *)
(***************************************************************************)
LEMMA LeastNumber ==
    ASSUME NEW S \in SUBSET Nat, S # {}
    PROVE  \E n \in S : \A k \in S : n <= k
<1>1. PICK n \in S : \A k \in S : ~(<<k, n>> \in OpToRel(<, Nat))
  BY NatLessThanWellFounded, WFMin
<1>2. \A j, k \in Nat : j < k => <<j, k>> \in OpToRel(<, Nat)
  BY DEF OpToRel
<1>3. \A k \in S : ~(k < n)
  BY <1>1, <1>2
<1>4. QED BY <1>3

LEMMA Upwards ==
    ASSUME NEW n \in Nat, NEW P, 0 \in P, \A k \in 1 .. n : k - 1 \in P => k \in P
    PROVE  0 .. n \subseteq P
<1> DEFINE Bad == (0 .. n) \ P
<1>1. SUFFICES ASSUME Bad # {} PROVE FALSE
  OBVIOUS
<1>2. PICK k \in Bad : \A m \in Bad : k <= m
  <2>1. Bad \in SUBSET Nat
    OBVIOUS
  <2> HIDE DEF Bad
  <2>2. QED BY <1>1, <2>1, LeastNumber
<1>3. k \in 1 .. n
  OBVIOUS
<1>4. k - 1 \in 0 .. n /\ k - 1 \notin Bad
  BY <1>2, <1>3
<1>5. QED BY <1>3, <1>4

(***************************************************************************)
(* The function's code.                                                    *)
(***************************************************************************)
JumpType  == [at : Nat, cond : BOOLEAN, label : Int, want : Roles \X Nat]
CodeType  == [instrs : Nat, labels : Seq(Nat), gotos : Seq(JumpType)]
JumpsOf(c)  == 1 .. Len(c.gotos)
LabelsOf(c) == 1 .. Len(c.labels)

\* Jumps lead to labels of this function, or to one of an earlier function.
Coded(c) ==
    /\ c \in CodeType
    /\ \A g \in JumpsOf(c) : c.gotos[g].label \in LabelsOf(c) \cup {NoLabel, Elsewhere}

\* What a jump may be made with, and what it may be patched to.
Targets(c) == LabelsOf(c) \cup {NoLabel, Elsewhere}
Patches(c) == LabelsOf(c) \cup {NoLabel}

\* The jumps that have no label yet.
Unpatched(c) == {g \in JumpsOf(c) : c.gotos[g].label = NoLabel}

\* d is c with more code and more jumps patched.
Grows(c, d) ==
    /\ Coded(c) /\ Coded(d)
    /\ c.instrs <= d.instrs /\ JumpsOf(c) \subseteq JumpsOf(d) /\ LabelsOf(c) \subseteq LabelsOf(d)
    /\ \A g \in JumpsOf(c) : d.gotos[g].want = c.gotos[g].want
    /\ Unpatched(d) \cap JumpsOf(c) \subseteq Unpatched(c)

LEMMA GrowsSelf == ASSUME NEW c, Coded(c) PROVE Grows(c, c)
BY DEF Grows, Coded, CodeType

LEMMA GrowsOn == ASSUME NEW c, NEW d, NEW e, Grows(c, d), Grows(d, e) PROVE Grows(c, e)
<1>1. c.instrs \in Nat /\ d.instrs \in Nat /\ e.instrs \in Nat
  BY DEF Grows, Coded, CodeType
<1>2. /\ c.instrs <= e.instrs /\ JumpsOf(c) \subseteq JumpsOf(e) /\ LabelsOf(c) \subseteq LabelsOf(e)
      /\ Unpatched(e) \cap JumpsOf(c) \subseteq Unpatched(c)
  BY <1>1 DEF Grows
<1>3. \A g \in JumpsOf(c) : e.gotos[g].want = c.gotos[g].want
  BY DEF Grows
<1>4. QED BY <1>2, <1>3 DEF Grows

LEMMA CodedIs ==
    ASSUME NEW c, Coded(c)
    PROVE  /\ c = [instrs |-> c.instrs, labels |-> c.labels, gotos |-> c.gotos]
           /\ c.instrs \in Nat /\ c.labels \in Seq(Nat) /\ c.gotos \in Seq(JumpType)
           /\ Len(c.labels) \in Nat /\ Len(c.gotos) \in Nat
BY DEF Coded, CodeType

LEMMA CodedFrom ==
    ASSUME NEW n \in Nat, NEW ls \in Seq(Nat), NEW gs \in Seq(JumpType),
           \A g \in 1 .. Len(gs) : gs[g].label \in 1 .. Len(ls) \cup {NoLabel, Elsewhere},
           NEW c, c = [instrs |-> n, labels |-> ls, gotos |-> gs]
    PROVE  Coded(c)
BY DEF Coded, CodeType, JumpsOf, LabelsOf

LEMMA ExecGrows ==
    ASSUME NEW c, Coded(c), NEW d, d = Exec(c)
    PROVE  /\ Grows(c, d) /\ Unpatched(d) = Unpatched(c) /\ d.instrs = c.instrs + 1
           /\ JumpsOf(d) = JumpsOf(c) /\ LabelsOf(d) = LabelsOf(c)
<1>1. /\ d = [instrs |-> c.instrs + 1, labels |-> c.labels, gotos |-> c.gotos]
      /\ c.instrs \in Nat /\ c.labels \in Seq(Nat) /\ c.gotos \in Seq(JumpType)
  BY CodedIs DEF Exec
<1>2. /\ d.instrs = c.instrs + 1 /\ c.instrs + 1 \in Nat /\ c.instrs <= c.instrs + 1
      /\ d.labels = c.labels /\ d.gotos = c.gotos
  BY <1>1
<1>3. JumpsOf(d) = JumpsOf(c) /\ LabelsOf(d) = LabelsOf(c) /\ Unpatched(d) = Unpatched(c)
  BY <1>2 DEF JumpsOf, LabelsOf, Unpatched
<1>4. Coded(d)
  BY <1>1, <1>2, CodedFrom DEF Coded, JumpsOf, LabelsOf
<1>5. QED BY <1>2, <1>3, <1>4 DEF Grows

LEMMA NewLabelGrows ==
    ASSUME NEW c, Coded(c), NEW d, d = NewLabel(c)
    PROVE  /\ Grows(c, d) /\ Unpatched(d) = Unpatched(c) /\ d.instrs = c.instrs
           /\ JumpsOf(d) = JumpsOf(c) /\ LastLabel(d) \in LabelsOf(d) /\ LastLabel(d) # NoLabel
           /\ LastLabel(d) \in Nat
<1>0. /\ c = [instrs |-> c.instrs, labels |-> c.labels, gotos |-> c.gotos]
      /\ c.instrs \in Nat /\ c.labels \in Seq(Nat) /\ c.gotos \in Seq(JumpType)
  BY CodedIs
<1>1. d = [instrs |-> c.instrs, labels |-> Append(c.labels, c.instrs), gotos |-> c.gotos]
  BY <1>0 DEF NewLabel
<1>2. /\ d.instrs = c.instrs /\ d.labels = Append(c.labels, c.instrs) /\ d.gotos = c.gotos
      /\ Append(c.labels, c.instrs) \in Seq(Nat)
      /\ Len(d.labels) = Len(c.labels) + 1 /\ Len(c.labels) \in Nat
  BY <1>0, <1>1
<1>3. /\ JumpsOf(d) = JumpsOf(c) /\ LabelsOf(c) \subseteq LabelsOf(d) /\ Unpatched(d) = Unpatched(c)
      /\ LastLabel(d) \in LabelsOf(d) /\ LastLabel(d) # NoLabel /\ LastLabel(d) \in Nat
  BY <1>2 DEF JumpsOf, LabelsOf, Unpatched, LastLabel, NoLabel
<1>4. \A g \in 1 .. Len(c.gotos) : c.gotos[g].label \in 1 .. Len(d.labels) \cup {NoLabel, Elsewhere}
  BY <1>3 DEF Coded, JumpsOf, LabelsOf
<1>5. Coded(d)
  BY <1>0, <1>1, <1>2, <1>4, CodedFrom
<1>6. QED BY <1>0, <1>2, <1>3, <1>5 DEF Grows

LEMMA NewJumpGrows ==
    ASSUME NEW c, Coded(c), NEW w \in Roles \X Nat, NEW cond \in BOOLEAN,
           NEW l \in Targets(c), NEW d, d = NewJump(c, w, l, cond)
    PROVE  /\ Grows(c, d) /\ d.instrs = c.instrs + 1 /\ LabelsOf(d) = LabelsOf(c)
           /\ JumpsOf(d) = JumpsOf(c) \cup {LastGoto(d)}
           /\ LastGoto(d) \in Nat /\ LastGoto(d) # 0 /\ LastGoto(d) \notin JumpsOf(c)
           /\ Unpatched(d) = Unpatched(c) \cup (IF l = NoLabel THEN {LastGoto(d)} ELSE {})
           /\ d.gotos[LastGoto(d)].want = w
<1> DEFINE j == [at |-> c.instrs, cond |-> cond, label |-> l, want |-> w]
<1>0. /\ c = [instrs |-> c.instrs, labels |-> c.labels, gotos |-> c.gotos]
      /\ c.instrs \in Nat /\ c.labels \in Seq(Nat) /\ c.gotos \in Seq(JumpType)
  BY CodedIs
<1>1. /\ d = [instrs |-> c.instrs + 1, labels |-> c.labels, gotos |-> Append(c.gotos, j)]
      /\ c.instrs \in Nat /\ c.labels \in Seq(Nat) /\ c.gotos \in Seq(JumpType)
  BY <1>0 DEF NewJump, Exec
<1>2. /\ d.instrs = c.instrs + 1 /\ c.instrs + 1 \in Nat /\ c.instrs <= c.instrs + 1
      /\ d.labels = c.labels /\ d.gotos = Append(c.gotos, j)
  BY <1>1
<1>3. j \in JumpType /\ j.label = l /\ j.want = w
  <2>1. l \in Int
    BY DEF Targets, LabelsOf, NoLabel, Elsewhere
  <2>2. QED BY <1>1, <2>1 DEF JumpType
<1> HIDE DEF j
<1>4. /\ d.gotos \in Seq(JumpType) /\ Len(d.gotos) = Len(c.gotos) + 1 /\ Len(c.gotos) \in Nat
      /\ \A g \in 1 .. Len(c.gotos) : d.gotos[g] = c.gotos[g]
      /\ d.gotos[Len(c.gotos) + 1] = j
  BY <1>1, <1>2, <1>3
<1>5. /\ LastGoto(d) = Len(c.gotos) + 1 /\ LabelsOf(d) = LabelsOf(c)
      /\ JumpsOf(d) = JumpsOf(c) \cup {LastGoto(d)}
      /\ LastGoto(d) \in Nat /\ LastGoto(d) # 0 /\ LastGoto(d) \notin JumpsOf(c)
  BY <1>2, <1>4 DEF LastGoto, JumpsOf, LabelsOf
<1>6. /\ d.gotos[LastGoto(d)].want = w /\ d.gotos[LastGoto(d)].label = l
      /\ \A g \in JumpsOf(c) : d.gotos[g] = c.gotos[g]
  BY <1>3, <1>4, <1>5 DEF JumpsOf
<1>7. Unpatched(d) = Unpatched(c) \cup (IF l = NoLabel THEN {LastGoto(d)} ELSE {})
  BY <1>5, <1>6 DEF Unpatched
<1>8. \A g \in JumpsOf(d) : d.gotos[g].label \in LabelsOf(d) \cup {NoLabel, Elsewhere}
  BY <1>5, <1>6 DEF Coded, Targets
<1>9. Coded(d)
  BY <1>1, <1>2, <1>4, <1>8, CodedFrom DEF JumpsOf, LabelsOf
<1>10. QED BY <1>2, <1>5, <1>6, <1>7, <1>9 DEF Grows

LEMMA NewGotoGrows ==
    ASSUME NEW c, Coded(c), NEW w \in Roles \X Nat, NEW d, d = NewGoto(c, w) \/ d = NewGotoCond(c, w)
    PROVE  /\ Grows(c, d) /\ d.instrs = c.instrs + 1 /\ LabelsOf(d) = LabelsOf(c)
           /\ JumpsOf(d) = JumpsOf(c) \cup {LastGoto(d)}
           /\ LastGoto(d) \in Nat /\ LastGoto(d) # 0 /\ LastGoto(d) \notin JumpsOf(c)
           /\ Unpatched(d) = Unpatched(c) \cup {LastGoto(d)}
<1>0. \E b \in BOOLEAN : \E l : d = NewJump(c, w, l, b) /\ l = NoLabel
  BY DEF NewGoto, NewGotoCond
<1>1. PICK b, l : b \in BOOLEAN /\ d = NewJump(c, w, l, b) /\ l = NoLabel
  BY <1>0
<1>2. l \in Targets(c)
  BY <1>1 DEF Targets
<1>3. QED BY <1>1, <1>2, NewJumpGrows

LEMMA NewGotoToGrows ==
    ASSUME NEW c, Coded(c), NEW w \in Roles \X Nat, NEW l \in Targets(c),
           NEW d, d = NewGotoTo(c, w, l)
    PROVE  /\ Grows(c, d) /\ d.instrs = c.instrs + 1 /\ LabelsOf(d) = LabelsOf(c)
           /\ JumpsOf(d) = JumpsOf(c) \cup {LastGoto(d)}
           /\ LastGoto(d) \in Nat /\ LastGoto(d) # 0 /\ LastGoto(d) \notin JumpsOf(c)
           /\ Unpatched(d) = Unpatched(c) \cup (IF l = NoLabel THEN {LastGoto(d)} ELSE {})
<1>1. PICK b \in BOOLEAN : d = NewJump(c, w, l, b)
  BY DEF NewGotoTo
<1>2. QED BY <1>1, NewJumpGrows

LEMMA BackpatchGrows ==
    ASSUME NEW c, Coded(c), NEW list, NEW l \in Patches(c), NEW d, d = Backpatch(c, list, l)
    PROVE  /\ Grows(c, d) /\ d.instrs = c.instrs /\ LabelsOf(d) = LabelsOf(c) /\ JumpsOf(d) = JumpsOf(c)
           /\ Unpatched(d) = IF l = NoLabel THEN Unpatched(c) ELSE Unpatched(c) \ list
<1>1. CASE l = NoLabel
  <2>1. d = c
    BY <1>1 DEF Backpatch
  <2>2. QED BY <1>1, <2>1, GrowsSelf
<1>2. CASE l # NoLabel
  <2> DEFINE gs == [g \in DOMAIN c.gotos |-> IF g \in list THEN [c.gotos[g] EXCEPT !.label = l] ELSE c.gotos[g]]
  <2>0. /\ c = [instrs |-> c.instrs, labels |-> c.labels, gotos |-> c.gotos]
        /\ c.instrs \in Nat /\ c.labels \in Seq(Nat) /\ c.gotos \in Seq(JumpType)
    BY CodedIs
  <2>1. /\ d = [instrs |-> c.instrs, labels |-> c.labels, gotos |-> gs]
        /\ c.instrs \in Nat /\ c.labels \in Seq(Nat) /\ c.gotos \in Seq(JumpType)
    BY <1>2, <2>0 DEF Backpatch
  <2>2. d.instrs = c.instrs /\ d.labels = c.labels /\ d.gotos = gs
    BY <2>1
  <2>3. ASSUME NEW g \in 1 .. Len(c.gotos)
        PROVE  /\ gs[g] \in JumpType /\ gs[g].want = c.gotos[g].want
               /\ gs[g].label = IF g \in list THEN l ELSE c.gotos[g].label
    <3>1. c.gotos[g] \in JumpType /\ g \in DOMAIN c.gotos
      BY <2>1
    <3>2. l \in Int
      BY DEF Patches, LabelsOf, NoLabel
    <3>3. QED BY <3>1, <3>2 DEF JumpType
  <2>4. gs \in Seq(JumpType) /\ Len(gs) = Len(c.gotos)
    <3>1. DOMAIN c.gotos = 1 .. Len(c.gotos) /\ Len(c.gotos) \in Nat
      BY <2>1
    <3>2. gs \in [1 .. Len(c.gotos) -> JumpType]
      BY <2>3, <3>1
    <3> HIDE DEF gs
    <3>3. QED BY <3>1, <3>2
  <2> HIDE DEF gs
  <2>5. JumpsOf(d) = JumpsOf(c) /\ LabelsOf(d) = LabelsOf(c)
    BY <2>2, <2>4 DEF JumpsOf, LabelsOf
  <2>6. Unpatched(d) = Unpatched(c) \ list
    BY <1>2, <2>2, <2>3, <2>5 DEF Unpatched, JumpsOf
  <2>7. \A g \in JumpsOf(d) : d.gotos[g].label \in LabelsOf(d) \cup {NoLabel, Elsewhere}
    BY <1>2, <2>2, <2>3, <2>5 DEF Coded, JumpsOf, Patches
  <2>8. Coded(d)
    BY <2>1, <2>2, <2>4, <2>7, CodedFrom DEF JumpsOf, LabelsOf
  <2>9. QED BY <1>2, <2>1, <2>2, <2>3, <2>5, <2>6, <2>8 DEF Grows, JumpsOf
<1>3. QED BY <1>1, <1>2

(***************************************************************************)
(* Folds over finite sets.  An induction goes from one subset to the next  *)
(* larger one, in the order in which pick takes the elements.              *)
(***************************************************************************)
Picks(pick, S) == \A s \in SUBSET S : s # {} => pick[s] \in s

Hereditary(Q, S, pick) == {} \in Q /\ \A s \in SUBSET S : s # {} /\ s \ {pick[s]} \in Q => s \in Q

LEMMA Subsets ==
    ASSUME NEW S, IsFiniteSet(S), NEW pick, Picks(pick, S), NEW Q, Hereditary(Q, S, pick)
    PROVE  \A s \in SUBSET S : s \in Q
<1> DEFINE P == {m \in Nat : \A s \in SUBSET S : Cardinality(s) = m => s \in Q}
<1>1. \A s \in SUBSET S : IsFiniteSet(s) /\ Cardinality(s) \in Nat
  BY FS_Subset, FS_CardinalityType
<1>2. 0 \in P
  BY <1>1, FS_EmptySet DEF Hereditary
<1>3. ASSUME NEW m \in Nat, m # 0, m - 1 \in P PROVE m \in P
  <2>1. ASSUME NEW s \in SUBSET S, Cardinality(s) = m PROVE s \in Q
    <3>1. s # {}
      BY <1>3, <2>1, FS_EmptySet
    <3>2. PICK x : x = pick[s]
      OBVIOUS
    <3>3. x \in s /\ s \ {x} \in SUBSET S
      BY <3>1, <3>2 DEF Picks
    <3>4. Cardinality(s \ {x}) = m - 1
      BY <1>1, <2>1, <3>3, FS_RemoveElement
    <3>5. s \ {x} \in Q
      BY <1>3, <3>3, <3>4
    <3>6. QED BY <3>1, <3>2, <3>5 DEF Hereditary
  <2>2. QED BY <2>1
<1> HIDE DEF P
<1>4. ASSUME NEW n \in Nat PROVE n \in P
  <2>1. \A k \in 1 .. n : k - 1 \in P => k \in P
    BY <1>3
  <2>2. 0 .. n \subseteq P
    BY <1>2, <2>1, Upwards
  <2>3. n \in 0 .. n
    OBVIOUS
  <2>4. QED BY <2>2, <2>3
<1>5. QED
  <2> TAKE s \in SUBSET S
  <2>1. Cardinality(s) \in P
    BY <1>1, <1>4
  <2>2. QED BY <2>1 DEF P

\* f is the fold of D from c, for the sets with up to n elements.
FoldUpTo(f, S, pick, c, D, n) ==
    f[{}] = c /\ \A s \in SUBSET S : s # {} /\ Cardinality(s) <= n => f[s] = D[pick[s]][f[s \ {pick[s]}]]

IsFold(f, S, pick, c, D) ==
    f[{}] = c /\ \A s \in SUBSET S : s # {} => f[s] = D[pick[s]][f[s \ {pick[s]}]]

LEMMA FoldExists ==
    ASSUME NEW S, IsFiniteSet(S), NEW pick, Picks(pick, S), NEW X, NEW c \in X, NEW D \in [S -> [X -> X]]
    PROVE  \E f \in [SUBSET S -> X] : IsFold(f, S, pick, c, D)
<1> DEFINE P == {m \in Nat : \E f \in [SUBSET S -> X] : FoldUpTo(f, S, pick, c, D, m)}
<1>1. \A s \in SUBSET S : IsFiniteSet(s) /\ Cardinality(s) \in Nat
  BY FS_Subset, FS_CardinalityType
<1>2. 0 \in P
  <2>1. PICK f : f = [s \in SUBSET S |-> c]
    OBVIOUS
  <2>2. f \in [SUBSET S -> X] /\ f[{}] = c
    BY <2>1
  <2>3. \A s \in SUBSET S : s # {} => ~(Cardinality(s) <= 0)
    BY <1>1, FS_EmptySet
  <2>4. QED BY <2>2, <2>3 DEF FoldUpTo
<1>3. ASSUME NEW m \in Nat, m # 0, m - 1 \in P PROVE m \in P
  <2>1. PICK f \in [SUBSET S -> X] : FoldUpTo(f, S, pick, c, D, m - 1)
    BY <1>3
  <2>2. \A s \in SUBSET S : s # {} => pick[s] \in S /\ s \ {pick[s]} \in SUBSET S
    BY DEF Picks
  <2>3. PICK h : h = [s \in SUBSET S |-> IF Cardinality(s) = m THEN D[pick[s]][f[s \ {pick[s]}]] ELSE f[s]]
    OBVIOUS
  <2>4. \A s \in SUBSET S : h[s] = IF Cardinality(s) = m THEN D[pick[s]][f[s \ {pick[s]}]] ELSE f[s]
    BY <2>3
  <2>5. \A s \in SUBSET S : h[s] \in X
    <3> TAKE s \in SUBSET S
    <3>1. CASE Cardinality(s) # m
      BY <2>4, <3>1
    <3>2. CASE Cardinality(s) = m
      <4>1. s # {}
        BY <1>3, <3>2, FS_EmptySet
      <4>2. PICK k \in S, x \in X : k = pick[s] /\ x = f[s \ {pick[s]}]
        BY <2>2, <4>1
      <4>3. D[k][x] \in X
        OBVIOUS
      <4>4. QED BY <2>4, <3>2, <4>2, <4>3
    <3>3. QED BY <3>1, <3>2
  <2>6. h \in [SUBSET S -> X]
    BY <2>3, <2>5
  <2>7. h[{}] = c
    BY <1>3, <2>1, <2>4, FS_EmptySet DEF FoldUpTo
  <2>8. ASSUME NEW s \in SUBSET S, s # {}, Cardinality(s) <= m
        PROVE  h[s] = D[pick[s]][h[s \ {pick[s]}]]
    <3>1. PICK x : x = pick[s]
      OBVIOUS
    <3>2. x \in s /\ s \ {x} \in SUBSET S
      BY <2>8, <3>1 DEF Picks
    <3>3. Cardinality(s \ {x}) = Cardinality(s) - 1
      BY <1>1, <3>2, FS_RemoveElement
    <3>4. h[s \ {x}] = f[s \ {x}]
      <4>1. PICK t \in SUBSET S : t = s \ {x}
        BY <3>2
      <4>2. Cardinality(t) # m
        BY <1>1, <2>8, <3>3, <4>1
      <4>3. QED BY <2>4, <4>1, <4>2
    <3>5. CASE Cardinality(s) = m
      BY <2>4, <3>1, <3>4, <3>5
    <3>6. CASE Cardinality(s) # m
      <4>1. Cardinality(s) <= m - 1
        BY <1>1, <2>8, <3>6
      <4>2. f[s] = D[x][f[s \ {x}]]
        BY <2>1, <2>8, <3>1, <4>1 DEF FoldUpTo
      <4>3. h[s] = f[s]
        BY <2>4, <3>6
      <4>4. QED BY <3>1, <3>4, <4>2, <4>3
    <3>7. QED BY <3>5, <3>6
  <2>9. QED BY <2>6, <2>7, <2>8 DEF FoldUpTo
<1> HIDE DEF P
<1>4. PICK n \in Nat : n = Cardinality(S)
  BY <1>1
<1>5. n \in P
  <2>1. \A k \in 1 .. n : k - 1 \in P => k \in P
    BY <1>3
  <2>2. 0 .. n \subseteq P
    BY <1>2, <2>1, Upwards
  <2>3. n \in 0 .. n
    OBVIOUS
  <2>4. QED BY <2>2, <2>3
<1>6. PICK f \in [SUBSET S -> X] : FoldUpTo(f, S, pick, c, D, n)
  BY <1>5 DEF P
<1>7. \A s \in SUBSET S : Cardinality(s) <= n
  BY <1>4, FS_Subset
<1>8. QED BY <1>6, <1>7 DEF FoldUpTo, IsFold

(***************************************************************************)
(* Expressions, and the tests of a switch.                                 *)
(***************************************************************************)
LEMMA Expressions == Exprs \subseteq {"plain", "and", "or"}
BY DEF Exprs

LEMMA ConditionGrows ==
    ASSUME NEW c, Coded(c), NEW e \in {"plain", "and", "or"},
           NEW wt \in Roles \X Nat, NEW wf \in Roles \X Nat, NEW v, v = Condition(c, e, wt, wf)
    PROVE  /\ Grows(c, v.c) /\ v.true \subseteq JumpsOf(v.c) /\ v.false \subseteq JumpsOf(v.c)
           /\ Unpatched(v.c) = Unpatched(c) \cup v.true \cup v.false
           /\ e = "plain" => v.true = {} /\ v.false = {}
<1>1. PICK x : x = Exec(c)
  OBVIOUS
<1>2. Grows(c, x) /\ Unpatched(x) = Unpatched(c) /\ Coded(x)
  BY <1>1, ExecGrows DEF Grows
<1>3. PICK w \in Roles \X Nat : w = IF e = "and" THEN wf ELSE wt
  OBVIOUS
<1>4. PICK j : j = NewGotoCond(x, w)
  OBVIOUS
<1>5. /\ Grows(x, j) /\ Coded(j) /\ JumpsOf(j) = JumpsOf(x) \cup {LastGoto(j)}
      /\ Unpatched(j) = Unpatched(x) \cup {LastGoto(j)}
  BY <1>2, <1>4, NewGotoGrows DEF Grows
<1>6. PICK y : y = NewLabel(j)
  OBVIOUS
<1>7. Grows(j, y) /\ Coded(y) /\ JumpsOf(y) = JumpsOf(j) /\ Unpatched(y) = Unpatched(j)
  BY <1>5, <1>6, NewLabelGrows DEF Grows
<1>8. PICK z : z = Exec(y)
  OBVIOUS
<1>9. Grows(y, z) /\ JumpsOf(z) = JumpsOf(y) /\ Unpatched(z) = Unpatched(y)
  BY <1>7, <1>8, ExecGrows
<1>10. CASE e = "plain"
  <2>1. v.c = x /\ v.true = {} /\ v.false = {}
    BY <1>1, <1>10 DEF Condition
  <2>2. QED BY <1>2, <2>1
<1>11. CASE e # "plain"
  <2>1. PICK g : g = LastGoto(j)
    OBVIOUS
  <2>2. v = [c |-> z, true |-> IF e = "or" THEN {g} ELSE {}, false |-> IF e = "and" THEN {g} ELSE {}]
    BY <1>1, <1>3, <1>4, <1>6, <1>8, <1>11, <2>1 DEF Condition, JumpsOn
  <2>3. v.c = z /\ v.true \cup v.false = {g}
    BY <1>11, <2>2
  <2>4. Grows(c, z)
    BY <1>2, <1>5, <1>7, <1>9, GrowsOn
  <2>5. g \in JumpsOf(z) /\ Unpatched(z) = Unpatched(c) \cup {g}
    BY <1>2, <1>5, <1>7, <1>9, <2>1
  <2>6. QED BY <1>11, <2>3, <2>4, <2>5
<1>12. QED BY <1>10, <1>11

Jumped(c, p) == \E g \in JumpsOf(c) : c.gotos[g].want = p

LEMMA StillJumped == ASSUME NEW c, NEW d, Grows(c, d), NEW p, Jumped(c, p) PROVE Jumped(d, p)
BY DEF Grows, Jumped

\* The code after some of the tests.
After(c) == {d \in CodeType : Grows(c, d) /\ Unpatched(d) = Unpatched(c)}

\* What the tests find in the switch that is reduced.
Testable(c, k) == Top.own[k] \in Nat /\ lblSwitch[k] \in LabelsOf(c)

LEMMA CaseIsRole == \A n \in Nat : <<"case", n>> \in Roles \X Nat
BY DEF Roles

LEMMA TestGrows ==
    ASSUME NEW c, Coded(c), NEW k \in Consts \cup {Default}, Testable(c, k), NEW d, d = Test(c, k)
    PROVE  Grows(c, d) /\ Unpatched(d) = Unpatched(c) /\ Jumped(d, <<"case", Top.own[k]>>)
<1>1. PICK w \in Roles \X Nat : w = <<"case", Top.own[k]>>
  BY CaseIsRole DEF Testable
<1>2. PICK l : l = lblSwitch[k]
  OBVIOUS
<1>4. PICK x : x = IF k = Default THEN c ELSE Exec(c)
  OBVIOUS
<1>5. Grows(c, x) /\ Coded(x) /\ Unpatched(x) = Unpatched(c) /\ LabelsOf(x) = LabelsOf(c)
  BY <1>4, ExecGrows, GrowsSelf DEF Grows
<1>6. l \in Targets(x) /\ l # NoLabel
  BY <1>2, <1>5 DEF Targets, Testable, LabelsOf, NoLabel
<1>7. PICK b \in BOOLEAN : d = NewJump(x, w, l, b)
  BY <1>1, <1>2, <1>4 DEF Test
<1>8. /\ Grows(x, d) /\ Unpatched(d) = Unpatched(x) /\ LastGoto(d) \in JumpsOf(d)
      /\ d.gotos[LastGoto(d)].want = w
  <2>1. Coded(x) /\ l \in Targets(x) /\ d = NewJump(x, w, l, b)
    BY <1>5, <1>6, <1>7
  <2>2. /\ Grows(x, d) /\ JumpsOf(d) = JumpsOf(x) \cup {LastGoto(d)}
        /\ Unpatched(d) = Unpatched(x) \cup (IF l = NoLabel THEN {LastGoto(d)} ELSE {})
        /\ d.gotos[LastGoto(d)].want = w
    BY <2>1, NewJumpGrows
  <2>3. QED BY <1>6, <2>2
<1>9. Grows(c, d)
  BY <1>5, <1>8, GrowsOn
<1>10. QED BY <1>1, <1>5, <1>8, <1>9 DEF Jumped

LEMMA TestAfter ==
    ASSUME NEW c, Coded(c), NEW k \in Consts \cup {Default}, Testable(c, k), NEW x \in After(c), NEW d, d = Test(x, k)
    PROVE  d \in After(c) /\ Grows(x, d) /\ Jumped(d, <<"case", Top.own[k]>>)
<1>1. Coded(x) /\ Testable(x, k)
  BY DEF After, Grows, Testable
<1>2. Grows(x, d) /\ Unpatched(d) = Unpatched(x) /\ Jumped(d, <<"case", Top.own[k]>>)
  BY <1>1, TestGrows
<1>3. Grows(c, d)
  BY <1>2, GrowsOn DEF After
<1>4. QED BY <1>2, <1>3 DEF After, Grows, Coded

Some(s) == CHOOSE k \in s : TRUE

\* The fold that Tests takes.
TestsFrom(f, c, S) == f = [s \in SUBSET S |-> IF s = {} THEN c ELSE Test(f[s \ {Some(s)}], Some(s))]

LEMMA TestsExist ==
    ASSUME NEW c, Coded(c), NEW S \in SUBSET Consts, IsFiniteSet(S), \A k \in S : Testable(c, k)
    PROVE  \E f : TestsFrom(f, c, S)
<1>1. PICK X : X = After(c)
  OBVIOUS
<1>2. PICK D : D = [k \in S |-> [x \in X |-> Test(x, k)]]
  OBVIOUS
<1>3. \A k \in S : \A x \in X : Test(x, k) \in X
  BY <1>1, TestAfter
<1>4. D \in [S -> [X -> X]] /\ \A k \in S : \A x \in X : D[k][x] = Test(x, k)
  <2>1. \A k \in S : D[k] = [x \in X |-> Test(x, k)]
    BY <1>2
  <2>2. \A k \in S : D[k] \in [X -> X]
    BY <1>3, <2>1
  <2>3. QED BY <1>2, <2>1, <2>2
<1>5. PICK pick : pick = [s \in SUBSET S |-> Some(s)]
  OBVIOUS
<1>6. Picks(pick, S) /\ \A s \in SUBSET S : pick[s] = Some(s)
  BY <1>5 DEF Picks, Some
<1>7. c \in X
  BY <1>1, GrowsSelf DEF After, Coded
<1>8. PICK f \in [SUBSET S -> X] : IsFold(f, S, pick, c, D)
  <2>1. D \in [S -> [X -> X]] /\ Picks(pick, S) /\ IsFiniteSet(S)
    BY <1>4, <1>6
  <2>2. QED BY <1>7, <2>1, FoldExists, Zenon
<1>9. ASSUME NEW s \in SUBSET S PROVE f[s] = IF s = {} THEN c ELSE Test(f[s \ {Some(s)}], Some(s))
  <2>1. CASE s = {}
    BY <1>8, <2>1 DEF IsFold
  <2>2. CASE s # {}
    <3>1. PICK k : k = Some(s)
      OBVIOUS
    <3>2. k = pick[s] /\ k \in S /\ s \ {k} \in SUBSET S
      BY <1>6, <2>2, <3>1 DEF Picks
    <3>3. PICK x \in X : x = f[s \ {k}]
      BY <3>2
    <3>4. f[s] = D[k][x]
      BY <1>8, <2>2, <3>2, <3>3 DEF IsFold
    <3>5. f[s] = Test(x, k)
      BY <1>4, <3>2, <3>4
    <3>6. QED BY <2>2, <3>1, <3>3, <3>5
  <2>3. QED BY <2>1, <2>2
<1>10. f = [s \in SUBSET S |-> IF s = {} THEN c ELSE Test(f[s \ {Some(s)}], Some(s))]
  BY <1>8, <1>9
<1>11. QED BY <1>10 DEF TestsFrom

LEMMA TestsFold ==
    ASSUME NEW c, NEW S
    PROVE  FoldSet(LAMBDA k, acc : Test(acc, k), c, S) = (CHOOSE f : TestsFrom(f, c, S))[S]
BY Zenon DEF FoldSet, MapThenFoldSet, TestsFrom, Some

\* Every case that is to be tested for gets a test, and no jump is left open.
LEMMA TestsRight ==
    ASSUME NEW c, Coded(c), NEW S \in SUBSET Consts, IsFiniteSet(S), \A k \in S : Testable(c, k),
           NEW d, d = FoldSet(LAMBDA k, acc : Test(acc, k), c, S)
    PROVE  d \in After(c) /\ \A k \in S : Jumped(d, <<"case", Top.own[k]>>)
<1>1. PICK f : TestsFrom(f, c, S) /\ d = f[S]
  <2>1. PICK f : f = CHOOSE g : TestsFrom(g, c, S)
    OBVIOUS
  <2>2. TestsFrom(f, c, S)
    BY <2>1, TestsExist, Zenon
  <2>3. QED BY <2>1, <2>2, TestsFold
<1>2. \A s \in SUBSET S : f[s] = IF s = {} THEN c ELSE Test(f[s \ {Some(s)}], Some(s))
  <2>1. f = [s \in SUBSET S |-> IF s = {} THEN c ELSE Test(f[s \ {Some(s)}], Some(s))]
    BY <1>1 DEF TestsFrom
  <2>2. QED BY <2>1, Zenon
<1>3. PICK pick : pick = [s \in SUBSET S |-> Some(s)]
  OBVIOUS
<1>4. Picks(pick, S) /\ \A s \in SUBSET S : pick[s] = Some(s)
  BY <1>3 DEF Picks, Some
<1> DEFINE Q == {s \in SUBSET S : f[s] \in After(c) /\ \A k \in s : Jumped(f[s], <<"case", Top.own[k]>>)}
<1>5. {} \in Q
  BY <1>2, GrowsSelf DEF After, Coded
<1>6. ASSUME NEW s \in SUBSET S, s # {}, s \ {pick[s]} \in Q PROVE s \in Q
  <2>1. PICK k : k = Some(s)
    OBVIOUS
  <2>2. k = pick[s] /\ k \in s /\ k \in S
    BY <1>4, <1>6, <2>1 DEF Picks
  <2>3. PICK x : x = f[s \ {k}]
    OBVIOUS
  <2>4. x \in After(c) /\ \A m \in s \ {k} : Jumped(x, <<"case", Top.own[m]>>)
    BY <1>6, <2>2, <2>3
  <2>5. PICK y : y = Test(x, k)
    OBVIOUS
  <2>6. f[s] = y
    BY <1>2, <1>6, <2>1, <2>3, <2>5
  <2>7. y \in After(c) /\ Grows(x, y) /\ Jumped(y, <<"case", Top.own[k]>>)
    BY <2>2, <2>4, <2>5, TestAfter
  <2>8. ASSUME NEW m \in s PROVE Jumped(y, <<"case", Top.own[m]>>)
    <3>1. PICK p : p = <<"case", Top.own[m]>>
      OBVIOUS
    <3>2. CASE m # k
      <4>1. Jumped(x, p)
        BY <2>4, <3>1, <3>2
      <4>2. QED BY <2>7, <3>1, <4>1, StillJumped
    <3>3. QED BY <2>7, <3>2
  <2>9. QED BY <2>6, <2>7, <2>8
<1> HIDE DEF Q
<1>7. \A s \in SUBSET S : s \in Q
  <2>1. Hereditary(Q, S, pick)
    BY <1>5, <1>6 DEF Hereditary
  <2>2. QED BY <1>4, <2>1, Subsets
<1>8. QED BY <1>1, <1>7 DEF Q

(***************************************************************************)
(* The open statements, by what the parser keeps of each kind.             *)
(***************************************************************************)
StmtType == [null : BOOLEAN, lists : [Lists -> SUBSET Nat]]
Keys     == Consts \cup {Default}

\* Its lists hold jumps of c, and none if there is no statement.
StmtOK(st, c) ==
    /\ st \in StmtType
    /\ \A l \in Lists : st.lists[l] \subseteq JumpsOf(c)
    /\ st.null => st.lists = NoLists

FrameType ==
    [kind : Compound \cup {"else"}, id : Nat, true : SUBSET Nat, false : SUBSET Nat, l1 : Nat, l2 : Nat,
     goto1 : Nat, goto2 : Nat, st : StmtType, seen : BOOLEAN, own : [Keys -> Nat]]

Framed(f, c) ==
    /\ f \in FrameType /\ StmtOK(f.st, c)
    /\ f.true \subseteq JumpsOf(c) /\ f.false \subseteq JumpsOf(c)
    /\ f.l1 \in Patches(c)
    /\ f.goto1 \in JumpsOf(c) \cup {0} /\ f.goto2 = 0
    /\ f.kind \notin {"block", "switch"} => f.l1 # NoLabel
    /\ f.kind \in {"else", "while", "for"} => f.l2 \in LabelsOf(c)
    /\ f.kind = "else" => f.goto1 \in JumpsOf(c)
    /\ f.kind = "for3" => f.l2 = NoLabel /\ f.true = {}
    /\ f.kind \in {"block", "do", "case", "default", "label", "switch"} => f.true = {} /\ f.false = {}
    /\ f.kind \notin {"else", "switch"} => f.goto1 = 0
    /\ f.kind \notin {"block", "else"} => f.st = Null
    /\ f.kind \in {"case", "default"} => f.l2 \in Keys
    /\ f.kind = "default" => f.l2 = Default
    /\ f.kind = "label" => f.l2 \in Names
    /\ f.kind # "switch" => \A k \in Keys : f.own[k] = 0

Framing(s, c, n) == s \in Seq(FrameType) /\ \A i \in 1 .. Len(s) : Framed(s[i], c) /\ s[i].id <= n

Breakable == Loops \cup {"switch"}

\* One of these kinds is open among the n outermost statements of s.
Inside(kinds, s, n) == \E j \in 1 .. n : s[j].kind \in kinds

\* A statement's jumps out are inside what they leave.
Leaving(st, s, n) ==
    /\ st.lists["break"] # {} => Inside(Breakable, s, n)
    /\ st.lists["continue"] # {} => Inside(Loops, s, n)

Nested(s) ==
    \A i \in 1 .. Len(s) : /\ Leaving(s[i].st, s, i - 1)
                           /\ s[i].kind \in {"case", "default"} => Inside({"switch"}, s, i - 1)

\* The labels of cases, which belong to a switch that is open.
Switched(s, c, lbl, tmp) ==
    /\ lbl \in [Keys -> Nat] /\ tmp \in Patches(c)
    /\ \A k \in Keys : lbl[k] \in Patches(c)
    /\ IsFiniteSet({k \in Consts : lbl[k] # NoLabel})
    /\ ~Inside({"switch"}, s, Len(s)) => tmp = NoLabel /\ \A k \in Keys : lbl[k] = NoLabel

Labelling(s, n) == \E i \in 1 .. Len(s) : s[i].kind = "label" /\ s[i].l2 = n

\* A name that has its label has no jump waiting for it.
Named(s, c, labels, gotos, points) ==
    /\ labels \in [Names -> Int] /\ gotos \in [Names -> SUBSET Nat]
    /\ \A n \in Names : /\ labels[n] \in Targets(c)
                        /\ gotos[n] \subseteq JumpsOf(c)
                        /\ labels[n] # NoLabel => gotos[n] = {}
                        /\ <<"label", n>> \in DOMAIN points => labels[n] # NoLabel \/ Labelling(s, n)

Placed(points, c) == \A p \in DOMAIN points : p \in Roles \X Nat /\ points[p] \in 0 .. c.instrs

LEMMA StmtGrows == ASSUME NEW st, NEW c, NEW d, StmtOK(st, c), Grows(c, d) PROVE StmtOK(st, d)
BY DEF StmtOK, Grows

LEMMA NullOK == ASSUME NEW c PROVE StmtOK(Null, c) /\ Null.lists = NoLists /\ Null.null
BY DEF StmtOK, StmtType, Null, NoLists

LEMMA FramedGrows == ASSUME NEW f, NEW c, NEW d, Framed(f, c), Grows(c, d) PROVE Framed(f, d)
<1>1. StmtOK(f.st, d)
  BY StmtGrows DEF Framed
<1>2. JumpsOf(c) \subseteq JumpsOf(d) /\ LabelsOf(c) \subseteq LabelsOf(d)
  BY DEF Grows
<1>3. QED BY <1>1, <1>2 DEF Framed, Patches

LEMMA FramingGrows ==
    ASSUME NEW s, NEW c, NEW d, NEW n \in Nat, NEW m \in Nat, Framing(s, c, n), Grows(c, d), n <= m
    PROVE  Framing(s, d, m)
<1>1. ASSUME NEW i \in 1 .. Len(s) PROVE Framed(s[i], d) /\ s[i].id <= m
  <2>1. Framed(s[i], c) /\ s[i].id <= n /\ s[i].id \in Nat
    BY DEF Framing, Framed, FrameType
  <2>2. QED BY <2>1, FramedGrows
<1>2. QED BY <1>1 DEF Framing

\* t is s with f on top, or without its top.
Pushes(s, f, t) ==
    /\ Len(t) = Len(s) + 1 /\ Len(s) \in Nat /\ t[Len(t)] = f
    /\ \A i \in 1 .. Len(s) : i \in 1 .. Len(t) /\ t[i] = s[i]
    /\ \A i \in 1 .. Len(t) : i = Len(t) \/ i \in 1 .. Len(s)

LEMMA Pushing ==
    ASSUME NEW s, NEW c, NEW n, NEW f, NEW t, Framing(s, c, n), Framed(f, c), f.id <= n, t = Append(s, f)
    PROVE  Framing(t, c, n) /\ Pushes(s, f, t)
<1>1. s \in Seq(FrameType) /\ f \in FrameType
  BY DEF Framing, Framed
<1>2. /\ t \in Seq(FrameType) /\ Len(t) = Len(s) + 1 /\ t[Len(s) + 1] = f /\ Len(s) \in Nat
      /\ \A i \in 1 .. Len(s) : t[i] = s[i]
  BY <1>1
<1>3. Pushes(s, f, t)
  BY <1>2 DEF Pushes
<1>4. Framing(t, c, n)
  BY <1>2, <1>3 DEF Framing, Pushes
<1>5. QED BY <1>3, <1>4

LEMMA Popping ==
    ASSUME NEW s, NEW c, NEW n, Framing(s, c, n), s # <<>>,
           NEW t, t = SubSeq(s, 1, Len(s) - 1), NEW f, f = s[Len(s)]
    PROVE  Framing(t, c, n) /\ Pushes(t, f, s) /\ Framed(f, c) /\ f.id <= n
<1>1. s \in Seq(FrameType)
  BY DEF Framing
<1>2. Len(s) \in Nat /\ Len(s) # 0
  BY <1>1
<1>3. t \in Seq(FrameType) /\ Len(t) = Len(s) - 1 /\ \A i \in 1 .. Len(s) - 1 : t[i] = s[i]
  <2>1. PICK m \in Nat : m = Len(s) - 1
    BY <1>2
  <2>2. t = SubSeq(s, 1, m) /\ m <= Len(s)
    BY <1>2, <2>1
  <2>3. Len(t) = m /\ \A i \in 1 .. m : t[i] = s[i]
    BY <1>1, <2>2
  <2>4. t \in Seq(FrameType)
    BY <1>1, <2>2
  <2>5. QED BY <2>1, <2>3, <2>4
<1>4. Pushes(t, f, s)
  BY <1>2, <1>3 DEF Pushes
<1>5. Framing(t, c, n) /\ Framed(f, c) /\ f.id <= n
  BY <1>2, <1>3, <1>4 DEF Framing, Pushes
<1>6. QED BY <1>4, <1>5

LEMMA InsideMore ==
    ASSUME NEW s, NEW f, NEW t, Pushes(s, f, t), NEW kinds
    PROVE  /\ \A n \in 0 .. Len(s) : Inside(kinds, t, n) <=> Inside(kinds, s, n)
           /\ Inside(kinds, t, Len(t)) <=> Inside(kinds, s, Len(s)) \/ f.kind \in kinds
BY DEF Pushes, Inside

LEMMA LeavingMore ==
    ASSUME NEW s, NEW f, NEW t, Pushes(s, f, t), NEW st
    PROVE  /\ \A n \in 0 .. Len(s) : Leaving(st, t, n) <=> Leaving(st, s, n)
           /\ Leaving(st, s, Len(s)) => Leaving(st, t, Len(t))
BY InsideMore DEF Leaving, Pushes

\* What may be opened inside s.
Opens(f, s) == Leaving(f.st, s, Len(s)) /\ (f.kind \in {"case", "default"} => Inside({"switch"}, s, Len(s)))

LEMMA NestedPushed ==
    ASSUME NEW s, NEW f, NEW t, Pushes(s, f, t) PROVE Nested(t) <=> Nested(s) /\ Opens(f, s)
<1>1. \A i \in 1 .. Len(s) : i - 1 \in 0 .. Len(s) /\ t[i] = s[i] /\ i \in 1 .. Len(t)
  BY DEF Pushes
<1>2. Len(t) - 1 = Len(s) /\ t[Len(t)] = f /\ Len(s) \in 0 .. Len(s) /\ Len(t) \in 1 .. Len(t)
  BY DEF Pushes
<1>3. \A i \in 1 .. Len(s) : Leaving(t[i].st, t, i - 1) <=> Leaving(s[i].st, s, i - 1)
  BY <1>1, LeavingMore
<1>4. \A i \in 1 .. Len(s) : Inside({"switch"}, t, i - 1) <=> Inside({"switch"}, s, i - 1)
  BY <1>1, InsideMore
<1>5. /\ Leaving(f.st, t, Len(t) - 1) <=> Leaving(f.st, s, Len(s))
      /\ Inside({"switch"}, t, Len(t) - 1) <=> Inside({"switch"}, s, Len(s))
  BY <1>2, InsideMore, LeavingMore
<1>6. \A i \in 1 .. Len(t) : i = Len(t) \/ i \in 1 .. Len(s)
  BY DEF Pushes
<1>7. QED BY <1>1, <1>2, <1>3, <1>4, <1>5, <1>6 DEF Nested, Opens

(***************************************************************************)
(* What a step does to labels, names and places.                           *)
(***************************************************************************)

\* No switch has been closed.
Switching(s, t) == Inside({"switch"}, s, Len(s)) => Inside({"switch"}, t, Len(t))

LEMMA SwitchedMore ==
    ASSUME NEW s, NEW c, NEW lbl, NEW tmp, Switched(s, c, lbl, tmp), NEW d, Grows(c, d),
           NEW t, Switching(s, t)
    PROVE  Switched(t, d, lbl, tmp)
<1>1. Patches(c) \subseteq Patches(d)
  BY DEF Grows, Patches
<1>2. QED BY <1>1 DEF Switched, Switching

LEMMA SwitchingPush == ASSUME NEW s, NEW f, NEW t, Pushes(s, f, t) PROVE Switching(s, t)
<1>1. PICK kinds : kinds = {"switch"}
  OBVIOUS
<1>2. Inside(kinds, t, Len(t)) <=> Inside(kinds, s, Len(s)) \/ f.kind \in kinds
  BY InsideMore
<1>3. QED BY <1>1, <1>2 DEF Switching

LEMMA SwitchingPop == ASSUME NEW s, NEW f, NEW t, Pushes(t, f, s), f.kind # "switch" PROVE Switching(s, t)
<1>1. PICK kinds : kinds = {"switch"}
  OBVIOUS
<1>2. Inside(kinds, s, Len(s)) <=> Inside(kinds, t, Len(t)) \/ f.kind \in kinds
  BY InsideMore
<1>3. f.kind \notin kinds
  BY <1>1
<1>4. QED BY <1>1, <1>2, <1>3 DEF Switching

\* The places of q are those of points and of add.
Adds(points, add, q) ==
    /\ DOMAIN q = DOMAIN points \cup DOMAIN add
    /\ \A p \in DOMAIN q : \/ p \in DOMAIN points /\ q[p] = points[p]
                           \/ p \in DOMAIN add /\ q[p] = add[p]

LEMMA Adding ==
    ASSUME NEW points, NEW add, NEW q, q = points @@ add \/ q = add @@ points
    PROVE  Adds(points, add, q)
BY DEF Adds, @@

LEMMA Single == ASSUME NEW p, NEW x, NEW q, q = (p :> x) PROVE DOMAIN q = {p} /\ q[p] = x
BY DEF :>

LEMMA PlacedMore ==
    ASSUME NEW points, NEW add, NEW q, Adds(points, add, q), NEW c, NEW d, Grows(c, d),
           Placed(points, c), Placed(add, d)
    PROVE  Placed(q, d)
<1>1. c.instrs <= d.instrs /\ c.instrs \in Nat /\ d.instrs \in Nat
  BY DEF Grows, Coded, CodeType
<1>2. \A p \in DOMAIN points : p \in Roles \X Nat /\ points[p] \in 0 .. d.instrs
  BY <1>1 DEF Placed
<1>3. QED BY <1>2 DEF Placed, Adds

LEMMA PlacedSingle ==
    ASSUME NEW c, Coded(c), NEW p, p \in Roles \X Nat, NEW x, x \in Nat, x <= c.instrs,
           NEW q, q = (p :> x)
    PROVE  Placed(q, c) /\ DOMAIN q = {p}
<1>2. DOMAIN q = {p} /\ q[p] = x
  BY Single
<1>3. c.instrs \in Nat
  BY DEF Coded, CodeType
<1>4. QED BY <1>2, <1>3 DEF Placed

LEMMA PlacedAfter ==
    ASSUME NEW c, Coded(c), NEW n \in Nat, NEW p, p = <<"after", n>>, NEW x, x = c.instrs, NEW q, q = (p :> x)
    PROVE  Placed(q, c) /\ DOMAIN q = {p}
<1>1. p \in Roles \X Nat
  BY DEF Roles
<1>2. x \in Nat /\ x <= c.instrs
  BY DEF Coded, CodeType
<1>3. QED BY <1>1, <1>2, PlacedSingle

LEMMA NamedMore ==
    ASSUME NEW s, NEW c, NEW labels, NEW gotos, NEW points, Named(s, c, labels, gotos, points),
           NEW d, Grows(c, d), NEW t, NEW q,
           \A n \in Names : Labelling(s, n) => Labelling(t, n) \/ labels[n] # NoLabel,
           \A n \in Names : <<"label", n>> \in DOMAIN q => <<"label", n>> \in DOMAIN points \/ Labelling(t, n)
    PROVE  Named(t, d, labels, gotos, q)
<1>1. Targets(c) \subseteq Targets(d) /\ JumpsOf(c) \subseteq JumpsOf(d)
  BY DEF Grows, Targets
<1>2. labels \in [Names -> Int] /\ gotos \in [Names -> SUBSET Nat]
  BY DEF Named
<1>3. ASSUME NEW n \in Names
      PROVE  /\ labels[n] \in Targets(d) /\ gotos[n] \subseteq JumpsOf(d)
             /\ labels[n] # NoLabel => gotos[n] = {}
             /\ <<"label", n>> \in DOMAIN q => labels[n] # NoLabel \/ Labelling(t, n)
  <2>1. /\ labels[n] \in Targets(c) /\ gotos[n] \subseteq JumpsOf(c)
        /\ labels[n] # NoLabel => gotos[n] = {}
        /\ <<"label", n>> \in DOMAIN points => labels[n] # NoLabel \/ Labelling(s, n)
    BY DEF Named
  <2>2. QED BY <1>1, <2>1
<1>4. QED BY <1>2, <1>3 DEF Named

LEMMA LabellingMore ==
    ASSUME NEW s, NEW f, NEW t, Pushes(s, f, t), NEW n
    PROVE  Labelling(t, n) <=> Labelling(s, n) \/ (f.kind = "label" /\ f.l2 = n)
BY DEF Pushes, Labelling

(***************************************************************************)
(* The jumps that are held, and the cases that wait for their tests.       *)
(***************************************************************************)

\* What a list has left open goes to the label before its next statement.
Settled(s, n, c) ==
    \A i \in 1 .. n : s[i].kind = "block" => s[i].st.lists["next"] \cap Unpatched(c) = {}

HeldIn(s, n) == UNION {HeldBy(s[i]) : i \in 1 .. n}
ListsOf(st)  == UNION {st.lists[l] : l \in Lists}
Waiting(w)   == UNION {w[n] : n \in Names}

LEMMA SettledMore ==
    ASSUME NEW s, NEW c, NEW n, NEW d, NEW k \in Nat, Framing(s, c, n), Grows(c, d), k <= Len(s),
           Settled(s, k, c), NEW t, NEW m \in Nat, m <= k, \A i \in 1 .. m : t[i] = s[i]
    PROVE  Settled(t, m, d)
<1>1. ASSUME NEW i \in 1 .. m, t[i].kind = "block" PROVE t[i].st.lists["next"] \cap Unpatched(d) = {}
  <2>1. i \in 1 .. k /\ i \in 1 .. Len(s) /\ t[i] = s[i]
    BY DEF Framing
  <2>2. s[i].st.lists["next"] \subseteq JumpsOf(c)
    BY <2>1 DEF Framing, Framed, StmtOK, Lists
  <2>3. s[i].st.lists["next"] \cap Unpatched(c) = {}
    BY <1>1, <2>1 DEF Settled
  <2>4. Unpatched(d) \cap JumpsOf(c) \subseteq Unpatched(c)
    BY DEF Grows
  <2>5. QED BY <2>1, <2>2, <2>3, <2>4
<1>2. QED BY <1>1 DEF Settled

LEMMA HeldMore ==
    ASSUME NEW s, NEW f, NEW t, Pushes(s, f, t)
    PROVE  HeldIn(t, Len(t)) = HeldIn(s, Len(s)) \cup HeldBy(f)
<1>1. ASSUME NEW g PROVE g \in HeldIn(t, Len(t)) <=> \E i \in 1 .. Len(t) : g \in HeldBy(t[i])
  BY DEF HeldIn
<1>2. ASSUME NEW g PROVE g \in HeldIn(s, Len(s)) <=> \E i \in 1 .. Len(s) : g \in HeldBy(s[i])
  BY DEF HeldIn
<1>3. ASSUME NEW g PROVE g \in HeldIn(t, Len(t)) <=> g \in HeldIn(s, Len(s)) \/ g \in HeldBy(f)
  <2>1. \A i \in 1 .. Len(s) : i \in 1 .. Len(t) /\ t[i] = s[i]
    BY DEF Pushes
  <2>2. Len(t) \in 1 .. Len(t) /\ t[Len(t)] = f /\ \A i \in 1 .. Len(t) : i = Len(t) \/ i \in 1 .. Len(s)
    BY DEF Pushes
  <2>3. QED BY <1>1, <1>2, <2>1, <2>2
<1>4. QED BY <1>3

Pending(p, s) == \E i \in 1 .. Len(s), k \in Keys : s[i].own[k] = p[2]

\* A case is tested for, or its switch is open.
CasesKept(s, c, points) ==
    \A p \in DOMAIN points : p[1] = "case" => p[2] # 0 /\ (Jumped(c, p) \/ Pending(p, s))

CaseOpen(s, i, k) ==
    \E j \in 1 .. Len(s) : i < j /\ s[j].kind \in {"case", "default"} /\ s[j].l2 = k

\* Only the innermost switch has cases, and one that is over is in lblSwitch.
OwnCases(s, lbl) ==
    \A i \in 1 .. Len(s), k \in Keys :
        s[i].own[k] # 0 =>
            /\ \A j \in 1 .. Len(s) : i < j => s[j].kind # "switch"
            /\ lbl[k] # NoLabel \/ CaseOpen(s, i, k)

CaseLess(add) == \A p \in DOMAIN add : p[1] # "case"
Ownless(f) == \A k \in Keys : f.own[k] = 0

LEMMA CasesPush ==
    ASSUME NEW s, NEW c, NEW points, CasesKept(s, c, points), NEW d, Grows(c, d),
           NEW f, NEW t, Pushes(s, f, t), NEW add, NEW q, Adds(points, add, q), CaseLess(add)
    PROVE  CasesKept(t, d, q)
<1>1. ASSUME NEW p \in DOMAIN q, p[1] = "case" PROVE p[2] # 0 /\ (Jumped(d, p) \/ Pending(p, t))
  <2>1. p \in DOMAIN points
    BY <1>1 DEF Adds, CaseLess
  <2>2. p[2] # 0 /\ (Jumped(c, p) \/ Pending(p, s))
    BY <1>1, <2>1 DEF CasesKept
  <2>3. Pending(p, s) => Pending(p, t)
    BY DEF Pending, Pushes
  <2>4. QED BY <2>2, <2>3, StillJumped
<1>2. QED BY <1>1 DEF CasesKept

LEMMA CasesStay ==
    ASSUME NEW s, NEW c, NEW points, CasesKept(s, c, points), NEW d, Grows(c, d),
           NEW add, NEW q, Adds(points, add, q), CaseLess(add)
    PROVE  CasesKept(s, d, q)
<1>1. ASSUME NEW p \in DOMAIN q, p[1] = "case" PROVE p[2] # 0 /\ (Jumped(d, p) \/ Pending(p, s))
  <2>1. p \in DOMAIN points
    BY <1>1 DEF Adds, CaseLess
  <2>2. p[2] # 0 /\ (Jumped(c, p) \/ Pending(p, s))
    BY <1>1, <2>1 DEF CasesKept
  <2>3. QED BY <2>2, StillJumped
<1>2. QED BY <1>1 DEF CasesKept

LEMMA CasesPop ==
    ASSUME NEW s, NEW c, NEW points, CasesKept(s, c, points), NEW d, Grows(c, d), Placed(points, c),
           NEW f, NEW t, Pushes(t, f, s), NEW add, NEW q, Adds(points, add, q), CaseLess(add),
           \A k \in Keys : f.own[k] # 0 => Jumped(d, <<"case", f.own[k]>>)
    PROVE  CasesKept(t, d, q)
<1>1. ASSUME NEW p \in DOMAIN q, p[1] = "case" PROVE p[2] # 0 /\ (Jumped(d, p) \/ Pending(p, t))
  <2>1. p \in DOMAIN points
    BY <1>1 DEF Adds, CaseLess
  <2>2. p[2] # 0 /\ (Jumped(c, p) \/ Pending(p, s))
    BY <1>1, <2>1 DEF CasesKept
  <2>3. CASE Jumped(c, p)
    BY <2>2, <2>3, StillJumped
  <2>4. CASE Pending(p, s)
    <3>1. PICK i \in 1 .. Len(s), k \in Keys : s[i].own[k] = p[2]
      BY <2>4 DEF Pending
    <3>2. CASE i \in 1 .. Len(t)
      <4>1. t[i] = s[i]
        BY <3>2 DEF Pushes
      <4>2. QED BY <2>2, <3>1, <3>2, <4>1 DEF Pending
    <3>3. CASE i = Len(s)
      <4>1. f.own[k] = p[2]
        BY <3>1, <3>3 DEF Pushes
      <4>2. p = <<p[1], p[2]>>
        BY <2>1 DEF Placed
      <4>3. QED BY <1>1, <2>2, <4>1, <4>2
    <3>4. QED BY <3>2, <3>3 DEF Pushes
  <2>5. QED BY <2>2, <2>3, <2>4
<1>2. QED BY <1>1 DEF CasesKept

LEMMA OwnPush ==
    ASSUME NEW s, NEW lbl, OwnCases(s, lbl), NEW f, NEW t, Pushes(s, f, t), Ownless(f),
           f.kind # "switch" \/ \A i \in 1 .. Len(s) : Ownless(s[i])
    PROVE  OwnCases(t, lbl)
<1>1. ASSUME NEW i \in 1 .. Len(t), NEW k \in Keys, t[i].own[k] # 0
      PROVE  /\ \A j \in 1 .. Len(t) : i < j => t[j].kind # "switch"
             /\ lbl[k] # NoLabel \/ CaseOpen(t, i, k)
  <2>1. i \in 1 .. Len(s) /\ t[i] = s[i]
    BY <1>1 DEF Pushes, Ownless
  <2>2. f.kind # "switch"
    BY <1>1, <2>1 DEF Ownless
  <2>3. /\ \A j \in 1 .. Len(s) : i < j => s[j].kind # "switch"
        /\ lbl[k] # NoLabel \/ CaseOpen(s, i, k)
    BY <1>1, <2>1 DEF OwnCases
  <2>4. CaseOpen(s, i, k) => CaseOpen(t, i, k)
    BY DEF Pushes, CaseOpen
  <2>5. \A j \in 1 .. Len(t) : i < j => t[j].kind # "switch"
    BY <2>2, <2>3 DEF Pushes
  <2>6. QED BY <2>3, <2>4, <2>5
<1>2. QED BY <1>1 DEF OwnCases

LEMMA OwnPop ==
    ASSUME NEW s, NEW lbl, OwnCases(s, lbl), NEW f, NEW t, Pushes(t, f, s), NEW l,
           \/ f.kind = "switch"
           \/ /\ \A k \in Keys : lbl[k] # NoLabel => l[k] # NoLabel
              /\ f.kind \in {"case", "default"} => l[f.l2] # NoLabel
    PROVE  OwnCases(t, l)
<1>1. ASSUME NEW i \in 1 .. Len(t), NEW k \in Keys, t[i].own[k] # 0
      PROVE  /\ \A j \in 1 .. Len(t) : i < j => t[j].kind # "switch"
             /\ l[k] # NoLabel \/ CaseOpen(t, i, k)
  <2>1. i \in 1 .. Len(s) /\ t[i] = s[i] /\ i < Len(s) /\ Len(s) \in 1 .. Len(s) /\ s[Len(s)] = f
    BY DEF Pushes
  <2>2. /\ \A j \in 1 .. Len(s) : i < j => s[j].kind # "switch"
        /\ lbl[k] # NoLabel \/ CaseOpen(s, i, k)
    BY <1>1, <2>1 DEF OwnCases
  <2>3. f.kind # "switch"
    BY <2>1, <2>2
  <2>4. \A j \in 1 .. Len(t) : i < j => t[j].kind # "switch"
    BY <2>2 DEF Pushes
  <2>5. CASE lbl[k] # NoLabel
    BY <2>3, <2>4, <2>5
  <2>6. CASE CaseOpen(s, i, k)
    <3>1. PICK j \in 1 .. Len(s) : i < j /\ s[j].kind \in {"case", "default"} /\ s[j].l2 = k
      BY <2>6 DEF CaseOpen
    <3>2. CASE j = Len(s)
      BY <2>1, <2>3, <2>4, <3>1, <3>2
    <3>3. CASE j \in 1 .. Len(t)
      <4>1. t[j] = s[j]
        BY <3>3 DEF Pushes
      <4>2. CaseOpen(t, i, k)
        BY <3>1, <3>3, <4>1 DEF CaseOpen
      <4>3. QED BY <2>4, <4>2
    <3>4. QED BY <3>2, <3>3 DEF Pushes
  <2>7. QED BY <2>2, <2>5, <2>6
<1>2. QED BY <1>1 DEF OwnCases

(***************************************************************************)
(* The inductive invariant.                                                *)
(***************************************************************************)

\* Code, stack and value fit together, and so do the labels and places.
Shaped(c, s, st, labels, gotos, lbl, tmp, points, n) ==
    /\ Coded(c) /\ Framing(s, c, n) /\ Nested(s)
    /\ StmtOK(st, c) /\ Leaving(st, s, Len(s))
    /\ Switched(s, c, lbl, tmp)
    /\ Named(s, c, labels, gotos, points)
    /\ Placed(points, c)

\* Every jump without a label is held.
AllHeld(c, s, st, gotos) == Unpatched(c) \subseteq HeldIn(s, Len(s)) \cup ListsOf(st) \cup Waiting(gotos)

\* What a text without a fault has in addition.
Right(c, s, k, st, gotos, lbl, points) ==
    /\ Settled(s, k, c)
    /\ AllHeld(c, s, st, gotos)
    /\ CasesKept(s, c, points) /\ OwnCases(s, lbl)

\* The parser holds a statement, or is inside the one on top.
Parsing(s, ready, st) ==
    /\ s # <<>> /\ s[1].kind = "block"
    /\ ready \in BOOLEAN /\ (~ready => st = Null)

Depth(s, ready) == IF ready THEN Len(s) ELSE Len(s) - 1

IInv ==
    /\ bound \in Bounds /\ statements \in Nat /\ statements <= MaxStatements
    /\ value \in [ready : BOOLEAN, st : StmtType]
    /\ Shaped(ta_code, stack, value.st, idLabel, idGoto, lblSwitch, tmpSwitch, place, statements)
    /\ phase \in {"parse", "end", "crashed"}
    /\ phase = "parse" => Parsing(stack, value.ready, value.st)
    /\ phase = "end" => stack = <<>> /\ ~value.ready /\ value.st = Null
    /\ fault = "none" =>
          /\ Right(ta_code, stack, Depth(stack, value.ready), value.st, idGoto, lblSwitch, place)
          /\ phase = "end" => Unpatched(ta_code) = {}

\* Everything about the text so far but what depends on the step.
Going ==
    /\ IInv /\ phase = "parse"
    /\ stack # <<>> /\ stack[1].kind = "block"
    /\ Len(stack) \in Nat /\ Len(stack) # 0 /\ Framing(stack, ta_code, statements)

LEMMA GoesOn == ASSUME IInv, phase = "parse" PROVE Going
<1>1. stack # <<>> /\ stack[1].kind = "block" /\ Framing(stack, ta_code, statements)
  BY DEF IInv, Parsing, Shaped
<1>2. stack \in Seq(FrameType)
  BY <1>1 DEF Framing
<1>3. Len(stack) \in Nat /\ Len(stack) # 0
  BY <1>1, <1>2
<1>4. QED BY <1>1, <1>3 DEF Going

LEMMA NoListsOf == ListsOf(Null) = {}
BY DEF ListsOf, Null, NoLists

\* The list on top has been settled before the statement in it.
TopSettled(c) == Top.kind = "block" => Top.st.lists["next"] \cap Unpatched(c) = {}

LEMMA AllSettled ==
    ASSUME Going, ~value.ready, fault = "none", NEW c, Grows(ta_code, c), TopSettled(c)
    PROVE  Settled(stack, Len(stack), c)
<1>1. PICK k \in Nat : k = Len(stack) - 1
  BY DEF Going
<1>2. Settled(stack, k, ta_code)
  BY <1>1 DEF Going, IInv, Right, Depth
<1>3. Settled(stack, k, c)
  <2>1. Framing(stack, ta_code, statements) /\ k <= Len(stack) /\ k <= k
    BY <1>1 DEF Going
  <2>2. \A i \in 1 .. k : stack[i] = stack[i]
    OBVIOUS
  <2>3. QED BY <1>2, <2>1, <2>2, SettledMore
<1>4. \A i \in 1 .. Len(stack) : i \in 1 .. k \/ i = Len(stack)
  BY <1>1 DEF Going
<1>5. QED BY <1>3, <1>4 DEF Settled, TopSettled, Top

LEMMA SimpleStep ==
    ASSUME Going, ~value.ready, statements < MaxStatements,
           NEW c, Grows(ta_code, c), NEW st, StmtOK(st, c), Leaving(st, stack, Len(stack)), Simple(c, st),
           UNCHANGED <<idLabel, lblSwitch, tmpSwitch>>,
           NEW w, idGoto' = w, Named(stack, c, idLabel, w, place),
           fault' = "none" => fault = "none" /\ TopSettled(c) /\ AllHeld(c, stack, st, w)
    PROVE  IInv'
<1>1. /\ ta_code' = c /\ value' = [ready |-> TRUE, st |-> st] /\ statements' = statements + 1
      /\ place' = place @@ (<<"after", statements + 1>> :> c.instrs)
      /\ UNCHANGED <<stack, functions, bound, phase>>
  BY DEF Simple, Id
<1>2. /\ statements \in Nat /\ bound \in Bounds /\ MaxStatements \in Nat
      /\ Shaped(ta_code, stack, value.st, idLabel, idGoto, lblSwitch, tmpSwitch, place, statements)
  BY StatementsAssumption DEF Going, IInv, MaxStatements
<1>3. Coded(c) /\ c.instrs \in Nat /\ c.instrs <= c.instrs /\ st \in StmtType
  BY DEF Grows, Coded, CodeType, StmtOK
<1>m. PICK m \in Nat : m = statements + 1
  BY <1>2
<1>p. PICK p, x : p = <<"after", m>> /\ x = c.instrs
  OBVIOUS
<1>0. m = statements + 1 /\ p = <<"after", m>> /\ x = c.instrs
  BY <1>m, <1>p
<1>4. PICK add : add = (p :> x)
  OBVIOUS
<1>5. Placed(add, c) /\ DOMAIN add = {p}
  BY <1>0, <1>3, <1>4, PlacedAfter
<1>6. PICK q : q = place @@ add
  OBVIOUS
<1>7. Adds(place, add, q)
  BY <1>6, Adding
<1>8. Placed(q, c)
  BY <1>2, <1>5, <1>7, PlacedMore DEF Shaped
<1>9. Grows(c, c)
  BY <1>3, GrowsSelf
<1>10. Named(stack, c, idLabel, w, q)
  <2>1. \A n \in Names : <<"label", n>> \in DOMAIN q => <<"label", n>> \in DOMAIN place
    BY <1>0, <1>5, <1>7 DEF Adds
  <2>2. QED BY <1>9, <2>1, NamedMore
<1>11. Framing(stack, c, statements + 1)
  BY <1>2, FramingGrows DEF Going
<1>12. Switched(stack, c, lblSwitch, tmpSwitch)
  BY <1>2, SwitchedMore DEF Shaped, Switching
<1>13. Shaped(c, stack, st, idLabel, w, lblSwitch, tmpSwitch, q, statements + 1)
  BY <1>2, <1>3, <1>8, <1>10, <1>11, <1>12 DEF Shaped
<1>14. ASSUME fault' = "none" PROVE Right(c, stack, Len(stack), st, w, lblSwitch, q)
  <2>1. fault = "none" /\ TopSettled(c) /\ AllHeld(c, stack, st, w)
    BY <1>14
  <2>2. Settled(stack, Len(stack), c)
    BY <2>1, AllSettled
  <2>3. CasesKept(stack, ta_code, place) /\ OwnCases(stack, lblSwitch)
    BY <2>1 DEF Going, IInv, Right
  <2>4. CaseLess(add)
    BY <1>0, <1>5 DEF CaseLess
  <2>5. CasesKept(stack, c, q)
    BY <1>7, <2>3, <2>4, CasesStay
  <2>6. QED BY <2>1, <2>2, <2>3, <2>5 DEF Right
<1>15. /\ bound' \in Bounds /\ statements' \in Nat /\ statements' <= MaxStatements'
       /\ value' \in [ready : BOOLEAN, st : StmtType] /\ value'.ready /\ value'.st = st
       /\ phase' = "parse" /\ idLabel' = idLabel /\ idGoto' = w /\ stack' = stack
       /\ lblSwitch' = lblSwitch /\ tmpSwitch' = tmpSwitch /\ place' = q
  <2>1. MaxStatements' = MaxStatements
    BY <1>1 DEF MaxStatements
  <2>2. QED BY <1>0, <1>1, <1>2, <1>3, <1>4, <1>6, <2>1 DEF Going
<1>16. Parsing(stack, value'.ready, st)
  BY <1>15 DEF Going, Parsing
<1>17. Depth(stack, value'.ready) = Len(stack)
  BY <1>15 DEF Depth
<1>18. QED BY <1>1, <1>13, <1>14, <1>15, <1>16, <1>17 DEF IInv

NoLabelPoint(add) == \A n \in Names : <<"label", n>> \notin DOMAIN add

LEMMA OpenStep ==
    ASSUME Going, ~value.ready, statements < MaxStatements, NEW c, Grows(ta_code, c),
           NEW f, Framed(f, c), f.id = statements + 1, f.st = Null, Ownless(f),
           f.kind \in {"case", "default"} => Inside({"switch"}, stack, Len(stack)),
           NEW add, Placed(add, c), NoLabelPoint(add) \/ (f.kind = "label" /\ DOMAIN add = {<<"label", f.l2>>}),
           Open(c, f, add), UNCHANGED globals,
           fault' = "none" =>
               /\ fault = "none" /\ TopSettled(c) /\ CaseLess(add)
               /\ Unpatched(c) \subseteq HeldIn(stack, Len(stack)) \cup HeldBy(f) \cup Waiting(idGoto)
               /\ f.kind # "switch" \/ \A i \in 1 .. Len(stack) : Ownless(stack[i])
    PROVE  IInv'
<1>1. /\ ta_code' = c /\ statements' = statements + 1 /\ place' = add @@ place
      /\ stack' = Append(stack, f) /\ UNCHANGED <<value, functions, bound, phase>>
      /\ UNCHANGED <<idLabel, idGoto, lblSwitch, tmpSwitch>>
  BY DEF Open, Id, globals
<1>2. /\ statements \in Nat /\ bound \in Bounds /\ MaxStatements \in Nat /\ value.st = Null
      /\ Shaped(ta_code, stack, value.st, idLabel, idGoto, lblSwitch, tmpSwitch, place, statements)
      /\ value \in [ready : BOOLEAN, st : StmtType]
  BY StatementsAssumption DEF Going, IInv, MaxStatements, Parsing
<1>3. Coded(c)
  BY DEF Grows
<1>4. PICK q : q = add @@ place
  OBVIOUS
<1>5. Adds(place, add, q)
  BY <1>4, Adding
<1>6. Placed(q, c)
  BY <1>2, <1>5, PlacedMore DEF Shaped
<1>7. PICK t : t = Append(stack, f)
  OBVIOUS
<1>8. Framing(stack, c, statements + 1)
  BY <1>2, FramingGrows DEF Going
<1>9. Framing(t, c, statements + 1) /\ Pushes(stack, f, t)
  <2>1. f.id <= statements + 1
    BY <1>2
  <2>2. QED BY <1>7, <1>8, <2>1, Pushing
<1>10. Nested(t)
  <2>1. Opens(f, stack)
    BY DEF Opens, Leaving, Null, NoLists, Lists
  <2>2. QED BY <1>2, <1>9, <2>1, NestedPushed DEF Shaped
<1>11. StmtOK(Null, c) /\ Leaving(Null, t, Len(t))
  BY NullOK DEF Leaving, Null, NoLists, Lists
<1>12. Switched(t, c, lblSwitch, tmpSwitch)
  BY <1>2, <1>9, SwitchedMore, SwitchingPush DEF Shaped
<1>13. Named(t, c, idLabel, idGoto, q)
  <2>1. \A n \in Names : Labelling(stack, n) => Labelling(t, n)
    BY <1>9, LabellingMore
  <2>2. ASSUME NEW n \in Names, <<"label", n>> \in DOMAIN q
        PROVE  <<"label", n>> \in DOMAIN place \/ Labelling(t, n)
    <3>1. CASE <<"label", n>> \in DOMAIN place
      BY <3>1
    <3>2. CASE <<"label", n>> \in DOMAIN add
      <4>1. f.kind = "label" /\ f.l2 = n
        BY <3>2 DEF NoLabelPoint
      <4>2. QED BY <1>9, <4>1, LabellingMore
    <3>3. QED BY <1>5, <2>2, <3>1, <3>2 DEF Adds
  <2>3. QED BY <1>2, <2>1, <2>2, NamedMore DEF Shaped
<1>14. Shaped(c, t, Null, idLabel, idGoto, lblSwitch, tmpSwitch, q, statements + 1)
  BY <1>3, <1>6, <1>9, <1>10, <1>11, <1>12, <1>13 DEF Shaped
<1>15. ASSUME fault' = "none" PROVE Right(c, t, Len(t) - 1, Null, idGoto, lblSwitch, q)
  <2>1. /\ fault = "none" /\ TopSettled(c) /\ CaseLess(add)
        /\ Unpatched(c) \subseteq HeldIn(stack, Len(stack)) \cup HeldBy(f) \cup Waiting(idGoto)
        /\ f.kind # "switch" \/ \A i \in 1 .. Len(stack) : Ownless(stack[i])
    BY <1>15
  <2>2. Settled(stack, Len(stack), c)
    BY <2>1, AllSettled
  <2>3. Settled(t, Len(t) - 1, c)
    BY <1>9, <2>2 DEF Settled, Pushes
  <2>4. CasesKept(stack, ta_code, place) /\ OwnCases(stack, lblSwitch)
    BY <2>1 DEF Going, IInv, Right
  <2>5. CasesKept(t, c, q)
    BY <1>5, <1>9, <2>1, <2>4, CasesPush
  <2>6. OwnCases(t, lblSwitch)
    BY <1>9, <2>1, <2>4, OwnPush
  <2>7. AllHeld(c, t, Null, idGoto)
    BY <1>9, <2>1, HeldMore DEF AllHeld
  <2>8. QED BY <2>3, <2>5, <2>6, <2>7 DEF Right
<1>16. /\ bound' \in Bounds /\ statements' \in Nat /\ statements' <= MaxStatements'
       /\ value' \in [ready : BOOLEAN, st : StmtType] /\ ~value'.ready /\ value'.st = Null
       /\ phase' = "parse" /\ place' = q /\ stack' = t
  <2>1. MaxStatements' = MaxStatements
    BY <1>1 DEF MaxStatements
  <2>2. QED BY <1>1, <1>2, <1>4, <1>7, <2>1 DEF Going
<1>17. Parsing(t, value'.ready, Null)
  <2>1. 1 \in 1 .. Len(stack) /\ t[1] = stack[1]
    BY <1>9 DEF Going, Pushes
  <2>2. t # <<>>
    BY <1>9 DEF Pushes
  <2>3. QED BY <1>16, <2>1, <2>2 DEF Going, Parsing
<1>18. Depth(t, value'.ready) = Len(t) - 1
  BY <1>16 DEF Depth
<1>19. QED BY <1>1, <1>14, <1>15, <1>16, <1>17, <1>18 DEF IInv

\* What is known of the statement on top when it is reduced.
LEMMA TopKnown ==
    ASSUME Going, Top.kind # "block" \/ Len(stack) > 1
    PROVE  /\ Framing(Below, ta_code, statements) /\ Pushes(Below, Top, stack) /\ Framed(Top, ta_code)
           /\ Top.id <= statements /\ Top.id \in Nat
           /\ Below # <<>> /\ Below[1].kind = "block"
           /\ Nested(Below) /\ Opens(Top, Below)
<1>1. stack # <<>> /\ Framing(stack, ta_code, statements) /\ Nested(stack)
  BY DEF Going, IInv, Shaped
<1>2. PICK t, f : t = Below /\ f = Top
  OBVIOUS
<1>3. Framing(t, ta_code, statements) /\ Pushes(t, f, stack) /\ Framed(f, ta_code) /\ f.id <= statements
  BY <1>1, <1>2, Popping DEF Below, Top
<1>4. Nested(t) /\ Opens(f, t)
  BY <1>1, <1>3, NestedPushed
<1>5. Len(stack) > 1
  BY DEF Going, Top
<1>6. t # <<>> /\ t[1].kind = "block"
  <2>1. Len(t) \in Nat /\ Len(t) >= 1
    BY <1>3, <1>5 DEF Pushes, Going
  <2>2. stack[1] = t[1]
    BY <1>3, <2>1 DEF Pushes
  <2>3. QED BY <2>1, <2>2 DEF Going
<1>7. QED BY <1>2, <1>3, <1>4, <1>6 DEF Framed, FrameType

LEMMA ReduceStep ==
    ASSUME Going, Top.kind # "block" \/ Len(stack) > 1, NEW c, Grows(ta_code, c),
           NEW st, StmtOK(st, c), Leaving(st, Below, Len(Below)),
           NEW add, Placed(add, c), NoLabelPoint(add), Reduce(c, st, add),
           NEW labels, NEW gotos, NEW lbl, NEW tmp,
           idLabel' = labels, idGoto' = gotos, lblSwitch' = lbl, tmpSwitch' = tmp,
           Switched(Below, c, lbl, tmp), Named(Below, c, labels, gotos, place),
           fault' = "none" =>
               /\ fault = "none" /\ CaseLess(add) /\ AllHeld(c, Below, st, gotos)
               /\ \A k \in Keys : Top.own[k] # 0 => Jumped(c, <<"case", Top.own[k]>>)
               /\ \/ Top.kind = "switch"
                  \/ /\ \A k \in Keys : lblSwitch[k] # NoLabel => lbl[k] # NoLabel
                     /\ Top.kind \in {"case", "default"} => lbl[Top.l2] # NoLabel
    PROVE  IInv'
<1>1. /\ ta_code' = c /\ stack' = Below /\ value' = [ready |-> TRUE, st |-> st]
      /\ place' = add @@ (<<"after", Top.id>> :> c.instrs) @@ place
      /\ UNCHANGED <<statements, functions, bound, phase>>
  BY DEF Reduce
<1>2. PICK t, f : t = Below /\ f = Top
  OBVIOUS
<1>3. /\ Framing(t, ta_code, statements) /\ Pushes(t, f, stack) /\ Framed(f, ta_code)
      /\ f.id \in Nat /\ t # <<>> /\ t[1].kind = "block" /\ Nested(t)
  BY <1>2, TopKnown
<1>4. /\ statements \in Nat /\ bound \in Bounds
      /\ Shaped(ta_code, stack, value.st, idLabel, idGoto, lblSwitch, tmpSwitch, place, statements)
      /\ statements <= MaxStatements
  BY DEF Going, IInv
<1>5. Coded(c) /\ st \in StmtType /\ Grows(c, c)
  BY GrowsSelf DEF Grows, StmtOK
<1>0a. PICK m \in Nat : m = f.id
  BY <1>3
<1>0. PICK p, x : m = f.id /\ p = <<"after", m>> /\ x = c.instrs
  BY <1>0a, <1>3
<1>6. PICK after : after = (p :> x)
  OBVIOUS
<1>7. Placed(after, c) /\ DOMAIN after = {p}
  BY <1>0, <1>5, <1>6, PlacedAfter
<1>8. PICK more, q : more = add @@ after /\ q = more @@ place
  OBVIOUS
<1>9. Adds(after, add, more) /\ Adds(place, more, q)
  BY <1>8, Adding
<1>10. Placed(more, c)
  BY <1>5, <1>7, <1>9, PlacedMore
<1>11. Placed(q, c)
  BY <1>4, <1>9, <1>10, PlacedMore DEF Shaped
<1>12. Framing(t, c, statements)
  BY <1>3, <1>4, FramingGrows
<1>13. Named(t, c, labels, gotos, q)
  <2>1. \A n \in Names : <<"label", n>> \in DOMAIN q => <<"label", n>> \in DOMAIN place
    BY <1>0, <1>7, <1>9 DEF Adds, NoLabelPoint
  <2>2. QED BY <1>2, <1>5, <2>1, NamedMore
<1>14. Shaped(c, t, st, labels, gotos, lbl, tmp, q, statements)
  BY <1>2, <1>3, <1>5, <1>11, <1>12, <1>13 DEF Shaped
<1>15. ASSUME fault' = "none" PROVE Right(c, t, Len(t), st, gotos, lbl, q)
  <2>1. /\ fault = "none" /\ CaseLess(add) /\ AllHeld(c, t, st, gotos)
        /\ \A k \in Keys : f.own[k] # 0 => Jumped(c, <<"case", f.own[k]>>)
        /\ \/ f.kind = "switch"
           \/ /\ \A k \in Keys : lblSwitch[k] # NoLabel => lbl[k] # NoLabel
              /\ f.kind \in {"case", "default"} => lbl[f.l2] # NoLabel
    BY <1>2, <1>15
  <2>2. Settled(t, Len(t), c)
    <3>1. PICK k \in Nat : k = Depth(stack, value.ready)
      <4>1. Len(stack) \in Nat /\ Len(stack) - 1 \in Nat
        BY DEF Going
      <4>2. Depth(stack, value.ready) = Len(stack) \/ Depth(stack, value.ready) = Len(stack) - 1
        BY DEF Depth
      <4>3. QED BY <4>1, <4>2
    <3>2. Settled(stack, k, ta_code)
      BY <2>1, <3>1 DEF Going, IInv, Right
    <3>3. k <= Len(stack) /\ Len(t) <= k /\ Len(t) \in Nat
      BY <1>3, <3>1 DEF Depth, Going, Pushes
    <3>4. \A i \in 1 .. Len(t) : t[i] = stack[i]
      BY <1>3 DEF Pushes
    <3>5. QED BY <3>2, <3>3, <3>4, SettledMore DEF Going
  <2>3. CasesKept(stack, ta_code, place) /\ OwnCases(stack, lblSwitch)
    BY <2>1 DEF Going, IInv, Right
  <2>4. CaseLess(more)
    BY <1>0, <1>7, <1>9, <2>1 DEF CaseLess, Adds
  <2>5. CasesKept(t, c, q)
    BY <1>3, <1>4, <1>9, <2>1, <2>3, <2>4, CasesPop DEF Shaped
  <2>6. OwnCases(t, lbl)
    BY <1>3, <2>1, <2>3, OwnPop
  <2>7. QED BY <2>1, <2>2, <2>5, <2>6 DEF Right
<1>16. /\ bound' \in Bounds /\ statements' \in Nat /\ statements' <= MaxStatements'
       /\ value' \in [ready : BOOLEAN, st : StmtType] /\ value'.ready /\ value'.st = st
       /\ phase' = "parse" /\ place' = q /\ stack' = t /\ statements' = statements
  <2>1. MaxStatements' = MaxStatements
    BY <1>1 DEF MaxStatements
  <2>2. QED BY <1>0, <1>1, <1>2, <1>4, <1>5, <1>6, <1>8, <2>1 DEF Going
<1>17. Parsing(t, value'.ready, st)
  BY <1>3, <1>16 DEF Parsing
<1>18. Depth(t, value'.ready) = Len(t)
  BY <1>16 DEF Depth
<1>19. QED BY <1>1, <1>14, <1>15, <1>16, <1>17, <1>18 DEF IInv

(***************************************************************************)
(* What the step of a statement is made of: the code so far and what the   *)
(* statement adds to it, the points of the source, its lists, its frame.   *)
(***************************************************************************)

\* c is the text's code with that of one more statement, which holds new.
Written(c, new) ==
    /\ Grows(ta_code, c) /\ TopSettled(c) /\ new \subseteq JumpsOf(c)
    /\ Unpatched(c) \subseteq HeldIn(stack, Len(stack)) \cup Waiting(idGoto) \cup new

LEMMA ExpectingIs ==
    ASSUME IInv, NEW p, Expecting(p)
    PROVE  Going /\ ~value.ready /\ statements < MaxStatements /\ fault = "none" /\ statements + 1 \in Nat
<1>1. statements \in Nat /\ MaxStatements \in Nat
  BY StatementsAssumption DEF IInv, MaxStatements
<1>2. phase = "parse" /\ ~value.ready /\ fault = "none"
  BY DEF Expecting
<1>3. statements < MaxStatements - 1 \/ statements < MaxStatements - 0
  BY DEF Expecting
<1>4. QED BY <1>1, <1>2, <1>3, GoesOn

LEMMA OpenedWritten ==
    ASSUME Going, ~value.ready, fault = "none", NEW o, o = Opened
    PROVE  Written(o, {}) /\ Coded(o)
<1>1. /\ Coded(ta_code) /\ Framing(stack, ta_code, statements) /\ value.st = Null
      /\ AllHeld(ta_code, stack, value.st, idGoto)
  BY DEF Going, IInv, Shaped, Parsing, Right
<1>2. Unpatched(ta_code) \subseteq HeldIn(stack, Len(stack)) \cup Waiting(idGoto)
  BY <1>1, NoListsOf DEF AllHeld
<1>3. CASE Top.kind # "block" \/ Top.st.lists["next"] = {}
  <2>1. o = ta_code
    BY <1>3 DEF Opened
  <2>2. Grows(ta_code, o) /\ TopSettled(o)
    BY <1>1, <1>3, <2>1, GrowsSelf DEF TopSettled
  <2>3. QED BY <1>1, <1>2, <2>1, <2>2 DEF Written
<1>4. CASE ~(Top.kind # "block" \/ Top.st.lists["next"] = {})
  <2>1. PICK c, l, next : c = NewLabel(ta_code) /\ l = LastLabel(c) /\ next = Top.st.lists["next"]
    OBVIOUS
  <2>2. Grows(ta_code, c) /\ Unpatched(c) = Unpatched(ta_code) /\ l \in LabelsOf(c) /\ l # NoLabel
    BY <1>1, <2>1, NewLabelGrows
  <2>3. o = Backpatch(c, next, l)
    BY <1>4, <2>1 DEF Opened
  <2>4. l \in Patches(c) /\ Coded(c)
    BY <2>2 DEF Patches, Grows
  <2>5. Grows(c, o) /\ Unpatched(o) = Unpatched(c) \ next
    BY <2>2, <2>3, <2>4, BackpatchGrows
  <2>6. Grows(ta_code, o)
    BY <2>2, <2>5, GrowsOn
  <2>7. TopSettled(o)
    BY <2>1, <2>5 DEF TopSettled
  <2>8. QED BY <1>2, <2>2, <2>5, <2>6, <2>7 DEF Written, Grows
<1>5. QED BY <1>3, <1>4

LEMMA WrittenOn ==
    ASSUME Going, NEW c, NEW new, Written(c, new), NEW d, Grows(c, d), NEW all \in SUBSET JumpsOf(d),
           Unpatched(d) \subseteq (Unpatched(c) \ new) \cup all
    PROVE  Written(d, all) /\ Coded(d)
<1>1. Grows(ta_code, d) /\ Coded(d)
  BY GrowsOn DEF Written, Grows
<1>2. TopSettled(d)
  <2>1. ASSUME Top.kind = "block" PROVE Top.st.lists["next"] \cap Unpatched(d) = {}
    <3>1. Framed(Top, ta_code)
      BY DEF Going, Framing, Top
    <3>2. Top.st.lists["next"] \subseteq JumpsOf(ta_code)
      BY <3>1 DEF Framed, StmtOK, Lists
    <3>3. JumpsOf(ta_code) \subseteq JumpsOf(c) /\ Top.st.lists["next"] \cap Unpatched(c) = {}
      BY <2>1 DEF Written, TopSettled, Grows
    <3>4. QED BY <3>2, <3>3 DEF Grows
  <2>2. QED BY <2>1 DEF TopSettled
<1>3. QED BY <1>1, <1>2 DEF Written

Points(add, c) == Placed(add, c) /\ NoLabelPoint(add) /\ CaseLess(add)

LEMMA PointsNone == ASSUME NEW c PROVE Points(<<>>, c)
BY DEF Points, Placed, NoLabelPoint, CaseLess

LEMMA PointsOne ==
    ASSUME NEW d, NEW c, Grows(d, c), NEW r \in Roles \ {"label", "case"}, NEW n \in Nat,
           NEW p, p = <<r, n>>, NEW x, x = d.instrs, NEW q, q = (p :> x)
    PROVE  Points(q, c)
<1>1. p \in Roles \X Nat /\ Coded(c) /\ x \in Nat /\ x <= c.instrs
  BY DEF Grows, Coded, CodeType
<1>2. Placed(q, c) /\ DOMAIN q = {p}
  BY <1>1, PlacedSingle
<1>3. QED BY <1>2 DEF Points, NoLabelPoint, CaseLess

LEMMA PointsTwo ==
    ASSUME NEW c, NEW a, NEW b, Points(a, c), Points(b, c), NEW q, q = a @@ b
    PROVE  Points(q, c)
<1>1. Adds(a, b, q)
  BY Adding
<1>2. QED BY <1>1 DEF Adds, Points, Placed, NoLabelPoint, CaseLess

LEMMA ListsAre ==
    ASSUME NEW st
    PROVE  ListsOf(st) = st.lists["next"] \cup st.lists["break"] \cup st.lists["continue"] \cup st.lists["return"]
BY DEF ListsOf, Lists

LEMMA StmtIs ==
    ASSUME NEW c, NEW ls, ls \in [Lists -> SUBSET JumpsOf(c)], NEW st, st = Stmt(ls)
    PROVE  StmtOK(st, c) /\ st.lists = ls /\ ~st.null
<1>1. st.lists = ls /\ st.null = FALSE /\ st = [null |-> FALSE, lists |-> ls]
  BY DEF Stmt
<1>2. ls \in [Lists -> SUBSET Nat] /\ \A l \in Lists : ls[l] \subseteq JumpsOf(c)
  BY DEF JumpsOf
<1>3. QED BY <1>1, <1>2 DEF StmtOK, StmtType

\* A statement that leaves one list.
Leaves(st, l, new) == st = Stmt([NoLists EXCEPT ![l] = new])
OnlyIn(st, l, new) == \A k \in Lists : st.lists[k] = IF k = l THEN new ELSE {}

LEMMA StmtOne ==
    ASSUME NEW c, NEW l \in Lists, NEW new \in SUBSET JumpsOf(c), NEW st, Leaves(st, l, new)
    PROVE  StmtOK(st, c) /\ ~st.null /\ ListsOf(st) = new /\ OnlyIn(st, l, new)
<1>1. PICK ls : ls = [NoLists EXCEPT ![l] = new]
  OBVIOUS
<1>2. ls = [k \in Lists |-> IF k = l THEN new ELSE {}]
  BY <1>1 DEF NoLists
<1>3. ls \in [Lists -> SUBSET JumpsOf(c)] /\ \A k \in Lists : ls[k] = IF k = l THEN new ELSE {}
  BY <1>2
<1>4. StmtOK(st, c) /\ st.lists = ls /\ ~st.null
  <2>1. st = Stmt(ls)
    BY <1>1 DEF Leaves
  <2>2. ls \in [Lists -> SUBSET JumpsOf(c)]
    BY <1>3
  <2>3. QED BY <2>1, <2>2, StmtIs
<1>5. OnlyIn(st, l, new)
  BY <1>3, <1>4 DEF OnlyIn
<1>6. st.lists["next"] \cup st.lists["break"] \cup st.lists["continue"] \cup st.lists["return"] = new
  BY <1>3, <1>4 DEF Lists
<1>7. QED BY <1>4, <1>5, <1>6, ListsAre

\* f is the frame of a statement that has been opened.
Made(f, k, id, true, false, l1, l2, goto1) ==
    f = [kind |-> k, id |-> id, true |-> true, false |-> false, l1 |-> l1, l2 |-> l2,
         goto1 |-> goto1, goto2 |-> 0, st |-> Null, seen |-> FALSE, own |-> [x \in Keys |-> 0]]

Holds(f, true, false, goto1) == true \cup false \cup {goto1} \subseteq HeldBy(f)

LEMMA MadeFrame ==
    ASSUME NEW c, NEW k \in Compound, NEW id \in Nat, NEW T \in SUBSET JumpsOf(c), NEW F \in SUBSET JumpsOf(c),
           NEW l1 \in Patches(c), NEW l2 \in Nat, NEW g \in JumpsOf(c) \cup {0},
           NEW f, Made(f, k, id, T, F, l1, l2, g),
           k \notin {"block", "switch"} => l1 # NoLabel,
           k \in {"while", "for"} => l2 \in LabelsOf(c),
           k = "for3" => l2 = NoLabel /\ T = {},
           k \in {"block", "do", "case", "default", "label", "switch"} => T = {} /\ F = {},
           k # "switch" => g = 0,
           k \in {"case", "default"} => l2 \in Keys,
           k = "default" => l2 = Default,
           k = "label" => l2 \in Names
    PROVE  /\ Framed(f, c) /\ Ownless(f) /\ f.st = Null /\ f.kind = k /\ f.id = id /\ f.l2 = l2
           /\ Holds(f, T, F, g)
<1>1. /\ f.kind = k /\ f.id = id /\ f.true = T /\ f.false = F /\ f.l1 = l1 /\ f.l2 = l2
      /\ f.goto1 = g /\ f.goto2 = 0 /\ f.st = Null /\ f.seen = FALSE
      /\ f.own = [x \in Keys |-> 0]
  BY DEF Made
<1>2. f.own \in [Keys -> Nat] /\ Ownless(f)
  BY <1>1 DEF Ownless
<1>3. T \in SUBSET Nat /\ F \in SUBSET Nat /\ g \in Nat /\ l1 \in Nat
  BY DEF JumpsOf, Patches, LabelsOf, NoLabel
<1>4. Null \in StmtType /\ StmtOK(Null, c)
  BY NullOK DEF StmtOK
<1>5. f \in FrameType
  <2>a. PICK K : k \in K /\ K = Compound \cup {"else"}
    OBVIOUS
  <2>b. PICK b \in BOOLEAN : b = FALSE
    OBVIOUS
  <2>c. PICK n \in StmtType : n = Null
    BY <1>4
  <2>d. PICK own \in [Keys -> Nat] : own = f.own
    BY <1>2
  <2>e. PICK z \in Nat : z = 0
    OBVIOUS
  <2>2. f = [kind |-> k, id |-> id, true |-> T, false |-> F, l1 |-> l1, l2 |-> l2,
             goto1 |-> g, goto2 |-> z, st |-> n, seen |-> b, own |-> own]
    BY <1>1, <2>b, <2>c, <2>d, <2>e DEF Made
  <2>3. f \in [kind : K, id : Nat, true : SUBSET Nat, false : SUBSET Nat, l1 : Nat, l2 : Nat,
               goto1 : Nat, goto2 : Nat, st : StmtType, seen : BOOLEAN, own : [Keys -> Nat]]
    BY <1>3, <2>a, <2>2
  <2>4. QED BY <2>a, <2>3 DEF FrameType
<1>6. Holds(f, T, F, g)
  BY <1>1 DEF HeldBy, Holds
<1>7. k # "else"
  BY DEF Compound, Loops
<1>8. Framed(f, c)
  BY <1>1, <1>2, <1>4, <1>5, <1>7 DEF Framed, Ownless
<1>9. QED BY <1>1, <1>2, <1>6, <1>8

LEMMA SimpleAs ==
    ASSUME Going, ~value.ready, statements < MaxStatements, fault = "none",
           NEW c, NEW new, Written(c, new), NEW st, StmtOK(st, c), Leaving(st, stack, Len(stack)),
           Simple(c, st), UNCHANGED globals, fault' = "none" => new \subseteq ListsOf(st)
    PROVE  IInv'
<1>1. UNCHANGED <<idLabel, lblSwitch, tmpSwitch>> /\ idGoto' = idGoto
  BY DEF globals
<1>2. Grows(ta_code, c)
  BY DEF Written
<1>3. Named(stack, c, idLabel, idGoto, place)
  BY <1>2, NamedMore DEF Going, IInv, Shaped
<1>4. fault' = "none" => fault = "none" /\ TopSettled(c) /\ AllHeld(c, stack, st, idGoto)
  BY DEF Written, AllHeld
<1>5. QED BY <1>1, <1>2, <1>3, <1>4, SimpleStep

LEMMA OpenAs ==
    ASSUME Going, ~value.ready, statements < MaxStatements, fault = "none",
           NEW c, NEW new, Written(c, new), NEW f, Framed(f, c), f.id = statements + 1, f.st = Null, Ownless(f),
           f.kind \notin {"case", "default", "label"}, NEW add, Points(add, c), Open(c, f, add), UNCHANGED globals,
           fault' = "none" => /\ new \subseteq HeldBy(f)
                              /\ f.kind # "switch" \/ \A i \in 1 .. Len(stack) : Ownless(stack[i])
    PROVE  IInv'
<1>1. Grows(ta_code, c) /\ Placed(add, c) /\ NoLabelPoint(add)
  BY DEF Written, Points
<1>2. fault' = "none" =>
         /\ fault = "none" /\ TopSettled(c) /\ CaseLess(add)
         /\ Unpatched(c) \subseteq HeldIn(stack, Len(stack)) \cup HeldBy(f) \cup Waiting(idGoto)
         /\ f.kind # "switch" \/ \A i \in 1 .. Len(stack) : Ownless(stack[i])
  BY DEF Written, Points
<1>3. QED BY <1>1, <1>2, OpenStep

\* What is held with an expression's jumps, and with the jump made last.
WithLists(all, new, v) == all = new \cup v.true \cup v.false
WithLast(all, new, c)  == all = new \cup {LastGoto(c)}

LEMMA ConditionWritten ==
    ASSUME Going, NEW c, NEW new, Written(c, new), NEW e \in Exprs,
           NEW wt \in Roles \X Nat, NEW wf \in Roles \X Nat, NEW v, v = Condition(c, e, wt, wf),
           NEW all, WithLists(all, new, v)
    PROVE  /\ Written(v.c, all) /\ Coded(v.c) /\ Grows(c, v.c)
           /\ v.true \subseteq JumpsOf(v.c) /\ v.false \subseteq JumpsOf(v.c)
           /\ e = "plain" => v.true = {} /\ v.false = {}
<1>1. Coded(c) /\ new \subseteq JumpsOf(c) /\ e \in {"plain", "and", "or"}
  BY Expressions DEF Written, Grows
<1>2. /\ Grows(c, v.c) /\ v.true \subseteq JumpsOf(v.c) /\ v.false \subseteq JumpsOf(v.c)
      /\ Unpatched(v.c) = Unpatched(c) \cup v.true \cup v.false
      /\ e = "plain" => v.true = {} /\ v.false = {}
  BY <1>1, ConditionGrows
<1>3. PICK d : d = v.c
  OBVIOUS
<1>4. Grows(c, d) /\ all \in SUBSET JumpsOf(d) /\ Unpatched(d) \subseteq (Unpatched(c) \ new) \cup all
  BY <1>1, <1>2, <1>3 DEF Grows, WithLists
<1>5. Written(d, all) /\ Coded(d)
  BY <1>4, WrittenOn
<1>6. QED BY <1>2, <1>3, <1>5

LEMMA GotoWritten ==
    ASSUME Going, NEW c, NEW new, Written(c, new), NEW w \in Roles \X Nat,
           NEW d, d = NewGoto(c, w) \/ d = NewGotoCond(c, w), NEW all, WithLast(all, new, d)
    PROVE  /\ Written(d, all) /\ Coded(d) /\ Grows(c, d) /\ LastGoto(d) \in JumpsOf(d) /\ LastGoto(d) \in Nat
           /\ LastGoto(d) \notin JumpsOf(c)
<1>1. Coded(c) /\ new \subseteq JumpsOf(c)
  BY DEF Written, Grows
<1>2. /\ Grows(c, d) /\ JumpsOf(d) = JumpsOf(c) \cup {LastGoto(d)} /\ LastGoto(d) \in Nat
      /\ Unpatched(d) = Unpatched(c) \cup {LastGoto(d)} /\ LastGoto(d) \notin JumpsOf(c)
  BY <1>1, NewGotoGrows
<1>3. all \in SUBSET JumpsOf(d) /\ Unpatched(d) \subseteq (Unpatched(c) \ new) \cup all
  BY <1>1, <1>2 DEF WithLast
<1>4. QED BY <1>2, <1>3, WrittenOn

LEMMA LabelWritten ==
    ASSUME Going, NEW c, NEW new, Written(c, new), NEW d, d = NewLabel(c), NEW l, l = LastLabel(d)
    PROVE  Written(d, new) /\ Coded(d) /\ Grows(c, d) /\ l \in LabelsOf(d) /\ l # NoLabel /\ l \in Nat
<1>1. Coded(c) /\ new \subseteq JumpsOf(c)
  BY DEF Written, Grows
<1>2. /\ Grows(c, d) /\ JumpsOf(d) = JumpsOf(c) /\ Unpatched(d) = Unpatched(c)
      /\ l \in LabelsOf(d) /\ l # NoLabel /\ l \in Nat
  BY <1>1, NewLabelGrows
<1>3. new \in SUBSET JumpsOf(d) /\ Unpatched(d) \subseteq (Unpatched(c) \ new) \cup new
  BY <1>1, <1>2
<1>4. QED BY <1>2, <1>3, WrittenOn

LEMMA ExecWritten ==
    ASSUME Going, NEW c, NEW new, Written(c, new), NEW d, d = Exec(c)
    PROVE  Written(d, new) /\ Coded(d) /\ Grows(c, d)
<1>1. Coded(c) /\ new \subseteq JumpsOf(c)
  BY DEF Written, Grows
<1>2. Grows(c, d) /\ JumpsOf(d) = JumpsOf(c) /\ Unpatched(d) = Unpatched(c)
  BY <1>1, ExecGrows
<1>3. new \in SUBSET JumpsOf(d) /\ Unpatched(d) \subseteq (Unpatched(c) \ new) \cup new
  BY <1>1, <1>2
<1>4. QED BY <1>2, <1>3, WrittenOn

LEMMA PatchWritten ==
    ASSUME Going, NEW c, NEW new, Written(c, new), NEW list, NEW l \in LabelsOf(c), NEW d, d = Backpatch(c, list, l),
           NEW all, all = new \ list
    PROVE  Written(d, all) /\ Coded(d) /\ Grows(c, d) /\ LabelsOf(d) = LabelsOf(c)
<1>1. Coded(c) /\ new \subseteq JumpsOf(c) /\ l # NoLabel /\ l \in Patches(c)
  BY DEF Written, Grows, Patches, LabelsOf, NoLabel
<1>2. Grows(c, d) /\ JumpsOf(d) = JumpsOf(c) /\ LabelsOf(d) = LabelsOf(c) /\ Unpatched(d) = Unpatched(c) \ list
  BY <1>1, BackpatchGrows
<1>3. all \in SUBSET JumpsOf(d) /\ Unpatched(d) \subseteq (Unpatched(c) \ new) \cup all
  BY <1>1, <1>2
<1>4. QED BY <1>2, <1>3, WrittenOn

(***************************************************************************)
(* Statements without parts.                                               *)
(***************************************************************************)
LEMMA NoLeaving ==
    ASSUME NEW st, st.lists["break"] = {}, st.lists["continue"] = {}, NEW s, NEW n
    PROVE  Leaving(st, s, n)
BY DEF Leaving

LEMMA ExpressionStatementStep ==
    ASSUME IInv, NEW e \in Exprs, ExpressionStatement(e) PROVE IInv'
<1>1. Going /\ ~value.ready /\ statements < MaxStatements /\ fault = "none" /\ statements + 1 \in Nat
  BY ExpectingIs DEF ExpressionStatement
<1>2. PICK o, w : o = Opened /\ w = <<"after", Id>>
  OBVIOUS
<1>3. Written(o, {}) /\ w \in Roles \X Nat
  BY <1>1, <1>2, OpenedWritten DEF Roles, Id
<1>4. PICK v : v = Condition(o, e, w, w)
  OBVIOUS
<1>5. PICK new : new = v.true \cup v.false
  OBVIOUS
<1>6. WithLists(new, {}, v)
  BY <1>5 DEF WithLists
<1>7. Written(v.c, new) /\ new \subseteq JumpsOf(v.c)
  <2>1. Written(v.c, new)
    BY <1>1, <1>3, <1>4, <1>6, ConditionWritten
  <2>2. QED BY <2>1 DEF Written
<1>l. PICK l \in Lists : l = "next"
  BY DEF Lists
<1>8. PICK st : Leaves(st, l, new)
  BY DEF Leaves
<1>9. StmtOK(st, v.c) /\ ListsOf(st) = new /\ OnlyIn(st, l, new)
  BY <1>7, <1>8, StmtOne
<1>10. Leaving(st, stack, Len(stack))
  BY <1>l, <1>9, NoLeaving DEF Lists, OnlyIn
<1>11. Simple(v.c, st) /\ UNCHANGED globals
  BY <1>2, <1>4, <1>5, <1>8, <1>l DEF ExpressionStatement, Leaves
<1>12. QED BY <1>1, <1>7, <1>9, <1>10, <1>11, SimpleAs

LEMMA NullStatementStep ==
    ASSUME IInv, NEW i \in BOOLEAN, NullStatement(i) PROVE IInv'
<1>1. Going /\ ~value.ready /\ statements < MaxStatements /\ fault = "none"
  BY ExpectingIs DEF NullStatement
<1>2. PICK o : o = Opened
  OBVIOUS
<1>3. Written(o, {})
  BY <1>1, <1>2, OpenedWritten
<1>4. PICK c : c = IF i THEN Exec(o) ELSE o
  OBVIOUS
<1>5. Written(c, {})
  BY <1>1, <1>3, <1>4, ExecWritten
<1>6. PICK st : st = Null
  OBVIOUS
<1>7. StmtOK(st, c) /\ Leaving(st, stack, Len(stack))
  BY <1>6, NullOK, NoLeaving DEF NoLists, Lists
<1>8. Simple(c, st) /\ UNCHANGED globals
  BY <1>2, <1>4, <1>6 DEF NullStatement
<1>9. {} \subseteq ListsOf(st)
  OBVIOUS
<1>10. QED BY <1>1, <1>5, <1>7, <1>8, <1>9, SimpleAs

\* A jump into a list: break, continue, return.
LEMMA JumpStep ==
    ASSUME Going, ~value.ready, statements < MaxStatements, fault = "none",
           NEW o, Written(o, {}), NEW w \in Roles \X Nat, NEW c, c = NewGoto(o, w), NEW l \in Lists,
           l = "break" => Inside(Breakable, stack, Len(stack)),
           l = "continue" => Inside(Loops, stack, Len(stack)),
           NEW new, WithLast(new, {}, c), NEW st, Leaves(st, l, new), Simple(c, st), UNCHANGED globals
    PROVE  IInv'
<1>2. Written(c, new)
  BY GotoWritten
<1>1. new \in SUBSET JumpsOf(c)
  BY <1>2 DEF Written
<1>3. StmtOK(st, c) /\ ListsOf(st) = new /\ OnlyIn(st, l, new)
  BY <1>1, StmtOne
<1>4. Leaving(st, stack, Len(stack))
  BY <1>3 DEF Leaving, Lists, OnlyIn
<1>5. QED BY <1>2, <1>3, <1>4, SimpleAs

\* The innermost statement of some kinds is open.
LEMMA InnermostOpen ==
    ASSUME Going, NEW kinds, NEW i, i = Innermost(kinds), i # 0
    PROVE  /\ i \in 1 .. Len(stack) /\ stack[i].kind \in kinds
           /\ \A j \in 1 .. Len(stack) : stack[j].kind \in kinds => j <= i
<1>1. stack \in Seq(FrameType) /\ Len(stack) \in Nat
  BY DEF Going, Framing
<1>2. DOMAIN stack = 1 .. Len(stack)
  BY <1>1
<1>3. PICK S : S = {0} \cup {j \in DOMAIN stack : stack[j].kind \in kinds}
  OBVIOUS
<1>4. S \subseteq 0 .. Len(stack) /\ 0 \in S /\ i = Max(S)
  BY <1>1, <1>2, <1>3 DEF Innermost
<1>5. \E m \in S : \A j \in S : m >= j
  <2> DEFINE P == {n \in 0 .. Len(stack) : \E m \in S : \A j \in S : j <= n => m >= j}
  <2>1. 0 \in P
    BY <1>4
  <2>2. ASSUME NEW n \in 1 .. Len(stack), n - 1 \in P PROVE n \in P
    <3>1. PICK m \in S : \A j \in S : j <= n - 1 => m >= j
      BY <2>2
    <3>2. CASE n \in S /\ ~(m >= n)
      BY <1>1, <1>4, <3>2
    <3>3. CASE ~(n \in S /\ ~(m >= n))
      BY <1>1, <1>4, <3>1, <3>3
    <3>4. QED BY <3>2, <3>3
  <2> HIDE DEF P
  <2>3. 0 .. Len(stack) \subseteq P
    BY <1>1, <2>1, <2>2, Upwards
  <2>4. Len(stack) \in P
    BY <1>1, <2>3
  <2>5. QED BY <1>1, <1>4, <2>4 DEF P
<1>6. i \in S /\ \A j \in S : i >= j
  BY <1>4, <1>5 DEF Max
<1>7. QED BY <1>1, <1>2, <1>3, <1>4, <1>6

LEMMA BreakStep == ASSUME IInv, Break PROVE IInv'
<1>1. Going /\ ~value.ready /\ statements < MaxStatements /\ fault = "none"
  BY ExpectingIs DEF Break
<1>2. PICK kinds, i : kinds = Loops \cup {"switch"} /\ i = Innermost(kinds)
  OBVIOUS
<1>3. i \in 1 .. Len(stack) /\ stack[i].kind \in kinds
  BY <1>1, <1>2, InnermostOpen DEF Break
<1>4. Inside(Breakable, stack, Len(stack))
  BY <1>2, <1>3 DEF Inside, Breakable
<1>5. PICK n \in Nat : n = stack[i].id
  BY <1>1, <1>3 DEF Going, Framing, Framed, FrameType
<1>6. PICK w \in Roles \X Nat : w = <<"after", n>>
  BY DEF Roles
<1>7. PICK o : o = Opened
  OBVIOUS
<1>8. Written(o, {})
  BY <1>1, <1>7, OpenedWritten
<1>l. PICK l \in Lists : l = "break"
  BY DEF Lists
<1>9. PICK c : c = NewGoto(o, w)
  OBVIOUS
<1>10. PICK new : new = {LastGoto(c)} /\ WithLast(new, {}, c)
  BY DEF WithLast
<1>11. PICK st : Leaves(st, l, new)
  BY DEF Leaves
<1>12. Simple(c, st) /\ UNCHANGED globals
  BY <1>2, <1>5, <1>6, <1>7, <1>9, <1>10, <1>11, <1>l DEF Break, Jump, Leaves
<1>13. l # "continue"
  BY <1>l
<1>14. QED BY <1>1, <1>4, <1>8, <1>9, <1>10, <1>11, <1>12, <1>13, JumpStep

LEMMA ContinueStep == ASSUME IInv, Continue PROVE IInv'
<1>1. Going /\ ~value.ready /\ statements < MaxStatements /\ fault = "none"
  BY ExpectingIs DEF Continue
<1>2. PICK kinds, i : kinds = Loops /\ i = Innermost(kinds)
  OBVIOUS
<1>3. i \in 1 .. Len(stack) /\ stack[i].kind \in kinds
  BY <1>1, <1>2, InnermostOpen DEF Continue
<1>4. Inside(Loops, stack, Len(stack))
  BY <1>2, <1>3 DEF Inside
<1>5. PICK n \in Nat : n = stack[i].id
  BY <1>1, <1>3 DEF Going, Framing, Framed, FrameType
<1>r. PICK r \in Roles : r = IF stack[i].kind = "for3" THEN "step" ELSE "test"
  BY DEF Roles
<1>6. PICK w \in Roles \X Nat : w = <<r, n>>
  OBVIOUS
<1>7. PICK o : o = Opened
  OBVIOUS
<1>8. Written(o, {})
  BY <1>1, <1>7, OpenedWritten
<1>l. PICK l \in Lists : l = "continue"
  BY DEF Lists
<1>9. PICK c : c = NewGoto(o, w)
  OBVIOUS
<1>10. PICK new : new = {LastGoto(c)} /\ WithLast(new, {}, c)
  BY DEF WithLast
<1>11. PICK st : Leaves(st, l, new)
  BY DEF Leaves
<1>12. Simple(c, st) /\ UNCHANGED globals
  BY <1>2, <1>5, <1>6, <1>7, <1>9, <1>10, <1>11, <1>l, <1>r DEF Continue, Jump, Leaves
<1>13. l # "break"
  BY <1>l
<1>14. QED BY <1>1, <1>4, <1>8, <1>9, <1>10, <1>11, <1>12, <1>13, JumpStep

LEMMA ReturnStep == ASSUME IInv, NEW e \in Exprs, Return(e) PROVE IInv'
<1>1. Going /\ ~value.ready /\ statements < MaxStatements /\ fault = "none" /\ statements + 1 \in Nat
  BY ExpectingIs DEF Return
<1>2. PICK o, w : o = Opened /\ w = <<"after", Id>>
  OBVIOUS
<1>3. Written(o, {}) /\ w \in Roles \X Nat
  BY <1>1, <1>2, OpenedWritten DEF Roles, Id
<1>4. PICK v : v = Condition(o, e, w, w)
  OBVIOUS
<1>5. PICK lost : WithLists(lost, {}, v)
  BY DEF WithLists
<1>6. Written(v.c, lost) /\ (e = "plain" => lost = {})
  <2>1. Written(v.c, lost) /\ (e = "plain" => v.true = {} /\ v.false = {})
    BY <1>1, <1>3, <1>4, <1>5, ConditionWritten
  <2>2. QED BY <1>5, <2>1 DEF WithLists
<1>7. PICK x : x = Exec(v.c)
  OBVIOUS
<1>8. Written(x, lost)
  BY <1>1, <1>6, <1>7, ExecWritten
<1>9. PICK end \in Roles \X Nat : end = <<"end", 0>>
  BY DEF Roles
<1>10. PICK c : c = NewGoto(x, end)
  OBVIOUS
<1>11. PICK all, new : WithLast(all, lost, c) /\ new = {LastGoto(c)}
  BY DEF WithLast
<1>12. Written(c, all) /\ new \subseteq JumpsOf(c)
  <2>1. Written(c, all) /\ LastGoto(c) \in JumpsOf(c)
    BY <1>1, <1>8, <1>10, <1>11, GotoWritten
  <2>2. QED BY <1>11, <2>1
<1>l. PICK l \in Lists : l = "return"
  BY DEF Lists
<1>13. PICK st : Leaves(st, l, new)
  BY DEF Leaves
<1>14. StmtOK(st, c) /\ ListsOf(st) = new /\ OnlyIn(st, l, new)
  BY <1>12, <1>13, StmtOne
<1>15. Leaving(st, stack, Len(stack))
  BY <1>l, <1>14, NoLeaving DEF Lists, OnlyIn
<1>16. Simple(c, st) /\ UNCHANGED globals
  BY <1>2, <1>4, <1>7, <1>9, <1>10, <1>11, <1>13, <1>l DEF Return, Leaves
<1>17. fault' = "none" => all \subseteq ListsOf(st)
  BY <1>1, <1>6, <1>11, <1>14 DEF Return, Blame, WithLast
<1>18. QED BY <1>1, <1>12, <1>14, <1>15, <1>16, <1>17, SimpleAs

(***************************************************************************)
(* Statements before their substatement.                                   *)
(***************************************************************************)
LEMMA OpenBlockStep == ASSUME IInv, OpenBlock PROVE IInv'
<1>1. Going /\ ~value.ready /\ statements < MaxStatements /\ fault = "none" /\ statements + 1 \in Nat
  BY ExpectingIs DEF OpenBlock
<1>2a. PICK id \in Nat : id = Id
  BY <1>1 DEF Id
<1>2. PICK c : id = Id /\ c = Opened
  BY <1>2a, <1>1 DEF Id
<1>3. Written(c, {}) /\ Coded(c)
  BY <1>1, <1>2, OpenedWritten
<1>4. PICK f : f = Frame("block", id)
  OBVIOUS
<1>ka. PICK k \in Compound, no \in Patches(c) : k = "block" /\ no = 0
  BY DEF Compound, Patches, NoLabel
<1>k. PICK none : k = "block" /\ none = {} /\ no = 0
  BY <1>ka DEF Compound, Patches, NoLabel
<1>5. k = "block" /\ none = {} /\ no = 0 /\ no \in Nat /\ no \in JumpsOf(c) \cup {0} /\ none \in SUBSET JumpsOf(c)
  BY <1>k
<1>6. Made(f, k, id, none, none, no, no, no)
  BY <1>4, <1>5 DEF Made, Frame, Keys, NoLabel
<1>7. Framed(f, c) /\ Ownless(f) /\ f.st = Null /\ f.kind = k /\ f.id = id
  BY <1>5, <1>6, MadeFrame DEF Compound
<1>8. PICK add : add = <<>>
  OBVIOUS
<1>9. Points(add, c)
  BY <1>8, PointsNone
<1>10. Open(c, f, add) /\ UNCHANGED globals
  BY <1>2, <1>4, <1>8 DEF OpenBlock
<1>11. QED BY <1>1, <1>2, <1>3, <1>5, <1>7, <1>9, <1>10, OpenAs DEF Id

LEMMA IfStep == ASSUME IInv, NEW e \in Exprs, If(e) PROVE IInv'
<1>1. Going /\ ~value.ready /\ statements < MaxStatements /\ fault = "none" /\ statements + 1 \in Nat
  BY ExpectingIs DEF If
<1>2a. PICK id \in Nat : id = Id
  BY <1>1 DEF Id
<1>2. PICK o : id = Id /\ o = Opened
  BY <1>2a, <1>1 DEF Id
<1>3. Written(o, {})
  BY <1>1, <1>2, OpenedWritten
<1>4. PICK body \in Roles \X Nat, else \in Roles \X Nat : body = <<"body", id>> /\ else = <<"else", id>>
  BY DEF Roles
<1>5. PICK v, held : v = Condition(o, e, body, else) /\ WithLists(held, {}, v)
  BY DEF WithLists
<1>6. Written(v.c, held) /\ v.true \subseteq JumpsOf(v.c) /\ v.false \subseteq JumpsOf(v.c)
  BY <1>1, <1>3, <1>5, ConditionWritten
<1>7. PICK j, g, new : j = NewGotoCond(v.c, else) /\ g = LastGoto(j) /\ WithLast(new, held, j)
  BY DEF WithLast
<1>8. Written(j, new) /\ Grows(v.c, j) /\ g \in JumpsOf(j)
  BY <1>1, <1>6, <1>7, GotoWritten
<1>9. PICK c, l : c = NewLabel(j) /\ l = LastLabel(c)
  OBVIOUS
<1>10. Written(c, new) /\ Coded(c) /\ Grows(j, c) /\ l \in LabelsOf(c) /\ l # NoLabel
  BY <1>1, <1>8, <1>9, LabelWritten
<1>11. PICK T, F : T = v.true /\ F = v.false \cup {g}
  OBVIOUS
<1>12. T \in SUBSET JumpsOf(c) /\ F \in SUBSET JumpsOf(c)
  BY <1>6, <1>8, <1>10, <1>11 DEF Grows
<1>13. PICK f : f = [Frame("if", id) EXCEPT !.true = T, !.false = F, !.l1 = l]
  OBVIOUS
<1>14. PICK k \in Compound, no \in Nat : k = "if" /\ no = 0
  BY DEF Compound
<1>15. Made(f, k, id, T, F, l, no, no)
  BY <1>13, <1>14 DEF Made, Frame, Keys, NoLabel
<1>16. l \in Patches(c)
  BY <1>10 DEF Patches
<1>17. /\ Framed(f, c) /\ Ownless(f) /\ f.st = Null /\ f.kind = k /\ f.id = id
       /\ Holds(f, T, F, no)
  BY <1>10, <1>12, <1>14, <1>15, <1>16, MadeFrame
<1>18. new \subseteq HeldBy(f)
  BY <1>5, <1>7, <1>11, <1>17 DEF WithLists, WithLast, Holds
<1>19. PICK x, add : x = c.instrs /\ add = (body :> x)
  OBVIOUS
<1>20. Points(add, c)
  <2>1. PICK r \in Roles \ {"label", "case"} : r = "body"
    BY DEF Roles
  <2>2. Grows(c, c) /\ body = <<r, id>>
    BY <1>4, <1>10, <2>1, GrowsSelf
  <2>3. QED BY <1>19, <2>2, PointsOne
<1>21. Open(c, f, add) /\ UNCHANGED globals
  BY <1>2, <1>4, <1>5, <1>7, <1>9, <1>11, <1>13, <1>19 DEF If
<1>22. QED BY <1>1, <1>2, <1>10, <1>14, <1>17, <1>18, <1>20, <1>21, OpenAs DEF Id

LEMMA WhileStep == ASSUME IInv, NEW e \in Exprs, While(e) PROVE IInv'
<1>1. Going /\ ~value.ready /\ statements < MaxStatements /\ fault = "none" /\ statements + 1 \in Nat
  BY ExpectingIs DEF While
<1>2a. PICK id \in Nat : id = Id
  BY <1>1 DEF Id
<1>2. PICK o : id = Id /\ o = Opened
  BY <1>2a, <1>1 DEF Id
<1>3. Written(o, {})
  BY <1>1, <1>2, OpenedWritten
<1>4. PICK test, body \in Roles \X Nat, after \in Roles \X Nat :
          test = <<"test", id>> /\ body = <<"body", id>> /\ after = <<"after", id>>
  BY DEF Roles
<1>5. PICK first, l1 : first = NewLabel(o) /\ l1 = LastLabel(first)
  OBVIOUS
<1>6. Written(first, {}) /\ l1 \in LabelsOf(first) /\ l1 # NoLabel
  BY <1>1, <1>3, <1>5, LabelWritten
<1>7. PICK v, held : v = Condition(first, e, body, after) /\ WithLists(held, {}, v)
  BY DEF WithLists
<1>8. Written(v.c, held) /\ Grows(first, v.c) /\ v.true \subseteq JumpsOf(v.c) /\ v.false \subseteq JumpsOf(v.c)
  BY <1>1, <1>6, <1>7, ConditionWritten
<1>9. PICK j, g, new : j = NewGotoCond(v.c, after) /\ g = LastGoto(j) /\ WithLast(new, held, j)
  BY DEF WithLast
<1>10. Written(j, new) /\ Grows(v.c, j) /\ g \in JumpsOf(j)
  BY <1>1, <1>8, <1>9, GotoWritten
<1>11. PICK c, l2 : c = NewLabel(j) /\ l2 = LastLabel(c)
  OBVIOUS
<1>12. Written(c, new) /\ Coded(c) /\ Grows(j, c) /\ l2 \in LabelsOf(c) /\ l2 \in Nat
  BY <1>1, <1>10, <1>11, LabelWritten
<1>13. Grows(v.c, c)
  BY <1>10, <1>12, GrowsOn
<1>14. Grows(first, c)
  BY <1>8, <1>13, GrowsOn
<1>15. PICK T, F : T = v.true /\ F = v.false \cup {g}
  OBVIOUS
<1>16. T \in SUBSET JumpsOf(c) /\ F \in SUBSET JumpsOf(c) /\ l1 \in Patches(c)
  BY <1>6, <1>8, <1>10, <1>12, <1>13, <1>14, <1>15 DEF Grows, Patches
<1>17. PICK f : f = [Frame("while", id) EXCEPT !.true = T, !.false = F, !.l1 = l1, !.l2 = l2]
  OBVIOUS
<1>18. PICK k \in Compound, no \in Nat : k = "while" /\ no = 0
  BY DEF Compound, Loops
<1>19. Made(f, k, id, T, F, l1, l2, no)
  BY <1>17, <1>18 DEF Made, Frame, Keys, NoLabel
<1>20. /\ Framed(f, c) /\ Ownless(f) /\ f.st = Null /\ f.kind = k /\ f.id = id
       /\ Holds(f, T, F, no)
  BY <1>6, <1>12, <1>16, <1>18, <1>19, MadeFrame
<1>21. new \subseteq HeldBy(f)
  BY <1>7, <1>9, <1>15, <1>20 DEF WithLists, WithLast, Holds
<1>22. PICK x1, x2, a, b : x1 = first.instrs /\ x2 = c.instrs /\ a = (test :> x1) /\ b = (body :> x2)
  OBVIOUS
<1>23. PICK add : add = a @@ b
  OBVIOUS
<1>24. Points(add, c)
  <2>1. PICK r1 \in Roles \ {"label", "case"}, r2 \in Roles \ {"label", "case"} : r1 = "test" /\ r2 = "body"
    BY DEF Roles
  <2>2. Grows(c, c) /\ test = <<r1, id>> /\ body = <<r2, id>>
    BY <1>4, <1>12, <2>1, GrowsSelf
  <2>3. Points(a, c) /\ Points(b, c)
    BY <1>14, <1>22, <2>2, PointsOne
  <2>4. QED BY <1>23, <2>3, PointsTwo
<1>25. Open(c, f, add) /\ UNCHANGED globals
  BY <1>2, <1>4, <1>5, <1>7, <1>9, <1>11, <1>15, <1>17, <1>22, <1>23 DEF While
<1>26. QED BY <1>1, <1>2, <1>12, <1>18, <1>20, <1>21, <1>24, <1>25, OpenAs DEF Id

LEMMA DoStep == ASSUME IInv, Do PROVE IInv'
<1>1. Going /\ ~value.ready /\ statements < MaxStatements /\ fault = "none" /\ statements + 1 \in Nat
  BY ExpectingIs DEF Do
<1>2a. PICK id \in Nat : id = Id
  BY <1>1 DEF Id
<1>2. PICK o : id = Id /\ o = Opened
  BY <1>2a, <1>1 DEF Id
<1>3. Written(o, {})
  BY <1>1, <1>2, OpenedWritten
<1>4. PICK c, l : c = NewLabel(o) /\ l = LastLabel(c)
  OBVIOUS
<1>5. Written(c, {}) /\ Coded(c) /\ l \in LabelsOf(c) /\ l # NoLabel
  BY <1>1, <1>3, <1>4, LabelWritten
<1>6. PICK f : f = [Frame("do", id) EXCEPT !.l1 = l]
  OBVIOUS
<1>7a. PICK k \in Compound, no \in Nat : k = "do" /\ no = 0
  BY DEF Compound, Loops
<1>7. PICK none : k = "do" /\ none = {} /\ no = 0
  BY <1>7a DEF Compound, Loops
<1>8. Made(f, k, id, none, none, l, no, no)
  BY <1>6, <1>7 DEF Made, Frame, Keys, NoLabel
<1>9. l \in Patches(c) /\ none \in SUBSET JumpsOf(c)
  BY <1>5, <1>7 DEF Patches
<1>10. Framed(f, c) /\ Ownless(f) /\ f.st = Null /\ f.kind = k /\ f.id = id
  BY <1>5, <1>7, <1>8, <1>9, MadeFrame
<1>11. PICK body, x, add : body = <<"body", id>> /\ x = c.instrs /\ add = (body :> x)
  OBVIOUS
<1>12. Points(add, c)
  <2>1. PICK r \in Roles \ {"label", "case"} : r = "body"
    BY DEF Roles
  <2>2. Grows(c, c) /\ body = <<r, id>>
    BY <1>5, <1>11, <2>1, GrowsSelf
  <2>3. QED BY <1>11, <2>2, PointsOne
<1>13. Open(c, f, add) /\ UNCHANGED globals
  BY <1>2, <1>4, <1>6, <1>11 DEF Do
<1>14. QED BY <1>1, <1>2, <1>5, <1>7, <1>10, <1>12, <1>13, OpenAs DEF Id

LEMMA PointsOn == ASSUME NEW add, NEW c, NEW d, Points(add, c), Grows(c, d) PROVE Points(add, d)
<1>1. c.instrs \in Nat /\ d.instrs \in Nat /\ c.instrs <= d.instrs
  BY DEF Grows, Coded, CodeType
<1>2. QED BY <1>1 DEF Points, Placed

\* The head of a for keeps the jumps of its condition; those of ex1 are lost.
HeadIs(h, lost, new) ==
    /\ Written(h.c, new) /\ new \subseteq lost \cup h.true \cup h.false
    /\ h.true \subseteq JumpsOf(h.c) /\ h.false \subseteq JumpsOf(h.c)
    /\ h.l1 \in LabelsOf(h.c) /\ h.l1 # NoLabel /\ h.l1 \in Nat
    /\ Points(h.point, h.c)

LEMMA ForHeadIs ==
    ASSUME Going, ~value.ready, fault = "none", statements + 1 \in Nat,
           NEW e1 \in Exprs, NEW e2 \in Exprs \cup {"none"}, NEW h, h = ForHead(e1, e2)
    PROVE  \E lost, new : HeadIs(h, lost, new) /\ (e1 = "plain" => lost = {})
<1>1a. PICK id \in Nat : id = Id
  BY DEF Id
<1>1. PICK o : id = Id /\ o = Opened
  BY <1>1a DEF Id
<1>2. Written(o, {})
  BY <1>1, OpenedWritten
<1>3. PICK test \in Roles \X Nat, body \in Roles \X Nat, after \in Roles \X Nat :
          test = <<"test", id>> /\ body = <<"body", id>> /\ after = <<"after", id>>
  BY DEF Roles
<1>4. PICK v1, lost : v1 = Condition(o, e1, test, test) /\ WithLists(lost, {}, v1)
  BY DEF WithLists
<1>5. Written(v1.c, lost) /\ (e1 = "plain" => lost = {})
  <2>1. Written(v1.c, lost) /\ (e1 = "plain" => v1.true = {} /\ v1.false = {})
    BY <1>2, <1>3, <1>4, ConditionWritten
  <2>2. QED BY <1>4, <2>1 DEF WithLists
<1>6. PICK first, l : first = NewLabel(v1.c) /\ l = LastLabel(first)
  OBVIOUS
<1>7. Written(first, lost) /\ Coded(first) /\ l \in LabelsOf(first) /\ l # NoLabel /\ l \in Nat
  BY <1>5, <1>6, LabelWritten
<1>8. PICK x, point : x = first.instrs /\ point = (test :> x)
  OBVIOUS
<1>9. Points(point, first)
  <2>1. PICK r \in Roles \ {"label", "case"} : r = "test"
    BY DEF Roles
  <2>2. Grows(first, first) /\ test = <<r, id>>
    BY <1>3, <1>7, <2>1, GrowsSelf
  <2>3. QED BY <1>8, <2>2, PointsOne
<1>10. CASE e2 = "none"
  <2>1. h.c = first /\ h.l1 = l /\ h.true = {} /\ h.false = {} /\ h.point = point
    BY <1>1, <1>3, <1>4, <1>6, <1>8, <1>10 DEF ForHead
  <2>2. HeadIs(h, lost, lost)
    BY <1>7, <1>9, <2>1 DEF HeadIs
  <2>3. QED BY <1>5, <2>2
<1>11. CASE e2 # "none"
  <2>1. PICK v2, held : v2 = Condition(first, e2, body, after) /\ WithLists(held, lost, v2)
    BY DEF WithLists
  <2>2. Written(v2.c, held) /\ Grows(first, v2.c) /\ v2.true \subseteq JumpsOf(v2.c) /\ v2.false \subseteq JumpsOf(v2.c)
    BY <1>3, <1>7, <1>11, <2>1, ConditionWritten
  <2>3. PICK j, g, new : j = NewGotoCond(v2.c, after) /\ g = LastGoto(j) /\ WithLast(new, held, j)
    BY DEF WithLast
  <2>4. Written(j, new) /\ Grows(v2.c, j) /\ g \in JumpsOf(j)
    BY <1>3, <2>2, <2>3, GotoWritten
  <2>5. h.c = j /\ h.l1 = l /\ h.true = v2.true /\ h.false = v2.false \cup {g} /\ h.point = point
    BY <1>1, <1>3, <1>4, <1>6, <1>8, <1>11, <2>1, <2>3 DEF ForHead
  <2>6. Grows(first, j)
    BY <2>2, <2>4, GrowsOn
  <2>7. Points(point, j)
    BY <1>9, <2>6, PointsOn
  <2>8. new \subseteq lost \cup v2.true \cup (v2.false \cup {g})
    BY <2>1, <2>3 DEF WithLists, WithLast
  <2>9. /\ v2.true \subseteq JumpsOf(j) /\ v2.false \cup {g} \subseteq JumpsOf(j) /\ l \in LabelsOf(j)
    BY <1>7, <2>2, <2>4, <2>6 DEF Grows
  <2>10. HeadIs(h, lost, new)
    BY <1>7, <2>4, <2>5, <2>7, <2>8, <2>9 DEF HeadIs
  <2>11. QED BY <1>5, <2>10
<1>12. QED BY <1>10, <1>11

LEMMA ForStep ==
    ASSUME IInv, NEW e1 \in Exprs, NEW e2 \in Exprs \cup {"none"}, For(e1, e2) PROVE IInv'
<1>1. Going /\ ~value.ready /\ statements < MaxStatements /\ fault = "none" /\ statements + 1 \in Nat
  BY ExpectingIs DEF For
<1>2a. PICK id \in Nat : id = Id
  BY <1>1 DEF Id
<1>2. PICK h : id = Id /\ h = ForHead(e1, e2)
  BY <1>2a, <1>1 DEF Id
<1>3. PICK lost, new : HeadIs(h, lost, new) /\ (e1 = "plain" => lost = {})
  BY <1>1, <1>2, ForHeadIs
<1>4. PICK d : d = h.c
  OBVIOUS
<1>5. PICK c, l2 : c = NewLabel(d) /\ l2 = LastLabel(c)
  OBVIOUS
<1>6. Written(c, new) /\ Coded(c) /\ Grows(d, c) /\ l2 \in LabelsOf(c) /\ l2 \in Nat
  BY <1>1, <1>3, <1>4, <1>5, LabelWritten DEF HeadIs
<1>7. PICK T, F, l1 : T = h.true /\ F = h.false /\ l1 = h.l1
  OBVIOUS
<1>8. T \in SUBSET JumpsOf(c) /\ F \in SUBSET JumpsOf(c) /\ l1 \in Patches(c) /\ l1 # NoLabel
  BY <1>3, <1>4, <1>6, <1>7 DEF HeadIs, Grows, Patches
<1>9. PICK f : f = [Frame("for", id) EXCEPT !.true = T, !.false = F, !.l1 = l1, !.l2 = l2]
  OBVIOUS
<1>10. PICK k \in Compound, no \in Nat : k = "for" /\ no = 0
  BY DEF Compound, Loops
<1>11. Made(f, k, id, T, F, l1, l2, no)
  BY <1>9, <1>10 DEF Made, Frame, Keys, NoLabel
<1>12. Framed(f, c) /\ Ownless(f) /\ f.st = Null /\ f.kind = k /\ f.id = id /\ Holds(f, T, F, no)
  BY <1>6, <1>8, <1>10, <1>11, MadeFrame
<1>13. PICK body, x, a, b : body = <<"body", id>> /\ x = c.instrs /\ a = h.point /\ b = (body :> x)
  OBVIOUS
<1>14. PICK add : add = a @@ b
  OBVIOUS
<1>15. Points(add, c)
  <2>1. PICK r \in Roles \ {"label", "case"} : r = "body"
    BY DEF Roles
  <2>2. Grows(c, c) /\ body = <<r, id>>
    BY <1>6, <1>13, <2>1, GrowsSelf
  <2>3. Points(b, c)
    BY <1>13, <2>2, PointsOne
  <2>4. Points(a, c)
    BY <1>3, <1>4, <1>6, <1>13, PointsOn DEF HeadIs
  <2>5. QED BY <1>14, <2>3, <2>4, PointsTwo
<1>16. Open(c, f, add) /\ UNCHANGED globals
  BY <1>2, <1>4, <1>5, <1>7, <1>9, <1>13, <1>14 DEF For
<1>17. fault' = "none" => new \subseteq HeldBy(f) /\ f.kind # "switch"
  BY <1>1, <1>3, <1>7, <1>10, <1>12 DEF For, Blame, HeadIs, Holds
<1>18. QED BY <1>1, <1>2, <1>6, <1>10, <1>12, <1>15, <1>16, <1>17, OpenAs DEF Id

LEMMA For3Step ==
    ASSUME IInv, NEW e1 \in Exprs, NEW e2 \in Exprs \cup {"none"}, NEW e3 \in Exprs, For3(e1, e2, e3) PROVE IInv'
<1>1. Going /\ ~value.ready /\ statements < MaxStatements /\ fault = "none" /\ statements + 1 \in Nat
  BY ExpectingIs DEF For3
<1>2a. PICK id \in Nat : id = Id
  BY <1>1 DEF Id
<1>2. PICK h : id = Id /\ h = ForHead(e1, e2)
  BY <1>2a, <1>1 DEF Id
<1>3. PICK lost, new : HeadIs(h, lost, new) /\ (e1 = "plain" => lost = {})
  BY <1>1, <1>2, ForHeadIs
<1>4. PICK d : d = h.c
  OBVIOUS
<1>5. PICK test \in Roles \X Nat, step \in Roles \X Nat, body \in Roles \X Nat :
          test = <<"test", id>> /\ step = <<"step", id>> /\ body = <<"body", id>>
  BY DEF Roles
<1>6. PICK j1, g1, new1 : j1 = NewGoto(d, body) /\ g1 = LastGoto(j1) /\ WithLast(new1, new, j1)
  BY DEF WithLast
<1>7. Written(j1, new1) /\ Grows(d, j1) /\ g1 \in JumpsOf(j1)
  BY <1>1, <1>3, <1>4, <1>5, <1>6, GotoWritten DEF HeadIs
<1>8. PICK s, l2 : s = NewLabel(j1) /\ l2 = LastLabel(s)
  OBVIOUS
<1>9. Written(s, new1) /\ Coded(s) /\ Grows(j1, s) /\ l2 \in LabelsOf(s) /\ l2 # NoLabel
  BY <1>1, <1>7, <1>8, LabelWritten
<1>10. PICK v3, new2 : v3 = Condition(s, e3, test, test) /\ WithLists(new2, new1, v3)
  BY DEF WithLists
<1>11. Written(v3.c, new2) /\ Grows(s, v3.c) /\ (e3 = "plain" => v3.true = {} /\ v3.false = {})
  BY <1>1, <1>5, <1>9, <1>10, ConditionWritten
<1>12. PICK j2, g2, new3 : j2 = NewGoto(v3.c, test) /\ g2 = LastGoto(j2) /\ WithLast(new3, new2, j2)
  BY DEF WithLast
<1>13. Written(j2, new3) /\ Grows(v3.c, j2)
  BY <1>1, <1>5, <1>11, <1>12, GotoWritten
<1>14. PICK c, l : c = NewLabel(j2) /\ l = LastLabel(c)
  OBVIOUS
<1>15. Written(c, new3) /\ Grows(j2, c) /\ l \in LabelsOf(c)
  BY <1>1, <1>13, <1>14, LabelWritten
<1>16. Grows(d, s) /\ Grows(s, c) /\ Grows(d, c)
  <2>1. Grows(d, s)
    BY <1>7, <1>9, GrowsOn
  <2>2. Grows(s, j2)
    BY <1>11, <1>13, GrowsOn
  <2>3. Grows(s, c)
    BY <1>15, <2>2, GrowsOn
  <2>4. QED BY <2>1, <2>3, GrowsOn
<1>17. PICK T, F, l1, once, twice : T = h.true /\ F = h.false /\ l1 = h.l1 /\ once = {g1} /\ twice = {g2}
  OBVIOUS
<1>18. l1 \in LabelsOf(c) /\ F \subseteq JumpsOf(c)
  BY <1>3, <1>4, <1>16, <1>17 DEF HeadIs, Grows
<1>19. PICK p1, p2, p3, a1, a2, a3 :
          /\ p1 = Backpatch(c, T, l) /\ p2 = Backpatch(p1, once, l) /\ p3 = Backpatch(p2, twice, l1)
          /\ a1 = new3 \ T /\ a2 = a1 \ once /\ a3 = a2 \ twice
  OBVIOUS
<1>20. Written(p1, a1) /\ Grows(c, p1) /\ LabelsOf(p1) = LabelsOf(c)
  BY <1>1, <1>15, <1>19, PatchWritten
<1>21. Written(p2, a2) /\ Grows(p1, p2) /\ LabelsOf(p2) = LabelsOf(c)
  <2>1. l \in LabelsOf(p1)
    BY <1>15, <1>20
  <2>2. Written(p2, a2) /\ Grows(p1, p2) /\ LabelsOf(p2) = LabelsOf(p1)
    BY <1>1, <1>19, <1>20, <2>1, PatchWritten
  <2>3. QED BY <1>20, <2>2
<1>22. Written(p3, a3) /\ Coded(p3) /\ Grows(p2, p3)
  <2>1. l1 \in LabelsOf(p2)
    BY <1>18, <1>21
  <2>2. QED BY <1>1, <1>19, <1>21, <2>1, PatchWritten
<1>23. Grows(c, p3) /\ Grows(s, p3) /\ Grows(d, p3)
  <2>1. Grows(c, p2)
    BY <1>20, <1>21, GrowsOn
  <2>2. Grows(c, p3)
    BY <1>22, <2>1, GrowsOn
  <2>3. QED BY <1>16, <2>2, GrowsOn
<1>24. PICK f : f = [Frame("for3", id) EXCEPT !.false = F, !.l1 = l2]
  OBVIOUS
<1>25a. PICK k \in Compound, no \in Nat : k = "for3" /\ no = 0
  BY DEF Compound, Loops
<1>25. PICK none : k = "for3" /\ no = 0 /\ none = {}
  BY <1>25a DEF Compound, Loops
<1>26. Made(f, k, id, none, F, l2, no, no)
  BY <1>24, <1>25 DEF Made, Frame, Keys, NoLabel
<1>27. /\ F \in SUBSET JumpsOf(p3) /\ none \in SUBSET JumpsOf(p3) /\ l2 \in Patches(p3) /\ no = NoLabel
  BY <1>9, <1>18, <1>23, <1>25 DEF Grows, Patches, NoLabel
<1>28. Framed(f, p3) /\ Ownless(f) /\ f.st = Null /\ f.kind = k /\ f.id = id /\ Holds(f, none, F, no)
  BY <1>9, <1>25, <1>26, <1>27, MadeFrame
<1>29. PICK x2, x3, a, b, e : /\ x2 = s.instrs /\ x3 = c.instrs /\ a = h.point
                              /\ b = (step :> x2) /\ e = (body :> x3)
  OBVIOUS
<1>30. PICK ab, add : ab = a @@ b /\ add = ab @@ e
  OBVIOUS
<1>31. Points(add, p3)
  <2>1. PICK r1 \in Roles \ {"label", "case"}, r2 \in Roles \ {"label", "case"} : r1 = "step" /\ r2 = "body"
    BY DEF Roles
  <2>2. step = <<r1, id>> /\ body = <<r2, id>>
    BY <1>5, <2>1
  <2>3. Points(b, p3) /\ Points(e, p3)
    BY <1>23, <1>29, <2>2, PointsOne
  <2>4. Points(a, p3)
    BY <1>3, <1>4, <1>23, <1>29, PointsOn DEF HeadIs
  <2>5. Points(ab, p3)
    BY <1>30, <2>3, <2>4, PointsTwo
  <2>6. QED BY <1>30, <2>3, <2>5, PointsTwo
<1>32. Open(p3, f, add) /\ UNCHANGED globals /\ Blame("lost", e1 # "plain" \/ e3 # "plain")
  BY <1>2, <1>4, <1>5, <1>6, <1>8, <1>10, <1>12, <1>14, <1>17, <1>19, <1>24, <1>29, <1>30 DEF For3
<1>33. fault' = "none" => a3 \subseteq HeldBy(f) /\ f.kind # "switch"
  <2>1. ASSUME fault' = "none" PROVE lost = {} /\ v3.true = {} /\ v3.false = {}
    BY <1>1, <1>3, <1>11, <1>32, <2>1 DEF Blame
  <2>2. a3 \subseteq lost \cup F \cup v3.true \cup v3.false
    BY <1>3, <1>6, <1>10, <1>12, <1>17, <1>19 DEF HeadIs, WithLists, WithLast
  <2>3. F \subseteq HeldBy(f) /\ f.kind # "switch"
    BY <1>25, <1>28 DEF Holds
  <2>4. QED BY <2>1, <2>2, <2>3
<1>34. QED BY <1>1, <1>2, <1>22, <1>25, <1>28, <1>31, <1>32, <1>33, OpenAs DEF Id

LEMMA SwitchStep == ASSUME IInv, NEW e \in Exprs, Switch(e) PROVE IInv'
<1>1. Going /\ ~value.ready /\ statements < MaxStatements /\ fault = "none" /\ statements + 1 \in Nat
  BY ExpectingIs DEF Switch
<1>2a. PICK id \in Nat : id = Id
  BY <1>1 DEF Id
<1>2. PICK o : id = Id /\ o = Opened
  BY <1>2a, <1>1 DEF Id
<1>3. Written(o, {})
  BY <1>1, <1>2, OpenedWritten
<1>4. PICK w \in Roles \X Nat : w = <<"dispatch", id>>
  BY DEF Roles
<1>5. PICK v, lost : v = Condition(o, e, w, w) /\ WithLists(lost, {}, v)
  BY DEF WithLists
<1>6. Written(v.c, lost) /\ (e = "plain" => v.true = {} /\ v.false = {})
  BY <1>1, <1>3, <1>4, <1>5, ConditionWritten
<1>7. PICK x : x = Exec(v.c)
  OBVIOUS
<1>8. Written(x, lost)
  BY <1>1, <1>6, <1>7, ExecWritten
<1>9. PICK c, g, new : c = NewGoto(x, w) /\ g = LastGoto(c) /\ WithLast(new, lost, c)
  BY DEF WithLast
<1>10. Written(c, new) /\ Coded(c) /\ g \in JumpsOf(c)
  BY <1>1, <1>8, <1>9, GotoWritten
<1>11. PICK f : f = [Frame("switch", id) EXCEPT !.goto1 = g]
  OBVIOUS
<1>12a. PICK k \in Compound, no \in Nat : k = "switch" /\ no = 0
  BY DEF Compound
<1>12. PICK none : k = "switch" /\ no = 0 /\ none = {}
  BY <1>12a DEF Compound
<1>13. Made(f, k, id, none, none, no, no, g)
  BY <1>11, <1>12 DEF Made, Frame, Keys, NoLabel
<1>14. none \in SUBSET JumpsOf(c) /\ no \in Patches(c) /\ g \in JumpsOf(c) \cup {0}
  BY <1>10, <1>12 DEF Patches, NoLabel
<1>15. Framed(f, c) /\ Ownless(f) /\ f.st = Null /\ f.kind = k /\ f.id = id /\ Holds(f, none, none, g)
  BY <1>12, <1>13, <1>14, MadeFrame
<1>16. PICK add : add = <<>>
  OBVIOUS
<1>17. Points(add, c)
  BY <1>16, PointsNone
<1>18. /\ Open(c, f, add) /\ UNCHANGED globals
       /\ Blame(IF e = "plain" THEN "nested" ELSE "lost",
                e # "plain" \/ \E i \in DOMAIN stack : \E y \in DOMAIN stack[i].own : stack[i].own[y] # 0)
  BY <1>2, <1>4, <1>5, <1>7, <1>9, <1>11, <1>16 DEF Switch
<1>19. ASSUME fault' = "none" PROVE new \subseteq HeldBy(f) /\ \A i \in 1 .. Len(stack) : Ownless(stack[i])
  <2>1. /\ e = "plain"
        /\ \A i \in DOMAIN stack : \A y \in DOMAIN stack[i].own : stack[i].own[y] = 0
    BY <1>1, <1>18, <1>19 DEF Blame
  <2>2. stack \in Seq(FrameType)
    BY <1>1 DEF Going, Framing
  <2>3. \A i \in 1 .. Len(stack) : i \in DOMAIN stack /\ DOMAIN stack[i].own = Keys
    <3>1. \A fr \in FrameType : fr.own \in [Keys -> Nat]
      BY DEF FrameType
    <3>2. \A fr \in FrameType : DOMAIN fr.own = Keys
      BY <3>1
    <3>3. \A i \in 1 .. Len(stack) : i \in DOMAIN stack /\ stack[i] \in FrameType
      BY <2>2
    <3>4. QED BY <3>2, <3>3
  <2>4. \A i \in 1 .. Len(stack) : Ownless(stack[i])
    BY <2>1, <2>3 DEF Ownless
  <2>5. new \subseteq HeldBy(f)
    BY <1>5, <1>6, <1>9, <1>15, <2>1 DEF WithLists, WithLast, Holds
  <2>6. QED BY <2>4, <2>5
<1>20. QED BY <1>1, <1>2, <1>10, <1>12, <1>15, <1>17, <1>18, <1>19, OpenAs DEF Id

LEMMA LabelStatementStep == ASSUME IInv, NEW n \in Names, LabelStatement(n) PROVE IInv'
<1>1. Going /\ ~value.ready /\ statements < MaxStatements /\ fault = "none" /\ statements + 1 \in Nat
  BY ExpectingIs DEF LabelStatement
<1>2a. PICK id \in Nat : id = Id
  BY <1>1 DEF Id
<1>2. PICK o : id = Id /\ o = Opened
  BY <1>2a, <1>1 DEF Id
<1>3. Written(o, {})
  BY <1>1, <1>2, OpenedWritten
<1>4. PICK c, l : c = NewLabel(o) /\ l = LastLabel(c)
  OBVIOUS
<1>5. Written(c, {}) /\ Coded(c) /\ l \in LabelsOf(c) /\ l # NoLabel
  BY <1>1, <1>3, <1>4, LabelWritten
<1>6. PICK f : f = [Frame("label", id) EXCEPT !.l1 = l, !.l2 = n]
  OBVIOUS
<1>7a. PICK k \in Compound, no \in Nat : k = "label" /\ no = 0
  BY DEF Compound
<1>7. PICK none : k = "label" /\ no = 0 /\ none = {}
  BY <1>7a DEF Compound
<1>8. Made(f, k, id, none, none, l, n, no)
  BY <1>6, <1>7 DEF Made, Frame, Keys, NoLabel
<1>9. l \in Patches(c) /\ none \in SUBSET JumpsOf(c) /\ n \in Nat
  BY <1>5, <1>7, StatementsAssumption DEF Patches
<1>10. Framed(f, c) /\ Ownless(f) /\ f.st = Null /\ f.kind = k /\ f.id = id /\ f.l2 = n
  BY <1>5, <1>7, <1>8, <1>9, MadeFrame
<1>11. PICK p, x, add : p = <<"label", n>> /\ x = c.instrs /\ add = (p :> x)
  OBVIOUS
<1>12. Placed(add, c) /\ DOMAIN add = {p}
  <2>1. p \in Roles \X Nat /\ x \in Nat /\ x <= c.instrs
    BY <1>5, <1>9, <1>11 DEF Roles, Coded, CodeType
  <2>2. QED BY <1>5, <1>11, <2>1, PlacedSingle
<1>13. Open(c, f, add) /\ UNCHANGED globals
  BY <1>2, <1>4, <1>6, <1>11 DEF LabelStatement
<1>14. CaseLess(add) /\ DOMAIN add = {<<"label", f.l2>>}
  BY <1>10, <1>11, <1>12 DEF CaseLess
<1>15. /\ Grows(ta_code, c) /\ f.id = statements + 1 /\ f.kind = "label"
       /\ f.kind \in {"case", "default"} => Inside({"switch"}, stack, Len(stack))
       /\ fault' = "none" =>
            /\ fault = "none" /\ TopSettled(c) /\ CaseLess(add)
            /\ Unpatched(c) \subseteq HeldIn(stack, Len(stack)) \cup HeldBy(f) \cup Waiting(idGoto)
            /\ f.kind # "switch" \/ \A i \in 1 .. Len(stack) : Ownless(stack[i])
  BY <1>1, <1>2, <1>5, <1>7, <1>10, <1>14 DEF Written, Id
<1>16. QED BY <1>1, <1>10, <1>12, <1>13, <1>14, <1>15, OpenStep

LEMMA GotoStatementStep == ASSUME IInv, NEW n \in Names, GotoStatement(n) PROVE IInv'
<1>1. Going /\ ~value.ready /\ statements < MaxStatements /\ fault = "none"
  BY ExpectingIs DEF GotoStatement
<1>2. PICK o : o = Opened
  OBVIOUS
<1>3. Written(o, {}) /\ Coded(o)
  BY <1>1, <1>2, OpenedWritten
<1>4. Named(stack, ta_code, idLabel, idGoto, place)
  BY DEF IInv, Shaped
<1>5. PICK p \in Roles \X Nat, l \in Targets(o) : p = <<"label", n>> /\ l = idLabel[n]
  BY <1>3, <1>4, StatementsAssumption DEF Roles, Named, Targets, Written, Grows
<1>6. PICK c, g : c = NewGotoTo(o, p, l) /\ g = LastGoto(c)
  OBVIOUS
<1>7. /\ Grows(o, c) /\ JumpsOf(c) = JumpsOf(o) \cup {g} /\ g \in Nat
      /\ Unpatched(c) = Unpatched(o) \cup (IF l = NoLabel THEN {g} ELSE {})
  BY <1>3, <1>6, NewGotoToGrows
<1>8. PICK new : new = IF l = NoLabel THEN {g} ELSE {}
  OBVIOUS
<1>9. Written(c, new)
  <2>1. new \in SUBSET JumpsOf(c) /\ Unpatched(c) \subseteq (Unpatched(o) \ {}) \cup new
    BY <1>7, <1>8
  <2>2. QED BY <1>1, <1>3, <1>7, <2>1, WrittenOn
<1>10. PICK w : w = [idGoto EXCEPT ![n] = idGoto[n] \cup new]
  OBVIOUS
<1>11. w \in [Names -> SUBSET Nat] /\ \A m \in Names : w[m] = IF m = n THEN idGoto[n] \cup new ELSE idGoto[m]
  <2>1. idGoto \in [Names -> SUBSET Nat] /\ new \in SUBSET Nat
    BY <1>4, <1>7, <1>8 DEF Named
  <2>2. QED BY <1>10, <2>1
<1>12. Named(stack, c, idLabel, w, place)
  <2>1. Grows(ta_code, c) /\ new \subseteq JumpsOf(c)
    BY <1>9 DEF Written
  <2>2. Targets(ta_code) \subseteq Targets(c) /\ JumpsOf(ta_code) \subseteq JumpsOf(c)
    BY <2>1 DEF Grows, Targets
  <2>3. ASSUME NEW m \in Names
        PROVE  /\ idLabel[m] \in Targets(c) /\ w[m] \subseteq JumpsOf(c)
               /\ idLabel[m] # NoLabel => w[m] = {}
               /\ <<"label", m>> \in DOMAIN place => idLabel[m] # NoLabel \/ Labelling(stack, m)
    <3>1. /\ idLabel[m] \in Targets(ta_code) /\ idGoto[m] \subseteq JumpsOf(ta_code)
          /\ idLabel[m] # NoLabel => idGoto[m] = {}
          /\ <<"label", m>> \in DOMAIN place => idLabel[m] # NoLabel \/ Labelling(stack, m)
      BY <1>4 DEF Named
    <3>2. w[m] \subseteq idGoto[m] \cup new /\ (m # n \/ l # NoLabel => w[m] = idGoto[m])
      BY <1>8, <1>11
    <3>3. QED BY <1>5, <2>1, <2>2, <3>1, <3>2
  <2>4. QED BY <1>4, <1>11, <2>3 DEF Named
<1>13. PICK st : st = Stmt(NoLists)
  OBVIOUS
<1>14. StmtOK(st, c) /\ Leaving(st, stack, Len(stack))
  <2>1. PICK ls : ls = NoLists
    OBVIOUS
  <2>2. ls \in [Lists -> SUBSET JumpsOf(c)]
    BY <2>1 DEF NoLists
  <2>3. StmtOK(st, c) /\ st.lists = ls
    BY <1>13, <2>1, <2>2, StmtIs
  <2>4. QED BY <2>1, <2>3, NoLeaving DEF NoLists, Lists
<1>15. /\ Simple(c, st) /\ UNCHANGED <<idLabel, lblSwitch, tmpSwitch>>
       /\ idGoto' = [idGoto EXCEPT ![n] = IF idLabel[n] = NoLabel THEN @ \cup {g} ELSE @]
       /\ Blame("stale", idLabel[n] = Elsewhere)
  BY <1>2, <1>5, <1>6, <1>13 DEF GotoStatement
<1>16. idGoto' = w
  <2>1. idGoto \in [Names -> SUBSET Nat]
    BY <1>4 DEF Named
  <2>2. idGoto' = [m \in Names |-> IF m = n THEN idGoto[n] \cup new ELSE idGoto[m]]
    BY <1>5, <1>8, <1>15, <2>1
  <2>3. w = [m \in Names |-> IF m = n THEN idGoto[n] \cup new ELSE idGoto[m]]
    BY <1>10, <2>1
  <2>4. QED BY <2>2, <2>3
<1>17. fault' = "none" => fault = "none" /\ TopSettled(c) /\ AllHeld(c, stack, st, w)
  <2>1. Waiting(idGoto) \cup new \subseteq Waiting(w)
    BY <1>11 DEF Waiting
  <2>2. Unpatched(c) \subseteq HeldIn(stack, Len(stack)) \cup Waiting(idGoto) \cup new /\ TopSettled(c)
    BY <1>9 DEF Written
  <2>3. QED BY <1>1, <2>1, <2>2 DEF AllHeld
<1>18. Grows(ta_code, c)
  BY <1>9 DEF Written
<1>19. QED BY <1>1, <1>12, <1>14, <1>15, <1>16, <1>17, <1>18, SimpleStep

\* The frame of a switch, and the stack, with the case n for k.
OwnSet(f, k, n, g)    == g = [f EXCEPT !.own[k] = n]
OwnAt(s, i, k, n, t)  == t = [s EXCEPT ![i].own[k] = n]

SameBut(f, k, n, g) ==
    /\ g.kind = f.kind /\ g.id = f.id /\ g.st = f.st /\ g.l2 = f.l2 /\ HeldBy(g) = HeldBy(f)
    /\ \A x \in Keys : g.own[x] = IF x = k THEN n ELSE f.own[x]

Owns(s, t, i, k, n) ==
    /\ t \in Seq(FrameType) /\ Len(t) = Len(s) /\ Len(s) \in Nat
    /\ \A j \in 1 .. Len(s) :
          /\ t[j].kind = s[j].kind /\ t[j].id = s[j].id /\ t[j].st = s[j].st /\ t[j].l2 = s[j].l2
          /\ HeldBy(t[j]) = HeldBy(s[j])
          /\ \A x \in Keys : t[j].own[x] = IF j = i /\ x = k THEN n ELSE s[j].own[x]

LEMMA OwnFrame ==
    ASSUME NEW f, NEW c, Framed(f, c), f.kind = "switch", NEW k \in Keys, NEW n \in Nat,
           NEW g, OwnSet(f, k, n, g)
    PROVE  Framed(g, c) /\ SameBut(f, k, n, g)
<1>1. f \in FrameType
  BY DEF Framed
<1>2. f = [kind |-> f.kind, id |-> f.id, true |-> f.true, false |-> f.false, l1 |-> f.l1, l2 |-> f.l2,
           goto1 |-> f.goto1, goto2 |-> f.goto2, st |-> f.st, seen |-> f.seen, own |-> f.own]
  BY <1>1 DEF FrameType
<1>3. f.own \in [Keys -> Nat]
  BY <1>1 DEF FrameType
<1>4. PICK own : own = [f.own EXCEPT ![k] = n]
  OBVIOUS
<1>5. own \in [Keys -> Nat] /\ \A x \in Keys : own[x] = IF x = k THEN n ELSE f.own[x]
  BY <1>3, <1>4
<1>6. g = [kind |-> f.kind, id |-> f.id, true |-> f.true, false |-> f.false, l1 |-> f.l1, l2 |-> f.l2,
           goto1 |-> f.goto1, goto2 |-> f.goto2, st |-> f.st, seen |-> f.seen, own |-> own]
  BY <1>2, <1>4 DEF OwnSet
<1>7. /\ g.kind = f.kind /\ g.id = f.id /\ g.true = f.true /\ g.false = f.false /\ g.l1 = f.l1 /\ g.l2 = f.l2
      /\ g.goto1 = f.goto1 /\ g.goto2 = f.goto2 /\ g.st = f.st /\ g.seen = f.seen /\ g.own = own
  BY <1>6
<1>8. g \in FrameType
  <2>1. /\ f.kind \in Compound \cup {"else"} /\ f.id \in Nat /\ f.true \in SUBSET Nat /\ f.false \in SUBSET Nat
        /\ f.l1 \in Nat /\ f.l2 \in Nat /\ f.goto1 \in Nat /\ f.goto2 \in Nat /\ f.st \in StmtType
        /\ f.seen \in BOOLEAN
    BY <1>1 DEF FrameType
  <2>2. PICK kind, K : kind = f.kind /\ K = Compound \cup {"else"} /\ kind \in K
    BY <2>1
  <2>3. g = [kind |-> kind, id |-> f.id, true |-> f.true, false |-> f.false, l1 |-> f.l1, l2 |-> f.l2,
             goto1 |-> f.goto1, goto2 |-> f.goto2, st |-> f.st, seen |-> f.seen, own |-> own]
    BY <1>6, <2>2
  <2>4. g \in [kind : K, id : Nat, true : SUBSET Nat, false : SUBSET Nat, l1 : Nat, l2 : Nat,
               goto1 : Nat, goto2 : Nat, st : StmtType, seen : BOOLEAN, own : [Keys -> Nat]]
    BY <1>5, <2>1, <2>2, <2>3
  <2>5. QED BY <2>2, <2>4 DEF FrameType
<1>9. HeldBy(g) = HeldBy(f)
  BY <1>7 DEF HeldBy
<1>10. Framed(g, c)
  BY <1>7, <1>8 DEF Framed
<1>11. QED BY <1>5, <1>7, <1>9, <1>10 DEF SameBut

LEMMA OwnStack ==
    ASSUME NEW s, NEW c, NEW m \in Nat, Framing(s, c, m), NEW i \in 1 .. Len(s), s[i].kind = "switch",
           NEW k \in Keys, NEW n \in Nat, NEW t, OwnAt(s, i, k, n, t)
    PROVE  Framing(t, c, m) /\ Owns(s, t, i, k, n)
<1>1. s \in Seq(FrameType) /\ Framed(s[i], c) /\ Len(s) \in Nat
  BY DEF Framing
<1>2. PICK f, g : f = s[i] /\ OwnSet(f, k, n, g)
  BY DEF OwnSet
<1>3. Framed(g, c) /\ SameBut(f, k, n, g)
  BY <1>1, <1>2, OwnFrame
<1>4. t = [s EXCEPT ![i] = g]
  BY <1>2 DEF OwnAt, OwnSet
<1>5. g \in FrameType
  BY <1>3 DEF Framed
<1>6. t \in Seq(FrameType) /\ Len(t) = Len(s) /\ \A j \in 1 .. Len(s) : t[j] = IF j = i THEN g ELSE s[j]
  BY <1>1, <1>4, <1>5
<1>7. \A j \in 1 .. Len(s) :
          /\ t[j].kind = s[j].kind /\ t[j].id = s[j].id /\ t[j].st = s[j].st /\ t[j].l2 = s[j].l2
          /\ HeldBy(t[j]) = HeldBy(s[j])
          /\ \A x \in Keys : t[j].own[x] = IF j = i /\ x = k THEN n ELSE s[j].own[x]
  BY <1>2, <1>3, <1>6 DEF SameBut
<1>8. Framing(t, c, m)
  BY <1>3, <1>2, <1>6 DEF Framing, SameBut
<1>9. QED BY <1>1, <1>6, <1>7, <1>8 DEF Owns

LEMMA OwnsSame ==
    ASSUME NEW s, NEW t, NEW i, NEW k, NEW n, Owns(s, t, i, k, n)
    PROVE  /\ \A kinds : \A m \in 0 .. Len(s) : Inside(kinds, t, m) <=> Inside(kinds, s, m)
           /\ Nested(s) => Nested(t)
           /\ \A x : Labelling(s, x) => Labelling(t, x)
           /\ HeldIn(t, Len(t)) = HeldIn(s, Len(s))
           /\ Switching(s, t)
           /\ \A c : \A m \in 0 .. Len(s) : Settled(s, m, c) => Settled(t, m, c)
<1>1. /\ Len(t) = Len(s) /\ Len(s) \in Nat
      /\ \A j \in 1 .. Len(s) : /\ t[j].kind = s[j].kind /\ t[j].st = s[j].st /\ t[j].l2 = s[j].l2
                                /\ HeldBy(t[j]) = HeldBy(s[j])
  BY DEF Owns
<1>2. ASSUME NEW kinds, NEW m \in 0 .. Len(s) PROVE Inside(kinds, t, m) <=> Inside(kinds, s, m)
  BY <1>1 DEF Inside
<1>3. ASSUME Nested(s), NEW j \in 1 .. Len(t)
      PROVE  Leaving(t[j].st, t, j - 1) /\ (t[j].kind \in {"case", "default"} => Inside({"switch"}, t, j - 1))
  <2>1. j \in 1 .. Len(s) /\ j - 1 \in 0 .. Len(s) /\ t[j].st = s[j].st /\ t[j].kind = s[j].kind
    BY <1>1
  <2>2. Leaving(s[j].st, s, j - 1) /\ (s[j].kind \in {"case", "default"} => Inside({"switch"}, s, j - 1))
    BY <1>3, <2>1 DEF Nested
  <2>3. QED BY <1>2, <2>1, <2>2 DEF Leaving
<1>4. Nested(s) => Nested(t)
  BY <1>3 DEF Nested
<1>5. HeldIn(t, Len(t)) = HeldIn(s, Len(s))
  BY <1>1 DEF HeldIn
<1>6. Switching(s, t)
  BY <1>1, <1>2 DEF Switching
<1>7. \A x : Labelling(s, x) => Labelling(t, x)
  BY <1>1 DEF Labelling
<1>8. \A c : \A m \in 0 .. Len(s) : Settled(s, m, c) => Settled(t, m, c)
  BY <1>1 DEF Settled
<1>9. QED BY <1>2, <1>4, <1>5, <1>6, <1>7, <1>8

\* The new case waits for its test; the others still do.
LEMMA CaseAdded ==
    ASSUME NEW s, NEW c, NEW points, CasesKept(s, c, points), NEW d, Grows(c, d),
           NEW i \in 1 .. Len(s), NEW k \in Keys, s[i].own[k] = 0, NEW n \in Nat, n # 0,
           NEW o, Owns(s, o, i, k, n), NEW f, NEW t, Pushes(o, f, t),
           NEW p, p = <<"case", n>>, NEW add, DOMAIN add = {p}, NEW q, Adds(points, add, q)
    PROVE  CasesKept(t, d, q)
<1>1. ASSUME NEW r \in DOMAIN q, r[1] = "case" PROVE r[2] # 0 /\ (Jumped(d, r) \/ Pending(r, t))
  <2>0. /\ \A j \in 1 .. Len(s) : j \in 1 .. Len(t) /\ t[j] = o[j]
        /\ \A j \in 1 .. Len(s) : \A x \in Keys : o[j].own[x] = IF j = i /\ x = k THEN n ELSE s[j].own[x]
    BY DEF Owns, Pushes
  <2>1. CASE r \in DOMAIN points
    <3>1. r[2] # 0 /\ (Jumped(c, r) \/ Pending(r, s))
      BY <1>1, <2>1 DEF CasesKept
    <3>2. ASSUME Pending(r, s) PROVE Pending(r, t)
      <4>1. PICK j \in 1 .. Len(s), x \in Keys : s[j].own[x] = r[2]
        BY <3>2 DEF Pending
      <4>2. ~(j = i /\ x = k)
        BY <3>1, <4>1
      <4>3. o[j].own[x] = r[2]
        BY <2>0, <4>1, <4>2
      <4>4. j \in 1 .. Len(t) /\ t[j].own[x] = r[2]
        BY <2>0, <4>3
      <4>5. QED BY <4>4 DEF Pending
    <3>3. QED BY <3>1, <3>2, StillJumped
  <2>2. CASE r = p
    <3>1. r[2] = n
      BY <2>2
    <3>2. i \in 1 .. Len(t) /\ t[i].own[k] = n
      BY <2>0
    <3>3. QED BY <3>1, <3>2 DEF Pending
  <2>3. QED BY <2>1, <2>2 DEF Adds
<1>2. QED BY <1>1 DEF CasesKept

LEMMA OwnAdded ==
    ASSUME NEW s, NEW lbl, OwnCases(s, lbl), NEW i \in 1 .. Len(s), NEW k \in Keys, NEW n,
           s[i].kind = "switch", \A j \in 1 .. Len(s) : s[j].kind \in {"switch"} => j <= i,
           NEW o, Owns(s, o, i, k, n), NEW f, NEW t, Pushes(o, f, t), Ownless(f),
           f.kind \in {"case", "default"}, f.l2 = k
    PROVE  OwnCases(t, lbl)
<1>0. /\ Len(o) = Len(s) /\ Len(s) \in Nat /\ Len(t) = Len(s) + 1 /\ t[Len(t)] = f
      /\ \A j \in 1 .. Len(s) : j \in 1 .. Len(t) /\ t[j] = o[j]
      /\ \A j \in 1 .. Len(t) : j = Len(t) \/ j \in 1 .. Len(s)
      /\ \A j \in 1 .. Len(s) : o[j].kind = s[j].kind /\ o[j].l2 = s[j].l2
      /\ \A j \in 1 .. Len(s) : \A x \in Keys : o[j].own[x] = IF j = i /\ x = k THEN n ELSE s[j].own[x]
  BY DEF Owns, Pushes
<1>1. ASSUME NEW j \in 1 .. Len(t), NEW x \in Keys, t[j].own[x] # 0
      PROVE  /\ \A m \in 1 .. Len(t) : j < m => t[m].kind # "switch"
             /\ lbl[x] # NoLabel \/ CaseOpen(t, j, x)
  <2>1. j \in 1 .. Len(s)
    BY <1>0, <1>1 DEF Ownless
  <2>2. CASE j = i /\ x = k
    <3>1. \A m \in 1 .. Len(t) : j < m => t[m].kind # "switch"
      BY <1>0, <2>2
    <3>2. Len(t) \in 1 .. Len(t) /\ j < Len(t)
      BY <1>0, <2>1
    <3>3. CaseOpen(t, j, x)
      BY <1>0, <2>2, <3>2 DEF CaseOpen
    <3>4. QED BY <3>1, <3>3
  <2>3. CASE ~(j = i /\ x = k)
    <3>1. s[j].own[x] # 0
      BY <1>0, <1>1, <2>1, <2>3
    <3>2. /\ \A m \in 1 .. Len(s) : j < m => s[m].kind # "switch"
          /\ lbl[x] # NoLabel \/ CaseOpen(s, j, x)
      BY <2>1, <3>1 DEF OwnCases
    <3>3. \A m \in 1 .. Len(t) : j < m => t[m].kind # "switch"
      BY <1>0, <3>2
    <3>4. CaseOpen(s, j, x) => CaseOpen(t, j, x)
      BY <1>0 DEF CaseOpen
    <3>5. QED BY <3>2, <3>3, <3>4
  <2>4. QED BY <2>2, <2>3
<1>2. QED BY <1>1 DEF OwnCases

LEMMA CaseFramed ==
    ASSUME NEW kind \in Compound, NEW k \in Keys, kind = "case" \/ (kind = "default" /\ k = Default), NEW id \in Nat,
           NEW c, NEW l \in LabelsOf(c), NEW none, none = {}, NEW no \in Nat, no = 0,
           NEW f, Made(f, kind, id, none, none, l, k, no)
    PROVE  Framed(f, c) /\ Ownless(f) /\ f.st = Null /\ f.kind = kind /\ f.id = id /\ f.l2 = k
<1>1. /\ l \in Patches(c) /\ l # NoLabel /\ none \in SUBSET JumpsOf(c) /\ k \in Nat /\ no \in JumpsOf(c) \cup {0}
      /\ kind \notin {"while", "for", "for3", "switch", "label"} /\ kind \in {"case", "default"}
      /\ (kind = "default" => k = Default)
  BY StatementsAssumption DEF Patches, Keys, Default, LabelsOf, NoLabel
<1>2. QED BY <1>1, MadeFrame

LEMMA CaseLabelStep ==
    ASSUME IInv, NEW kind \in {"case", "default"}, NEW k \in Keys, kind = "default" => k = Default,
           CaseLabel(kind, k)
    PROVE  IInv'
<1>1. Going /\ ~value.ready /\ statements < MaxStatements /\ fault = "none" /\ statements + 1 \in Nat
  BY ExpectingIs DEF CaseLabel
<1>2a. PICK id \in Nat : id = statements + 1
  BY <1>1
<1>2. PICK o : id = statements + 1 /\ o = Opened
  BY <1>2a, <1>1
<1>3. Written(o, {}) /\ statements \in Nat /\ id # 0
  BY <1>1, <1>2, OpenedWritten DEF IInv
<1>4. PICK c, l : c = NewLabel(o) /\ l = LastLabel(c)
  OBVIOUS
<1>5. Written(c, {}) /\ Coded(c) /\ l \in LabelsOf(c) /\ l # NoLabel
  BY <1>1, <1>3, <1>4, LabelWritten
<1>6. PICK kinds, i : kinds = {"switch"} /\ i = Innermost(kinds)
  OBVIOUS
<1>7. /\ i # 0 /\ stack[i].own[k] = 0 /\ ta_code' = c /\ statements' = id
      /\ stack' = Append([stack EXCEPT ![i].own[k] = id], [Frame(kind, id) EXCEPT !.l1 = l, !.l2 = k])
      /\ place' = place @@ (<<"case", id>> :> c.instrs)
      /\ UNCHANGED <<value, functions, bound, phase, globals, fault>>
  BY <1>2, <1>4, <1>6 DEF CaseLabel, Id
<1>8. /\ i \in 1 .. Len(stack) /\ stack[i].kind \in kinds
      /\ \A j \in 1 .. Len(stack) : stack[j].kind \in kinds => j <= i
  BY <1>1, <1>6, <1>7, InnermostOpen
<1>9. /\ stack[i].kind = "switch" /\ \A j \in 1 .. Len(stack) : stack[j].kind \in {"switch"} => j <= i
  BY <1>6, <1>8
<1>10. PICK s : OwnAt(stack, i, k, id, s)
  BY DEF OwnAt
<1>11. Framing(stack, c, id)
  BY <1>1, <1>2, <1>3, <1>5, FramingGrows DEF Going, Written
<1>12. Framing(s, c, id) /\ Owns(stack, s, i, k, id)
  BY <1>8, <1>9, <1>10, <1>11, OwnStack
<1>13. PICK f : f = [Frame(kind, id) EXCEPT !.l1 = l, !.l2 = k]
  OBVIOUS
<1>14a. PICK no \in Nat : no = 0
  OBVIOUS
<1>14. PICK none : no = 0 /\ none = {}
  BY <1>14a
<1>15. Made(f, kind, id, none, none, l, k, no)
  BY <1>13, <1>14 DEF Made, Frame, Keys, NoLabel
<1>16. kind \in Compound /\ (kind = "case" \/ (kind = "default" /\ k = Default))
  BY DEF Compound
<1>17. Framed(f, c) /\ Ownless(f) /\ f.st = Null /\ f.kind = kind /\ f.id = id /\ f.l2 = k
  BY <1>2, <1>5, <1>14, <1>15, <1>16, CaseFramed
<1>18. PICK t : t = Append(s, f)
  OBVIOUS
<1>19. Framing(t, c, id) /\ Pushes(s, f, t)
  <2>1. f.id <= id
    BY <1>17
  <2>2. Framing(s, c, id) /\ Framed(f, c)
    BY <1>12, <1>17
  <2>3. QED BY <1>18, <2>1, <2>2, Pushing
<1>20. /\ Shaped(ta_code, stack, value.st, idLabel, idGoto, lblSwitch, tmpSwitch, place, statements)
       /\ value.st = Null /\ value \in [ready : BOOLEAN, st : StmtType]
       /\ MaxStatements \in Nat /\ bound \in Bounds
  BY <1>1, StatementsAssumption DEF Going, IInv, Parsing, MaxStatements
<1>21. /\ Nested(s) /\ HeldIn(s, Len(s)) = HeldIn(stack, Len(stack)) /\ Switching(stack, s)
       /\ Len(s) = Len(stack) /\ Len(stack) \in 0 .. Len(stack)
  <2>1. Nested(stack)
    BY <1>20 DEF Shaped
  <2>2. (Nested(stack) => Nested(s)) /\ HeldIn(s, Len(s)) = HeldIn(stack, Len(stack)) /\ Switching(stack, s)
    BY <1>12, OwnsSame
  <2>3. Len(s) = Len(stack) /\ Len(stack) \in 0 .. Len(stack)
    BY <1>12 DEF Owns
  <2>4. QED BY <2>1, <2>2, <2>3
<1>22. Inside(kinds, s, Len(s))
  <2>1. Inside(kinds, stack, Len(stack))
    BY <1>8 DEF Inside
  <2>2. QED BY <1>12, <1>21, <2>1, OwnsSame
<1>23. Nested(t)
  <2>1. Opens(f, s)
    BY <1>6, <1>17, <1>22 DEF Opens, Leaving, Null, NoLists, Lists
  <2>2. QED BY <1>19, <1>21, <2>1, NestedPushed
<1>24. Grows(ta_code, c) /\ Grows(c, c)
  BY <1>5, GrowsSelf DEF Written
<1>25. Switched(t, c, lblSwitch, tmpSwitch)
  <2>1. Switched(s, c, lblSwitch, tmpSwitch)
    BY <1>20, <1>21, <1>24, SwitchedMore DEF Shaped
  <2>2. QED BY <1>19, <1>24, <2>1, SwitchedMore, SwitchingPush
<1>26. PICK p, x : p = <<"case", id>> /\ x = c.instrs
  OBVIOUS
<1>27. PICK add, q : add = (p :> x) /\ q = place @@ add
  OBVIOUS
<1>28. Placed(add, c) /\ DOMAIN add = {p} /\ Adds(place, add, q)
  <2>1. p \in Roles \X Nat /\ x \in Nat /\ x <= c.instrs
    BY <1>5, <1>26 DEF Roles, Coded, CodeType
  <2>2. Placed(add, c) /\ DOMAIN add = {p}
    BY <1>5, <1>27, <2>1, PlacedSingle
  <2>3. QED BY <1>27, <2>2, Adding
<1>29. Placed(q, c)
  BY <1>20, <1>24, <1>28, PlacedMore DEF Shaped
<1>30. Named(t, c, idLabel, idGoto, q)
  <2>1. \A n \in Names : Labelling(stack, n) => Labelling(t, n)
    BY <1>12, <1>19, OwnsSame, LabellingMore
  <2>2. \A n \in Names : <<"label", n>> \in DOMAIN q => <<"label", n>> \in DOMAIN place
    BY <1>26, <1>28 DEF Adds
  <2>3. QED BY <1>20, <1>24, <2>1, <2>2, NamedMore DEF Shaped
<1>31. StmtOK(Null, c) /\ Leaving(Null, t, Len(t))
  BY NullOK DEF Leaving, NoLists, Lists
<1>32. Shaped(c, t, Null, idLabel, idGoto, lblSwitch, tmpSwitch, q, id)
  BY <1>5, <1>19, <1>23, <1>25, <1>29, <1>30, <1>31 DEF Shaped
<1>33. Right(c, t, Len(t) - 1, Null, idGoto, lblSwitch, q)
  <2>1. Settled(stack, Len(stack), c)
    BY <1>1, <1>5, AllSettled DEF Written
  <2>2. Settled(s, Len(stack), c)
    BY <1>12, <1>21, <2>1, OwnsSame
  <2>3. Settled(t, Len(t) - 1, c)
    BY <1>19, <1>21, <2>2 DEF Settled, Pushes
  <2>4. CasesKept(stack, ta_code, place) /\ OwnCases(stack, lblSwitch)
    BY <1>1 DEF Going, IInv, Right
  <2>5. CasesKept(t, c, q)
    <3>1. stack[i].own[k] = 0
      BY <1>7
    <3>2. QED BY <1>3, <1>8, <1>12, <1>19, <1>24, <1>26, <1>28, <2>4, <3>1, CaseAdded
  <2>6. OwnCases(t, lblSwitch)
    BY <1>8, <1>9, <1>12, <1>17, <1>19, <2>4, OwnAdded
  <2>7. HeldIn(t, Len(t)) = HeldIn(stack, Len(stack)) \cup HeldBy(f)
    BY <1>19, <1>21, HeldMore
  <2>8. AllHeld(c, t, Null, idGoto)
    BY <1>5, <2>7 DEF AllHeld, Written
  <2>9. QED BY <2>3, <2>5, <2>6, <2>8 DEF Right
<1>34. /\ stack' = t /\ place' = q /\ value' = value /\ phase' = "parse" /\ bound' = bound
       /\ idLabel' = idLabel /\ idGoto' = idGoto /\ lblSwitch' = lblSwitch /\ tmpSwitch' = tmpSwitch
       /\ fault' = fault
  BY <1>1, <1>7, <1>10, <1>13, <1>18, <1>26, <1>27 DEF OwnAt, globals, Going
<1>35. statements' \in Nat /\ statements' <= MaxStatements'
  <2>1. MaxStatements' = MaxStatements
    BY <1>34 DEF MaxStatements
  <2>2. QED BY <1>1, <1>2, <1>3, <1>7, <1>20, <2>1
<1>36. Parsing(t, value'.ready, Null)
  <2>1. /\ Len(stack) \in Nat /\ Len(stack) # 0 /\ 1 \in 1 .. Len(stack) /\ stack[1].kind = "block"
    BY <1>1 DEF Going
  <2>2. s[1].kind = "block" /\ 1 \in 1 .. Len(s)
    BY <1>12, <2>1 DEF Owns
  <2>3. t[1] = s[1] /\ t # <<>>
    BY <1>19, <2>2 DEF Pushes
  <2>4. QED BY <1>20, <1>34, <2>2, <2>3 DEF Parsing
<1>37. Depth(t, value'.ready) = Len(t) - 1
  BY <1>1, <1>34 DEF Depth
<1>38. QED BY <1>7, <1>20, <1>32, <1>33, <1>34, <1>35, <1>36, <1>37 DEF IInv

(***************************************************************************)
(* Statements after their substatement.                                    *)
(***************************************************************************)
LEMMA TopIs ==
    ASSUME Going
    PROVE  /\ Framing(Below, ta_code, statements) /\ Pushes(Below, Top, stack) /\ Framed(Top, ta_code)
           /\ Nested(Below) /\ Opens(Top, Below) /\ Coded(ta_code)
           /\ StmtOK(value.st, ta_code) /\ StmtOK(Top.st, ta_code)
<1>1. /\ stack # <<>> /\ Framing(stack, ta_code, statements) /\ Nested(stack)
      /\ Coded(ta_code) /\ StmtOK(value.st, ta_code)
  BY DEF Going, IInv, Shaped
<1>2. PICK t, f : t = Below /\ f = Top
  OBVIOUS
<1>3. Framing(t, ta_code, statements) /\ Pushes(t, f, stack) /\ Framed(f, ta_code)
  BY <1>1, <1>2, Popping DEF Below, Top
<1>4. Nested(t) /\ Opens(f, t)
  BY <1>1, <1>3, NestedPushed
<1>5. QED BY <1>1, <1>2, <1>3, <1>4 DEF Framed

\* The jumps that are open are held below, on top or by the statement inside.
LEMMA HeldNow ==
    ASSUME Going, fault = "none"
    PROVE  /\ Unpatched(ta_code) \subseteq HeldIn(Below, Len(Below)) \cup Top.true \cup Top.false \cup {Top.goto1}
                                           \cup ListsOf(Top.st) \cup ListsOf(value.st) \cup Waiting(idGoto)
           /\ value.ready /\ Top.kind = "block" => Top.st.lists["next"] \cap Unpatched(ta_code) = {}
           /\ 0 \notin Unpatched(ta_code)
<1>1. AllHeld(ta_code, stack, value.st, idGoto) /\ Settled(stack, Depth(stack, value.ready), ta_code)
  BY DEF Going, IInv, Right
<1>2. PICK t, f : t = Below /\ f = Top
  OBVIOUS
<1>3. Pushes(t, f, stack) /\ Framed(f, ta_code)
  BY <1>2, TopIs
<1>4. HeldIn(stack, Len(stack)) = HeldIn(t, Len(t)) \cup HeldBy(f)
  BY <1>3, HeldMore
<1>5. HeldBy(f) = f.true \cup f.false \cup {f.goto1, 0} \cup ListsOf(f.st)
  BY <1>3 DEF HeldBy, ListsOf, Framed
<1>6. 0 \notin Unpatched(ta_code)
  BY DEF Unpatched, JumpsOf
<1>7. ASSUME value.ready, Top.kind = "block" PROVE Top.st.lists["next"] \cap Unpatched(ta_code) = {}
  <2>1. Depth(stack, value.ready) = Len(stack) /\ Len(stack) \in 1 .. Len(stack)
    BY <1>7 DEF Depth, Going
  <2>2. QED BY <1>1, <1>7, <2>1 DEF Settled, Top
<1>8. QED BY <1>1, <1>2, <1>4, <1>5, <1>6, <1>7 DEF AllHeld

\* Where the statement inside may still go when the one on top is gone.
LEMMA ValueLeaves ==
    ASSUME Going
    PROVE  /\ Top.kind \notin Breakable => Leaving(value.st, Below, Len(Below))
           /\ Top.kind \notin Loops /\ value.st.lists["continue"] # {} => Inside(Loops, Below, Len(Below))
           /\ Leaving(Top.st, Below, Len(Below))
<1>1. PICK t, f : t = Below /\ f = Top
  OBVIOUS
<1>2. Pushes(t, f, stack) /\ Opens(f, t)
  BY <1>1, TopIs
<1>3. Leaving(value.st, stack, Len(stack))
  BY DEF Going, IInv, Shaped
<1>4. Inside(Loops, stack, Len(stack)) <=> Inside(Loops, t, Len(t)) \/ f.kind \in Loops
  BY <1>2, InsideMore
<1>5. Inside(Breakable, stack, Len(stack)) <=> Inside(Breakable, t, Len(t)) \/ f.kind \in Breakable
  BY <1>2, InsideMore
<1>6. Loops \subseteq Breakable
  BY DEF Breakable
<1>7. QED BY <1>1, <1>2, <1>3, <1>4, <1>5, <1>6 DEF Leaving, Opens

\* The statement on top takes in the one inside, and another one is expected.
LEMMA RetopStep ==
    ASSUME Going, NEW c, Grows(ta_code, c), NEW f, Framed(f, c), f.id = Top.id, Ownless(f),
           Top.kind \notin {"switch", "case", "default", "label"}, f.kind \notin {"switch", "case", "default", "label"},
           f.kind = "block" \/ Len(stack) > 1, Leaving(f.st, Below, Len(Below)),
           NEW s, s = Append(Below, f), stack' = s, ta_code' = c, value' = [ready |-> FALSE, st |-> Null],
           UNCHANGED globals, UNCHANGED <<statements, functions, bound, phase>>,
           NEW add, Points(add, c), NEW q, Adds(place, add, q), place' = q,
           fault' = "none" =>
               fault = "none" /\ Unpatched(c) \subseteq HeldIn(Below, Len(Below)) \cup HeldBy(f) \cup Waiting(idGoto)
    PROVE  IInv'
<1>1. PICK t, g : t = Below /\ g = Top
  OBVIOUS
<1>2. /\ Framing(t, ta_code, statements) /\ Pushes(t, g, stack) /\ Framed(g, ta_code) /\ Nested(t)
      /\ s = Append(t, f) /\ Leaving(f.st, t, Len(t))
  BY <1>1, TopIs
<1>3. /\ statements \in Nat /\ bound \in Bounds /\ statements <= MaxStatements
      /\ Shaped(ta_code, stack, value.st, idLabel, idGoto, lblSwitch, tmpSwitch, place, statements)
      /\ f.id <= statements
  <2>1. Top.id <= statements
    BY DEF Going, Framing, Top
  <2>2. QED BY <2>1 DEF Going, IInv
<1>4. Coded(c) /\ Grows(c, c)
  BY GrowsSelf DEF Grows
<1>5. Framing(t, c, statements)
  BY <1>2, <1>3, FramingGrows
<1>6. Framing(s, c, statements) /\ Pushes(t, f, s)
  BY <1>2, <1>3, <1>5, Pushing
<1>7. Nested(s)
  <2>1. Opens(f, t)
    BY <1>2 DEF Opens
  <2>2. QED BY <1>2, <1>6, <2>1, NestedPushed
<1>8. Switched(s, c, lblSwitch, tmpSwitch)
  <2>1. g.kind # "switch"
    BY <1>1
  <2>2. Switching(stack, t)
    BY <1>2, <2>1, SwitchingPop
  <2>3. Switched(t, c, lblSwitch, tmpSwitch)
    BY <1>3, <2>2, SwitchedMore DEF Shaped
  <2>4. QED BY <1>4, <1>6, <2>3, SwitchedMore, SwitchingPush
<1>9. Placed(q, c)
  BY <1>3, PlacedMore DEF Shaped, Points
<1>10. Named(s, c, idLabel, idGoto, q)
  <2>1. g.kind # "label"
    BY <1>1
  <2>2. \A n \in Names : Labelling(stack, n) => Labelling(s, n)
    BY <1>2, <1>6, <2>1, LabellingMore
  <2>3. \A n \in Names : <<"label", n>> \in DOMAIN q => <<"label", n>> \in DOMAIN place
    BY DEF Adds, Points, NoLabelPoint
  <2>4. QED BY <1>3, <2>2, <2>3, NamedMore DEF Shaped
<1>11. StmtOK(Null, c) /\ Leaving(Null, s, Len(s))
  BY NullOK DEF Leaving, NoLists, Lists
<1>12. Shaped(c, s, Null, idLabel, idGoto, lblSwitch, tmpSwitch, q, statements)
  BY <1>4, <1>6, <1>7, <1>8, <1>9, <1>10, <1>11 DEF Shaped
<1>13. ASSUME fault' = "none" PROVE Right(c, s, Len(s) - 1, Null, idGoto, lblSwitch, q)
  <2>1. fault = "none" /\ Unpatched(c) \subseteq HeldIn(t, Len(t)) \cup HeldBy(f) \cup Waiting(idGoto)
    BY <1>1, <1>13
  <2>2. PICK k \in Nat : k = Depth(stack, value.ready)
    <3>1. Len(stack) \in Nat /\ Len(stack) - 1 \in Nat
      BY DEF Going
    <3>2. Depth(stack, value.ready) = Len(stack) \/ Depth(stack, value.ready) = Len(stack) - 1
      BY DEF Depth
    <3>3. QED BY <3>1, <3>2
  <2>3. k <= Len(stack) /\ Len(t) <= k /\ Len(t) \in Nat
    BY <1>2, <2>2 DEF Depth, Going, Pushes
  <2>4. Settled(t, Len(t), c)
    <3>1. Settled(stack, k, ta_code) /\ Framing(stack, ta_code, statements)
      BY <2>1, <2>2 DEF Going, IInv, Right
    <3>2. \A i \in 1 .. Len(t) : t[i] = stack[i]
      BY <1>2 DEF Pushes
    <3>3. QED BY <2>3, <3>1, <3>2, SettledMore
  <2>5. Settled(s, Len(s) - 1, c)
    BY <1>6, <2>4 DEF Settled, Pushes
  <2>6. CasesKept(stack, ta_code, place) /\ OwnCases(stack, lblSwitch)
    BY <2>1 DEF Going, IInv, Right
  <2>7. CasesKept(t, c, q)
    <3>1. \A k1 \in Keys : g.own[k1] # 0 => Jumped(c, <<"case", g.own[k1]>>)
      BY <1>1, <1>2 DEF Framed
    <3>2. QED BY <1>2, <1>3, <2>6, <3>1, CasesPop DEF Shaped, Points
  <2>8. CasesKept(s, c, q)
    <3>1. PICK no : no = <<>>
      OBVIOUS
    <3>2. Adds(q, no, q) /\ CaseLess(no)
      BY <3>1 DEF Adds, CaseLess
    <3>3. QED BY <1>4, <1>6, <2>7, <3>2, CasesPush
  <2>9. OwnCases(t, lblSwitch)
    <3>1. g.kind \notin {"case", "default"} /\ \A k1 \in Keys : lblSwitch[k1] # NoLabel => lblSwitch[k1] # NoLabel
      BY <1>1
    <3>2. QED BY <1>2, <2>6, <3>1, OwnPop
  <2>10. OwnCases(s, lblSwitch)
    BY <1>6, <2>9, OwnPush
  <2>11. AllHeld(c, s, Null, idGoto)
    BY <1>6, <2>1, HeldMore DEF AllHeld
  <2>12. QED BY <2>5, <2>8, <2>10, <2>11 DEF Right
<1>14. /\ bound' \in Bounds /\ statements' = statements /\ statements' <= MaxStatements'
       /\ value' \in [ready : BOOLEAN, st : StmtType] /\ ~value'.ready /\ value'.st = Null
       /\ phase' = "parse" /\ idLabel' = idLabel /\ idGoto' = idGoto /\ lblSwitch' = lblSwitch /\ tmpSwitch' = tmpSwitch
  <2>1. MaxStatements' = MaxStatements
    BY DEF MaxStatements
  <2>2. Null \in StmtType
    BY NullOK DEF StmtOK
  <2>3. QED BY <1>3, <2>1, <2>2 DEF Going, globals
<1>15. Parsing(s, value'.ready, Null)
  <2>1. s # <<>> /\ Len(s) \in 1 .. Len(s) /\ s[Len(s)] = f
    BY <1>6 DEF Pushes
  <2>2. s[1].kind = "block"
    <3>1. CASE Len(stack) > 1
      <4>1. 1 \in 1 .. Len(t) /\ 1 \in 1 .. Len(s)
        BY <1>2, <1>6, <3>1 DEF Going, Pushes
      <4>2. s[1] = t[1] /\ t[1] = stack[1]
        BY <1>2, <1>6, <4>1 DEF Pushes
      <4>3. QED BY <4>2 DEF Going
    <3>2. CASE ~(Len(stack) > 1)
      <4>1. Len(s) = 1 /\ f.kind = "block"
        BY <1>2, <1>6, <3>2 DEF Going, Pushes
      <4>2. QED BY <2>1, <4>1
    <3>3. QED BY <3>1, <3>2
  <2>3. QED BY <1>14, <2>1, <2>2 DEF Parsing
<1>16. Depth(s, value'.ready) = Len(s) - 1
  BY <1>14 DEF Depth
<1>17. QED BY <1>3, <1>12, <1>13, <1>14, <1>15, <1>16 DEF IInv

LEMMA ReduceAs ==
    ASSUME Going, Top.kind # "block" \/ Len(stack) > 1, Top.kind \notin {"switch", "case", "default", "label"},
           NEW c, Grows(ta_code, c), NEW st, StmtOK(st, c), Leaving(st, Below, Len(Below)),
           NEW add, Points(add, c), Reduce(c, st, add), UNCHANGED <<idLabel, idGoto, lblSwitch>>,
           tmpSwitch' \in {tmpSwitch, NoLabel}, fault' = "none" => fault = "none" /\ AllHeld(c, Below, st, idGoto)
    PROVE  IInv'
<1>1. PICK t, f, tmp : t = Below /\ f = Top /\ tmp = tmpSwitch'
  OBVIOUS
<1>2. Pushes(t, f, stack) /\ Framed(f, ta_code) /\ f.kind \notin {"switch", "case", "default", "label"}
  BY <1>1, TopIs
<1>3. /\ Shaped(ta_code, stack, value.st, idLabel, idGoto, lblSwitch, tmpSwitch, place, statements)
      /\ Coded(ta_code)
  BY DEF Going, IInv, Shaped
<1>4. Switched(t, c, lblSwitch, tmp)
  <2>1. Switching(stack, t)
    BY <1>2, SwitchingPop
  <2>2. Switched(t, c, lblSwitch, tmpSwitch)
    BY <1>3, <2>1, SwitchedMore DEF Shaped
  <2>3. tmp = tmpSwitch \/ tmp = NoLabel
    BY <1>1
  <2>4. QED BY <2>2, <2>3 DEF Switched, Patches
<1>5. Named(t, c, idLabel, idGoto, place)
  <2>1. \A n \in Names : Labelling(stack, n) => Labelling(t, n)
    BY <1>2, LabellingMore
  <2>2. QED BY <1>3, <2>1, NamedMore DEF Shaped
<1>6. Placed(add, c) /\ NoLabelPoint(add) /\ CaseLess(add)
  BY DEF Points
<1>7. \A k \in Keys : Top.own[k] # 0 => Jumped(c, <<"case", Top.own[k]>>)
  BY <1>1, <1>2 DEF Framed
<1>8. fault' = "none" =>
          /\ fault = "none" /\ CaseLess(add) /\ AllHeld(c, Below, st, idGoto)
          /\ \A k \in Keys : Top.own[k] # 0 => Jumped(c, <<"case", Top.own[k]>>)
          /\ \/ Top.kind = "switch"
             \/ /\ \A k \in Keys : lblSwitch[k] # NoLabel => lblSwitch[k] # NoLabel
                /\ Top.kind \in {"case", "default"} => lblSwitch[Top.l2] # NoLabel
  BY <1>6, <1>7
<1>9. Switched(Below, c, lblSwitch, tmp) /\ Named(Below, c, idLabel, idGoto, place)
  BY <1>1, <1>4, <1>5
<1>10. idLabel' = idLabel /\ idGoto' = idGoto /\ lblSwitch' = lblSwitch /\ tmpSwitch' = tmp
  BY <1>1
<1>11. QED BY <1>6, <1>8, <1>9, <1>10, ReduceStep

LEMMA FrameParts ==
    ASSUME NEW f \in FrameType
    PROVE  /\ f = [kind |-> f.kind, id |-> f.id, true |-> f.true, false |-> f.false, l1 |-> f.l1, l2 |-> f.l2,
                   goto1 |-> f.goto1, goto2 |-> f.goto2, st |-> f.st, seen |-> f.seen, own |-> f.own]
           /\ f.kind \in Compound \cup {"else"} /\ f.id \in Nat /\ f.true \in SUBSET Nat /\ f.false \in SUBSET Nat
           /\ f.l1 \in Nat /\ f.l2 \in Nat /\ f.goto1 \in Nat /\ f.goto2 \in Nat /\ f.st \in StmtType
           /\ f.seen \in BOOLEAN /\ f.own \in [Keys -> Nat]
BY DEF FrameType

\* The list on top, with the lists of the statement inside.
LEMMA AddedIs ==
    ASSUME Going, Top.kind = "block", NEW r, r = AddToStatementList
    PROVE  /\ StmtOK(r, ta_code) /\ Leaving(r, Below, Len(Below))
           /\ ListsOf(Top.st) \ Top.st.lists["next"] \subseteq ListsOf(r)
           /\ ListsOf(value.st) \subseteq ListsOf(r)
<1>1. StmtOK(value.st, ta_code) /\ StmtOK(Top.st, ta_code)
  BY TopIs
<1>2. Leaving(value.st, Below, Len(Below)) /\ Leaving(Top.st, Below, Len(Below))
  BY ValueLeaves DEF Breakable, Loops
<1>3. CASE value.st.null
  <2>1. r = Top.st /\ value.st.lists = NoLists
    BY <1>1, <1>3 DEF AddToStatementList, StmtOK
  <2>2. ListsOf(value.st) = {}
    BY <2>1 DEF ListsOf, NoLists
  <2>3. QED BY <1>1, <1>2, <2>1, <2>2
<1>4. CASE ~value.st.null
  <2>1. PICK a, b : a = Top.st.lists /\ b = value.st.lists
    OBVIOUS
  <2>2. a \in [Lists -> SUBSET JumpsOf(ta_code)] /\ b \in [Lists -> SUBSET JumpsOf(ta_code)]
    BY <1>1, <2>1 DEF StmtOK, StmtType
  <2>3. PICK ls : ls = [l \in Lists |-> IF l = "next" THEN b[l] ELSE a[l] \cup b[l]]
    OBVIOUS
  <2>4. r = Stmt(ls)
    BY <1>4, <2>1, <2>3 DEF AddToStatementList
  <2>5. ls \in [Lists -> SUBSET JumpsOf(ta_code)] /\ \A l \in Lists : ls[l] = IF l = "next" THEN b[l] ELSE a[l] \cup b[l]
    BY <2>2, <2>3
  <2>6. StmtOK(r, ta_code) /\ r.lists = ls
    BY <2>4, <2>5, StmtIs
  <2>7. Leaving(r, Below, Len(Below))
    BY <1>2, <2>1, <2>5, <2>6 DEF Leaving, Lists
  <2>8. ListsOf(Top.st) \ Top.st.lists["next"] \subseteq ListsOf(r) /\ ListsOf(value.st) \subseteq ListsOf(r)
    BY <2>1, <2>5, <2>6, ListsAre DEF Lists
  <2>9. QED BY <2>6, <2>7, <2>8
<1>5. QED BY <1>3, <1>4

\* The frame of a list that goes on.
Listed(f, st, g) == g = [f EXCEPT !.st = st, !.seen = TRUE]

LEMMA ListedFrame ==
    ASSUME NEW c, NEW f, Framed(f, c), f.kind = "block", NEW st, StmtOK(st, c), NEW g, Listed(f, st, g)
    PROVE  /\ Framed(g, c) /\ g.kind = "block" /\ g.id = f.id /\ g.st = st /\ Ownless(g)
           /\ ListsOf(st) \subseteq HeldBy(g)
<1>1. f \in FrameType /\ st \in StmtType /\ TRUE \in BOOLEAN
  BY DEF Framed, StmtOK
<1>2. PICK seen \in BOOLEAN : seen = TRUE
  OBVIOUS
<1>3. g = [kind |-> f.kind, id |-> f.id, true |-> f.true, false |-> f.false, l1 |-> f.l1, l2 |-> f.l2,
           goto1 |-> f.goto1, goto2 |-> f.goto2, st |-> st, seen |-> seen, own |-> f.own]
  <2>1. f = [kind |-> f.kind, id |-> f.id, true |-> f.true, false |-> f.false, l1 |-> f.l1, l2 |-> f.l2,
             goto1 |-> f.goto1, goto2 |-> f.goto2, st |-> f.st, seen |-> f.seen, own |-> f.own]
    BY <1>1, FrameParts
  <2>2. QED BY <1>2, <2>1 DEF Listed
<1>4. g \in FrameType
  <2>1. PICK k, K : k = f.kind /\ K = Compound \cup {"else"}
    OBVIOUS
  <2>2. /\ k \in K /\ f.id \in Nat /\ f.true \in SUBSET Nat /\ f.false \in SUBSET Nat
        /\ f.l1 \in Nat /\ f.l2 \in Nat /\ f.goto1 \in Nat /\ f.goto2 \in Nat /\ f.own \in [Keys -> Nat]
    BY <1>1, <2>1, FrameParts
  <2>3. g = [kind |-> k, id |-> f.id, true |-> f.true, false |-> f.false, l1 |-> f.l1, l2 |-> f.l2,
             goto1 |-> f.goto1, goto2 |-> f.goto2, st |-> st, seen |-> seen, own |-> f.own]
    BY <1>3, <2>1
  <2>4. g \in [kind : K, id : Nat, true : SUBSET Nat, false : SUBSET Nat, l1 : Nat, l2 : Nat,
               goto1 : Nat, goto2 : Nat, st : StmtType, seen : BOOLEAN, own : [Keys -> Nat]]
    BY <1>1, <1>2, <2>2, <2>3
  <2>5. QED BY <2>1, <2>4 DEF FrameType
<1>5. /\ g.kind = f.kind /\ g.id = f.id /\ g.true = f.true /\ g.false = f.false /\ g.l1 = f.l1 /\ g.l2 = f.l2
      /\ g.goto1 = f.goto1 /\ g.goto2 = f.goto2 /\ g.st = st /\ g.own = f.own
  BY <1>3
<1>6. Framed(g, c)
  BY <1>4, <1>5 DEF Framed
<1>7. ListsOf(st) \subseteq HeldBy(g)
  BY <1>5 DEF HeldBy, ListsOf
<1>8. QED BY <1>5, <1>6, <1>7 DEF Framed, Ownless

LEMMA NextInListStep == ASSUME IInv, NextInList PROVE IInv'
<1>1. Going /\ value.ready /\ Top.kind = "block"
  BY GoesOn DEF NextInList, Reducing
<1>2. PICK r, f : r = AddToStatementList /\ Listed(Top, r, f)
  BY DEF Listed
<1>3. /\ StmtOK(r, ta_code) /\ Leaving(r, Below, Len(Below))
      /\ ListsOf(Top.st) \ Top.st.lists["next"] \subseteq ListsOf(r) /\ ListsOf(value.st) \subseteq ListsOf(r)
  BY <1>1, <1>2, AddedIs
<1>4. PICK g, id : g = Top /\ id = Top.id
  OBVIOUS
<1>5. Framed(g, ta_code) /\ g.kind = "block"
  BY <1>1, <1>4, TopIs
<1>6. Framed(f, ta_code) /\ f.kind = "block" /\ f.id = id /\ f.st = r /\ Ownless(f) /\ ListsOf(r) \subseteq HeldBy(f)
  BY <1>2, <1>3, <1>4, <1>5, ListedFrame
<1>7. PICK s, add : s = Append(Below, f) /\ add = <<>>
  OBVIOUS
<1>8. /\ stack' = s /\ value' = [ready |-> FALSE, st |-> Null]
      /\ UNCHANGED <<ta_code, globals, place, statements, functions, bound, phase>>
  BY <1>2, <1>7 DEF NextInList, Listed
<1>9. Points(add, ta_code) /\ Adds(place, add, place) /\ Grows(ta_code, ta_code)
  BY <1>1, <1>7, PointsNone, TopIs, GrowsSelf DEF Adds
<1>10. ASSUME fault' = "none"
       PROVE  /\ fault = "none"
              /\ Unpatched(ta_code) \subseteq HeldIn(Below, Len(Below)) \cup HeldBy(f) \cup Waiting(idGoto)
  <2>1. fault = "none"
    BY <1>10 DEF NextInList, Blame
  <2>2. g.true = {} /\ g.false = {} /\ g.goto1 = 0
    BY <1>5 DEF Framed
  <2>3. QED BY <1>1, <1>3, <1>4, <1>6, <2>1, <2>2, HeldNow
<1>11. /\ f.id = Top.id /\ f.kind \notin {"switch", "case", "default", "label"}
       /\ Top.kind \notin {"switch", "case", "default", "label"}
       /\ f.kind = "block" \/ (Len(stack) > 1 /\ Leaving(f.st, Below, Len(Below)))
  BY <1>1, <1>3, <1>4, <1>6
<1>12. QED BY <1>1, <1>3, <1>6, <1>7, <1>8, <1>9, <1>10, <1>11, RetopStep

LEMMA CloseBlockStep == ASSUME IInv, CloseBlock PROVE IInv'
<1>1. Going /\ ~value.ready /\ Top.kind = "block" /\ Len(stack) > 1 /\ Reduce(ta_code, Top.st, <<>>)
      /\ UNCHANGED <<globals, fault>>
  BY GoesOn DEF CloseBlock
<1>2. PICK st, add, g : st = Top.st /\ add = <<>> /\ g = Top
  OBVIOUS
<1>3. StmtOK(st, ta_code) /\ Leaving(st, Below, Len(Below)) /\ Grows(ta_code, ta_code) /\ Framed(g, ta_code)
  BY <1>1, <1>2, TopIs, ValueLeaves, GrowsSelf
<1>4. Points(add, ta_code) /\ Reduce(ta_code, st, add)
  BY <1>1, <1>2, PointsNone
<1>5. ASSUME fault = "none" PROVE AllHeld(ta_code, Below, st, idGoto)
  <2>1. g.true = {} /\ g.false = {} /\ g.goto1 = 0
    BY <1>1, <1>2, <1>3 DEF Framed
  <2>2. ListsOf(value.st) = {}
    BY <1>1, NoListsOf DEF Going, IInv, Parsing
  <2>3. QED BY <1>1, <1>2, <1>5, <2>1, <2>2, HeldNow DEF AllHeld
<1>6. /\ Top.kind \notin {"switch", "case", "default", "label"} /\ UNCHANGED <<idLabel, idGoto, lblSwitch>>
      /\ tmpSwitch' \in {tmpSwitch, NoLabel} /\ fault' = fault
  BY <1>1 DEF globals
<1>7. QED BY <1>1, <1>3, <1>4, <1>5, <1>6, ReduceAs

\* The frame of an if that has an else.
Elsed(f, st, g, l, h) == h = [f EXCEPT !.kind = "else", !.st = st, !.goto1 = g, !.l2 = l]

LEMMA ElsedFrame ==
    ASSUME NEW c, NEW f, Framed(f, c), f.kind = "if", NEW st, StmtOK(st, c), NEW g \in JumpsOf(c),
           NEW l \in LabelsOf(c), NEW h, Elsed(f, st, g, l, h)
    PROVE  /\ Framed(h, c) /\ h.kind = "else" /\ h.id = f.id /\ h.st = st /\ Ownless(h)
           /\ f.true \cup f.false \cup {g} \cup ListsOf(st) \subseteq HeldBy(h)
<1>1. f \in FrameType /\ st \in StmtType /\ g \in Nat /\ l \in Nat
  BY DEF Framed, StmtOK, JumpsOf, LabelsOf
<1>2. PICK k \in Compound \cup {"else"} : k = "else"
  OBVIOUS
<1>3. h = [kind |-> k, id |-> f.id, true |-> f.true, false |-> f.false, l1 |-> f.l1, l2 |-> l,
           goto1 |-> g, goto2 |-> f.goto2, st |-> st, seen |-> f.seen, own |-> f.own]
  <2>1. f = [kind |-> f.kind, id |-> f.id, true |-> f.true, false |-> f.false, l1 |-> f.l1, l2 |-> f.l2,
             goto1 |-> f.goto1, goto2 |-> f.goto2, st |-> f.st, seen |-> f.seen, own |-> f.own]
    BY <1>1, FrameParts
  <2>2. QED BY <1>2, <2>1 DEF Elsed
<1>4. h \in FrameType
  <2>1. /\ f.id \in Nat /\ f.true \in SUBSET Nat /\ f.false \in SUBSET Nat /\ f.l1 \in Nat
        /\ f.goto2 \in Nat /\ f.seen \in BOOLEAN /\ f.own \in [Keys -> Nat]
    BY <1>1, FrameParts
  <2>2. PICK K : K = Compound \cup {"else"} /\ k \in K
    BY <1>2
  <2>3. h \in [kind : K, id : Nat, true : SUBSET Nat, false : SUBSET Nat, l1 : Nat, l2 : Nat,
               goto1 : Nat, goto2 : Nat, st : StmtType, seen : BOOLEAN, own : [Keys -> Nat]]
    BY <1>1, <1>3, <2>1, <2>2
  <2>4. QED BY <2>2, <2>3 DEF FrameType
<1>5. /\ h.kind = "else" /\ h.id = f.id /\ h.true = f.true /\ h.false = f.false /\ h.l1 = f.l1 /\ h.l2 = l
      /\ h.goto1 = g /\ h.goto2 = f.goto2 /\ h.st = st /\ h.own = f.own
  BY <1>2, <1>3
<1>6. Framed(h, c)
  BY <1>4, <1>5 DEF Framed
<1>7. f.true \cup f.false \cup {g} \cup ListsOf(st) \subseteq HeldBy(h)
  BY <1>5 DEF HeldBy, ListsOf
<1>8. QED BY <1>5, <1>6, <1>7 DEF Framed, Ownless

LEMMA ElseStep == ASSUME IInv, Else PROVE IInv'
<1>1. Going /\ value.ready /\ Top.kind = "if"
  BY GoesOn DEF Else, Reducing
<1>2. PICK top, id, st : top = Top /\ id = Top.id /\ st = value.st
  OBVIOUS
<1>3. Framed(top, ta_code) /\ Coded(ta_code) /\ StmtOK(st, ta_code) /\ id \in Nat
  BY <1>1, <1>2, TopIs DEF Framed, FrameType
<1>4. PICK w \in Roles \X Nat : w = <<"after", id>>
  BY <1>3 DEF Roles
<1>5. PICK j, g : j = NewGoto(ta_code, w) /\ g = LastGoto(j)
  OBVIOUS
<1>6. Grows(ta_code, j) /\ Coded(j) /\ g \in JumpsOf(j) /\ Unpatched(j) = Unpatched(ta_code) \cup {g}
  BY <1>3, <1>5, NewGotoGrows DEF Grows
<1>7. PICK c, l : c = NewLabel(j) /\ l = LastLabel(c)
  OBVIOUS
<1>8. Grows(j, c) /\ Coded(c) /\ JumpsOf(c) = JumpsOf(j) /\ Unpatched(c) = Unpatched(j) /\ l \in LabelsOf(c)
  BY <1>6, <1>7, NewLabelGrows DEF Grows
<1>9. Grows(ta_code, c) /\ g \in JumpsOf(c)
  BY <1>6, <1>8, GrowsOn
<1>10. PICK f : Elsed(top, st, g, l, f)
  BY DEF Elsed
<1>11. /\ Framed(f, c) /\ f.kind = "else" /\ f.id = top.id /\ f.st = st /\ Ownless(f)
       /\ top.true \cup top.false \cup {g} \cup ListsOf(st) \subseteq HeldBy(f)
  <2>1. Framed(top, c) /\ StmtOK(st, c) /\ top.kind = "if"
    BY <1>1, <1>2, <1>3, <1>9, FramedGrows, StmtGrows
  <2>2. QED BY <1>8, <1>9, <1>10, <2>1, ElsedFrame
<1>12. PICK p, x, add : p = <<"else", id>> /\ x = c.instrs /\ add = (p :> x)
  OBVIOUS
<1>13. PICK s, q : s = Append(Below, f) /\ q = place @@ add
  OBVIOUS
<1>14. Points(add, c) /\ Adds(place, add, q)
  <2>1. PICK r \in Roles \ {"label", "case"} : r = "else"
    BY DEF Roles
  <2>2. Grows(c, c) /\ p = <<r, id>>
    BY <1>8, <1>12, <2>1, GrowsSelf
  <2>3. QED BY <1>3, <1>12, <1>13, <2>2, PointsOne, Adding
<1>15. /\ stack' = s /\ ta_code' = c /\ value' = [ready |-> FALSE, st |-> Null] /\ place' = q
       /\ UNCHANGED globals /\ UNCHANGED <<statements, functions, bound, phase>> /\ fault' = fault
  BY <1>2, <1>4, <1>5, <1>7, <1>10, <1>12, <1>13 DEF Else, Elsed
<1>16. ASSUME fault' = "none"
       PROVE  fault = "none" /\ Unpatched(c) \subseteq HeldIn(Below, Len(Below)) \cup HeldBy(f) \cup Waiting(idGoto)
  <2>1. fault = "none"
    BY <1>15, <1>16
  <2>2. top.goto1 = 0 /\ ListsOf(top.st) = {}
    BY <1>1, <1>2, <1>3, NoListsOf DEF Framed
  <2>3. QED BY <1>1, <1>2, <1>6, <1>8, <1>11, <2>1, <2>2, HeldNow
<1>17. /\ f.id = Top.id /\ f.kind \notin {"switch", "case", "default", "label"}
       /\ Top.kind \notin {"switch", "case", "default", "label"}
       /\ Leaving(f.st, Below, Len(Below))
  BY <1>1, <1>2, <1>11, ValueLeaves DEF Breakable, Loops
<1>18. Len(stack) > 1
  <2>1. ASSUME Len(stack) = 1 PROVE FALSE
    <3>1. Top = stack[1]
      BY <2>1 DEF Top
    <3>2. QED BY <1>1, <3>1 DEF Going
  <2>2. PICK n \in Nat : n = Len(stack)
    BY <1>1 DEF Going
  <2>3. n # 0 /\ n # 1
    BY <1>1, <2>1, <2>2 DEF Going
  <2>4. QED BY <2>2, <2>3
<1>19. QED BY <1>1, <1>9, <1>11, <1>13, <1>14, <1>15, <1>16, <1>17, <1>18, RetopStep

\* Lists put together, and lists of which one holds something.
Merged(ls, a, b)   == ls = With(a, b)
NextOnly(ls, new)  == ls = [NoLists EXCEPT !["next"] = new]

LEMMA MergedIs ==
    ASSUME NEW c, NEW a \in [Lists -> SUBSET JumpsOf(c)], NEW b \in [Lists -> SUBSET JumpsOf(c)],
           NEW ls, Merged(ls, a, b)
    PROVE  ls \in [Lists -> SUBSET JumpsOf(c)] /\ \A l \in Lists : ls[l] = a[l] \cup b[l]
<1>1. ls = [l \in Lists |-> a[l] \cup b[l]]
  BY DEF Merged, With
<1>2. QED BY <1>1

LEMMA NextOnlyIs ==
    ASSUME NEW c, NEW new \in SUBSET JumpsOf(c), NEW ls, NextOnly(ls, new)
    PROVE  ls \in [Lists -> SUBSET JumpsOf(c)] /\ \A l \in Lists : ls[l] = IF l = "next" THEN new ELSE {}
<1>1. ls = [l \in Lists |-> IF l = "next" THEN new ELSE {}]
  BY DEF NextOnly, NoLists
<1>2. QED BY <1>1

LEMMA ListsIn ==
    ASSUME NEW c, NEW st, StmtOK(st, c) PROVE st.lists \in [Lists -> SUBSET JumpsOf(c)]
<1>1. PICK ls : ls = st.lists
  OBVIOUS
<1>2. ls \in [Lists -> SUBSET Nat] /\ \A l \in Lists : ls[l] \subseteq JumpsOf(c)
  BY <1>1 DEF StmtOK, StmtType
<1>3. QED BY <1>1, <1>2

LEMMA ReduceIfStep == ASSUME IInv, ReduceIf PROVE IInv'
<1>1. Going /\ value.ready /\ Top.kind = "if"
  BY GoesOn DEF ReduceIf, Reducing
<1>2. PICK top, id, st, T, F, l : /\ top = Top /\ id = Top.id /\ st = value.st
                                  /\ T = Top.true /\ F = Top.false /\ l = Top.l1
  OBVIOUS
<1>3. /\ Coded(ta_code) /\ StmtOK(st, ta_code) /\ id \in Nat /\ ListsOf(Top.st) = {} /\ Top.goto1 = 0
      /\ T \subseteq JumpsOf(ta_code) /\ F \subseteq JumpsOf(ta_code) /\ l \in Patches(ta_code) /\ l # NoLabel
  <2>1. Framed(top, ta_code) /\ Coded(ta_code) /\ StmtOK(st, ta_code)
    BY <1>1, <1>2, TopIs
  <2>2. QED BY <1>1, <1>2, <2>1, NoListsOf DEF Framed, FrameType
<1>4. PICK c : c = Backpatch(ta_code, T, l)
  OBVIOUS
<1>5. Grows(ta_code, c) /\ JumpsOf(c) = JumpsOf(ta_code) /\ Unpatched(c) = Unpatched(ta_code) \ T
  BY <1>3, <1>4, BackpatchGrows
<1>6. PICK a, b, ls : a = st.lists /\ NextOnly(b, F) /\ Merged(ls, a, b)
  BY DEF NextOnly, Merged
<1>7. ls \in [Lists -> SUBSET JumpsOf(c)] /\ \A k \in Lists : ls[k] = a[k] \cup IF k = "next" THEN F ELSE {}
  <2>1. a \in [Lists -> SUBSET JumpsOf(c)] /\ F \in SUBSET JumpsOf(c)
    BY <1>3, <1>5, <1>6, ListsIn
  <2>2. b \in [Lists -> SUBSET JumpsOf(c)] /\ \A k \in Lists : b[k] = IF k = "next" THEN F ELSE {}
    BY <1>6, <2>1, NextOnlyIs
  <2>3. QED BY <1>6, <2>1, <2>2, MergedIs
<1>8. PICK r : r = Stmt(ls)
  OBVIOUS
<1>9. StmtOK(r, c) /\ r.lists = ls
  BY <1>7, <1>8, StmtIs
<1>10. Leaving(r, Below, Len(Below))
  <2>1. Leaving(st, Below, Len(Below))
    BY <1>1, <1>2, ValueLeaves DEF Breakable, Loops
  <2>2. QED BY <1>6, <1>7, <1>9, <2>1 DEF Leaving, Lists
<1>11. PICK p, x, add : p = <<"else", id>> /\ x = c.instrs /\ add = (p :> x)
  OBVIOUS
<1>12. Points(add, c)
  <2>1. PICK role \in Roles \ {"label", "case"} : role = "else"
    BY DEF Roles
  <2>2. Grows(c, c) /\ p = <<role, id>>
    BY <1>5, <1>11, <2>1, GrowsSelf DEF Grows
  <2>3. QED BY <1>3, <1>11, <2>2, PointsOne
<1>13. Reduce(c, r, add) /\ tmpSwitch' = NoLabel /\ UNCHANGED <<idLabel, idGoto, lblSwitch, fault>>
  BY <1>2, <1>4, <1>6, <1>8, <1>11 DEF ReduceIf, IfLists, NextOnly, Merged
<1>14. ASSUME fault = "none" PROVE AllHeld(c, Below, r, idGoto)
  <2>1. ListsOf(st) \cup F \subseteq ListsOf(r)
    BY <1>6, <1>7, <1>9, ListsAre DEF Lists
  <2>2. QED BY <1>1, <1>2, <1>3, <1>5, <1>14, <2>1, HeldNow DEF AllHeld
<1>15. Top.kind \notin {"switch", "case", "default", "label"} /\ Top.kind # "block"
  BY <1>1
<1>16. QED BY <1>1, <1>5, <1>9, <1>10, <1>12, <1>13, <1>14, <1>15, ReduceAs

LEMMA ReduceIfElseStep == ASSUME IInv, ReduceIfElse PROVE IInv'
<1>1. Going /\ value.ready /\ Top.kind = "else"
  BY GoesOn DEF ReduceIfElse, Reducing
<1>2. PICK top, id, s1, s2, T, F, l1, l2, g : /\ top = Top /\ id = Top.id /\ s1 = Top.st /\ s2 = value.st
                                              /\ T = Top.true /\ F = Top.false /\ l1 = Top.l1 /\ l2 = Top.l2
                                              /\ g = Top.goto1
  OBVIOUS
<1>3. /\ Coded(ta_code) /\ StmtOK(s1, ta_code) /\ StmtOK(s2, ta_code)
      /\ T \subseteq JumpsOf(ta_code) /\ F \subseteq JumpsOf(ta_code) /\ l1 \in Patches(ta_code) /\ l1 # NoLabel
      /\ l2 \in Patches(ta_code) /\ l2 # NoLabel /\ g \in JumpsOf(ta_code)
  <2>1. Framed(top, ta_code) /\ Coded(ta_code) /\ StmtOK(s1, ta_code) /\ StmtOK(s2, ta_code)
    BY <1>1, <1>2, TopIs
  <2>2. QED BY <1>1, <1>2, <2>1 DEF Framed, Patches, LabelsOf, NoLabel
<1>4. PICK d : d = Backpatch(ta_code, T, l1)
  OBVIOUS
<1>5. /\ Grows(ta_code, d) /\ JumpsOf(d) = JumpsOf(ta_code) /\ Unpatched(d) = Unpatched(ta_code) \ T
      /\ Coded(d) /\ l2 \in Patches(d)
  <2>1. Grows(ta_code, d) /\ JumpsOf(d) = JumpsOf(ta_code) /\ Unpatched(d) = Unpatched(ta_code) \ T
    BY <1>3, <1>4, BackpatchGrows
  <2>2. QED BY <1>3, <2>1 DEF Grows, Patches
<1>6. PICK c : c = Backpatch(d, F, l2)
  OBVIOUS
<1>7. Grows(d, c) /\ JumpsOf(c) = JumpsOf(d) /\ Unpatched(c) = Unpatched(d) \ F
  BY <1>3, <1>5, <1>6, BackpatchGrows
<1>8. Grows(ta_code, c) /\ StmtOK(s1, c) /\ StmtOK(s2, c)
  <2>1. Grows(ta_code, c)
    BY <1>5, <1>7, GrowsOn
  <2>2. QED BY <1>3, <2>1, StmtGrows
<1>9. PICK open : open = {g} \cup IF s2.null THEN F ELSE {}
  OBVIOUS
<1>10. PICK a, b, m, n, ls : a = s1.lists /\ b = s2.lists /\ Merged(m, a, b) /\ NextOnly(n, open) /\ Merged(ls, m, n)
  BY DEF NextOnly, Merged
<1>11. /\ ls \in [Lists -> SUBSET JumpsOf(c)]
       /\ \A k \in Lists : ls[k] = a[k] \cup b[k] \cup IF k = "next" THEN open ELSE {}
  <2>1. a \in [Lists -> SUBSET JumpsOf(c)] /\ b \in [Lists -> SUBSET JumpsOf(c)]
    BY <1>8, <1>10, ListsIn
  <2>2. m \in [Lists -> SUBSET JumpsOf(c)] /\ \A k \in Lists : m[k] = a[k] \cup b[k]
    BY <1>10, <2>1, MergedIs
  <2>3. open \in SUBSET JumpsOf(c)
    BY <1>3, <1>5, <1>7, <1>9
  <2>4. n \in [Lists -> SUBSET JumpsOf(c)] /\ \A k \in Lists : n[k] = IF k = "next" THEN open ELSE {}
    BY <1>10, <2>3, NextOnlyIs
  <2>5. QED BY <1>10, <2>2, <2>4, MergedIs
<1>12. PICK r, none : r = Stmt(ls) /\ none = <<>>
  OBVIOUS
<1>13. StmtOK(r, c) /\ r.lists = ls
  BY <1>11, <1>12, StmtIs
<1>14. Leaving(r, Below, Len(Below))
  <2>1. Leaving(s1, Below, Len(Below)) /\ Leaving(s2, Below, Len(Below))
    BY <1>1, <1>2, ValueLeaves DEF Breakable, Loops
  <2>2. QED BY <1>10, <1>11, <1>13, <2>1 DEF Leaving, Lists
<1>15. Points(none, c)
  BY <1>12, PointsNone
<1>16. Reduce(c, r, none) /\ tmpSwitch' = NoLabel /\ UNCHANGED <<idLabel, idGoto, lblSwitch>>
  BY <1>2, <1>4, <1>6, <1>9, <1>10, <1>12 DEF ReduceIfElse, NextOnly, Merged
<1>17. ASSUME fault' = "none" PROVE fault = "none" /\ AllHeld(c, Below, r, idGoto)
  <2>1. fault = "none"
    BY <1>17 DEF ReduceIfElse, Blame
  <2>2. ListsOf(s1) \cup ListsOf(s2) \cup {g} \subseteq ListsOf(r)
    BY <1>9, <1>10, <1>11, <1>13, ListsAre DEF Lists
  <2>3. QED BY <1>1, <1>2, <1>5, <1>7, <2>1, <2>2, HeldNow DEF AllHeld
<1>18. Top.kind \notin {"switch", "case", "default", "label"} /\ Top.kind # "block"
  BY <1>1
<1>19. QED BY <1>1, <1>8, <1>13, <1>14, <1>15, <1>16, <1>17, <1>18, ReduceAs

\* What is left of a loop's condition and of its body.
LEMMA LoopListsAre ==
    ASSUME NEW c, StmtOK(value.st, c), NEW F \in SUBSET JumpsOf(c), NEW ls, ls = LoopLists(F)
    PROVE  /\ ls \in [Lists -> SUBSET JumpsOf(c)]
           /\ ls["next"] = F \cup value.st.lists["break"] /\ ls["return"] = value.st.lists["return"]
           /\ ls["break"] = {} /\ ls["continue"] = {}
<1>1. PICK a : a = value.st.lists
  OBVIOUS
<1>2. a \in [Lists -> SUBSET JumpsOf(c)]
  BY <1>1, ListsIn
<1>3. PICK N, R : N = F \cup a["break"] /\ R = a["return"]
  OBVIOUS
<1>4. N \in SUBSET JumpsOf(c) /\ R \in SUBSET JumpsOf(c)
  BY <1>2, <1>3 DEF Lists
<1>5. ls = [l \in Lists |-> IF l = "return" THEN R ELSE IF l = "next" THEN N ELSE {}]
  BY <1>1, <1>3 DEF LoopLists, NoLists
<1>6. ls \in [Lists -> SUBSET JumpsOf(c)]
  BY <1>4, <1>5
<1>7. QED BY <1>1, <1>3, <1>5, <1>6 DEF Lists

\* A loop ends: what is open in it has been patched, but its way out.
LEMMA LoopStep ==
    ASSUME Going, Top.kind \in Loops, NEW c, Grows(ta_code, c),
           NEW T \in SUBSET JumpsOf(c), NEW F \in SUBSET JumpsOf(c),
           NEW first \in Patches(c), first = NoLabel => T = {}, NEW onward \in LabelsOf(c),
           NEW role \in Roles, NEW l \in LabelsOf(c), NEW back, back = <<role, l>>,
           NEW add, Points(add, c), LoopReduces(c, T, F, first, onward, back, add),
           fault = "none" => Unpatched(c) \subseteq HeldIn(Below, Len(Below)) \cup T \cup F
                                                    \cup ListsOf(value.st) \cup Waiting(idGoto)
    PROVE  IInv'
<1>1. PICK st, id : st = value.st /\ id = Top.id
  OBVIOUS
<1>2. /\ Coded(c) /\ StmtOK(st, ta_code) /\ id \in Nat /\ onward # NoLabel /\ onward \in Patches(c) /\ l # NoLabel
  <2>1. Framed(Top, ta_code) /\ StmtOK(value.st, ta_code)
    BY TopIs
  <2>2. QED BY <1>1, <2>1 DEF Framed, FrameType, Grows, Patches, LabelsOf, NoLabel
<1>3. PICK next, cont : next = st.lists["next"] /\ cont = st.lists["continue"]
  OBVIOUS
<1>4. PICK d : d = Backpatch(c, T, first)
  OBVIOUS
<1>5. /\ Grows(c, d) /\ LabelsOf(d) = LabelsOf(c) /\ JumpsOf(d) = JumpsOf(c) /\ Coded(d)
      /\ Unpatched(d) = Unpatched(c) \ T
  <2>1. /\ Grows(c, d) /\ LabelsOf(d) = LabelsOf(c) /\ JumpsOf(d) = JumpsOf(c)
        /\ Unpatched(d) = IF first = NoLabel THEN Unpatched(c) ELSE Unpatched(c) \ T
    BY <1>2, <1>4, BackpatchGrows
  <2>2. QED BY <2>1 DEF Grows
<1>6. PICK e : e = Backpatch(d, next, onward)
  OBVIOUS
<1>7. /\ Grows(d, e) /\ LabelsOf(e) = LabelsOf(d) /\ JumpsOf(e) = JumpsOf(d) /\ Coded(e)
      /\ Unpatched(e) = Unpatched(d) \ next
  <2>1. onward \in Patches(d)
    BY <1>2, <1>5 DEF Patches
  <2>2. /\ Grows(d, e) /\ LabelsOf(e) = LabelsOf(d) /\ JumpsOf(e) = JumpsOf(d)
        /\ Unpatched(e) = Unpatched(d) \ next
    BY <1>2, <1>5, <1>6, <2>1, BackpatchGrows
  <2>3. QED BY <2>2 DEF Grows
<1>8. PICK p : p = Backpatch(e, cont, onward)
  OBVIOUS
<1>9. /\ Grows(e, p) /\ LabelsOf(p) = LabelsOf(e) /\ JumpsOf(p) = JumpsOf(e) /\ Coded(p)
      /\ Unpatched(p) = Unpatched(e) \ cont
  <2>1. onward \in Patches(e)
    BY <1>2, <1>5, <1>7 DEF Patches
  <2>2. /\ Grows(e, p) /\ LabelsOf(p) = LabelsOf(e) /\ JumpsOf(p) = JumpsOf(e)
        /\ Unpatched(p) = Unpatched(e) \ cont
    BY <1>2, <1>7, <1>8, <2>1, BackpatchGrows
  <2>3. QED BY <2>2 DEF Grows
<1>10. PICK w \in Roles \X Nat : w = <<role, id>>
  BY <1>2
<1>11. PICK g : g = NewGotoTo(p, w, l)
  OBVIOUS
<1>12. Grows(p, g) /\ JumpsOf(p) \subseteq JumpsOf(g) /\ Unpatched(g) = Unpatched(p)
  <2>1. l \in Targets(p)
    BY <1>5, <1>7, <1>9 DEF Targets
  <2>2. /\ Grows(p, g) /\ JumpsOf(g) = JumpsOf(p) \cup {LastGoto(g)}
        /\ Unpatched(g) = Unpatched(p) \cup (IF l = NoLabel THEN {LastGoto(g)} ELSE {})
    BY <1>9, <1>11, <2>1, NewGotoToGrows
  <2>3. QED BY <1>2, <2>2
<1>13. Grows(c, g) /\ Grows(ta_code, g)
  <2>1. Grows(c, e)
    BY <1>5, <1>7, GrowsOn
  <2>2. Grows(c, p)
    BY <1>9, <2>1, GrowsOn
  <2>3. Grows(c, g)
    BY <1>12, <2>2, GrowsOn
  <2>4. QED BY <2>3, GrowsOn
<1>14. StmtOK(st, g) /\ F \in SUBSET JumpsOf(g)
  <2>1. StmtOK(st, g)
    BY <1>2, <1>13, StmtGrows
  <2>2. QED BY <1>13, <2>1 DEF Grows
<1>15. PICK ls : ls = LoopLists(F)
  OBVIOUS
<1>16. /\ ls \in [Lists -> SUBSET JumpsOf(g)]
       /\ ls["next"] = F \cup st.lists["break"] /\ ls["return"] = st.lists["return"]
       /\ ls["break"] = {} /\ ls["continue"] = {}
  BY <1>1, <1>14, <1>15, LoopListsAre
<1>17. PICK r : r = Stmt(ls)
  OBVIOUS
<1>18. StmtOK(r, g) /\ r.lists = ls
  BY <1>16, <1>17, StmtIs
<1>19. Leaving(r, Below, Len(Below))
  BY <1>16, <1>18, NoLeaving
<1>20. Points(add, g)
  BY <1>13, PointsOn
<1>21. Reduce(g, r, add) /\ UNCHANGED globals /\ fault' = fault
  BY <1>1, <1>3, <1>4, <1>6, <1>8, <1>10, <1>11, <1>15, <1>17 DEF LoopReduces
<1>22. ASSUME fault = "none" PROVE AllHeld(g, Below, r, idGoto)
  <2>1. ListsOf(r) = F \cup st.lists["break"] \cup st.lists["return"]
    BY <1>16, <1>18, ListsAre
  <2>2. ListsOf(st) = next \cup st.lists["break"] \cup cont \cup st.lists["return"]
    BY <1>3, ListsAre
  <2>3. QED BY <1>1, <1>5, <1>7, <1>9, <1>12, <1>22, <2>1, <2>2 DEF AllHeld
<1>23. /\ Top.kind \notin {"switch", "case", "default", "label"} /\ Top.kind # "block"
       /\ UNCHANGED <<idLabel, idGoto, lblSwitch>> /\ tmpSwitch' = tmpSwitch
  BY <1>21 DEF Loops, globals
<1>24. QED BY <1>13, <1>18, <1>19, <1>20, <1>21, <1>22, <1>23, ReduceAs

\* A loop whose parts are all on top.
LEMMA LoopTop ==
    ASSUME Going, value.ready, Top.kind \in Loops, Top.kind # "do", NEW role \in Roles,
           NEW T, NEW F, NEW first, NEW l, NEW back, NEW add,
           F = Top.false, l = Top.l1, first = Top.l2, T = Top.true, back = <<role, l>>, add = <<>>,
           LoopReduces(ta_code, T, F, first, l, back, add)
    PROVE  IInv'
<1>1. PICK top, st : top = Top /\ st = value.st
  OBVIOUS
<1>2. Framed(top, ta_code) /\ Coded(ta_code) /\ top.kind \in Loops /\ top.kind # "do"
  BY <1>1, TopIs
<1>3. /\ T \in SUBSET JumpsOf(ta_code) /\ F \in SUBSET JumpsOf(ta_code) /\ l \in Patches(ta_code) /\ l # NoLabel
      /\ first \in Patches(ta_code) /\ (first = NoLabel => T = {}) /\ top.goto1 = 0 /\ top.st = Null
  BY <1>1, <1>2 DEF Framed, Loops, Patches, LabelsOf, NoLabel
<1>4. Grows(ta_code, ta_code) /\ Points(add, ta_code) /\ l \in LabelsOf(ta_code)
  BY <1>2, <1>3, GrowsSelf, PointsNone DEF Patches
<1>5. ASSUME fault = "none"
      PROVE  Unpatched(ta_code) \subseteq HeldIn(Below, Len(Below)) \cup T \cup F \cup ListsOf(st) \cup Waiting(idGoto)
  BY <1>1, <1>3, <1>5, HeldNow, NoListsOf
<1>6. QED BY <1>1, <1>3, <1>4, <1>5, LoopStep

LEMMA ReduceWhileStep == ASSUME IInv, ReduceWhile PROVE IInv'
<1>1. Going /\ value.ready /\ Top.kind = "while"
  BY GoesOn DEF ReduceWhile, Reducing
<1>2. PICK T, F, first, l : T = Top.true /\ F = Top.false /\ first = Top.l2 /\ l = Top.l1
  OBVIOUS
<1>3a. PICK role \in Roles : role = "test"
  BY DEF Roles
<1>3. PICK back, add : role = "test" /\ back = <<role, l>> /\ add = <<>>
  BY <1>3a DEF Roles
<1>4. LoopReduces(ta_code, T, F, first, l, back, add)
  BY <1>2, <1>3 DEF ReduceWhile
<1>5. Top.kind \in Loops /\ Top.kind # "do"
  BY <1>1 DEF Loops
<1>6. QED BY <1>1, <1>2, <1>3, <1>4, <1>5, LoopTop

LEMMA ReduceForStep == ASSUME IInv, ReduceFor PROVE IInv'
<1>1. Going /\ value.ready /\ Top.kind \in {"for", "for3"}
  BY GoesOn DEF ReduceFor, Reducing
<1>2. PICK T, F, first, l : T = Top.true /\ F = Top.false /\ first = Top.l2 /\ l = Top.l1
  OBVIOUS
<1>3. Top.kind \in Loops /\ Top.kind # "do"
  BY <1>1 DEF Loops
<1>4. CASE Top.kind = "for"
  <2>1a. PICK role \in Roles : role = "test"
    BY DEF Roles
  <2>1. PICK back, add : role = "test" /\ back = <<role, l>> /\ add = <<>>
    BY <2>1a DEF Roles
  <2>2. LoopReduces(ta_code, T, F, first, l, back, add)
    BY <1>2, <1>4, <2>1 DEF ReduceFor, Reducing
  <2>3. QED BY <1>1, <1>2, <1>3, <2>1, <2>2, LoopTop
<1>5. CASE Top.kind = "for3"
  <2>1a. PICK role \in Roles : role = "step"
    BY DEF Roles
  <2>1. PICK back, add : role = "step" /\ back = <<role, l>> /\ add = <<>>
    BY <2>1a DEF Roles
  <2>2. Top.true = {}
    BY <1>1, <1>5, TopIs DEF Framed
  <2>3. LoopReduces(ta_code, T, F, first, l, back, add)
    BY <1>2, <1>5, <2>1, <2>2 DEF ReduceFor, Reducing
  <2>4. QED BY <1>1, <1>2, <1>3, <2>1, <2>3, LoopTop
<1>6. QED BY <1>1, <1>4, <1>5

LEMMA ReduceDoWhileStep == ASSUME IInv, NEW e \in Exprs, ReduceDoWhile(e) PROVE IInv'
<1>1. Going /\ value.ready /\ Top.kind = "do"
  BY GoesOn DEF ReduceDoWhile, Reducing
<1>2. PICK top, id, st, l1 : top = Top /\ id = Top.id /\ st = value.st /\ l1 = Top.l1
  OBVIOUS
<1>3. /\ Coded(ta_code) /\ id \in Nat /\ l1 \in LabelsOf(ta_code) /\ l1 # NoLabel
      /\ Top.true = {} /\ Top.false = {} /\ Top.goto1 = 0 /\ Top.st = Null
  <2>1. Framed(top, ta_code) /\ Coded(ta_code)
    BY <1>1, <1>2, TopIs
  <2>2. QED BY <1>1, <1>2, <2>1 DEF Framed, FrameType, Patches
<1>4. PICK wt \in Roles \X Nat, wf \in Roles \X Nat : wt = <<"body", id>> /\ wf = <<"after", id>>
  BY <1>3 DEF Roles
<1>5. PICK n, onward : n = NewLabel(ta_code) /\ onward = LastLabel(n)
  OBVIOUS
<1>6. Grows(ta_code, n) /\ Coded(n) /\ Unpatched(n) = Unpatched(ta_code) /\ onward \in LabelsOf(n)
  BY <1>3, <1>5, NewLabelGrows DEF Grows
<1>7. PICK v, d, T : v = Condition(n, e, wt, wf) /\ d = v.c /\ T = v.true
  OBVIOUS
<1>8. PICK vf : vf = v.false
  OBVIOUS
<1>9. /\ Grows(n, d) /\ Coded(d) /\ T \subseteq JumpsOf(d) /\ vf \subseteq JumpsOf(d)
      /\ Unpatched(d) = Unpatched(n) \cup T \cup vf
  <2>1. e \in {"plain", "and", "or"}
    BY Expressions
  <2>2. /\ Grows(n, v.c) /\ v.true \subseteq JumpsOf(v.c) /\ v.false \subseteq JumpsOf(v.c)
        /\ Unpatched(v.c) = Unpatched(n) \cup v.true \cup v.false
    BY <1>6, <1>7, <2>1, ConditionGrows
  <2>3. QED BY <1>7, <1>8, <2>2 DEF Grows
<1>10. PICK c, g : c = NewGotoCond(d, wf) /\ g = LastGoto(c)
  OBVIOUS
<1>11. Grows(d, c) /\ JumpsOf(c) = JumpsOf(d) \cup {g} /\ Unpatched(c) = Unpatched(d) \cup {g}
  BY <1>9, <1>10, NewGotoGrows
<1>12. PICK F : F = vf \cup {g}
  OBVIOUS
<1>13. Grows(n, c) /\ Grows(ta_code, c)
  <2>1. Grows(n, c)
    BY <1>9, <1>11, GrowsOn
  <2>2. QED BY <1>6, <2>1, GrowsOn
<1>14. /\ T \in SUBSET JumpsOf(c) /\ F \in SUBSET JumpsOf(c)
       /\ l1 \in Patches(c) /\ l1 \in LabelsOf(c) /\ onward \in LabelsOf(c)
  BY <1>3, <1>6, <1>9, <1>11, <1>12, <1>13 DEF Grows, Patches
<1>15. PICK p, x, add : p = <<"test", id>> /\ x = n.instrs /\ add = (p :> x)
  OBVIOUS
<1>16. Points(add, c)
  <2>1. PICK role \in Roles \ {"label", "case"} : role = "test"
    BY DEF Roles
  <2>2. p = <<role, id>>
    BY <1>15, <2>1
  <2>3. QED BY <1>3, <1>13, <1>15, <2>2, PointsOne
<1>17a. PICK role \in Roles : role = "body"
  BY DEF Roles
<1>17. PICK back : role = "body" /\ back = <<role, l1>>
  BY <1>17a DEF Roles
<1>18. LoopReduces(c, T, F, l1, onward, back, add)
  BY <1>2, <1>4, <1>5, <1>7, <1>8, <1>10, <1>12, <1>15, <1>17 DEF ReduceDoWhile
<1>19. ASSUME fault = "none"
       PROVE  Unpatched(c) \subseteq HeldIn(Below, Len(Below)) \cup T \cup F \cup ListsOf(value.st) \cup Waiting(idGoto)
  BY <1>1, <1>3, <1>6, <1>9, <1>11, <1>12, <1>19, HeldNow, NoListsOf
<1>20. Top.kind \in Loops
  BY <1>1 DEF Loops
<1>21. QED BY <1>1, <1>3, <1>13, <1>14, <1>16, <1>17, <1>18, <1>19, <1>20, LoopStep

(***************************************************************************)
(* switch and its cases.                                                   *)
(***************************************************************************)

\* A switch ends: every case it has is tested for.
LEMMA TestsAll ==
    ASSUME NEW c, Coded(c), \A k \in Keys : Top.own[k] \in Nat, \A k \in Keys : lblSwitch[k] \in Patches(c),
           IsFiniteSet({k \in Consts : lblSwitch[k] # NoLabel}), NEW d, d = Tests(c)
    PROVE  /\ Grows(c, d) /\ Unpatched(d) = Unpatched(c)
           /\ \A k \in Keys : lblSwitch[k] # NoLabel => Jumped(d, <<"case", Top.own[k]>>)
<1>1. PICK S : S = {k \in Consts : lblSwitch[k] # NoLabel}
  OBVIOUS
<1>2. S \in SUBSET Consts /\ IsFiniteSet(S) /\ \A k \in S : Testable(c, k)
  BY <1>1 DEF Testable, Patches, Keys
<1>3. PICK t : t = FoldSet(LAMBDA k, acc : Test(acc, k), c, S)
  OBVIOUS
<1>4. t \in After(c) /\ \A k \in S : Jumped(t, <<"case", Top.own[k]>>)
  BY <1>2, <1>3, TestsRight
<1>5. d = IF lblSwitch[Default] = NoLabel THEN t ELSE Test(t, Default)
  BY <1>1, <1>3, Zenon DEF Tests
<1>6. \A k \in Keys : k \in S \/ lblSwitch[k] = NoLabel \/ k = Default
  BY <1>1 DEF Keys
<1>7. CASE lblSwitch[Default] = NoLabel
  <2>1. d = t
    BY <1>5, <1>7
  <2>2. QED BY <1>4, <1>6, <1>7, <2>1 DEF After
<1>8. CASE lblSwitch[Default] # NoLabel
  <2>1. PICK k : k = Default
    OBVIOUS
  <2>2. k \in Consts \cup {Default} /\ Testable(c, k) /\ d = Test(t, k)
    BY <1>5, <1>8, <2>1 DEF Testable, Patches, Keys
  <2>3. d \in After(c) /\ Grows(t, d) /\ Jumped(d, <<"case", Top.own[k]>>)
    BY <1>4, <2>2, TestAfter
  <2>4. ASSUME NEW m \in S PROVE Jumped(d, <<"case", Top.own[m]>>)
    <3>1. PICK p : p = <<"case", Top.own[m]>>
      OBVIOUS
    <3>2. Jumped(t, p)
      BY <1>4, <3>1
    <3>3. Jumped(d, p)
      BY <2>3, <3>2, StillJumped
    <3>4. QED BY <3>1, <3>3
  <2>5. QED BY <1>6, <2>1, <2>3, <2>4 DEF After
<1>9. QED BY <1>7, <1>8

SwitchLeaves(ls, a, g) == ls = SwitchLists(a, g)

LEMMA SwitchListsAre ==
    ASSUME NEW c, NEW a \in [Lists -> SUBSET JumpsOf(c)], NEW g \in JumpsOf(c), NEW ls, SwitchLeaves(ls, a, g)
    PROVE  /\ ls \in [Lists -> SUBSET JumpsOf(c)]
           /\ ls["next"] = {g} \cup a["break"] \cup a["next"] /\ ls["break"] = {}
           /\ ls["continue"] = a["continue"] /\ ls["return"] = a["return"]
<1>1. PICK N : N = {g} \cup a["break"] \cup a["next"]
  OBVIOUS
<1>2. N \in SUBSET JumpsOf(c)
  BY <1>1 DEF Lists
<1>3. ls = [l \in Lists |-> IF l = "break" THEN {} ELSE IF l = "next" THEN N ELSE a[l]]
  BY <1>1 DEF SwitchLeaves, SwitchLists, Lists
<1>4. ls \in [Lists -> SUBSET JumpsOf(c)]
  BY <1>2, <1>3
<1>5. QED BY <1>1, <1>3, <1>4 DEF Lists

LEMMA TopOwns ==
    ASSUME Going
    PROVE  /\ \A k \in Keys : Top.own[k] \in Nat
           /\ fault = "none" => \A k \in Keys : Top.own[k] # 0 => lblSwitch[k] # NoLabel
<1>1. PICK top : top = Top
  OBVIOUS
<1>2. top.own \in [Keys -> Nat]
  BY <1>1, TopIs DEF Framed, FrameType
<1>3. PICK n \in Nat : n = Len(stack) /\ n \in 1 .. n
  BY DEF Going
<1>4. ASSUME fault = "none", NEW k \in Keys, Top.own[k] # 0 PROVE lblSwitch[k] # NoLabel
  <2>1. OwnCases(stack, lblSwitch)
    BY <1>4 DEF Going, IInv, Right
  <2>2. lblSwitch[k] # NoLabel \/ CaseOpen(stack, n, k)
    BY <1>3, <1>4, <2>1 DEF OwnCases, Top
  <2>3. ~CaseOpen(stack, n, k)
    BY <1>3 DEF CaseOpen
  <2>4. QED BY <2>2, <2>3
<1>5. QED BY <1>1, <1>2, <1>4

LEMMA ReduceSwitchStep == ASSUME IInv, ReduceSwitch PROVE IInv'
<1>1. Going /\ value.ready /\ Top.kind = "switch"
  BY GoesOn DEF ReduceSwitch, Reducing
<1>2. PICK top, id, st, t : top = Top /\ id = Top.id /\ st = value.st /\ t = Below
  OBVIOUS
<1>3. PICK g1 : g1 = Top.goto1
  OBVIOUS
<1>4. /\ Coded(ta_code) /\ StmtOK(st, ta_code) /\ id \in Nat /\ Pushes(t, top, stack)
      /\ Top.true = {} /\ Top.false = {} /\ ListsOf(Top.st) = {} /\ top.kind = "switch"
  <2>1. Framed(top, ta_code) /\ Coded(ta_code) /\ StmtOK(st, ta_code) /\ Pushes(t, top, stack)
    BY <1>1, <1>2, TopIs
  <2>2. QED BY <1>1, <1>2, <2>1, NoListsOf DEF Framed, FrameType
<1>5. /\ Shaped(ta_code, stack, value.st, idLabel, idGoto, lblSwitch, tmpSwitch, place, statements)
      /\ Switched(stack, ta_code, lblSwitch, tmpSwitch)
  BY <1>1 DEF Going, IInv, Shaped
<1>6. PICK w \in Roles \X Nat : w = <<"after", id>>
  BY <1>4 DEF Roles
<1>7. PICK n, g : n = NewGoto(ta_code, w) /\ g = LastGoto(n)
  OBVIOUS
<1>8. Grows(ta_code, n) /\ Coded(n) /\ g \in JumpsOf(n) /\ Unpatched(n) = Unpatched(ta_code) \cup {g}
  BY <1>4, <1>7, NewGotoGrows DEF Grows
<1>9. PICK m, l : m = NewLabel(n) /\ l = LastLabel(m)
  OBVIOUS
<1>10. Grows(n, m) /\ Coded(m) /\ JumpsOf(m) = JumpsOf(n) /\ Unpatched(m) = Unpatched(n) /\ l \in Patches(m) /\ l # NoLabel
  BY <1>8, <1>9, NewLabelGrows DEF Grows, Patches
<1>11. PICK one, b : one = {g1} /\ b = Backpatch(m, one, l)
  OBVIOUS
<1>12. Grows(m, b) /\ Coded(b) /\ JumpsOf(b) = JumpsOf(m) /\ Unpatched(b) = Unpatched(m) \ one
  <2>1. Grows(m, b) /\ JumpsOf(b) = JumpsOf(m) /\ Unpatched(b) = Unpatched(m) \ one
    BY <1>10, <1>11, BackpatchGrows
  <2>2. QED BY <2>1 DEF Grows
<1>13. PICK c : c = Tests(b)
  OBVIOUS
<1>14. Grows(ta_code, b) /\ Grows(m, b)
  <2>1. Grows(ta_code, m)
    BY <1>8, <1>10, GrowsOn
  <2>2. QED BY <1>12, <2>1, GrowsOn
<1>15. /\ Grows(b, c) /\ Unpatched(c) = Unpatched(b)
       /\ \A k \in Keys : lblSwitch[k] # NoLabel => Jumped(c, <<"case", Top.own[k]>>)
  <2>1. \A k \in Keys : Top.own[k] \in Nat
    BY <1>1, TopOwns
  <2>2. IsFiniteSet({k \in Consts : lblSwitch[k] # NoLabel}) /\ \A k \in Keys : lblSwitch[k] \in Patches(b)
    BY <1>5, <1>14 DEF Switched, Patches, Grows
  <2>3. QED BY <1>12, <1>13, <2>1, <2>2, TestsAll
<1>16. Grows(ta_code, c) /\ Grows(m, c)
  BY <1>14, <1>15, GrowsOn
<1>17. g \in JumpsOf(c) /\ StmtOK(st, c)
  <2>1. g \in JumpsOf(c)
    BY <1>8, <1>10, <1>16 DEF Grows
  <2>2. QED BY <1>4, <1>16, <2>1, StmtGrows
<1>18. PICK a, ls : a = st.lists /\ SwitchLeaves(ls, a, g)
  BY DEF SwitchLeaves
<1>19. /\ ls \in [Lists -> SUBSET JumpsOf(c)]
       /\ ls["next"] = {g} \cup a["break"] \cup a["next"] /\ ls["break"] = {}
       /\ ls["continue"] = a["continue"] /\ ls["return"] = a["return"]
  <2>1. a \in [Lists -> SUBSET JumpsOf(c)]
    BY <1>17, <1>18, ListsIn
  <2>2. QED BY <1>17, <1>18, <2>1, SwitchListsAre
<1>20. PICK r : r = Stmt(ls)
  OBVIOUS
<1>21. StmtOK(r, c) /\ r.lists = ls
  BY <1>19, <1>20, StmtIs
<1>22. Leaving(r, Below, Len(Below))
  <2>1. st.lists["continue"] # {} => Inside(Loops, Below, Len(Below))
    BY <1>1, <1>2, ValueLeaves DEF Loops
  <2>2. QED BY <1>18, <1>19, <1>21, <2>1 DEF Leaving
<1>23. PICK p, x, add : p = <<"dispatch", id>> /\ x = m.instrs /\ add = (p :> x)
  OBVIOUS
<1>24. Points(add, c)
  <2>1. PICK role \in Roles \ {"label", "case"} : role = "dispatch"
    BY DEF Roles
  <2>2. p = <<role, id>>
    BY <1>23, <2>1
  <2>3. QED BY <1>4, <1>16, <1>23, <2>2, PointsOne
<1>25. PICK lbl, tmp : lbl = [k \in DOMAIN lblSwitch |-> NoLabel] /\ tmp = NoLabel
  OBVIOUS
<1>26. Reduce(c, r, add) /\ lblSwitch' = lbl /\ tmpSwitch' = tmp /\ idLabel' = idLabel /\ idGoto' = idGoto /\ fault' = fault
  BY <1>2, <1>3, <1>6, <1>7, <1>9, <1>11, <1>13, <1>18, <1>20, <1>23, <1>25 DEF ReduceSwitch, SwitchLeaves
<1>27. Switched(Below, c, lbl, tmp)
  <2>1. lbl \in [Keys -> Nat] /\ \A k \in Keys : lbl[k] = NoLabel
    BY <1>5, <1>25 DEF Switched, NoLabel
  <2>2. {k \in Consts : lbl[k] # NoLabel} = {}
    BY <2>1 DEF Keys
  <2>3. IsFiniteSet({k \in Consts : lbl[k] # NoLabel})
    BY <2>2, FS_EmptySet
  <2>4. QED BY <1>25, <2>1, <2>3 DEF Switched, Patches
<1>28. Named(Below, c, idLabel, idGoto, place)
  <2>1. top.kind # "label"
    BY <1>4
  <2>2. \A k \in Names : Labelling(stack, k) => Labelling(t, k)
    BY <1>4, <2>1, LabellingMore
  <2>3. QED BY <1>2, <1>5, <1>16, <2>2, NamedMore DEF Shaped
<1>29. ASSUME fault' = "none"
       PROVE  /\ fault = "none" /\ CaseLess(add) /\ AllHeld(c, Below, r, idGoto)
              /\ \A k \in Keys : Top.own[k] # 0 => Jumped(c, <<"case", Top.own[k]>>)
  <2>1. fault = "none"
    BY <1>26, <1>29
  <2>2. ListsOf(r) = {g} \cup ListsOf(st)
    BY <1>18, <1>19, <1>21, ListsAre
  <2>3. AllHeld(c, Below, r, idGoto)
    BY <1>1, <1>2, <1>3, <1>4, <1>8, <1>10, <1>11, <1>12, <1>15, <2>1, <2>2, HeldNow DEF AllHeld
  <2>4. \A k \in Keys : Top.own[k] # 0 => lblSwitch[k] # NoLabel
    BY <1>1, <2>1, TopOwns
  <2>5. QED BY <1>15, <1>24, <2>1, <2>3, <2>4 DEF Points
<1>30. Placed(add, c) /\ NoLabelPoint(add) /\ Top.kind # "block"
  BY <1>1, <1>24 DEF Points
<1>31. QED BY <1>1, <1>16, <1>21, <1>22, <1>26, <1>27, <1>28, <1>29, <1>30, ReduceStep

\* A case gets its label, unless its key has one.
CaseSet(lbl, old, k, l) == lbl = [old EXCEPT ![k] = IF @ = NoLabel THEN l ELSE @]

LEMMA CasePlaced ==
    ASSUME Going, NEW t, Inside({"switch"}, t, Len(t)), NEW c, Grows(ta_code, c), NEW k \in Keys,
           NEW l \in Patches(c), l # NoLabel, NEW lbl, CaseSet(lbl, lblSwitch, k, l), NEW tmp \in Patches(c)
    PROVE  Switched(t, c, lbl, tmp) /\ lbl[k] # NoLabel /\ \A x \in Keys : lblSwitch[x] # NoLabel => lbl[x] # NoLabel
<1>1. Switched(stack, ta_code, lblSwitch, tmpSwitch)
  BY DEF Going, IInv, Shaped
<1>2. PICK old : old = lblSwitch
  OBVIOUS
<1>3. /\ old \in [Keys -> Nat] /\ \A x \in Keys : old[x] \in Patches(c)
  BY <1>1, <1>2 DEF Switched, Patches, Grows
<1>4. lbl = [x \in Keys |-> IF x = k /\ old[x] = NoLabel THEN l ELSE old[x]]
  BY <1>2, <1>3 DEF CaseSet
<1>5. l \in Nat
  BY DEF Patches, LabelsOf, NoLabel
<1>6. lbl \in [Keys -> Nat] /\ \A x \in Keys : lbl[x] = IF x = k /\ old[x] = NoLabel THEN l ELSE old[x]
  BY <1>3, <1>4, <1>5
<1>7. IsFiniteSet({x \in Consts : lbl[x] # NoLabel})
  <2>1. PICK S : S = {x \in Consts : old[x] # NoLabel}
    OBVIOUS
  <2>2. IsFiniteSet(S)
    BY <1>1, <1>2, <2>1 DEF Switched
  <2>3. PICK T : T = S \cup {k}
    OBVIOUS
  <2>4. IsFiniteSet(T)
    BY <2>2, <2>3, FS_AddElement
  <2>5. PICK U : U = {x \in Consts : lbl[x] # NoLabel}
    OBVIOUS
  <2>6. U \subseteq T
    BY <1>6, <2>1, <2>3, <2>5 DEF Keys
  <2>7. IsFiniteSet(U)
    BY <2>4, <2>6, FS_Subset
  <2>8. QED BY <2>5, <2>7
<1>8. \A x \in Keys : lbl[x] \in Patches(c)
  BY <1>3, <1>6
<1>9. Switched(t, c, lbl, tmp)
  BY <1>6, <1>7, <1>8 DEF Switched
<1>10. QED BY <1>2, <1>6, <1>9

LEMMA CaseReduces ==
    ASSUME Going, Top.kind \in {"case", "default"}, NEW c, Grows(ta_code, c), NEW r, StmtOK(r, c),
           r.lists["continue"] = {}, r.lists["break"] = value.st.lists["break"],
           NEW add, add = <<>>, Reduce(c, r, add), CaseSet(lblSwitch', lblSwitch, Top.l2, Top.l1),
           tmpSwitch' \in Patches(c), UNCHANGED <<idLabel, idGoto>>,
           fault' = "none" => fault = "none" /\ AllHeld(c, Below, r, idGoto)
    PROVE  IInv'
<1>1. PICK top, t, lbl, tmp : top = Top /\ t = Below /\ lbl = lblSwitch' /\ tmp = tmpSwitch'
  OBVIOUS
<1>2. PICK k, l : k = Top.l2 /\ l = Top.l1
  OBVIOUS
<1>3. /\ Framed(top, ta_code) /\ Pushes(t, top, stack) /\ Opens(top, t) /\ top.kind \in {"case", "default"}
  BY <1>1, TopIs
<1>4. /\ k \in Keys /\ l \in Patches(ta_code) /\ l # NoLabel /\ Inside({"switch"}, t, Len(t))
      /\ \A x \in Keys : Top.own[x] = 0
  BY <1>1, <1>2, <1>3 DEF Framed, Opens
<1>5. l \in Patches(c)
  BY <1>4 DEF Patches, Grows
<1>6. CaseSet(lbl, lblSwitch, k, l) /\ tmp \in Patches(c)
  BY <1>1, <1>2
<1>7. Switched(t, c, lbl, tmp) /\ lbl[k] # NoLabel /\ \A x \in Keys : lblSwitch[x] # NoLabel => lbl[x] # NoLabel
  BY <1>4, <1>5, <1>6, CasePlaced
<1>8. Named(t, c, idLabel, idGoto, place)
  <2>1. top.kind # "label"
    BY <1>3
  <2>2. \A n \in Names : Labelling(stack, n) => Labelling(t, n)
    BY <1>3, <2>1, LabellingMore
  <2>3. QED BY <2>2, NamedMore DEF Going, IInv, Shaped
<1>9. Leaving(r, Below, Len(Below))
  <2>1. Leaving(value.st, Below, Len(Below))
    BY ValueLeaves DEF Breakable, Loops
  <2>2. QED BY <2>1 DEF Leaving
<1>10. Placed(add, c) /\ NoLabelPoint(add) /\ CaseLess(add)
  BY PointsNone DEF Points
<1>11. Switched(Below, c, lbl, tmp) /\ Named(Below, c, idLabel, idGoto, place)
  BY <1>1, <1>7, <1>8
<1>12. fault' = "none" =>
           /\ fault = "none" /\ CaseLess(add) /\ AllHeld(c, Below, r, idGoto)
           /\ \A x \in Keys : Top.own[x] # 0 => Jumped(c, <<"case", Top.own[x]>>)
           /\ \/ Top.kind = "switch"
              \/ /\ \A x \in Keys : lblSwitch[x] # NoLabel => lbl[x] # NoLabel
                 /\ Top.kind \in {"case", "default"} => lbl[Top.l2] # NoLabel
  BY <1>2, <1>4, <1>7, <1>10
<1>13. idLabel' = idLabel /\ idGoto' = idGoto /\ lblSwitch' = lbl /\ tmpSwitch' = tmp /\ Top.kind # "block"
  BY <1>1
<1>14. QED BY <1>9, <1>10, <1>11, <1>12, <1>13, ReduceStep

\* A case's statement without its continues.
Uncontinued(ls, a) == ls = [a EXCEPT !["continue"] = {}]

LEMMA UncontinuedIs ==
    ASSUME NEW c, NEW a \in [Lists -> SUBSET JumpsOf(c)], NEW ls, Uncontinued(ls, a)
    PROVE  /\ ls \in [Lists -> SUBSET JumpsOf(c)]
           /\ ls["next"] = a["next"] /\ ls["break"] = a["break"]
           /\ ls["continue"] = {} /\ ls["return"] = a["return"]
<1>1. ls = [l \in Lists |-> IF l = "continue" THEN {} ELSE a[l]]
  BY DEF Uncontinued, Lists
<1>2. ls \in [Lists -> SUBSET JumpsOf(c)]
  BY <1>1
<1>3. QED BY <1>1, <1>2 DEF Lists

LEMMA ReduceCaseStep == ASSUME IInv, ReduceCase PROVE IInv'
<1>1. Going /\ value.ready /\ Top.kind = "case"
  BY GoesOn DEF ReduceCase, Reducing
<1>2. PICK st, c, none : st = value.st /\ c = ta_code /\ none = <<>>
  OBVIOUS
<1>3. /\ Coded(c) /\ StmtOK(st, c) /\ Grows(ta_code, c)
      /\ Top.true = {} /\ Top.false = {} /\ Top.goto1 = 0 /\ ListsOf(Top.st) = {}
  <2>1. Framed(Top, ta_code) /\ Coded(ta_code) /\ StmtOK(value.st, ta_code)
    BY <1>1, TopIs
  <2>2. QED BY <1>1, <1>2, <2>1, GrowsSelf, NoListsOf DEF Framed
<1>4. PICK a, ls : a = st.lists /\ Uncontinued(ls, a)
  BY DEF Uncontinued
<1>5. /\ ls \in [Lists -> SUBSET JumpsOf(c)]
      /\ ls["next"] = a["next"] /\ ls["break"] = a["break"] /\ ls["continue"] = {} /\ ls["return"] = a["return"]
  <2>1. a \in [Lists -> SUBSET JumpsOf(c)]
    BY <1>3, <1>4, ListsIn
  <2>2. QED BY <1>4, <2>1, UncontinuedIs
<1>6. PICK r : r = Stmt(ls)
  OBVIOUS
<1>7. StmtOK(r, c) /\ r.lists = ls
  BY <1>5, <1>6, StmtIs
<1>8. /\ Reduce(c, r, none) /\ CaseSet(lblSwitch', lblSwitch, Top.l2, Top.l1)
      /\ tmpSwitch' = tmpSwitch /\ UNCHANGED <<idLabel, idGoto>>
  BY <1>2, <1>4, <1>6 DEF ReduceCase, Uncontinued, CaseSet
<1>9. tmpSwitch' \in Patches(c)
  BY <1>1, <1>2, <1>8 DEF Going, IInv, Shaped, Switched
<1>10. ASSUME fault' = "none" PROVE fault = "none" /\ AllHeld(c, Below, r, idGoto)
  <2>1. fault = "none" /\ a["continue"] = {}
    BY <1>2, <1>4, <1>10 DEF ReduceCase, Blame
  <2>2. ListsOf(r) = ListsOf(st)
    BY <1>4, <1>5, <1>7, <2>1, ListsAre
  <2>3. QED BY <1>1, <1>2, <1>3, <2>1, <2>2, HeldNow DEF AllHeld
<1>11. r.lists["continue"] = {} /\ r.lists["break"] = value.st.lists["break"]
  BY <1>2, <1>4, <1>5, <1>7
<1>12. QED BY <1>1, <1>2, <1>3, <1>7, <1>8, <1>9, <1>10, <1>11, CaseReduces

DefaultLeaves(ls, a) == ls = [a EXCEPT !["next"] = @ \cup a["break"], !["continue"] = {}]

LEMMA DefaultLeavesIs ==
    ASSUME NEW c, NEW a \in [Lists -> SUBSET JumpsOf(c)], NEW ls, DefaultLeaves(ls, a)
    PROVE  /\ ls \in [Lists -> SUBSET JumpsOf(c)]
           /\ ls["next"] = a["next"] \cup a["break"] /\ ls["break"] = a["break"]
           /\ ls["continue"] = {} /\ ls["return"] = a["return"]
<1>1. PICK N : N = a["next"] \cup a["break"]
  OBVIOUS
<1>2. N \in SUBSET JumpsOf(c)
  BY <1>1 DEF Lists
<1>3. ls = [l \in Lists |-> IF l = "continue" THEN {} ELSE IF l = "next" THEN N ELSE a[l]]
  BY <1>1 DEF DefaultLeaves, Lists
<1>4. ls \in [Lists -> SUBSET JumpsOf(c)]
  BY <1>2, <1>3
<1>5. QED BY <1>1, <1>3, <1>4 DEF Lists

LEMMA ReduceDefaultStep == ASSUME IInv, ReduceDefault PROVE IInv'
<1>1. Going /\ value.ready /\ Top.kind = "default"
  BY GoesOn DEF ReduceDefault, Reducing
<1>2. PICK st, next, l, none : st = value.st /\ next = st.lists["next"] /\ l = tmpSwitch /\ none = <<>>
  OBVIOUS
<1>3. /\ Coded(ta_code) /\ StmtOK(st, ta_code) /\ l \in Patches(ta_code) /\ Top.l1 \in Patches(ta_code)
      /\ Top.l2 = Default
      /\ Top.true = {} /\ Top.false = {} /\ Top.goto1 = 0 /\ ListsOf(Top.st) = {}
  <2>1. Framed(Top, ta_code) /\ Coded(ta_code) /\ StmtOK(value.st, ta_code)
    BY <1>1, TopIs
  <2>2. l \in Patches(ta_code)
    BY <1>1, <1>2 DEF Going, IInv, Shaped, Switched
  <2>3. QED BY <1>1, <1>2, <2>1, <2>2, NoListsOf DEF Framed
<1>4. PICK c : c = Backpatch(ta_code, next, l)
  OBVIOUS
<1>5. Grows(ta_code, c) /\ Unpatched(c) \subseteq Unpatched(ta_code)
  <2>1. Grows(ta_code, c) /\ Unpatched(c) = IF l = NoLabel THEN Unpatched(ta_code) ELSE Unpatched(ta_code) \ next
    BY <1>3, <1>4, BackpatchGrows
  <2>2. QED BY <2>1
<1>6. StmtOK(st, c)
  BY <1>3, <1>5, StmtGrows
<1>7. PICK a, ls : a = st.lists /\ DefaultLeaves(ls, a)
  BY DEF DefaultLeaves
<1>8. /\ ls \in [Lists -> SUBSET JumpsOf(c)]
      /\ ls["next"] = a["next"] \cup a["break"] /\ ls["break"] = a["break"]
      /\ ls["continue"] = {} /\ ls["return"] = a["return"]
  <2>1. a \in [Lists -> SUBSET JumpsOf(c)]
    BY <1>6, <1>7, ListsIn
  <2>2. QED BY <1>7, <2>1, DefaultLeavesIs
<1>9. PICK r : r = Stmt(ls)
  OBVIOUS
<1>10. StmtOK(r, c) /\ r.lists = ls
  BY <1>8, <1>9, StmtIs
<1>11. Reduce(c, r, none) /\ tmpSwitch' = Top.l1 /\ UNCHANGED <<idLabel, idGoto>>
  BY <1>2, <1>4, <1>7, <1>9 DEF ReduceDefault, DefaultLeaves
<1>12. CaseSet(lblSwitch', lblSwitch, Top.l2, Top.l1)
  BY <1>3 DEF ReduceDefault, CaseSet
<1>13. tmpSwitch' \in Patches(c)
  BY <1>3, <1>5, <1>11 DEF Patches, Grows
<1>14. ASSUME fault' = "none" PROVE fault = "none" /\ AllHeld(c, Below, r, idGoto)
  <2>1. fault = "none" /\ a["continue"] = {}
    BY <1>2, <1>7, <1>14 DEF ReduceDefault, Blame
  <2>2. ListsOf(r) = ListsOf(st)
    BY <1>7, <1>8, <1>10, <2>1, ListsAre
  <2>3. QED BY <1>1, <1>2, <1>3, <1>5, <2>1, <2>2, HeldNow DEF AllHeld
<1>15. r.lists["continue"] = {} /\ r.lists["break"] = value.st.lists["break"]
  BY <1>2, <1>7, <1>8, <1>10
<1>16. QED BY <1>1, <1>2, <1>5, <1>10, <1>11, <1>12, <1>13, <1>14, <1>15, CaseReduces

(***************************************************************************)
(* Labels, and the end of a function.                                      *)
(***************************************************************************)

\* A label is known from here on, and the jumps that waited for it have it.
Known(labels, gotos, n, l) ==
    /\ labels = [idLabel EXCEPT ![n] = IF idLabel[n] = NoLabel THEN l ELSE @]
    /\ gotos = [idGoto EXCEPT ![n] = IF idLabel[n] = NoLabel THEN {} ELSE @]

LEMMA KnownIs ==
    ASSUME Going, NEW n \in Names, NEW c, Grows(ta_code, c), NEW l \in LabelsOf(c), NEW labels, NEW gotos,
           Known(labels, gotos, n, l), NEW f, f.kind = "label", f.l2 = n, NEW t, Pushes(t, f, stack)
    PROVE  /\ Named(t, c, labels, gotos, place) /\ labels[n] # NoLabel /\ gotos[n] = {}
           /\ \A m \in Names : m # n => gotos[m] = idGoto[m]
<1>1. PICK old, was : old = idLabel /\ was = idGoto
  OBVIOUS
<1>2. Named(stack, ta_code, old, was, place)
  BY <1>1 DEF Going, IInv, Shaped
<1>3. /\ old \in [Names -> Int] /\ was \in [Names -> SUBSET Nat] /\ l \in Int /\ l # NoLabel
      /\ l \in Targets(c) /\ Targets(ta_code) \subseteq Targets(c) /\ JumpsOf(ta_code) \subseteq JumpsOf(c)
  BY <1>2 DEF Named, LabelsOf, NoLabel, Targets, Grows
<1>4. /\ labels = [m \in Names |-> IF m = n /\ old[m] = NoLabel THEN l ELSE old[m]]
      /\ gotos = [m \in Names |-> IF m = n /\ old[m] = NoLabel THEN {} ELSE was[m]]
  BY <1>1, <1>3 DEF Known
<1>5. labels \in [Names -> Int] /\ gotos \in [Names -> SUBSET Nat]
  BY <1>3, <1>4
<1>6. \A m \in Names : /\ labels[m] = IF m = n /\ old[m] = NoLabel THEN l ELSE old[m]
                       /\ gotos[m] = IF m = n /\ old[m] = NoLabel THEN {} ELSE was[m]
  BY <1>4
<1>7. \A m \in Names : Labelling(stack, m) => Labelling(t, m) \/ m = n
  BY LabellingMore
<1>8. ASSUME NEW m \in Names
      PROVE  /\ labels[m] \in Targets(c) /\ gotos[m] \subseteq JumpsOf(c)
             /\ labels[m] # NoLabel => gotos[m] = {}
             /\ <<"label", m>> \in DOMAIN place => labels[m] # NoLabel \/ Labelling(t, m)
             /\ m = n => labels[m] # NoLabel
  <2>1. /\ old[m] \in Targets(ta_code) /\ was[m] \subseteq JumpsOf(ta_code)
        /\ old[m] # NoLabel => was[m] = {}
        /\ <<"label", m>> \in DOMAIN place => old[m] # NoLabel \/ Labelling(stack, m)
    BY <1>2 DEF Named
  <2>2. CASE m = n /\ old[m] = NoLabel
    BY <1>3, <1>6, <2>2
  <2>3. CASE ~(m = n /\ old[m] = NoLabel)
    <3>1. labels[m] = old[m] /\ gotos[m] = was[m]
      BY <1>6, <2>3
    <3>2. QED BY <1>3, <1>7, <2>1, <2>3, <3>1
  <2>4. QED BY <2>2, <2>3
<1>9. Named(t, c, labels, gotos, place)
  BY <1>5, <1>8 DEF Named
<1>10. QED BY <1>1, <1>6, <1>8, <1>9

LEMMA ReduceLabelStep == ASSUME IInv, ReduceLabel PROVE IInv'
<1>1. Going /\ value.ready /\ Top.kind = "label"
  BY GoesOn DEF ReduceLabel, Reducing
<1>2. PICK top, t, n, l, st : top = Top /\ t = Below /\ n = Top.l2 /\ l = Top.l1 /\ st = value.st
  OBVIOUS
<1>3. /\ Coded(ta_code) /\ StmtOK(st, ta_code) /\ Pushes(t, top, stack) /\ top.kind = "label"
      /\ n \in Names /\ top.l2 = n /\ l \in LabelsOf(ta_code) /\ l \in Patches(ta_code) /\ l # NoLabel
      /\ Top.true = {} /\ Top.false = {} /\ Top.goto1 = 0 /\ ListsOf(Top.st) = {}
      /\ \A k \in Keys : Top.own[k] = 0
  <2>1. Framed(top, ta_code) /\ Coded(ta_code) /\ StmtOK(st, ta_code) /\ Pushes(t, top, stack)
    BY <1>1, <1>2, TopIs
  <2>2. QED BY <1>1, <1>2, <2>1, NoListsOf DEF Framed, Patches
<1>4. /\ Shaped(ta_code, stack, value.st, idLabel, idGoto, lblSwitch, tmpSwitch, place, statements)
      /\ Switched(stack, ta_code, lblSwitch, tmpSwitch)
  BY <1>1 DEF Going, IInv, Shaped
<1>5. PICK list, fresh : list = idGoto[n] /\ fresh = (idLabel[n] = NoLabel)
  OBVIOUS
<1>6. PICK c : c = IF idLabel[n] = NoLabel THEN Backpatch(ta_code, list, l) ELSE ta_code
  OBVIOUS
<1>7. /\ Grows(ta_code, c) /\ (idLabel[n] = NoLabel => Unpatched(c) = Unpatched(ta_code) \ list)
  <2>1. CASE idLabel[n] = NoLabel
    <3>1. c = Backpatch(ta_code, list, l)
      BY <1>6, <2>1
    <3>2. QED BY <1>3, <3>1, BackpatchGrows
  <2>2. CASE idLabel[n] # NoLabel
    BY <1>3, <1>6, <2>2, GrowsSelf
  <2>3. QED BY <2>1, <2>2
<1>8. PICK r, ls, none : r = Stmt(ls) /\ ls = NoLists /\ none = <<>>
  OBVIOUS
<1>9. StmtOK(r, c) /\ r.lists = ls
  <2>1. ls \in [Lists -> SUBSET JumpsOf(c)]
    BY <1>8 DEF NoLists
  <2>2. QED BY <1>8, <2>1, StmtIs
<1>10. Leaving(r, Below, Len(Below))
  BY <1>8, <1>9, NoLeaving DEF NoLists, Lists
<1>11. PICK labels, gotos : labels = idLabel' /\ gotos = idGoto'
  OBVIOUS
<1>12. Reduce(c, r, none) /\ UNCHANGED <<lblSwitch, tmpSwitch>>
  BY <1>2, <1>5, <1>6, <1>8 DEF ReduceLabel, Resolve
<1>13. Known(labels, gotos, n, l)
  BY <1>2, <1>11 DEF ReduceLabel, Known
<1>14. l \in LabelsOf(c)
  BY <1>3, <1>7 DEF Grows
<1>15. /\ Named(t, c, labels, gotos, place) /\ gotos[n] = {} /\ \A m \in Names : m # n => gotos[m] = idGoto[m]
  BY <1>1, <1>3, <1>7, <1>13, <1>14, KnownIs
<1>16. Switched(t, c, lblSwitch, tmpSwitch)
  <2>1. top.kind # "switch"
    BY <1>3
  <2>2. Switching(stack, t)
    BY <1>3, <2>1, SwitchingPop
  <2>3. QED BY <1>4, <1>7, <2>2, SwitchedMore
<1>17. Placed(none, c) /\ NoLabelPoint(none) /\ CaseLess(none)
  BY <1>8, PointsNone DEF Points
<1>18. ASSUME fault' = "none"
       PROVE  /\ fault = "none" /\ CaseLess(none) /\ AllHeld(c, Below, r, gotos)
              /\ \A k \in Keys : Top.own[k] # 0 => Jumped(c, <<"case", Top.own[k]>>)
              /\ \/ Top.kind = "switch"
                 \/ /\ \A k \in Keys : lblSwitch[k] # NoLabel => lblSwitch[k] # NoLabel
                    /\ Top.kind \in {"case", "default"} => lblSwitch[Top.l2] # NoLabel
  <2>1. fault = "none" /\ idLabel[n] = NoLabel /\ st.lists = NoLists
    BY <1>2, <1>18 DEF ReduceLabel, Blame
  <2>2. ListsOf(st) = {}
    BY <2>1 DEF ListsOf, NoLists
  <2>3. Waiting(idGoto) \subseteq Waiting(gotos) \cup list
    BY <1>5, <1>15 DEF Waiting
  <2>4. AllHeld(c, Below, r, gotos)
    BY <1>1, <1>2, <1>3, <1>7, <2>1, <2>2, <2>3, HeldNow DEF AllHeld
  <2>5. QED BY <1>1, <1>3, <1>17, <2>1, <2>4
<1>19. Switched(Below, c, lblSwitch, tmpSwitch) /\ Named(Below, c, labels, gotos, place) /\ Top.kind # "block"
  BY <1>1, <1>2, <1>15, <1>16
<1>20. idLabel' = labels /\ idGoto' = gotos /\ lblSwitch' = lblSwitch /\ tmpSwitch' = tmpSwitch
  BY <1>11, <1>12
<1>21. QED BY <1>1, <1>7, <1>9, <1>10, <1>12, <1>17, <1>18, <1>19, <1>20, ReduceStep

LEMMA CrashStep == ASSUME IInv, Crash PROVE IInv'
<1>1. /\ UNCHANGED <<ta_code, stack, value, idLabel, idGoto, lblSwitch, tmpSwitch, place, statements, bound, fault>>
      /\ phase' = "crashed"
  BY DEF Crash, globals
<1>2. MaxStatements' = MaxStatements
  BY <1>1 DEF MaxStatements
<1>3. QED BY <1>1, <1>2 DEF IInv

LEMMA DoneStep == ASSUME IInv, UNCHANGED vars PROVE IInv'
<1>1. UNCHANGED <<ta_code, stack, value, idLabel, idGoto, lblSwitch, tmpSwitch, place, statements, bound, fault, phase>>
  BY DEF vars, globals
<1>2. MaxStatements' = MaxStatements
  BY <1>1 DEF MaxStatements
<1>3. QED BY <1>1, <1>2 DEF IInv

LEMMA BodyFramed ==
    ASSUME NEW c, NEW f, f = Body
    PROVE  Framed(f, c) /\ Ownless(f) /\ f.st = Null /\ f.kind = "block" /\ f.id = 0
<1>1a. PICK k \in Compound, no \in Patches(c) : k = "block" /\ no = 0
  BY DEF Compound, Patches, NoLabel
<1>1. PICK none : k = "block" /\ none = {} /\ no = 0
  BY <1>1a DEF Compound, Patches, NoLabel
<1>2. PICK id \in Nat : id = 0
  OBVIOUS
<1>3. k = "block" /\ none = {} /\ no = 0 /\ no \in Nat /\ no \in JumpsOf(c) \cup {0} /\ none \in SUBSET JumpsOf(c)
  BY <1>1
<1>4. Made(f, k, id, none, none, no, no, no)
  BY <1>2, <1>3 DEF Made, Body, Frame, Keys, NoLabel
<1>5. Framed(f, c) /\ Ownless(f) /\ f.st = Null /\ f.kind = k /\ f.id = id
  BY <1>3, <1>4, MadeFrame DEF Compound
<1>6. QED BY <1>2, <1>3, <1>5

\* A function that begins.
Begins(c, s, points) == c = NoCode /\ s = <<Body>> /\ points = <<>>

\* No label is known of this function, and no jump and no case wait for one.
Blank(labels, gotos, lbl, tmp) ==
    /\ labels \in [Names -> {NoLabel, Elsewhere}]
    /\ gotos \in [Names -> SUBSET Nat] /\ \A n \in Names : gotos[n] = {}
    /\ lbl \in [Keys -> Nat] /\ \A k \in Keys : lbl[k] = NoLabel
    /\ tmp = NoLabel

LEMMA Beginning ==
    ASSUME NEW labels, NEW gotos, NEW lbl, NEW tmp, Blank(labels, gotos, lbl, tmp),
           NEW c, NEW s, NEW points, Begins(c, s, points)
    PROVE  /\ Shaped(c, s, Null, labels, gotos, lbl, tmp, points, 0) /\ s # <<>> /\ s[1].kind = "block"
           /\ Right(c, s, Len(s) - 1, Null, gotos, lbl, points) /\ Unpatched(c) = {}
<1>0. /\ labels \in [Names -> {NoLabel, Elsewhere}]
      /\ gotos \in [Names -> SUBSET Nat] /\ \A n \in Names : gotos[n] = {}
      /\ lbl \in [Keys -> Nat] /\ \A k \in Keys : lbl[k] = NoLabel
      /\ tmp = NoLabel /\ c = NoCode /\ s = <<Body>> /\ points = <<>>
  BY DEF Begins, Blank
<1>1. Coded(c) /\ JumpsOf(c) = {} /\ LabelsOf(c) = {} /\ Unpatched(c) = {}
  <2>1. c.instrs = 0 /\ c.labels = <<>> /\ c.gotos = <<>> /\ c = [instrs |-> 0, labels |-> <<>>, gotos |-> <<>>]
    BY <1>0 DEF NoCode
  <2>2. JumpsOf(c) = {} /\ LabelsOf(c) = {}
    BY <2>1 DEF JumpsOf, LabelsOf
  <2>3. c \in CodeType
    BY <2>1 DEF CodeType
  <2>4. QED BY <2>2, <2>3 DEF Coded, Unpatched
<1>2. PICK f : f = Body
  OBVIOUS
<1>5. Framed(f, c) /\ Ownless(f) /\ f.st = Null /\ f.kind = "block" /\ f.id = 0
  BY <1>2, BodyFramed
<1>6. s = <<f>> /\ f \in FrameType
  BY <1>0, <1>2, <1>5 DEF Framed
<1>7. s \in Seq(FrameType) /\ Len(s) = 1 /\ s[1] = f /\ 1 \in 1 .. Len(s) /\ \A i \in 1 .. Len(s) : i = 1
  BY <1>6
<1>8. Framing(s, c, 0)
  BY <1>5, <1>7 DEF Framing
<1>9. Leaving(Null, s, Len(s)) /\ Leaving(Null, s, 0) /\ StmtOK(Null, c)
  BY NullOK DEF Leaving, NoLists, Lists
<1>10. Nested(s)
  BY <1>2, <1>5, <1>7, <1>9 DEF Nested
<1>11. Switched(s, c, lbl, tmp)
  <2>1. {k \in Consts : lbl[k] # NoLabel} = {}
    BY <1>0 DEF Keys
  <2>2. IsFiniteSet({k \in Consts : lbl[k] # NoLabel})
    BY <2>1, FS_EmptySet
  <2>3. QED BY <1>0, <2>2 DEF Switched, Patches
<1>12. Named(s, c, labels, gotos, points)
  BY <1>0 DEF Named, Targets, NoLabel, Elsewhere
<1>13. Placed(points, c) /\ CasesKept(s, c, points)
  BY <1>0 DEF Placed, CasesKept
<1>14. Shaped(c, s, Null, labels, gotos, lbl, tmp, points, 0)
  BY <1>1, <1>8, <1>9, <1>10, <1>11, <1>12, <1>13 DEF Shaped
<1>15. Settled(s, Len(s) - 1, c)
  BY <1>7 DEF Settled
<1>16. OwnCases(s, lbl)
  BY <1>5, <1>7 DEF OwnCases, Ownless
<1>17. AllHeld(c, s, Null, gotos)
  BY <1>1 DEF AllHeld
<1>18. s # <<>> /\ s[1].kind = "block"
  BY <1>5, <1>6, <1>7
<1>19. QED BY <1>1, <1>13, <1>14, <1>15, <1>16, <1>17, <1>18 DEF Right

LEMMA InitRight == ASSUME Init PROVE IInv
<1>1. /\ ta_code = NoCode /\ stack = <<Body>> /\ value = [ready |-> FALSE, st |-> Null]
      /\ tmpSwitch = NoLabel /\ place = <<>> /\ statements = 0 /\ phase = "parse" /\ bound \in Bounds
  BY DEF Init
<1>2. /\ idLabel \in [Names -> {NoLabel, Elsewhere}] /\ idGoto \in [Names -> SUBSET Nat]
      /\ \A n \in Names : idGoto[n] = {}
      /\ lblSwitch \in [Keys -> Nat] /\ \A k \in Keys : lblSwitch[k] = NoLabel
  BY DEF Init, Keys, NoLabel
<1>3. /\ Shaped(ta_code, stack, Null, idLabel, idGoto, lblSwitch, tmpSwitch, place, 0)
      /\ stack # <<>> /\ stack[1].kind = "block"
      /\ Right(ta_code, stack, Len(stack) - 1, Null, idGoto, lblSwitch, place)
  <2>1. Begins(ta_code, stack, place) /\ Blank(idLabel, idGoto, lblSwitch, tmpSwitch)
    BY <1>1, <1>2 DEF Begins, Blank
  <2>2. QED BY <2>1, Beginning
<1>4. value.st = Null /\ ~value.ready /\ value.ready \in BOOLEAN /\ value \in [ready : BOOLEAN, st : StmtType]
  BY <1>1, NullOK DEF StmtOK
<1>5. statements <= MaxStatements
  BY <1>1, StatementsAssumption DEF MaxStatements
<1>6. Depth(stack, value.ready) = Len(stack) - 1 /\ Parsing(stack, value.ready, value.st)
  BY <1>3, <1>4 DEF Depth, Parsing
<1>7. QED BY <1>1, <1>3, <1>4, <1>5, <1>6 DEF IInv

LEMMA NextFunctionStep == ASSUME IInv, NextFunction PROVE IInv'
<1>1. /\ stack = <<>> /\ ~value.ready /\ value.st = Null /\ value.ready \in BOOLEAN
      /\ value \in [ready : BOOLEAN, st : StmtType] /\ bound \in Bounds
      /\ Switched(stack, ta_code, lblSwitch, tmpSwitch)
  BY DEF NextFunction, IInv, Shaped
<1>2. /\ lblSwitch \in [Keys -> Nat] /\ tmpSwitch = NoLabel /\ \A k \in Keys : lblSwitch[k] = NoLabel
  <2>1. ~Inside({"switch"}, stack, Len(stack))
    BY <1>1 DEF Inside
  <2>2. QED BY <1>1, <2>1 DEF Switched
<1>3. PICK c, s, points, labels, gotos : /\ c = NoCode /\ s = <<Body>> /\ points = <<>>
                                         /\ labels = idLabel' /\ gotos = idGoto'
  OBVIOUS
<1>4. /\ ta_code' = c /\ stack' = s /\ place' = points /\ phase' = "parse" /\ statements' = 0
      /\ UNCHANGED <<value, lblSwitch, tmpSwitch, fault, bound>>
  BY <1>3 DEF NextFunction
<1>5. labels \in [Names -> {NoLabel, Elsewhere}] /\ gotos \in [Names -> SUBSET Nat] /\ \A n \in Names : gotos[n] = {}
  BY <1>3 DEF NextFunction
<1>6. /\ Shaped(c, s, Null, labels, gotos, lblSwitch, tmpSwitch, points, 0) /\ s # <<>> /\ s[1].kind = "block"
      /\ Right(c, s, Len(s) - 1, Null, gotos, lblSwitch, points)
  <2>1. Begins(c, s, points) /\ Blank(labels, gotos, lblSwitch, tmpSwitch)
    BY <1>2, <1>3, <1>5 DEF Begins, Blank
  <2>2. QED BY <2>1, Beginning
<1>7. statements' <= MaxStatements' /\ bound' \in Bounds
  BY <1>1, <1>4, StatementsAssumption DEF MaxStatements
<1>8. Depth(s, value.ready) = Len(s) - 1 /\ Parsing(s, value.ready, Null)
  BY <1>1, <1>6 DEF Depth, Parsing
<1>9. QED BY <1>1, <1>3, <1>4, <1>6, <1>7, <1>8 DEF IInv

\* A function's body is all that is open when it ends.
LEMMA BodyIs ==
    ASSUME IInv, BodyEnds
    PROVE  /\ Going /\ Len(stack) = 1 /\ value.st = Null /\ ~value.ready /\ Framed(Top, ta_code)
           /\ Top.kind = "block" /\ Top.st.lists["break"] = {} /\ Top.st.lists["continue"] = {}
           /\ \A n \in Names : ~Labelling(stack, n)
           /\ \A i \in 1 .. Len(stack) : i = 1 /\ stack[i] = Top
<1>1. Going /\ Len(stack) = 1 /\ ~value.ready
  BY GoesOn DEF BodyEnds
<1>2. value.st = Null
  BY <1>1 DEF Going, IInv, Parsing
<1>3. Top = stack[1] /\ 1 \in 1 .. Len(stack) /\ \A i \in 1 .. Len(stack) : i = 1
  BY <1>1 DEF Top
<1>4. Framed(Top, ta_code) /\ Top.kind = "block"
  BY <1>1, <1>3 DEF Going, Framing
<1>5. Leaving(Top.st, stack, 0)
  BY <1>1, <1>3 DEF Going, IInv, Shaped, Nested
<1>6. Top.st.lists["break"] = {} /\ Top.st.lists["continue"] = {}
  BY <1>5 DEF Leaving, Inside
<1>7. \A n \in Names : ~Labelling(stack, n)
  BY <1>3, <1>4 DEF Labelling
<1>8. QED BY <1>1, <1>2, <1>3, <1>4, <1>6, <1>7

LEMMA EndFunctionStep == ASSUME IInv, EndFunction PROVE IInv'
<1>1. BodyEnds /\ phase = "parse"
  BY DEF EndFunction, BodyEnds
<1>2. PICK top : top = Top
  OBVIOUS
<1>3. /\ Going /\ Len(stack) = 1 /\ value.st = Null /\ ~value.ready /\ Framed(top, ta_code)
      /\ top.kind = "block" /\ top.st.lists["break"] = {} /\ top.st.lists["continue"] = {}
      /\ \A n \in Names : ~Labelling(stack, n)
      /\ \A i \in 1 .. Len(stack) : i = 1 /\ stack[i] = top
  BY <1>1, <1>2, BodyIs
<1>4. /\ Shaped(ta_code, stack, value.st, idLabel, idGoto, lblSwitch, tmpSwitch, place, statements)
      /\ Coded(ta_code) /\ Placed(place, ta_code) /\ Switched(stack, ta_code, lblSwitch, tmpSwitch)
      /\ Named(stack, ta_code, idLabel, idGoto, place)
  BY <1>3 DEF Going, IInv, Shaped
<1>5. PICK ret, next : ret = top.st.lists["return"] /\ next = top.st.lists["next"]
  OBVIOUS
<1>6. PICK n, l : n = NewLabel(ta_code) /\ l = LastLabel(n)
  OBVIOUS
<1>7. Grows(ta_code, n) /\ Coded(n) /\ Unpatched(n) = Unpatched(ta_code) /\ l \in Patches(n) /\ l # NoLabel
  BY <1>4, <1>6, NewLabelGrows DEF Grows, Patches
<1>8. PICK d : d = Backpatch(n, ret, l)
  OBVIOUS
<1>9. Grows(n, d) /\ Coded(d) /\ Unpatched(d) = Unpatched(n) \ ret /\ l \in Patches(d)
  <2>1. Grows(n, d) /\ Unpatched(d) = Unpatched(n) \ ret /\ LabelsOf(d) = LabelsOf(n)
    BY <1>7, <1>8, BackpatchGrows
  <2>2. QED BY <1>7, <2>1 DEF Grows, Patches
<1>10. PICK c : c = Backpatch(d, next, l)
  OBVIOUS
<1>11. Grows(d, c) /\ Coded(c) /\ Unpatched(c) = Unpatched(d) \ next
  <2>1. Grows(d, c) /\ Unpatched(c) = Unpatched(d) \ next
    BY <1>7, <1>9, <1>10, BackpatchGrows
  <2>2. QED BY <2>1 DEF Grows
<1>12. Grows(ta_code, c) /\ Grows(c, c)
  <2>1. Grows(ta_code, d)
    BY <1>7, <1>9, GrowsOn
  <2>2. Grows(ta_code, c)
    BY <1>11, <2>1, GrowsOn
  <2>3. QED BY <1>11, <2>2, GrowsSelf
<1>13. PICK p1, p2, x : p1 = <<"end", 0>> /\ p2 = <<"after", 0>> /\ x = c.instrs
  OBVIOUS
<1>14. PICK a1, a2 : a1 = (p1 :> x) /\ a2 = (p2 :> x)
  OBVIOUS
<1>15. Points(a1, c) /\ Points(a2, c)
  <2>1. PICK r1 \in Roles \ {"label", "case"}, r2 \in Roles \ {"label", "case"}, z \in Nat :
            r1 = "end" /\ r2 = "after" /\ z = 0
    BY DEF Roles
  <2>2. p1 = <<r1, z>> /\ p2 = <<r2, z>>
    BY <1>13, <2>1
  <2>3. QED BY <1>12, <1>13, <1>14, <2>2, PointsOne
<1>16. PICK q1, q, s : q1 = place @@ a1 /\ q = q1 @@ a2 /\ s = <<>>
  OBVIOUS
<1>17. Adds(place, a1, q1) /\ Adds(q1, a2, q)
  BY <1>16, Adding
<1>18. /\ ta_code' = c /\ place' = q /\ stack' = s /\ phase' = "end"
       /\ UNCHANGED <<value, globals, statements, functions, bound>>
  BY <1>2, <1>5, <1>6, <1>8, <1>10, <1>13, <1>14, <1>16 DEF EndFunction
<1>19. Len(s) = 0 /\ s \in Seq(FrameType) /\ 1 .. Len(s) = {}
  BY <1>16
<1>20. Placed(q, c)
  <2>1. Placed(q1, c)
    BY <1>4, <1>12, <1>15, <1>17, PlacedMore DEF Points
  <2>2. QED BY <1>12, <1>15, <1>17, <2>1, PlacedMore DEF Points
<1>21. Framing(s, c, statements) /\ Nested(s) /\ StmtOK(Null, c) /\ Leaving(Null, s, Len(s))
  BY <1>19, NullOK DEF Framing, Nested, Leaving, NoLists, Lists
<1>22. Switched(s, c, lblSwitch, tmpSwitch)
  <2>1. ~Inside({"switch"}, stack, Len(stack))
    BY <1>3 DEF Inside
  <2>2. Switching(stack, s)
    BY <2>1 DEF Switching
  <2>3. QED BY <1>4, <1>12, <2>2, SwitchedMore
<1>23. Named(s, c, idLabel, idGoto, q)
  <2>1. \A m \in Names : <<"label", m>> \in DOMAIN q => <<"label", m>> \in DOMAIN place
    BY <1>15, <1>17 DEF Adds, Points, NoLabelPoint
  <2>2. QED BY <1>3, <1>4, <1>12, <2>1, NamedMore
<1>24. Shaped(c, s, Null, idLabel, idGoto, lblSwitch, tmpSwitch, q, statements)
  BY <1>11, <1>20, <1>21, <1>22, <1>23 DEF Shaped
<1>25. ASSUME fault' = "none"
       PROVE  Unpatched(c) = {} /\ Right(c, s, Len(s) - 1, Null, idGoto, lblSwitch, q)
  <2>1. fault = "none" /\ \A m \in Names : idGoto[m] = {} \/ <<"label", m>> \in DOMAIN place
    BY <1>25 DEF EndFunction, Blame
  <2>2. \A m \in Names : idGoto[m] = {}
    BY <1>3, <1>4, <2>1 DEF Named
  <2>3. /\ Right(ta_code, stack, Depth(stack, value.ready), value.st, idGoto, lblSwitch, place)
    BY <1>3, <2>1 DEF Going, IInv
  <2>4. Unpatched(ta_code) \subseteq HeldIn(stack, Len(stack))
    <3>1. Waiting(idGoto) = {}
      BY <2>2 DEF Waiting
    <3>2. QED BY <1>3, <2>3, <3>1, NoListsOf DEF Right, AllHeld
  <2>5. HeldIn(stack, Len(stack)) \subseteq HeldBy(top)
    BY <1>3 DEF HeldIn
  <2>6. HeldBy(top) = ListsOf(top.st) \cup {0}
    BY <1>3 DEF HeldBy, ListsOf, Framed
  <2>7. ListsOf(top.st) = next \cup ret
    BY <1>3, <1>5, ListsAre
  <2>8. 0 \notin Unpatched(ta_code)
    BY DEF Unpatched, JumpsOf
  <2>9. Unpatched(c) = {}
    BY <1>7, <1>9, <1>11, <2>4, <2>5, <2>6, <2>7, <2>8
  <2>10. CasesKept(s, c, q)
    <3>1. CasesKept(stack, ta_code, place)
      BY <2>3 DEF Right
    <3>2. CasesKept(stack, c, q1)
      BY <1>12, <1>15, <1>17, <3>1, CasesStay DEF Points
    <3>3. CasesKept(stack, c, q)
      BY <1>12, <1>15, <1>17, <3>2, CasesStay DEF Points
    <3>4. ASSUME NEW p \in DOMAIN q, p[1] = "case" PROVE p[2] # 0 /\ Jumped(c, p)
      <4>1. p[2] # 0 /\ (Jumped(c, p) \/ Pending(p, stack))
        BY <3>3, <3>4 DEF CasesKept
      <4>2. ~Pending(p, stack)
        BY <1>3, <4>1 DEF Pending, Framed
      <4>3. QED BY <4>1, <4>2
    <3>5. QED BY <3>4 DEF CasesKept
  <2>11. Settled(s, Len(s) - 1, c) /\ OwnCases(s, lblSwitch) /\ AllHeld(c, s, Null, idGoto)
    BY <1>19, <2>9 DEF Settled, OwnCases, AllHeld
  <2>12. QED BY <2>9, <2>10, <2>11 DEF Right
<1>26. /\ bound' \in Bounds /\ statements' = statements /\ statements \in Nat /\ statements' <= MaxStatements'
       /\ value' = value /\ value \in [ready : BOOLEAN, st : StmtType]
       /\ idLabel' = idLabel /\ idGoto' = idGoto /\ lblSwitch' = lblSwitch /\ tmpSwitch' = tmpSwitch
  <2>1. MaxStatements' = MaxStatements
    BY <1>18 DEF MaxStatements
  <2>2. QED BY <1>3, <1>18, <2>1 DEF Going, IInv, globals
<1>27. Depth(s, value.ready) = Len(s) - 1
  BY <1>3 DEF Depth
<1>28. QED BY <1>3, <1>16, <1>18, <1>24, <1>25, <1>26, <1>27 DEF IInv

(***************************************************************************)
(* The theorems.                                                           *)
(***************************************************************************)
LEMMA NextKeeps == ASSUME IInv, Next PROVE IInv'
<1>1. ASSUME NEW e \in Exprs, ExpressionStatement(e) PROVE IInv'
  BY <1>1, ExpressionStatementStep
<1>2. ASSUME NEW e \in Exprs, If(e) PROVE IInv'
  BY <1>2, IfStep
<1>3. ASSUME NEW e \in Exprs, While(e) PROVE IInv'
  BY <1>3, WhileStep
<1>4. ASSUME NEW e \in Exprs, ReduceDoWhile(e) PROVE IInv'
  BY <1>4, ReduceDoWhileStep
<1>5. ASSUME NEW e \in Exprs, Switch(e) PROVE IInv'
  BY <1>5, SwitchStep
<1>6. ASSUME NEW e \in Exprs, Return(e) PROVE IInv'
  BY <1>6, ReturnStep
<1>7. ASSUME NEW i \in BOOLEAN, NullStatement(i) PROVE IInv'
  BY <1>7, NullStatementStep
<1>8. CASE OpenBlock
  BY <1>8, OpenBlockStep
<1>9. CASE NextInList
  BY <1>9, NextInListStep
<1>10. CASE CloseBlock
  BY <1>10, CloseBlockStep
<1>11. CASE Else
  BY <1>11, ElseStep
<1>12. CASE ReduceIf
  BY <1>12, ReduceIfStep
<1>13. CASE ReduceIfElse
  BY <1>13, ReduceIfElseStep
<1>14. CASE ReduceWhile
  BY <1>14, ReduceWhileStep
<1>15. CASE Do
  BY <1>15, DoStep
<1>16. ASSUME NEW e1 \in Exprs, NEW e2 \in Exprs \cup {"none"}, For(e1, e2) PROVE IInv'
  BY <1>16, ForStep
<1>17. ASSUME NEW e1 \in Exprs, NEW e3 \in Exprs, NEW e2 \in Exprs \cup {"none"}, For3(e1, e2, e3) PROVE IInv'
  BY <1>17, For3Step
<1>18. CASE ReduceFor
  BY <1>18, ReduceForStep
<1>19. CASE ReduceSwitch
  BY <1>19, ReduceSwitchStep
<1>20. CASE ReduceCase
  BY <1>20, ReduceCaseStep
<1>21. CASE ReduceDefault
  BY <1>21, ReduceDefaultStep
<1>22. CASE NullSubstatement
  BY <1>22, CrashStep DEF NullSubstatement
<1>23. ASSUME NEW k \in Consts, CaseLabel("case", k) PROVE IInv'
  BY <1>23, CaseLabelStep DEF Keys
<1>24. CASE CaseLabel("default", Default)
  BY <1>24, CaseLabelStep DEF Keys
<1>25. ASSUME NEW n \in Names, LabelStatement(n) PROVE IInv'
  BY <1>25, LabelStatementStep
<1>26. ASSUME NEW n \in Names, GotoStatement(n) PROVE IInv'
  BY <1>26, GotoStatementStep
<1>27. CASE ReduceLabel
  BY <1>27, ReduceLabelStep
<1>28. CASE Break
  BY <1>28, BreakStep
<1>29. CASE Continue
  BY <1>29, ContinueStep
<1>30. CASE EndFunction
  BY <1>30, EndFunctionStep
<1>31. CASE EndEmptyFunction
  BY <1>31, CrashStep DEF EndEmptyFunction
<1>32. CASE NextFunction
  BY <1>32, NextFunctionStep
<1>33. CASE Done
  BY <1>33, DoneStep DEF Done
<1>34. QED
  BY <1>1, <1>2, <1>3, <1>4, <1>5, <1>6, <1>7, <1>8, <1>9, <1>10, <1>11, <1>12, <1>13, <1>14, <1>15, <1>16,
     <1>17, <1>18, <1>19, <1>20, <1>21, <1>22, <1>23, <1>24, <1>25, <1>26, <1>27, <1>28, <1>29, <1>30, <1>31,
     <1>32, <1>33
  DEF Next

LEMMA Invariance == Spec => []IInv
<1>1. IInv /\ [Next]_vars => IInv'
  BY NextKeeps, DoneStep
<1>2. QED BY <1>1, InitRight, PTL DEF Spec

\* TypeOK's part for one frame.
LEMMA FrameRight ==
    ASSUME NEW f, Framed(f, ta_code), f.id <= MaxStatements PROVE FrameOK(f)
<1>1. f.kind \in Compound \cup {"else"} /\ f.id \in Nat
  BY DEF Framed, FrameType
<1>2. MaxStatements \in Int \/ f.id \in 0 .. MaxStatements
  BY <1>1
<1>3. Jumps = JumpsOf(ta_code) /\ Labels = LabelsOf(ta_code)
  BY DEF Jumps, Labels, JumpsOf, LabelsOf
<1>4. UNION {f.st.lists[l] : l \in Lists} \subseteq JumpsOf(ta_code)
  BY DEF Framed, StmtOK
<1>5. QED BY <1>1, <1>3, <1>4 DEF FrameOK, Framed, Patches

LEMMA InvariantTypes == IInv => TypeOK
<1> SUFFICES ASSUME IInv PROVE TypeOK
  OBVIOUS
<1>1. /\ Shaped(ta_code, stack, value.st, idLabel, idGoto, lblSwitch, tmpSwitch, place, statements)
      /\ phase \in {"parse", "end", "crashed"} /\ statements \in Nat /\ statements <= MaxStatements
      /\ Coded(ta_code) /\ Framing(stack, ta_code, statements)
  BY DEF IInv, Shaped
<1>2. MaxStatements \in Nat
  BY StatementsAssumption DEF IInv, MaxStatements
<1>3. Jumps = JumpsOf(ta_code) /\ Labels = LabelsOf(ta_code)
  <2>1. ta_code.gotos \in Seq(JumpType) /\ ta_code.labels \in Seq(Nat)
    BY <1>1, CodedIs
  <2>2. QED BY <2>1 DEF Jumps, Labels, JumpsOf, LabelsOf
<1>4. \A g \in Jumps : ta_code.gotos[g].label \in Labels \cup {NoLabel, Elsewhere}
                       /\ ta_code.gotos[g].want \in Roles \X Nat
  <2>1. ASSUME NEW g \in JumpsOf(ta_code) PROVE ta_code.gotos[g].want \in Roles \X Nat
    <3>1. ta_code.gotos \in Seq(JumpType)
      BY <1>1, CodedIs
    <3>2. ta_code.gotos[g] \in JumpType
      BY <3>1 DEF JumpsOf
    <3>3. QED BY <3>2 DEF JumpType
  <2>2. QED BY <1>1, <1>3, <2>1 DEF Coded
<1>5. ASSUME NEW i \in DOMAIN stack PROVE FrameOK(stack[i])
  <2>1. i \in 1 .. Len(stack)
    BY <1>1 DEF Framing
  <2>2. Framed(stack[i], ta_code) /\ stack[i].id <= statements /\ stack[i].id \in Nat
    BY <1>1, <2>1 DEF Framing, Framed, FrameType
  <2>3. stack[i].id <= MaxStatements
    BY <1>1, <1>2, <2>2
  <2>4. QED BY <2>2, <2>3, FrameRight
<1>6. \A l \in Lists : value.st.lists[l] \subseteq Jumps
  BY <1>1, <1>3 DEF Shaped, StmtOK
<1>7. \A n \in Names : idLabel[n] \in Labels \cup {NoLabel, Elsewhere} /\ idGoto[n] \subseteq Jumps
  BY <1>1, <1>3 DEF Shaped, Named, Targets
<1>8. \A p \in DOMAIN place : p \in Roles \X Nat /\ place[p] \in 0 .. ta_code.instrs
  BY <1>1 DEF Shaped, Placed
<1>9. QED BY <1>1, <1>4, <1>5, <1>6, <1>7, <1>8 DEF TypeOK

\* The lists hold jumps of the function that is being written, every jump
\* goes to one of its labels (or, by a name of an earlier function, out of
\* it), and every label is a place in its code: whatever the text.
THEOREM TypesRight == Spec => []TypeOK
<1>1. QED BY Invariance, InvariantTypes, PTL

LEMMA InvariantHolds == IInv => NoJumpForgotten
<1> SUFFICES ASSUME IInv, fault = "none", NEW g \in Jumps, ta_code.gotos[g].label = NoLabel
             PROVE  phase # "end" /\ g \in Held
  BY DEF NoJumpForgotten
<1>1. Coded(ta_code) /\ Framing(stack, ta_code, statements)
  BY DEF IInv, Shaped
<1>2. g \in Unpatched(ta_code)
  <2>1. ta_code.gotos \in Seq(JumpType)
    BY <1>1, CodedIs
  <2>2. QED BY <2>1 DEF Unpatched, Jumps, JumpsOf
<1>3. phase # "end"
  BY <1>2 DEF IInv
<1>4. g \in HeldIn(stack, Len(stack)) \cup ListsOf(value.st) \cup Waiting(idGoto)
  BY <1>2 DEF IInv, Right, AllHeld
<1>5. DOMAIN stack = 1 .. Len(stack)
  BY <1>1 DEF Framing
<1>6. QED BY <1>3, <1>4, <1>5 DEF Held, HeldIn, ListsOf, Waiting

\* A jump that has no label yet is in a list that will be patched, and a
\* finished function has no such jump: backpatching leaves none out, however
\* the statements nest.
THEOREM NoneForgotten == Spec => []NoJumpForgotten
<1>1. QED BY Invariance, InvariantHolds, PTL

LEMMA InvariantDispatches == IInv => CasesDispatched
<1> SUFFICES ASSUME IInv, fault = "none", phase = "end", NEW p \in DOMAIN place, p[1] = "case"
             PROVE  \E g \in Jumps : ta_code.gotos[g].want = p
  BY DEF CasesDispatched
<1>1. stack = <<>> /\ CasesKept(stack, ta_code, place) /\ Coded(ta_code)
  BY DEF IInv, Right, Shaped
<1>2. ~Pending(p, stack)
  BY <1>1 DEF Pending
<1>3. Jumped(ta_code, p)
  BY <1>1, <1>2 DEF CasesKept
<1>4. ta_code.gotos \in Seq(JumpType)
  BY <1>1, CodedIs
<1>5. QED BY <1>3, <1>4 DEF Jumped, Jumps, JumpsOf

\* When a function is over, each of its cases has its test in the switch it
\* belongs to, although lblSwitch is one table for all switches.
THEOREM EveryCaseTested == Spec => []CasesDispatched
<1>1. QED BY Invariance, InvariantDispatches, PTL
===============================================================================
