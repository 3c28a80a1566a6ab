------------------------- MODULE StatementsLanding -------------------------
(***************************************************************************)
(* JumpsLand is an invariant of Statements for texts of any length and     *)
(* depth.  The invariant says of every list that is held, by an open       *)
(* statement, the statement reduced last or a name, what its jumps want,   *)
(* and of every label that is kept, which point of the source it is at; it *)
(* rests on the invariant of StatementsProofs, by which these are jumps    *)
(* and labels of the function, held in the right places.                   *)
(***************************************************************************)
EXTENDS StatementsProofs

(***************************************************************************)
(* Labels, jumps and lists, and the invariant.                             *)
(***************************************************************************)
\* Label l of c is at the point r of the source.
Marks(c, l, points, r) == l \in LabelsOf(c) /\ r \in DOMAIN points /\ points[r] = c.labels[l]

\* The jump h lies at p, is taken always, and goes to q.
Leads(c, h, p, q) ==
    /\ c.gotos[h].at = p /\ ~c.gotos[h].cond
    /\ c.gotos[h].label \in LabelsOf(c) /\ c.labels[c.gotos[h].label] = q

\* What JumpsLand says of g, and that the jump on its way will stay as it is.
Landed(c, U, points, g) ==
    /\ c.gotos[g].want \in DOMAIN points /\ c.gotos[g].label \in LabelsOf(c)
    /\ \/ points[c.gotos[g].want] = c.labels[c.gotos[g].label]
       \/ \E h \in U : Leads(c, h, points[c.gotos[g].want], c.labels[c.gotos[g].label])

AllLanded(c, U, points) == \A g \in U : Landed(c, U, points, g)

Unheld(c, s, st, gotos) == JumpsOf(c) \ (HeldIn(s, Len(s)) \cup ListsOf(st) \cup Waiting(gotos))

\* An open statement's labels are where its jumps want to go.
FrameAt(f, c, points) ==
    /\ <<"after", f.id>> \notin DOMAIN points
    /\ \A g \in f.true : c.gotos[g].want = <<"body", f.id>>
    /\ \A g \in f.false : c.gotos[g].want = <<IF f.kind \in Loops THEN "after" ELSE "else", f.id>>
    /\ f.kind \in {"if", "else", "do"} => Marks(c, f.l1, points, <<"body", f.id>>)
    /\ f.kind \in {"while", "for"} => /\ Marks(c, f.l1, points, <<"test", f.id>>)
                                      /\ Marks(c, f.l2, points, <<"body", f.id>>)
    /\ f.kind = "for3" => Marks(c, f.l1, points, <<"step", f.id>>)
    /\ f.kind = "if" => <<"else", f.id>> \notin DOMAIN points
    /\ f.kind = "else" => /\ Marks(c, f.l2, points, <<"else", f.id>>)
                          /\ c.gotos[f.goto1].want = <<"after", f.id>> /\ ~c.gotos[f.goto1].cond
                          /\ f.goto1 \notin ListsOf(f.st)
    /\ f.kind = "do" => <<"test", f.id>> \notin DOMAIN points
    /\ f.kind = "switch" => <<"dispatch", f.id>> \notin DOMAIN points /\ f.goto1 \in JumpsOf(c) /\ c.gotos[f.goto1].want = <<"dispatch", f.id>>
    /\ f.kind \in {"case", "default"} => Marks(c, f.l1, points, <<"case", f.id>>)
    /\ f.kind = "label" => Marks(c, f.l1, points, <<"label", f.l2>>)

\* The innermost statement of one of these kinds among the n outermost.
Encloses(kinds, s, n, i) == i \in 1 .. n /\ s[i].kind \in kinds /\ \A j \in i + 1 .. n : s[j].kind \notin kinds

Onward(kind) == IF kind = "for3" THEN "step" ELSE "test"

\* A statement's jumps out want what they leave.
Wants(st, s, n, c) ==
    /\ \A g \in st.lists["break"] : \E i \in 1 .. n :
          Encloses(Breakable, s, n, i) /\ c.gotos[g].want = <<"after", s[i].id>>
    /\ \A g \in st.lists["continue"] : \E i \in 1 .. n :
          Encloses(Loops, s, n, i) /\ c.gotos[g].want = <<Onward(s[i].kind), s[i].id>>
    /\ \A g \in st.lists["return"] : c.gotos[g].want = <<"end", 0>>

\* A default's breaks are in its nextlist too.
NextOf(st) == st.lists["next"] \ st.lists["break"]

\* The jumps to the next statement want what lies at e, where the statement
\* ends, or a place where another of them goes there.
Nexts(st, c, points, e) ==
    /\ \A g \in st.lists["next"] : c.gotos[g].want[1] \in {"after", "else"}
    /\ \A g \in NextOf(st) :
          /\ c.gotos[g].want \in DOMAIN points
          /\ \/ points[c.gotos[g].want] = e
             \/ \E h \in NextOf(st) : c.gotos[h].at = points[c.gotos[g].want] /\ ~c.gotos[h].cond

\* They have been patched to a label at e.
Patched(st, c, e) ==
    \A g \in NextOf(st) : c.gotos[g].label \in LabelsOf(c) /\ c.labels[c.gotos[g].label] = e

ListAt(f, settled, c, points) ==
    /\ f.kind = "block" => IF settled THEN \E e \in 0 .. c.instrs : Nexts(f.st, c, points, e) /\ Patched(f.st, c, e)
                                      ELSE Nexts(f.st, c, points, c.instrs)
    /\ f.kind = "else" => Nexts(f.st, c, points, c.gotos[f.goto1].at)

\* No jump is held twice.
Apart(s, st, gotos) ==
    /\ \A i, j \in 1 .. Len(s) : i # j => HeldBy(s[i]) \cap HeldBy(s[j]) \subseteq {0}
    /\ \A i \in 1 .. Len(s) : HeldBy(s[i]) \cap (ListsOf(st) \cup Waiting(gotos)) = {}
    /\ ListsOf(st) \cap Waiting(gotos) = {}

Distinct(s) == \A i, j \in 1 .. Len(s) : i # j => s[i].id # s[j].id

\* Points belong to statements there have been.
Dated(points, n) == \A p \in DOMAIN points : p[1] \notin {"label"} => p[2] \in 0 .. n /\ p[1] # "end"

NamesAt(c, labels, gotos, points) ==
    \A n \in Names : /\ labels[n] \in LabelsOf(c) => Marks(c, labels[n], points, <<"label", n>>)
                     /\ \A g \in gotos[n] : c.gotos[g].want = <<"label", n>>

CasesAt(s, c, lbl, points) ==
    /\ \A i \in 1 .. Len(s), k \in Keys : s[i].own[k] # 0 =>
          /\ <<"case", s[i].own[k]>> \in DOMAIN points
          /\ lbl[k] # NoLabel => Marks(c, lbl[k], points, <<"case", s[i].own[k]>>)
    /\ \A k \in Keys : lbl[k] # NoLabel => \E i \in 1 .. Len(s) : s[i].own[k] # 0
    /\ \A j \in 1 .. Len(s) : s[j].kind \in {"case", "default"} =>
          s[j].id # 0 /\ \E i \in 1 .. Len(s) : i < j /\ s[i].own[s[j].l2] = s[j].id

StackAt(s, k, c, points) ==
    \A i \in 1 .. Len(s) : /\ FrameAt(s[i], c, points)
                           /\ Wants(s[i].st, s, i - 1, c)
                           /\ ListAt(s[i], i <= k, c, points)

Landing(c, s, k, st, labels, gotos, lbl, points, n) ==
    /\ StackAt(s, k, c, points)
    /\ Wants(st, s, Len(s), c) /\ Nexts(st, c, points, c.instrs)
    /\ Apart(s, st, gotos) /\ Distinct(s) /\ Dated(points, n)
    /\ NamesAt(c, labels, gotos, points)
    /\ CasesAt(s, c, lbl, points)

LInv ==
    fault = "none" =>
        /\ AllLanded(ta_code, Unheld(ta_code, stack, value.st, idGoto), place)
        /\ phase = "parse" => Landing(ta_code, stack, Depth(stack, value.ready), value.st,
                                      idLabel, idGoto, lblSwitch, place, statements)

(***************************************************************************)
(* Code that grows keeps its labels' places and its jumps; only those of   *)
(* ps may get another label.                                               *)
(***************************************************************************)
Onto(c, d, ps) ==
    /\ Grows(c, d)
    /\ \A l \in LabelsOf(c) : d.labels[l] = c.labels[l]
    /\ \A g \in JumpsOf(c) : /\ d.gotos[g].at = c.gotos[g].at /\ d.gotos[g].cond = c.gotos[g].cond
                             /\ g \notin ps => d.gotos[g].label = c.gotos[g].label

LEMMA OntoSelf == ASSUME NEW c, Coded(c), NEW ps PROVE Onto(c, c, ps)
BY GrowsSelf DEF Onto

LEMMA OntoOn ==
    ASSUME NEW c, NEW d, NEW e, NEW p, NEW q, NEW r, Onto(c, d, p), Onto(d, e, q), (p \cup q) \cap JumpsOf(c) \subseteq r
    PROVE  Onto(c, e, r)
<1>1. Grows(c, e)
  BY GrowsOn DEF Onto
<1>2. JumpsOf(c) \subseteq JumpsOf(d) /\ LabelsOf(c) \subseteq LabelsOf(d)
  BY DEF Onto, Grows
<1>3. \A l \in LabelsOf(c) : e.labels[l] = c.labels[l]
  BY <1>2 DEF Onto
<1>4. ASSUME NEW g \in JumpsOf(c)
      PROVE  /\ e.gotos[g].at = c.gotos[g].at /\ e.gotos[g].cond = c.gotos[g].cond
             /\ g \notin r => e.gotos[g].label = c.gotos[g].label
  BY <1>2 DEF Onto
<1>5. QED BY <1>1, <1>3, <1>4 DEF Onto

LEMMA ExecOnto == ASSUME NEW c, Coded(c), NEW d, d = Exec(c)
                  PROVE  Onto(c, d, {}) /\ JumpsOf(d) = JumpsOf(c) /\ LabelsOf(d) = LabelsOf(c) /\ Coded(d)
<1>1. d.labels = c.labels /\ d.gotos = c.gotos
  BY CodedIs DEF Exec
<1>2. Grows(c, d) /\ JumpsOf(d) = JumpsOf(c) /\ LabelsOf(d) = LabelsOf(c)
  BY ExecGrows
<1>3. QED BY <1>1, <1>2 DEF Onto, Grows

LEMMA LabelOnto ==
    ASSUME NEW c, Coded(c), NEW d, d = NewLabel(c), NEW l, l = LastLabel(d)
    PROVE  /\ Onto(c, d, {}) /\ JumpsOf(d) = JumpsOf(c) /\ d.gotos = c.gotos /\ d.instrs = c.instrs /\ Coded(d)
           /\ l \in LabelsOf(d) /\ d.labels[l] = c.instrs /\ l # NoLabel /\ l \in Nat
<1>0. /\ c = [instrs |-> c.instrs, labels |-> c.labels, gotos |-> c.gotos]
      /\ c.instrs \in Nat /\ c.labels \in Seq(Nat)
  BY CodedIs
<1>1. d.labels = Append(c.labels, c.instrs) /\ d.gotos = c.gotos /\ d.instrs = c.instrs
  BY <1>0 DEF NewLabel
<1>2. Grows(c, d) /\ JumpsOf(d) = JumpsOf(c) /\ l \in LabelsOf(d) /\ l # NoLabel /\ l \in Nat
  BY NewLabelGrows
<1>3. \A i \in LabelsOf(c) : d.labels[i] = c.labels[i]
  BY <1>0, <1>1 DEF LabelsOf
<1>4. d.labels[l] = c.instrs
  BY <1>0, <1>1 DEF LastLabel
<1>5. QED BY <1>1, <1>2, <1>3, <1>4 DEF Onto, Grows

LEMMA JumpOnto ==
    ASSUME NEW c, Coded(c), NEW w \in Roles \X Nat, NEW cond \in BOOLEAN,
           NEW l \in Targets(c), NEW d, d = NewJump(c, w, l, cond), NEW g, g = LastGoto(d)
    PROVE  /\ Onto(c, d, {}) /\ Coded(d) /\ d.labels = c.labels /\ LabelsOf(d) = LabelsOf(c)
           /\ JumpsOf(d) = JumpsOf(c) \cup {g} /\ g \notin JumpsOf(c) /\ g \in Nat /\ g # 0
           /\ d.gotos[g] = [at |-> c.instrs, cond |-> cond, label |-> l, want |-> w]
<1> DEFINE j == [at |-> c.instrs, cond |-> cond, label |-> l, want |-> w]
<1>0. /\ c = [instrs |-> c.instrs, labels |-> c.labels, gotos |-> c.gotos]
      /\ c.instrs \in Nat /\ c.labels \in Seq(Nat) /\ c.gotos \in Seq(JumpType)
  BY CodedIs
<1>1. d.labels = c.labels /\ d.gotos = Append(c.gotos, j)
  BY <1>0 DEF NewJump, Exec
<1>2. /\ Grows(c, d) /\ LabelsOf(d) = LabelsOf(c) /\ JumpsOf(d) = JumpsOf(c) \cup {g}
      /\ g \in Nat /\ g # 0 /\ g \notin JumpsOf(c)
  BY NewJumpGrows
<1> HIDE DEF j
<1>3. \A i \in 1 .. Len(c.gotos) : d.gotos[i] = c.gotos[i]
  BY <1>0, <1>1
<1>4. Len(d.gotos) = Len(c.gotos) + 1 /\ d.gotos[Len(c.gotos) + 1] = j
  BY <1>0, <1>1
<1>5. d.gotos[g] = j
  BY <1>4 DEF LastGoto
<1>6. QED BY <1>1, <1>2, <1>3, <1>5 DEF Onto, Grows, JumpsOf, j

LEMMA PatchOnto ==
    ASSUME NEW c, Coded(c), NEW list, NEW l \in LabelsOf(c), NEW d, d = Backpatch(c, list, l)
    PROVE  /\ Onto(c, d, list) /\ Coded(d) /\ JumpsOf(d) = JumpsOf(c) /\ LabelsOf(d) = LabelsOf(c)
           /\ d.labels = c.labels /\ d.instrs = c.instrs
           /\ \A g \in JumpsOf(c) : d.gotos[g].label = IF g \in list THEN l ELSE c.gotos[g].label
<1> DEFINE gs == [g \in DOMAIN c.gotos |-> IF g \in list THEN [c.gotos[g] EXCEPT !.label = l] ELSE c.gotos[g]]
<1>0. /\ c = [instrs |-> c.instrs, labels |-> c.labels, gotos |-> c.gotos]
      /\ c.gotos \in Seq(JumpType)
  BY CodedIs
<1>1. l # NoLabel /\ l \in Patches(c)
  BY DEF LabelsOf, NoLabel, Patches
<1>2. d.labels = c.labels /\ d.gotos = gs /\ d.instrs = c.instrs
  BY <1>0, <1>1 DEF Backpatch
<1>3. Grows(c, d) /\ JumpsOf(d) = JumpsOf(c) /\ LabelsOf(d) = LabelsOf(c)
  BY <1>1, BackpatchGrows
<1>4. ASSUME NEW g \in JumpsOf(c)
      PROVE  /\ gs[g].at = c.gotos[g].at /\ gs[g].cond = c.gotos[g].cond
             /\ gs[g].label = IF g \in list THEN l ELSE c.gotos[g].label
  <2>1. c.gotos[g] \in JumpType /\ g \in DOMAIN c.gotos
    BY <1>0 DEF JumpsOf
  <2>2. QED BY <2>1 DEF JumpType
<1> HIDE DEF gs
<1>5. QED BY <1>2, <1>3, <1>4 DEF Onto, Grows

Wanting(c, list, w) == \A g \in list : c.gotos[g].want = w

LEMMA WantingOn == ASSUME NEW c, NEW d, NEW ps, Onto(c, d, ps), NEW list \in SUBSET JumpsOf(c), NEW w, Wanting(c, list, w)
                   PROVE  Wanting(d, list, w)
BY DEF Wanting, Onto, Grows

\* The jumps NewGoto and NewGotoCond make.
LEMMA GotoOnto ==
    ASSUME NEW c, Coded(c), NEW w \in Roles \X Nat, NEW d, NEW g, g = LastGoto(d),
           d = NewGoto(c, w) \/ d = NewGotoCond(c, w)
    PROVE  /\ Onto(c, d, {}) /\ Coded(d) /\ d.labels = c.labels /\ LabelsOf(d) = LabelsOf(c)
           /\ JumpsOf(d) = JumpsOf(c) \cup {g} /\ g \notin JumpsOf(c) /\ g \in Nat /\ g # 0
           /\ d.gotos[g].want = w /\ d.gotos[g].at = c.instrs
           /\ d = NewGoto(c, w) => ~d.gotos[g].cond
<1>1. \E l : l = NoLabel
  OBVIOUS
<1>2. PICK l : l = NoLabel
  BY <1>1
<1>3. l \in Targets(c)
  BY <1>2 DEF Targets
<1>4. CASE d = NewGoto(c, w)
  <2>1. PICK b \in BOOLEAN : b = FALSE
    OBVIOUS
  <2>2. d = NewJump(c, w, l, b)
    BY <1>2, <1>4, <2>1 DEF NewGoto
  <2>3. /\ Onto(c, d, {}) /\ Coded(d) /\ d.labels = c.labels /\ LabelsOf(d) = LabelsOf(c)
        /\ JumpsOf(d) = JumpsOf(c) \cup {g} /\ g \notin JumpsOf(c) /\ g \in Nat /\ g # 0
        /\ d.gotos[g] = [at |-> c.instrs, cond |-> b, label |-> l, want |-> w]
    BY <1>3, <2>2, JumpOnto
  <2>4. QED BY <2>1, <2>3
<1>5. CASE d = NewGotoCond(c, w) /\ d # NewGoto(c, w)
  <2>1. PICK b \in BOOLEAN : d = NewJump(c, w, l, b)
    BY <1>2, <1>5 DEF NewGotoCond
  <2>2. /\ Onto(c, d, {}) /\ Coded(d) /\ d.labels = c.labels /\ LabelsOf(d) = LabelsOf(c)
        /\ JumpsOf(d) = JumpsOf(c) \cup {g} /\ g \notin JumpsOf(c) /\ g \in Nat /\ g # 0
        /\ d.gotos[g] = [at |-> c.instrs, cond |-> b, label |-> l, want |-> w]
    BY <1>3, <2>1, JumpOnto
  <2>3. QED BY <1>5, <2>2
<1>6. QED BY <1>4, <1>5

LEMMA ConditionOnto ==
    ASSUME NEW c, Coded(c), NEW e \in Exprs,
           NEW wt \in Roles \X Nat, NEW wf \in Roles \X Nat, NEW v, v = Condition(c, e, wt, wf)
    PROVE  /\ Onto(c, v.c, {}) /\ Coded(v.c) /\ JumpsOf(v.c) = JumpsOf(c) \cup v.true \cup v.false
           /\ v.true \cap JumpsOf(c) = {} /\ v.false \cap JumpsOf(c) = {}
           /\ Wanting(v.c, v.true, wt) /\ Wanting(v.c, v.false, wf)
           /\ e = "plain" => v.true = {} /\ v.false = {}
<1>0. e \in {"plain", "and", "or"}
  BY Expressions
<1>1. PICK x : x = Exec(c)
  OBVIOUS
<1>2. Onto(c, x, {}) /\ Coded(x) /\ JumpsOf(x) = JumpsOf(c)
  BY <1>1, ExecOnto
<1>3. PICK w \in Roles \X Nat : w = IF e = "and" THEN wf ELSE wt
  OBVIOUS
<1>4. PICK j, g : j = NewGotoCond(x, w) /\ g = LastGoto(j)
  OBVIOUS
<1>5. /\ Onto(x, j, {}) /\ Coded(j) /\ JumpsOf(j) = JumpsOf(x) \cup {g} /\ g \notin JumpsOf(x)
      /\ j.gotos[g].want = w
  BY <1>2, <1>4, GotoOnto
<1>6. PICK y : y = NewLabel(j)
  OBVIOUS
<1>7. Onto(j, y, {}) /\ Coded(y) /\ JumpsOf(y) = JumpsOf(j) /\ y.gotos = j.gotos
  BY <1>5, <1>6, LabelOnto
<1>8. PICK z : z = Exec(y)
  OBVIOUS
<1>9. Onto(y, z, {}) /\ JumpsOf(z) = JumpsOf(y) /\ Coded(z)
  BY <1>7, <1>8, ExecOnto
<1>10. CASE e = "plain"
  <2>1. v.c = x /\ v.true = {} /\ v.false = {}
    BY <1>1, <1>10 DEF Condition
  <2>2. QED BY <1>2, <2>1 DEF Wanting
<1>11. CASE e # "plain"
  <2>2. v = [c |-> z, true |-> IF e = "or" THEN {g} ELSE {}, false |-> IF e = "and" THEN {g} ELSE {}]
    BY <1>1, <1>3, <1>4, <1>6, <1>8, <1>11 DEF Condition, JumpsOn
  <2>3. /\ v.c = z /\ v.true = (IF e = "or" THEN {g} ELSE {})
        /\ v.false = (IF e = "and" THEN {g} ELSE {})
    BY <2>2
  <2>4. Onto(c, z, {})
    <3>1. Onto(c, j, {})
      BY <1>2, <1>5, OntoOn
    <3>2. Onto(c, y, {})
      BY <3>1, <1>7, OntoOn
    <3>3. QED BY <3>2, <1>9, OntoOn
  <2>5. g \notin JumpsOf(c) /\ JumpsOf(z) = JumpsOf(c) \cup {g} /\ z.gotos[g].want = w
    BY <1>2, <1>5, <1>7, <1>9 DEF Onto, Grows
  <2>6. v.true \cup v.false = {g}
    BY <1>0, <1>11, <2>3
  <2>7. Wanting(z, v.true, wt) /\ Wanting(z, v.false, wf)
    BY <1>3, <2>3, <2>5 DEF Wanting
  <2>8. QED BY <1>9, <1>11, <2>3, <2>4, <2>5, <2>6, <2>7
<1>12. QED BY <1>10, <1>11

(***************************************************************************)
(* What is known of a place, a list or a frame is not lost when the code   *)
(* grows and points get their places.                                      *)
(***************************************************************************)
Extends(points, q) == \A p \in DOMAIN points : p \in DOMAIN q /\ q[p] = points[p]

\* The places of q that points does not have are the statement x's, or a label's.
About(points, q, x) == \A p \in DOMAIN q : p \in DOMAIN points \/ p[1] = "label" \/ (p[2] = x /\ p[1] # "end")

LEMMA MarksStay ==
    ASSUME NEW c, NEW d, NEW ps, Onto(c, d, ps), NEW points, NEW q, Extends(points, q), NEW l, NEW r, Marks(c, l, points, r)
    PROVE  Marks(d, l, q, r)
BY DEF Marks, Onto, Grows, Extends

LEMMA LandedStays ==
    ASSUME NEW c, NEW d, NEW ps, Onto(c, d, ps), NEW points, NEW q, Extends(points, q),
           NEW U \in SUBSET JumpsOf(c), U \cap ps = {}, NEW V, U \subseteq V, NEW g \in U, Landed(c, U, points, g)
    PROVE  Landed(d, V, q, g)
<1>1. LabelsOf(c) \subseteq LabelsOf(d) /\ \A l \in LabelsOf(c) : d.labels[l] = c.labels[l]
  BY DEF Onto, Grows
<1>2. \A h \in U : /\ d.gotos[h].at = c.gotos[h].at /\ d.gotos[h].cond = c.gotos[h].cond
                   /\ d.gotos[h].label = c.gotos[h].label /\ d.gotos[h].want = c.gotos[h].want
  BY DEF Onto, Grows
<1>3. /\ c.gotos[g].want \in DOMAIN q /\ q[c.gotos[g].want] = points[c.gotos[g].want]
      /\ c.gotos[g].label \in LabelsOf(c)
  BY DEF Landed, Extends
<1>4. ASSUME NEW h \in U, Leads(c, h, points[c.gotos[g].want], c.labels[c.gotos[g].label])
      PROVE  Leads(d, h, q[d.gotos[g].want], d.labels[d.gotos[g].label])
  BY <1>1, <1>2, <1>3, <1>4 DEF Leads
<1>5. QED BY <1>1, <1>2, <1>3, <1>4 DEF Landed

LEMMA LandedMore == ASSUME NEW c, NEW U, NEW V, U \subseteq V, NEW points, NEW g, Landed(c, U, points, g)
                    PROVE  Landed(c, V, points, g)
BY DEF Landed

LEMMA WantsStay ==
    ASSUME NEW c, NEW d, NEW ps, Onto(c, d, ps), NEW st, StmtOK(st, c), NEW s, NEW n \in Nat, Wants(st, s, n, c),
           NEW t, \A i \in 1 .. n : t[i].kind = s[i].kind /\ t[i].id = s[i].id
    PROVE  Wants(st, t, n, d)
<1>1. \A l \in Lists : \A g \in st.lists[l] : d.gotos[g].want = c.gotos[g].want
  BY DEF StmtOK, Onto, Grows
<1>2. \A kinds : \A i \in 1 .. n : Encloses(kinds, s, n, i) => Encloses(kinds, t, n, i)
  <2>1. ASSUME NEW kinds, NEW i \in 1 .. n, Encloses(kinds, s, n, i) PROVE Encloses(kinds, t, n, i)
    <3>1. \A j \in i + 1 .. n : j \in 1 .. n
      OBVIOUS
    <3>2. i \in 1 .. n /\ s[i].kind \in kinds /\ \A j \in i + 1 .. n : s[j].kind \notin kinds
      BY <2>1 DEF Encloses
    <3>3. t[i].kind \in kinds /\ \A j \in i + 1 .. n : t[j].kind \notin kinds
      BY <3>1, <3>2
    <3>4. QED BY <3>3 DEF Encloses
  <2>2. QED BY <2>1
<1>3. {"break", "continue", "return"} \subseteq Lists
  BY DEF Lists
<1>4. \A g \in st.lists["break"] : \E i \in 1 .. n :
          Encloses(Breakable, t, n, i) /\ d.gotos[g].want = <<"after", t[i].id>>
  BY <1>1, <1>2, <1>3 DEF Wants
<1>5. \A g \in st.lists["continue"] : \E i \in 1 .. n :
          Encloses(Loops, t, n, i) /\ d.gotos[g].want = <<Onward(t[i].kind), t[i].id>>
  BY <1>1, <1>2, <1>3 DEF Wants
<1>6. \A g \in st.lists["return"] : d.gotos[g].want = <<"end", 0>>
  BY <1>1, <1>3 DEF Wants
<1>7. QED BY <1>4, <1>5, <1>6 DEF Wants

LEMMA NextsStay ==
    ASSUME NEW c, NEW d, NEW ps, Onto(c, d, ps), NEW st, StmtOK(st, c), NEW points, NEW q, Extends(points, q),
           NEW e, Nexts(st, c, points, e)
    PROVE  Nexts(st, d, q, e)
<1>1. st.lists["next"] \subseteq JumpsOf(c)
  BY DEF StmtOK, Lists
<1>2. \A g \in st.lists["next"] : /\ d.gotos[g].want = c.gotos[g].want /\ d.gotos[g].at = c.gotos[g].at
                                  /\ d.gotos[g].cond = c.gotos[g].cond
  BY <1>1 DEF Onto, Grows
<1>3. NextOf(st) \subseteq st.lists["next"]
  BY DEF NextOf
<1>4. QED BY <1>2, <1>3 DEF Nexts, Extends

LEMMA PatchedStays ==
    ASSUME NEW c, NEW d, NEW ps, Onto(c, d, ps), NEW st, StmtOK(st, c), NextOf(st) \cap ps = {},
           NEW e, Patched(st, c, e)
    PROVE  Patched(st, d, e)
<1>1. NextOf(st) \subseteq JumpsOf(c)
  BY DEF StmtOK, Lists, NextOf
<1>2. QED BY <1>1 DEF Onto, Grows, Patched

\* g is f but for the cases that a switch has had.
Like(f, g) ==
    /\ g.kind = f.kind /\ g.id = f.id /\ g.true = f.true /\ g.false = f.false /\ g.l1 = f.l1 /\ g.l2 = f.l2
    /\ g.goto1 = f.goto1 /\ g.goto2 = f.goto2 /\ g.st = f.st

LEMMA LikeSelf == ASSUME NEW f PROVE Like(f, f)
BY DEF Like

LEMMA LikeHeld == ASSUME NEW f, NEW g, Like(f, g) PROVE HeldBy(g) = HeldBy(f)
BY DEF Like, HeldBy

LEMMA FrameStays ==
    ASSUME NEW c, NEW d, NEW ps, Onto(c, d, ps), NEW f, Framed(f, c), NEW points, NEW q, Extends(points, q),
           NEW x, About(points, q, x), x # f.id, FrameAt(f, c, points), NEW g, Like(f, g)
    PROVE  FrameAt(g, d, q)
<1>1. \A r \in {"after", "else", "test", "dispatch"} : <<r, f.id>> \notin DOMAIN points => <<r, f.id>> \notin DOMAIN q
  <2>1. ASSUME NEW r \in {"after", "else", "test", "dispatch"}, <<r, f.id>> \in DOMAIN q
        PROVE  <<r, f.id>> \in DOMAIN points
    <3>1. PICK p : p = <<r, f.id>>
      OBVIOUS
    <3>2. p[1] = r /\ p[2] = f.id
      BY <3>1
    <3>3. QED BY <2>1, <3>1, <3>2 DEF About
  <2>2. QED BY <2>1
<1>2. \A l, r : Marks(c, l, points, r) => Marks(d, l, q, r)
  BY MarksStay
<1>3. \A h \in JumpsOf(c) : /\ d.gotos[h].want = c.gotos[h].want /\ d.gotos[h].cond = c.gotos[h].cond
                            /\ h \in JumpsOf(d)
  BY DEF Onto, Grows
<1>4. f.true \subseteq JumpsOf(c) /\ f.false \subseteq JumpsOf(c) /\ (f.kind = "else" => f.goto1 \in JumpsOf(c))
  BY DEF Framed
<1>5. /\ g.kind = f.kind /\ g.id = f.id /\ g.true = f.true /\ g.false = f.false /\ g.l1 = f.l1 /\ g.l2 = f.l2
      /\ g.goto1 = f.goto1 /\ g.st = f.st
  BY DEF Like
<1>6. /\ <<"after", g.id>> \notin DOMAIN q
      /\ g.kind = "if" => <<"else", g.id>> \notin DOMAIN q
      /\ g.kind = "do" => <<"test", g.id>> \notin DOMAIN q
      /\ g.kind = "switch" => <<"dispatch", g.id>> \notin DOMAIN q
  BY <1>1, <1>5 DEF FrameAt
<1>7. /\ \A h \in g.true : d.gotos[h].want = <<"body", g.id>>
      /\ \A h \in g.false : d.gotos[h].want = <<IF g.kind \in Loops THEN "after" ELSE "else", g.id>>
  BY <1>3, <1>4, <1>5 DEF FrameAt
<1>8. /\ g.kind = "else" => /\ Marks(d, g.l2, q, <<"else", g.id>>)
                            /\ d.gotos[g.goto1].want = <<"after", g.id>> /\ ~d.gotos[g.goto1].cond
                            /\ g.goto1 \notin ListsOf(g.st)
      /\ g.kind = "switch" => g.goto1 \in JumpsOf(d) /\ d.gotos[g.goto1].want = <<"dispatch", g.id>>
  <2>1. f.kind = "else" => /\ Marks(c, f.l2, points, <<"else", f.id>>)
                           /\ c.gotos[f.goto1].want = <<"after", f.id>> /\ ~c.gotos[f.goto1].cond
                           /\ f.goto1 \notin ListsOf(f.st)
    BY DEF FrameAt
  <2>2. f.kind = "switch" => f.goto1 \in JumpsOf(c) /\ c.gotos[f.goto1].want = <<"dispatch", f.id>>
    BY DEF FrameAt
  <2>3. QED BY <1>2, <1>3, <1>4, <1>5, <2>1, <2>2
<1>9. /\ g.kind \in {"if", "else", "do"} => Marks(d, g.l1, q, <<"body", g.id>>)
      /\ g.kind \in {"while", "for"} => /\ Marks(d, g.l1, q, <<"test", g.id>>)
                                        /\ Marks(d, g.l2, q, <<"body", g.id>>)
      /\ g.kind = "for3" => Marks(d, g.l1, q, <<"step", g.id>>)
      /\ g.kind \in {"case", "default"} => Marks(d, g.l1, q, <<"case", g.id>>)
      /\ g.kind = "label" => Marks(d, g.l1, q, <<"label", g.l2>>)
  <2>1. /\ f.kind \in {"if", "else", "do"} => Marks(c, f.l1, points, <<"body", f.id>>)
        /\ f.kind \in {"while", "for"} => /\ Marks(c, f.l1, points, <<"test", f.id>>)
                                          /\ Marks(c, f.l2, points, <<"body", f.id>>)
        /\ f.kind = "for3" => Marks(c, f.l1, points, <<"step", f.id>>)
        /\ f.kind \in {"case", "default"} => Marks(c, f.l1, points, <<"case", f.id>>)
        /\ f.kind = "label" => Marks(c, f.l1, points, <<"label", f.l2>>)
    BY DEF FrameAt
  <2>2. QED BY <1>2, <1>5, <2>1
<1>10. QED BY <1>6, <1>7, <1>8, <1>9 DEF FrameAt

LEMMA ListStays ==
    ASSUME NEW c, NEW d, NEW ps, Onto(c, d, ps), NEW f, Framed(f, c), NextOf(f.st) \cap ps = {},
           NEW points, NEW q, Extends(points, q), ListAt(f, TRUE, c, points), NEW g, Like(f, g)
    PROVE  ListAt(g, TRUE, d, q)
<1>1. g.kind = f.kind /\ g.st = f.st /\ g.goto1 = f.goto1 /\ StmtOK(f.st, c)
  BY DEF Like, Framed
<1>2. ASSUME f.kind = "block"
      PROVE  \E e \in 0 .. d.instrs : Nexts(f.st, d, q, e) /\ Patched(f.st, d, e)
  <2>1. PICK e \in 0 .. c.instrs : Nexts(f.st, c, points, e) /\ Patched(f.st, c, e)
    BY <1>2 DEF ListAt
  <2>2. e \in 0 .. d.instrs
    BY DEF Onto, Grows, Coded, CodeType
  <2>3. Nexts(f.st, d, q, e) /\ Patched(f.st, d, e)
    BY <1>1, <2>1, NextsStay, PatchedStays
  <2>4. QED BY <2>2, <2>3
<1>3. ASSUME f.kind = "else" PROVE Nexts(f.st, d, q, d.gotos[f.goto1].at)
  <2>1. Nexts(f.st, c, points, c.gotos[f.goto1].at)
    BY <1>3 DEF ListAt
  <2>2. d.gotos[f.goto1].at = c.gotos[f.goto1].at
    BY <1>3 DEF Onto, Framed
  <2>3. QED BY <1>1, <2>1, <2>2, NextsStay
<1>4. QED BY <1>1, <1>2, <1>3 DEF ListAt

LEMMA NamesStay ==
    ASSUME NEW c, NEW d, NEW ps, Onto(c, d, ps), NEW points, NEW q, Extends(points, q),
           NEW labels, NEW gotos, NamesAt(c, labels, gotos, points),
           \A n \in Names : gotos[n] \subseteq JumpsOf(c) /\ labels[n] \in Targets(c)
    PROVE  NamesAt(d, labels, gotos, q)
<1>1. ASSUME NEW n \in Names
      PROVE  /\ labels[n] \in LabelsOf(d) => Marks(d, labels[n], q, <<"label", n>>)
             /\ \A g \in gotos[n] : d.gotos[g].want = <<"label", n>>
  <2>1. labels[n] \in LabelsOf(d) => labels[n] \in LabelsOf(c)
    BY DEF Targets, LabelsOf, NoLabel, Elsewhere
  <2>2. labels[n] \in LabelsOf(c) => Marks(c, labels[n], points, <<"label", n>>)
    BY DEF NamesAt
  <2>3. \A g \in gotos[n] : d.gotos[g].want = c.gotos[g].want
    BY DEF Onto, Grows
  <2>4. QED BY <2>1, <2>2, <2>3, MarksStay DEF NamesAt
<1>2. QED BY <1>1, Zenon DEF NamesAt

LEMMA CasesMove ==
    ASSUME NEW c, NEW d, NEW ps, Onto(c, d, ps), NEW points, NEW q, Extends(points, q),
           NEW s, NEW lbl, CasesAt(s, c, lbl, points),
           \A j \in 1 .. Len(s) : s[j].kind \in {"case", "default"} => s[j].l2 \in Keys,
           NEW t, \A i \in 1 .. Len(s) : Ownless(s[i]) \/ (i \in 1 .. Len(t) /\ t[i].own = s[i].own),
           \A j \in 1 .. Len(t) :
               \/ Ownless(t[j]) /\ t[j].kind \notin {"case", "default"}
               \/ /\ j \in 1 .. Len(s) /\ t[j].own = s[j].own /\ t[j].id = s[j].id
                  /\ t[j].l2 = s[j].l2 /\ t[j].kind = s[j].kind
    PROVE  CasesAt(t, d, lbl, q)
<1>1. ASSUME NEW j \in 1 .. Len(t), NEW k \in Keys, t[j].own[k] # 0
      PROVE  /\ <<"case", t[j].own[k]>> \in DOMAIN q
             /\ lbl[k] # NoLabel => Marks(d, lbl[k], q, <<"case", t[j].own[k]>>)
  <2>1. j \in 1 .. Len(s) /\ t[j].own = s[j].own
    BY <1>1 DEF Ownless
  <2>2. /\ <<"case", s[j].own[k]>> \in DOMAIN points
        /\ lbl[k] # NoLabel => Marks(c, lbl[k], points, <<"case", s[j].own[k]>>)
    BY <1>1, <2>1 DEF CasesAt
  <2>3. QED BY <2>1, <2>2, MarksStay DEF Extends
<1>2. ASSUME NEW k \in Keys, lbl[k] # NoLabel PROVE \E i \in 1 .. Len(t) : t[i].own[k] # 0
  <2>1. PICK i \in 1 .. Len(s) : s[i].own[k] # 0
    BY <1>2 DEF CasesAt
  <2>2. i \in 1 .. Len(t) /\ t[i].own = s[i].own
    BY <2>1 DEF Ownless
  <2>3. QED BY <2>1, <2>2
<1>3. ASSUME NEW j \in 1 .. Len(t), t[j].kind \in {"case", "default"}
      PROVE  t[j].id # 0 /\ \E i \in 1 .. Len(t) : i < j /\ t[i].own[t[j].l2] = t[j].id
  <2>1. /\ j \in 1 .. Len(s) /\ t[j].id = s[j].id /\ t[j].l2 = s[j].l2 /\ t[j].kind = s[j].kind
    BY <1>3
  <2>2. s[j].id # 0 /\ s[j].l2 \in Keys
    BY <1>3, <2>1 DEF CasesAt
  <2>3. PICK i \in 1 .. Len(s) : i < j /\ s[i].own[s[j].l2] = s[j].id
    BY <1>3, <2>1 DEF CasesAt
  <2>4. i \in 1 .. Len(t) /\ t[i].own = s[i].own
    BY <2>2, <2>3 DEF Ownless
  <2>5. QED BY <2>1, <2>2, <2>3, <2>4
<1>4. QED BY <1>1, <1>2, <1>3 DEF CasesAt

(***************************************************************************)
(* A step of the parser.  The m outermost statements stay as they are,     *)
(* there may be one more, and what the others, the value and the names     *)
(* held is dealt out anew, together with the jumps that are made.          *)
(***************************************************************************)
Loose(s, m, st, w) == (UNION {HeldBy(s[i]) : i \in m + 1 .. Len(s)}) \cup ListsOf(st) \cup Waiting(w)

State(c, s, k, st, labels, gotos, lbl, points, n) ==
    /\ Landing(c, s, k, st, labels, gotos, lbl, points, n)
    /\ AllLanded(c, Unheld(c, s, st, gotos), points)

\* What is held before is jumps of the code.
Holding(s, c, n, st, w) == Framing(s, c, n) /\ StmtOK(st, c) /\ Waiting(w) \subseteq JumpsOf(c)

\* What is held after the step is new, or was loose, and is held once.
Deals(c, loose, d, t, m, st, w) ==
    /\ ListsOf(st) \cup Waiting(w) \subseteq JumpsOf(d)
    /\ (ListsOf(st) \cup Waiting(w)) \cap JumpsOf(c) \subseteq loose
    /\ ListsOf(st) \cap Waiting(w) = {}
    /\ Len(t) = m \/ Len(t) = m + 1
    /\ Len(t) = m + 1 => /\ HeldBy(t[m + 1]) \subseteq JumpsOf(d) \cup {0}
                         /\ HeldBy(t[m + 1]) \cap JumpsOf(c) \subseteq loose
                         /\ HeldBy(t[m + 1]) \cap (ListsOf(st) \cup Waiting(w)) = {}

\* The statements around stay as they are.
Around(s, t, m) == m \in Nat /\ m <= Len(s) /\ Len(s) \in Nat /\ \A i \in 1 .. m : Like(s[i], t[i])

LEMMA FrameHolds == ASSUME NEW f, NEW c, Framed(f, c) PROVE HeldBy(f) \subseteq JumpsOf(c) \cup {0}
BY DEF Framed, HeldBy, StmtOK

LEMMA JumpsPositive == ASSUME NEW c PROVE 0 \notin JumpsOf(c)
BY DEF JumpsOf

LEMMA LooseFrom ==
    ASSUME NEW s, NEW c, NEW n, NEW st, NEW w, Holding(s, c, n, st, w), Apart(s, st, w), NEW t, NEW m, Around(s, t, m),
           NEW i \in 1 .. m
    PROVE  HeldBy(t[i]) \cap Loose(s, m, st, w) \subseteq {0} /\ HeldBy(t[i]) \subseteq JumpsOf(c) \cup {0}
           /\ HeldBy(t[i]) = HeldBy(s[i]) /\ i \in 1 .. Len(s)
<1>1. HeldBy(t[i]) = HeldBy(s[i]) /\ i \in 1 .. Len(s)
  BY LikeHeld DEF Around
<1>2. ASSUME NEW h \in HeldBy(s[i]), h \in Loose(s, m, st, w) PROVE h = 0
  <2>1. h \notin ListsOf(st) \cup Waiting(w)
    BY <1>1 DEF Apart
  <2>2. PICK j \in m + 1 .. Len(s) : h \in HeldBy(s[j])
    BY <1>2, <2>1 DEF Loose
  <2>3. j \in 1 .. Len(s) /\ i # j
    BY DEF Around
  <2>4. HeldBy(s[i]) \cap HeldBy(s[j]) \subseteq {0}
    BY <1>1, <2>3 DEF Apart
  <2>5. QED BY <1>2, <2>2, <2>4
<1>3. HeldBy(s[i]) \subseteq JumpsOf(c) \cup {0}
  BY <1>1, FrameHolds DEF Holding, Framing
<1>4. QED BY <1>1, <1>2, <1>3

LEMMA MoveApart ==
    ASSUME NEW s, NEW c, NEW n, NEW st, NEW w, Holding(s, c, n, st, w), Apart(s, st, w), NEW t, NEW m, Around(s, t, m),
           NEW d, NEW st1, NEW w1, Deals(c, Loose(s, m, st, w), d, t, m, st1, w1)
    PROVE  Apart(t, st1, w1)
<1>0. m \in Nat /\ (Len(t) = m \/ Len(t) = m + 1)
  BY DEF Around, Deals
<1>1. ASSUME NEW i \in 1 .. m, NEW S, S \cap JumpsOf(c) \subseteq Loose(s, m, st, w)
      PROVE  HeldBy(t[i]) \cap S \subseteq {0}
  BY <1>1, LooseFrom
<1>2. ASSUME NEW i \in 1 .. m PROVE HeldBy(t[i]) \cap (ListsOf(st1) \cup Waiting(w1)) = {}
  <2>1. HeldBy(t[i]) \cap (ListsOf(st1) \cup Waiting(w1)) \subseteq {0}
    <3>1. PICK S : S = ListsOf(st1) \cup Waiting(w1)
      OBVIOUS
    <3>2. S \cap JumpsOf(c) \subseteq Loose(s, m, st, w)
      BY <3>1 DEF Deals
    <3>3. QED BY <1>1, <3>1, <3>2
  <2>2. 0 \notin ListsOf(st1) \cup Waiting(w1)
    BY JumpsPositive DEF Deals
  <2>3. QED BY <2>1, <2>2
<1>3. ASSUME NEW i \in 1 .. m, NEW j \in 1 .. m, i # j PROVE HeldBy(t[i]) \cap HeldBy(t[j]) \subseteq {0}
  <2>1. /\ HeldBy(t[i]) = HeldBy(s[i]) /\ i \in 1 .. Len(s)
        /\ HeldBy(t[j]) = HeldBy(s[j]) /\ j \in 1 .. Len(s)
    BY LooseFrom
  <2>2. QED BY <1>3, <2>1 DEF Apart
<1>4. ASSUME Len(t) = m + 1, NEW i \in 1 .. m PROVE HeldBy(t[i]) \cap HeldBy(t[m + 1]) \subseteq {0}
  <2>1. HeldBy(t[m + 1]) \cap JumpsOf(c) \subseteq Loose(s, m, st, w)
    BY <1>4 DEF Deals
  <2>2. QED BY <1>1, <2>1
<1>5. \A i \in 1 .. Len(t) : i \in 1 .. m \/ (i = m + 1 /\ Len(t) = m + 1)
  BY <1>0
<1>6. \A i, j \in 1 .. Len(t) : i # j => HeldBy(t[i]) \cap HeldBy(t[j]) \subseteq {0}
  BY <1>3, <1>4, <1>5
<1>7. \A i \in 1 .. Len(t) : HeldBy(t[i]) \cap (ListsOf(st1) \cup Waiting(w1)) = {}
  BY <1>2, <1>5 DEF Deals
<1>8. ListsOf(st1) \cap Waiting(w1) = {}
  BY DEF Deals
<1>9. QED BY <1>6, <1>7, <1>8 DEF Apart

LEMMA InUnheld ==
    ASSUME NEW c, NEW s, NEW st, NEW w, NEW g
    PROVE  g \in Unheld(c, s, st, w) <=>
               g \in JumpsOf(c) /\ (\A i \in 1 .. Len(s) : g \notin HeldBy(s[i])) /\ g \notin ListsOf(st) \cup Waiting(w)
<1>1. g \in HeldIn(s, Len(s)) <=> \E i \in 1 .. Len(s) : g \in HeldBy(s[i])
  BY DEF HeldIn
<1>2. QED BY <1>1 DEF Unheld

LEMMA LooseHeld ==
    ASSUME NEW s, NEW st, NEW w, NEW m \in Nat, Len(s) \in Nat, NEW c, NEW g \in Unheld(c, s, st, w)
    PROVE  g \notin Loose(s, m, st, w)
<1>1. (\A i \in 1 .. Len(s) : g \notin HeldBy(s[i])) /\ g \notin ListsOf(st) \cup Waiting(w)
  BY InUnheld
<1>2. \A i \in m + 1 .. Len(s) : i \in 1 .. Len(s)
  OBVIOUS
<1>3. QED BY <1>1, <1>2 DEF Loose

LEMMA MoveUnheld ==
    ASSUME NEW s, NEW c, NEW n, NEW st, NEW w, Holding(s, c, n, st, w), NEW t, NEW m, Around(s, t, m),
           NEW d, Grows(c, d), NEW st1, NEW w1, Deals(c, Loose(s, m, st, w), d, t, m, st1, w1)
    PROVE  Unheld(c, s, st, w) \subseteq Unheld(d, t, st1, w1)
<1>1. ASSUME NEW g \in Unheld(c, s, st, w) PROVE g \in Unheld(d, t, st1, w1)
  <2>1. g \in JumpsOf(c) /\ \A i \in 1 .. Len(s) : g \notin HeldBy(s[i])
    BY InUnheld
  <2>2. g \notin Loose(s, m, st, w)
    BY LooseHeld DEF Around
  <2>3. g \in JumpsOf(d)
    BY <2>1 DEF Grows
  <2>4. g \notin ListsOf(st1) \cup Waiting(w1)
    BY <2>1, <2>2 DEF Deals
  <2>5. ASSUME NEW i \in 1 .. Len(t) PROVE g \notin HeldBy(t[i])
    <3>1. i \in 1 .. m \/ (i = m + 1 /\ Len(t) = m + 1)
      BY DEF Deals, Around
    <3>2. CASE i \in 1 .. m
      <4>1. i \in 1 .. Len(s) /\ HeldBy(t[i]) = HeldBy(s[i])
        BY <3>2, LikeHeld DEF Around
      <4>2. QED BY <2>1, <4>1
    <3>3. CASE i = m + 1 /\ Len(t) = m + 1
      BY <2>1, <2>2, <3>3 DEF Deals
    <3>4. QED BY <3>1, <3>2, <3>3
  <2>6. QED BY <2>3, <2>4, <2>5, InUnheld
<1>2. QED BY <1>1

\* The statement that has been opened, or is gone on with, is right as well.
TopAt(t, m, d, q, x) ==
    Len(t) = m + 1 => /\ FrameAt(t[m + 1], d, q) /\ Wants(t[m + 1].st, t, m, d)
                      /\ ListAt(t[m + 1], FALSE, d, q) /\ t[m + 1].id = x

LEMMA MoveStack ==
    ASSUME NEW s, NEW c, NEW n, NEW st, NEW w, Holding(s, c, n, st, w), Apart(s, st, w),
           NEW k \in Nat, NEW points, StackAt(s, k, c, points), NEW t, NEW m, Around(s, t, m), m <= k,
           Len(t) = m \/ Len(t) = m + 1,
           NEW d, NEW ps, Onto(c, d, ps), ps \cap JumpsOf(c) \subseteq Loose(s, m, st, w),
           NEW q, NEW x, Extends(points, q), About(points, q, x), \A i \in 1 .. m : s[i].id # x,
           TopAt(t, m, d, q, x)
    PROVE  StackAt(t, m, d, q)
<1>0. m \in Nat /\ m <= Len(s) /\ Len(s) \in Nat /\ \A i \in 1 .. m : Like(s[i], t[i]) /\ i \in 1 .. Len(s)
  BY DEF Around
<1>1. ASSUME NEW i \in 1 .. m
      PROVE  FrameAt(t[i], d, q) /\ Wants(t[i].st, t, i - 1, d) /\ ListAt(t[i], TRUE, d, q)
  <2>1. Framed(s[i], c) /\ StmtOK(s[i].st, c)
    BY <1>0 DEF Holding, Framing, Framed
  <2>2. FrameAt(s[i], c, points) /\ Wants(s[i].st, s, i - 1, c) /\ ListAt(s[i], i <= k, c, points)
    BY <1>0 DEF StackAt
  <2>k. (i <= k) = TRUE
    BY <1>0
  <2>3. FrameAt(t[i], d, q)
    BY <1>0, <2>1, <2>2, FrameStays
  <2>4. Wants(t[i].st, t, i - 1, d)
    <3>1. i - 1 \in Nat /\ \A j \in 1 .. i - 1 : j \in 1 .. m
      BY <1>0
    <3>2. \A j \in 1 .. i - 1 : t[j].kind = s[j].kind /\ t[j].id = s[j].id
      BY <1>0, <3>1 DEF Like
    <3>3. t[i].st = s[i].st
      BY <1>0 DEF Like
    <3>4. Wants(s[i].st, t, i - 1, d)
      BY <2>1, <2>2, <3>1, <3>2, WantsStay
    <3>5. QED BY <3>3, <3>4
  <2>5. ListAt(t[i], TRUE, d, q)
    <3>1. HeldBy(s[i]) \cap Loose(s, m, st, w) \subseteq {0}
      BY LooseFrom
    <3>2. NextOf(s[i].st) \subseteq HeldBy(s[i]) /\ NextOf(s[i].st) \subseteq JumpsOf(c)
      BY <2>1 DEF NextOf, HeldBy, Lists, StmtOK
    <3>3. NextOf(s[i].st) \cap ps = {}
      BY <3>1, <3>2, JumpsPositive
    <3>4. ListAt(s[i], TRUE, c, points)
      BY <2>2, <2>k
    <3>5. QED BY <1>0, <2>1, <3>3, <3>4, ListStays
  <2>6. QED BY <2>3, <2>4, <2>5
<1>2. ASSUME NEW i \in 1 .. Len(t)
      PROVE  FrameAt(t[i], d, q) /\ Wants(t[i].st, t, i - 1, d) /\ ListAt(t[i], i <= m, d, q)
  <2>1. CASE i \in 1 .. m
    <3>1. (i <= m) = TRUE
      BY <1>0, <2>1
    <3>2. QED BY <1>1, <2>1, <3>1
  <2>2. CASE i = m + 1 /\ Len(t) = m + 1
    <3>1. (i <= m) = FALSE /\ i - 1 = m
      BY <1>0, <2>2
    <3>2. QED BY <2>2, <3>1 DEF TopAt
  <2>3. QED BY <1>0, <2>1, <2>2
<1>3. QED BY <1>2 DEF StackAt

\* What a step has to show of the jumps, lists, names and cases after it.
LEMMA Move ==
    ASSUME NEW s, NEW c, NEW n \in Nat, NEW st, NEW w, Holding(s, c, n, st, w),
           NEW k \in Nat, NEW labels, NEW lbl, NEW points, State(c, s, k, st, labels, w, lbl, points, n),
           NEW t, NEW m, Around(s, t, m), m <= k,
           NEW d, NEW ps, Onto(c, d, ps), ps \cap JumpsOf(c) \subseteq Loose(s, m, st, w),
           NEW q, NEW x, Extends(points, q), About(points, q, x), \A i \in 1 .. m : s[i].id # x,
           NEW n1 \in Nat, n <= n1, x \in 0 .. n1, TopAt(t, m, d, q, x),
           NEW st1, NEW w1, Deals(c, Loose(s, m, st, w), d, t, m, st1, w1),
           Wants(st1, t, Len(t), d), Nexts(st1, d, q, d.instrs),
           NEW labels1, NamesAt(d, labels1, w1, q), NEW lbl1, CasesAt(t, d, lbl1, q),
           \A g \in Unheld(d, t, st1, w1) \ Unheld(c, s, st, w) : Landed(d, Unheld(d, t, st1, w1), q, g)
    PROVE  State(d, t, m, st1, labels1, w1, lbl1, q, n1)
<1>1. Landing(c, s, k, st, labels, w, lbl, points, n) /\ AllLanded(c, Unheld(c, s, st, w), points)
  BY DEF State
<1>2. Apart(s, st, w) /\ Distinct(s) /\ Dated(points, n) /\ StackAt(s, k, c, points)
  BY <1>1 DEF Landing
<1>3. Grows(c, d) /\ (Len(t) = m \/ Len(t) = m + 1)
  BY DEF Onto, Deals
<1>4. StackAt(t, m, d, q)
  BY <1>2, <1>3, MoveStack
<1>5. Apart(t, st1, w1)
  BY <1>2, MoveApart
<1>6. Distinct(t)
  <2>1. \A i \in 1 .. m : t[i].id = s[i].id /\ i \in 1 .. Len(s) /\ s[i].id # x
    BY DEF Around, Like
  <2>2. Len(t) = m + 1 => t[m + 1].id = x
    BY DEF TopAt
  <2>3. \A i \in 1 .. Len(t) : i \in 1 .. m \/ (i = m + 1 /\ Len(t) = m + 1)
    BY <1>3 DEF Around
  <2>4. \A i, j \in 1 .. m : i # j => t[i].id # t[j].id
    BY <1>2, <2>1 DEF Distinct
  <2>5. QED BY <2>1, <2>2, <2>3, <2>4 DEF Distinct
<1>7. Dated(q, n1)
  <2>1. ASSUME NEW p \in DOMAIN q, p[1] \notin {"label"} PROVE p[2] \in 0 .. n1 /\ p[1] # "end"
    <3>1. CASE p \in DOMAIN points
      <4>1. p[2] \in 0 .. n /\ p[1] # "end"
        BY <1>2, <2>1, <3>1 DEF Dated
      <4>2. QED BY <4>1
    <3>2. CASE p \notin DOMAIN points
      BY <2>1, <3>2 DEF About
    <3>3. QED BY <3>1, <3>2
  <2>2. QED BY <2>1 DEF Dated
<1>8. Landing(d, t, m, st1, labels1, w1, lbl1, q, n1)
  BY <1>4, <1>5, <1>6, <1>7 DEF Landing
<1>9. AllLanded(d, Unheld(d, t, st1, w1), q)
  <2>1. PICK U, V : U = Unheld(c, s, st, w) /\ V = Unheld(d, t, st1, w1)
    OBVIOUS
  <2>2. U \subseteq V /\ U \subseteq JumpsOf(c)
    BY <1>3, <2>1, MoveUnheld, InUnheld
  <2>3. U \cap ps = {}
    <3>1. \A g \in U : g \notin Loose(s, m, st, w)
      BY <2>1, LooseHeld DEF Around
    <3>2. QED BY <2>2, <3>1
  <2>4. ASSUME NEW g \in V PROVE Landed(d, V, q, g)
    <3>1. CASE g \in U
      <4>1. Landed(c, U, points, g)
        BY <1>1, <2>1, <3>1 DEF AllLanded
      <4>2. QED BY <2>2, <2>3, <3>1, <4>1, LandedStays
    <3>2. CASE g \notin U
      BY <2>1, <2>4, <3>2
    <3>3. QED BY <3>1, <3>2
  <2>5. QED BY <2>1, <2>4 DEF AllLanded
<1>10. QED BY <1>8, <1>9 DEF State

(***************************************************************************)
(* The text as it stands, and as it stands when a statement begins.        *)
(***************************************************************************)
Naming(c, labels, w) == \A n \in Names : w[n] \subseteq JumpsOf(c) /\ labels[n] \in Targets(c)

Lettered(s) == \A j \in 1 .. Len(s) : s[j].kind \in {"case", "default"} => s[j].l2 \in Keys

LEMMA WaitingIn == ASSUME NEW c, NEW labels, NEW w, Naming(c, labels, w) PROVE Waiting(w) \subseteq JumpsOf(c)
BY DEF Naming, Waiting

LEMMA Now ==
    ASSUME IInv, LInv, phase = "parse", fault = "none"
    PROVE  /\ Going /\ Coded(ta_code) /\ Len(stack) \in Nat /\ Len(stack) # 0 /\ statements \in Nat
           /\ State(ta_code, stack, Depth(stack, value.ready), value.st, idLabel, idGoto, lblSwitch, place, statements)
           /\ Holding(stack, ta_code, statements, value.st, idGoto) /\ Naming(ta_code, idLabel, idGoto)
           /\ Lettered(stack) /\ Switched(stack, ta_code, lblSwitch, tmpSwitch)
           /\ Framed(Top, ta_code) /\ Top.id \in 0 .. statements
<1>1. Going /\ Coded(ta_code) /\ Len(stack) \in Nat /\ Len(stack) # 0 /\ statements \in Nat
  BY GoesOn DEF IInv, Shaped, Going
<1>2. State(ta_code, stack, Depth(stack, value.ready), value.st, idLabel, idGoto, lblSwitch, place, statements)
  BY DEF LInv, State
<1>3. Naming(ta_code, idLabel, idGoto)
  BY DEF IInv, Shaped, Named, Naming
<1>4. /\ Framing(stack, ta_code, statements) /\ StmtOK(value.st, ta_code)
      /\ Switched(stack, ta_code, lblSwitch, tmpSwitch)
  BY DEF IInv, Shaped
<1>5. Holding(stack, ta_code, statements, value.st, idGoto)
  BY <1>3, <1>4, WaitingIn DEF Holding
<1>6. Lettered(stack)
  BY <1>4 DEF Framing, Framed, Lettered
<1>7. Framed(Top, ta_code) /\ Top.id <= statements
  BY <1>1, <1>4 DEF Framing, Top
<1>8. Top.id \in 0 .. statements
  BY <1>1, <1>7 DEF Framed, FrameType
<1>9. QED BY <1>1, <1>2, <1>3, <1>4, <1>5, <1>6, <1>7, <1>8

\* Everything about the text with the code o when a statement begins.
Begun(o) ==
    /\ Coded(o) /\ Grows(ta_code, o) /\ Holding(stack, o, statements, Null, idGoto) /\ Naming(o, idLabel, idGoto)
    /\ State(o, stack, Len(stack), Null, idLabel, idGoto, lblSwitch, place, statements)
    /\ Lettered(stack) /\ Len(stack) \in Nat /\ Len(stack) # 0 /\ statements \in Nat

LEMMA Settling ==
    ASSUME NEW c, NEW s, Len(s) \in Nat, NEW m, m = Len(s) - 1, NEW st, NEW labels, NEW w, NEW lbl, NEW points, NEW n,
           State(c, s, m, st, labels, w, lbl, points, n), ListAt(s[Len(s)], TRUE, c, points)
    PROVE  State(c, s, Len(s), st, labels, w, lbl, points, n)
<1>1. StackAt(s, m, c, points)
  BY DEF State, Landing
<1>2. ASSUME NEW i \in 1 .. Len(s) PROVE ListAt(s[i], i <= Len(s), c, points)
  <2>1. (i <= Len(s)) = TRUE
    OBVIOUS
  <2>2. CASE i = Len(s)
    BY <2>1, <2>2
  <2>3. CASE i # Len(s)
    <3>1. (i <= m) = TRUE
      BY <2>3
    <3>2. QED BY <1>1, <2>1, <3>1 DEF StackAt
  <2>4. QED BY <2>2, <2>3
<1>3. StackAt(s, Len(s), c, points)
  BY <1>1, <1>2 DEF StackAt
<1>4. QED BY <1>3 DEF State, Landing

LEMMA NullWants == ASSUME NEW s, NEW n, NEW c, NEW points, NEW e PROVE Wants(Null, s, n, c) /\ Nexts(Null, c, points, e)
BY DEF Wants, Nexts, NextOf, Null, NoLists, Lists

LEMMA AroundSelf == ASSUME NEW s, Len(s) \in Nat, NEW m \in Nat, m <= Len(s) PROVE Around(s, s, m)
BY LikeSelf DEF Around

LEMMA ExtendsSelf == ASSUME NEW points, NEW x PROVE Extends(points, points) /\ About(points, points, x)
BY DEF Extends, About

LEMMA BegunIs ==
    ASSUME IInv, LInv, phase = "parse", fault = "none", ~value.ready, NEW o, o = Opened
    PROVE  Begun(o)
<1>1. /\ Going /\ Coded(ta_code) /\ Len(stack) \in Nat /\ Len(stack) # 0 /\ statements \in Nat
      /\ State(ta_code, stack, Depth(stack, value.ready), value.st, idLabel, idGoto, lblSwitch, place, statements)
      /\ Holding(stack, ta_code, statements, value.st, idGoto) /\ Naming(ta_code, idLabel, idGoto)
      /\ Lettered(stack) /\ Framed(Top, ta_code) /\ Top.id \in 0 .. statements
  BY Now
<1>2. value.st = Null
  BY <1>1 DEF Going, IInv, Parsing
<1>3. PICK m \in Nat : m = Len(stack) - 1
  BY <1>1
<1>4. /\ State(ta_code, stack, m, Null, idLabel, idGoto, lblSwitch, place, statements)
      /\ Holding(stack, ta_code, statements, Null, idGoto)
  BY <1>1, <1>2, <1>3 DEF Depth
<1>5. m + 1 = Len(stack) /\ Top = stack[m + 1] /\ m + 1 \in 1 .. Len(stack) /\ (m + 1 <= m) = FALSE
  BY <1>1, <1>3 DEF Top
<1>6. FrameAt(Top, ta_code, place) /\ Wants(Top.st, stack, m, ta_code) /\ ListAt(Top, FALSE, ta_code, place)
  <2>1. FrameAt(stack[m + 1], ta_code, place) /\ Wants(stack[m + 1].st, stack, m + 1 - 1, ta_code)
        /\ ListAt(stack[m + 1], m + 1 <= m, ta_code, place)
    BY <1>4, <1>5 DEF State, Landing, StackAt
  <2>2. m + 1 - 1 = m
    OBVIOUS
  <2>3. QED BY <1>5, <2>1, <2>2
<1>7. CASE Top.kind # "block" \/ Top.st.lists["next"] = {}
  <2>1. o = ta_code
    BY <1>7 DEF Opened
  <2>2. ListAt(Top, TRUE, ta_code, place)
    <3>1. ASSUME Top.kind = "block"
          PROVE  \E e \in 0 .. ta_code.instrs : Nexts(Top.st, ta_code, place, e) /\ Patched(Top.st, ta_code, e)
      <4>1. ta_code.instrs \in 0 .. ta_code.instrs
        BY <1>1 DEF Coded, CodeType
      <4>2. Nexts(Top.st, ta_code, place, ta_code.instrs)
        BY <1>6, <3>1 DEF ListAt
      <4>3. NextOf(Top.st) = {}
        BY <1>7, <3>1 DEF NextOf
      <4>4. QED BY <4>1, <4>2, <4>3 DEF Patched
    <3>2. QED BY <1>6, <3>1 DEF ListAt
  <2>3. State(ta_code, stack, Len(stack), Null, idLabel, idGoto, lblSwitch, place, statements)
    BY <1>1, <1>3, <1>4, <1>5, <2>2, Settling
  <2>4. QED BY <1>1, <1>4, <2>1, <2>3, GrowsSelf DEF Begun
<1>8. CASE ~(Top.kind # "block" \/ Top.st.lists["next"] = {})
  <2>1. PICK c, l, next : c = NewLabel(ta_code) /\ l = LastLabel(c) /\ next = Top.st.lists["next"]
    OBVIOUS
  <2>2. /\ Onto(ta_code, c, {}) /\ Coded(c) /\ l \in LabelsOf(c) /\ c.labels[l] = ta_code.instrs
        /\ JumpsOf(c) = JumpsOf(ta_code) /\ c.instrs = ta_code.instrs
    BY <1>1, <2>1, LabelOnto
  <2>3. o = Backpatch(c, next, l)
    BY <1>8, <2>1 DEF Opened
  <2>4. /\ Onto(c, o, next) /\ Coded(o) /\ JumpsOf(o) = JumpsOf(c) /\ LabelsOf(o) = LabelsOf(c)
        /\ o.labels = c.labels /\ o.instrs = c.instrs
        /\ \A g \in JumpsOf(c) : o.gotos[g].label = IF g \in next THEN l ELSE c.gotos[g].label
    BY <2>2, <2>3, PatchOnto
  <2>5. Onto(ta_code, o, next) /\ Grows(ta_code, o)
    <3>1. Onto(ta_code, o, next)
      BY <2>2, <2>4, OntoOn
    <3>2. QED BY <3>1 DEF Onto
  <2>6. next \subseteq JumpsOf(ta_code) /\ next \subseteq HeldBy(Top) /\ StmtOK(Top.st, ta_code)
    BY <1>1, <2>1 DEF Framed, StmtOK, HeldBy, Lists
  <2>7. next \cap JumpsOf(ta_code) \subseteq Loose(stack, m, Null, idGoto)
    <3>1. m + 1 \in m + 1 .. Len(stack)
      BY <1>5
    <3>2. QED BY <1>5, <2>6, <3>1 DEF Loose
  <2>8. ListAt(Top, FALSE, o, place) /\ ListAt(Top, TRUE, o, place)
    <3>1. Nexts(Top.st, ta_code, place, ta_code.instrs)
      BY <1>6, <1>8 DEF ListAt
    <3>2. Nexts(Top.st, o, place, o.instrs)
      BY <2>2, <2>4, <2>5, <2>6, <3>1, NextsStay, ExtendsSelf
    <3>3. Patched(Top.st, o, o.instrs)
      BY <2>1, <2>2, <2>4, <2>6 DEF Patched, NextOf
    <3>4. o.instrs \in 0 .. o.instrs
      BY <2>4 DEF Coded, CodeType
    <3>5. QED BY <1>8, <3>2, <3>3, <3>4 DEF ListAt
  <2>9. Holding(stack, o, statements, Null, idGoto)
    <3>1. Framing(stack, o, statements)
      BY <1>1, <1>4, <2>5, FramingGrows DEF Holding
    <3>2. QED BY <1>4, <2>2, <2>4, <3>1, NullOK DEF Holding
  <2>10. Naming(o, idLabel, idGoto)
    BY <1>1, <2>5 DEF Naming, Grows, Targets
  <2>11. NamesAt(o, idLabel, idGoto, place)
    BY <1>1, <1>4, <2>5, NamesStay, ExtendsSelf DEF State, Landing, Naming
  <2>12. CasesAt(stack, o, lblSwitch, place)
    BY <1>1, <1>4, <2>5, CasesMove, ExtendsSelf DEF State, Landing, Lettered
  <2>13. TopAt(stack, m, o, place, Top.id)
    <3>1. FrameAt(Top, o, place)
      <4>1. statements + 1 # Top.id
        BY <1>1
      <4>2. QED BY <1>1, <1>6, <2>5, <4>1, FrameStays, ExtendsSelf, LikeSelf
    <3>2. Wants(Top.st, stack, m, o)
      BY <1>6, <2>5, <2>6, WantsStay
    <3>3. QED BY <1>5, <2>8, <3>1, <3>2 DEF TopAt
  <2>14. Deals(ta_code, Loose(stack, m, Null, idGoto), o, stack, m, Null, idGoto)
    <3>1. Apart(stack, Null, idGoto)
      BY <1>4 DEF State, Landing
    <3>2. HeldBy(Top) \subseteq JumpsOf(ta_code) \cup {0} /\ Waiting(idGoto) \subseteq JumpsOf(ta_code)
      BY <1>1, <1>4, FrameHolds DEF Holding
    <3>3. HeldBy(Top) \cap (ListsOf(Null) \cup Waiting(idGoto)) = {} /\ ListsOf(Null) \cap Waiting(idGoto) = {}
      BY <1>5, <3>1 DEF Apart
    <3>4. Loose(stack, m, Null, idGoto) = HeldBy(Top) \cup ListsOf(Null) \cup Waiting(idGoto)
      <4>1. m + 1 .. Len(stack) = {m + 1}
        BY <1>5
      <4>2. QED BY <1>5, <4>1 DEF Loose
    <3>5. QED BY <1>5, <2>2, <2>4, <3>2, <3>3, <3>4, NoListsOf DEF Deals
  <2>15. Unheld(o, stack, Null, idGoto) \subseteq Unheld(ta_code, stack, Null, idGoto)
    BY <2>2, <2>4 DEF Unheld
  <2>16. State(o, stack, m, Null, idLabel, idGoto, lblSwitch, place, statements)
    <3>1. \A i \in 1 .. m : stack[i].id # Top.id
      BY <1>4, <1>5 DEF State, Landing, Distinct
    <3>2. Around(stack, stack, m)
      BY <1>1, <1>5, AroundSelf
    <3>3. Wants(Null, stack, Len(stack), o) /\ Nexts(Null, o, place, o.instrs)
      BY NullWants
    <3>4. Extends(place, place) /\ About(place, place, Top.id)
      BY ExtendsSelf
    <3>5. m <= m /\ statements <= statements
      BY <1>1
    <3> HIDE DEF Top
    <3>6. QED BY <1>1, <1>4, <2>5, <2>7, <2>11, <2>12, <2>13, <2>14, <2>15, <3>1, <3>2, <3>3, <3>4, <3>5, Move
  <2>17. State(o, stack, Len(stack), Null, idLabel, idGoto, lblSwitch, place, statements)
    BY <1>1, <1>3, <1>5, <2>8, <2>16, Settling
  <2>18. QED BY <1>1, <2>4, <2>5, <2>9, <2>10, <2>17 DEF Begun
<1>9. QED BY <1>7, <1>8

\* add gives points of the statement x, or of a label, their places.
Joins(points, add, x, q) == Extends(points, q) /\ Extends(add, q) /\ About(points, q, x) /\ DOMAIN q = DOMAIN points \cup DOMAIN add

LEMMA Joining ==
    ASSUME NEW points, NEW add, NEW x, NEW q, q = points @@ add \/ q = add @@ points,
           \A p \in DOMAIN add : p \notin DOMAIN points /\ (p[1] = "label" \/ (p[2] = x /\ p[1] # "end"))
    PROVE  Joins(points, add, x, q)
<1>1. Adds(points, add, q)
  BY Adding
<1>2. QED BY <1>1 DEF Adds, Joins, Extends, About

LEMMA NewPoint ==
    ASSUME NEW points, NEW n \in Nat, Dated(points, n), NEW r, r # "label"
    PROVE  <<r, n + 1>> \notin DOMAIN points
<1>1. PICK p : p = <<r, n + 1>>
  OBVIOUS
<1>2. p[1] = r /\ p[2] = n + 1 /\ n + 1 \notin 0 .. n
  BY <1>1
<1>3. QED BY <1>1, <1>2 DEF Dated

\* The state after a step.
LEMMA Concludes ==
    ASSUME NEW d, NEW t, NEW m, NEW st, NEW labels, NEW w, NEW lbl, NEW q, NEW n,
           State(d, t, m, st, labels, w, lbl, q, n), ta_code' = d, stack' = t, value'.st = st,
           idLabel' = labels, idGoto' = w, lblSwitch' = lbl, place' = q, statements' = n,
           Depth(t, value'.ready) = m
    PROVE  LInv'
BY DEF LInv, State

LEMMA LooseAll ==
    ASSUME NEW s, Len(s) \in Nat, NEW st, NEW w
    PROVE  Loose(s, Len(s), st, w) = ListsOf(st) \cup Waiting(w)
<1>1. Len(s) + 1 .. Len(s) = {}
  OBVIOUS
<1>2. QED BY <1>1 DEF Loose

\* Jumps of the code before are of it, or held, or have landed.
Accounted(o, c, held, points) ==
    \A g \in JumpsOf(c) : g \in JumpsOf(o) \/ g \in held \/ Landed(c, {}, points, g)

LEMMA LandedOn ==
    ASSUME NEW c, Coded(c), NEW points, NEW q, Extends(points, q), NEW V, NEW g \in JumpsOf(c), Landed(c, {}, points, g)
    PROVE  Landed(c, V, q, g)
<1>1. /\ c.gotos[g].want \in DOMAIN points /\ c.gotos[g].label \in LabelsOf(c)
      /\ points[c.gotos[g].want] = c.labels[c.gotos[g].label]
  BY DEF Landed
<1>2. QED BY <1>1 DEF Landed, Extends

LEMMA SimpleLands ==
    ASSUME NEW o, Begun(o), NEW c, Coded(c), Onto(o, c, {}), NEW st, Simple(c, st), UNCHANGED <<idLabel, lblSwitch>>,
           NEW w, idGoto' = w,
           ListsOf(st) \cup Waiting(w) \subseteq JumpsOf(c), ListsOf(st) \cap JumpsOf(o) = {}, ListsOf(st) \cap Waiting(w) = {},
           Waiting(w) \cap JumpsOf(o) = Waiting(idGoto), NamesAt(c, idLabel, w, place), Naming(c, idLabel, w),
           Wants(st, stack, Len(stack), c), Wanting(c, st.lists["next"], <<"after", statements + 1>>),
           Accounted(o, c, ListsOf(st) \cup Waiting(w), place)
    PROVE  LInv'
<1>1. /\ ta_code' = c /\ value' = [ready |-> TRUE, st |-> st] /\ statements' = statements + 1
      /\ place' = place @@ (<<"after", statements + 1>> :> c.instrs)
      /\ stack' = stack
  BY DEF Simple, Id
<1>2. /\ Holding(stack, o, statements, Null, idGoto) /\ Coded(o)
      /\ State(o, stack, Len(stack), Null, idLabel, idGoto, lblSwitch, place, statements)
      /\ Lettered(stack) /\ Len(stack) \in Nat /\ Len(stack) # 0 /\ statements \in Nat
  BY DEF Begun
<1>3. PICK n, m, after, x, add, q :
          /\ n = statements + 1 /\ m = Len(stack) /\ after = <<"after", n>> /\ x = c.instrs
          /\ add = (after :> x) /\ q = place @@ add
  OBVIOUS
<1>m. m = Len(stack)
  BY <1>3
<1>4. DOMAIN add = {after} /\ add[after] = x
  <2>1. add = (after :> x)
    BY <1>3
  <2>2. QED BY <2>1, Single
<1>5. Joins(place, add, n, q)
  <2>1. after \notin DOMAIN place
    BY <1>2, <1>3, NewPoint DEF State, Landing
  <2>2. after[1] = "after" /\ after[2] = n
    BY <1>3
  <2>3. QED BY <1>3, <1>4, <2>1, <2>2, Joining
<1>6. after \in DOMAIN q /\ q[after] = c.instrs
  BY <1>3, <1>4, <1>5 DEF Joins, Extends
<1>7. Nexts(st, c, q, c.instrs)
  <2>1. after[1] = "after"
    BY <1>3
  <2>2. \A g \in st.lists["next"] : c.gotos[g].want = after
    BY <1>3 DEF Wanting
  <2>3. QED BY <1>6, <2>1, <2>2 DEF Nexts, NextOf
<1>8. NamesAt(c, idLabel, w, q)
  <2>1. Onto(c, c, {})
    BY OntoSelf
  <2>2. QED BY <1>5, <2>1, NamesStay DEF Naming, Joins
<1>9. CasesAt(stack, c, lblSwitch, q)
  BY <1>2, <1>5, CasesMove DEF State, Landing, Lettered, Joins
<1>10. Deals(o, Loose(stack, m, Null, idGoto), c, stack, m, st, w)
  <2>1. Loose(stack, m, Null, idGoto) = Waiting(idGoto)
    <3>1. Loose(stack, m, Null, idGoto) = ListsOf(Null) \cup Waiting(idGoto)
      BY <1>2, <1>m, LooseAll
    <3>2. QED BY <3>1, NoListsOf
  <2>2. (m = m + 1) = FALSE
    BY <1>2, <1>3
  <2>3. QED BY <1>3, <2>1, <2>2 DEF Deals
<1>11. ASSUME NEW g \in Unheld(c, stack, st, w) \ Unheld(o, stack, Null, idGoto)
       PROVE  Landed(c, Unheld(c, stack, st, w), q, g)
  <2>1. /\ g \in JumpsOf(c) /\ g \notin ListsOf(st) \cup Waiting(w)
        /\ \A i \in 1 .. Len(stack) : g \notin HeldBy(stack[i])
    BY <1>11, InUnheld
  <2>2. g \notin JumpsOf(o)
    <3>1. g \notin ListsOf(Null) \cup Waiting(idGoto)
      BY <2>1, NoListsOf
    <3>2. QED BY <1>11, <2>1, <3>1, InUnheld
  <2>3. Landed(c, {}, place, g)
    BY <2>1, <2>2 DEF Accounted
  <2>4. QED BY <1>5, <2>1, <2>3, LandedOn DEF Joins
<1>12. State(c, stack, m, st, idLabel, w, lblSwitch, q, n)
  <2>1. Around(stack, stack, m) /\ m <= m /\ m \in Nat
    BY <1>2, <1>3, AroundSelf
  <2>2. statements <= n /\ n \in 0 .. n /\ n \in Nat
    BY <1>2, <1>3
  <2>3. \A i \in 1 .. m : stack[i].id # n
    <3>1. \A i \in 1 .. m : stack[i].id <= statements /\ stack[i].id \in Nat
      BY <1>2, <1>3 DEF Holding, Framing, Framed, FrameType
    <3>2. QED BY <1>2, <1>3, <3>1
  <2>4. TopAt(stack, m, c, q, n)
    BY <1>2, <1>3 DEF TopAt
  <2>5. {} \cap JumpsOf(o) \subseteq Loose(stack, m, Null, idGoto)
    OBVIOUS
  <2>6. Extends(place, q) /\ About(place, q, n)
    BY <1>5 DEF Joins
  <2>7. Wants(st, stack, Len(stack), c) /\ Onto(o, c, {}) /\ State(o, stack, m, Null, idLabel, idGoto, lblSwitch, place, statements)
        /\ Holding(stack, o, statements, Null, idGoto) /\ statements \in Nat
    BY <1>2, <1>m
  <2>8. QED BY <1>7, <1>8, <1>9, <1>10, <1>11, <2>1, <2>2, <2>3, <2>4, <2>5, <2>6, <2>7, Move
<1>13. Depth(stack, value'.ready) = m
  BY <1>1, <1>3 DEF Depth
<1>14. QED BY <1>1, <1>3, <1>12, <1>13, Concludes

\* The points that the statement n + 1 opens with.
LEMMA OpenJoins ==
    ASSUME NEW points, NEW n \in Nat, Dated(points, n), NEW rs, rs \subseteq {"body", "test", "step", "case"},
           NEW add, \A p \in DOMAIN add : \E r \in rs : p = <<r, n + 1>>,
           NEW q, q = points @@ add \/ q = add @@ points
    PROVE  Joins(points, add, n + 1, q) /\ \A r : r \notin rs \cup {"label"} => <<r, n + 1>> \notin DOMAIN q
<1>1. ASSUME NEW p \in DOMAIN add PROVE p \notin DOMAIN points /\ p[2] = n + 1 /\ p[1] # "end" /\ p[1] \in rs
  <2>1. PICK r \in rs : p = <<r, n + 1>>
    OBVIOUS
  <2>2. r # "label" /\ r # "end"
    OBVIOUS
  <2>3. p \notin DOMAIN points
    BY <2>1, <2>2, NewPoint
  <2>4. QED BY <2>1, <2>2, <2>3
<1>2. Joins(points, add, n + 1, q)
  BY <1>1, Joining
<1>3. ASSUME NEW r, r \notin rs \cup {"label"} PROVE <<r, n + 1>> \notin DOMAIN q
  <2>1. PICK p : p = <<r, n + 1>>
    OBVIOUS
  <2>2. p[1] = r
    BY <2>1
  <2>3. p \notin DOMAIN points
    BY <1>3, <2>1, NewPoint
  <2>4. p \notin DOMAIN add
    BY <1>1, <1>3, <2>2
  <2>5. QED BY <1>2, <2>1, <2>3, <2>4 DEF Joins
<1>4. QED BY <1>2, <1>3

LEMMA AppendIs ==
    ASSUME NEW s, s \in Seq(FrameType), NEW f, NEW t, t = Append(s, f)
    PROVE  Len(t) = Len(s) + 1 /\ t[Len(s) + 1] = f /\ \A i \in 1 .. Len(s) : t[i] = s[i]
OBVIOUS

LEMMA OpenLands ==
    ASSUME NEW o, Begun(o), value.st = Null, ~value.ready, NEW c, Coded(c), Onto(o, c, {}), NEW f, NEW add, Open(c, f, add),
           UNCHANGED <<idLabel, idGoto, lblSwitch>>,
           f.id = statements + 1, f.st = Null, Ownless(f), f.kind \notin {"case", "default", "else"},
           HeldBy(f) \subseteq JumpsOf(c) \cup {0}, HeldBy(f) \cap JumpsOf(o) = {},
           NEW q, place' = q, Joins(place, add, statements + 1, q), FrameAt(f, c, q),
           Accounted(o, c, HeldBy(f), q)
    PROVE  LInv'
<1>1. /\ ta_code' = c /\ stack' = Append(stack, f) /\ value' = value /\ statements' = statements + 1
  BY DEF Open, Id
<1>2. /\ Holding(stack, o, statements, Null, idGoto) /\ Coded(o)
      /\ State(o, stack, Len(stack), Null, idLabel, idGoto, lblSwitch, place, statements)
      /\ Naming(o, idLabel, idGoto)
      /\ Lettered(stack) /\ Len(stack) \in Nat /\ Len(stack) # 0 /\ statements \in Nat
  BY DEF Begun
<1>3. PICK n, t : n = statements + 1 /\ t = Append(stack, f)
  OBVIOUS
<1>m. PICK m \in Nat : m = Len(stack)
  BY <1>2
<1>4. Len(t) = m + 1 /\ t[m + 1] = f /\ \A i \in 1 .. m : t[i] = stack[i]
  BY <1>2, <1>3, <1>m, AppendIs DEF Holding, Framing
<1>5. \A i \in 1 .. Len(t) : i \in 1 .. m \/ i = m + 1
  BY <1>m, <1>4
<1>6. NamesAt(c, idLabel, idGoto, q)
  BY <1>2, NamesStay DEF Naming, Joins, State, Landing
<1>7. CasesAt(t, c, lblSwitch, q)
  <2>1. \A i \in 1 .. Len(stack) : i \in 1 .. Len(t) /\ t[i].own = stack[i].own
    BY <1>m, <1>4
  <2>2. \A j \in 1 .. Len(t) :
           \/ Ownless(t[j]) /\ t[j].kind \notin {"case", "default"}
           \/ /\ j \in 1 .. Len(stack) /\ t[j].own = stack[j].own /\ t[j].id = stack[j].id
              /\ t[j].l2 = stack[j].l2 /\ t[j].kind = stack[j].kind
    BY <1>m, <1>4, <1>5
  <2>3. CasesAt(stack, o, lblSwitch, place) /\ Extends(place, q)
    BY <1>2 DEF State, Landing, Joins
  <2>4. QED BY <1>2, <2>1, <2>2, <2>3, CasesMove DEF Lettered
<1>8. Deals(o, Loose(stack, m, Null, idGoto), c, t, m, Null, idGoto)
  <2>1. Loose(stack, m, Null, idGoto) = Waiting(idGoto)
    <3>1. Loose(stack, m, Null, idGoto) = ListsOf(Null) \cup Waiting(idGoto)
      BY <1>2, <1>m, LooseAll
    <3>2. QED BY <3>1, NoListsOf
  <2>2. Waiting(idGoto) \subseteq JumpsOf(o) /\ JumpsOf(o) \subseteq JumpsOf(c)
    BY <1>2 DEF Holding, Onto, Grows
  <2>3. HeldBy(f) \cap Waiting(idGoto) = {}
    BY <2>2
  <2>4. QED BY <1>4, <2>1, <2>2, <2>3, NoListsOf DEF Deals
<1>9. ASSUME NEW g \in Unheld(c, t, Null, idGoto) \ Unheld(o, stack, Null, idGoto)
      PROVE  Landed(c, Unheld(c, t, Null, idGoto), q, g)
  <2>1. /\ g \in JumpsOf(c) /\ g \notin ListsOf(Null) \cup Waiting(idGoto)
        /\ \A i \in 1 .. Len(t) : g \notin HeldBy(t[i])
    BY <1>9, InUnheld
  <2>2. g \notin HeldBy(f)
    BY <1>4, <1>m, <2>1
  <2>3. g \notin JumpsOf(o)
    <3>1. \A i \in 1 .. Len(stack) : g \notin HeldBy(stack[i])
      BY <1>4, <1>m, <2>1
    <3>2. QED BY <1>9, <2>1, <3>1, InUnheld
  <2>4. Landed(c, {}, q, g)
    BY <2>1, <2>2, <2>3 DEF Accounted
  <2>5. QED BY <2>4, LandedMore
<1>10. TopAt(t, m, c, q, n)
  <2>1. Wants(f.st, t, m, c) /\ ListAt(f, FALSE, c, q)
    BY NullWants DEF ListAt
  <2>2. QED BY <1>3, <1>4, <2>1 DEF TopAt
<1>11. State(c, t, m, Null, idLabel, idGoto, lblSwitch, q, n)
  <2>1. Around(stack, t, m) /\ m <= m
    <3>1. \A i \in 1 .. m : Like(stack[i], t[i])
      BY <1>4, LikeSelf
    <3>2. QED BY <1>m, <3>1 DEF Around
  <2>2. statements <= n /\ n \in 0 .. n /\ n \in Nat
    BY <1>2, <1>3
  <2>3. \A i \in 1 .. m : stack[i].id # n
    <3>1. \A i \in 1 .. m : stack[i].id <= statements /\ stack[i].id \in Nat
      BY <1>2, <1>m DEF Holding, Framing, Framed, FrameType
    <3>2. QED BY <1>2, <1>3, <3>1
  <2>4. {} \cap JumpsOf(o) \subseteq Loose(stack, m, Null, idGoto)
    OBVIOUS
  <2>5. Extends(place, q) /\ About(place, q, n)
    BY <1>3 DEF Joins
  <2>6. Wants(Null, t, Len(t), c) /\ Nexts(Null, c, q, c.instrs)
    BY NullWants
  <2>7. State(o, stack, m, Null, idLabel, idGoto, lblSwitch, place, statements)
        /\ Holding(stack, o, statements, Null, idGoto) /\ statements \in Nat
    BY <1>2, <1>m
  <2>8. QED BY <1>6, <1>7, <1>8, <1>9, <1>10, <2>1, <2>2, <2>3, <2>4, <2>5, <2>6, <2>7, Move
<1>12. Depth(t, value'.ready) = m
  BY <1>1, <1>4, <1>m DEF Depth
<1>13. value'.st = Null /\ idLabel' = idLabel /\ idGoto' = idGoto /\ lblSwitch' = lblSwitch
  BY <1>1
<1>14. QED BY <1>1, <1>3, <1>11, <1>12, <1>13, Concludes

\* What is let go when the statement on top changes, and what of it and of the
\* new jumps is not held again.
TopHeld == HeldBy(Top) \cup ListsOf(value.st) \cup Waiting(idGoto)

Freed(c, held) == {g \in JumpsOf(c) : (g \notin JumpsOf(ta_code) \/ g \in TopHeld) /\ g \notin held}

HeldOver(t, m) == IF Len(t) = m + 1 THEN HeldBy(t[m + 1]) ELSE {}

\* The text while there is a statement on top.
Topped(m) ==
    /\ IInv /\ LInv /\ phase = "parse" /\ fault = "none"
    /\ m \in Nat /\ m + 1 = Len(stack)

LEMMA ToppedIs ==
    ASSUME IInv, LInv, phase = "parse", fault = "none"
    PROVE  \E m : Topped(m)
<1>1. Len(stack) \in Nat /\ Len(stack) # 0
  BY Now
<1>2. PICK m : m = Len(stack) - 1
  OBVIOUS
<1>3. m \in Nat /\ m + 1 = Len(stack)
  BY <1>1, <1>2
<1>4. QED BY <1>3 DEF Topped

LEMMA TopNow ==
    ASSUME NEW m, Topped(m)
    PROVE  /\ m \in Nat /\ m + 1 = Len(stack) /\ Top = stack[m + 1] /\ Coded(ta_code) /\ Framed(Top, ta_code)
           /\ Top.id \in 0 .. statements /\ statements \in Nat
           /\ FrameAt(Top, ta_code, place) /\ Wants(Top.st, stack, m, ta_code)
           /\ IF value.ready THEN ListAt(Top, TRUE, ta_code, place) ELSE ListAt(Top, FALSE, ta_code, place)
           /\ Wants(value.st, stack, m + 1, ta_code) /\ Nexts(value.st, ta_code, place, ta_code.instrs)
           /\ Apart(stack, value.st, idGoto) /\ Dated(place, statements)
           /\ StmtOK(value.st, ta_code) /\ Waiting(idGoto) \subseteq JumpsOf(ta_code)
           /\ NamesAt(ta_code, idLabel, idGoto, place) /\ Naming(ta_code, idLabel, idGoto)
           /\ CasesAt(stack, ta_code, lblSwitch, place) /\ Lettered(stack)
           /\ AllLanded(ta_code, Unheld(ta_code, stack, value.st, idGoto), place)
           /\ Framing(stack, ta_code, statements)
<1>1. m \in Nat /\ m + 1 = Len(stack) /\ IInv /\ LInv /\ phase = "parse" /\ fault = "none"
  BY DEF Topped
<1>2. /\ Coded(ta_code) /\ statements \in Nat
      /\ State(ta_code, stack, Depth(stack, value.ready), value.st, idLabel, idGoto, lblSwitch, place, statements)
      /\ Holding(stack, ta_code, statements, value.st, idGoto) /\ Naming(ta_code, idLabel, idGoto)
      /\ Lettered(stack) /\ Framed(Top, ta_code) /\ Top.id \in 0 .. statements
  BY <1>1, Now
<1>3. Top = stack[m + 1] /\ m + 1 \in 1 .. Len(stack) /\ (m + 1 <= m) = FALSE /\ (m + 1 <= m + 1) = TRUE
  BY <1>1 DEF Top
<1>4. Depth(stack, value.ready) = IF value.ready THEN m + 1 ELSE m
  BY <1>1 DEF Depth
<1>5. /\ StackAt(stack, Depth(stack, value.ready), ta_code, place)
      /\ Wants(value.st, stack, m + 1, ta_code) /\ Nexts(value.st, ta_code, place, ta_code.instrs)
      /\ Apart(stack, value.st, idGoto) /\ Dated(place, statements)
      /\ NamesAt(ta_code, idLabel, idGoto, place) /\ CasesAt(stack, ta_code, lblSwitch, place)
      /\ AllLanded(ta_code, Unheld(ta_code, stack, value.st, idGoto), place)
  BY <1>1, <1>2 DEF State, Landing
<1>6. /\ FrameAt(Top, ta_code, place) /\ Wants(Top.st, stack, m, ta_code)
      /\ ListAt(Top, m + 1 <= Depth(stack, value.ready), ta_code, place)
  <2>1. PICK i, k : i = m + 1 /\ k = Depth(stack, value.ready)
    OBVIOUS
  <2>2. i \in 1 .. Len(stack) /\ i - 1 = m
    BY <1>1, <1>3, <2>1
  <2>3. StackAt(stack, k, ta_code, place)
    BY <1>5, <2>1
  <2>4. FrameAt(stack[i], ta_code, place) /\ Wants(stack[i].st, stack, i - 1, ta_code)
        /\ ListAt(stack[i], i <= k, ta_code, place)
    BY <2>2, <2>3 DEF StackAt
  <2>5. QED BY <1>3, <2>1, <2>2, <2>4
<1>7. IF value.ready THEN ListAt(Top, TRUE, ta_code, place) ELSE ListAt(Top, FALSE, ta_code, place)
  <2>1. CASE value.ready
    <3>1. (m + 1 <= Depth(stack, value.ready)) = TRUE
      BY <1>3, <1>4, <2>1
    <3>2. QED BY <1>6, <2>1, <3>1
  <2>2. CASE ~value.ready
    <3>1. (m + 1 <= Depth(stack, value.ready)) = FALSE
      BY <1>3, <1>4, <2>2
    <3>2. QED BY <1>6, <2>2, <3>1
  <2>3. QED BY <2>1, <2>2
<1>8. StmtOK(value.st, ta_code) /\ Waiting(idGoto) \subseteq JumpsOf(ta_code) /\ Framing(stack, ta_code, statements)
  BY <1>2 DEF Holding
<1>9. QED BY <1>1, <1>2, <1>3, <1>5, <1>6, <1>7, <1>8

LEMMA TopLoose ==
    ASSUME NEW m, Topped(m)
    PROVE  /\ Loose(stack, m, value.st, idGoto) = TopHeld /\ Holding(stack, ta_code, statements, value.st, idGoto)
           /\ TopHeld \subseteq JumpsOf(ta_code) \cup {0}
           /\ \A i \in 1 .. m : HeldBy(stack[i]) \cap TopHeld \subseteq {0} /\ HeldBy(stack[i]) \subseteq JumpsOf(ta_code) \cup {0}
<1>1. /\ m \in Nat /\ m + 1 = Len(stack) /\ Top = stack[m + 1] /\ Apart(stack, value.st, idGoto)
      /\ Framed(Top, ta_code) /\ StmtOK(value.st, ta_code) /\ Waiting(idGoto) \subseteq JumpsOf(ta_code)
  BY TopNow
<1>2. Holding(stack, ta_code, statements, value.st, idGoto)
  BY Now DEF Topped
<1>3. Loose(stack, m, value.st, idGoto) = TopHeld
  <2>1. m + 1 .. Len(stack) = {m + 1}
    BY <1>1
  <2>2. QED BY <1>1, <2>1 DEF Loose, TopHeld
<1>4. TopHeld \subseteq JumpsOf(ta_code) \cup {0}
  <2>1. HeldBy(Top) \subseteq JumpsOf(ta_code) \cup {0}
    BY <1>1, FrameHolds
  <2>2. ListsOf(value.st) \subseteq JumpsOf(ta_code)
    BY <1>1 DEF StmtOK, ListsOf
  <2>3. QED BY <1>1, <2>1, <2>2 DEF TopHeld
<1>5. Around(stack, stack, m)
  BY <1>1, AroundSelf
<1>6. \A i \in 1 .. m : HeldBy(stack[i]) \cap TopHeld \subseteq {0} /\ HeldBy(stack[i]) \subseteq JumpsOf(ta_code) \cup {0}
  BY <1>1, <1>2, <1>3, <1>5, LooseFrom
<1>7. QED BY <1>2, <1>3, <1>4, <1>6

LEMMA TopLands ==
    ASSUME NEW m, Topped(m), NEW c, Coded(c), NEW ps, Onto(ta_code, c, ps), ps \cap JumpsOf(ta_code) \subseteq TopHeld,
           NEW t, Len(t) = m \/ Len(t) = m + 1, \A i \in 1 .. m : t[i] = stack[i],
           NEW q, NEW add, Joins(place, add, Top.id, q), TopAt(t, m, c, q, Top.id),
           NEW st, NEW w, ListsOf(st) \cup Waiting(w) \subseteq JumpsOf(c),
           (ListsOf(st) \cup Waiting(w)) \cap JumpsOf(ta_code) \subseteq TopHeld, ListsOf(st) \cap Waiting(w) = {},
           HeldOver(t, m) \subseteq JumpsOf(c) \cup {0}, HeldOver(t, m) \cap JumpsOf(ta_code) \subseteq TopHeld,
           HeldOver(t, m) \cap (ListsOf(st) \cup Waiting(w)) = {},
           Wants(st, t, Len(t), c), Nexts(st, c, q, c.instrs), NEW labels, NamesAt(c, labels, w, q),
           NEW lbl, CasesAt(t, c, lbl, q),
           NEW held, held = ListsOf(st) \cup Waiting(w) \cup HeldOver(t, m), AllLanded(c, Freed(c, held), q)
    PROVE  State(c, t, m, st, labels, w, lbl, q, statements)
<1>1. /\ m \in Nat /\ m + 1 = Len(stack) /\ Top.id \in 0 .. statements /\ statements \in Nat
      /\ Top = stack[m + 1]
  BY TopNow
<1>2. /\ Loose(stack, m, value.st, idGoto) = TopHeld /\ Holding(stack, ta_code, statements, value.st, idGoto)
      /\ \A i \in 1 .. m : HeldBy(stack[i]) \cap TopHeld \subseteq {0} /\ HeldBy(stack[i]) \subseteq JumpsOf(ta_code) \cup {0}
  BY TopLoose
<1>3. State(ta_code, stack, Depth(stack, value.ready), value.st, idLabel, idGoto, lblSwitch, place, statements)
  BY Now DEF Topped
<1>4. PICK k : k = Depth(stack, value.ready)
  OBVIOUS
<1>5. k \in Nat /\ m <= k
  <2>1. k = m \/ k = m + 1
    BY <1>1, <1>4 DEF Depth
  <2>2. QED BY <1>1, <2>1
<1>6. Around(stack, t, m)
  BY <1>1, LikeSelf DEF Around
<1>7. Deals(ta_code, Loose(stack, m, value.st, idGoto), c, t, m, st, w)
  BY <1>2 DEF Deals, HeldOver
<1>8. ASSUME NEW g PROVE g \in Unheld(c, t, st, w) <=> /\ g \in JumpsOf(c) /\ g \notin held
                                                       /\ \A i \in 1 .. m : g \notin HeldBy(stack[i])
  <2>1. g \in Unheld(c, t, st, w) <=>
           g \in JumpsOf(c) /\ (\A i \in 1 .. Len(t) : g \notin HeldBy(t[i])) /\ g \notin ListsOf(st) \cup Waiting(w)
    BY InUnheld
  <2>2. CASE Len(t) = m
    <3>1. HeldOver(t, m) = {}
      BY <1>1, <2>2 DEF HeldOver
    <3>2. QED BY <2>1, <2>2, <3>1
  <2>3. CASE Len(t) = m + 1
    <3>1. HeldOver(t, m) = HeldBy(t[m + 1])
      BY <2>3 DEF HeldOver
    <3>2. \A i \in 1 .. Len(t) : i \in 1 .. m \/ i = m + 1
      BY <1>1, <2>3
    <3>3. m + 1 \in 1 .. Len(t) /\ \A i \in 1 .. m : i \in 1 .. Len(t)
      BY <1>1, <2>3
    <3>4. QED BY <2>1, <3>1, <3>2, <3>3
  <2>4. QED BY <2>2, <2>3
<1>9. Freed(c, held) \subseteq Unheld(c, t, st, w)
  <2>1. ASSUME NEW g \in Freed(c, held), NEW i \in 1 .. m PROVE g \notin HeldBy(stack[i])
    <3>1. g # 0
      BY JumpsPositive DEF Freed
    <3>2. QED BY <1>2, <2>1, <3>1 DEF Freed
  <2>2. QED BY <1>8, <2>1 DEF Freed
<1>10. ASSUME NEW g \in Unheld(c, t, st, w) \ Unheld(ta_code, stack, value.st, idGoto)
       PROVE  Landed(c, Unheld(c, t, st, w), q, g)
  <2>1. g \in JumpsOf(c) /\ g \notin held /\ \A i \in 1 .. m : g \notin HeldBy(stack[i])
    BY <1>8, <1>10
  <2>2. g \notin JumpsOf(ta_code) \/ g \in TopHeld
    <3>1. ASSUME g \in JumpsOf(ta_code), g \notin TopHeld PROVE FALSE
      <4>1. \A i \in 1 .. Len(stack) : i \in 1 .. m \/ i = m + 1
        BY <1>1
      <4>2. \A i \in 1 .. Len(stack) : g \notin HeldBy(stack[i])
        BY <1>1, <2>1, <3>1, <4>1 DEF TopHeld
      <4>3. QED BY <1>10, <3>1, <4>2, InUnheld DEF TopHeld
    <3>2. QED BY <3>1
  <2>3. g \in Freed(c, held)
    BY <2>1, <2>2 DEF Freed
  <2>4. QED BY <1>9, <2>3, LandedMore DEF AllLanded
<1>11. \A i \in 1 .. m : stack[i].id # Top.id
  <2>1. m + 1 \in 1 .. Len(stack) /\ \A i \in 1 .. m : i \in 1 .. Len(stack) /\ i # m + 1
    BY <1>1
  <2>2. QED BY <1>1, <1>3, <2>1 DEF State, Landing, Distinct
<1>12. statements <= statements
  BY <1>1
<1>13. Extends(place, q) /\ About(place, q, Top.id)
  BY DEF Joins
<1>14. State(ta_code, stack, k, value.st, idLabel, idGoto, lblSwitch, place, statements)
  BY <1>3, <1>4
<1> HIDE DEF Top
<1>15. QED BY <1>1, <1>2, <1>5, <1>6, <1>7, <1>10, <1>11, <1>12, <1>13, <1>14, Move

LEMMA BelowIs ==
    ASSUME NEW m, Topped(m)
    PROVE  /\ Below \in Seq(FrameType) /\ Len(Below) = m /\ \A i \in 1 .. m : Below[i] = stack[i]
           /\ \A f : /\ Len(Append(Below, f)) = m + 1 /\ Append(Below, f)[m + 1] = f
                     /\ \A i \in 1 .. m : Append(Below, f)[i] = stack[i]
<1>1. m \in Nat /\ m + 1 = Len(stack) /\ Framing(stack, ta_code, statements)
  BY TopNow
<1>2. stack \in Seq(FrameType)
  BY <1>1 DEF Framing
<1>3. PICK k, t : k = Len(stack) - 1 /\ t = SubSeq(stack, 1, k)
  OBVIOUS
<1>4. k = m /\ t = Below
  BY <1>1, <1>3 DEF Below
<1>5. t \in Seq(FrameType) /\ Len(t) = m /\ \A i \in 1 .. m : t[i] = stack[i]
  BY <1>1, <1>2, <1>3, <1>4
<1>6. ASSUME NEW f
      PROVE  /\ Len(Append(t, f)) = m + 1 /\ Append(t, f)[m + 1] = f
             /\ \A i \in 1 .. m : Append(t, f)[i] = stack[i]
  BY <1>1, <1>5
<1>7. QED BY <1>4, <1>5, <1>6

\* The points that a statement ends with.
EndPoints(add) == \A p \in DOMAIN add : p \notin DOMAIN place /\ \E r \in {"else", "test", "dispatch"} : p = <<r, Top.id>>

LEMMA EndJoins ==
    ASSUME NEW m, Topped(m), NEW add, EndPoints(add), NEW c, NEW st, Reduce(c, st, add), NEW q, place' = q
    PROVE  /\ Extends(place, q) /\ Extends(add, q) /\ \E all : Joins(place, all, Top.id, q)
           /\ <<"after", Top.id>> \in DOMAIN q /\ q[<<"after", Top.id>>] = c.instrs
<1>1. FrameAt(Top, ta_code, place)
  BY TopNow
<1>2. PICK id, p, x, after, more : id = Top.id /\ p = <<"after", id>> /\ x = c.instrs /\ after = (p :> x) /\ more = add @@ after
  OBVIOUS
<1>3. q = more @@ place
  BY <1>2 DEF Reduce
<1>4. DOMAIN after = {p} /\ after[p] = x
  <2>1. after = (p :> x)
    BY <1>2
  <2>2. QED BY <2>1, Single
<1>5. p \notin DOMAIN place
  BY <1>1, <1>2 DEF FrameAt
<1>6. \A r \in DOMAIN add : r \notin DOMAIN place /\ r[2] = id /\ r[1] \in {"else", "test", "dispatch"}
  <2>1. ASSUME NEW r \in DOMAIN add PROVE r \notin DOMAIN place /\ r[2] = id /\ r[1] \in {"else", "test", "dispatch"}
    <3>1. PICK e \in {"else", "test", "dispatch"} : r = <<e, id>>
      BY <1>2 DEF EndPoints
    <3>2. r[1] = e /\ r[2] = id
      BY <3>1
    <3>3. QED BY <3>2 DEF EndPoints
  <2>2. QED BY <2>1
<1>7. p[1] = "after" /\ p[2] = id
  BY <1>2
<1>8. Adds(after, add, more)
  BY <1>2, Adding
<1>9. p \notin DOMAIN add
  BY <1>6, <1>7
<1>10. DOMAIN more = DOMAIN add \cup {p} /\ Extends(add, more) /\ more[p] = x
  BY <1>4, <1>8, <1>9 DEF Adds, Extends
<1>11. Joins(place, more, id, q)
  <2>1. \A r \in DOMAIN more : r \notin DOMAIN place /\ (r[1] = "label" \/ (r[2] = id /\ r[1] # "end"))
    BY <1>5, <1>6, <1>7, <1>10
  <2>2. QED BY <1>3, <2>1, Joining
<1>12. p \in DOMAIN q /\ q[p] = x /\ Extends(add, q) /\ Extends(place, q)
  BY <1>10, <1>11 DEF Joins, Extends
<1>13. QED BY <1>2, <1>11, <1>12

LEMMA NamesNow ==
    ASSUME NEW m, Topped(m), NEW c, NEW ps, Onto(ta_code, c, ps), NEW q, Extends(place, q)
    PROVE  NamesAt(c, idLabel, idGoto, q)
BY TopNow, NamesStay DEF Naming

\* The statement on top has no cases, or is not a switch.
LEMMA CasesNow ==
    ASSUME NEW m, Topped(m), Top.kind # "switch", NEW c, NEW ps, Onto(ta_code, c, ps), NEW q, Extends(place, q),
           NEW t, Len(t) = m \/ (Len(t) = m + 1 /\ Ownless(t[m + 1]) /\ t[m + 1].kind \notin {"case", "default"}),
           \A i \in 1 .. m : t[i] = stack[i]
    PROVE  CasesAt(t, c, lblSwitch, q)
<1>1. /\ m \in Nat /\ m + 1 = Len(stack) /\ Top = stack[m + 1] /\ Framed(Top, ta_code) /\ Lettered(stack)
      /\ CasesAt(stack, ta_code, lblSwitch, place)
  BY TopNow
<1>2. Ownless(Top)
  BY <1>1 DEF Framed, Ownless
<1>3. \A i \in 1 .. Len(stack) : Ownless(stack[i]) \/ (i \in 1 .. Len(t) /\ t[i].own = stack[i].own)
  <2>1. \A i \in 1 .. Len(stack) : (i \in 1 .. m /\ i \in 1 .. Len(t)) \/ i = m + 1
    BY <1>1
  <2>2. QED BY <1>1, <1>2, <2>1
<1>4. \A j \in 1 .. Len(t) :
         \/ Ownless(t[j]) /\ t[j].kind \notin {"case", "default"}
         \/ /\ j \in 1 .. Len(stack) /\ t[j].own = stack[j].own /\ t[j].id = stack[j].id
            /\ t[j].l2 = stack[j].l2 /\ t[j].kind = stack[j].kind
  <2>1. ASSUME NEW j \in 1 .. Len(t)
        PROVE  (j \in 1 .. m /\ j \in 1 .. Len(stack)) \/ (j = m + 1 /\ Len(t) = m + 1)
    BY <1>1
  <2>2. QED BY <2>1
<1>5. QED BY <1>1, <1>3, <1>4, CasesMove DEF Lettered

LEMMA ReduceLands ==
    ASSUME NEW m, Topped(m), NEW c, Coded(c), NEW ps, Onto(ta_code, c, ps), ps \cap JumpsOf(ta_code) \subseteq TopHeld,
           NEW st, NEW add, EndPoints(add), Reduce(c, st, add), NEW q, place' = q,
           NEW labels, NEW w, NEW lbl, idLabel' = labels, idGoto' = w, lblSwitch' = lbl,
           ListsOf(st) \cup Waiting(w) \subseteq JumpsOf(c),
           (ListsOf(st) \cup Waiting(w)) \cap JumpsOf(ta_code) \subseteq TopHeld, ListsOf(st) \cap Waiting(w) = {},
           Wants(st, stack, m, c), Nexts(st, c, q, c.instrs), NamesAt(c, labels, w, q), CasesAt(Below, c, lbl, q),
           AllLanded(c, Freed(c, ListsOf(st) \cup Waiting(w)), q)
    PROVE  LInv'
<1>1. /\ ta_code' = c /\ stack' = Below /\ value' = [ready |-> TRUE, st |-> st] /\ statements' = statements
  BY DEF Reduce
<1>2. PICK all : Joins(place, all, Top.id, q)
  BY EndJoins
<1>3. m \in Nat /\ m + 1 = Len(stack) /\ StmtOK(value.st, ta_code)
  BY TopNow
<1>4. PICK t : t = Below
  OBVIOUS
<1>5. Len(t) = m /\ \A i \in 1 .. m : t[i] = stack[i]
  BY <1>4, BelowIs
<1>6. TopAt(t, m, c, q, Top.id) /\ HeldOver(t, m) = {}
  <2>1. Len(t) # m + 1
    BY <1>3, <1>5
  <2>2. QED BY <2>1, Zenon DEF TopAt, HeldOver
<1>7. Wants(st, t, Len(t), c)
  <2>1. ASSUME NEW kinds, NEW i \in 1 .. m, Encloses(kinds, stack, m, i) PROVE Encloses(kinds, t, m, i)
    <3>1. \A j \in i + 1 .. m : j \in 1 .. m
      BY <1>3
    <3>2. QED BY <1>5, <2>1, <3>1 DEF Encloses
  <2>2. \A g \in st.lists["break"] : \E i \in 1 .. m : Encloses(Breakable, t, m, i) /\ c.gotos[g].want = <<"after", t[i].id>>
    BY <1>5, <2>1 DEF Wants
  <2>3. \A g \in st.lists["continue"] : \E i \in 1 .. m : Encloses(Loops, t, m, i) /\ c.gotos[g].want = <<Onward(t[i].kind), t[i].id>>
    BY <1>5, <2>1 DEF Wants
  <2>4. QED BY <1>5, <2>2, <2>3 DEF Wants
<1>8. State(c, t, m, st, labels, w, lbl, q, statements)
  <2>1. CasesAt(t, c, lbl, q)
    BY <1>4
  <2>2. PICK held : held = ListsOf(st) \cup Waiting(w) \cup HeldOver(t, m)
    OBVIOUS
  <2>3. AllLanded(c, Freed(c, held), q)
    BY <1>6, <2>2
  <2>4. /\ HeldOver(t, m) \subseteq JumpsOf(c) \cup {0} /\ HeldOver(t, m) \cap JumpsOf(ta_code) \subseteq TopHeld
        /\ HeldOver(t, m) \cap (ListsOf(st) \cup Waiting(w)) = {}
    BY <1>6
  <2>5. QED BY <1>2, <1>5, <1>6, <1>7, <2>1, <2>2, <2>3, <2>4, TopLands
<1>9. Depth(t, value'.ready) = m /\ value'.st = st
  BY <1>1, <1>5 DEF Depth
<1>10. QED BY <1>1, <1>4, <1>8, <1>9, Concludes

\* The statement on top goes on: t has f there now.
LEMMA RetopLands ==
    ASSUME NEW m, Topped(m), NEW c, Coded(c), Onto(ta_code, c, {}), NEW f, f.id = Top.id,
           ta_code' = c, stack' = Append(Below, f), value' = [ready |-> FALSE, st |-> Null],
           UNCHANGED <<idLabel, idGoto, lblSwitch, statements>>,
           NEW q, place' = q, NEW add, Joins(place, add, Top.id, q), FrameAt(f, c, q), ListAt(f, FALSE, c, q),
           Wants(f.st, stack, m, c), HeldBy(f) \subseteq JumpsOf(c) \cup {0},
           HeldBy(f) \cap JumpsOf(ta_code) \subseteq HeldBy(Top) \cup ListsOf(value.st),
           Top.kind # "switch", Ownless(f), f.kind \notin {"case", "default"},
           AllLanded(c, Freed(c, HeldBy(f) \cup Waiting(idGoto)), q)
    PROVE  LInv'
<1>1. /\ m \in Nat /\ m + 1 = Len(stack) /\ StmtOK(value.st, ta_code) /\ Apart(stack, value.st, idGoto)
      /\ Top = stack[m + 1] /\ Waiting(idGoto) \subseteq JumpsOf(ta_code)
  BY TopNow
<1>2. PICK t : t = Append(Below, f)
  OBVIOUS
<1>3. Len(t) = m + 1 /\ t[m + 1] = f /\ \A i \in 1 .. m : t[i] = stack[i]
  BY <1>2, BelowIs
<1>4. HeldOver(t, m) = HeldBy(f)
  BY <1>3 DEF HeldOver
<1>5. Wants(f.st, t, m, c)
  <2>1. ASSUME NEW kinds, NEW i \in 1 .. m, Encloses(kinds, stack, m, i) PROVE Encloses(kinds, t, m, i)
    <3>1. \A j \in i + 1 .. m : j \in 1 .. m
      BY <1>1
    <3>2. QED BY <1>3, <2>1, <3>1 DEF Encloses
  <2>2. \A g \in f.st.lists["break"] : \E i \in 1 .. m : Encloses(Breakable, t, m, i) /\ c.gotos[g].want = <<"after", t[i].id>>
    BY <1>3, <2>1 DEF Wants
  <2>3. \A g \in f.st.lists["continue"] : \E i \in 1 .. m : Encloses(Loops, t, m, i) /\ c.gotos[g].want = <<Onward(t[i].kind), t[i].id>>
    BY <1>3, <2>1 DEF Wants
  <2>4. QED BY <2>2, <2>3 DEF Wants
<1>6. TopAt(t, m, c, q, Top.id)
  BY <1>3, <1>5 DEF TopAt
<1>7. Extends(place, q)
  BY DEF Joins
<1>8. NamesAt(c, idLabel, idGoto, q) /\ CasesAt(t, c, lblSwitch, q)
  BY <1>3, <1>7, NamesNow, CasesNow
<1>9. Wants(Null, t, Len(t), c) /\ Nexts(Null, c, q, c.instrs)
  BY NullWants
<1>10. HeldBy(f) \cap Waiting(idGoto) = {}
  <2>1. HeldBy(Top) \cap Waiting(idGoto) = {} /\ ListsOf(value.st) \cap Waiting(idGoto) = {}
    BY <1>1 DEF Apart
  <2>2. QED BY <1>1, <2>1
<1>11. State(c, t, m, Null, idLabel, idGoto, lblSwitch, q, statements)
  <2>1. PICK held : held = ListsOf(Null) \cup Waiting(idGoto) \cup HeldOver(t, m)
    OBVIOUS
  <2>2. AllLanded(c, Freed(c, held), q)
    <3>1. held = HeldBy(f) \cup Waiting(idGoto)
      BY <1>4, <2>1, NoListsOf
    <3>2. QED BY <3>1
  <2>3. /\ ListsOf(Null) \cup Waiting(idGoto) \subseteq JumpsOf(c)
        /\ (ListsOf(Null) \cup Waiting(idGoto)) \cap JumpsOf(ta_code) \subseteq TopHeld
        /\ ListsOf(Null) \cap Waiting(idGoto) = {}
    BY <1>1, NoListsOf DEF TopHeld, Onto, Grows
  <2>4. /\ HeldOver(t, m) \subseteq JumpsOf(c) \cup {0} /\ HeldOver(t, m) \cap JumpsOf(ta_code) \subseteq TopHeld
        /\ HeldOver(t, m) \cap (ListsOf(Null) \cup Waiting(idGoto)) = {}
    BY <1>4, <1>10, NoListsOf DEF TopHeld
  <2>5. {} \cap JumpsOf(ta_code) \subseteq TopHeld /\ (Len(t) = m \/ Len(t) = m + 1)
    BY <1>3
  <2>6. QED BY <1>3, <1>6, <1>8, <1>9, <2>1, <2>2, <2>3, <2>4, <2>5, TopLands
<1>12. Depth(t, value'.ready) = m /\ value'.st = Null
  BY <1>1, <1>3 DEF Depth
<1>13. QED BY <1>2, <1>11, <1>12, Concludes

(***************************************************************************)
(* Statements without parts.                                               *)
(***************************************************************************)
LEMMA BegunNow ==
    ASSUME IInv, LInv, NEW p, Expecting(p), NEW o, o = Opened
    PROVE  /\ Begun(o) /\ Coded(o) /\ ~value.ready /\ value.st = Null /\ fault = "none" /\ phase = "parse"
           /\ statements \in Nat /\ Len(stack) \in Nat /\ Waiting(idGoto) \subseteq JumpsOf(o) /\ Dated(place, statements)
<1>1. ~value.ready /\ fault = "none" /\ phase = "parse"
  BY DEF Expecting
<1>2. Begun(o)
  BY <1>1, BegunIs
<1>3. value.st = Null
  BY <1>1 DEF IInv, Parsing
<1>4. QED BY <1>1, <1>2, <1>3 DEF Begun, Holding, State, Landing

LEMMA NamesBegun ==
    ASSUME NEW o, Begun(o), NEW c, NEW ps, Onto(o, c, ps)
    PROVE  NamesAt(c, idLabel, idGoto, place) /\ Naming(c, idLabel, idGoto)
<1>1. Naming(o, idLabel, idGoto) /\ NamesAt(o, idLabel, idGoto, place)
  BY DEF Begun, State, Landing
<1>2. NamesAt(c, idLabel, idGoto, place)
  BY <1>1, NamesStay, ExtendsSelf DEF Naming
<1>3. Naming(c, idLabel, idGoto)
  BY <1>1 DEF Naming, Onto, Grows, Targets
<1>4. QED BY <1>2, <1>3

LEMMA SimpleLandsAs ==
    ASSUME NEW o, Begun(o), NEW c, Coded(c), Onto(o, c, {}), NEW st, Simple(c, st), UNCHANGED globals,
           NEW new, ListsOf(st) = new, new \cap JumpsOf(o) = {}, JumpsOf(c) = JumpsOf(o) \cup new,
           Wants(st, stack, Len(stack), c), Wanting(c, st.lists["next"], <<"after", statements + 1>>)
    PROVE  LInv'
<1>1. UNCHANGED <<idLabel, lblSwitch>> /\ idGoto' = idGoto
  BY DEF globals
<1>2. Waiting(idGoto) \subseteq JumpsOf(o)
  BY DEF Begun, Holding
<1>3. NamesAt(c, idLabel, idGoto, place) /\ Naming(c, idLabel, idGoto)
  BY NamesBegun
<1>4. PICK w : w = idGoto
  OBVIOUS
<1>5. /\ ListsOf(st) \cup Waiting(w) \subseteq JumpsOf(c) /\ ListsOf(st) \cap JumpsOf(o) = {}
      /\ ListsOf(st) \cap Waiting(w) = {} /\ Waiting(w) \cap JumpsOf(o) = Waiting(idGoto)
  BY <1>2, <1>4
<1>6. Accounted(o, c, ListsOf(st) \cup Waiting(w), place)
  BY DEF Accounted
<1>7. QED BY <1>1, <1>3, <1>4, <1>5, <1>6, SimpleLands

LEMMA PlainOnto ==
    ASSUME NEW c, Coded(c), NEW e \in Exprs, e = "plain", NEW w \in Roles \X Nat, NEW v, v = Condition(c, e, w, w)
    PROVE  Onto(c, v.c, {}) /\ Coded(v.c) /\ JumpsOf(v.c) = JumpsOf(c) /\ v.true = {} /\ v.false = {}
<1>1. /\ Onto(c, v.c, {}) /\ Coded(v.c) /\ JumpsOf(v.c) = JumpsOf(c) \cup v.true \cup v.false
      /\ e = "plain" => v.true = {} /\ v.false = {}
  BY ConditionOnto
<1>2. QED BY <1>1

LEMMA NextWants == ASSUME NEW st, NEW new, OnlyIn(st, "next", new), NEW s, NEW n, NEW c PROVE Wants(st, s, n, c)
<1>1. st.lists["break"] = {} /\ st.lists["continue"] = {} /\ st.lists["return"] = {}
  BY DEF OnlyIn, Lists
<1>2. QED BY <1>1 DEF Wants

LEMMA AfterNext == ASSUME statements \in Nat PROVE <<"after", statements + 1>> \in Roles \X Nat
<1>1. PICK n \in Nat : n = statements + 1
  OBVIOUS
<1>2. <<"after", n>> \in Roles \X Nat
  BY DEF Roles
<1>3. QED BY <1>1, <1>2

LEMMA ExpressionStatementLands == ASSUME IInv, LInv, NEW e \in Exprs, ExpressionStatement(e) PROVE LInv'
<1>1. PICK o : o = Opened
  OBVIOUS
<1>2. Begun(o) /\ Coded(o) /\ statements \in Nat
  BY <1>1, BegunNow DEF ExpressionStatement
<1>3. PICK w \in Roles \X Nat : w = <<"after", statements + 1>>
  BY <1>2, AfterNext
<1>4. PICK v : v = Condition(o, e, w, w)
  OBVIOUS
<1>5. /\ Onto(o, v.c, {}) /\ Coded(v.c) /\ JumpsOf(v.c) = JumpsOf(o) \cup v.true \cup v.false
      /\ v.true \cap JumpsOf(o) = {} /\ v.false \cap JumpsOf(o) = {}
      /\ Wanting(v.c, v.true, w) /\ Wanting(v.c, v.false, w)
  BY <1>2, <1>4, ConditionOnto
<1>6. PICK new : new = v.true \cup v.false
  OBVIOUS
<1>l. PICK l \in Lists : l = "next"
  BY DEF Lists
<1>7. PICK st : Leaves(st, l, new)
  BY DEF Leaves
<1>8. ListsOf(st) = new /\ OnlyIn(st, l, new)
  <2>1. new \in SUBSET JumpsOf(v.c)
    BY <1>5, <1>6
  <2>2. QED BY <1>7, <2>1, StmtOne
<1>9. Wants(st, stack, Len(stack), v.c) /\ st.lists["next"] = new
  BY <1>l, <1>8, NextWants DEF OnlyIn
<1>10. Wanting(v.c, st.lists["next"], <<"after", statements + 1>>)
  BY <1>3, <1>5, <1>6, <1>9 DEF Wanting
<1>11. Simple(v.c, st) /\ UNCHANGED globals
  BY <1>1, <1>3, <1>4, <1>6, <1>7, <1>l DEF ExpressionStatement, Leaves, Id
<1>12. new \cap JumpsOf(o) = {} /\ JumpsOf(v.c) = JumpsOf(o) \cup new
  BY <1>5, <1>6
<1>13. QED BY <1>2, <1>5, <1>8, <1>9, <1>10, <1>11, <1>12, SimpleLandsAs

LEMMA NullStatementLands == ASSUME IInv, LInv, NEW i \in BOOLEAN, NullStatement(i) PROVE LInv'
<1>1. PICK o : o = Opened
  OBVIOUS
<1>2. Begun(o) /\ Coded(o)
  BY <1>1, BegunNow DEF NullStatement
<1>3. PICK c : c = IF i THEN Exec(o) ELSE o
  OBVIOUS
<1>4. Onto(o, c, {}) /\ Coded(c) /\ JumpsOf(c) = JumpsOf(o)
  <2>1. CASE i
    BY <1>2, <1>3, <2>1, ExecOnto
  <2>2. CASE ~i
    BY <1>2, <1>3, <2>2, OntoSelf
  <2>3. QED BY <2>1, <2>2
<1>5. PICK st : st = Null
  OBVIOUS
<1>6. Simple(c, st) /\ UNCHANGED globals
  BY <1>1, <1>3, <1>5 DEF NullStatement
<1>7. PICK new : new = {}
  OBVIOUS
<1>8. ListsOf(st) = new /\ new \cap JumpsOf(o) = {} /\ JumpsOf(c) = JumpsOf(o) \cup new
  BY <1>4, <1>5, <1>7, NoListsOf
<1>9. Wants(st, stack, Len(stack), c) /\ Wanting(c, st.lists["next"], <<"after", statements + 1>>)
  <2>1. st.lists["next"] = {}
    BY <1>5 DEF Null, NoLists, Lists
  <2>2. QED BY <1>5, <2>1, NullWants DEF Wanting
<1>10. QED BY <1>2, <1>4, <1>6, <1>8, <1>9, SimpleLandsAs

\* A jump into a list.
LEMMA JumpLands ==
    ASSUME NEW o, Begun(o), NEW x, Onto(o, x, {}), JumpsOf(x) = JumpsOf(o), NEW w \in Roles \X Nat, NEW c, c = NewGoto(x, w),
           NEW l \in Lists, l # "next", NEW st, Leaves(st, l, {LastGoto(c)}), Simple(c, st), UNCHANGED globals,
           l = "break" => \E i \in 1 .. Len(stack) : Encloses(Breakable, stack, Len(stack), i) /\ w = <<"after", stack[i].id>>,
           l = "continue" => \E i \in 1 .. Len(stack) :
                                Encloses(Loops, stack, Len(stack), i) /\ w = <<Onward(stack[i].kind), stack[i].id>>,
           l = "return" => w = <<"end", 0>>
    PROVE  LInv'
<1>1. Coded(x)
  BY DEF Onto, Grows
<1>2. PICK g : g = LastGoto(c)
  OBVIOUS
<1>3. Onto(x, c, {}) /\ Coded(c) /\ JumpsOf(c) = JumpsOf(x) \cup {g} /\ g \notin JumpsOf(x) /\ c.gotos[g].want = w
  BY <1>1, <1>2, GotoOnto
<1>4. PICK new : new = {g}
  OBVIOUS
<1>5. ListsOf(st) = new /\ OnlyIn(st, l, new)
  <2>1. new \in SUBSET JumpsOf(c) /\ Leaves(st, l, new)
    BY <1>2, <1>3, <1>4
  <2>2. QED BY <2>1, StmtOne
<1>6. Onto(o, c, {})
  BY <1>3, OntoOn
<1>7. \A k \in Lists : st.lists[k] = IF k = l THEN {g} ELSE {}
  BY <1>4, <1>5 DEF OnlyIn
<1>8. st.lists["next"] = {} /\ \A k \in {"break", "continue", "return"} : \A h \in st.lists[k] : k = l /\ c.gotos[h].want = w
  BY <1>3, <1>7 DEF Lists
<1>9. Wants(st, stack, Len(stack), c)
  BY <1>8 DEF Wants
<1>10. Wanting(c, st.lists["next"], <<"after", statements + 1>>)
  BY <1>8 DEF Wanting
<1>11. new \cap JumpsOf(o) = {} /\ JumpsOf(c) = JumpsOf(o) \cup new
  BY <1>3, <1>4
<1>12. QED BY <1>3, <1>5, <1>6, <1>9, <1>10, <1>11, SimpleLandsAs

LEMMA InnermostEncloses ==
    ASSUME Going, NEW kinds, NEW i, i = Innermost(kinds), i # 0
    PROVE  i \in 1 .. Len(stack) /\ Encloses(kinds, stack, Len(stack), i)
<1>1. i \in 1 .. Len(stack) /\ stack[i].kind \in kinds /\ \A j \in 1 .. Len(stack) : stack[j].kind \in kinds => j <= i
  BY InnermostOpen
<1>2. \A j \in i + 1 .. Len(stack) : j \in 1 .. Len(stack) /\ ~(j <= i)
  BY <1>1 DEF Going
<1>3. QED BY <1>1, <1>2 DEF Encloses

LEMMA BreakLands == ASSUME IInv, LInv, Break PROVE LInv'
<1>1. PICK o, kinds, i : o = Opened /\ kinds = Loops \cup {"switch"} /\ i = Innermost(kinds)
  OBVIOUS
<1>2. Begun(o) /\ Coded(o) /\ Going
  BY <1>1, BegunNow, ExpectingIs DEF Break
<1>3. i \in 1 .. Len(stack) /\ Encloses(kinds, stack, Len(stack), i)
  BY <1>1, <1>2, InnermostEncloses DEF Break
<1>4. PICK n \in Nat : n = stack[i].id
  BY <1>2, <1>3 DEF Going, Framing, Framed, FrameType
<1>5. PICK w \in Roles \X Nat : w = <<"after", n>>
  BY DEF Roles
<1>6. PICK c : c = NewGoto(o, w)
  OBVIOUS
<1>l. PICK l \in Lists : l = "break"
  BY DEF Lists
<1>7. PICK st : Leaves(st, l, {LastGoto(c)})
  BY DEF Leaves
<1>8. Simple(c, st) /\ UNCHANGED globals
  BY <1>1, <1>4, <1>5, <1>6, <1>7, <1>l DEF Break, Jump, Leaves
<1>9. Encloses(Breakable, stack, Len(stack), i) /\ w = <<"after", stack[i].id>>
  BY <1>1, <1>3, <1>4, <1>5 DEF Breakable
<1>10. Onto(o, o, {}) /\ l # "next" /\ l # "continue" /\ l # "return"
  BY <1>2, <1>l, OntoSelf
<1>11. QED BY <1>2, <1>3, <1>6, <1>7, <1>8, <1>9, <1>10, JumpLands

LEMMA ContinueLands == ASSUME IInv, LInv, Continue PROVE LInv'
<1>1. PICK o, kinds, i : o = Opened /\ kinds = Loops /\ i = Innermost(kinds)
  OBVIOUS
<1>2. Begun(o) /\ Coded(o) /\ Going
  BY <1>1, BegunNow, ExpectingIs DEF Continue
<1>3. i \in 1 .. Len(stack) /\ Encloses(Loops, stack, Len(stack), i)
  BY <1>1, <1>2, InnermostEncloses DEF Continue
<1>4. PICK n \in Nat : n = stack[i].id
  BY <1>2, <1>3 DEF Going, Framing, Framed, FrameType
<1>r. PICK r \in Roles : r = Onward(stack[i].kind)
  BY DEF Roles, Onward
<1>5. PICK w \in Roles \X Nat : w = <<r, n>>
  OBVIOUS
<1>6. PICK c : c = NewGoto(o, w)
  OBVIOUS
<1>l. PICK l \in Lists : l = "continue"
  BY DEF Lists
<1>7. PICK st : Leaves(st, l, {LastGoto(c)})
  BY DEF Leaves
<1>8. Simple(c, st) /\ UNCHANGED globals
  BY <1>1, <1>4, <1>5, <1>6, <1>7, <1>l, <1>r DEF Continue, Jump, Leaves, Onward
<1>9. w = <<Onward(stack[i].kind), stack[i].id>>
  BY <1>4, <1>5, <1>r
<1>10. Onto(o, o, {}) /\ l # "next" /\ l # "break" /\ l # "return"
  BY <1>2, <1>l, OntoSelf
<1>11. QED BY <1>2, <1>3, <1>6, <1>7, <1>8, <1>9, <1>10, JumpLands

LEMMA ReturnLands == ASSUME IInv, LInv, NEW e \in Exprs, Return(e) PROVE LInv'
<1>0. CASE fault' # "none"
  BY <1>0 DEF LInv
<1>1. CASE fault' = "none"
  <2>1. PICK o : o = Opened
    OBVIOUS
  <2>2. Begun(o) /\ Coded(o) /\ fault = "none" /\ statements \in Nat
    BY <2>1, BegunNow DEF Return
  <2>3. e = "plain"
    BY <1>1, <2>2 DEF Return, Blame
  <2>4. PICK w \in Roles \X Nat : w = <<"after", statements + 1>>
    BY <2>2, AfterNext
  <2>5. PICK v : v = Condition(o, e, w, w)
    OBVIOUS
  <2>6. Onto(o, v.c, {}) /\ Coded(v.c) /\ JumpsOf(v.c) = JumpsOf(o)
    BY <2>2, <2>3, <2>5, PlainOnto
  <2>7. PICK x : x = Exec(v.c)
    OBVIOUS
  <2>8. Onto(o, x, {}) /\ JumpsOf(x) = JumpsOf(o)
    <3>1. Onto(v.c, x, {}) /\ JumpsOf(x) = JumpsOf(v.c)
      BY <2>6, <2>7, ExecOnto
    <3>2. QED BY <2>6, <3>1, OntoOn
  <2>9. PICK end \in Roles \X Nat : end = <<"end", 0>>
    BY DEF Roles
  <2>10. PICK c : c = NewGoto(x, end)
    OBVIOUS
  <2>l. PICK l \in Lists : l = "return"
    BY DEF Lists
  <2>11. PICK st : Leaves(st, l, {LastGoto(c)})
    BY DEF Leaves
  <2>12. Simple(c, st) /\ UNCHANGED globals
    BY <2>1, <2>4, <2>5, <2>7, <2>9, <2>10, <2>11, <2>l DEF Return, Leaves, Id
  <2>13. l # "next" /\ l # "break" /\ l # "continue"
    BY <2>l
  <2>14. QED BY <2>2, <2>8, <2>9, <2>10, <2>11, <2>12, <2>13, JumpLands
<1>2. QED BY <1>0, <1>1

(***************************************************************************)
(* Statements before their substatement.                                   *)
(***************************************************************************)
LEMMA MadeIs ==
    ASSUME NEW k, NEW id, NEW T, NEW F, NEW l1, NEW l2, NEW g, NEW f, Made(f, k, id, T, F, l1, l2, g)
    PROVE  /\ f.kind = k /\ f.id = id /\ f.true = T /\ f.false = F /\ f.l1 = l1 /\ f.l2 = l2 /\ f.goto1 = g
           /\ f.st = Null /\ Ownless(f) /\ HeldBy(f) = T \cup F \cup {g, 0}
<1>1. /\ f.kind = k /\ f.id = id /\ f.true = T /\ f.false = F /\ f.l1 = l1 /\ f.l2 = l2
      /\ f.goto1 = g /\ f.goto2 = 0 /\ f.st = Null /\ f.own = [x \in Keys |-> 0]
  BY DEF Made
<1>2. UNION {Null.lists[l] : l \in Lists} = {}
  BY NoListsOf DEF ListsOf
<1>3. HeldBy(f) = T \cup F \cup {g, 0}
  BY <1>1, <1>2 DEF HeldBy
<1>4. QED BY <1>1, <1>3 DEF Ownless

LEMMA MadeLands ==
    ASSUME IInv, LInv, NEW p, Expecting(p), NEW o, o = Opened, NEW c, Coded(c), Onto(o, c, {}),
           NEW k, k \notin {"case", "default", "else"}, NEW id, id = statements + 1,
           NEW T, NEW F, NEW l1, NEW l2, NEW g, NEW f, Made(f, k, id, T, F, l1, l2, g),
           NEW held, held = T \cup F \cup {g}, held \subseteq JumpsOf(c) \cup {0}, held \cap JumpsOf(o) = {},
           NEW add, Open(c, f, add), UNCHANGED globals,
           NEW q, q = add @@ place, Joins(place, add, id, q), FrameAt(f, c, q),
           Accounted(o, c, held, q)
    PROVE  LInv'
<1>1. Begun(o) /\ value.st = Null /\ ~value.ready
  BY BegunNow
<1>2. f.kind = k /\ f.id = id /\ f.st = Null /\ Ownless(f) /\ HeldBy(f) = T \cup F \cup {g, 0}
  BY MadeIs
<1>3. HeldBy(f) = held \cup {0}
  BY <1>2
<1>4. HeldBy(f) \subseteq JumpsOf(c) \cup {0} /\ HeldBy(f) \cap JumpsOf(o) = {}
  BY <1>3, JumpsPositive
<1>5. Accounted(o, c, HeldBy(f), q)
  BY <1>3 DEF Accounted
<1>6. UNCHANGED <<idLabel, idGoto, lblSwitch>>
  BY DEF globals
<1>7. place' = q
  BY DEF Open
<1>8. QED BY <1>1, <1>2, <1>4, <1>5, <1>6, <1>7, OpenLands

\* The points a statement opens with, and those it ends with.
Of(add, rs, id)  == \A p \in DOMAIN add : \E r \in rs : p = <<r, id>>
Free(points, rs, id) == \A r : r \notin rs \cup {"label"} => <<r, id>> \notin DOMAIN points

LEMMA OpenPoints ==
    ASSUME statements \in Nat, Dated(place, statements), NEW rs, rs \subseteq {"body", "test", "step", "case"},
           NEW id, id = statements + 1, NEW add, Of(add, rs, id), NEW q, q = add @@ place
    PROVE  Joins(place, add, id, q) /\ Free(q, rs, id)
BY OpenJoins DEF Of, Free

LEMMA OpenBlockLands == ASSUME IInv, LInv, OpenBlock PROVE LInv'
<1>1. PICK o, id : o = Opened /\ id = statements + 1
  OBVIOUS
<1>2. Coded(o) /\ statements \in Nat /\ Dated(place, statements)
  BY <1>1, BegunNow DEF OpenBlock
<1>3. PICK f, k, no, none : f = Frame("block", id) /\ k = "block" /\ no = 0 /\ none = {}
  OBVIOUS
<1>4. Made(f, k, id, none, none, no, no, no)
  BY <1>3 DEF Made, Frame, Keys, NoLabel
<1>5. PICK add, q : add = <<>> /\ q = add @@ place
  OBVIOUS
<1>6. Joins(place, add, id, q) /\ <<"after", id>> \notin DOMAIN q
  <2>1. PICK rs : rs = {}
    OBVIOUS
  <2>2. rs \subseteq {"body", "test", "step", "case"} /\ "after" \notin rs \cup {"label"} /\ Of(add, rs, id)
    BY <1>5, <2>1 DEF Of
  <2>3. Joins(place, add, id, q) /\ Free(q, rs, id)
    BY <1>1, <1>2, <1>5, <2>2, OpenPoints
  <2>4. QED BY <2>2, <2>3 DEF Free
<1>7. FrameAt(f, o, q)
  <2>1. f.kind = "block" /\ f.id = id /\ f.true = {} /\ f.false = {}
    BY <1>3, <1>4, MadeIs
  <2>2. <<"after", id>> \notin DOMAIN q
    BY <1>6
  <2>3. QED BY <2>1, <2>2 DEF FrameAt, Loops
<1>8. Open(o, f, add) /\ UNCHANGED globals
  BY <1>1, <1>3, <1>5 DEF OpenBlock, Id
<1>9. PICK held : held = none \cup none \cup {no}
  OBVIOUS
<1>10. held \subseteq JumpsOf(o) \cup {0} /\ held \cap JumpsOf(o) = {} /\ Accounted(o, o, held, q)
  BY <1>3, <1>9, JumpsPositive DEF Accounted
<1>11. Onto(o, o, {}) /\ k \notin {"case", "default", "else"}
  BY <1>2, <1>3, OntoSelf
<1>12. QED BY <1>1, <1>2, <1>4, <1>5, <1>6, <1>7, <1>8, <1>9, <1>10, <1>11, MadeLands DEF OpenBlock

LEMMA IfLands == ASSUME IInv, LInv, NEW e \in Exprs, If(e) PROVE LInv'
<1>1. PICK o, id : o = Opened /\ id = statements + 1
  OBVIOUS
<1>2. Coded(o) /\ id \in Nat /\ statements \in Nat /\ Dated(place, statements)
  BY <1>1, BegunNow DEF If
<1>4. PICK body \in Roles \X Nat, else \in Roles \X Nat : body = <<"body", id>> /\ else = <<"else", id>>
  BY <1>2 DEF Roles
<1>5. PICK v : v = Condition(o, e, body, else)
  OBVIOUS
<1>6. /\ Onto(o, v.c, {}) /\ Coded(v.c) /\ JumpsOf(v.c) = JumpsOf(o) \cup v.true \cup v.false
      /\ v.true \cap JumpsOf(o) = {} /\ v.false \cap JumpsOf(o) = {}
      /\ Wanting(v.c, v.true, body) /\ Wanting(v.c, v.false, else)
  BY <1>2, <1>5, ConditionOnto
<1>7. PICK j, g : j = NewGotoCond(v.c, else) /\ g = LastGoto(j)
  OBVIOUS
<1>8. /\ Onto(v.c, j, {}) /\ Coded(j) /\ JumpsOf(j) = JumpsOf(v.c) \cup {g} /\ g \notin JumpsOf(v.c)
      /\ j.gotos[g].want = else
  BY <1>6, <1>7, GotoOnto
<1>9. PICK c, l : c = NewLabel(j) /\ l = LastLabel(c)
  OBVIOUS
<1>10. /\ Onto(j, c, {}) /\ Coded(c) /\ JumpsOf(c) = JumpsOf(j) /\ c.gotos = j.gotos
       /\ l \in LabelsOf(c) /\ c.labels[l] = c.instrs
  BY <1>8, <1>9, LabelOnto
<1>11. PICK T, F, no : T = v.true /\ F = v.false \cup {g} /\ no = 0
  OBVIOUS
<1>12. Onto(o, c, {})
  <2>1. Onto(o, j, {})
    BY <1>6, <1>8, OntoOn
  <2>2. QED BY <1>10, <2>1, OntoOn
<1>13. Wanting(c, T, body) /\ Wanting(c, F, else)
  <2>1. Wanting(j, v.true, body) /\ Wanting(j, v.false, else)
    BY <1>6, <1>8, WantingOn
  <2>2. QED BY <1>8, <1>10, <1>11, <2>1 DEF Wanting
<1>k. PICK k : k = "if"
  OBVIOUS
<1>14. PICK f : f = [Frame("if", id) EXCEPT !.true = T, !.false = F, !.l1 = l]
  OBVIOUS
<1>15. Made(f, k, id, T, F, l, no, no)
  BY <1>11, <1>14, <1>k DEF Made, Frame, Keys, NoLabel
<1>16. PICK x, add, q : x = c.instrs /\ add = (body :> x) /\ q = add @@ place
  OBVIOUS
<1>17. DOMAIN add = {body} /\ add[body] = x
  <2>1. add = (body :> x)
    BY <1>16
  <2>2. QED BY <2>1, Single
<1>18. Joins(place, add, id, q) /\ <<"after", id>> \notin DOMAIN q /\ <<"else", id>> \notin DOMAIN q
  <2>1. PICK rs : rs = {"body"}
    OBVIOUS
  <2>2. /\ rs \subseteq {"body", "test", "step", "case"} /\ "after" \notin rs \cup {"label"} /\ "else" \notin rs \cup {"label"}
        /\ Of(add, rs, id)
    BY <1>4, <1>17, <2>1 DEF Of
  <2>3. Joins(place, add, id, q) /\ Free(q, rs, id)
    BY <1>1, <1>2, <1>16, <2>2, OpenPoints
  <2>4. QED BY <2>2, <2>3 DEF Free
<1>19. FrameAt(f, c, q)
  <2>1. f.kind = "if" /\ f.id = id /\ f.true = T /\ f.false = F /\ f.l1 = l
    BY <1>15, <1>k, MadeIs
  <2>2. <<"after", id>> \notin DOMAIN q /\ <<"else", id>> \notin DOMAIN q
    BY <1>18
  <2>3. Marks(c, l, q, <<"body", id>>)
    BY <1>4, <1>10, <1>16, <1>17, <1>18 DEF Marks, Joins, Extends
  <2>4. (\A h \in T : c.gotos[h].want = <<"body", id>>) /\ (\A h \in F : c.gotos[h].want = <<"else", id>>)
    BY <1>4, <1>13 DEF Wanting
  <2>5. QED BY <2>1, <2>2, <2>3, <2>4 DEF FrameAt, Loops
<1>20. Open(c, f, add) /\ UNCHANGED globals
  BY <1>1, <1>4, <1>5, <1>7, <1>9, <1>11, <1>14, <1>16 DEF If, Id
<1>21. PICK held : held = T \cup F \cup {no}
  OBVIOUS
<1>22. held \subseteq JumpsOf(c) \cup {0} /\ held \cap JumpsOf(o) = {} /\ Accounted(o, c, held, q)
  BY <1>6, <1>8, <1>10, <1>11, <1>21, JumpsPositive DEF Accounted
<1>23. k \notin {"case", "default", "else"}
  BY <1>k
<1>24. QED BY <1>1, <1>10, <1>12, <1>15, <1>16, <1>18, <1>19, <1>20, <1>21, <1>22, <1>23, MadeLands DEF If

\* What an expression adds to the code.
Asked(c, v, wt, wf) ==
    /\ Onto(c, v.c, {}) /\ Coded(v.c) /\ JumpsOf(v.c) = JumpsOf(c) \cup v.true \cup v.false
    /\ v.true \cap JumpsOf(c) = {} /\ v.false \cap JumpsOf(c) = {}
    /\ Wanting(v.c, v.true, wt) /\ Wanting(v.c, v.false, wf)

LEMMA ConditionAsked ==
    ASSUME NEW c, Coded(c), NEW e \in Exprs, NEW wt, NEW wf, wt \in Roles \X Nat, wf \in Roles \X Nat,
           NEW v, v = Condition(c, e, wt, wf)
    PROVE  Asked(c, v, wt, wf)
BY ConditionOnto DEF Asked

Two(q, p, x, r, y) == DOMAIN q = {p, r} /\ q[p] = x /\ q[r] = y

LEMMA TwoPoints ==
    ASSUME NEW p, NEW r, p # r, NEW x, NEW y, NEW a, a = (p :> x), NEW b, b = (r :> y), NEW q, q = a @@ b
    PROVE  Two(q, p, x, r, y)
<1>1. DOMAIN a = {p} /\ a[p] = x /\ DOMAIN b = {r} /\ b[r] = y
  BY Single
<1>2. Adds(a, b, q)
  BY Adding
<1>3. QED BY <1>1, <1>2 DEF Adds, Two

LEMMA BodyPoint ==
    ASSUME statements \in Nat, Dated(place, statements), NEW id, id = statements + 1, NEW x,
           NEW add, add = (<<"body", id>> :> x), NEW q, q = add @@ place
    PROVE  /\ Joins(place, add, id, q) /\ DOMAIN add = {<<"body", id>>} /\ add[<<"body", id>>] = x
           /\ <<"after", id>> \notin DOMAIN q /\ <<"test", id>> \notin DOMAIN q
<1>1. PICK rs : rs = {"body"}
  OBVIOUS
<1>2. rs \subseteq {"body", "test", "step", "case"} /\ "after" \notin rs \cup {"label"} /\ "test" \notin rs \cup {"label"}
  BY <1>1
<1>3. DOMAIN add = {<<"body", id>>} /\ add[<<"body", id>>] = x
  BY Single
<1>4. Of(add, rs, id)
  BY <1>1, <1>3 DEF Of
<1>5. Joins(place, add, id, q) /\ Free(q, rs, id)
  BY <1>2, <1>4, OpenPoints
<1>6. QED BY <1>2, <1>3, <1>5 DEF Free

LEMMA WhileLands == ASSUME IInv, LInv, NEW e \in Exprs, While(e) PROVE LInv'
<1>1. PICK o, id : o = Opened /\ id = statements + 1
  OBVIOUS
<1>2. Coded(o) /\ id \in Nat /\ statements \in Nat /\ Dated(place, statements)
  BY <1>1, BegunNow DEF While
<1>4. PICK test, body, after : test = <<"test", id>> /\ body = <<"body", id>> /\ after = <<"after", id>>
  OBVIOUS
<1>r. body \in Roles \X Nat /\ after \in Roles \X Nat
  BY <1>2, <1>4 DEF Roles
<1>5. PICK first, l1 : first = NewLabel(o) /\ l1 = LastLabel(first)
  OBVIOUS
<1>6. /\ Onto(o, first, {}) /\ Coded(first) /\ JumpsOf(first) = JumpsOf(o)
      /\ l1 \in LabelsOf(first) /\ first.labels[l1] = first.instrs
  BY <1>2, <1>5, LabelOnto
<1>7. PICK v : v = Condition(first, e, body, after)
  OBVIOUS
<1>8. /\ Onto(first, v.c, {}) /\ Coded(v.c) /\ JumpsOf(v.c) = JumpsOf(first) \cup v.true \cup v.false
      /\ v.true \cap JumpsOf(first) = {} /\ v.false \cap JumpsOf(first) = {}
      /\ Wanting(v.c, v.true, body) /\ Wanting(v.c, v.false, after)
  <2>1. Coded(first)
    BY <1>6
  <2>2. Asked(first, v, body, after)
    BY <1>7, <1>r, <2>1, ConditionAsked
  <2>3. QED BY <2>2 DEF Asked
<1>9. PICK j, g : j = NewGotoCond(v.c, after) /\ g = LastGoto(j)
  OBVIOUS
<1>10. /\ Onto(v.c, j, {}) /\ Coded(j) /\ JumpsOf(j) = JumpsOf(v.c) \cup {g} /\ g \notin JumpsOf(v.c)
       /\ j.gotos[g].want = after
  BY <1>r, <1>8, <1>9, GotoOnto
<1>11. PICK c, l2 : c = NewLabel(j) /\ l2 = LastLabel(c)
  OBVIOUS
<1>12. /\ Onto(j, c, {}) /\ Coded(c) /\ JumpsOf(c) = JumpsOf(j) /\ c.gotos = j.gotos
       /\ l2 \in LabelsOf(c) /\ c.labels[l2] = c.instrs
  BY <1>10, <1>11, LabelOnto
<1>13. Onto(first, c, {}) /\ Onto(o, c, {})
  <2>1. Onto(first, j, {})
    BY <1>8, <1>10, OntoOn
  <2>2. Onto(first, c, {})
    BY <1>12, <2>1, OntoOn
  <2>3. QED BY <1>6, <2>2, OntoOn
<1>14. PICK T, F, no : T = v.true /\ F = v.false \cup {g} /\ no = 0
  OBVIOUS
<1>15. Wanting(c, T, body) /\ Wanting(c, F, after)
  <2>1. Wanting(j, v.true, body) /\ Wanting(j, v.false, after)
    BY <1>8, <1>10, WantingOn
  <2>2. QED BY <1>10, <1>12, <1>14, <2>1 DEF Wanting
<1>k. PICK k : k = "while"
  OBVIOUS
<1>16. PICK f : f = [Frame("while", id) EXCEPT !.true = T, !.false = F, !.l1 = l1, !.l2 = l2]
  OBVIOUS
<1>17. Made(f, k, id, T, F, l1, l2, no)
  BY <1>14, <1>16, <1>k DEF Made, Frame, Keys, NoLabel
<1>18. PICK x1, x2, a, b, add, q :
          /\ x1 = first.instrs /\ x2 = c.instrs /\ a = (test :> x1) /\ b = (body :> x2)
          /\ add = a @@ b /\ q = add @@ place
  OBVIOUS
<1>19. DOMAIN add = {test, body} /\ add[test] = x1 /\ add[body] = x2
  <2>1. a = (test :> x1) /\ b = (body :> x2) /\ add = a @@ b
    BY <1>18
  <2>2. test # body
    BY <1>4
  <2>3. Two(add, test, x1, body, x2)
    BY <2>1, <2>2, TwoPoints
  <2>4. QED BY <2>3 DEF Two
<1>20. Joins(place, add, id, q) /\ <<"after", id>> \notin DOMAIN q
  <2>1. PICK rs : rs = {"test", "body"}
    OBVIOUS
  <2>2. rs \subseteq {"body", "test", "step", "case"} /\ "after" \notin rs \cup {"label"} /\ Of(add, rs, id)
    BY <1>4, <1>19, <2>1 DEF Of
  <2>3. Joins(place, add, id, q) /\ Free(q, rs, id)
    BY <1>1, <1>2, <1>18, <2>2, OpenPoints
  <2>4. QED BY <2>2, <2>3 DEF Free
<1>21. FrameAt(f, c, q)
  <2>1. f.kind = "while" /\ f.id = id /\ f.true = T /\ f.false = F /\ f.l1 = l1 /\ f.l2 = l2
    BY <1>17, <1>k, MadeIs
  <2>2. Marks(c, l1, q, <<"test", id>>)
    <3>1. l1 \in LabelsOf(c) /\ c.labels[l1] = x1
      BY <1>6, <1>13, <1>18 DEF Onto, Grows
    <3>2. QED BY <1>4, <1>19, <1>20, <3>1 DEF Marks, Joins, Extends
  <2>3. Marks(c, l2, q, <<"body", id>>)
    BY <1>4, <1>12, <1>18, <1>19, <1>20 DEF Marks, Joins, Extends
  <2>4. (\A h \in T : c.gotos[h].want = <<"body", id>>) /\ (\A h \in F : c.gotos[h].want = <<"after", id>>)
    BY <1>4, <1>15 DEF Wanting
  <2>5. QED BY <1>20, <2>1, <2>2, <2>3, <2>4 DEF FrameAt, Loops
<1>22. Open(c, f, add) /\ UNCHANGED globals
  BY <1>1, <1>4, <1>5, <1>7, <1>9, <1>11, <1>14, <1>16, <1>18 DEF While, Id
<1>23. PICK held : held = T \cup F \cup {no}
  OBVIOUS
<1>24. held \subseteq JumpsOf(c) \cup {0} /\ held \cap JumpsOf(o) = {} /\ Accounted(o, c, held, q)
  BY <1>6, <1>8, <1>10, <1>12, <1>14, <1>23, JumpsPositive DEF Accounted
<1>25. k \notin {"case", "default", "else"} /\ q = add @@ place
  BY <1>18, <1>k
<1>26. QED BY <1>1, <1>12, <1>13, <1>17, <1>20, <1>21, <1>22, <1>23, <1>24, <1>25, MadeLands DEF While

LEMMA DoLands == ASSUME IInv, LInv, Do PROVE LInv'
<1>1. PICK o, id : o = Opened /\ id = statements + 1
  OBVIOUS
<1>2. Coded(o) /\ id \in Nat /\ statements \in Nat /\ Dated(place, statements)
  BY <1>1, BegunNow DEF Do
<1>3. PICK c, l : c = NewLabel(o) /\ l = LastLabel(c)
  OBVIOUS
<1>4. /\ Onto(o, c, {}) /\ Coded(c) /\ JumpsOf(c) = JumpsOf(o) /\ l \in LabelsOf(c) /\ c.labels[l] = c.instrs
  BY <1>2, <1>3, LabelOnto
<1>k. PICK k, no, none : k = "do" /\ no = 0 /\ none = {}
  OBVIOUS
<1>5. PICK f : f = [Frame("do", id) EXCEPT !.l1 = l]
  OBVIOUS
<1>6. Made(f, k, id, none, none, l, no, no)
  BY <1>5, <1>k DEF Made, Frame, Keys, NoLabel
<1>7. PICK body, x, add, q : body = <<"body", id>> /\ x = c.instrs /\ add = (body :> x) /\ q = add @@ place
  OBVIOUS
<1>9. /\ Joins(place, add, id, q) /\ DOMAIN add = {body} /\ add[body] = x
      /\ <<"after", id>> \notin DOMAIN q /\ <<"test", id>> \notin DOMAIN q
  <2>1. add = (<<"body", id>> :> x) /\ q = add @@ place
    BY <1>7
  <2>2. Joins(place, add, id, q) /\ DOMAIN add = {<<"body", id>>} /\ add[<<"body", id>>] = x
        /\ <<"after", id>> \notin DOMAIN q /\ <<"test", id>> \notin DOMAIN q
    BY <1>1, <1>2, <2>1, BodyPoint
  <2>3. QED BY <1>7, <2>2
<1>10. FrameAt(f, c, q)
  <2>1. f.kind = "do" /\ f.id = id /\ f.true = {} /\ f.false = {} /\ f.l1 = l
    BY <1>6, <1>k, MadeIs
  <2>2. Marks(c, l, q, <<"body", id>>)
    BY <1>4, <1>7, <1>9 DEF Marks, Joins, Extends
  <2>3. QED BY <1>9, <2>1, <2>2 DEF FrameAt, Loops
<1>11. Open(c, f, add) /\ UNCHANGED globals
  BY <1>1, <1>3, <1>5, <1>7 DEF Do, Id
<1>12. PICK held : held = none \cup none \cup {no}
  OBVIOUS
<1>13. held \subseteq JumpsOf(c) \cup {0} /\ held \cap JumpsOf(o) = {} /\ Accounted(o, c, held, q)
  BY <1>4, <1>k, <1>12, JumpsPositive DEF Accounted
<1>14. k \notin {"case", "default", "else"} /\ q = add @@ place
  BY <1>7, <1>k
<1>15. QED BY <1>1, <1>4, <1>6, <1>9, <1>10, <1>11, <1>12, <1>13, <1>14, MadeLands DEF Do

\* What a condition and the jump on its result add to the code.
Tested(c, j, T, F, wt, wf) ==
    /\ Onto(c, j, {}) /\ Coded(j) /\ JumpsOf(j) = JumpsOf(c) \cup T \cup F
    /\ T \cap JumpsOf(c) = {} /\ F \cap JumpsOf(c) = {}
    /\ Wanting(j, T, wt) /\ Wanting(j, F, wf)

LEMMA ConditionTested ==
    ASSUME NEW c, Coded(c), NEW e \in Exprs, NEW wt, NEW wf, wt \in Roles \X Nat, wf \in Roles \X Nat,
           NEW v, v = Condition(c, e, wt, wf), NEW j, j = NewGotoCond(v.c, wf), NEW g, g = LastGoto(j),
           NEW T, T = v.true, NEW F, F = v.false \cup {g}
    PROVE  Tested(c, j, T, F, wt, wf)
<1>1. Asked(c, v, wt, wf)
  BY ConditionAsked
<1>2. /\ Onto(c, v.c, {}) /\ Coded(v.c) /\ JumpsOf(v.c) = JumpsOf(c) \cup v.true \cup v.false
      /\ v.true \cap JumpsOf(c) = {} /\ v.false \cap JumpsOf(c) = {}
      /\ Wanting(v.c, v.true, wt) /\ Wanting(v.c, v.false, wf)
  BY <1>1 DEF Asked
<1>3. /\ Onto(v.c, j, {}) /\ Coded(j) /\ JumpsOf(j) = JumpsOf(v.c) \cup {g} /\ g \notin JumpsOf(v.c)
      /\ j.gotos[g].want = wf
  BY <1>2, GotoOnto
<1>4. Onto(c, j, {})
  BY <1>2, <1>3, OntoOn
<1>5. Wanting(j, v.true, wt) /\ Wanting(j, v.false, wf)
  BY <1>2, <1>3, WantingOn
<1>6. Wanting(j, T, wt) /\ Wanting(j, F, wf)
  BY <1>3, <1>5 DEF Wanting
<1>7. JumpsOf(j) = JumpsOf(c) \cup T \cup F /\ T \cap JumpsOf(c) = {} /\ F \cap JumpsOf(c) = {}
  BY <1>2, <1>3
<1>8. QED BY <1>3, <1>4, <1>6, <1>7 DEF Tested

\* The head of a for, when the first expression has no jumps of its own.
HeadOnto(o, h, c, l1, T, F, test, body, after) ==
    /\ Tested(o, c, T, F, body, after)
    /\ h.c = c /\ h.l1 = l1 /\ h.true = T /\ h.false = F
    /\ l1 \in LabelsOf(c) /\ h.point = (test :> c.labels[l1])

LEMMA ForHeadOnto ==
    ASSUME NEW o, o = Opened, Coded(o), NEW id \in Nat, id = Id, NEW e1 \in Exprs, e1 = "plain",
           NEW e2 \in Exprs \cup {"none"}, NEW h, h = ForHead(e1, e2),
           NEW test, test = <<"test", id>>, NEW body, body = <<"body", id>>, NEW after, after = <<"after", id>>
    PROVE  \E c, l1, T, F : HeadOnto(o, h, c, l1, T, F, test, body, after)
<1>1. test \in Roles \X Nat /\ body \in Roles \X Nat /\ after \in Roles \X Nat
  BY DEF Roles
<1>w. PICK w \in Roles \X Nat : w = test
  BY <1>1
<1>2. PICK v1 : v1 = Condition(o, e1, w, w)
  OBVIOUS
<1>3. Onto(o, v1.c, {}) /\ Coded(v1.c) /\ JumpsOf(v1.c) = JumpsOf(o)
  BY <1>2, PlainOnto
<1>4. PICK first, l : first = NewLabel(v1.c) /\ l = LastLabel(first)
  OBVIOUS
<1>5. /\ Onto(v1.c, first, {}) /\ Coded(first) /\ JumpsOf(first) = JumpsOf(v1.c)
      /\ l \in LabelsOf(first) /\ first.labels[l] = first.instrs
  BY <1>3, <1>4, LabelOnto
<1>6. Onto(o, first, {})
  BY <1>3, <1>5, OntoOn
<1>7. PICK x, point : x = first.instrs /\ point = (test :> x)
  OBVIOUS
<1>8. CASE e2 = "none"
  <2>1. h.c = first /\ h.l1 = l /\ h.true = {} /\ h.false = {} /\ h.point = point
    BY <1>2, <1>4, <1>7, <1>8, <1>w DEF ForHead
  <2>2. Tested(o, first, {}, {}, body, after)
    BY <1>3, <1>5, <1>6 DEF Tested, Wanting
  <2>3. HeadOnto(o, h, first, l, {}, {}, test, body, after)
    BY <1>5, <1>7, <2>1, <2>2 DEF HeadOnto
  <2>4. QED BY <2>3
<1>9. CASE e2 # "none"
  <2>1. PICK v2 : v2 = Condition(first, e2, body, after)
    OBVIOUS
  <2>2. PICK j, g : j = NewGotoCond(v2.c, after) /\ g = LastGoto(j)
    OBVIOUS
  <2>3. PICK T, F : T = v2.true /\ F = v2.false \cup {g}
    OBVIOUS
  <2>4. h.c = j /\ h.l1 = l /\ h.true = T /\ h.false = F /\ h.point = point
    BY <1>2, <1>4, <1>7, <1>9, <1>w, <2>1, <2>2, <2>3 DEF ForHead
  <2>5. e2 \in Exprs /\ Coded(first)
    BY <1>5, <1>9
  <2>6. Tested(first, j, T, F, body, after)
    BY <1>1, <2>1, <2>2, <2>3, <2>5, ConditionTested
  <2>7. Onto(first, j, {})
    BY <2>6 DEF Tested
  <2>8. Onto(o, j, {})
    BY <1>6, <2>7, OntoOn
  <2>9. Tested(o, j, T, F, body, after)
    BY <1>3, <1>5, <2>6, <2>8 DEF Tested
  <2>10. l \in LabelsOf(j) /\ j.labels[l] = x
    BY <1>5, <1>7, <2>7 DEF Onto, Grows
  <2>11. HeadOnto(o, h, j, l, T, F, test, body, after)
    BY <1>7, <2>4, <2>9, <2>10 DEF HeadOnto
  <2>12. QED BY <2>11
<1>10. QED BY <1>8, <1>9

LEMMA Faulty == ASSUME fault' # "none" PROVE LInv'
BY DEF LInv

LEMMA TestOf == ASSUME NEW o, NEW h, NEW c, NEW l1, NEW T, NEW F, NEW test, NEW body, NEW after,
                       HeadOnto(o, h, c, l1, T, F, test, body, after)
                PROVE  /\ Onto(o, c, {}) /\ Coded(c) /\ JumpsOf(c) = JumpsOf(o) \cup T \cup F
                       /\ T \cap JumpsOf(o) = {} /\ F \cap JumpsOf(o) = {}
                       /\ Wanting(c, T, body) /\ Wanting(c, F, after)
                       /\ h.c = c /\ h.l1 = l1 /\ h.true = T /\ h.false = F
                       /\ l1 \in LabelsOf(c) /\ h.point = (test :> c.labels[l1])
BY DEF HeadOnto, Tested

LEMMA WantingOf == ASSUME NEW c, NEW list, NEW w, Wanting(c, list, w) PROVE \A g \in list : c.gotos[g].want = w
BY DEF Wanting

LEMMA ForLands ==
    ASSUME IInv, LInv, NEW e1 \in Exprs, NEW e2 \in Exprs \cup {"none"}, For(e1, e2) PROVE LInv'
<1>0. CASE fault' # "none"
  BY <1>0, Faulty
<1>1. CASE fault' = "none"
  <2>1. PICK o, id : o = Opened /\ id = statements + 1
    OBVIOUS
  <2>2. Coded(o) /\ id \in Nat /\ statements \in Nat /\ Dated(place, statements) /\ fault = "none"
    BY <2>1, BegunNow DEF For
  <2>3. e1 = "plain" /\ UNCHANGED fault
    BY <1>1, <2>2 DEF For, Blame
  <2>4. PICK h, test, body, after :
            h = ForHead(e1, e2) /\ test = <<"test", id>> /\ body = <<"body", id>> /\ after = <<"after", id>>
    OBVIOUS
  <2>5. id = Id
    BY <2>1 DEF Id
  <2>6. PICK d, l1, T, F : HeadOnto(o, h, d, l1, T, F, test, body, after)
    BY <2>1, <2>2, <2>3, <2>4, <2>5, ForHeadOnto
  <2>7. /\ Onto(o, d, {}) /\ Coded(d) /\ JumpsOf(d) = JumpsOf(o) \cup T \cup F
        /\ T \cap JumpsOf(o) = {} /\ F \cap JumpsOf(o) = {}
        /\ Wanting(d, T, body) /\ Wanting(d, F, after)
        /\ h.c = d /\ h.l1 = l1 /\ h.true = T /\ h.false = F
        /\ l1 \in LabelsOf(d) /\ h.point = (test :> d.labels[l1])
    BY <2>6, TestOf
  <2>8. PICK c, l2 : c = NewLabel(d) /\ l2 = LastLabel(c)
    OBVIOUS
  <2>9. /\ Onto(d, c, {}) /\ Coded(c) /\ JumpsOf(c) = JumpsOf(d) /\ c.gotos = d.gotos
        /\ l2 \in LabelsOf(c) /\ c.labels[l2] = c.instrs
    BY <2>7, <2>8, LabelOnto
  <2>10. Onto(o, c, {}) /\ l1 \in LabelsOf(c) /\ c.labels[l1] = d.labels[l1]
    <3>1. Onto(o, c, {})
      BY <2>7, <2>9, OntoOn
    <3>2. QED BY <2>7, <2>9, <3>1 DEF Onto, Grows
  <2>11. PICK k : k = "for"
    OBVIOUS
  <2>12. PICK f : f = [Frame("for", id) EXCEPT !.true = T, !.false = F, !.l1 = l1, !.l2 = l2]
    OBVIOUS
  <2>13. PICK no : no = 0
    OBVIOUS
  <2>14. Made(f, k, id, T, F, l1, l2, no)
    BY <2>11, <2>12, <2>13 DEF Made, Frame, Keys, NoLabel
  <2>15. PICK x1, x2, a, b, add, q :
            /\ x1 = d.labels[l1] /\ x2 = c.instrs /\ a = (test :> x1) /\ b = (body :> x2)
            /\ add = a @@ b /\ q = add @@ place
    OBVIOUS
  <2>16. DOMAIN add = {test, body} /\ add[test] = x1 /\ add[body] = x2
    <3>1. a = (test :> x1) /\ b = (body :> x2) /\ add = a @@ b
      BY <2>15
    <3>2. test # body
      BY <2>4
    <3>3. Two(add, test, x1, body, x2)
      BY <3>1, <3>2, TwoPoints
    <3>4. QED BY <3>3 DEF Two
  <2>17. Joins(place, add, id, q) /\ after \notin DOMAIN q
    <3>1. PICK rs : rs = {"test", "body"}
      OBVIOUS
    <3>2. rs \subseteq {"body", "test", "step", "case"} /\ "after" \notin rs \cup {"label"}
      BY <3>1
    <3>3. Of(add, rs, id)
      BY <2>4, <2>16, <3>1 DEF Of
    <3>4. q = add @@ place
      BY <2>15
    <3>5. Joins(place, add, id, q) /\ Free(q, rs, id)
      BY <2>1, <2>2, <3>2, <3>3, <3>4, OpenPoints
    <3>6. QED BY <2>4, <3>2, <3>5 DEF Free
  <2>18. FrameAt(f, c, q)
    <3>1. f.kind = "for" /\ f.id = id /\ f.true = T /\ f.false = F /\ f.l1 = l1 /\ f.l2 = l2
      BY <2>11, <2>14, MadeIs
    <3>2. Marks(c, l1, q, test)
      BY <2>10, <2>15, <2>16, <2>17 DEF Marks, Joins, Extends
    <3>3. Marks(c, l2, q, body)
      BY <2>9, <2>15, <2>16, <2>17 DEF Marks, Joins, Extends
    <3>4. (\A g \in T : c.gotos[g].want = body) /\ (\A g \in F : c.gotos[g].want = after)
      BY <2>7, <2>9, WantingOf
    <3>5. QED BY <2>4, <2>17, <3>1, <3>2, <3>3, <3>4 DEF FrameAt, Loops
  <2>19. Open(c, f, add) /\ UNCHANGED globals
    BY <2>4, <2>5, <2>7, <2>8, <2>12, <2>15 DEF For
  <2>20. PICK held : held = T \cup F \cup {no}
    OBVIOUS
  <2>21. held \subseteq JumpsOf(c) \cup {0} /\ held \cap JumpsOf(o) = {} /\ Accounted(o, c, held, q)
    BY <2>7, <2>9, <2>13, <2>20, JumpsPositive DEF Accounted
  <2>22. k \notin {"case", "default", "else"} /\ q = add @@ place
    BY <2>11, <2>15
  <2>23. PICK p : p = "for"
    OBVIOUS
  <2>24. Expecting(p)
    BY <2>23 DEF For
  <2>25. QED BY <2>1, <2>9, <2>10, <2>14, <2>17, <2>18, <2>19, <2>20, <2>21, <2>22, <2>24, MadeLands
<1>2. QED BY <1>0, <1>1

Three(q, p, x, r, y, t, z) == DOMAIN q = {p, r, t} /\ q[p] = x /\ q[r] = y /\ q[t] = z

LEMMA ThreePoints ==
    ASSUME NEW p, NEW r, NEW t, p # r, p # t, r # t, NEW x, NEW y, NEW z,
           NEW a, a = (p :> x), NEW b, b = (r :> y), NEW ab, ab = a @@ b,
           NEW e, e = (t :> z), NEW q, q = ab @@ e
    PROVE  Three(q, p, x, r, y, t, z)
<1>1. Two(ab, p, x, r, y)
  BY TwoPoints
<1>2. DOMAIN e = {t} /\ e[t] = z
  BY Single
<1>3. Adds(ab, e, q)
  BY Adding
<1>4. DOMAIN ab = {p, r} /\ ab[p] = x /\ ab[r] = y
  BY <1>1 DEF Two
<1>5. QED BY <1>2, <1>3, <1>4 DEF Adds, Three

\* Jumps of c that are patched to two of its labels.
Patching(c, d, A, C, l, r) ==
    /\ Onto(c, d, A \cup C) /\ Coded(d) /\ JumpsOf(d) = JumpsOf(c) /\ LabelsOf(d) = LabelsOf(c)
    /\ d.labels = c.labels /\ d.instrs = c.instrs
    /\ \A g \in JumpsOf(c) : /\ g \in A => d.gotos[g].label = l
                             /\ g \in C => d.gotos[g].label = r

LEMMA PatchAll ==
    ASSUME NEW c, Coded(c), NEW A, NEW B, NEW C, NEW l \in LabelsOf(c), NEW r \in LabelsOf(c),
           NEW p, p = Backpatch(c, A, l), NEW x, x = Backpatch(p, B, l), NEW d, d = Backpatch(x, C, r),
           A \cap B = {}, (A \cup B) \cap C = {}
    PROVE  Patching(c, d, A \cup B, C, l, r)
<1>1. /\ Onto(c, p, A) /\ Coded(p) /\ JumpsOf(p) = JumpsOf(c) /\ LabelsOf(p) = LabelsOf(c)
      /\ p.labels = c.labels /\ p.instrs = c.instrs
      /\ \A g \in JumpsOf(c) : p.gotos[g].label = IF g \in A THEN l ELSE c.gotos[g].label
  BY PatchOnto
<1>2. l \in LabelsOf(p)
  BY <1>1
<1>3. /\ Onto(p, x, B) /\ Coded(x) /\ JumpsOf(x) = JumpsOf(p) /\ LabelsOf(x) = LabelsOf(p)
      /\ x.labels = p.labels /\ x.instrs = p.instrs
      /\ \A g \in JumpsOf(p) : x.gotos[g].label = IF g \in B THEN l ELSE p.gotos[g].label
  BY <1>1, <1>2, PatchOnto
<1>4. r \in LabelsOf(x)
  BY <1>1, <1>3
<1>5. /\ Onto(x, d, C) /\ Coded(d) /\ JumpsOf(d) = JumpsOf(x) /\ LabelsOf(d) = LabelsOf(x)
      /\ d.labels = x.labels /\ d.instrs = x.instrs
      /\ \A g \in JumpsOf(x) : d.gotos[g].label = IF g \in C THEN r ELSE x.gotos[g].label
  BY <1>3, <1>4, PatchOnto
<1>6. Onto(c, x, A \cup B)
  BY <1>1, <1>3, OntoOn
<1>7. Onto(c, d, A \cup B \cup C)
  <2>1. ((A \cup B) \cup C) \cap JumpsOf(c) \subseteq A \cup B \cup C
    OBVIOUS
  <2>2. QED BY <1>5, <1>6, <2>1, OntoOn
<1>8. ASSUME NEW g \in JumpsOf(c) PROVE (g \in A \cup B => d.gotos[g].label = l) /\ (g \in C => d.gotos[g].label = r)
  BY <1>1, <1>3, <1>5
<1>9. QED BY <1>1, <1>3, <1>5, <1>7, <1>8 DEF Patching

LEMMA For3Lands ==
    ASSUME IInv, LInv, NEW e1 \in Exprs, NEW e2 \in Exprs \cup {"none"}, NEW e3 \in Exprs, For3(e1, e2, e3) PROVE LInv'
<1>0. CASE fault' # "none"
  BY <1>0, Faulty
<1>1. CASE fault' = "none"
  <2>1. PICK o, id : o = Opened /\ id = statements + 1
    OBVIOUS
  <2>2. Coded(o) /\ id \in Nat /\ statements \in Nat /\ Dated(place, statements) /\ fault = "none"
    BY <2>1, BegunNow DEF For3
  <2>3. e1 = "plain" /\ e3 = "plain" /\ UNCHANGED fault
    BY <1>1, <2>2 DEF For3, Blame
  <2>4. PICK h, test, body, after, step :
            /\ h = ForHead(e1, e2) /\ test = <<"test", id>> /\ body = <<"body", id>> /\ after = <<"after", id>>
            /\ step = <<"step", id>>
    OBVIOUS
  <2>5. id = Id
    BY <2>1 DEF Id
  <2>6. PICK d, first, T, F : HeadOnto(o, h, d, first, T, F, test, body, after)
    BY <2>1, <2>2, <2>3, <2>4, <2>5, ForHeadOnto
  <2>7. /\ Onto(o, d, {}) /\ Coded(d) /\ JumpsOf(d) = JumpsOf(o) \cup T \cup F
        /\ T \cap JumpsOf(o) = {} /\ F \cap JumpsOf(o) = {}
        /\ Wanting(d, T, body) /\ Wanting(d, F, after)
        /\ h.c = d /\ h.l1 = first /\ h.true = T /\ h.false = F
        /\ first \in LabelsOf(d) /\ h.point = (test :> d.labels[first])
    BY <2>6, TestOf
  <2>8. PICK to \in Roles \X Nat, back \in Roles \X Nat : to = body /\ back = test
    BY <2>2, <2>4 DEF Roles
  <2>9. PICK j1, g1 : j1 = NewGoto(d, to) /\ g1 = LastGoto(j1)
    OBVIOUS
  <2>10. /\ Onto(d, j1, {}) /\ Coded(j1) /\ JumpsOf(j1) = JumpsOf(d) \cup {g1} /\ g1 \notin JumpsOf(d)
         /\ j1.gotos[g1].want = to
    BY <2>7, <2>9, GotoOnto
  <2>11. PICK s, l2 : s = NewLabel(j1) /\ l2 = LastLabel(s)
    OBVIOUS
  <2>12. /\ Onto(j1, s, {}) /\ Coded(s) /\ JumpsOf(s) = JumpsOf(j1) /\ l2 \in LabelsOf(s) /\ s.labels[l2] = s.instrs
    BY <2>10, <2>11, LabelOnto
  <2>13. PICK v3 : v3 = Condition(s, e3, back, back)
    OBVIOUS
  <2>14. Onto(s, v3.c, {}) /\ Coded(v3.c) /\ JumpsOf(v3.c) = JumpsOf(s)
    BY <2>3, <2>12, <2>13, PlainOnto
  <2>15. PICK j2, g2 : j2 = NewGoto(v3.c, back) /\ g2 = LastGoto(j2)
    OBVIOUS
  <2>16. /\ Onto(v3.c, j2, {}) /\ Coded(j2) /\ JumpsOf(j2) = JumpsOf(v3.c) \cup {g2} /\ g2 \notin JumpsOf(v3.c)
         /\ j2.gotos[g2].want = back
    BY <2>14, <2>15, GotoOnto
  <2>17. PICK c, l : c = NewLabel(j2) /\ l = LastLabel(c)
    OBVIOUS
  <2>18. /\ Onto(j2, c, {}) /\ Coded(c) /\ JumpsOf(c) = JumpsOf(j2) /\ c.gotos = j2.gotos
         /\ l \in LabelsOf(c) /\ c.labels[l] = c.instrs
    BY <2>16, <2>17, LabelOnto
  <2>19. Onto(s, c, {}) /\ Onto(j1, c, {}) /\ Onto(d, c, {}) /\ Onto(o, c, {})
    <3>1. Onto(s, j2, {})
      BY <2>14, <2>16, OntoOn
    <3>2. Onto(s, c, {})
      BY <2>18, <3>1, OntoOn
    <3>3. Onto(j1, c, {})
      BY <2>12, <3>2, OntoOn
    <3>4. Onto(d, c, {})
      BY <2>10, <3>3, OntoOn
    <3>5. QED BY <2>7, <3>2, <3>3, <3>4, OntoOn
  <2>20. PICK once, twice : once = {g1} /\ twice = {g2}
    OBVIOUS
  <2>21. PICK p1, p2, e :
            p1 = Backpatch(c, T, l) /\ p2 = Backpatch(p1, once, l) /\ e = Backpatch(p2, twice, first)
    OBVIOUS
  <2>22. T \cap once = {} /\ (T \cup once) \cap twice = {} /\ (T \cup once \cup twice) \cap JumpsOf(o) = {}
    BY <2>7, <2>10, <2>12, <2>14, <2>16, <2>20
  <2>23. first \in LabelsOf(c) /\ c.labels[first] = d.labels[first] /\ l2 \in LabelsOf(c) /\ c.labels[l2] = s.instrs
    BY <2>7, <2>12, <2>19 DEF Onto, Grows
  <2>24. /\ Onto(c, e, T \cup once \cup twice) /\ Coded(e) /\ JumpsOf(e) = JumpsOf(c) /\ LabelsOf(e) = LabelsOf(c)
         /\ e.labels = c.labels
         /\ \A g \in JumpsOf(c) : /\ g \in T \cup once => e.gotos[g].label = l
                                  /\ g \in twice => e.gotos[g].label = first
    <3>1. Coded(c) /\ l \in LabelsOf(c) /\ first \in LabelsOf(c)
      BY <2>18, <2>23
    <3>2. T \cap once = {} /\ (T \cup once) \cap twice = {}
      BY <2>22
    <3>3. Patching(c, e, T \cup once, twice, l, first)
      BY <2>21, <3>1, <3>2, PatchAll
    <3>4. QED BY <3>3 DEF Patching
  <2>25. Onto(o, e, {})
    <3>1. ({} \cup (T \cup once \cup twice)) \cap JumpsOf(o) \subseteq {}
      BY <2>22
    <3>2. QED BY <2>19, <2>24, <3>1, OntoOn
  <2>26. /\ \A g \in T : e.gotos[g].want = body
         /\ \A g \in F : e.gotos[g].want = after
         /\ e.gotos[g1].want = body /\ e.gotos[g2].want = test
    <3>1. Onto(d, e, T \cup once \cup twice) /\ Onto(j1, e, T \cup once \cup twice)
      <4>1. ({} \cup (T \cup once \cup twice)) \cap JumpsOf(d) \subseteq T \cup once \cup twice
        OBVIOUS
      <4>2. ({} \cup (T \cup once \cup twice)) \cap JumpsOf(j1) \subseteq T \cup once \cup twice
        OBVIOUS
      <4>3. QED BY <2>19, <2>24, <4>1, <4>2, OntoOn
    <3>2. Wanting(e, T, body) /\ Wanting(e, F, after)
      BY <2>7, <3>1, WantingOn
    <3>3. e.gotos[g1].want = body
      BY <2>8, <2>10, <3>1 DEF Onto, Grows
    <3>4. e.gotos[g2].want = test
      BY <2>8, <2>16, <2>18, <2>24 DEF Onto, Grows
    <3>5. QED BY <3>2, <3>3, <3>4 DEF Wanting
  <2>27. PICK k, no, none : k = "for3" /\ no = 0 /\ none = {}
    OBVIOUS
  <2>28. PICK f : f = [Frame("for3", id) EXCEPT !.false = F, !.l1 = l2]
    OBVIOUS
  <2>29. Made(f, k, id, none, F, l2, no, no)
    BY <2>27, <2>28 DEF Made, Frame, Keys, NoLabel
  <2>30. PICK x1, x2, x3, a, b, ab, ee, add, q :
            /\ x1 = d.labels[first] /\ x2 = s.instrs /\ x3 = c.instrs
            /\ a = (test :> x1) /\ b = (step :> x2) /\ ee = (body :> x3)
            /\ ab = a @@ b /\ add = ab @@ ee /\ q = add @@ place
    OBVIOUS
  <2>31. DOMAIN add = {test, step, body} /\ add[test] = x1 /\ add[step] = x2 /\ add[body] = x3
    <3>1. a = (test :> x1) /\ b = (step :> x2) /\ ab = a @@ b /\ ee = (body :> x3) /\ add = ab @@ ee
      BY <2>30
    <3>2. test # body /\ test # step /\ step # body
      BY <2>4
    <3>3. Three(add, test, x1, step, x2, body, x3)
      BY <3>1, <3>2, ThreePoints
    <3>4. QED BY <3>3 DEF Three
  <2>32. Joins(place, add, id, q) /\ after \notin DOMAIN q
    <3>1. PICK rs : rs = {"test", "step", "body"}
      OBVIOUS
    <3>2. rs \subseteq {"body", "test", "step", "case"} /\ "after" \notin rs \cup {"label"}
      BY <3>1
    <3>3. Of(add, rs, id)
      BY <2>4, <2>31, <3>1 DEF Of
    <3>4. q = add @@ place
      BY <2>30
    <3>5. Joins(place, add, id, q) /\ Free(q, rs, id)
      BY <2>1, <2>2, <3>2, <3>3, <3>4, OpenPoints
    <3>6. QED BY <2>4, <3>2, <3>5 DEF Free
  <2>33. test \in DOMAIN q /\ q[test] = x1 /\ step \in DOMAIN q /\ q[step] = x2 /\ body \in DOMAIN q /\ q[body] = x3
    BY <2>31, <2>32 DEF Joins, Extends
  <2>34. FrameAt(f, e, q)
    <3>1. f.kind = "for3" /\ f.id = id /\ f.true = {} /\ f.false = F /\ f.l1 = l2
      BY <2>27, <2>29, MadeIs
    <3>2. Marks(e, l2, q, step)
      BY <2>23, <2>24, <2>30, <2>33 DEF Marks
    <3>3. QED BY <2>4, <2>26, <2>32, <3>1, <3>2 DEF FrameAt, Loops
  <2>35. Open(e, f, add) /\ UNCHANGED globals
    BY <2>4, <2>5, <2>7, <2>8, <2>9, <2>11, <2>13, <2>15, <2>17, <2>20, <2>21, <2>28, <2>30 DEF For3
  <2>36. PICK held : held = none \cup F \cup {no}
    OBVIOUS
  <2>37. held \subseteq JumpsOf(e) \cup {0} /\ held \cap JumpsOf(o) = {}
    BY <2>7, <2>10, <2>12, <2>14, <2>16, <2>18, <2>24, <2>27, <2>36, JumpsPositive
  <2>38. Accounted(o, e, held, q)
    <3>1. \A g \in T \cup once : g \in JumpsOf(c)
      BY <2>7, <2>10, <2>12, <2>14, <2>16, <2>18, <2>20
    <3>2. \A g \in T \cup once : Landed(e, {}, q, g)
      <4>1. l \in LabelsOf(e) /\ e.labels[l] = x3
        BY <2>18, <2>24, <2>30
      <4>2. \A g \in T \cup once : e.gotos[g].label = l /\ e.gotos[g].want = body
        BY <2>20, <2>24, <2>26, <3>1
      <4>3. QED BY <2>33, <4>1, <4>2 DEF Landed
    <3>3. Landed(e, {}, q, g2)
      <4>1. first \in LabelsOf(e) /\ e.labels[first] = x1
        BY <2>23, <2>24, <2>30
      <4>2. e.gotos[g2].label = first /\ e.gotos[g2].want = test
        BY <2>16, <2>18, <2>20, <2>24, <2>26
      <4>3. QED BY <2>33, <4>1, <4>2 DEF Landed
    <3>4. JumpsOf(e) = JumpsOf(o) \cup T \cup F \cup once \cup {g2}
      BY <2>7, <2>10, <2>12, <2>14, <2>16, <2>18, <2>20, <2>24
    <3>5. QED BY <2>36, <3>2, <3>3, <3>4 DEF Accounted
  <2>39. k \notin {"case", "default", "else"}
    BY <2>27
  <2>40. q = add @@ place
    BY <2>30
  <2>41. PICK p : p = "for3"
    OBVIOUS
  <2>42. Expecting(p)
    BY <2>41 DEF For3
  <2>43. QED BY <2>1, <2>24, <2>25, <2>29, <2>32, <2>34, <2>35, <2>36, <2>37, <2>38, <2>39, <2>40, <2>42, MadeLands
<1>2. QED BY <1>0, <1>1

LEMMA SwitchLands == ASSUME IInv, LInv, NEW e \in Exprs, Switch(e) PROVE LInv'
<1>0. CASE fault' # "none"
  BY <1>0, Faulty
<1>1. CASE fault' = "none"
  <2>1. PICK o, id : o = Opened /\ id = statements + 1
    OBVIOUS
  <2>2. Coded(o) /\ id \in Nat /\ statements \in Nat /\ Dated(place, statements) /\ fault = "none"
    BY <2>1, BegunNow DEF Switch
  <2>3. e = "plain"
    BY <1>1, <2>2 DEF Switch, Blame
  <2>4. PICK w \in Roles \X Nat : w = <<"dispatch", id>>
    BY <2>2 DEF Roles
  <2>5. PICK v : v = Condition(o, e, w, w)
    OBVIOUS
  <2>6. Onto(o, v.c, {}) /\ Coded(v.c) /\ JumpsOf(v.c) = JumpsOf(o)
    BY <2>2, <2>3, <2>5, PlainOnto
  <2>7. PICK x : x = Exec(v.c)
    OBVIOUS
  <2>8. Onto(v.c, x, {}) /\ JumpsOf(x) = JumpsOf(v.c) /\ Coded(x)
    BY <2>6, <2>7, ExecOnto
  <2>9. PICK c, g : c = NewGoto(x, w) /\ g = LastGoto(c)
    OBVIOUS
  <2>10. /\ Onto(x, c, {}) /\ Coded(c) /\ JumpsOf(c) = JumpsOf(x) \cup {g} /\ g \notin JumpsOf(x)
         /\ c.gotos[g].want = w
    BY <2>8, <2>9, GotoOnto
  <2>11. Onto(o, c, {})
    <3>1. Onto(o, x, {})
      BY <2>6, <2>8, OntoOn
    <3>2. QED BY <2>10, <3>1, OntoOn
  <2>12. PICK k, no, none : k = "switch" /\ no = 0 /\ none = {}
    OBVIOUS
  <2>13. PICK f : f = [Frame("switch", id) EXCEPT !.goto1 = g]
    OBVIOUS
  <2>14. Made(f, k, id, none, none, no, no, g)
    BY <2>12, <2>13 DEF Made, Frame, Keys, NoLabel
  <2>15. PICK add, q : add = <<>> /\ q = add @@ place
    OBVIOUS
  <2>16. Joins(place, add, id, q) /\ <<"after", id>> \notin DOMAIN q /\ w \notin DOMAIN q
    <3>1. PICK rs : rs = {}
      OBVIOUS
    <3>2. rs \subseteq {"body", "test", "step", "case"} /\ "after" \notin rs \cup {"label"} /\ "dispatch" \notin rs \cup {"label"}
      BY <3>1
    <3>3. Of(add, rs, id)
      BY <2>15 DEF Of
    <3>4. q = add @@ place
      BY <2>15
    <3>5. Joins(place, add, id, q) /\ Free(q, rs, id)
      BY <2>1, <2>2, <3>2, <3>3, <3>4, OpenPoints
    <3>6. QED BY <2>4, <3>2, <3>5 DEF Free
  <2>17. FrameAt(f, c, q)
    <3>1. f.kind = "switch" /\ f.id = id /\ f.true = {} /\ f.false = {} /\ f.goto1 = g
      BY <2>12, <2>14, MadeIs
    <3>2. QED BY <2>4, <2>10, <2>16, <3>1 DEF FrameAt
  <2>18. Open(c, f, add) /\ UNCHANGED globals
    BY <2>1, <2>4, <2>5, <2>7, <2>9, <2>13, <2>15 DEF Switch, Id
  <2>19. PICK held : held = none \cup none \cup {g}
    OBVIOUS
  <2>20. held \subseteq JumpsOf(c) \cup {0} /\ held \cap JumpsOf(o) = {} /\ Accounted(o, c, held, q)
    BY <2>6, <2>8, <2>10, <2>12, <2>19 DEF Accounted
  <2>21. k \notin {"case", "default", "else"}
    BY <2>12
  <2>22. q = add @@ place
    BY <2>15
  <2>23. PICK p : p = "switch"
    OBVIOUS
  <2>24. Expecting(p)
    BY <2>23 DEF Switch
  <2>25. QED BY <2>1, <2>10, <2>11, <2>14, <2>16, <2>17, <2>18, <2>19, <2>20, <2>21, <2>22, <2>24, MadeLands
<1>2. QED BY <1>0, <1>1

LEMMA LabelStatementLands == ASSUME IInv, LInv, NEW n \in Names, LabelStatement(n) PROVE LInv'
<1>1. PICK o, id : o = Opened /\ id = statements + 1
  OBVIOUS
<1>p. PICK p : p = "label"
  OBVIOUS
<1>2. Begun(o) /\ Coded(o) /\ ~value.ready /\ value.st = Null /\ id \in Nat /\ statements \in Nat /\ Dated(place, statements)
  <2>1. Expecting(p)
    BY <1>p DEF LabelStatement
  <2>2. QED BY <1>1, <2>1, BegunNow
<1>3. PICK c, l : c = NewLabel(o) /\ l = LastLabel(c)
  OBVIOUS
<1>4. /\ Onto(o, c, {}) /\ Coded(c) /\ JumpsOf(c) = JumpsOf(o) /\ l \in LabelsOf(c) /\ c.labels[l] = c.instrs
  BY <1>2, <1>3, LabelOnto
<1>5. PICK k, no, none : k = "label" /\ no = 0 /\ none = {}
  OBVIOUS
<1>6. PICK f : f = [Frame("label", id) EXCEPT !.l1 = l, !.l2 = n]
  OBVIOUS
<1>7. Made(f, k, id, none, none, l, n, no)
  BY <1>5, <1>6 DEF Made, Frame, Keys, NoLabel
<1>8. /\ f.kind = "label" /\ f.id = id /\ f.true = {} /\ f.false = {} /\ f.l1 = l /\ f.l2 = n
      /\ f.st = Null /\ Ownless(f) /\ HeldBy(f) = {0}
  <2>1. /\ f.kind = k /\ f.id = id /\ f.true = none /\ f.false = none /\ f.l1 = l /\ f.l2 = n
        /\ f.st = Null /\ Ownless(f) /\ HeldBy(f) = none \cup none \cup {no, 0}
    BY <1>7, MadeIs
  <2>2. QED BY <1>5, <2>1
<1>9. PICK point, x, add, q : point = <<"label", n>> /\ x = c.instrs /\ add = (point :> x) /\ q = add @@ place
  OBVIOUS
<1>10. DOMAIN add = {point} /\ add[point] = x
  <2>1. add = (point :> x)
    BY <1>9
  <2>2. QED BY <2>1, Single
<1>11. Joins(place, add, id, q)
  <2>1. point \notin DOMAIN place /\ point[1] = "label"
    BY <1>9 DEF LabelStatement
  <2>2. \A r \in DOMAIN add : r \notin DOMAIN place /\ (r[1] = "label" \/ (r[2] = id /\ r[1] # "end"))
    BY <1>10, <2>1
  <2>3. q = add @@ place
    BY <1>9
  <2>4. QED BY <2>2, <2>3, Joining
<1>12. <<"after", id>> \notin DOMAIN q
  <2>1. PICK r : r = "after"
    OBVIOUS
  <2>2. r # "label"
    BY <2>1
  <2>3. <<r, statements + 1>> \notin DOMAIN place
    BY <1>2, <2>2, NewPoint
  <2>4. <<"after", id>> # point
    BY <1>9
  <2>5. QED BY <1>1, <1>10, <1>11, <2>1, <2>3, <2>4 DEF Joins
<1>13. FrameAt(f, c, q)
  <2>1. Marks(c, l, q, <<"label", n>>)
    BY <1>4, <1>9, <1>10, <1>11 DEF Marks, Joins, Extends
  <2>2. QED BY <1>8, <1>12, <2>1 DEF FrameAt
<1>14. Open(c, f, add) /\ UNCHANGED globals
  BY <1>1, <1>3, <1>6, <1>9 DEF LabelStatement, Id
<1>15. place' = q
  BY <1>9, <1>14 DEF Open
<1>16. /\ HeldBy(f) \subseteq JumpsOf(c) \cup {0} /\ HeldBy(f) \cap JumpsOf(o) = {} /\ Accounted(o, c, HeldBy(f), q)
       /\ f.kind \notin {"case", "default", "else"}
  BY <1>4, <1>8, JumpsPositive DEF Accounted
<1>17. UNCHANGED <<idLabel, idGoto, lblSwitch>>
  BY <1>14 DEF globals
<1>18. QED BY <1>1, <1>2, <1>4, <1>8, <1>11, <1>13, <1>14, <1>15, <1>16, <1>17, OpenLands

LEMMA GotoStatementLands == ASSUME IInv, LInv, NEW n \in Names, GotoStatement(n) PROVE LInv'
<1>0. CASE fault' # "none"
  BY <1>0, Faulty
<1>1. CASE fault' = "none"
  <2>1. PICK o : o = Opened
    OBVIOUS
  <2>2. Begun(o) /\ Coded(o) /\ fault = "none" /\ statements \in Nat /\ Waiting(idGoto) \subseteq JumpsOf(o)
    BY <2>1, BegunNow DEF GotoStatement
  <2>3. Onto(o, o, {})
    BY <2>2, OntoSelf
  <2>4. Naming(o, idLabel, idGoto)
    BY <2>2, <2>3, NamesBegun
  <2>5. idGoto \in [Names -> SUBSET Nat]
    BY DEF IInv, Shaped, Named
  <2>6. PICK p \in Roles \X Nat, l \in Targets(o) : p = <<"label", n>> /\ l = idLabel[n]
    BY <2>4, StatementsAssumption DEF Roles, Naming
  <2>7. l # Elsewhere
    BY <1>1, <2>2, <2>6 DEF GotoStatement, Blame
  <2>8. PICK c, g : c = NewGotoTo(o, p, l) /\ g = LastGoto(c)
    OBVIOUS
  <2>9. /\ Onto(o, c, {}) /\ Coded(c) /\ c.labels = o.labels /\ LabelsOf(c) = LabelsOf(o)
        /\ JumpsOf(c) = JumpsOf(o) \cup {g} /\ g \notin JumpsOf(o) /\ g \in Nat
        /\ c.gotos[g].label = l /\ c.gotos[g].want = p
    <3>1. PICK no \in BOOLEAN : no = FALSE
      OBVIOUS
    <3>2. c = NewJump(o, p, l, no)
      BY <2>8, <3>1 DEF NewGotoTo
    <3>3. /\ Onto(o, c, {}) /\ Coded(c) /\ c.labels = o.labels /\ LabelsOf(c) = LabelsOf(o)
          /\ JumpsOf(c) = JumpsOf(o) \cup {g} /\ g \notin JumpsOf(o) /\ g \in Nat
          /\ c.gotos[g] = [at |-> o.instrs, cond |-> no, label |-> l, want |-> p]
      BY <2>2, <2>8, <3>2, JumpOnto
    <3>4. QED BY <3>3
  <2>10. PICK new : new = IF l = NoLabel THEN {g} ELSE {}
    OBVIOUS
  <2>11. PICK w : w = [idGoto EXCEPT ![n] = idGoto[n] \cup new]
    OBVIOUS
  <2>12. \A m \in Names : w[m] = IF m = n THEN idGoto[n] \cup new ELSE idGoto[m]
    BY <2>5, <2>11
  <2>13. Waiting(w) = Waiting(idGoto) \cup new
    BY <2>12 DEF Waiting
  <2>14. PICK st : st = Stmt(NoLists)
    OBVIOUS
  <2>15. /\ Simple(c, st) /\ UNCHANGED <<idLabel, lblSwitch>>
         /\ idGoto' = [idGoto EXCEPT ![n] = IF idLabel[n] = NoLabel THEN @ \cup {g} ELSE @]
    BY <2>1, <2>6, <2>8, <2>14 DEF GotoStatement
  <2>16. idGoto' = w
    <3>1. idGoto' = [m \in Names |-> IF m = n THEN idGoto[n] \cup new ELSE idGoto[m]]
      BY <2>5, <2>6, <2>10, <2>15
    <3>2. w = [m \in Names |-> IF m = n THEN idGoto[n] \cup new ELSE idGoto[m]]
      BY <2>5, <2>11
    <3>3. QED BY <3>1, <3>2
  <2>17. st.lists = NoLists /\ ListsOf(st) = {} /\ Wants(st, stack, Len(stack), c)
         /\ Wanting(c, st.lists["next"], <<"after", statements + 1>>)
    BY <2>14 DEF Stmt, NoLists, ListsOf, Wants, Wanting, Lists
  <2>18. NamesAt(c, idLabel, idGoto, place) /\ Naming(c, idLabel, idGoto)
    BY <2>2, <2>9, NamesBegun
  <2>19. NamesAt(c, idLabel, w, place) /\ Naming(c, idLabel, w)
    <3>1. ASSUME NEW m \in Names
          PROVE  /\ \A h \in w[m] : c.gotos[h].want = <<"label", m>>
                 /\ w[m] \subseteq JumpsOf(c)
      BY <2>6, <2>9, <2>10, <2>12, <2>18 DEF NamesAt, Naming
    <3>2. QED BY <2>18, <3>1 DEF NamesAt, Naming
  <2>20. Accounted(o, c, ListsOf(st) \cup Waiting(w), place)
    <3>1. CASE l = NoLabel
      BY <2>9, <2>10, <2>13, <3>1 DEF Accounted
    <3>2. CASE l # NoLabel
      <4>1. l \in LabelsOf(c)
        BY <2>6, <2>7, <2>9, <3>2 DEF Targets
      <4>2. Marks(c, l, place, <<"label", n>>)
        BY <2>6, <2>18, <4>1 DEF NamesAt
      <4>3. Landed(c, {}, place, g)
        BY <2>6, <2>9, <4>1, <4>2 DEF Landed, Marks
      <4>4. QED BY <2>9, <4>3 DEF Accounted
    <3>3. QED BY <3>1, <3>2
  <2>21. /\ ListsOf(st) \cup Waiting(w) \subseteq JumpsOf(c) /\ ListsOf(st) \cap JumpsOf(o) = {}
         /\ ListsOf(st) \cap Waiting(w) = {} /\ Waiting(w) \cap JumpsOf(o) = Waiting(idGoto)
    BY <2>2, <2>9, <2>10, <2>13, <2>17
  <2>22. QED BY <2>2, <2>9, <2>15, <2>16, <2>17, <2>19, <2>20, <2>21, SimpleLands
<1>2. QED BY <1>0, <1>1

LEMMA OwnLike ==
    ASSUME NEW s, NEW c, NEW m, Framing(s, c, m), NEW i \in 1 .. Len(s), NEW k \in Keys, NEW n, NEW t, OwnAt(s, i, k, n, t)
    PROVE  \A j \in 1 .. Len(s) : Like(s[j], t[j])
<1>1. s \in Seq(FrameType) /\ Len(s) \in Nat /\ \A j \in 1 .. Len(s) : s[j] \in FrameType
  BY DEF Framing
<1>2. PICK f, g : f = s[i] /\ g = [f EXCEPT !.own[k] = n]
  OBVIOUS
<1>3. f = [kind |-> f.kind, id |-> f.id, true |-> f.true, false |-> f.false, l1 |-> f.l1, l2 |-> f.l2,
           goto1 |-> f.goto1, goto2 |-> f.goto2, st |-> f.st, seen |-> f.seen, own |-> f.own]
  BY <1>1, <1>2 DEF FrameType
<1>4. Like(f, g)
  BY <1>2, <1>3 DEF Like
<1>5. t = [s EXCEPT ![i] = g]
  BY <1>2 DEF OwnAt
<1>6. \A j \in 1 .. Len(s) : t[j] = IF j = i THEN g ELSE s[j]
  BY <1>1, <1>5
<1>7. QED BY <1>2, <1>4, <1>6, LikeSelf

LEMMA CasesOwn ==
    ASSUME NEW s, NEW o, NEW lbl, NEW points, CasesAt(s, o, lbl, points), OwnCases(s, lbl),
           NEW x, Framing(s, o, x), NEW i \in 1 .. Len(s), s[i].kind = "switch",
           \A j \in 1 .. Len(s) : s[j].kind \in {"switch"} => j <= i,
           NEW k \in Keys, s[i].own[k] = 0, NEW n, n # 0,
           NEW u, Owns(s, u, i, k, n), NEW f, NEW t, Pushes(u, f, t), Ownless(f), f.l2 = k, f.id = n,
           NEW c, Onto(o, c, {}), NEW q, Extends(points, q), <<"case", n>> \in DOMAIN q
    PROVE  CasesAt(t, c, lbl, q)
<1>1. /\ Len(u) = Len(s) /\ Len(s) \in Nat /\ Len(t) = Len(s) + 1 /\ t[Len(t)] = f
      /\ \A j \in 1 .. Len(s) : j \in 1 .. Len(t) /\ t[j] = u[j]
      /\ \A j \in 1 .. Len(t) : j = Len(t) \/ j \in 1 .. Len(s)
      /\ \A j \in 1 .. Len(s) : u[j].kind = s[j].kind /\ u[j].l2 = s[j].l2 /\ u[j].id = s[j].id
      /\ \A j \in 1 .. Len(s) : \A y \in Keys : u[j].own[y] = IF j = i /\ y = k THEN n ELSE s[j].own[y]
  BY DEF Owns, Pushes
<1>2. /\ \A j \in 1 .. Len(s) : \A y \in Keys : t[j].own[y] = IF j = i /\ y = k THEN n ELSE s[j].own[y]
      /\ \A j \in 1 .. Len(s) : t[j].kind = s[j].kind /\ t[j].l2 = s[j].l2 /\ t[j].id = s[j].id
  BY <1>1
<1>3. lbl[k] = NoLabel
  <2>1. ASSUME NEW j \in 1 .. Len(s), s[j].own[k] # 0 PROVE FALSE
    <3>1. s[j].kind = "switch"
      BY <2>1 DEF Framing, Framed
    <3>2. j <= i /\ j # i
      BY <2>1, <3>1
    <3>3. j < i
      BY <1>1, <3>2
    <3>4. s[i].kind # "switch"
      BY <2>1, <3>3 DEF OwnCases
    <3>5. QED BY <3>4
  <2>2. QED BY <2>1 DEF CasesAt
<1>4. ASSUME NEW j \in 1 .. Len(t), NEW y \in Keys, t[j].own[y] # 0
      PROVE  /\ <<"case", t[j].own[y]>> \in DOMAIN q
             /\ lbl[y] # NoLabel => Marks(c, lbl[y], q, <<"case", t[j].own[y]>>)
  <2>1. j \in 1 .. Len(s)
    BY <1>1, <1>4 DEF Ownless
  <2>2. CASE j = i /\ y = k
    <3>1. t[j].own[y] = n
      BY <1>2, <2>1, <2>2
    <3>2. QED BY <1>3, <2>2, <3>1
  <2>3. CASE ~(j = i /\ y = k)
    <3>1. t[j].own[y] = s[j].own[y]
      BY <1>2, <2>1, <2>3
    <3>2. /\ <<"case", s[j].own[y]>> \in DOMAIN points
          /\ lbl[y] # NoLabel => Marks(o, lbl[y], points, <<"case", s[j].own[y]>>)
      BY <1>4, <2>1, <3>1 DEF CasesAt
    <3>3. QED BY <3>1, <3>2, MarksStay DEF Extends
  <2>4. QED BY <2>2, <2>3
<1>5. ASSUME NEW y \in Keys, lbl[y] # NoLabel PROVE \E j \in 1 .. Len(t) : t[j].own[y] # 0
  <2>1. PICK j \in 1 .. Len(s) : s[j].own[y] # 0
    BY <1>5 DEF CasesAt
  <2>2. t[j].own[y] # 0 /\ j \in 1 .. Len(t)
    BY <1>1, <1>2, <2>1
  <2>3. QED BY <2>2
<1>6. ASSUME NEW j \in 1 .. Len(t), t[j].kind \in {"case", "default"}
      PROVE  t[j].id # 0 /\ \E y \in 1 .. Len(t) : y < j /\ t[y].own[t[j].l2] = t[j].id
  <2>1. CASE j = Len(t)
    <3>1. t[j].id = n /\ t[j].l2 = k
      BY <1>1, <2>1
    <3>2. i \in 1 .. Len(t) /\ i < j /\ t[i].own[k] = n
      BY <1>1, <1>2, <2>1
    <3>3. QED BY <3>1, <3>2
  <2>2. CASE j \in 1 .. Len(s)
    <3>1. s[j].kind \in {"case", "default"}
      BY <1>2, <1>6, <2>2
    <3>2. PICK y \in 1 .. Len(s) : s[j].id # 0 /\ y < j /\ s[y].own[s[j].l2] = s[j].id
      BY <2>2, <3>1 DEF CasesAt
    <3>3. s[j].l2 \in Keys
      BY <2>2, <3>1 DEF Framing, Framed
    <3>4. ~(y = i /\ s[j].l2 = k)
      BY <3>2
    <3>5. t[y].own[s[j].l2] = s[j].id
      BY <1>2, <3>2, <3>3, <3>4
    <3>6. y \in 1 .. Len(t) /\ t[y].own[t[j].l2] = t[j].id /\ t[j].id # 0
      BY <1>1, <1>2, <2>2, <3>2, <3>5
    <3>7. QED BY <3>2, <3>6
  <2>3. QED BY <1>1, <2>1, <2>2
<1>7. QED BY <1>4, <1>5, <1>6 DEF CasesAt

LEMMA CaseLabelLands ==
    ASSUME IInv, LInv, NEW kind \in {"case", "default"}, NEW k \in Keys, CaseLabel(kind, k)
    PROVE  LInv'
<1>1. PICK o, id : o = Opened /\ id = statements + 1
  OBVIOUS
<1>2. /\ Begun(o) /\ Coded(o) /\ ~value.ready /\ value.st = Null /\ fault = "none" /\ phase = "parse"
      /\ id \in Nat /\ id # 0 /\ statements \in Nat /\ Dated(place, statements) /\ Waiting(idGoto) \subseteq JumpsOf(o)
  <2>1. Expecting(kind)
    BY DEF CaseLabel
  <2>2. QED BY <1>1, <2>1, BegunNow
<1>3. PICK c, l : c = NewLabel(o) /\ l = LastLabel(c)
  OBVIOUS
<1>4. /\ Onto(o, c, {}) /\ Coded(c) /\ JumpsOf(c) = JumpsOf(o) /\ l \in LabelsOf(c) /\ c.labels[l] = c.instrs
  BY <1>2, <1>3, LabelOnto
<1>5. PICK kinds, i : kinds = {"switch"} /\ i = Innermost(kinds)
  OBVIOUS
<1>6. /\ i # 0 /\ stack[i].own[k] = 0 /\ ta_code' = c /\ statements' = id
      /\ stack' = Append([stack EXCEPT ![i].own[k] = id], [Frame(kind, id) EXCEPT !.l1 = l, !.l2 = k])
      /\ place' = place @@ (<<"case", id>> :> c.instrs)
      /\ UNCHANGED <<value, functions, bound, phase, globals, fault>>
  BY <1>1, <1>3, <1>5 DEF CaseLabel, Id
<1>7. Going
  BY <1>2, GoesOn
<1>8. /\ i \in 1 .. Len(stack) /\ stack[i].kind \in kinds
      /\ \A j \in 1 .. Len(stack) : stack[j].kind \in kinds => j <= i
  BY <1>5, <1>6, <1>7, InnermostOpen
<1>9. /\ stack[i].kind = "switch" /\ \A j \in 1 .. Len(stack) : stack[j].kind \in {"switch"} => j <= i
  BY <1>5, <1>8
<1>10. PICK s : OwnAt(stack, i, k, id, s)
  BY DEF OwnAt
<1>11. /\ Holding(stack, o, statements, Null, idGoto) /\ Naming(o, idLabel, idGoto)
       /\ State(o, stack, Len(stack), Null, idLabel, idGoto, lblSwitch, place, statements)
       /\ Len(stack) \in Nat
  BY <1>2 DEF Begun
<1>12. Framing(stack, o, statements)
  BY <1>11 DEF Holding
<1>13. Owns(stack, s, i, k, id) /\ \A j \in 1 .. Len(stack) : Like(stack[j], s[j])
  BY <1>2, <1>8, <1>9, <1>10, <1>12, OwnStack, OwnLike
<1>14. PICK f : f = [Frame(kind, id) EXCEPT !.l1 = l, !.l2 = k]
  OBVIOUS
<1>15. PICK no, none : no = 0 /\ none = {}
  OBVIOUS
<1>16. Made(f, kind, id, none, none, l, k, no)
  BY <1>14, <1>15 DEF Made, Frame, Keys, NoLabel
<1>17. /\ f.kind = kind /\ f.id = id /\ f.true = {} /\ f.false = {} /\ f.l1 = l /\ f.l2 = k
       /\ f.st = Null /\ Ownless(f) /\ HeldBy(f) = {0}
  <2>1. /\ f.kind = kind /\ f.id = id /\ f.true = none /\ f.false = none /\ f.l1 = l /\ f.l2 = k
        /\ f.st = Null /\ Ownless(f) /\ HeldBy(f) = none \cup none \cup {no, 0}
    BY <1>16, MadeIs
  <2>2. QED BY <1>15, <2>1
<1>18. PICK t : t = Append(s, f)
  OBVIOUS
<1>m. PICK m \in Nat : m = Len(stack)
  BY <1>11
<1>19. /\ Len(t) = m + 1 /\ t[m + 1] = f /\ \A j \in 1 .. m : t[j] = s[j]
  BY <1>13, <1>18, <1>m, AppendIs DEF Owns
<1>20. Pushes(s, f, t)
  BY <1>13, <1>19, <1>m DEF Pushes, Owns
<1>21. PICK point, x, add, q : point = <<"case", id>> /\ x = c.instrs /\ add = (point :> x) /\ q = place @@ add
  OBVIOUS
<1>22. DOMAIN add = {point} /\ add[point] = x
  <2>1. add = (point :> x)
    BY <1>21
  <2>2. QED BY <2>1, Single
<1>23. point \notin DOMAIN place /\ <<"after", id>> \notin DOMAIN place
  <2>1. PICK r1, r2 : r1 = "case" /\ r2 = "after"
    OBVIOUS
  <2>2. r1 # "label" /\ r2 # "label"
    BY <2>1
  <2>3. <<r1, statements + 1>> \notin DOMAIN place /\ <<r2, statements + 1>> \notin DOMAIN place
    BY <1>2, <2>2, NewPoint
  <2>4. QED BY <1>1, <1>21, <2>1, <2>3
<1>24. Joins(place, add, id, q)
  <2>1. \A r \in DOMAIN add : r \notin DOMAIN place /\ (r[1] = "label" \/ (r[2] = id /\ r[1] # "end"))
    BY <1>21, <1>22, <1>23
  <2>2. q = place @@ add
    BY <1>21
  <2>3. QED BY <2>1, <2>2, Joining
<1>25. FrameAt(f, c, q)
  <2>1. Marks(c, l, q, point)
    BY <1>4, <1>21, <1>22, <1>24 DEF Marks, Joins, Extends
  <2>2. <<"after", id>> # point
    BY <1>21
  <2>3. <<"after", id>> \notin DOMAIN q
    BY <1>22, <1>23, <1>24, <2>2 DEF Joins
  <2>4. QED BY <1>17, <1>21, <2>1, <2>3 DEF FrameAt
<1>26. CasesAt(t, c, lblSwitch, q)
  <2>1. CasesAt(stack, o, lblSwitch, place)
    BY <1>11 DEF State, Landing
  <2>2. OwnCases(stack, lblSwitch)
    BY <1>2 DEF IInv, Right
  <2>3. Extends(place, q) /\ <<"case", id>> \in DOMAIN q
    BY <1>21, <1>22, <1>24 DEF Joins
  <2>4. QED BY <1>2, <1>4, <1>6, <1>8, <1>9, <1>12, <1>13, <1>17, <1>20, <2>1, <2>2, <2>3, CasesOwn
<1>27. NamesAt(c, idLabel, idGoto, q)
  BY <1>4, <1>11, <1>24, NamesStay DEF Naming, Joins, State, Landing
<1>28. Deals(o, Loose(stack, m, Null, idGoto), c, t, m, Null, idGoto)
  <2>1. Loose(stack, m, Null, idGoto) = Waiting(idGoto)
    <3>1. Loose(stack, m, Null, idGoto) = ListsOf(Null) \cup Waiting(idGoto)
      BY <1>11, <1>m, LooseAll
    <3>2. QED BY <3>1, NoListsOf
  <2>2. Waiting(idGoto) \subseteq JumpsOf(c)
    BY <1>2, <1>4
  <2>3. HeldBy(f) \cap Waiting(idGoto) = {} /\ HeldBy(f) \subseteq JumpsOf(c) \cup {0} /\ HeldBy(f) \cap JumpsOf(o) = {}
    BY <1>2, <1>17, JumpsPositive
  <2>4. QED BY <1>19, <2>1, <2>2, <2>3, NoListsOf DEF Deals
<1>29. ASSUME NEW g \in Unheld(c, t, Null, idGoto) \ Unheld(o, stack, Null, idGoto)
       PROVE  Landed(c, Unheld(c, t, Null, idGoto), q, g)
  <2>1. /\ g \in JumpsOf(c) /\ g \notin ListsOf(Null) \cup Waiting(idGoto)
        /\ \A j \in 1 .. Len(t) : g \notin HeldBy(t[j])
    BY <1>29, InUnheld
  <2>2. \A j \in 1 .. Len(stack) : j \in 1 .. Len(t) /\ HeldBy(t[j]) = HeldBy(stack[j])
    BY <1>13, <1>19, <1>m DEF Owns
  <2>3. \A j \in 1 .. Len(stack) : g \notin HeldBy(stack[j])
    BY <2>1, <2>2
  <2>4. g \in Unheld(o, stack, Null, idGoto)
    BY <1>4, <2>1, <2>3, InUnheld
  <2>5. QED BY <1>29, <2>4
<1>30. TopAt(t, m, c, q, id)
  <2>1. Wants(f.st, t, m, c)
    BY <1>17, NullWants
  <2>2. ListAt(f, FALSE, c, q)
    BY <1>17 DEF ListAt
  <2>3. QED BY <1>17, <1>19, <1>25, <2>1, <2>2 DEF TopAt
<1>31. State(c, t, m, Null, idLabel, idGoto, lblSwitch, q, id)
  <2>1. Around(stack, t, m) /\ m <= m
    BY <1>13, <1>19, <1>m DEF Around
  <2>2. statements <= id /\ id \in 0 .. id
    BY <1>1, <1>2
  <2>3. \A j \in 1 .. m : stack[j].id # id
    <3>1. \A j \in 1 .. m : stack[j].id <= statements /\ stack[j].id \in Nat
      BY <1>12, <1>m DEF Framing, Framed, FrameType
    <3>2. QED BY <1>1, <1>2, <3>1
  <2>4. {} \cap JumpsOf(o) \subseteq Loose(stack, m, Null, idGoto)
    OBVIOUS
  <2>5. Extends(place, q) /\ About(place, q, id)
    BY <1>24 DEF Joins
  <2>6. Wants(Null, t, Len(t), c) /\ Nexts(Null, c, q, c.instrs)
    BY NullWants
  <2>7. State(o, stack, m, Null, idLabel, idGoto, lblSwitch, place, statements)
        /\ Holding(stack, o, statements, Null, idGoto) /\ statements \in Nat /\ id \in Nat
    BY <1>2, <1>11, <1>m
  <2>8. QED BY <1>4, <1>26, <1>27, <1>28, <1>29, <1>30, <2>1, <2>2, <2>3, <2>4, <2>5, <2>6, <2>7, Move
<1>32. /\ stack' = t /\ place' = q /\ value' = value
       /\ idLabel' = idLabel /\ idGoto' = idGoto /\ lblSwitch' = lblSwitch
  BY <1>6, <1>10, <1>14, <1>18, <1>21 DEF OwnAt, globals
<1>33. Depth(t, value'.ready) = m /\ value'.st = Null
  BY <1>2, <1>19, <1>32, <1>m DEF Depth
<1>34. QED BY <1>6, <1>31, <1>32, <1>33, Concludes

(***************************************************************************)
(* Statements after their substatement.                                    *)
(***************************************************************************)
LEMMA EnclosesOut ==
    ASSUME NEW s, NEW m \in Nat, NEW kinds, NEW i \in 1 .. m + 1, Encloses(kinds, s, m + 1, i)
    PROVE  IF s[m + 1].kind \in kinds THEN i = m + 1 ELSE i \in 1 .. m /\ Encloses(kinds, s, m, i)
<1>1. m + 1 \in 1 .. m + 1 /\ \A j \in i + 1 .. m : j \in i + 1 .. m + 1
  OBVIOUS
<1>2. CASE s[m + 1].kind \in kinds
  <2>1. ~(m + 1 \in i + 1 .. m + 1)
    BY <1>2 DEF Encloses
  <2>2. QED BY <1>2, <2>1
<1>3. CASE s[m + 1].kind \notin kinds
  <2>1. i # m + 1
    BY <1>3 DEF Encloses
  <2>2. i \in 1 .. m
    BY <2>1
  <2>3. QED BY <1>1, <1>3, <2>2 DEF Encloses
<1>4. QED BY <1>2, <1>3

\* What the jumps out of a statement in s[m + 1] want.
LEMMA WantsOut ==
    ASSUME NEW s, NEW m \in Nat, NEW st, NEW c, Wants(st, s, m + 1, c)
    PROVE  /\ \A g \in st.lists["break"] :
                 IF s[m + 1].kind \in Breakable THEN c.gotos[g].want = <<"after", s[m + 1].id>>
                 ELSE \E i \in 1 .. m : Encloses(Breakable, s, m, i) /\ c.gotos[g].want = <<"after", s[i].id>>
           /\ \A g \in st.lists["continue"] :
                 IF s[m + 1].kind \in Loops THEN c.gotos[g].want = <<Onward(s[m + 1].kind), s[m + 1].id>>
                 ELSE \E i \in 1 .. m : Encloses(Loops, s, m, i) /\ c.gotos[g].want = <<Onward(s[i].kind), s[i].id>>
           /\ \A g \in st.lists["return"] : c.gotos[g].want = <<"end", 0>>
<1>1. ASSUME NEW g \in st.lists["break"]
      PROVE  IF s[m + 1].kind \in Breakable THEN c.gotos[g].want = <<"after", s[m + 1].id>>
             ELSE \E i \in 1 .. m : Encloses(Breakable, s, m, i) /\ c.gotos[g].want = <<"after", s[i].id>>
  <2>1. PICK i \in 1 .. m + 1 : Encloses(Breakable, s, m + 1, i) /\ c.gotos[g].want = <<"after", s[i].id>>
    BY <1>1 DEF Wants
  <2>2. IF s[m + 1].kind \in Breakable THEN i = m + 1 ELSE i \in 1 .. m /\ Encloses(Breakable, s, m, i)
    BY <2>1, EnclosesOut
  <2>3. QED BY <2>1, <2>2
<1>2. ASSUME NEW g \in st.lists["continue"]
      PROVE  IF s[m + 1].kind \in Loops THEN c.gotos[g].want = <<Onward(s[m + 1].kind), s[m + 1].id>>
             ELSE \E i \in 1 .. m : Encloses(Loops, s, m, i) /\ c.gotos[g].want = <<Onward(s[i].kind), s[i].id>>
  <2>1. PICK i \in 1 .. m + 1 : Encloses(Loops, s, m + 1, i) /\ c.gotos[g].want = <<Onward(s[i].kind), s[i].id>>
    BY <1>2 DEF Wants
  <2>2. IF s[m + 1].kind \in Loops THEN i = m + 1 ELSE i \in 1 .. m /\ Encloses(Loops, s, m, i)
    BY <2>1, EnclosesOut
  <2>3. QED BY <2>1, <2>2
<1>3. QED BY <1>1, <1>2 DEF Wants

LEMMA WantsOff ==
    ASSUME NEW s, NEW m \in Nat, NEW st, NEW c, Wants(st, s, m + 1, c), s[m + 1].kind \notin Breakable
    PROVE  Wants(st, s, m, c)
<1>1. s[m + 1].kind \notin Loops
  BY DEF Breakable
<1>2. /\ \A g \in st.lists["break"] :
            \E i \in 1 .. m : Encloses(Breakable, s, m, i) /\ c.gotos[g].want = <<"after", s[i].id>>
      /\ \A g \in st.lists["continue"] :
            \E i \in 1 .. m : Encloses(Loops, s, m, i) /\ c.gotos[g].want = <<Onward(s[i].kind), s[i].id>>
      /\ \A g \in st.lists["return"] : c.gotos[g].want = <<"end", 0>>
  BY <1>1, WantsOut
<1>3. QED BY <1>2 DEF Wants

LEMMA NextApart ==
    ASSUME NEW st, NEW s, NEW n, NEW c, Wants(st, s, n, c), NEW points, NEW e, Nexts(st, c, points, e), NEW g \in NextOf(st)
    PROVE  g \in st.lists["next"] /\ g \notin st.lists["break"] \cup st.lists["continue"] \cup st.lists["return"]
<1>1. g \in st.lists["next"] /\ g \notin st.lists["break"] /\ c.gotos[g].want[1] \in {"after", "else"}
  BY DEF NextOf, Nexts
<1>2. ASSUME g \in st.lists["continue"] PROVE FALSE
  <2>1. PICK i \in 1 .. n : c.gotos[g].want = <<Onward(s[i].kind), s[i].id>>
    BY <1>2 DEF Wants
  <2>2. c.gotos[g].want[1] \in {"step", "test"}
    BY <2>1 DEF Onward
  <2>3. QED BY <1>1, <2>2
<1>3. ASSUME g \in st.lists["return"] PROVE FALSE
  <2>1. c.gotos[g].want = <<"end", 0>>
    BY <1>3 DEF Wants
  <2>2. QED BY <1>1, <2>1
<1>4. QED BY <1>1, <1>2, <1>3

LEMMA HeldIs == ASSUME NEW f PROVE HeldBy(f) = f.true \cup f.false \cup {f.goto1, f.goto2} \cup ListsOf(f.st)
BY DEF HeldBy, ListsOf

\* The lists of what is held once are disjoint.
LEMMA TopApart ==
    ASSUME NEW m, Topped(m)
    PROVE  /\ HeldBy(Top) \cap (ListsOf(value.st) \cup Waiting(idGoto)) = {}
           /\ ListsOf(value.st) \cap Waiting(idGoto) = {}
<1>1. m \in Nat /\ m + 1 = Len(stack) /\ Top = stack[m + 1] /\ Apart(stack, value.st, idGoto)
  BY TopNow
<1>2. m + 1 \in 1 .. Len(stack)
  BY <1>1
<1>3. QED BY <1>1, <1>2 DEF Apart

\* The jumps to the next statement of a list go to where the statement ends,
\* once they are let go together.
LEMMA NextLands ==
    ASSUME NEW st, NEW c, NEW points, NEW e, Nexts(st, c, points, e), Patched(st, c, e),
           NEW U, NextOf(st) \subseteq U, NEW g \in NextOf(st)
    PROVE  Landed(c, U, points, g)
<1>1. /\ c.gotos[g].want \in DOMAIN points
      /\ \/ points[c.gotos[g].want] = e
         \/ \E h \in NextOf(st) : c.gotos[h].at = points[c.gotos[g].want] /\ ~c.gotos[h].cond
  BY DEF Nexts
<1>2. c.gotos[g].label \in LabelsOf(c) /\ c.labels[c.gotos[g].label] = e
  BY DEF Patched
<1>3. CASE points[c.gotos[g].want] = e
  BY <1>1, <1>2, <1>3 DEF Landed
<1>4. CASE \E h \in NextOf(st) : c.gotos[h].at = points[c.gotos[g].want] /\ ~c.gotos[h].cond
  <2>1. PICK h \in NextOf(st) : c.gotos[h].at = points[c.gotos[g].want] /\ ~c.gotos[h].cond
    BY <1>4
  <2>2. c.gotos[h].label \in LabelsOf(c) /\ c.labels[c.gotos[h].label] = e
    BY DEF Patched
  <2>3. Leads(c, h, points[c.gotos[g].want], c.labels[c.gotos[g].label])
    BY <1>2, <2>1, <2>2 DEF Leads
  <2>4. QED BY <1>1, <1>2, <2>3 DEF Landed
<1>5. QED BY <1>1, <1>3, <1>4

\* What AddToStatementList makes of the list's jumps.
LEMMA AddedLists ==
    ASSUME NEW m, Topped(m), NEW r, r = AddToStatementList
    PROVE  IF value.st.null THEN r = Top.st /\ ListsOf(value.st) = {}
           ELSE /\ \A l \in Lists : r.lists[l] = IF l = "next" THEN value.st.lists[l] ELSE Top.st.lists[l] \cup value.st.lists[l]
                /\ NextOf(r) = NextOf(value.st)
<1>1. StmtOK(value.st, ta_code) /\ StmtOK(Top.st, ta_code)
  BY TopNow DEF Framed
<1>2. CASE value.st.null
  BY <1>1, <1>2 DEF AddToStatementList, StmtOK, ListsOf, NoLists
<1>3. CASE ~value.st.null
  <2>1. PICK ls : ls = [l \in Lists |-> IF l = "next" THEN value.st.lists[l] ELSE Top.st.lists[l] \cup value.st.lists[l]]
    OBVIOUS
  <2>2. r = Stmt(ls)
    BY <1>3, <2>1 DEF AddToStatementList
  <2>3. r.lists = ls
    BY <2>2 DEF Stmt
  <2>4. \A l \in Lists : r.lists[l] = IF l = "next" THEN value.st.lists[l] ELSE Top.st.lists[l] \cup value.st.lists[l]
    BY <2>1, <2>3
  <2>5. r.lists["next"] = value.st.lists["next"] /\ r.lists["break"] = Top.st.lists["break"] \cup value.st.lists["break"]
    BY <2>4 DEF Lists
  <2>6. Top.st.lists["break"] \cap value.st.lists["next"] = {}
    <3>1. ListsOf(Top.st) \cap ListsOf(value.st) = {}
      BY TopApart, HeldIs
    <3>2. QED BY <3>1, ListsAre
  <2>7. NextOf(r) = NextOf(value.st)
    BY <2>5, <2>6 DEF NextOf
  <2>8. QED BY <1>3, <2>4, <2>7
<1>4. QED BY <1>2, <1>3

LEMMA NextInListLands == ASSUME IInv, LInv, NextInList PROVE LInv'
<1>0. CASE fault' # "none"
  BY <1>0, Faulty
<1>1. CASE fault' = "none"
  <2>1. value.ready /\ Top.kind = "block" /\ phase = "parse" /\ fault = "none"
    BY <1>1 DEF NextInList, Reducing, Blame
  <2>2. PICK m : Topped(m)
    BY <2>1, ToppedIs
  <2>3. /\ m \in Nat /\ m + 1 = Len(stack) /\ Top = stack[m + 1] /\ Coded(ta_code) /\ Framed(Top, ta_code)
        /\ FrameAt(Top, ta_code, place) /\ Wants(Top.st, stack, m, ta_code) /\ ListAt(Top, TRUE, ta_code, place)
        /\ Wants(value.st, stack, m + 1, ta_code) /\ Nexts(value.st, ta_code, place, ta_code.instrs)
        /\ StmtOK(value.st, ta_code)
    BY <2>1, <2>2, TopNow
  <2>4. Wants(value.st, stack, m, ta_code)
    BY <2>1, <2>3, WantsOff DEF Breakable, Loops
  <2>5. PICK e \in 0 .. ta_code.instrs : Nexts(Top.st, ta_code, place, e) /\ Patched(Top.st, ta_code, e)
    <3>1. ListAt(Top, TRUE, ta_code, place) /\ Top.kind = "block"
      BY <2>1, <2>3
    <3>2. \E e \in 0 .. ta_code.instrs : Nexts(Top.st, ta_code, place, e) /\ Patched(Top.st, ta_code, e)
      BY <3>1, Zenon DEF ListAt
    <3>3. QED BY <3>2, Zenon
  <2>6. PICK r, f : r = AddToStatementList /\ Listed(Top, r, f)
    <3>1. PICK r : r = AddToStatementList
      OBVIOUS
    <3>2. PICK f : Listed(Top, r, f)
      BY DEF Listed
    <3>3. QED BY <3>1, <3>2, Zenon
  <2>7. IF value.st.null THEN r = Top.st /\ ListsOf(value.st) = {}
        ELSE /\ \A l \in Lists : r.lists[l] = IF l = "next" THEN value.st.lists[l] ELSE Top.st.lists[l] \cup value.st.lists[l]
             /\ NextOf(r) = NextOf(value.st)
    BY <2>2, <2>6, AddedLists
  <2>8. StmtOK(r, ta_code)
    <3>1. Going
      BY <2>1, GoesOn DEF Topped
    <3>2. QED BY <2>1, <2>6, <3>1, AddedIs
  <2>9. /\ Framed(f, ta_code) /\ f.kind = "block" /\ f.id = Top.id /\ f.st = r /\ Ownless(f)
        /\ f.true = {} /\ f.false = {} /\ f.goto1 = 0 /\ f.goto2 = 0
    <3>1. Framed(f, ta_code) /\ f.kind = "block" /\ f.id = Top.id /\ f.st = r /\ Ownless(f)
      BY <2>1, <2>3, <2>6, <2>8, ListedFrame
    <3>2. QED BY <3>1 DEF Framed
  <2>10. Top.true = {} /\ Top.false = {} /\ Top.goto1 = 0 /\ Top.goto2 = 0
    BY <2>1, <2>3 DEF Framed
  <2>11. HeldBy(f) = {0} \cup ListsOf(r) /\ HeldBy(Top) = {0} \cup ListsOf(Top.st)
    BY <2>9, <2>10, HeldIs
  <2>12. FrameAt(f, ta_code, place)
    BY <2>1, <2>3, <2>9 DEF FrameAt
  <2>13. ListsOf(r) \subseteq ListsOf(Top.st) \cup ListsOf(value.st)
    BY <2>7, ListsAre DEF Lists
  <2>14. Nexts(r, ta_code, place, ta_code.instrs)
    <3>1. CASE value.st.null
      <4>1. \A g \in Top.st.lists["next"] : ta_code.labels[ta_code.gotos[g].label] = ta_code.instrs
        BY <1>1, <2>1, <3>1 DEF NextInList, Blame, CodeSince
      <4>2. \A g \in NextOf(Top.st) : ta_code.instrs = e
        BY <2>5, <4>1 DEF Patched, NextOf
      <4>3. Nexts(Top.st, ta_code, place, ta_code.instrs)
        BY <2>5, <4>2 DEF Nexts
      <4>4. QED BY <2>7, <3>1, <4>3
    <3>2. CASE ~value.st.null
      <4>1. r.lists["next"] = value.st.lists["next"] /\ NextOf(r) = NextOf(value.st)
        BY <2>7, <3>2 DEF Lists
      <4>2. QED BY <2>3, <4>1 DEF Nexts
    <3>3. QED BY <3>1, <3>2
  <2>15. Wants(r, stack, m, ta_code)
    <3>1. CASE value.st.null
      BY <2>3, <2>7, <3>1
    <3>2. CASE ~value.st.null
      <4>1. /\ r.lists["break"] = Top.st.lists["break"] \cup value.st.lists["break"]
            /\ r.lists["continue"] = Top.st.lists["continue"] \cup value.st.lists["continue"]
            /\ r.lists["return"] = Top.st.lists["return"] \cup value.st.lists["return"]
        BY <2>7, <3>2 DEF Lists
      <4>2. QED BY <2>3, <2>4, <4>1 DEF Wants
    <3>3. QED BY <3>1, <3>2
  <2>16. AllLanded(ta_code, Freed(ta_code, HeldBy(f) \cup Waiting(idGoto)), place)
    <3>1. PICK U : U = Freed(ta_code, HeldBy(f) \cup Waiting(idGoto))
      OBVIOUS
    <3>2. \A g : g \in U <=> g \in JumpsOf(ta_code) /\ g \in HeldBy(Top) \cup ListsOf(value.st) /\ g \notin HeldBy(f) \cup Waiting(idGoto)
      BY <3>1 DEF Freed, TopHeld
    <3>3. \A g \in U : g \in ListsOf(Top.st) \cup ListsOf(value.st) /\ g \notin ListsOf(r)
      BY <2>11, <3>2, JumpsPositive
    <3>4. CASE value.st.null
      BY <2>7, <3>1, <3>3, <3>4 DEF AllLanded
    <3>5. CASE ~value.st.null
      <4>1. /\ r.lists["next"] = value.st.lists["next"]
            /\ r.lists["break"] = Top.st.lists["break"] \cup value.st.lists["break"]
            /\ r.lists["continue"] = Top.st.lists["continue"] \cup value.st.lists["continue"]
            /\ r.lists["return"] = Top.st.lists["return"] \cup value.st.lists["return"]
        BY <2>7, <3>5 DEF Lists
      <4>2. \A g \in U : g \in NextOf(Top.st)
        BY <3>3, <4>1, ListsAre DEF NextOf
      <4>3. NextOf(Top.st) \subseteq U
        <5>1. ASSUME NEW g \in NextOf(Top.st) PROVE g \in U
          <6>1. g \in Top.st.lists["next"] /\ g \notin Top.st.lists["break"] \cup Top.st.lists["continue"] \cup Top.st.lists["return"]
            BY <2>3, <2>5, NextApart
          <6>2. g \in ListsOf(Top.st) /\ g \in JumpsOf(ta_code)
            BY <2>3, <6>1 DEF ListsOf, Lists, Framed, StmtOK
          <6>3. g \in HeldBy(Top) /\ g \notin ListsOf(value.st) \cup Waiting(idGoto)
            BY <2>2, <2>11, <6>2, TopApart
          <6>4. g \notin ListsOf(r) /\ g # 0
            BY <4>1, <6>1, <6>2, <6>3, ListsAre, JumpsPositive
          <6>5. QED BY <2>11, <3>2, <6>2, <6>3, <6>4
        <5>2. QED BY <5>1
      <4>4. \A g \in U : Landed(ta_code, U, place, g)
        BY <2>5, <4>2, <4>3, NextLands
      <4>5. QED BY <3>1, <4>4 DEF AllLanded
    <3>6. QED BY <3>4, <3>5
  <2>17. PICK q, add, none : q = place /\ add = <<>> /\ none = {}
    OBVIOUS
  <2>18. Joins(place, add, Top.id, q)
    <3>1. DOMAIN add = {}
      BY <2>17
    <3>2. QED BY <2>17, <3>1, ExtendsSelf DEF Joins, Extends, About
  <2>19. /\ ta_code' = ta_code /\ stack' = Append(Below, f) /\ value' = [ready |-> FALSE, st |-> Null]
         /\ UNCHANGED <<idLabel, idGoto, lblSwitch, statements>> /\ place' = q
    BY <2>6, <2>17 DEF NextInList, Listed, globals
  <2>20. Onto(ta_code, ta_code, {}) /\ HeldBy(f) \subseteq JumpsOf(ta_code) \cup {0}
    BY <2>3, <2>9, OntoSelf, FrameHolds
  <2>21. HeldBy(f) \cap JumpsOf(ta_code) \subseteq HeldBy(Top) \cup ListsOf(value.st)
    BY <2>11, <2>13
  <2>22. ListAt(f, FALSE, ta_code, q) /\ Wants(f.st, stack, m, ta_code) /\ FrameAt(f, ta_code, q)
    BY <2>9, <2>12, <2>14, <2>15, <2>17 DEF ListAt
  <2>23. AllLanded(ta_code, Freed(ta_code, HeldBy(f) \cup Waiting(idGoto)), q)
    BY <2>16, <2>17
  <2>24. Top.kind # "switch" /\ f.kind \notin {"case", "default"}
    BY <2>1, <2>9
  <2>25. QED BY <2>2, <2>3, <2>9, <2>18, <2>19, <2>20, <2>21, <2>22, <2>23, <2>24, RetopLands
<1>2. QED BY <1>0, <1>1

LEMMA CloseBlockLands == ASSUME IInv, LInv, CloseBlock PROVE LInv'
<1>0. CASE fault' # "none"
  BY <1>0, Faulty
<1>1. CASE fault' = "none"
  <2>1. ~value.ready /\ Top.kind = "block" /\ phase = "parse" /\ fault = "none" /\ value.st = Null
    BY <1>1 DEF CloseBlock, IInv, Parsing
  <2>2. PICK m : Topped(m)
    BY <2>1, ToppedIs
  <2>3. /\ m \in Nat /\ m + 1 = Len(stack) /\ Top = stack[m + 1] /\ Coded(ta_code) /\ Framed(Top, ta_code)
        /\ Wants(Top.st, stack, m, ta_code) /\ ListAt(Top, FALSE, ta_code, place)
        /\ Waiting(idGoto) \subseteq JumpsOf(ta_code)
    BY <2>1, <2>2, TopNow
  <2>4. PICK c, st, add, q : c = ta_code /\ st = Top.st /\ add = <<>> /\ q = place'
    OBVIOUS
  <2>5. Reduce(c, st, add) /\ UNCHANGED globals
    BY <2>4 DEF CloseBlock
  <2>6. EndPoints(add)
    BY <2>4 DEF EndPoints
  <2>7. Extends(place, q)
    BY <2>2, <2>4, <2>5, <2>6, EndJoins
  <2>8. Nexts(Top.st, ta_code, place, ta_code.instrs) /\ StmtOK(Top.st, ta_code)
    BY <2>1, <2>3 DEF ListAt, Framed
  <2>9. Onto(ta_code, c, {}) /\ Coded(c)
    BY <2>3, <2>4, OntoSelf
  <2>10. Nexts(st, c, q, c.instrs)
    <3>1. Nexts(Top.st, c, q, ta_code.instrs)
      BY <2>7, <2>8, <2>9, NextsStay
    <3>2. QED BY <2>4, <3>1
  <2>11. NamesAt(c, idLabel, idGoto, q)
    BY <2>2, <2>7, <2>9, NamesNow
  <2>12. CasesAt(Below, c, lblSwitch, q)
    <3>1. Len(Below) = m /\ \A i \in 1 .. m : Below[i] = stack[i]
      BY <2>2, BelowIs
    <3>2. Top.kind # "switch"
      BY <2>1
    <3>3. QED BY <2>2, <2>7, <2>9, <3>1, <3>2, CasesNow
  <2>13. HeldBy(Top) = {0} \cup ListsOf(st)
    <3>1. Top.true = {} /\ Top.false = {} /\ Top.goto1 = 0 /\ Top.goto2 = 0
      BY <2>1, <2>3 DEF Framed
    <3>2. QED BY <2>4, <3>1, HeldIs
  <2>14. TopHeld = {0} \cup ListsOf(st) \cup Waiting(idGoto)
    BY <2>1, <2>13, NoListsOf DEF TopHeld
  <2>15. ListsOf(st) \cup Waiting(idGoto) \subseteq JumpsOf(c) /\ ListsOf(st) \cap Waiting(idGoto) = {}
    <3>1. ListsOf(st) \subseteq JumpsOf(c)
      BY <2>4, <2>8 DEF ListsOf, StmtOK
    <3>2. QED BY <2>2, <2>3, <2>4, <2>13, <3>1, TopApart
  <2>16. AllLanded(c, Freed(c, ListsOf(st) \cup Waiting(idGoto)), q)
    <3>1. PICK U : U = Freed(c, ListsOf(st) \cup Waiting(idGoto))
      OBVIOUS
    <3>2. U = {}
      BY <2>4, <2>14, <3>1, JumpsPositive DEF Freed
    <3>3. QED BY <3>1, <3>2 DEF AllLanded
  <2>17. Wants(st, stack, m, c)
    BY <2>3, <2>4
  <2>18. {} \cap JumpsOf(ta_code) \subseteq TopHeld /\ (ListsOf(st) \cup Waiting(idGoto)) \cap JumpsOf(ta_code) \subseteq TopHeld
    BY <2>14
  <2>19. idLabel' = idLabel /\ idGoto' = idGoto /\ lblSwitch' = lblSwitch /\ place' = q
    BY <2>4, <2>5 DEF globals
  <2>20. QED BY <2>2, <2>5, <2>6, <2>9, <2>10, <2>11, <2>12, <2>15, <2>16, <2>17, <2>18, <2>19, ReduceLands
<1>2. QED BY <1>0, <1>1

LEMMA ElseLands == ASSUME IInv, LInv, Else PROVE LInv'
<1>0. CASE fault' # "none"
  BY <1>0, Faulty
<1>1. CASE fault' = "none"
  <2>1. value.ready /\ Top.kind = "if" /\ phase = "parse" /\ fault = "none"
    BY <1>1 DEF Else, Reducing
  <2>2. PICK m : Topped(m)
    BY <2>1, ToppedIs
  <2>3. /\ m \in Nat /\ m + 1 = Len(stack) /\ Top = stack[m + 1] /\ Coded(ta_code) /\ Framed(Top, ta_code)
        /\ FrameAt(Top, ta_code, place) /\ StmtOK(value.st, ta_code)
        /\ Wants(value.st, stack, m + 1, ta_code) /\ Nexts(value.st, ta_code, place, ta_code.instrs)
    BY <2>2, TopNow
  <2>4. PICK top, id, st, T, F : top = Top /\ id = Top.id /\ st = value.st /\ T = Top.true /\ F = Top.false
    OBVIOUS
  <2>5. id \in Nat
    BY <2>3, <2>4 DEF Framed, FrameType
  <2>6. PICK w \in Roles \X Nat : w = <<"after", id>>
    BY <2>5 DEF Roles
  <2>7. PICK j, g : j = NewGoto(ta_code, w) /\ g = LastGoto(j)
    OBVIOUS
  <2>8. /\ Onto(ta_code, j, {}) /\ Coded(j) /\ JumpsOf(j) = JumpsOf(ta_code) \cup {g} /\ g \notin JumpsOf(ta_code)
        /\ g # 0 /\ j.gotos[g].want = w /\ j.gotos[g].at = ta_code.instrs /\ ~j.gotos[g].cond
    BY <2>3, <2>7, GotoOnto
  <2>9. PICK c, l : c = NewLabel(j) /\ l = LastLabel(c)
    OBVIOUS
  <2>10. /\ Onto(j, c, {}) /\ JumpsOf(c) = JumpsOf(j) /\ c.gotos = j.gotos /\ Coded(c)
         /\ l \in LabelsOf(c) /\ c.labels[l] = c.instrs
    BY <2>8, <2>9, LabelOnto
  <2>11. Onto(ta_code, c, {})
    BY <2>8, <2>10, OntoOn
  <2>12. PICK f : Elsed(top, st, g, l, f)
    BY DEF Elsed
  <2>13. /\ f.kind = "else" /\ f.id = id /\ f.st = st /\ Ownless(f)
         /\ f.true = T /\ f.false = F /\ f.l1 = Top.l1 /\ f.l2 = l /\ f.goto1 = g /\ f.goto2 = 0
    <3>1. Framed(top, c) /\ StmtOK(st, c) /\ top.kind = "if"
      BY <2>1, <2>3, <2>4, <2>11, FramedGrows, StmtGrows DEF Onto
    <3>2. g \in JumpsOf(c)
      BY <2>8, <2>10
    <3>3. Framed(f, c) /\ f.kind = "else" /\ f.id = top.id /\ f.st = st /\ Ownless(f)
      BY <2>10, <2>12, <3>1, <3>2, ElsedFrame
    <3>4. top \in FrameType /\ Top.goto2 = 0
      BY <3>1, <2>3 DEF Framed
    <3>5. f.true = top.true /\ f.false = top.false /\ f.l1 = top.l1 /\ f.l2 = l /\ f.goto1 = g /\ f.goto2 = top.goto2
      BY <2>12, <3>4 DEF Elsed, FrameType
    <3>6. QED BY <2>4, <3>3, <3>4, <3>5
  <2>14. PICK p, x, add, q : p = <<"else", id>> /\ x = c.instrs /\ add = (p :> x) /\ q = place @@ add
    OBVIOUS
  <2>15. /\ p \notin DOMAIN place /\ <<"after", id>> \notin DOMAIN place /\ Marks(ta_code, Top.l1, place, <<"body", id>>)
         /\ (\A h \in T : ta_code.gotos[h].want = <<"body", id>>)
         /\ (\A h \in F : ta_code.gotos[h].want = <<"else", id>>)
    BY <2>1, <2>3, <2>4, <2>14 DEF FrameAt, Loops
  <2>16. DOMAIN add = {p} /\ add[p] = x
    <3>1. add = (p :> x)
      BY <2>14
    <3>2. QED BY <3>1, Single
  <2>17. Joins(place, add, id, q)
    <3>1. \A r \in DOMAIN add : r \notin DOMAIN place /\ (r[1] = "label" \/ (r[2] = id /\ r[1] # "end"))
      BY <2>14, <2>15, <2>16
    <3>2. QED BY <2>14, <3>1, Joining
  <2>18. Extends(place, q) /\ p \in DOMAIN q /\ q[p] = x /\ <<"after", id>> \notin DOMAIN q
    <3>1. <<"after", id>> # p
      BY <2>14
    <3>2. QED BY <2>15, <2>16, <2>17, <3>1 DEF Joins, Extends
  <2>19. T \subseteq JumpsOf(ta_code) /\ F \subseteq JumpsOf(ta_code) /\ ListsOf(st) \subseteq JumpsOf(ta_code)
    BY <2>3, <2>4 DEF Framed, StmtOK, ListsOf
  <2>20. HeldBy(f) = T \cup F \cup {g, 0} \cup ListsOf(st) /\ HeldBy(Top) = T \cup F \cup {0}
    <3>1. Top.goto1 = 0 /\ Top.goto2 = 0 /\ ListsOf(Top.st) = {}
      BY <2>1, <2>3, NoListsOf DEF Framed
    <3>2. QED BY <2>4, <2>13, <3>1, HeldIs
  <2>21. FrameAt(f, c, q)
    <3>1. Marks(c, f.l1, q, <<"body", id>>)
      BY <2>11, <2>13, <2>15, <2>18, MarksStay
    <3>2. Marks(c, f.l2, q, <<"else", id>>)
      BY <2>10, <2>13, <2>14, <2>18 DEF Marks
    <3>3. c.gotos[g].want = <<"after", id>> /\ ~c.gotos[g].cond /\ g \notin ListsOf(st)
      BY <2>6, <2>8, <2>10, <2>19
    <3>4. Wanting(c, T, <<"body", id>>) /\ Wanting(c, F, <<"else", id>>)
      <4>1. Wanting(ta_code, T, <<"body", id>>) /\ Wanting(ta_code, F, <<"else", id>>)
        BY <2>15 DEF Wanting
      <4>2. T \in SUBSET JumpsOf(ta_code) /\ F \in SUBSET JumpsOf(ta_code)
        BY <2>19
      <4>3. QED BY <2>11, <4>1, <4>2, WantingOn
    <3>5. QED BY <2>13, <2>18, <3>1, <3>2, <3>3, <3>4 DEF FrameAt, Loops, Wanting
  <2>22. ListAt(f, FALSE, c, q)
    <3>1. Nexts(st, c, q, ta_code.instrs)
      BY <2>3, <2>4, <2>11, <2>18, NextsStay
    <3>2. c.gotos[g].at = ta_code.instrs
      BY <2>8, <2>10
    <3>3. QED BY <2>13, <3>1, <3>2 DEF ListAt
  <2>23. Wants(f.st, stack, m, c)
    <3>1. Wants(st, stack, m, ta_code)
      BY <2>1, <2>3, <2>4, WantsOff DEF Breakable, Loops
    <3>2. QED BY <2>3, <2>4, <2>11, <2>13, <3>1, WantsStay
  <2>24. HeldBy(f) \subseteq JumpsOf(c) \cup {0} /\ HeldBy(f) \cap JumpsOf(ta_code) \subseteq HeldBy(Top) \cup ListsOf(value.st)
    BY <2>4, <2>8, <2>10, <2>19, <2>20
  <2>25. AllLanded(c, Freed(c, HeldBy(f) \cup Waiting(idGoto)), q)
    <3>1. \A h \in Freed(c, HeldBy(f) \cup Waiting(idGoto)) : FALSE
      BY <2>4, <2>8, <2>10, <2>20 DEF Freed, TopHeld
    <3>2. QED BY <3>1 DEF AllLanded
  <2>26. /\ ta_code' = c /\ stack' = Append(Below, f) /\ value' = [ready |-> FALSE, st |-> Null]
         /\ UNCHANGED <<idLabel, idGoto, lblSwitch, statements>> /\ place' = q
    BY <2>4, <2>6, <2>7, <2>9, <2>12, <2>14 DEF Else, Elsed, globals
  <2>27. Top.kind # "switch" /\ f.kind \notin {"case", "default"} /\ f.id = Top.id /\ Joins(place, add, Top.id, q)
    BY <2>1, <2>4, <2>13, <2>17
  <2>28. QED BY <2>2, <2>10, <2>11, <2>13, <2>21, <2>22, <2>23, <2>24, <2>25, <2>26, <2>27, RetopLands
<1>2. QED BY <1>0, <1>1

\* What a statement in the one on top leaves, when the jumps of ps are patched.
LEMMA NextFrom ==
    ASSUME NEW st, NEW c, NEW points, NEW e, Nexts(st, c, points, e), StmtOK(st, c), NEW d, NEW ps, Onto(c, d, ps),
           NEW q, Extends(points, q), NEW more \in SUBSET JumpsOf(d),
           \A g \in more : d.gotos[g].want \in DOMAIN q /\ q[d.gotos[g].want] = e /\ d.gotos[g].want[1] \in {"after", "else"},
           NEW r, r.lists["next"] = st.lists["next"] \cup more, NextOf(st) \subseteq NextOf(r),
           NextOf(r) \subseteq NextOf(st) \cup more
    PROVE  Nexts(r, d, q, e)
<1>1. Nexts(st, d, q, e)
  BY NextsStay
<1>2. \A g \in r.lists["next"] : d.gotos[g].want[1] \in {"after", "else"}
  BY <1>1 DEF Nexts
<1>3. ASSUME NEW g \in NextOf(r)
      PROVE  /\ d.gotos[g].want \in DOMAIN q
             /\ \/ q[d.gotos[g].want] = e
                \/ \E h \in NextOf(r) : d.gotos[h].at = q[d.gotos[g].want] /\ ~d.gotos[h].cond
  <2>1. CASE g \in more
    BY <2>1
  <2>2. CASE g \in NextOf(st)
    BY <1>1, <2>2 DEF Nexts
  <2>3. QED BY <2>1, <2>2
<1>4. QED BY <1>2, <1>3 DEF Nexts

LEMMA ReduceIfLands == ASSUME IInv, LInv, ReduceIf PROVE LInv'
<1>0. CASE fault' # "none"
  BY <1>0, Faulty
<1>1. CASE fault' = "none"
  <2>1. value.ready /\ Top.kind = "if" /\ phase = "parse" /\ fault = "none"
    BY <1>1 DEF ReduceIf, Reducing
  <2>2. PICK m : Topped(m)
    BY <2>1, ToppedIs
  <2>3. /\ m \in Nat /\ m + 1 = Len(stack) /\ Top = stack[m + 1] /\ Coded(ta_code) /\ Framed(Top, ta_code)
        /\ FrameAt(Top, ta_code, place) /\ StmtOK(value.st, ta_code) /\ Waiting(idGoto) \subseteq JumpsOf(ta_code)
        /\ Wants(value.st, stack, m + 1, ta_code) /\ Nexts(value.st, ta_code, place, ta_code.instrs)
    BY <2>2, TopNow
  <2>4. PICK id, st, T, F, l : id = Top.id /\ st = value.st /\ T = Top.true /\ F = Top.false /\ l = Top.l1
    OBVIOUS
  <2>5. T \subseteq JumpsOf(ta_code) /\ F \subseteq JumpsOf(ta_code) /\ ListsOf(st) \subseteq JumpsOf(ta_code)
    BY <2>3, <2>4 DEF Framed, StmtOK, ListsOf
  <2>6. /\ <<"else", id>> \notin DOMAIN place /\ Marks(ta_code, l, place, <<"body", id>>)
        /\ (\A h \in T : ta_code.gotos[h].want = <<"body", id>>)
        /\ (\A h \in F : ta_code.gotos[h].want = <<"else", id>>)
    BY <2>1, <2>3, <2>4 DEF FrameAt, Loops
  <2>7. PICK c : c = Backpatch(ta_code, T, l)
    OBVIOUS
  <2>8. /\ Onto(ta_code, c, T) /\ Coded(c) /\ JumpsOf(c) = JumpsOf(ta_code) /\ c.instrs = ta_code.instrs
        /\ (\A g \in T : c.gotos[g].label = l)
    <3>1. l \in LabelsOf(ta_code)
      BY <2>6 DEF Marks
    <3>2. QED BY <2>3, <2>5, <2>7, <3>1, PatchOnto
  <2>9. PICK a, b, ls : a = st.lists /\ NextOnly(b, F) /\ Merged(ls, a, b)
    BY DEF NextOnly, Merged
  <2>10. ls \in [Lists -> SUBSET JumpsOf(c)] /\ \A k \in Lists : ls[k] = a[k] \cup IF k = "next" THEN F ELSE {}
    <3>1. a \in [Lists -> SUBSET JumpsOf(c)] /\ F \in SUBSET JumpsOf(c)
      BY <2>3, <2>4, <2>5, <2>8, <2>9, ListsIn
    <3>2. b \in [Lists -> SUBSET JumpsOf(c)] /\ \A k \in Lists : b[k] = IF k = "next" THEN F ELSE {}
      BY <2>9, <3>1, NextOnlyIs
    <3>3. QED BY <2>9, <3>1, <3>2, MergedIs
  <2>11. PICK r : r = Stmt(ls)
    OBVIOUS
  <2>12. /\ StmtOK(r, c) /\ r.lists["next"] = st.lists["next"] \cup F /\ r.lists["break"] = st.lists["break"]
         /\ r.lists["continue"] = st.lists["continue"] /\ r.lists["return"] = st.lists["return"]
    BY <2>9, <2>10, <2>11, StmtIs DEF Lists
  <2>13. ListsOf(r) = ListsOf(st) \cup F
    BY <2>12, ListsAre
  <2>14. PICK p, x, add, q : p = <<"else", id>> /\ x = c.instrs /\ add = (p :> x) /\ q = place'
    OBVIOUS
  <2>15. DOMAIN add = {p} /\ add[p] = x
    <3>1. add = (p :> x)
      BY <2>14
    <3>2. QED BY <3>1, Single
  <2>16. EndPoints(add)
    BY <2>4, <2>6, <2>14, <2>15 DEF EndPoints
  <2>17. Reduce(c, r, add) /\ UNCHANGED <<idLabel, idGoto, lblSwitch>>
    BY <2>4, <2>7, <2>9, <2>11, <2>14 DEF ReduceIf, IfLists, NextOnly, Merged
  <2>18. Extends(place, q) /\ Extends(add, q)
    BY <2>2, <2>14, <2>16, <2>17, EndJoins
  <2>19. p \in DOMAIN q /\ q[p] = ta_code.instrs
    BY <2>8, <2>14, <2>15, <2>18 DEF Extends
  <2>20. HeldBy(Top) = T \cup F \cup {0}
    <3>1. Top.goto1 = 0 /\ Top.goto2 = 0 /\ ListsOf(Top.st) = {}
      BY <2>1, <2>3, NoListsOf DEF Framed
    <3>2. QED BY <2>4, <3>1, HeldIs
  <2>21. F \cap ListsOf(st) = {} /\ F \cap Waiting(idGoto) = {} /\ ListsOf(st) \cap Waiting(idGoto) = {}
         /\ T \cap ListsOf(st) = {}
    BY <2>2, <2>4, <2>20, TopApart
  <2>22. Nexts(r, c, q, c.instrs)
    <3>1. ListsOf(st) = st.lists["next"] \cup st.lists["break"] \cup st.lists["continue"] \cup st.lists["return"]
      BY ListsAre
    <3>2. NextOf(r) = NextOf(st) \cup F
      BY <2>12, <2>21, <3>1 DEF NextOf
    <3>3. Wanting(c, F, p)
      <4>1. Wanting(ta_code, F, p) /\ F \in SUBSET JumpsOf(ta_code)
        BY <2>5, <2>6, <2>14 DEF Wanting
      <4>2. QED BY <2>8, <4>1, WantingOn
    <3>4. \A g \in F : c.gotos[g].want \in DOMAIN q /\ q[c.gotos[g].want] = ta_code.instrs /\ c.gotos[g].want[1] \in {"after", "else"}
      BY <2>14, <2>19, <3>3 DEF Wanting
    <3>5. F \in SUBSET JumpsOf(c)
      BY <2>5, <2>8
    <3>6. Nexts(r, c, q, ta_code.instrs)
      BY <2>3, <2>4, <2>8, <2>12, <2>18, <3>2, <3>4, <3>5, NextFrom
    <3>7. QED BY <2>8, <3>6
  <2>23. Wants(r, stack, m, c)
    <3>1. Wants(st, stack, m, ta_code)
      BY <2>1, <2>3, <2>4, WantsOff DEF Breakable, Loops
    <3>2. Wants(st, stack, m, c)
      BY <2>3, <2>4, <2>8, <3>1, WantsStay
    <3>3. QED BY <2>12, <3>2 DEF Wants
  <2>24. NamesAt(c, idLabel, idGoto, q)
    BY <2>2, <2>8, <2>18, NamesNow
  <2>25. CasesAt(Below, c, lblSwitch, q)
    <3>1. Len(Below) = m /\ \A i \in 1 .. m : Below[i] = stack[i]
      BY <2>2, BelowIs
    <3>2. Top.kind # "switch"
      BY <2>1
    <3>3. QED BY <2>2, <2>8, <2>18, <3>1, <3>2, CasesNow
  <2>26. AllLanded(c, Freed(c, ListsOf(r) \cup Waiting(idGoto)), q)
    <3>1. \A g \in Freed(c, ListsOf(r) \cup Waiting(idGoto)) : g \in T
      BY <2>4, <2>8, <2>13, <2>20, JumpsPositive DEF Freed, TopHeld
    <3>2. Marks(c, l, q, <<"body", id>>)
      BY <2>6, <2>8, <2>18, MarksStay
    <3>3. \A g \in T : c.gotos[g].want = <<"body", id>>
      BY <2>5, <2>6, <2>8 DEF Onto, Grows
    <3>4. QED BY <2>8, <3>1, <3>2, <3>3 DEF AllLanded, Landed, Marks
  <2>27. /\ ListsOf(r) \cup Waiting(idGoto) \subseteq JumpsOf(c)
         /\ (ListsOf(r) \cup Waiting(idGoto)) \cap JumpsOf(ta_code) \subseteq TopHeld
         /\ ListsOf(r) \cap Waiting(idGoto) = {} /\ T \cap JumpsOf(ta_code) \subseteq TopHeld
    BY <2>3, <2>4, <2>5, <2>8, <2>13, <2>20, <2>21 DEF TopHeld
  <2>28. idLabel' = idLabel /\ idGoto' = idGoto /\ lblSwitch' = lblSwitch /\ place' = q
    BY <2>14, <2>17
  <2>29. QED BY <2>2, <2>8, <2>16, <2>17, <2>22, <2>23, <2>24, <2>25, <2>26, <2>27, <2>28, ReduceLands
<1>2. QED BY <1>0, <1>1

LEMMA ReduceIfElseLands == ASSUME IInv, LInv, ReduceIfElse PROVE LInv'
<1>0. CASE fault' # "none"
  BY <1>0, Faulty
<1>1. CASE fault' = "none"
  <2>1. value.ready /\ Top.kind = "else" /\ phase = "parse" /\ fault = "none"
    BY <1>1 DEF ReduceIfElse, Reducing, Blame
  <2>2. PICK m : Topped(m)
    BY <2>1, ToppedIs
  <2>3. /\ m \in Nat /\ m + 1 = Len(stack) /\ Top = stack[m + 1] /\ Coded(ta_code) /\ Framed(Top, ta_code)
        /\ FrameAt(Top, ta_code, place) /\ StmtOK(value.st, ta_code) /\ Waiting(idGoto) \subseteq JumpsOf(ta_code)
        /\ Wants(value.st, stack, m + 1, ta_code) /\ Nexts(value.st, ta_code, place, ta_code.instrs)
        /\ Wants(Top.st, stack, m, ta_code) /\ ListAt(Top, TRUE, ta_code, place)
    BY <2>1, <2>2, TopNow
  <2>4. PICK id, s1, s2, T, F, l1, l2, g : /\ id = Top.id /\ s1 = Top.st /\ s2 = value.st
                                           /\ T = Top.true /\ F = Top.false /\ l1 = Top.l1 /\ l2 = Top.l2
                                           /\ g = Top.goto1
    OBVIOUS
  <2>5. /\ T \subseteq JumpsOf(ta_code) /\ F \subseteq JumpsOf(ta_code) /\ StmtOK(s1, ta_code) /\ StmtOK(s2, ta_code)
        /\ ListsOf(s1) \subseteq JumpsOf(ta_code) /\ ListsOf(s2) \subseteq JumpsOf(ta_code) /\ g \in JumpsOf(ta_code)
    BY <2>1, <2>3, <2>4 DEF Framed, StmtOK, ListsOf
  <2>6. /\ Marks(ta_code, l1, place, <<"body", id>>) /\ Marks(ta_code, l2, place, <<"else", id>>)
        /\ Wanting(ta_code, T, <<"body", id>>) /\ Wanting(ta_code, F, <<"else", id>>)
        /\ ta_code.gotos[g].want = <<"after", id>> /\ ~ta_code.gotos[g].cond /\ g \notin ListsOf(s1)
    BY <2>1, <2>3, <2>4 DEF FrameAt, Loops, Wanting
  <2>7. T \cap F = {}
    BY <2>6 DEF Wanting
  <2>8. PICK d : d = Backpatch(ta_code, T, l1)
    OBVIOUS
  <2>9. /\ Onto(ta_code, d, T) /\ Coded(d) /\ JumpsOf(d) = JumpsOf(ta_code) /\ d.instrs = ta_code.instrs
        /\ LabelsOf(d) = LabelsOf(ta_code) /\ (\A h \in T : d.gotos[h].label = l1)
    <3>1. l1 \in LabelsOf(ta_code)
      BY <2>6 DEF Marks
    <3>2. QED BY <2>3, <2>5, <2>8, <3>1, PatchOnto
  <2>10. PICK c : c = Backpatch(d, F, l2)
    OBVIOUS
  <2>11. /\ Onto(d, c, F) /\ Coded(c) /\ JumpsOf(c) = JumpsOf(ta_code) /\ c.instrs = ta_code.instrs
         /\ (\A h \in F : c.gotos[h].label = l2) /\ (\A h \in T : c.gotos[h].label = l1)
    <3>1. l2 \in LabelsOf(d)
      BY <2>6, <2>9 DEF Marks
    <3>2. QED BY <2>5, <2>7, <2>9, <2>10, <3>1, PatchOnto
  <2>12. Onto(ta_code, c, T \cup F)
    BY <2>9, <2>11, OntoOn
  <2>13. PICK open : open = {g} \cup IF s2.null THEN F ELSE {}
    OBVIOUS
  <2>14. PICK a, b, both, n, ls : a = s1.lists /\ b = s2.lists /\ Merged(both, a, b) /\ NextOnly(n, open) /\ Merged(ls, both, n)
    BY DEF NextOnly, Merged
  <2>15. /\ ls \in [Lists -> SUBSET JumpsOf(c)]
         /\ \A k \in Lists : ls[k] = a[k] \cup b[k] \cup IF k = "next" THEN open ELSE {}
    <3>1. a \in [Lists -> SUBSET JumpsOf(c)] /\ b \in [Lists -> SUBSET JumpsOf(c)]
      BY <2>5, <2>11, <2>14, ListsIn
    <3>2. both \in [Lists -> SUBSET JumpsOf(c)] /\ \A k \in Lists : both[k] = a[k] \cup b[k]
      BY <2>14, <3>1, MergedIs
    <3>3. open \in SUBSET JumpsOf(c)
      BY <2>5, <2>11, <2>13
    <3>4. n \in [Lists -> SUBSET JumpsOf(c)] /\ \A k \in Lists : n[k] = IF k = "next" THEN open ELSE {}
      BY <2>14, <3>3, NextOnlyIs
    <3>5. QED BY <2>14, <3>2, <3>4, MergedIs
  <2>16. PICK r, none : r = Stmt(ls) /\ none = <<>>
    OBVIOUS
  <2>17. /\ r.lists["next"] = s1.lists["next"] \cup s2.lists["next"] \cup open
         /\ r.lists["break"] = s1.lists["break"] \cup s2.lists["break"]
         /\ r.lists["continue"] = s1.lists["continue"] \cup s2.lists["continue"]
         /\ r.lists["return"] = s1.lists["return"] \cup s2.lists["return"]
    BY <2>14, <2>15, <2>16, StmtIs DEF Lists
  <2>18. ListsOf(r) = ListsOf(s1) \cup ListsOf(s2) \cup open
    BY <2>17, ListsAre
  <2>19. PICK q : q = place'
    OBVIOUS
  <2>20. EndPoints(none)
    BY <2>16 DEF EndPoints
  <2>21. Reduce(c, r, none) /\ UNCHANGED <<idLabel, idGoto, lblSwitch>>
    BY <2>4, <2>8, <2>10, <2>13, <2>14, <2>16 DEF ReduceIfElse, NextOnly, Merged
  <2>22. Extends(place, q) /\ <<"after", id>> \in DOMAIN q /\ q[<<"after", id>>] = c.instrs
    BY <2>2, <2>4, <2>19, <2>20, <2>21, EndJoins
  <2>23. HeldBy(Top) = T \cup F \cup {g, 0} \cup ListsOf(s1)
    <3>1. Top.goto2 = 0
      BY <2>3 DEF Framed
    <3>2. QED BY <2>4, <3>1, HeldIs
  <2>24. /\ (F \cup ListsOf(s1) \cup {g}) \cap ListsOf(s2) = {} /\ (F \cup ListsOf(s1) \cup {g}) \cap Waiting(idGoto) = {}
         /\ ListsOf(s2) \cap Waiting(idGoto) = {}
    BY <2>2, <2>4, <2>23, TopApart
  <2>25. F \cap s1.lists["break"] = {}
    <3>1. \A h \in s1.lists["break"] : ta_code.gotos[h].want[1] = "after"
      BY <2>3, <2>4 DEF Wants
    <3>2. \A h \in F : ta_code.gotos[h].want[1] = "else"
      BY <2>6 DEF Wanting
    <3>3. QED BY <3>1, <3>2
  <2>26. NextOf(s1) \subseteq NextOf(r) /\ NextOf(s2) \subseteq NextOf(r) /\ g \in NextOf(r) /\ NextOf(r) \subseteq NextOf(s1) \cup NextOf(s2) \cup open
    <3>1. /\ ListsOf(s1) = s1.lists["next"] \cup s1.lists["break"] \cup s1.lists["continue"] \cup s1.lists["return"]
          /\ ListsOf(s2) = s2.lists["next"] \cup s2.lists["break"] \cup s2.lists["continue"] \cup s2.lists["return"]
      BY ListsAre
    <3>2. g \notin s1.lists["break"] \cup s2.lists["break"]
      BY <2>6, <2>24, <3>1
    <3>3. QED BY <2>13, <2>17, <2>24, <2>25, <3>1, <3>2 DEF NextOf
  <2>27. /\ (\A h \in F : c.gotos[h].want = <<"else", id>>) /\ (\A h \in T : c.gotos[h].want = <<"body", id>>)
         /\ c.gotos[g].want = <<"after", id>> /\ ~c.gotos[g].cond /\ c.gotos[g].at = ta_code.gotos[g].at
    BY <2>5, <2>6, <2>12 DEF Onto, Grows, Wanting
  <2>28. Marks(c, l1, q, <<"body", id>>) /\ Marks(c, l2, q, <<"else", id>>)
    BY <2>6, <2>12, <2>22, MarksStay
  <2>29. s2.null => q[<<"else", id>>] = c.instrs
    <3>1. s2.null => ta_code.labels[l2] = ta_code.instrs
      BY <1>1, <2>1, <2>4 DEF ReduceIfElse, Blame, CodeSince
    <3>2. c.labels[l2] = ta_code.labels[l2]
      BY <2>6, <2>12 DEF Onto, Marks
    <3>3. QED BY <2>11, <2>28, <3>1, <3>2 DEF Marks
  <2>30. Nexts(r, c, q, c.instrs)
    <3>1. Nexts(s1, c, q, ta_code.gotos[g].at)
      <4>1. Nexts(s1, ta_code, place, ta_code.gotos[g].at)
        BY <2>1, <2>3, <2>4 DEF ListAt
      <4>2. QED BY <2>5, <2>12, <2>22, <4>1, NextsStay
    <3>2. Nexts(s2, c, q, c.instrs)
      <4>1. Nexts(s2, c, q, ta_code.instrs)
        BY <2>3, <2>4, <2>12, <2>22, NextsStay
      <4>2. QED BY <2>11, <4>1
    <3>3. \A h \in open : c.gotos[h].want[1] \in {"after", "else"} /\ c.gotos[h].want \in DOMAIN q /\ q[c.gotos[h].want] = c.instrs
      <4>1. <<"else", id>> \in DOMAIN q
        BY <2>28 DEF Marks
      <4>2. QED BY <2>13, <2>22, <2>27, <2>29, <4>1
    <3>4. \A h \in r.lists["next"] : c.gotos[h].want[1] \in {"after", "else"}
      BY <2>17, <3>1, <3>2, <3>3 DEF Nexts
    <3>5. ASSUME NEW h \in NextOf(r)
          PROVE  /\ c.gotos[h].want \in DOMAIN q
                 /\ \/ q[c.gotos[h].want] = c.instrs
                    \/ \E k \in NextOf(r) : c.gotos[k].at = q[c.gotos[h].want] /\ ~c.gotos[k].cond
      <4>1. CASE h \in open
        BY <3>3, <4>1
      <4>2. CASE h \in NextOf(s2)
        BY <2>26, <3>2, <4>2 DEF Nexts
      <4>3. CASE h \in NextOf(s1)
        BY <2>26, <2>27, <3>1, <4>3 DEF Nexts
      <4>4. QED BY <2>26, <4>1, <4>2, <4>3
    <3>6. QED BY <3>4, <3>5 DEF Nexts
  <2>31. Wants(r, stack, m, c)
    <3>1. Wants(s2, stack, m, ta_code)
      BY <2>1, <2>3, <2>4, WantsOff DEF Breakable, Loops
    <3>2. Wants(s2, stack, m, c) /\ Wants(s1, stack, m, c)
      BY <2>3, <2>4, <2>5, <2>12, <3>1, WantsStay
    <3>3. QED BY <2>17, <3>2 DEF Wants
  <2>32. NamesAt(c, idLabel, idGoto, q)
    BY <2>2, <2>12, <2>22, NamesNow
  <2>33. CasesAt(Below, c, lblSwitch, q)
    <3>1. Len(Below) = m /\ \A i \in 1 .. m : Below[i] = stack[i]
      BY <2>2, BelowIs
    <3>2. Top.kind # "switch"
      BY <2>1
    <3>3. QED BY <2>2, <2>12, <2>22, <3>1, <3>2, CasesNow
  <2>34. AllLanded(c, Freed(c, ListsOf(r) \cup Waiting(idGoto)), q)
    <3>1. \A h \in Freed(c, ListsOf(r) \cup Waiting(idGoto)) : h \in T \cup F
      BY <2>4, <2>11, <2>13, <2>18, <2>23, JumpsPositive DEF Freed, TopHeld
    <3>2. \A h \in T \cup F : Landed(c, Freed(c, ListsOf(r) \cup Waiting(idGoto)), q, h)
      BY <2>11, <2>27, <2>28 DEF Landed, Marks
    <3>3. QED BY <3>1, <3>2 DEF AllLanded
  <2>35. /\ ListsOf(r) \cup Waiting(idGoto) \subseteq JumpsOf(c)
         /\ (ListsOf(r) \cup Waiting(idGoto)) \cap JumpsOf(ta_code) \subseteq TopHeld
         /\ ListsOf(r) \cap Waiting(idGoto) = {} /\ (T \cup F) \cap JumpsOf(ta_code) \subseteq TopHeld
    BY <2>3, <2>4, <2>5, <2>11, <2>13, <2>18, <2>23, <2>24 DEF TopHeld
  <2>36. idLabel' = idLabel /\ idGoto' = idGoto /\ lblSwitch' = lblSwitch /\ place' = q
    BY <2>19, <2>21
  <2>37. QED BY <2>2, <2>11, <2>12, <2>20, <2>21, <2>30, <2>31, <2>32, <2>33, <2>34, <2>35, <2>36, ReduceLands
<1>2. QED BY <1>0, <1>1

\* The jumps a loop patches when it ends.
LEMMA LoopPatched ==
    ASSUME NEW c, Coded(c), NEW T, NEW first, first = NoLabel => T = {}, first # NoLabel => first \in LabelsOf(c),
           NEW N, NEW C, NEW onward \in LabelsOf(c), T \cap (N \cup C) = {},
           NEW d, d = Backpatch(c, T, first), NEW e, e = Backpatch(d, N, onward), NEW p, p = Backpatch(e, C, onward)
    PROVE  Patching(c, p, T, N \cup C, first, onward)
<1>1. /\ Onto(c, d, T) /\ Coded(d) /\ JumpsOf(d) = JumpsOf(c) /\ LabelsOf(d) = LabelsOf(c)
      /\ d.labels = c.labels /\ d.instrs = c.instrs
      /\ \A g \in JumpsOf(c) : d.gotos[g].label = IF g \in T THEN first ELSE c.gotos[g].label
  <2>1. CASE first = NoLabel
    <3>1. d = c
      BY <2>1 DEF Backpatch
    <3>2. Onto(c, c, T)
      BY OntoSelf
    <3>3. QED BY <2>1, <3>1, <3>2
  <2>2. CASE first # NoLabel
    BY <2>2, PatchOnto
  <2>3. QED BY <2>1, <2>2
<1>2. onward \in LabelsOf(d)
  BY <1>1
<1>3. /\ Onto(d, e, N) /\ Coded(e) /\ JumpsOf(e) = JumpsOf(d) /\ LabelsOf(e) = LabelsOf(d)
      /\ e.labels = d.labels /\ e.instrs = d.instrs
      /\ \A g \in JumpsOf(d) : e.gotos[g].label = IF g \in N THEN onward ELSE d.gotos[g].label
  BY <1>1, <1>2, PatchOnto
<1>4. onward \in LabelsOf(e)
  BY <1>2, <1>3
<1>5. /\ Onto(e, p, C) /\ Coded(p) /\ JumpsOf(p) = JumpsOf(e) /\ LabelsOf(p) = LabelsOf(e)
      /\ p.labels = e.labels /\ p.instrs = e.instrs
      /\ \A g \in JumpsOf(e) : p.gotos[g].label = IF g \in C THEN onward ELSE e.gotos[g].label
  BY <1>3, <1>4, PatchOnto
<1>6. Onto(c, e, T \cup N)
  BY <1>1, <1>3, OntoOn
<1>7. Onto(c, p, T \cup (N \cup C))
  <2>1. ((T \cup N) \cup C) \cap JumpsOf(c) \subseteq T \cup (N \cup C)
    OBVIOUS
  <2>2. QED BY <1>5, <1>6, <2>1, OntoOn
<1>8. ASSUME NEW g \in JumpsOf(c) PROVE (g \in T => p.gotos[g].label = first) /\ (g \in N \cup C => p.gotos[g].label = onward)
  BY <1>1, <1>3, <1>5
<1>9. QED BY <1>1, <1>3, <1>5, <1>7, <1>8 DEF Patching

\* The code of a loop but for its last jump: where its labels are, and that
\* what its body leaves open will come to the label onward.
Looped(c, T, F, first, onward, role, l, add) ==
    /\ Coded(c) /\ Onto(ta_code, c, {}) /\ JumpsOf(c) = JumpsOf(ta_code) \cup T \cup F
    /\ Top.true \cup Top.false \subseteq T \cup F /\ (T \cup F) \cap JumpsOf(ta_code) \subseteq HeldBy(Top)
    /\ Wanting(c, T, <<"body", Top.id>>) /\ Wanting(c, F, <<"after", Top.id>>)
    /\ first = NoLabel => T = {}
    /\ first # NoLabel => Marks(c, first, place, <<"body", Top.id>>)
    /\ Marks(c, onward, place, <<Onward(Top.kind), Top.id>>) \/ Marks(c, onward, add, <<Onward(Top.kind), Top.id>>)
    /\ Marks(c, l, place, <<role, Top.id>>)
    /\ c.labels[onward] = ta_code.instrs \/ (l = onward /\ c.instrs = ta_code.instrs)

LEMMA LoopLands ==
    ASSUME NEW m, Topped(m), value.ready, Top.kind \in Loops, NEW c, NEW T, NEW F, NEW first, NEW onward,
           NEW role \in Roles, NEW l, NEW add, Looped(c, T, F, first, onward, role, l, add), EndPoints(add),
           NEW back, back = <<role, l>>, LoopReduces(c, T, F, first, onward, back, add)
    PROVE  LInv'
<1>1. /\ m \in Nat /\ m + 1 = Len(stack) /\ Top = stack[m + 1] /\ Coded(ta_code) /\ Framed(Top, ta_code)
      /\ StmtOK(value.st, ta_code) /\ Waiting(idGoto) \subseteq JumpsOf(ta_code)
      /\ Wants(value.st, stack, m + 1, ta_code) /\ Nexts(value.st, ta_code, place, ta_code.instrs)
  BY TopNow
<1>2. PICK id, st, N, C, B, R : /\ id = Top.id /\ st = value.st /\ N = st.lists["next"] /\ C = st.lists["continue"]
                                /\ B = st.lists["break"] /\ R = st.lists["return"]
  OBVIOUS
<1>3. /\ Coded(c) /\ Onto(ta_code, c, {}) /\ JumpsOf(c) = JumpsOf(ta_code) \cup T \cup F
      /\ Top.true \cup Top.false \subseteq T \cup F /\ (T \cup F) \cap JumpsOf(ta_code) \subseteq HeldBy(Top)
      /\ Wanting(c, T, <<"body", id>>) /\ Wanting(c, F, <<"after", id>>)
      /\ first = NoLabel => T = {}
      /\ first # NoLabel => Marks(c, first, place, <<"body", id>>)
      /\ Marks(c, onward, place, <<Onward(Top.kind), id>>) \/ Marks(c, onward, add, <<Onward(Top.kind), id>>)
      /\ Marks(c, l, place, <<role, id>>)
      /\ c.labels[onward] = ta_code.instrs \/ (l = onward /\ c.instrs = ta_code.instrs)
  BY <1>2 DEF Looped
<1>4. ListsOf(st) = N \cup B \cup C \cup R /\ ListsOf(st) \subseteq JumpsOf(ta_code) /\ id \in Nat
  BY <1>1, <1>2, ListsAre DEF Framed, FrameType, StmtOK, ListsOf
<1>5. HeldBy(Top) = Top.true \cup Top.false \cup {0}
  <2>1. Top.goto1 = 0 /\ Top.goto2 = 0 /\ ListsOf(Top.st) = {}
    BY <1>1, NoListsOf DEF Framed, Loops
  <2>2. QED BY <2>1, HeldIs
<1>6. /\ HeldBy(Top) \cap ListsOf(st) = {} /\ HeldBy(Top) \cap Waiting(idGoto) = {} /\ ListsOf(st) \cap Waiting(idGoto) = {}
      /\ (T \cup F) \cap (ListsOf(st) \cup Waiting(idGoto)) = {}
  <2>1. HeldBy(Top) \cap (ListsOf(st) \cup Waiting(idGoto)) = {} /\ ListsOf(st) \cap Waiting(idGoto) = {}
    BY <1>2, TopApart
  <2>2. QED BY <1>1, <1>3, <1>4, <2>1
<1>7. PICK d, e, p : d = Backpatch(c, T, first) /\ e = Backpatch(d, N, onward) /\ p = Backpatch(e, C, onward)
  OBVIOUS
<1>8. /\ Onto(c, p, T \cup (N \cup C)) /\ Coded(p) /\ JumpsOf(p) = JumpsOf(c) /\ LabelsOf(p) = LabelsOf(c)
      /\ p.labels = c.labels /\ p.instrs = c.instrs
      /\ \A g \in JumpsOf(c) : (g \in T => p.gotos[g].label = first) /\ (g \in N \cup C => p.gotos[g].label = onward)
  <2>1. onward \in LabelsOf(c) /\ (first # NoLabel => first \in LabelsOf(c))
    BY <1>3 DEF Marks
  <2>2. T \cap (N \cup C) = {}
    BY <1>4, <1>6
  <2>3. Patching(c, p, T, N \cup C, first, onward)
    BY <1>3, <1>7, <2>1, <2>2, LoopPatched
  <2>4. QED BY <2>3 DEF Patching
<1>9. PICK w \in Roles \X Nat, no \in BOOLEAN : w = <<role, id>> /\ no = FALSE
  BY <1>4
<1>10. PICK j, g : j = NewJump(p, w, l, no) /\ g = LastGoto(j)
  OBVIOUS
<1>11. /\ Onto(p, j, {}) /\ Coded(j) /\ j.labels = p.labels /\ LabelsOf(j) = LabelsOf(p)
       /\ JumpsOf(j) = JumpsOf(p) \cup {g} /\ g \notin JumpsOf(p)
       /\ j.gotos[g] = [at |-> p.instrs, cond |-> no, label |-> l, want |-> w]
  <2>1. l \in Targets(p)
    BY <1>3, <1>8 DEF Marks, Targets
  <2>2. QED BY <1>8, <1>10, <2>1, JumpOnto
<1>12. j.gotos[g].at = c.instrs /\ ~j.gotos[g].cond /\ j.gotos[g].label = l /\ j.gotos[g].want = <<role, id>>
  BY <1>8, <1>9, <1>11
<1>13. PICK ps : ps = T \cup (N \cup C)
  OBVIOUS
<1>14. Onto(c, j, ps) /\ Onto(ta_code, j, ps)
  <2>1. Onto(c, j, ps)
    BY <1>8, <1>11, <1>13, OntoOn
  <2>2. QED BY <1>3, <2>1, OntoOn
<1>15. PICK ls, r : ls = LoopLists(F) /\ r = Stmt(ls)
  OBVIOUS
<1>16. /\ r.lists["next"] = F \cup B /\ r.lists["return"] = R /\ r.lists["break"] = {} /\ r.lists["continue"] = {}
  <2>1. StmtOK(value.st, j)
    BY <1>1, <1>14, StmtGrows DEF Onto
  <2>2. F \in SUBSET JumpsOf(j)
    BY <1>3, <1>8, <1>11
  <2>3. /\ ls \in [Lists -> SUBSET JumpsOf(j)]
        /\ ls["next"] = F \cup value.st.lists["break"] /\ ls["return"] = value.st.lists["return"]
        /\ ls["break"] = {} /\ ls["continue"] = {}
    BY <1>15, <2>1, <2>2, LoopListsAre
  <2>4. r.lists = ls
    BY <1>15, <2>3, StmtIs
  <2>5. QED BY <1>2, <2>3, <2>4
<1>17. ListsOf(r) = F \cup B \cup R
  BY <1>16, ListsAre
<1>18. Reduce(j, r, add) /\ UNCHANGED globals
  BY <1>2, <1>7, <1>9, <1>10, <1>15 DEF LoopReduces, NewGotoTo
<1>19. PICK q : q = place'
  OBVIOUS
<1>20. /\ Extends(place, q) /\ Extends(add, q) /\ <<"after", id>> \in DOMAIN q /\ q[<<"after", id>>] = j.instrs
  BY <1>2, <1>18, <1>19, EndJoins
<1>21. /\ first # NoLabel => Marks(j, first, q, <<"body", id>>)
       /\ Marks(j, onward, q, <<Onward(Top.kind), id>>) /\ Marks(j, l, q, <<role, id>>)
  BY <1>3, <1>14, <1>20, MarksStay
<1>22. Wanting(j, F, <<"after", id>>) /\ Wanting(j, T, <<"body", id>>)
  <2>1. F \in SUBSET JumpsOf(c) /\ T \in SUBSET JumpsOf(c)
    BY <1>3
  <2>2. QED BY <1>3, <1>14, <2>1, WantingOn
<1>23. /\ \A h \in B : j.gotos[h].want = <<"after", id>>
       /\ \A h \in C : j.gotos[h].want = <<Onward(Top.kind), id>>
       /\ \A h \in R : j.gotos[h].want = <<"end", 0>>
  <2>1. /\ \A h \in B : ta_code.gotos[h].want = <<"after", id>>
        /\ \A h \in C : ta_code.gotos[h].want = <<Onward(Top.kind), id>>
        /\ \A h \in R : ta_code.gotos[h].want = <<"end", 0>>
    BY <1>1, <1>2, WantsOut DEF Breakable
  <2>2. QED BY <1>4, <1>14, <2>1 DEF Onto, Grows
<1>24. Nexts(r, j, q, j.instrs)
  <2>1. \A h \in r.lists["next"] : j.gotos[h].want = <<"after", id>>
    BY <1>16, <1>22, <1>23 DEF Wanting
  <2>2. QED BY <1>20, <2>1 DEF Nexts, NextOf
<1>25. Wants(r, stack, m, j)
  BY <1>16, <1>23 DEF Wants
<1>26. NamesAt(j, idLabel, idGoto, q)
  BY <1>14, <1>20, NamesNow
<1>27. CasesAt(Below, j, lblSwitch, q)
  <2>1. Len(Below) = m /\ \A i \in 1 .. m : Below[i] = stack[i]
    BY BelowIs
  <2>2. Top.kind # "switch"
    BY DEF Loops
  <2>3. QED BY <1>14, <1>20, <2>1, <2>2, CasesNow
<1>28. PICK U : U = Freed(j, ListsOf(r) \cup Waiting(idGoto))
  OBVIOUS
<1>29. \A h \in U : h \in T \cup C \cup NextOf(st) \cup {g}
  BY <1>2, <1>3, <1>4, <1>5, <1>8, <1>11, <1>17, <1>28, JumpsPositive DEF Freed, TopHeld, NextOf
<1>30. g \in U
  BY <1>3, <1>4, <1>8, <1>1, <1>11, <1>17, <1>28 DEF Freed
<1>31. NextOf(st) \subseteq U
  <2>1. ASSUME NEW h \in NextOf(st) PROVE h \in U
    <3>1. h \in N /\ h \notin B \cup C \cup R
      BY <1>1, <1>2, NextApart
    <3>2. h \in ListsOf(st) /\ h \in JumpsOf(ta_code) /\ h \notin F \cup Waiting(idGoto)
      BY <1>4, <1>6, <3>1
    <3>3. QED BY <1>2, <1>3, <1>8, <1>11, <1>17, <1>28, <3>1, <3>2 DEF Freed, TopHeld
  <2>2. QED BY <2>1
<1>32. /\ \A h \in T : j.gotos[h].label = first /\ first # NoLabel
       /\ \A h \in N \cup C : j.gotos[h].label = onward
  BY <1>3, <1>4, <1>8, <1>11 DEF Onto
<1>33. \A h \in T \cup C \cup {g} : Landed(j, U, q, h)
  BY <1>12, <1>21, <1>22, <1>23, <1>32 DEF Landed, Marks, Wanting
<1>34. j.labels[onward] = ta_code.instrs \/ Leads(j, g, ta_code.instrs, j.labels[onward])
  BY <1>3, <1>8, <1>11, <1>12, <1>21 DEF Leads, Marks
<1>35. ASSUME NEW h \in NextOf(st) PROVE Landed(j, U, q, h)
  <2>1. Nexts(st, j, q, ta_code.instrs)
    BY <1>1, <1>2, <1>14, <1>20, NextsStay
  <2>2. \A k \in NextOf(st) : j.gotos[k].label = onward
    BY <1>2, <1>32 DEF NextOf
  <2>3. onward \in LabelsOf(j)
    BY <1>21 DEF Marks
  <2>4. j.gotos[h].want \in DOMAIN q /\ j.gotos[h].label = onward
    BY <2>1, <2>2 DEF Nexts
  <2>5. CASE q[j.gotos[h].want] = ta_code.instrs
    BY <1>30, <1>34, <2>3, <2>4, <2>5 DEF Landed
  <2>6. CASE q[j.gotos[h].want] # ta_code.instrs
    <3>1. PICK k \in NextOf(st) : j.gotos[k].at = q[j.gotos[h].want] /\ ~j.gotos[k].cond
      BY <2>1, <2>6 DEF Nexts
    <3>2. Leads(j, k, q[j.gotos[h].want], j.labels[onward])
      BY <2>2, <2>3, <3>1 DEF Leads
    <3>3. QED BY <1>31, <2>3, <2>4, <3>1, <3>2 DEF Landed
  <2>7. QED BY <2>5, <2>6
<1>36. AllLanded(j, Freed(j, ListsOf(r) \cup Waiting(idGoto)), q)
  BY <1>28, <1>29, <1>33, <1>35 DEF AllLanded
<1>37. /\ ListsOf(r) \cup Waiting(idGoto) \subseteq JumpsOf(j)
       /\ (ListsOf(r) \cup Waiting(idGoto)) \cap JumpsOf(ta_code) \subseteq TopHeld
       /\ ListsOf(r) \cap Waiting(idGoto) = {} /\ ps \cap JumpsOf(ta_code) \subseteq TopHeld
  BY <1>1, <1>2, <1>3, <1>4, <1>6, <1>8, <1>11, <1>13, <1>17 DEF TopHeld
<1>38. idLabel' = idLabel /\ idGoto' = idGoto /\ lblSwitch' = lblSwitch /\ place' = q
  BY <1>18, <1>19 DEF globals
<1>39. QED BY <1>11, <1>14, <1>18, <1>24, <1>25, <1>26, <1>27, <1>36, <1>37, <1>38, ReduceLands

\* A loop whose parts are all on top.
LEMMA LoopTopLands ==
    ASSUME NEW m, Topped(m), value.ready, Top.kind \in Loops, Top.kind # "do", NEW role \in Roles, role = Onward(Top.kind),
           NEW T, NEW F, NEW first, NEW l, NEW back, NEW add,
           F = Top.false, l = Top.l1, first = Top.l2, T = Top.true, back = <<role, l>>, add = <<>>,
           LoopReduces(ta_code, T, F, first, l, back, add)
    PROVE  LInv'
<1>1. Coded(ta_code) /\ Framed(Top, ta_code) /\ FrameAt(Top, ta_code, place)
  BY TopNow
<1>2. PICK id : id = Top.id
  OBVIOUS
<1>3. T \subseteq JumpsOf(ta_code) /\ F \subseteq JumpsOf(ta_code)
  BY <1>1 DEF Framed
<1>4. Wanting(ta_code, T, <<"body", id>>) /\ Wanting(ta_code, F, <<"after", id>>)
  BY <1>1, <1>2 DEF FrameAt, Wanting, Loops
<1>5. /\ first = NoLabel => T = {}
      /\ first # NoLabel => Marks(ta_code, first, place, <<"body", id>>)
      /\ Marks(ta_code, l, place, <<role, id>>)
  <2>1. CASE Top.kind = "for3"
    BY <1>1, <1>2, <2>1 DEF FrameAt, Framed, Onward
  <2>2. CASE Top.kind # "for3"
    <3>1. Top.kind \in {"while", "for"}
      BY <2>2 DEF Loops
    <3>2. /\ Marks(ta_code, Top.l1, place, <<"test", id>>) /\ Marks(ta_code, Top.l2, place, <<"body", id>>)
          /\ Top.l2 \in LabelsOf(ta_code)
      BY <1>1, <1>2, <3>1 DEF FrameAt, Framed
    <3>3. Top.l2 # NoLabel
      BY <3>2 DEF LabelsOf, NoLabel
    <3>4. QED BY <2>2, <3>2, <3>3 DEF Onward
  <2>3. QED BY <2>1, <2>2
<1>6. (T \cup F) \cap JumpsOf(ta_code) \subseteq HeldBy(Top)
  BY HeldIs
<1>7. Onto(ta_code, ta_code, {}) /\ JumpsOf(ta_code) = JumpsOf(ta_code) \cup T \cup F
  BY <1>1, <1>3, OntoSelf
<1>8. Looped(ta_code, T, F, first, l, role, l, add)
  BY <1>1, <1>2, <1>4, <1>5, <1>6, <1>7 DEF Looped
<1>9. EndPoints(add)
  BY DEF EndPoints
<1>10. QED BY <1>8, <1>9, LoopLands

LEMMA ReduceWhileLands == ASSUME IInv, LInv, ReduceWhile PROVE LInv'
<1>0. CASE fault' # "none"
  BY <1>0, Faulty
<1>1. CASE fault' = "none"
  <2>1. value.ready /\ Top.kind = "while" /\ phase = "parse" /\ fault = "none"
    BY <1>1 DEF ReduceWhile, Reducing, LoopReduces
  <2>2. PICK m : Topped(m)
    BY <2>1, ToppedIs
  <2>3. PICK T, F, first, l : T = Top.true /\ F = Top.false /\ first = Top.l2 /\ l = Top.l1
    OBVIOUS
  <2>4. PICK role \in Roles : role = "test"
    BY DEF Roles
  <2>5. PICK back, add : back = <<role, l>> /\ add = <<>>
    OBVIOUS
  <2>6. LoopReduces(ta_code, T, F, first, l, back, add)
    BY <2>3, <2>4, <2>5 DEF ReduceWhile
  <2>7. Top.kind \in Loops /\ Top.kind # "do" /\ role = Onward(Top.kind)
    BY <2>1, <2>4 DEF Loops, Onward
  <2>8. QED BY <2>1, <2>2, <2>3, <2>5, <2>6, <2>7, LoopTopLands
<1>2. QED BY <1>0, <1>1

LEMMA ReduceForLands == ASSUME IInv, LInv, ReduceFor PROVE LInv'
<1>0. CASE fault' # "none"
  BY <1>0, Faulty
<1>1. CASE fault' = "none"
  <2>1. value.ready /\ Top.kind \in {"for", "for3"} /\ phase = "parse" /\ fault = "none"
    BY <1>1 DEF ReduceFor, Reducing, LoopReduces
  <2>2. PICK m : Topped(m)
    BY <2>1, ToppedIs
  <2>3. PICK T, F, first, l : T = Top.true /\ F = Top.false /\ first = Top.l2 /\ l = Top.l1
    OBVIOUS
  <2>4. Top.kind \in Loops /\ Top.kind # "do"
    BY <2>1 DEF Loops
  <2>5. CASE Top.kind = "for"
    <3>1. PICK role \in Roles : role = "test"
      BY DEF Roles
    <3>2. PICK back, add : back = <<role, l>> /\ add = <<>>
      OBVIOUS
    <3>3. LoopReduces(ta_code, T, F, first, l, back, add)
      BY <2>3, <2>5, <3>1, <3>2 DEF ReduceFor, Reducing
    <3>4. role = Onward(Top.kind)
      BY <2>5, <3>1 DEF Onward
    <3>5. QED BY <2>1, <2>2, <2>3, <2>4, <3>2, <3>3, <3>4, LoopTopLands
  <2>6. CASE Top.kind = "for3"
    <3>1. PICK role \in Roles : role = "step"
      BY DEF Roles
    <3>2. PICK back, add : back = <<role, l>> /\ add = <<>>
      OBVIOUS
    <3>3. Top.true = {}
      BY <2>2, <2>6, TopNow DEF Framed
    <3>4. LoopReduces(ta_code, T, F, first, l, back, add)
      BY <2>3, <2>6, <3>1, <3>2, <3>3 DEF ReduceFor, Reducing
    <3>5. role = Onward(Top.kind)
      BY <2>6, <3>1 DEF Onward
    <3>6. QED BY <2>1, <2>2, <2>3, <2>4, <3>2, <3>4, <3>5, LoopTopLands
  <2>7. QED BY <2>1, <2>5, <2>6
<1>2. QED BY <1>0, <1>1

LEMMA ReduceDoWhileLands == ASSUME IInv, LInv, NEW e \in Exprs, ReduceDoWhile(e) PROVE LInv'
<1>0. CASE fault' # "none"
  BY <1>0, Faulty
<1>1. CASE fault' = "none"
  <2>1. value.ready /\ Top.kind = "do" /\ phase = "parse" /\ fault = "none"
    BY <1>1 DEF ReduceDoWhile, Reducing, LoopReduces
  <2>2. PICK m : Topped(m)
    BY <2>1, ToppedIs
  <2>3. Coded(ta_code) /\ Framed(Top, ta_code) /\ FrameAt(Top, ta_code, place)
    BY <2>2, TopNow
  <2>4. PICK id, l1 : id = Top.id /\ l1 = Top.l1
    OBVIOUS
  <2>5. id \in Nat /\ Top.true = {} /\ Top.false = {}
    BY <2>1, <2>3, <2>4 DEF Framed, FrameType
  <2>6. PICK wt \in Roles \X Nat, wf \in Roles \X Nat : wt = <<"body", id>> /\ wf = <<"after", id>>
    BY <2>5 DEF Roles
  <2>7. PICK n, onward : n = NewLabel(ta_code) /\ onward = LastLabel(n)
    OBVIOUS
  <2>8. /\ Onto(ta_code, n, {}) /\ JumpsOf(n) = JumpsOf(ta_code) /\ Coded(n) /\ n.instrs = ta_code.instrs
        /\ onward \in LabelsOf(n) /\ n.labels[onward] = ta_code.instrs
    BY <2>3, <2>7, LabelOnto
  <2>9. PICK v : v = Condition(n, e, wt, wf)
    OBVIOUS
  <2>10. PICK c, g, T, F : c = NewGotoCond(v.c, wf) /\ g = LastGoto(c) /\ T = v.true /\ F = v.false \cup {g}
    OBVIOUS
  <2>11. Tested(n, c, T, F, wt, wf)
    BY <2>8, <2>9, <2>10, ConditionTested
  <2>12. /\ Onto(n, c, {}) /\ Coded(c) /\ JumpsOf(c) = JumpsOf(ta_code) \cup T \cup F
         /\ (T \cup F) \cap JumpsOf(ta_code) = {}
         /\ Wanting(c, T, <<"body", id>>) /\ Wanting(c, F, <<"after", id>>)
    BY <2>6, <2>8, <2>11 DEF Tested
  <2>13. Onto(ta_code, c, {})
    BY <2>8, <2>12, OntoOn
  <2>14. PICK p, x, add : p = <<"test", id>> /\ x = n.instrs /\ add = (p :> x)
    OBVIOUS
  <2>15. DOMAIN add = {p} /\ add[p] = x
    <3>1. add = (p :> x)
      BY <2>14
    <3>2. QED BY <3>1, Single
  <2>16. onward \in LabelsOf(c) /\ c.labels[onward] = ta_code.instrs
    BY <2>8, <2>12 DEF Onto, Grows
  <2>17. Marks(c, onward, add, <<Onward(Top.kind), id>>)
    BY <2>1, <2>8, <2>14, <2>15, <2>16 DEF Marks, Onward
  <2>18. EndPoints(add)
    <3>1. p \notin DOMAIN place
      BY <2>1, <2>3, <2>4, <2>14 DEF FrameAt
    <3>2. QED BY <2>4, <2>14, <2>15, <3>1 DEF EndPoints
  <2>18a. PICK role \in Roles : role = "body"
    BY DEF Roles
  <2>19. PICK back : back = <<role, l1>>
    OBVIOUS
  <2>20. Marks(ta_code, l1, place, <<"body", id>>) /\ l1 # NoLabel
    BY <2>1, <2>3, <2>4 DEF FrameAt, Framed
  <2>21. Marks(c, l1, place, <<role, id>>)
    <3>1. Extends(place, place)
      BY ExtendsSelf
    <3>2. QED BY <2>13, <2>18a, <2>19, <2>20, <3>1, MarksStay
  <2>22. Looped(c, T, F, l1, onward, role, l1, add)
    BY <2>4, <2>5, <2>12, <2>13, <2>16, <2>17, <2>18a, <2>19, <2>20, <2>21 DEF Looped
  <2>23. LoopReduces(c, T, F, l1, onward, back, add)
    BY <2>4, <2>6, <2>7, <2>9, <2>10, <2>14, <2>18a, <2>19 DEF ReduceDoWhile
  <2>24. Top.kind \in Loops
    BY <2>1 DEF Loops
  <2>25. QED BY <2>1, <2>2, <2>18, <2>18a, <2>19, <2>22, <2>23, <2>24, LoopLands
<1>2. QED BY <1>0, <1>1

(***************************************************************************)
(* switch and its cases.                                                   *)
(***************************************************************************)
\* The jumps of the tests of a switch go to the cases' labels.
TestJump(d, g) ==
    \E k \in Keys : /\ lblSwitch[k] # NoLabel /\ d.gotos[g].want = <<"case", Top.own[k]>>
                    /\ d.gotos[g].label = lblSwitch[k]

Testing(c, d) == Coded(d) /\ Onto(c, d, {}) /\ \A g \in JumpsOf(d) : g \in JumpsOf(c) \/ TestJump(d, g)

LEMMA TestOnto ==
    ASSUME NEW c, NEW x, Testing(c, x), NEW k \in Keys, Testable(c, k), NEW d, d = Test(x, k)
    PROVE  Testing(c, d)
<1>1. Coded(x) /\ Onto(c, x, {})
  BY DEF Testing
<1>2. PICK w \in Roles \X Nat : w = <<"case", Top.own[k]>>
  BY CaseIsRole DEF Testable
<1>3a. PICK cond \in BOOLEAN : cond = (k # Default)
  OBVIOUS
<1>3. PICK y, l : y = (IF k = Default THEN x ELSE Exec(x)) /\ l = lblSwitch[k]
  OBVIOUS
<1>4. Onto(x, y, {}) /\ JumpsOf(y) = JumpsOf(x) /\ LabelsOf(y) = LabelsOf(x) /\ Coded(y)
  <2>1. CASE k = Default
    <3>1. y = x
      BY <1>3, <2>1
    <3>2. Onto(x, x, {})
      BY <1>1, OntoSelf
    <3>3. QED BY <1>1, <3>1, <3>2
  <2>2. CASE k # Default
    BY <1>1, <1>3, <2>2, ExecOnto
  <2>3. QED BY <2>1, <2>2
<1>5. l \in LabelsOf(c) /\ l \in Targets(y) /\ l # NoLabel
  BY <1>1, <1>3, <1>4 DEF Testable, Onto, Grows, Targets, LabelsOf, NoLabel
<1>6. d = NewJump(y, w, l, cond)
  BY <1>2, <1>3a, <1>3, Zenon DEF Test
<1>7. PICK g : g = LastGoto(d)
  OBVIOUS
<1>8. /\ Onto(y, d, {}) /\ Coded(d) /\ JumpsOf(d) = JumpsOf(y) \cup {g} /\ g \notin JumpsOf(y)
      /\ d.gotos[g] = [at |-> y.instrs, cond |-> cond, label |-> l, want |-> w]
  BY <1>4, <1>5, <1>6, <1>7, JumpOnto
<1>9. Onto(x, d, {})
  BY <1>4, <1>8, OntoOn
<1>10. Onto(c, d, {})
  BY <1>1, <1>9, OntoOn
<1>11. TestJump(d, g)
  <2>1. d.gotos[g].label = l /\ d.gotos[g].want = w
    BY <1>8
  <2>2. QED BY <1>2, <1>3, <1>5, <2>1 DEF TestJump
<1>12. ASSUME NEW h \in JumpsOf(x) PROVE h \in JumpsOf(c) \/ TestJump(d, h)
  <2>1. d.gotos[h].want = x.gotos[h].want /\ d.gotos[h].label = x.gotos[h].label
    BY <1>9 DEF Onto, Grows
  <2>2. QED BY <2>1 DEF Testing, TestJump
<1>13. QED BY <1>4, <1>8, <1>10, <1>11, <1>12 DEF Testing

LEMMA TestsOnto ==
    ASSUME NEW c, Coded(c), NEW S \in SUBSET Consts, IsFiniteSet(S), \A k \in S : Testable(c, k),
           NEW d, d = FoldSet(LAMBDA k, acc : Test(acc, k), c, S)
    PROVE  Testing(c, d)
<1>1. PICK f : TestsFrom(f, c, S) /\ d = f[S]
  <2>1. PICK f : f = CHOOSE g : TestsFrom(g, c, S)
    OBVIOUS
  <2>2. TestsFrom(f, c, S)
    BY <2>1, TestsExist, Zenon
  <2>3. QED BY <2>1, <2>2, TestsFold
<1>2. \A s \in SUBSET S : f[s] = IF s = {} THEN c ELSE Test(f[s \ {Some(s)}], Some(s))
  <2>1. f = [s \in SUBSET S |-> IF s = {} THEN c ELSE Test(f[s \ {Some(s)}], Some(s))]
    BY <1>1 DEF TestsFrom
  <2>2. QED BY <2>1, Zenon
<1>3. PICK pick : pick = [s \in SUBSET S |-> Some(s)]
  OBVIOUS
<1>4. Picks(pick, S) /\ \A s \in SUBSET S : pick[s] = Some(s)
  BY <1>3 DEF Picks, Some
<1> DEFINE Q == {s \in SUBSET S : Testing(c, f[s])}
<1>5. {} \in Q
  <2>1. f[{}] = c
    BY <1>2
  <2>2. Onto(c, c, {})
    BY OntoSelf
  <2>3. QED BY <2>1, <2>2 DEF Testing
<1>6. ASSUME NEW s \in SUBSET S, s # {}, s \ {pick[s]} \in Q PROVE s \in Q
  <2>1. PICK k : k = Some(s)
    OBVIOUS
  <2>2. k = pick[s] /\ k \in s /\ k \in S /\ k \in Keys
    BY <1>4, <1>6, <2>1 DEF Picks, Keys
  <2>3. PICK x : x = f[s \ {k}]
    OBVIOUS
  <2>4. Testing(c, x)
    BY <1>6, <2>2, <2>3
  <2>5. f[s] = Test(x, k)
    BY <1>2, <1>6, <2>1, <2>3
  <2>6. Testing(c, f[s])
    BY <2>2, <2>4, <2>5, TestOnto
  <2>7. QED BY <2>6
<1> HIDE DEF Q
<1>7. \A s \in SUBSET S : s \in Q
  <2>1. Hereditary(Q, S, pick)
    BY <1>5, <1>6 DEF Hereditary
  <2>2. QED BY <1>4, <2>1, Subsets
<1>8. QED BY <1>1, <1>7 DEF Q

LEMMA TestsAllOnto ==
    ASSUME NEW c, Coded(c), \A k \in Keys : Top.own[k] \in Nat, \A k \in Keys : lblSwitch[k] \in Patches(c),
           IsFiniteSet({k \in Consts : lblSwitch[k] # NoLabel}), NEW d, d = Tests(c)
    PROVE  Testing(c, d)
<1>1. PICK S : S = {k \in Consts : lblSwitch[k] # NoLabel}
  OBVIOUS
<1>2. S \in SUBSET Consts /\ IsFiniteSet(S) /\ \A k \in S : Testable(c, k)
  BY <1>1 DEF Testable, Patches, Keys
<1>3. PICK t : t = FoldSet(LAMBDA k, acc : Test(acc, k), c, S)
  OBVIOUS
<1>4. Testing(c, t)
  BY <1>2, <1>3, TestsOnto
<1>5. d = IF lblSwitch[Default] = NoLabel THEN t ELSE Test(t, Default)
  BY <1>1, <1>3, Zenon DEF Tests
<1>6. CASE lblSwitch[Default] = NoLabel
  BY <1>4, <1>5, <1>6
<1>7. CASE lblSwitch[Default] # NoLabel
  <2>1. PICK k : k = Default
    OBVIOUS
  <2>2. k \in Keys /\ Testable(c, k) /\ d = Test(t, k)
    BY <1>5, <1>7, <2>1 DEF Testable, Patches, Keys
  <2>3. QED BY <1>4, <2>2, TestOnto
<1>8. QED BY <1>6, <1>7

\* Only the switch on top has cases.
LEMMA SwitchOwns ==
    ASSUME NEW m, Topped(m), Top.kind = "switch"
    PROVE  /\ \A i \in 1 .. Len(stack), k \in Keys : stack[i].own[k] # 0 => i = m + 1
           /\ \A i \in 1 .. m : stack[i].kind \notin {"case", "default"}
           /\ \A k \in Keys : lblSwitch[k] # NoLabel => Marks(ta_code, lblSwitch[k], place, <<"case", Top.own[k]>>)
           /\ \A k \in Keys : Top.own[k] \in Nat /\ lblSwitch[k] \in Patches(ta_code)
           /\ IsFiniteSet({k \in Consts : lblSwitch[k] # NoLabel})
<1>1. m \in Nat /\ m + 1 = Len(stack) /\ Top = stack[m + 1] /\ CasesAt(stack, ta_code, lblSwitch, place) /\ Lettered(stack)
  BY TopNow
<1>2. Going /\ fault = "none"
  BY GoesOn DEF Topped
<1>3. OwnCases(stack, lblSwitch)
  BY <1>2 DEF Going, IInv, Right
<1>4. ASSUME NEW i \in 1 .. Len(stack), NEW k \in Keys, stack[i].own[k] # 0 PROVE i = m + 1
  <2>1. \A j \in 1 .. Len(stack) : i < j => stack[j].kind # "switch"
    BY <1>3, <1>4 DEF OwnCases
  <2>2. m + 1 \in 1 .. Len(stack)
    BY <1>1
  <2>3. ~(i < m + 1)
    BY <1>1, <2>1, <2>2
  <2>4. QED BY <1>1, <2>3
<1>5. ASSUME NEW j \in 1 .. m, stack[j].kind \in {"case", "default"} PROVE FALSE
  <2>1. j \in 1 .. Len(stack)
    BY <1>1
  <2>2. PICK i \in 1 .. Len(stack) : i < j /\ stack[i].own[stack[j].l2] = stack[j].id
    BY <1>1, <1>5, <2>1 DEF CasesAt
  <2>3. stack[j].id # 0 /\ stack[j].l2 \in Keys
    BY <1>1, <1>5, <2>1 DEF CasesAt, Lettered
  <2>4. i = m + 1
    BY <1>4, <2>2, <2>3
  <2>5. QED BY <1>1, <2>2, <2>4
<1>6. ASSUME NEW k \in Keys, lblSwitch[k] # NoLabel PROVE Marks(ta_code, lblSwitch[k], place, <<"case", Top.own[k]>>)
  <2>1. PICK i \in 1 .. Len(stack) : stack[i].own[k] # 0
    BY <1>1, <1>6 DEF CasesAt
  <2>2. i = m + 1
    BY <1>4, <2>1
  <2>3. QED BY <1>1, <1>6, <2>1, <2>2 DEF CasesAt
<1>7. \A k \in Keys : Top.own[k] \in Nat
  BY <1>2, TopOwns
<1>8. Switched(stack, ta_code, lblSwitch, tmpSwitch)
  BY <1>2 DEF Going, IInv, Shaped
<1>9. QED BY <1>4, <1>5, <1>6, <1>7, <1>8 DEF Switched

\* What the jumps out of a switch want.
LEMMA WantsSwitch ==
    ASSUME NEW s, NEW n \in Nat, n # 0, NEW st, NEW c, Wants(st, s, n, c), s[n].kind = "switch"
    PROVE  /\ \A g \in st.lists["break"] : c.gotos[g].want = <<"after", s[n].id>>
           /\ \A g \in st.lists["continue"] :
                 \E i \in 1 .. n - 1 : Encloses(Loops, s, n - 1, i) /\ c.gotos[g].want = <<Onward(s[i].kind), s[i].id>>
           /\ \A g \in st.lists["return"] : c.gotos[g].want = <<"end", 0>>
<1>1. s[n].kind \in Breakable /\ s[n].kind \notin Loops
  BY DEF Breakable, Loops
<1>2. ASSUME NEW g \in st.lists["break"] PROVE c.gotos[g].want = <<"after", s[n].id>>
  <2>1. PICK i \in 1 .. n : Encloses(Breakable, s, n, i) /\ c.gotos[g].want = <<"after", s[i].id>>
    BY <1>2 DEF Wants
  <2>2. i = n
    BY <1>1, <2>1, n \in 1 .. n DEF Encloses
  <2>3. QED BY <2>1, <2>2
<1>3. ASSUME NEW g \in st.lists["continue"]
      PROVE  \E i \in 1 .. n - 1 : Encloses(Loops, s, n - 1, i) /\ c.gotos[g].want = <<Onward(s[i].kind), s[i].id>>
  <2>1. PICK i \in 1 .. n : Encloses(Loops, s, n, i) /\ c.gotos[g].want = <<Onward(s[i].kind), s[i].id>>
    BY <1>3 DEF Wants
  <2>2. i \in 1 .. n - 1 /\ Encloses(Loops, s, n - 1, i)
    BY <1>1, <2>1 DEF Encloses
  <2>3. QED BY <2>1, <2>2
<1>4. QED BY <1>2, <1>3 DEF Wants

LEMMA ReduceSwitchLands == ASSUME IInv, LInv, ReduceSwitch PROVE LInv'
<1>0. CASE fault' # "none"
  BY <1>0, Faulty
<1>1. CASE fault' = "none"
  <2>1. value.ready /\ Top.kind = "switch" /\ phase = "parse" /\ fault = "none"
    BY <1>1 DEF ReduceSwitch, Reducing
  <2>2. PICK m : Topped(m)
    BY <2>1, ToppedIs
  <2>3. /\ m \in Nat /\ m + 1 = Len(stack) /\ Top = stack[m + 1] /\ Coded(ta_code) /\ Framed(Top, ta_code)
        /\ FrameAt(Top, ta_code, place) /\ StmtOK(value.st, ta_code) /\ Waiting(idGoto) \subseteq JumpsOf(ta_code)
        /\ Wants(value.st, stack, m + 1, ta_code) /\ Nexts(value.st, ta_code, place, ta_code.instrs)
    BY <2>2, TopNow
  <2>4. PICK id, st, h : id = Top.id /\ st = value.st /\ h = Top.goto1
    OBVIOUS
  <2>5. /\ id \in Nat /\ <<"dispatch", id>> \notin DOMAIN place /\ h \in JumpsOf(ta_code)
        /\ ta_code.gotos[h].want = <<"dispatch", id>> /\ ListsOf(st) \subseteq JumpsOf(ta_code)
    BY <2>1, <2>3, <2>4 DEF FrameAt, Framed, FrameType, StmtOK, ListsOf
  <2>6. PICK w \in Roles \X Nat : w = <<"after", id>>
    BY <2>5 DEF Roles
  <2>7. PICK n, g : n = NewGoto(ta_code, w) /\ g = LastGoto(n)
    OBVIOUS
  <2>8. /\ Onto(ta_code, n, {}) /\ Coded(n) /\ JumpsOf(n) = JumpsOf(ta_code) \cup {g} /\ g \notin JumpsOf(ta_code)
        /\ n.gotos[g].want = w /\ n.gotos[g].at = ta_code.instrs /\ ~n.gotos[g].cond
    BY <2>3, <2>7, GotoOnto
  <2>9. PICK x, l : x = NewLabel(n) /\ l = LastLabel(x)
    OBVIOUS
  <2>10. Onto(n, x, {}) /\ JumpsOf(x) = JumpsOf(n) /\ Coded(x) /\ l \in LabelsOf(x) /\ x.labels[l] = x.instrs
    BY <2>8, <2>9, LabelOnto
  <2>11. PICK one, b : one = {h} /\ b = Backpatch(x, one, l)
    OBVIOUS
  <2>12. /\ Onto(x, b, one) /\ Coded(b) /\ JumpsOf(b) = JumpsOf(x) /\ LabelsOf(b) = LabelsOf(x) /\ b.labels = x.labels
         /\ b.gotos[h].label = l
    BY <2>5, <2>8, <2>10, <2>11, PatchOnto
  <2>13. PICK c : c = Tests(b)
    OBVIOUS
  <2>14. Onto(ta_code, x, {}) /\ Onto(ta_code, b, one) /\ Onto(n, b, one)
    BY <2>8, <2>10, <2>12, OntoOn
  <2>15. Coded(c) /\ Onto(b, c, {}) /\ \A j \in JumpsOf(c) : j \in JumpsOf(b) \/ TestJump(c, j)
    <3>1. /\ \A k \in Keys : Top.own[k] \in Nat
          /\ IsFiniteSet({k \in Consts : lblSwitch[k] # NoLabel}) /\ \A k \in Keys : lblSwitch[k] \in Patches(ta_code)
      BY <2>1, <2>2, SwitchOwns
    <3>2. \A k \in Keys : lblSwitch[k] \in Patches(b)
      BY <2>14, <3>1 DEF Patches, Onto, Grows
    <3>3. Testing(b, c)
      BY <2>12, <2>13, <3>1, <3>2, TestsAllOnto
    <3>4. QED BY <3>3 DEF Testing
  <2>16. Onto(ta_code, c, one) /\ Onto(n, c, one) /\ Onto(x, c, one)
    BY <2>12, <2>14, <2>15, OntoOn
  <2>17. /\ g \in JumpsOf(c) /\ c.gotos[g].want = <<"after", id>> /\ c.gotos[g].at = ta_code.instrs /\ ~c.gotos[g].cond
         /\ c.gotos[h].want = <<"dispatch", id>> /\ c.gotos[h].label = l /\ l \in LabelsOf(c) /\ c.labels[l] = x.instrs
    <3>1. g \in JumpsOf(n)
      BY <2>8
    <3>2. h \in JumpsOf(b)
      BY <2>5, <2>8, <2>10, <2>12
    <3>3. c.gotos[h].label = l
      BY <2>12, <2>15, <3>2 DEF Onto
    <3>4. l \in LabelsOf(c) /\ c.labels[l] = x.instrs
      BY <2>10, <2>16 DEF Onto, Grows
    <3>5. QED BY <2>5, <2>6, <2>8, <2>16, <3>1, <3>3, <3>4 DEF Onto, Grows
  <2>18. PICK a, ls : a = st.lists /\ SwitchLeaves(ls, a, g)
    BY DEF SwitchLeaves
  <2>19. /\ ls \in [Lists -> SUBSET JumpsOf(c)]
         /\ ls["next"] = {g} \cup a["break"] \cup a["next"] /\ ls["break"] = {}
         /\ ls["continue"] = a["continue"] /\ ls["return"] = a["return"]
    <3>1. StmtOK(st, c)
      BY <2>3, <2>4, <2>16, StmtGrows DEF Onto
    <3>2. a \in [Lists -> SUBSET JumpsOf(c)]
      BY <2>18, <3>1, ListsIn
    <3>3. QED BY <2>17, <2>18, <3>2, SwitchListsAre
  <2>20. PICK r : r = Stmt(ls)
    OBVIOUS
  <2>21. /\ r.lists["next"] = {g} \cup st.lists["break"] \cup st.lists["next"] /\ r.lists["break"] = {}
         /\ r.lists["continue"] = st.lists["continue"] /\ r.lists["return"] = st.lists["return"]
    BY <2>18, <2>19, <2>20, StmtIs
  <2>22. ListsOf(r) = {g} \cup ListsOf(st)
    BY <2>21, ListsAre
  <2>23. PICK p, y, add, q : p = <<"dispatch", id>> /\ y = x.instrs /\ add = (p :> y) /\ q = place'
    OBVIOUS
  <2>24. DOMAIN add = {p} /\ add[p] = y
    <3>1. add = (p :> y)
      BY <2>23
    <3>2. QED BY <3>1, Single
  <2>25. EndPoints(add)
    BY <2>4, <2>5, <2>23, <2>24 DEF EndPoints
  <2>26. PICK lbl : lbl = [k \in DOMAIN lblSwitch |-> NoLabel]
    OBVIOUS
  <2>27. Reduce(c, r, add) /\ lblSwitch' = lbl /\ idLabel' = idLabel /\ idGoto' = idGoto
    BY <2>4, <2>6, <2>7, <2>9, <2>11, <2>13, <2>18, <2>20, <2>23, <2>26 DEF ReduceSwitch, SwitchLeaves
  <2>28. /\ Extends(place, q) /\ <<"after", id>> \in DOMAIN q /\ q[<<"after", id>>] = c.instrs
         /\ p \in DOMAIN q /\ q[p] = y
    <3>1. Extends(place, q) /\ Extends(add, q) /\ <<"after", id>> \in DOMAIN q /\ q[<<"after", id>>] = c.instrs
      BY <2>2, <2>4, <2>23, <2>25, <2>27, EndJoins
    <3>2. QED BY <2>24, <3>1 DEF Extends
  <2>29. HeldBy(Top) = {h, 0}
    <3>1. Top.true = {} /\ Top.false = {} /\ Top.goto2 = 0 /\ ListsOf(Top.st) = {}
      BY <2>1, <2>3, NoListsOf DEF Framed
    <3>2. QED BY <2>4, <3>1, HeldIs
  <2>30. h \notin ListsOf(st) /\ h \notin Waiting(idGoto) /\ ListsOf(st) \cap Waiting(idGoto) = {}
    BY <2>2, <2>4, <2>29, TopApart
  <2>31. /\ \A j \in st.lists["break"] : ta_code.gotos[j].want = <<"after", id>>
         /\ \A j \in st.lists["continue"] :
               \E i \in 1 .. m : Encloses(Loops, stack, m, i) /\ ta_code.gotos[j].want = <<Onward(stack[i].kind), stack[i].id>>
         /\ \A j \in st.lists["return"] : ta_code.gotos[j].want = <<"end", 0>>
    <3>1. PICK at : at = m + 1
      OBVIOUS
    <3>2. at \in Nat /\ at # 0 /\ Wants(st, stack, at, ta_code) /\ stack[at].kind = "switch" /\ stack[at].id = id
      BY <2>1, <2>3, <2>4, <3>1
    <3>3. at - 1 = m
      BY <2>3, <3>1
    <3>4. /\ \A j \in st.lists["break"] : ta_code.gotos[j].want = <<"after", id>>
          /\ \A j \in st.lists["continue"] :
                \E i \in 1 .. at - 1 : Encloses(Loops, stack, at - 1, i) /\ ta_code.gotos[j].want = <<Onward(stack[i].kind), stack[i].id>>
          /\ \A j \in st.lists["return"] : ta_code.gotos[j].want = <<"end", 0>>
      BY <3>2, WantsSwitch
    <3>5. QED BY <3>3, <3>4
  <2>32. \A j \in ListsOf(st) : c.gotos[j].want = ta_code.gotos[j].want
    BY <2>5, <2>16 DEF Onto, Grows
  <2>33. Nexts(r, c, q, c.instrs)
    <3>1. Nexts(st, c, q, ta_code.instrs)
      BY <2>3, <2>4, <2>16, <2>28, NextsStay
    <3>2. \A j \in st.lists["break"] \cup {g} : c.gotos[j].want = <<"after", id>>
      BY <2>17, <2>31, <2>32, ListsAre
    <3>3. \A j \in r.lists["next"] : c.gotos[j].want[1] \in {"after", "else"}
      BY <2>21, <3>1, <3>2 DEF Nexts
    <3>4. NextOf(r) = r.lists["next"] /\ NextOf(st) \subseteq NextOf(r) /\ g \in NextOf(r)
      BY <2>21 DEF NextOf
    <3>5. ASSUME NEW j \in NextOf(r)
          PROVE  /\ c.gotos[j].want \in DOMAIN q
                 /\ \/ q[c.gotos[j].want] = c.instrs
                    \/ \E k \in NextOf(r) : c.gotos[k].at = q[c.gotos[j].want] /\ ~c.gotos[k].cond
      <4>1. CASE j \in st.lists["break"] \cup {g}
        BY <2>28, <3>2, <4>1
      <4>2. CASE j \in NextOf(st)
        BY <2>17, <3>1, <3>4, <4>2 DEF Nexts
      <4>3. QED BY <2>21, <3>4, <4>1, <4>2 DEF NextOf
    <3>6. QED BY <3>3, <3>5 DEF Nexts
  <2>34. Wants(r, stack, m, c)
    BY <2>21, <2>31, <2>32, ListsAre DEF Wants
  <2>35. NamesAt(c, idLabel, idGoto, q)
    BY <2>2, <2>16, <2>28, NamesNow
  <2>36. CasesAt(Below, c, lbl, q)
    <3>1. PICK t : t = Below
      OBVIOUS
    <3>2. Len(t) = m /\ \A i \in 1 .. m : t[i] = stack[i]
      BY <2>2, <3>1, BelowIs
    <3>3. \A k \in Keys : lbl[k] = NoLabel
      BY <2>1, <2>26, GoesOn, <2>2 DEF Going, IInv, Shaped, Switched, Topped
    <3>4. /\ \A i \in 1 .. m, k \in Keys : stack[i].own[k] = 0
          /\ \A i \in 1 .. m : stack[i].kind \notin {"case", "default"}
      <4>1. /\ \A i \in 1 .. Len(stack), k \in Keys : stack[i].own[k] # 0 => i = m + 1
            /\ \A i \in 1 .. m : stack[i].kind \notin {"case", "default"}
        BY <2>1, <2>2, SwitchOwns
      <4>2. \A i \in 1 .. m : i \in 1 .. Len(stack) /\ i # m + 1
        BY <2>3
      <4>3. QED BY <4>1, <4>2
    <3>5. CasesAt(t, c, lbl, q)
      BY <3>2, <3>3, <3>4 DEF CasesAt
    <3>6. QED BY <3>1, <3>5
  <2>37. AllLanded(c, Freed(c, ListsOf(r) \cup Waiting(idGoto)), q)
    <3>1. PICK U : U = Freed(c, ListsOf(r) \cup Waiting(idGoto))
      OBVIOUS
    <3>2. \A j \in U : j = h \/ TestJump(c, j)
      BY <2>4, <2>8, <2>10, <2>12, <2>15, <2>22, <2>29, <3>1, JumpsPositive DEF Freed, TopHeld
    <3>3. Landed(c, U, q, h)
      BY <2>17, <2>23, <2>28 DEF Landed
    <3>4. ASSUME NEW j \in U, TestJump(c, j) PROVE Landed(c, U, q, j)
      <4>1. PICK k \in Keys : /\ lblSwitch[k] # NoLabel /\ c.gotos[j].want = <<"case", Top.own[k]>>
                              /\ c.gotos[j].label = lblSwitch[k]
        BY <3>4 DEF TestJump
      <4>2. PICK z : z = <<"case", Top.own[k]>>
        OBVIOUS
      <4>3. Marks(ta_code, lblSwitch[k], place, z)
        BY <2>1, <2>2, <4>1, <4>2, SwitchOwns
      <4>4. Marks(c, lblSwitch[k], q, z)
        BY <2>16, <2>28, <4>3, MarksStay
      <4>5. QED BY <4>1, <4>2, <4>4 DEF Landed, Marks
    <3>5. QED BY <3>1, <3>2, <3>3, <3>4 DEF AllLanded
  <2>38. /\ ListsOf(r) \cup Waiting(idGoto) \subseteq JumpsOf(c)
         /\ (ListsOf(r) \cup Waiting(idGoto)) \cap JumpsOf(ta_code) \subseteq TopHeld
         /\ ListsOf(r) \cap Waiting(idGoto) = {} /\ one \cap JumpsOf(ta_code) \subseteq TopHeld
    <3>1. JumpsOf(ta_code) \subseteq JumpsOf(c)
      BY <2>16 DEF Onto, Grows
    <3>2. QED BY <2>3, <2>4, <2>5, <2>8, <2>11, <2>17, <2>22, <2>29, <2>30, <3>1 DEF TopHeld
  <2>39. place' = q
    BY <2>23
  <2>40. QED BY <2>2, <2>15, <2>16, <2>25, <2>27, <2>33, <2>34, <2>35, <2>36, <2>37, <2>38, <2>39, ReduceLands
<1>2. QED BY <1>0, <1>1

\* A case or a default whose statement has no continue.
CaseEnds(c, st, lbl) ==
    /\ Reduce(c, st, <<>>) /\ st.lists["continue"] = {} /\ st.lists["break"] = value.st.lists["break"]
    /\ st.lists["return"] = value.st.lists["return"] /\ value.st.lists["continue"] = {}
    /\ st.lists["next"] \in {value.st.lists["next"], value.st.lists["next"] \cup value.st.lists["break"]}
    /\ CaseSet(lbl, lblSwitch, Top.l2, Top.l1)
    /\ lblSwitch' = lbl /\ idLabel' = idLabel /\ idGoto' = idGoto

\* The label of the case is that of the switch's point for it.
LEMMA CaseKnown ==
    ASSUME NEW m, Topped(m), Top.kind \in {"case", "default"}, NEW lbl, CaseSet(lbl, lblSwitch, Top.l2, Top.l1),
           NEW c, NEW ps, Onto(ta_code, c, ps), NEW q, Extends(place, q), NEW t, t = Below
    PROVE  CasesAt(t, c, lbl, q)
<1>1. /\ m \in Nat /\ m + 1 = Len(stack) /\ Top = stack[m + 1] /\ FrameAt(Top, ta_code, place)
      /\ CasesAt(stack, ta_code, lblSwitch, place) /\ Lettered(stack) /\ Framed(Top, ta_code)
  BY TopNow
<1>2. Going /\ fault = "none"
  BY GoesOn DEF Topped
<1>3. OwnCases(stack, lblSwitch) /\ Switched(stack, ta_code, lblSwitch, tmpSwitch)
  BY <1>2 DEF Going, IInv, Right, Shaped
<1>4. PICK old, k, l, id : old = lblSwitch /\ k = Top.l2 /\ l = Top.l1 /\ id = Top.id
  OBVIOUS
<1>5. k \in Keys /\ id # 0 /\ Marks(ta_code, l, place, <<"case", id>>)
  <2>1. m + 1 \in 1 .. Len(stack)
    BY <1>1
  <2>2. QED BY <1>1, <1>4, <2>1 DEF Lettered, CasesAt, FrameAt
<1>6. PICK i \in 1 .. m : stack[i].own[k] = id
  <2>1. m + 1 \in 1 .. Len(stack)
    BY <1>1
  <2>2. PICK i \in 1 .. Len(stack) : i < m + 1 /\ stack[i].own[k] = id
    BY <1>1, <1>4, <2>1 DEF CasesAt
  <2>3. QED BY <1>1, <2>2
<1>7. Marks(c, l, q, <<"case", id>>)
  BY <1>5, MarksStay
<1>8. \A x \in Keys : lbl[x] = IF x = k /\ old[x] = NoLabel THEN l ELSE old[x]
  <2>1. old \in [Keys -> Nat]
    BY <1>3, <1>4 DEF Switched
  <2>2. QED BY <1>4, <2>1 DEF CaseSet
<1>9. Len(t) = m /\ \A j \in 1 .. m : t[j] = stack[j]
  BY BelowIs
<1>10. ASSUME NEW j \in 1 .. m, stack[j].own[k] # 0 PROVE stack[j].own[k] = id
  <2>1. \A a \in 1 .. Len(stack) : j < a => stack[a].kind # "switch"
    BY <1>1, <1>3, <1>5, <1>10 DEF OwnCases
  <2>2. \A a \in 1 .. Len(stack) : i < a => stack[a].kind # "switch"
    BY <1>1, <1>3, <1>5, <1>6 DEF OwnCases
  <2>3. stack[j].kind = "switch" /\ stack[i].kind = "switch"
    <3>1. i \in 1 .. Len(stack) /\ j \in 1 .. Len(stack)
      BY <1>1
    <3>2. Framing(stack, ta_code, statements)
      BY TopNow
    <3>3. Framed(stack[i], ta_code) /\ Framed(stack[j], ta_code)
      BY <3>1, <3>2 DEF Framing
    <3>4. QED BY <1>5, <1>6, <1>10, <3>3 DEF Framed
  <2>4. i = j
    BY <1>1, <2>1, <2>2, <2>3
  <2>5. QED BY <1>6, <2>4
<1>11. ASSUME NEW j \in 1 .. m, NEW x \in Keys, stack[j].own[x] # 0
       PROVE  /\ <<"case", stack[j].own[x]>> \in DOMAIN q
              /\ lbl[x] # NoLabel => Marks(c, lbl[x], q, <<"case", stack[j].own[x]>>)
  <2>1. j \in 1 .. Len(stack)
    BY <1>1
  <2>2. PICK p : p = <<"case", stack[j].own[x]>>
    OBVIOUS
  <2>3. p \in DOMAIN place /\ (old[x] # NoLabel => Marks(ta_code, old[x], place, p))
    BY <1>1, <1>4, <1>11, <2>1, <2>2 DEF CasesAt
  <2>4. p \in DOMAIN q /\ (old[x] # NoLabel => Marks(c, old[x], q, p))
    BY <2>3, MarksStay DEF Extends
  <2>5. CASE x = k /\ old[x] = NoLabel
    BY <1>7, <1>8, <1>10, <1>11, <2>2, <2>4, <2>5
  <2>6. CASE ~(x = k /\ old[x] = NoLabel)
    BY <1>8, <2>2, <2>4, <2>6
  <2>7. QED BY <2>5, <2>6
<1>12. ASSUME NEW x \in Keys, lbl[x] # NoLabel PROVE \E j \in 1 .. m : stack[j].own[x] # 0
  <2>1. CASE x = k
    BY <1>5, <1>6, <2>1
  <2>2. CASE x # k
    <3>1. old[x] # NoLabel
      BY <1>8, <1>12, <2>2
    <3>2. PICK j \in 1 .. Len(stack) : stack[j].own[x] # 0
      BY <1>1, <1>4, <3>1 DEF CasesAt
    <3>3. j # m + 1
      <4>1. Top.own[x] = 0
        BY <1>1 DEF Framed
      <4>2. QED BY <1>1, <3>2, <4>1
    <3>4. QED BY <1>1, <3>2, <3>3
  <2>3. QED BY <2>1, <2>2
<1>13. ASSUME NEW j \in 1 .. m, stack[j].kind \in {"case", "default"}
       PROVE  stack[j].id # 0 /\ \E a \in 1 .. m : a < j /\ stack[a].own[stack[j].l2] = stack[j].id
  <2>1. j \in 1 .. Len(stack)
    BY <1>1
  <2>2. stack[j].id # 0 /\ \E a \in 1 .. Len(stack) : a < j /\ stack[a].own[stack[j].l2] = stack[j].id
    BY <1>1, <1>13, <2>1 DEF CasesAt
  <2>3. PICK a \in 1 .. Len(stack) : a < j /\ stack[a].own[stack[j].l2] = stack[j].id
    BY <2>2
  <2>4. a \in 1 .. m
    BY <1>1, <2>3
  <2>5. QED BY <2>2, <2>3, <2>4
<1>14. QED BY <1>9, <1>11, <1>12, <1>13 DEF CasesAt

LEMMA CaseLands ==
    ASSUME NEW m, Topped(m), value.ready, Top.kind \in {"case", "default"}, NEW c, Coded(c), NEW ps, Onto(ta_code, c, ps),
           ps \cap JumpsOf(ta_code) \subseteq ListsOf(value.st), JumpsOf(c) = JumpsOf(ta_code), c.instrs = ta_code.instrs,
           NEW st, NEW lbl, CaseEnds(c, st, lbl)
    PROVE  LInv'
<1>1. /\ m \in Nat /\ m + 1 = Len(stack) /\ Top = stack[m + 1] /\ Coded(ta_code) /\ Framed(Top, ta_code)
      /\ StmtOK(value.st, ta_code) /\ Waiting(idGoto) \subseteq JumpsOf(ta_code)
      /\ Wants(value.st, stack, m + 1, ta_code) /\ Nexts(value.st, ta_code, place, ta_code.instrs)
  BY TopNow
<1>2. PICK was, q, none, w, labels : /\ was = value.st /\ q = place' /\ none = <<>>
                                     /\ w = idGoto /\ labels = idLabel
  OBVIOUS
<1>3. /\ Reduce(c, st, none) /\ st.lists["continue"] = {} /\ st.lists["break"] = was.lists["break"]
      /\ st.lists["return"] = was.lists["return"] /\ was.lists["continue"] = {}
      /\ st.lists["next"] = was.lists["next"] \/ st.lists["next"] = was.lists["next"] \cup was.lists["break"]
      /\ CaseSet(lbl, lblSwitch, Top.l2, Top.l1)
      /\ lblSwitch' = lbl /\ idLabel' = labels /\ idGoto' = w
  BY <1>2 DEF CaseEnds
<1>4. EndPoints(none)
  BY <1>2 DEF EndPoints
<1>5. Extends(place, q)
  BY <1>2, <1>3, <1>4, EndJoins
<1>6. ListsOf(st) = ListsOf(was)
  BY <1>3, ListsAre
<1>7. NextOf(st) = NextOf(was)
  BY <1>3 DEF NextOf
<1>8. HeldBy(Top) = {0}
  <2>1. Top.true = {} /\ Top.false = {} /\ Top.goto1 = 0 /\ Top.goto2 = 0 /\ ListsOf(Top.st) = {}
    BY <1>1, NoListsOf DEF Framed
  <2>2. QED BY <2>1, HeldIs
<1>9. /\ Wants(was, stack, m, c) /\ Nexts(was, c, q, ta_code.instrs)
  <2>1. stack[m + 1].kind \notin Breakable
    BY <1>1 DEF Breakable, Loops
  <2>2. Wants(was, stack, m, ta_code)
    BY <1>1, <1>2, <2>1, WantsOff
  <2>3. Wants(was, stack, m, c)
    BY <1>1, <1>2, <2>2, WantsStay
  <2>4. Nexts(was, c, q, ta_code.instrs)
    BY <1>1, <1>2, <1>5, NextsStay
  <2>5. QED BY <2>3, <2>4
<1>10. Wants(st, stack, m, c)
  BY <1>3, <1>9 DEF Wants
<1>11. Nexts(st, c, q, c.instrs)
  <2>1. \A g \in was.lists["break"] : c.gotos[g].want[1] = "after"
    BY <1>9 DEF Wants
  <2>2. \A g \in st.lists["next"] : c.gotos[g].want[1] \in {"after", "else"}
    BY <1>3, <1>9, <2>1 DEF Nexts
  <2>3. QED BY <1>7, <1>9, <2>2 DEF Nexts
<1>12. NamesAt(c, labels, w, q)
  BY <1>2, <1>5, NamesNow
<1>13. CasesAt(Below, c, lbl, q)
  BY <1>3, <1>5, CaseKnown
<1>14. ListsOf(was) \cap Waiting(idGoto) = {} /\ ListsOf(was) \subseteq JumpsOf(ta_code)
  <2>1. ListsOf(was) \cap Waiting(idGoto) = {}
    BY <1>2, TopApart
  <2>2. ListsOf(was) \subseteq JumpsOf(ta_code)
    BY <1>1, <1>2 DEF StmtOK, ListsOf
  <2>3. QED BY <2>1, <2>2
<1>15. AllLanded(c, Freed(c, ListsOf(st) \cup Waiting(w)), q)
  <2>1. Freed(c, ListsOf(st) \cup Waiting(w)) = {}
    BY <1>2, <1>6, <1>8, JumpsPositive DEF Freed, TopHeld
  <2>2. QED BY <2>1 DEF AllLanded
<1>16. /\ ListsOf(st) \cup Waiting(w) \subseteq JumpsOf(c)
       /\ (ListsOf(st) \cup Waiting(w)) \cap JumpsOf(ta_code) \subseteq TopHeld
       /\ ListsOf(st) \cap Waiting(w) = {} /\ ps \cap JumpsOf(ta_code) \subseteq TopHeld
  BY <1>1, <1>2, <1>6, <1>14 DEF TopHeld
<1>17. place' = q
  BY <1>2
<1>18. QED BY <1>3, <1>4, <1>10, <1>11, <1>12, <1>13, <1>15, <1>16, <1>17, ReduceLands

LEMMA ReduceCaseLands == ASSUME IInv, LInv, ReduceCase PROVE LInv'
<1>0. CASE fault' # "none"
  BY <1>0, Faulty
<1>1. CASE fault' = "none"
  <2>1. /\ value.ready /\ Top.kind = "case" /\ phase = "parse" /\ fault = "none"
        /\ value.st.lists["continue"] = {}
    BY <1>1 DEF ReduceCase, Reducing, Blame
  <2>2. PICK m : Topped(m)
    BY <2>1, ToppedIs
  <2>3. PICK c, none, lbl, was : c = ta_code /\ none = {} /\ lbl = lblSwitch' /\ was = value.st
    OBVIOUS
  <2>4. Coded(ta_code) /\ StmtOK(was, ta_code)
    BY <2>2, <2>3, TopNow
  <2>5. Onto(ta_code, c, none) /\ Coded(c)
    BY <2>3, <2>4, OntoSelf
  <2>6. PICK a, ls : a = was.lists /\ Uncontinued(ls, a)
    BY DEF Uncontinued
  <2>7. /\ ls \in [Lists -> SUBSET JumpsOf(c)]
        /\ ls["next"] = a["next"] /\ ls["break"] = a["break"] /\ ls["continue"] = {} /\ ls["return"] = a["return"]
    <3>1. a \in [Lists -> SUBSET JumpsOf(c)]
      BY <2>3, <2>4, <2>6, ListsIn
    <3>2. QED BY <2>6, <3>1, UncontinuedIs
  <2>8. PICK r : r = Stmt(ls)
    OBVIOUS
  <2>9. r.lists = ls
    BY <2>7, <2>8, StmtIs
  <2>10. /\ Reduce(c, r, <<>>) /\ CaseSet(lbl, lblSwitch, Top.l2, Top.l1)
         /\ lblSwitch' = lbl /\ idLabel' = idLabel /\ idGoto' = idGoto
    BY <2>3, <2>6, <2>8 DEF ReduceCase, Uncontinued, CaseSet
  <2>11. CaseEnds(c, r, lbl)
    BY <2>1, <2>3, <2>6, <2>7, <2>9, <2>10 DEF CaseEnds
  <2>12. none \cap JumpsOf(ta_code) \subseteq ListsOf(value.st) /\ JumpsOf(c) = JumpsOf(ta_code) /\ c.instrs = ta_code.instrs
    BY <2>3
  <2>13. QED BY <2>1, <2>2, <2>5, <2>11, <2>12, CaseLands
<1>2. QED BY <1>0, <1>1

LEMMA ReduceDefaultLands == ASSUME IInv, LInv, ReduceDefault PROVE LInv'
<1>0. CASE fault' # "none"
  BY <1>0, Faulty
<1>1. CASE fault' = "none"
  <2>1. /\ value.ready /\ Top.kind = "default" /\ phase = "parse" /\ fault = "none"
        /\ value.st.lists["continue"] = {}
    BY <1>1 DEF ReduceDefault, Reducing, Blame
  <2>2. PICK m : Topped(m)
    BY <2>1, ToppedIs
  <2>3. PICK lbl, was, next, l, c : /\ lbl = lblSwitch' /\ was = value.st /\ next = was.lists["next"] /\ l = tmpSwitch
                                    /\ c = Backpatch(ta_code, next, l)
    OBVIOUS
  <2>4. /\ Coded(ta_code) /\ StmtOK(was, ta_code) /\ l \in Patches(ta_code) /\ Top.l2 = Default
        /\ next \subseteq ListsOf(was)
    <3>1. Coded(ta_code) /\ StmtOK(was, ta_code) /\ Framed(Top, ta_code)
      BY <2>2, <2>3, TopNow
    <3>2. l \in Patches(ta_code)
      BY <2>1, <2>2, <2>3, Now DEF Topped, Switched
    <3>3. next \subseteq ListsOf(was)
      BY <2>3, ListsAre
    <3>4. QED BY <2>1, <3>1, <3>2, <3>3 DEF Framed
  <2>5. Onto(ta_code, c, next) /\ Coded(c) /\ JumpsOf(c) = JumpsOf(ta_code) /\ c.instrs = ta_code.instrs
    <3>1. CASE l = NoLabel
      <4>1. c = ta_code
        BY <2>3, <3>1 DEF Backpatch
      <4>2. QED BY <2>4, <4>1, OntoSelf
    <3>2. CASE l # NoLabel
      <4>1. l \in LabelsOf(ta_code)
        BY <2>4, <3>2 DEF Patches
      <4>2. QED BY <2>3, <2>4, <4>1, PatchOnto
    <3>3. QED BY <3>1, <3>2
  <2>6. PICK a, ls : a = was.lists /\ DefaultLeaves(ls, a)
    BY DEF DefaultLeaves
  <2>7. /\ ls \in [Lists -> SUBSET JumpsOf(c)]
        /\ ls["next"] = a["next"] \cup a["break"] /\ ls["break"] = a["break"]
        /\ ls["continue"] = {} /\ ls["return"] = a["return"]
    <3>1. StmtOK(was, c)
      BY <2>4, <2>5, StmtGrows DEF Onto
    <3>2. a \in [Lists -> SUBSET JumpsOf(c)]
      BY <2>6, <3>1, ListsIn
    <3>3. QED BY <2>6, <3>2, DefaultLeavesIs
  <2>8. PICK r : r = Stmt(ls)
    OBVIOUS
  <2>9. r.lists = ls
    BY <2>7, <2>8, StmtIs
  <2>10. Reduce(c, r, <<>>) /\ lblSwitch' = lbl /\ idLabel' = idLabel /\ idGoto' = idGoto
    BY <2>3, <2>6, <2>8 DEF ReduceDefault, DefaultLeaves
  <2>11. CaseSet(lbl, lblSwitch, Top.l2, Top.l1)
    BY <2>3, <2>4 DEF ReduceDefault, CaseSet
  <2>12. CaseEnds(c, r, lbl)
    BY <2>1, <2>3, <2>6, <2>7, <2>9, <2>10, <2>11 DEF CaseEnds
  <2>13. next \cap JumpsOf(ta_code) \subseteq ListsOf(value.st) /\ Top.kind \in {"case", "default"}
    BY <2>1, <2>3, <2>4
  <2>14. QED BY <2>1, <2>2, <2>5, <2>12, <2>13, CaseLands
<1>2. QED BY <1>0, <1>1

LEMMA ReduceLabelLands == ASSUME IInv, LInv, ReduceLabel PROVE LInv'
<1>0. CASE fault' # "none"
  BY <1>0, Faulty
<1>1. CASE fault' = "none"
  <2>1. /\ value.ready /\ Top.kind = "label" /\ phase = "parse" /\ fault = "none"
        /\ idLabel[Top.l2] = NoLabel /\ value.st.lists = NoLists
    BY <1>1 DEF ReduceLabel, Reducing, Blame
  <2>2. PICK m : Topped(m)
    BY <2>1, ToppedIs
  <2>3. /\ m \in Nat /\ m + 1 = Len(stack) /\ Top = stack[m + 1] /\ Coded(ta_code) /\ Framed(Top, ta_code)
        /\ FrameAt(Top, ta_code, place) /\ Waiting(idGoto) \subseteq JumpsOf(ta_code)
        /\ NamesAt(ta_code, idLabel, idGoto, place)
    BY <2>2, TopNow
  <2>4. PICK n, l, list, none : n = Top.l2 /\ l = Top.l1 /\ list = idGoto[n] /\ none = <<>>
    OBVIOUS
  <2>5. n \in Names /\ Marks(ta_code, l, place, <<"label", n>>) /\ l \in LabelsOf(ta_code)
    BY <2>1, <2>3, <2>4 DEF Framed, FrameAt, Marks
  <2>6. PICK c : c = Backpatch(ta_code, list, l)
    OBVIOUS
  <2>7. /\ Onto(ta_code, c, list) /\ Coded(c) /\ JumpsOf(c) = JumpsOf(ta_code)
        /\ \A g \in JumpsOf(ta_code) : c.gotos[g].label = IF g \in list THEN l ELSE ta_code.gotos[g].label
    BY <2>3, <2>5, <2>6, PatchOnto
  <2>8. PICK r, ls : r = Stmt(ls) /\ ls = NoLists
    OBVIOUS
  <2>9. r.lists = ls /\ \A k \in Lists : r.lists[k] = {}
    <3>1. ls \in [Lists -> SUBSET JumpsOf(c)]
      BY <2>8 DEF NoLists
    <3>2. QED BY <2>8, <3>1, StmtIs DEF NoLists
  <2>10. ListsOf(r) = {} /\ NextOf(r) = {}
    BY <2>9 DEF ListsOf, NextOf, Lists
  <2>11. PICK labels, w, q : labels = idLabel' /\ w = idGoto' /\ q = place'
    OBVIOUS
  <2>12. Reduce(c, r, none) /\ UNCHANGED <<lblSwitch, tmpSwitch>>
    BY <2>1, <2>4, <2>6, <2>8 DEF ReduceLabel, Resolve
  <2>13. /\ labels = [idLabel EXCEPT ![n] = l] /\ w = [idGoto EXCEPT ![n] = {}]
    BY <2>1, <2>4, <2>11 DEF ReduceLabel
  <2>14. idLabel \in [Names -> Int] /\ idGoto \in [Names -> SUBSET Nat]
    <3>1. Going
      BY <2>1, <2>2, GoesOn DEF Topped
    <3>2. QED BY <3>1 DEF Going, IInv, Shaped, Named
  <2>15. /\ labels[n] = l /\ w[n] = {}
         /\ \A x \in Names : x # n => labels[x] = idLabel[x] /\ w[x] = idGoto[x]
    BY <2>5, <2>13, <2>14
  <2>16. /\ list \subseteq Waiting(idGoto) /\ Waiting(w) \subseteq Waiting(idGoto) /\ Waiting(idGoto) \subseteq Waiting(w) \cup list
    BY <2>4, <2>5, <2>15 DEF Waiting
  <2>17. EndPoints(none)
    BY <2>4 DEF EndPoints
  <2>18. Extends(place, q)
    BY <2>2, <2>11, <2>12, <2>17, EndJoins
  <2>19. Marks(c, l, q, <<"label", n>>)
    BY <2>5, <2>7, <2>18, MarksStay
  <2>20. NamesAt(c, labels, w, q)
    <3>1. NamesAt(c, idLabel, idGoto, q)
      BY <2>2, <2>7, <2>18, NamesNow
    <3>2. QED BY <2>15, <2>19, <3>1 DEF NamesAt
  <2>21. PICK t : t = Below
    OBVIOUS
  <2>22. CasesAt(t, c, lblSwitch, q)
    <3>1. Len(t) = m /\ \A i \in 1 .. m : t[i] = stack[i]
      BY <2>2, <2>21, BelowIs
    <3>2. Top.kind # "switch"
      BY <2>1
    <3>3. QED BY <2>2, <2>7, <2>18, <3>1, <3>2, CasesNow
  <2>23. Wants(r, stack, m, c) /\ Nexts(r, c, q, c.instrs)
    BY <2>9, <2>10 DEF Wants, Nexts, Lists
  <2>24. HeldBy(Top) = {0}
    <3>1. Top.true = {} /\ Top.false = {} /\ Top.goto1 = 0 /\ Top.goto2 = 0 /\ ListsOf(Top.st) = {}
      BY <2>1, <2>3, NoListsOf DEF Framed
    <3>2. QED BY <3>1, HeldIs
  <2>25. ListsOf(value.st) = {}
    BY <2>1 DEF ListsOf, NoLists
  <2>26. AllLanded(c, Freed(c, ListsOf(r) \cup Waiting(w)), q)
    <3>1. PICK U : U = Freed(c, ListsOf(r) \cup Waiting(w))
      OBVIOUS
    <3>2. U \subseteq list /\ U \subseteq JumpsOf(ta_code)
      BY <2>7, <2>16, <2>24, <2>25, <3>1, JumpsPositive DEF Freed, TopHeld
    <3>3. ASSUME NEW g \in U PROVE Landed(c, U, q, g)
      <4>1. g \in list /\ g \in JumpsOf(ta_code)
        BY <3>2
      <4>2. ta_code.gotos[g].want = <<"label", n>>
        BY <2>3, <2>4, <2>5, <4>1 DEF NamesAt
      <4>3. c.gotos[g].want = <<"label", n>> /\ c.gotos[g].label = l
        BY <2>7, <4>1, <4>2 DEF Onto, Grows
      <4>4. QED BY <2>19, <4>3 DEF Landed, Marks
    <3>4. QED BY <3>1, <3>3 DEF AllLanded
  <2>27. /\ ListsOf(r) \cup Waiting(w) \subseteq JumpsOf(c)
         /\ (ListsOf(r) \cup Waiting(w)) \cap JumpsOf(ta_code) \subseteq TopHeld
         /\ ListsOf(r) \cap Waiting(w) = {} /\ list \cap JumpsOf(ta_code) \subseteq TopHeld
    BY <2>3, <2>7, <2>10, <2>16 DEF TopHeld
  <2>28. place' = q /\ idLabel' = labels /\ idGoto' = w /\ lblSwitch' = lblSwitch /\ CasesAt(Below, c, lblSwitch, q)
    BY <2>11, <2>12, <2>21, <2>22
  <2>29. QED BY <2>2, <2>7, <2>12, <2>17, <2>20, <2>23, <2>26, <2>27, <2>28, ReduceLands
<1>2. QED BY <1>0, <1>1

(***************************************************************************)
(* The end of a function, and the next one.                                *)
(***************************************************************************)
\* When the body ends, only its returns and what its last statement leaves
\* open are held; they go to the function's end.
LEMMA EndLands ==
    ASSUME NEW top, ListsOf(top.st) = top.st.lists["next"] \cup top.st.lists["return"], top.st.lists["break"] = {},
           Wants(top.st, stack, 0, ta_code), Nexts(top.st, ta_code, place, ta_code.instrs), StmtOK(top.st, ta_code),
           NEW c, Onto(ta_code, c, ListsOf(top.st)), Coded(c), JumpsOf(c) = JumpsOf(ta_code), NEW l \in LabelsOf(c),
           c.labels[l] = ta_code.instrs, \A g \in ListsOf(top.st) : c.gotos[g].label = l,
           NEW q, Extends(place, q), <<"end", 0>> \in DOMAIN q, q[<<"end", 0>>] = ta_code.instrs,
           NEW U, U \subseteq JumpsOf(ta_code), U \cap ListsOf(top.st) = {}, JumpsOf(ta_code) = U \cup ListsOf(top.st),
           AllLanded(ta_code, U, place)
    PROVE  AllLanded(c, JumpsOf(c), q)
<1>1. PICK st, ps, J : st = top.st /\ ps = ListsOf(st) /\ J = JumpsOf(c)
  OBVIOUS
<1>2. U \subseteq J /\ ps \subseteq J
  BY <1>1
<1>3. ASSUME NEW g \in U PROVE Landed(c, J, q, g)
  <2>1. Landed(ta_code, U, place, g)
    BY <1>3 DEF AllLanded
  <2>2. U \in SUBSET JumpsOf(ta_code) /\ U \cap ps = {} /\ U \subseteq J /\ Onto(ta_code, c, ps)
    BY <1>1, <1>2
  <2>3. QED BY <1>3, <2>1, <2>2, LandedStays
<1>4. ASSUME NEW g \in st.lists["return"] PROVE Landed(c, J, q, g)
  <2>1. g \in ps /\ g \in JumpsOf(ta_code)
    BY <1>1, <1>2, <1>4
  <2>2. ta_code.gotos[g].want = <<"end", 0>>
    BY <1>1, <1>4 DEF Wants
  <2>3. c.gotos[g].want = <<"end", 0>> /\ c.gotos[g].label = l
    BY <1>1, <2>1, <2>2 DEF Onto, Grows
  <2>4. QED BY <2>3 DEF Landed
<1>5. ASSUME NEW g \in st.lists["next"] PROVE Landed(c, J, q, g)
  <2>1. Nexts(st, c, q, ta_code.instrs)
    <3>1. Onto(ta_code, c, ps) /\ Nexts(st, ta_code, place, ta_code.instrs) /\ StmtOK(st, ta_code)
      BY <1>1
    <3>2. QED BY <3>1, NextsStay
  <2>2. NextOf(st) = st.lists["next"] /\ NextOf(st) \subseteq ps
    BY <1>1 DEF NextOf
  <2>3. Patched(st, c, ta_code.instrs)
    BY <1>1, <2>2 DEF Patched
  <2>4. QED BY <1>2, <1>5, <2>1, <2>2, <2>3, NextLands
<1>6. \A g \in J : g \in U \/ g \in st.lists["next"] \/ g \in st.lists["return"]
  BY <1>1
<1>7. QED BY <1>1, <1>3, <1>4, <1>5, <1>6 DEF AllLanded

LEMMA EndFunctionLands == ASSUME IInv, LInv, EndFunction PROVE LInv'
<1>0. CASE fault' # "none"
  BY <1>0, Faulty
<1>1. CASE fault' = "none"
  <2>1. /\ BodyEnds /\ phase = "parse" /\ fault = "none"
        /\ \A m \in Names : idGoto[m] = {} \/ <<"label", m>> \in DOMAIN place
    BY <1>1 DEF EndFunction, BodyEnds, Blame
  <2>2. PICK top : top = Top
    OBVIOUS
  <2>3. /\ Going /\ Len(stack) = 1 /\ value.st = Null /\ ~value.ready /\ Framed(top, ta_code)
        /\ top.kind = "block" /\ top.st.lists["break"] = {} /\ top.st.lists["continue"] = {}
        /\ \A x \in Names : ~Labelling(stack, x)
        /\ \A i \in 1 .. Len(stack) : i = 1 /\ stack[i] = top
    BY <2>1, <2>2, BodyIs
  <2>4. \A x \in Names : idGoto[x] = {}
    <3>1. Named(stack, ta_code, idLabel, idGoto, place)
      BY <2>3 DEF Going, IInv, Shaped
    <3>2. QED BY <2>1, <2>3, <3>1 DEF Named
  <2>5. PICK m : Topped(m)
    BY <2>1, ToppedIs
  <2>6. /\ m = 0 /\ Coded(ta_code) /\ Wants(top.st, stack, 0, ta_code) /\ ListAt(top, FALSE, ta_code, place)
        /\ Dated(place, statements) /\ AllLanded(ta_code, Unheld(ta_code, stack, value.st, idGoto), place)
    <3>1. /\ m \in Nat /\ m + 1 = Len(stack) /\ Coded(ta_code) /\ Wants(Top.st, stack, m, ta_code)
          /\ IF value.ready THEN ListAt(Top, TRUE, ta_code, place) ELSE ListAt(Top, FALSE, ta_code, place)
          /\ Dated(place, statements) /\ AllLanded(ta_code, Unheld(ta_code, stack, value.st, idGoto), place)
      BY <2>5, TopNow
    <3>2. m = 0
      BY <2>3, <3>1
    <3>3. ListAt(Top, FALSE, ta_code, place)
      BY <2>3, <3>1
    <3>4. QED BY <2>2, <3>1, <3>2, <3>3
  <2>7. Nexts(top.st, ta_code, place, ta_code.instrs) /\ StmtOK(top.st, ta_code)
    <3>1. Nexts(top.st, ta_code, place, ta_code.instrs)
      BY <2>3, <2>6, Zenon DEF ListAt
    <3>2. QED BY <2>3, <3>1 DEF Framed
  <2>8. PICK ret, next : ret = top.st.lists["return"] /\ next = top.st.lists["next"]
    OBVIOUS
  <2>9. ListsOf(top.st) = next \cup ret
    BY <2>3, <2>8, ListsAre
  <2>10. PICK n, l : n = NewLabel(ta_code) /\ l = LastLabel(n)
    OBVIOUS
  <2>11. /\ Onto(ta_code, n, {}) /\ JumpsOf(n) = JumpsOf(ta_code) /\ n.instrs = ta_code.instrs /\ Coded(n)
         /\ l \in LabelsOf(n) /\ n.labels[l] = ta_code.instrs
    BY <2>6, <2>10, LabelOnto
  <2>12. PICK d : d = Backpatch(n, ret, l)
    OBVIOUS
  <2>13. /\ Onto(n, d, ret) /\ Coded(d) /\ JumpsOf(d) = JumpsOf(n) /\ LabelsOf(d) = LabelsOf(n) /\ d.labels = n.labels
         /\ d.instrs = n.instrs /\ \A g \in JumpsOf(n) : g \in ret => d.gotos[g].label = l
    BY <2>11, <2>12, PatchOnto
  <2>14. PICK c : c = Backpatch(d, next, l)
    OBVIOUS
  <2>15. /\ Onto(d, c, next) /\ Coded(c) /\ JumpsOf(c) = JumpsOf(d) /\ LabelsOf(c) = LabelsOf(d) /\ c.labels = d.labels
         /\ c.instrs = d.instrs
         /\ \A g \in JumpsOf(d) : c.gotos[g].label = IF g \in next THEN l ELSE d.gotos[g].label
    <3>1. l \in LabelsOf(d)
      BY <2>11, <2>13
    <3>2. QED BY <2>13, <2>14, <3>1, PatchOnto
  <2>16. PICK ps : ps = ListsOf(top.st)
    OBVIOUS
  <2>17. Onto(ta_code, c, ps)
    <3>1. Onto(n, c, ps)
      <4>1. (ret \cup next) \cap JumpsOf(n) \subseteq ps
        BY <2>9, <2>16
      <4>2. QED BY <2>13, <2>15, <4>1, OntoOn
    <3>2. ({} \cup ps) \cap JumpsOf(ta_code) \subseteq ps
      OBVIOUS
    <3>3. QED BY <2>11, <3>1, <3>2, OntoOn
  <2>18. /\ JumpsOf(c) = JumpsOf(ta_code) /\ l \in LabelsOf(c) /\ c.labels[l] = ta_code.instrs
         /\ c.instrs = ta_code.instrs /\ \A g \in ps : c.gotos[g].label = l
    <3>1. ps \subseteq JumpsOf(ta_code)
      BY <2>7, <2>16 DEF StmtOK, ListsOf
    <3>2. QED BY <2>9, <2>11, <2>13, <2>15, <2>16, <3>1
  <2>19. PICK p1, p2, x : p1 = <<"end", 0>> /\ p2 = <<"after", 0>> /\ x = c.instrs
    OBVIOUS
  <2>20. PICK a1, a2 : a1 = (p1 :> x) /\ a2 = (p2 :> x)
    OBVIOUS
  <2>21. DOMAIN a1 = {p1} /\ a1[p1] = x
    BY <2>20, Single
  <2>22. PICK q1, q, s : q1 = place @@ a1 /\ q = q1 @@ a2 /\ s = <<>>
    OBVIOUS
  <2>23. Adds(place, a1, q1) /\ Adds(q1, a2, q)
    BY <2>22, Adding
  <2>24. p1 \notin DOMAIN place
    BY <2>6, <2>19 DEF Dated
  <2>25. Extends(place, q) /\ p1 \in DOMAIN q /\ q[p1] = ta_code.instrs
    <3>1. Extends(place, q1) /\ p1 \in DOMAIN q1 /\ q1[p1] = x
      BY <2>21, <2>23, <2>24 DEF Extends, Adds
    <3>2. Extends(q1, q)
      BY <2>22 DEF Extends, @@
    <3>3. x = ta_code.instrs
      BY <2>18, <2>19
    <3>4. QED BY <3>1, <3>2, <3>3 DEF Extends
  <2>26. /\ ta_code' = c /\ place' = q /\ stack' = s /\ phase' = "end" /\ value' = value /\ idGoto' = idGoto
    BY <2>2, <2>8, <2>10, <2>12, <2>14, <2>19, <2>20, <2>22 DEF EndFunction, globals
  <2>27. Waiting(idGoto) = {} /\ ListsOf(value.st) = {}
    <3>1. Waiting(idGoto) = {}
      BY <2>4 DEF Waiting
    <3>2. QED BY <2>3, <3>1, NoListsOf
  <2>28. PICK U : U = Unheld(ta_code, stack, value.st, idGoto)
    OBVIOUS
  <2>29. U = JumpsOf(ta_code) \ ps
    <3>1. HeldBy(top) = {0} \cup ps
      <4>1. top.true = {} /\ top.false = {} /\ top.goto1 = 0 /\ top.goto2 = 0
        BY <2>3 DEF Framed
      <4>2. QED BY <2>16, <4>1, HeldIs
    <3>2. \A g : g \in HeldIn(stack, Len(stack)) <=> g \in HeldBy(top)
      <4>1. 1 \in 1 .. Len(stack)
        BY <2>3
      <4>2. QED BY <2>3, <4>1 DEF HeldIn
    <3>3. QED BY <2>27, <2>28, <3>1, <3>2, JumpsPositive DEF Unheld
  <2>30. ps \subseteq JumpsOf(ta_code)
    BY <2>7, <2>16 DEF StmtOK, ListsOf
  <2>31. AllLanded(c, JumpsOf(c), q)
    <3>1. AllLanded(ta_code, U, place) /\ U \subseteq JumpsOf(ta_code) /\ U \cap ps = {} /\ JumpsOf(ta_code) = U \cup ps
      BY <2>6, <2>28, <2>29, <2>30
    <3>2. ListsOf(top.st) = top.st.lists["next"] \cup top.st.lists["return"]
      BY <2>8, <2>9
    <3>3. QED BY <2>3, <2>6, <2>7, <2>15, <2>16, <2>17, <2>18, <2>19, <2>25, <3>1, <3>2, EndLands
  <2>32. Unheld(c, s, value.st, idGoto) \subseteq JumpsOf(c) /\ JumpsOf(c) \subseteq Unheld(c, s, value.st, idGoto)
    <3>1. HeldIn(s, Len(s)) = {}
      BY <2>22 DEF HeldIn
    <3>2. QED BY <2>27, <3>1 DEF Unheld
  <2>33. AllLanded(c, Unheld(c, s, value.st, idGoto), q)
    <3>1. Unheld(c, s, value.st, idGoto) = JumpsOf(c)
      BY <2>32
    <3>2. QED BY <2>31, <3>1
  <2>34. QED BY <2>26, <2>33 DEF LInv
<1>2. QED BY <1>0, <1>1

LEMMA BeginningLands ==
    ASSUME NEW labels, NEW gotos, NEW lbl, NEW tmp, Blank(labels, gotos, lbl, tmp),
           NEW c, NEW s, NEW points, Begins(c, s, points)
    PROVE  AllLanded(c, Unheld(c, s, Null, gotos), points) /\ Landing(c, s, 0, Null, labels, gotos, lbl, points, 0)
<1>1. /\ \A n \in Names : gotos[n] = {} /\ labels[n] \in {NoLabel, Elsewhere}
      /\ \A k \in Keys : lbl[k] = NoLabel
      /\ c = NoCode /\ s = <<Body>> /\ points = <<>>
  BY DEF Begins, Blank
<1>2. JumpsOf(c) = {} /\ LabelsOf(c) = {} /\ DOMAIN points = {} /\ c.instrs = 0
  <2>1. c.instrs = 0 /\ c.labels = <<>> /\ c.gotos = <<>>
    BY <1>1 DEF NoCode
  <2>2. QED BY <1>1, <2>1 DEF JumpsOf, LabelsOf
<1>3. PICK f : f = Body
  OBVIOUS
<1>4. Framed(f, c) /\ Ownless(f) /\ f.st = Null /\ f.kind = "block" /\ f.id = 0
  BY <1>3, BodyFramed
<1>5. Len(s) = 1 /\ s[1] = f /\ \A i \in 1 .. Len(s) : i = 1
  BY <1>1, <1>3
<1>6. AllLanded(c, Unheld(c, s, Null, gotos), points)
  BY <1>2 DEF AllLanded, Unheld
<1>7. \A n : Wants(Null, s, n, c) /\ Nexts(Null, c, points, c.instrs)
  BY NullWants
<1>8. StackAt(s, 0, c, points)
  <2>1. FrameAt(f, c, points)
    BY <1>2, <1>4 DEF FrameAt, Framed, Loops
  <2>2. ListAt(f, FALSE, c, points)
    <3>1. Nexts(f.st, c, points, c.instrs)
      BY <1>4, <1>7
    <3>2. f.kind # "else"
      BY <1>4
    <3>3. QED BY <3>1, <3>2, Zenon DEF ListAt
  <2>3. \A i \in 1 .. Len(s) : (i <= 0) = FALSE
    BY <1>5
  <2>4. \A i \in 1 .. Len(s) : ListAt(s[i], i <= 0, c, points)
    <3>1. (1 <= 0) = FALSE
      OBVIOUS
    <3>2. ListAt(f, 1 <= 0, c, points)
      BY <2>2, <3>1
    <3>3. QED BY <1>5, <3>2, Zenon
  <2>5. \A i \in 1 .. Len(s) : FrameAt(s[i], c, points) /\ Wants(s[i].st, s, i - 1, c)
    BY <1>4, <1>5, <1>7, <2>1
  <2>6. QED BY <2>4, <2>5, Zenon DEF StackAt
<1>9. Apart(s, Null, gotos)
  <2>1. ListsOf(Null) = {} /\ Waiting(gotos) = {}
    BY <1>1, NoListsOf DEF Waiting
  <2>2. QED BY <1>5, <2>1 DEF Apart
<1>10. Distinct(s) /\ Dated(points, 0)
  BY <1>2, <1>5 DEF Distinct, Dated
<1>11. NamesAt(c, labels, gotos, points)
  BY <1>1, <1>2 DEF NamesAt
<1>12. CasesAt(s, c, lbl, points)
  BY <1>1, <1>4, <1>5 DEF CasesAt, Ownless
<1>13. QED BY <1>6, <1>7, <1>8, <1>9, <1>10, <1>11, <1>12 DEF Landing

LEMMA InitLands == ASSUME Init PROVE LInv
<1>1. /\ ta_code = NoCode /\ stack = <<Body>> /\ value = [ready |-> FALSE, st |-> Null]
      /\ tmpSwitch = NoLabel /\ place = <<>> /\ statements = 0
  BY DEF Init
<1>2. /\ idLabel \in [Names -> {NoLabel, Elsewhere}] /\ idGoto \in [Names -> SUBSET Nat]
      /\ \A n \in Names : idGoto[n] = {}
      /\ lblSwitch \in [Keys -> Nat] /\ \A k \in Keys : lblSwitch[k] = NoLabel
  BY DEF Init, Keys, NoLabel
<1>3. Begins(ta_code, stack, place) /\ Blank(idLabel, idGoto, lblSwitch, tmpSwitch)
  BY <1>1, <1>2 DEF Begins, Blank
<1>4. /\ AllLanded(ta_code, Unheld(ta_code, stack, Null, idGoto), place)
      /\ Landing(ta_code, stack, 0, Null, idLabel, idGoto, lblSwitch, place, 0)
  BY <1>3, BeginningLands
<1>5. value.st = Null /\ Depth(stack, value.ready) = 0
  <2>1. value.st = Null /\ ~value.ready /\ Len(stack) = 1
    BY <1>1
  <2>2. QED BY <2>1 DEF Depth
<1>6. QED BY <1>1, <1>4, <1>5 DEF LInv

LEMMA NextFunctionLands == ASSUME IInv, NextFunction PROVE LInv'
<1>1. /\ stack = <<>> /\ ~value.ready /\ value.st = Null /\ Switched(stack, ta_code, lblSwitch, tmpSwitch)
  BY DEF NextFunction, IInv, Shaped
<1>2. /\ lblSwitch \in [Keys -> Nat] /\ tmpSwitch = NoLabel /\ \A k \in Keys : lblSwitch[k] = NoLabel
  <2>1. ~Inside({"switch"}, stack, Len(stack))
    BY <1>1 DEF Inside
  <2>2. QED BY <1>1, <2>1 DEF Switched
<1>3. PICK c, s, points, labels, gotos : /\ c = NoCode /\ s = <<Body>> /\ points = <<>>
                                         /\ labels = idLabel' /\ gotos = idGoto'
  OBVIOUS
<1>4. /\ ta_code' = c /\ stack' = s /\ place' = points /\ statements' = 0 /\ UNCHANGED <<value, lblSwitch, tmpSwitch>>
      /\ idLabel' = labels /\ idGoto' = gotos
  BY <1>3 DEF NextFunction
<1>5. labels \in [Names -> {NoLabel, Elsewhere}] /\ gotos \in [Names -> SUBSET Nat] /\ \A n \in Names : gotos[n] = {}
  BY <1>3 DEF NextFunction
<1>6. /\ AllLanded(c, Unheld(c, s, Null, gotos), points)
      /\ Landing(c, s, 0, Null, labels, gotos, lblSwitch, points, 0)
  <2>1. Begins(c, s, points) /\ Blank(labels, gotos, lblSwitch, tmpSwitch)
    BY <1>2, <1>3, <1>5 DEF Begins, Blank
  <2>2. QED BY <2>1, BeginningLands
<1>7. Depth(s, value.ready) = 0 /\ value'.st = Null /\ value'.ready = value.ready
  <2>1. Len(s) = 1
    BY <1>3
  <2>2. QED BY <1>1, <1>4, <2>1 DEF Depth
<1>8. QED BY <1>4, <1>6, <1>7 DEF LInv

LEMMA CrashLands == ASSUME LInv, Crash PROVE LInv'
<1>1. UNCHANGED <<ta_code, stack, value, idGoto, place, fault>> /\ phase' = "crashed"
  BY DEF Crash, globals
<1>2. QED BY <1>1 DEF LInv

LEMMA DoneLands == ASSUME LInv, UNCHANGED vars PROVE LInv'
<1>1. UNCHANGED <<ta_code, stack, value, idLabel, idGoto, lblSwitch, place, statements, fault, phase>>
  BY DEF vars, globals
<1>2. QED BY <1>1 DEF LInv

(***************************************************************************)
(* The theorem.                                                            *)
(***************************************************************************)
LEMMA NextLanding == ASSUME IInv, LInv, Next PROVE LInv'
<1>1. ASSUME NEW e \in Exprs, ExpressionStatement(e) PROVE LInv'
  BY <1>1, ExpressionStatementLands
<1>2. ASSUME NEW e \in Exprs, If(e) PROVE LInv'
  BY <1>2, IfLands
<1>3. ASSUME NEW e \in Exprs, While(e) PROVE LInv'
  BY <1>3, WhileLands
<1>4. ASSUME NEW e \in Exprs, ReduceDoWhile(e) PROVE LInv'
  BY <1>4, ReduceDoWhileLands
<1>5. ASSUME NEW e \in Exprs, Switch(e) PROVE LInv'
  BY <1>5, SwitchLands
<1>6. ASSUME NEW e \in Exprs, Return(e) PROVE LInv'
  BY <1>6, ReturnLands
<1>7. ASSUME NEW i \in BOOLEAN, NullStatement(i) PROVE LInv'
  BY <1>7, NullStatementLands
<1>8. CASE OpenBlock
  BY <1>8, OpenBlockLands
<1>9. CASE NextInList
  BY <1>9, NextInListLands
<1>10. CASE CloseBlock
  BY <1>10, CloseBlockLands
<1>11. CASE Else
  BY <1>11, ElseLands
<1>12. CASE ReduceIf
  BY <1>12, ReduceIfLands
<1>13. CASE ReduceIfElse
  BY <1>13, ReduceIfElseLands
<1>14. CASE ReduceWhile
  BY <1>14, ReduceWhileLands
<1>15. CASE Do
  BY <1>15, DoLands
<1>16. ASSUME NEW e1 \in Exprs, NEW e2 \in Exprs \cup {"none"}, For(e1, e2) PROVE LInv'
  BY <1>16, ForLands
<1>17. ASSUME NEW e1 \in Exprs, NEW e3 \in Exprs, NEW e2 \in Exprs \cup {"none"}, For3(e1, e2, e3) PROVE LInv'
  BY <1>17, For3Lands
<1>18. CASE ReduceFor
  BY <1>18, ReduceForLands
<1>19. CASE ReduceSwitch
  BY <1>19, ReduceSwitchLands
<1>20. CASE ReduceCase
  BY <1>20, ReduceCaseLands
<1>21. CASE ReduceDefault
  BY <1>21, ReduceDefaultLands
<1>22. CASE NullSubstatement
  BY <1>22, CrashLands DEF NullSubstatement
<1>23. ASSUME NEW k \in Consts, CaseLabel("case", k) PROVE LInv'
  BY <1>23, CaseLabelLands DEF Keys
<1>24. CASE CaseLabel("default", Default)
  BY <1>24, CaseLabelLands DEF Keys
<1>25. ASSUME NEW n \in Names, LabelStatement(n) PROVE LInv'
  BY <1>25, LabelStatementLands
<1>26. ASSUME NEW n \in Names, GotoStatement(n) PROVE LInv'
  BY <1>26, GotoStatementLands
<1>27. CASE ReduceLabel
  BY <1>27, ReduceLabelLands
<1>28. CASE Break
  BY <1>28, BreakLands
<1>29. CASE Continue
  BY <1>29, ContinueLands
<1>30. CASE EndFunction
  BY <1>30, EndFunctionLands
<1>31. CASE EndEmptyFunction
  BY <1>31, CrashLands DEF EndEmptyFunction
<1>32. CASE NextFunction
  BY <1>32, NextFunctionLands
<1>33. CASE Done
  BY <1>33, DoneLands DEF Done
<1>34. QED
  BY <1>1, <1>2, <1>3, <1>4, <1>5, <1>6, <1>7, <1>8, <1>9, <1>10, <1>11, <1>12, <1>13, <1>14, <1>15, <1>16,
     <1>17, <1>18, <1>19, <1>20, <1>21, <1>22, <1>23, <1>24, <1>25, <1>26, <1>27, <1>28, <1>29, <1>30, <1>31,
     <1>32, <1>33
  DEF Next

LEMMA LandingKept == Spec => [](IInv /\ LInv)
<1>1. Init => IInv /\ LInv
  BY InitRight, InitLands
<1>2. IInv /\ LInv /\ [Next]_vars => (IInv /\ LInv)'
  BY NextKeeps, DoneStep, NextLanding, DoneLands
<1>3. QED BY <1>1, <1>2, PTL DEF Spec

LEMMA InvariantLands == IInv /\ LInv => JumpsLand
<1> SUFFICES ASSUME IInv, LInv, fault = "none", NEW g \in Jumps \ Held
             PROVE  /\ ta_code.gotos[g].want \in DOMAIN place /\ ta_code.gotos[g].label \in Labels
                    /\ Through(place[ta_code.gotos[g].want], ta_code.labels[ta_code.gotos[g].label])
  BY DEF JumpsLand
<1>1. Coded(ta_code) /\ Framing(stack, ta_code, statements)
  BY DEF IInv, Shaped
<1>2. DOMAIN stack = 1 .. Len(stack) /\ Jumps = JumpsOf(ta_code) /\ Labels = LabelsOf(ta_code)
  <2>1. stack \in Seq(FrameType) /\ ta_code.gotos \in Seq(JumpType)
    BY <1>1, CodedIs DEF Framing
  <2>2. QED BY <2>1 DEF Jumps, Labels, JumpsOf, LabelsOf
<1>3. PICK U : U = Unheld(ta_code, stack, value.st, idGoto)
  OBVIOUS
<1>4. g \in U /\ U \subseteq Jumps
  BY <1>2, <1>3 DEF Held, Unheld, HeldIn, ListsOf, Waiting
<1>5. Landed(ta_code, U, place, g)
  BY <1>3, <1>4 DEF LInv, AllLanded
<1>6. QED BY <1>2, <1>4, <1>5 DEF Landed, Leads, Through

\* A jump that no list holds any more goes where its statement means it to:
\* a condition's jumps to the part they choose, a break behind its loop or
\* switch, a continue to its loop's test or step, a return to the function's
\* end, a goto to its name's label and a switch's test to its case; or to where
\* a jump that is taken always leads from there.  However the statements nest,
\* until one of the faults.
THEOREM JumpsAlwaysLand == Spec => []JumpsLand
<1>1. QED BY LandingKept, InvariantLands, PTL
=============================================================================
