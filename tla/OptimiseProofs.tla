---------------------------- MODULE OptimiseProofs ----------------------------
(***************************************************************************)
(* TypeOK, CountsCover, NamesPrinted and MeaningKept are invariants of     *)
(* Optimise for every bound: a label ahead of the walk is counted for all  *)
(* jumps that lead to it, every name a jump prints is printed at a label,  *)
(* and the code does after the pass what it did before.                    *)
(*                                                                         *)
(* For the last one the invariant (MInv) has a set of places that holds    *)
(* all that the code can still come to: every place of it leads in the     *)
(* code as it is now to the end it led to in the source.                   *)
(***************************************************************************)
EXTENDS Optimise, FiniteSetTheorems, WellFoundedInduction, TLAPS

(***************************************************************************)
(* A set of numbers that has 0, and k if it has k - 1, has all; and what   *)
(* is defined for 0, and for k from k - 1, is defined for all.             *)
(***************************************************************************)
LEMMA LeastNumber ==
    ASSUME NEW S \in SUBSET Nat, S # {}
    PROVE  \E n \in S : \A k \in S : n <= k
<1>1. PICK n \in S : \A k \in S : ~(<<k, n>> \in OpToRel(<, Nat))
  BY NatLessThanWellFounded, WFMin
<1>2. \A j, k \in Nat : j < k => <<j, k>> \in OpToRel(<, Nat)
  BY DEF OpToRel
<1>3. \A k \in S : ~(k < n)
  BY <1>1, <1>2
<1>4. QED BY <1>3

LEMMA Upwards ==
    ASSUME NEW n \in Nat, NEW P, 0 \in P, \A k \in 1 .. n : k - 1 \in P => k \in P
    PROVE  0 .. n \subseteq P
<1> DEFINE Bad == (0 .. n) \ P
<1>1. SUFFICES ASSUME Bad # {} PROVE FALSE
  OBVIOUS
<1>2. PICK k \in Bad : \A m \in Bad : k <= m
  <2>1. Bad \in SUBSET Nat
    OBVIOUS
  <2> HIDE DEF Bad
  <2>2. QED BY <1>1, <2>1, LeastNumber
<1>3. k \in 1 .. n
  OBVIOUS
<1>4. k - 1 \in 0 .. n /\ k - 1 \notin Bad
  BY <1>2, <1>3
<1>5. QED BY <1>3, <1>4

Follows(g, c, D, k) ==
    g[0] = c /\ \A j \in 1 .. k : g[j] = D[j][g[j - 1]]

LEMMA Recursion ==
    ASSUME NEW n \in Nat, NEW S, NEW c \in S, NEW D \in [1 .. n -> [S -> S]]
    PROVE  \E g \in [0 .. n -> S] : Follows(g, c, D, n)
<1> DEFINE P == {k \in 0 .. n : \E g \in [0 .. k -> S] : Follows(g, c, D, k)}
<1>1. 0 \in P
  <2>1. [k \in 0 .. 0 |-> c] \in [0 .. 0 -> S] /\ Follows([k \in 0 .. 0 |-> c], c, D, 0)
    BY DEF Follows
  <2>2. QED BY <2>1
<1>2. ASSUME NEW k \in 1 .. n, k - 1 \in P PROVE k \in P
  <2>1. PICK g \in [0 .. k - 1 -> S] : Follows(g, c, D, k - 1)
    BY <1>2
  <2>2. g[k - 1] \in S /\ D[k][g[k - 1]] \in S
    OBVIOUS
  <2> DEFINE h == [j \in 0 .. k |-> IF j = k THEN D[k][g[k - 1]] ELSE g[j]]
  <2>3. h \in [0 .. k -> S]
    BY <2>2
  <2>4. h[0] = c /\ h[k] = D[k][g[k - 1]] /\ h[k - 1] = g[k - 1]
    BY <2>1 DEF Follows
  <2>5. \A j \in 1 .. k : h[j] = D[j][h[j - 1]]
    <3> TAKE j \in 1 .. k
    <3>1. CASE j = k
      BY <2>4, <3>1
    <3>2. CASE j # k
      <4>1. j \in 1 .. k - 1 /\ h[j] = g[j] /\ h[j - 1] = g[j - 1]
        BY <3>2
      <4>2. QED BY <2>1, <4>1 DEF Follows
    <3>3. QED BY <3>1, <3>2
  <2> HIDE DEF h
  <2>6. Follows(h, c, D, k)
    BY <2>4, <2>5 DEF Follows
  <2>7. QED BY <2>3, <2>6
<1>3. n \in P
  <2> HIDE DEF P
  <2>1. 0 .. n \subseteq P
    BY <1>1, <1>2, Upwards
  <2>2. n \in 0 .. n
    OBVIOUS
  <2>3. QED BY <2>1, <2>2
<1>4. QED BY <1>3

\* A bounded set of numbers has a largest one.
LEMMA MaxIsLargest ==
    ASSUME NEW m \in Nat, NEW S \in SUBSET (0 .. m), S # {}
    PROVE  Max(S) \in S /\ \A x \in S : x <= Max(S)
<1> DEFINE T == {n \in Nat : \E x \in S : n = m - x}
<1>1. T \subseteq Nat /\ T # {}
  <2>1. PICK x \in S : TRUE
    OBVIOUS
  <2>2. m - x \in Nat
    <3>1. x \in 0 .. m
      OBVIOUS
    <3>2. QED BY <3>1
  <2>3. m - x \in T
    BY <2>1, <2>2
  <2>4. QED BY <2>3
<1>2. PICK t \in T : \A u \in T : t <= u
  <2> HIDE DEF T
  <2>1. QED BY <1>1, LeastNumber
<1>3. \A u \in T : ~(u < t)
  <2> HIDE DEF T
  <2>1. QED BY <1>1, <1>2
<1>4. PICK x \in S : t = m - x
  OBVIOUS
<1>5. ASSUME NEW y \in S PROVE x >= y
  <2>1. x \in 0 .. m /\ y \in 0 .. m
    OBVIOUS
  <2>2. m - y \in T
    BY <2>1
  <2>3. ~(m - y < t)
    BY <1>3, <2>2
  <2>4. QED BY <1>4, <2>1, <2>3
<1>6. \E z \in S : \A y \in S : z >= y
  BY <1>5
<1>7. Max(S) \in S /\ \A y \in S : Max(S) >= y
  BY <1>6 DEF Max
<1>8. ASSUME NEW y \in S PROVE y <= Max(S)
  <2>1. y \in 0 .. m /\ Max(S) \in 0 .. m /\ Max(S) >= y
    BY <1>7
  <2>2. QED BY <2>1
<1>9. QED BY <1>7, <1>8

(***************************************************************************)
(* The inductive invariant.                                                *)
(***************************************************************************)
Instr == [kind : {"quad", "goto", "label"}, cond : {"always", "var", "zero", "one"},
          neg : BOOLEAN, when : BOOLEAN, to : Nat, dead : BOOLEAN]

Entries(ls) == [DOMAIN ls -> [name : DOMAIN ls, refs : Int]]

\* No two labels have a number.
Numbered(code) == \A j, k \in LabelsIn(code) : code[j].to = code[k].to => j = k

\* What the statements have left: label and jump numbers that Start turns into
\* entries.
Written(code, max) ==
    /\ code \in Seq(Instr) /\ Len(code) <= max
    /\ \A k \in LabelsIn(code) : code[k].to \in 1 .. Cardinality(LabelsIn(code))
    /\ \A k \in JumpsIn(code) : code[k].to \in 1 .. max
    /\ Numbered(code)

\* What the pass goes through: every label and every jump has an entry.
Coded(code, ls) ==
    /\ code \in Seq(Instr)
    /\ ls \in Entries(ls)
    /\ \A k \in DOMAIN code : code[k].kind # "quad" => code[k].to \in DOMAIN ls
    /\ Numbered(code)

\* goto2 and label2 lie behind the iterator, and label2 is a label.
Placed(code, p, g2, l2) ==
    /\ p \in 1 .. Len(code) + 1 /\ g2 \in 0 .. p - 1 /\ l2 \in 0 .. p - 1
    /\ l2 # None => l2 \in LabelsIn(code)

Leading(code, n) == {j \in JumpsIn(code) : ~code[j].dead /\ code[j].to = n}

\* CountsCover, and for label2 too: KeepJump adds its count to another.
Covered(code, ls, p, l2) ==
    \A k \in LabelsIn(code) :
        k >= p \/ k = l2 => ls[code[k].to].refs >= Cardinality(Leading(code, code[k].to))

IInv ==
    /\ bound \in Bounds
    /\ phase \in {"emit", "pass", "done"} /\ fault \in {"none", "name"}
    /\ phase = "emit" => /\ Written(source, MaxCode)
                         /\ labels = <<>> /\ at = 1 /\ goto2 = None /\ label2 = None
    /\ phase # "emit" => /\ Coded(ta_code, labels) /\ Len(ta_code) <= MaxCode
                         /\ Placed(ta_code, at, goto2, label2)
                         /\ Covered(ta_code, labels, at, label2)

\* The same instructions, some of them dead or with a folded condition.
SameShape(c, d) ==
    /\ d \in Seq(Instr) /\ Len(d) = Len(c)
    /\ \A k \in DOMAIN c : d[k].kind = c[k].kind /\ d[k].to = c[k].to

(***************************************************************************)
(* Finite sets of places.                                                  *)
(***************************************************************************)
LEMMA PlacesFinite ==
    ASSUME NEW code \in Seq(Instr), NEW S \in SUBSET DOMAIN code
    PROVE  IsFiniteSet(S) /\ Cardinality(S) \in Nat
<1>1. IsFiniteSet(1 .. Len(code))
  BY FS_Interval
<1>2. IsFiniteSet(S)
  BY <1>1, FS_Subset
<1>3. QED BY <1>2, FS_CardinalityType

\* A set of places with one more place.
LEMMA PlacesAdded ==
    ASSUME NEW code \in Seq(Instr), NEW S \in SUBSET DOMAIN code, NEW p, p \notin S
    PROVE  Cardinality(S \cup {p}) = Cardinality(S) + 1
BY PlacesFinite, FS_AddElement

LEMMA PlacesIncluded ==
    ASSUME NEW code \in Seq(Instr), NEW S \in SUBSET DOMAIN code, NEW T \in SUBSET S
    PROVE  Cardinality(T) <= Cardinality(S)
BY PlacesFinite, FS_Subset

LEMMA PlacesRemoved ==
    ASSUME NEW code \in Seq(Instr), NEW S \in SUBSET DOMAIN code, NEW p \in S
    PROVE  Cardinality(S \ {p}) = Cardinality(S) - 1
BY PlacesFinite, FS_RemoveElement

(***************************************************************************)
(* Emission.                                                               *)
(***************************************************************************)
\* No jump is to a label above the wanted one.
LEMMA WantedBounds ==
    ASSUME NEW max \in Nat, NEW code, Written(code, max)
    PROVE  /\ Wanted(code) \in Nat
           /\ \A k \in JumpsIn(code) : code[k].to <= Wanted(code)
<1> DEFINE S == {0} \cup {code[k].to : k \in JumpsIn(code)}
<1>1. S \in SUBSET (0 .. max) /\ S # {}
  BY DEF Written
<1>2. Max(S) \in S /\ \A x \in S : x <= Max(S)
  <2> HIDE DEF S
  <2>1. QED BY <1>1, MaxIsLargest
<1>3. QED BY <1>1, <1>2 DEF Wanted

\* A quad or a jump behind the code.
LEMMA AppendOther ==
    ASSUME NEW max \in Nat, NEW code, Written(code, max), Len(code) < max,
           NEW i \in Instr, i.kind # "label", i.kind = "goto" => i.to \in 1 .. max
    PROVE  Written(Append(code, i), max)
<1> DEFINE d == Append(code, i)
<1>1. code \in Seq(Instr) /\ d \in Seq(Instr) /\ Len(d) = Len(code) + 1
  BY DEF Written
<1>2. \A k \in DOMAIN code : d[k] = code[k]
  BY <1>1
<1>3. d[Len(code) + 1] = i /\ DOMAIN d = DOMAIN code \cup {Len(code) + 1}
  BY <1>1
<1> HIDE DEF d
<1>4. LabelsIn(d) = LabelsIn(code)
  BY <1>1, <1>2, <1>3 DEF LabelsIn
<1>5. JumpsIn(d) \subseteq JumpsIn(code) \cup {Len(code) + 1}
  BY <1>2, <1>3 DEF JumpsIn
<1>6. \A k \in LabelsIn(d) : d[k] = code[k]
  BY <1>2, <1>4 DEF LabelsIn
<1>7. \A k \in JumpsIn(d) : d[k].to \in 1 .. max
  BY <1>1, <1>2, <1>3, <1>5 DEF JumpsIn, Written
<1>8. Written(d, max)
  BY <1>1, <1>4, <1>6, <1>7 DEF Written, Numbered
<1>9. QED BY <1>8 DEF d

\* The next label behind the code.
LEMMA AppendLabel ==
    ASSUME NEW max \in Nat, NEW code, Written(code, max), Len(code) < max
    PROVE  Written(Append(code, LabelOf(Cardinality(LabelsIn(code)) + 1)), max)
<1> DEFINE n == Cardinality(LabelsIn(code)) + 1
           i == LabelOf(n)
           d == Append(code, i)
           p == Len(code) + 1
<1>1. code \in Seq(Instr) /\ LabelsIn(code) \in SUBSET DOMAIN code
  BY DEF Written, LabelsIn
<1>2. n \in Nat /\ n >= 1 /\ n - 1 = Cardinality(LabelsIn(code))
  BY <1>1, PlacesFinite
<1>3. i \in Instr /\ i.kind = "label" /\ i.to = n
  <2> HIDE DEF n
  <2>1. QED BY <1>2 DEF LabelOf, Quad, Instr, None
<1> HIDE DEF i
<1>4. d \in Seq(Instr) /\ Len(d) = p
  BY <1>1, <1>3
<1>5. \A k \in DOMAIN code : d[k] = code[k]
  BY <1>1, <1>3
<1>6. d[p] = i /\ DOMAIN d = DOMAIN code \cup {p} /\ p \notin DOMAIN code
  BY <1>1, <1>3
<1> HIDE DEF d, p
<1>7. LabelsIn(d) = LabelsIn(code) \cup {p}
  BY <1>3, <1>5, <1>6 DEF LabelsIn
<1>8. Cardinality(LabelsIn(d)) = n
  BY <1>1, <1>6, <1>7, PlacesAdded
<1>9. \A k \in LabelsIn(code) : d[k].to \in 1 .. n - 1
  <2> HIDE DEF n
  <2>1. QED BY <1>1, <1>2, <1>5 DEF Written
<1>10. \A k \in LabelsIn(d) : d[k].to \in 1 .. n
  <2> HIDE DEF n
  <2>1. QED BY <1>2, <1>3, <1>6, <1>7, <1>9
<1>11. JumpsIn(d) = JumpsIn(code)
  BY <1>3, <1>5, <1>6 DEF JumpsIn
<1>12. \A k \in JumpsIn(d) : d[k].to \in 1 .. max
  BY <1>5, <1>11 DEF Written, JumpsIn
<1>13. Numbered(d)
  <2> HIDE DEF n
  <2>1. \A j, k \in LabelsIn(code) : d[j].to = d[k].to => j = k
    BY <1>1, <1>5 DEF Written, Numbered
  <2>2. \A j \in LabelsIn(code) : d[j].to # d[p].to
    BY <1>2, <1>3, <1>6, <1>9
  <2>3. QED BY <1>7, <2>1, <2>2 DEF Numbered
<1>14. Len(d) <= max
  BY <1>1, <1>4 DEF p
<1>15. Written(d, max)
  BY <1>4, <1>8, <1>10, <1>12, <1>13, <1>14 DEF Written
<1>16. QED BY <1>15 DEF d, i

\* The entries that Start makes.
LEMMA StartCoded ==
    ASSUME NEW max \in Nat, NEW code, Written(code, max),
           Wanted(code) <= Cardinality(LabelsIn(code)), NEW extra \in Nat, NEW ls,
           ls = [n \in 1 .. Cardinality(LabelsIn(code)) |->
                   [name |-> n, refs |-> extra + Cardinality({k \in JumpsIn(code) : code[k].to = n})]]
    PROVE  Coded(code, ls) /\ Covered(code, ls, 1, None)
<1> DEFINE c == Cardinality(LabelsIn(code))
           To(n) == {k \in JumpsIn(code) : code[k].to = n}
<1>1. code \in Seq(Instr) /\ LabelsIn(code) \subseteq DOMAIN code /\ JumpsIn(code) \subseteq DOMAIN code
  BY DEF Written, LabelsIn, JumpsIn
<1>2. c \in Nat /\ \A n : Cardinality(To(n)) \in Nat
  BY <1>1, PlacesFinite
<1>3. \A n : Cardinality(Leading(code, n)) \in Nat /\ Cardinality(Leading(code, n)) <= Cardinality(To(n))
  <2>1. \A n : To(n) \in SUBSET DOMAIN code /\ Leading(code, n) \in SUBSET To(n)
    BY <1>1 DEF Leading
  <2> HIDE DEF To
  <2>2. QED BY <1>1, <2>1, PlacesFinite, PlacesIncluded
<1>4. /\ DOMAIN ls = 1 .. c /\ ls = [n \in DOMAIN ls |-> ls[n]]
      /\ \A n \in 1 .. c : ls[n] = [name |-> n, refs |-> extra + Cardinality(To(n))]
  OBVIOUS
<1> HIDE DEF c, To
<1>5. ls \in Entries(ls)
  <2>1. ASSUME NEW n \in 1 .. c PROVE ls[n] \in [name : 1 .. c, refs : Int]
    <3>1. extra + Cardinality(To(n)) \in Int
      BY <1>2
    <3>2. ls[n] = [name |-> n, refs |-> extra + Cardinality(To(n))]
      BY <1>4
    <3>3. QED BY <3>1, <3>2
  <2>2. QED BY <1>4, <2>1 DEF Entries
<1>6. ASSUME NEW k \in DOMAIN code, code[k].kind # "quad" PROVE code[k].to \in 1 .. c
  <2>1. code[k] \in Instr
    BY <1>1
  <2>2. k \in LabelsIn(code) \/ k \in JumpsIn(code)
    BY <1>6, <2>1 DEF Instr, LabelsIn, JumpsIn
  <2>3. CASE k \in LabelsIn(code)
    BY <2>3 DEF Written, c
  <2>4. CASE k \in JumpsIn(code)
    <3>1. code[k].to \in 1 .. max /\ code[k].to <= Wanted(code) /\ Wanted(code) \in Nat
      BY <2>4, WantedBounds DEF Written
    <3>2. QED BY <1>2, <3>1 DEF c
  <2>5. QED BY <2>2, <2>3, <2>4
<1>7. Covered(code, ls, 1, None)
  <2>1. ASSUME NEW k \in LabelsIn(code)
        PROVE  ls[code[k].to].refs >= Cardinality(Leading(code, code[k].to))
    <3>1. code[k].to \in 1 .. c
      BY DEF Written, c
    <3>2. ls[code[k].to].refs = extra + Cardinality(To(code[k].to))
      BY <1>4, <3>1
    <3>3. QED BY <1>2, <1>3, <3>2
  <2>2. QED BY <2>1 DEF Covered
<1>8. QED BY <1>1, <1>4, <1>5, <1>6, <1>7 DEF Coded, Written

(***************************************************************************)
(* What a step of the walk keeps.                                          *)
(***************************************************************************)
LEMMA SameShapePlaces ==
    ASSUME NEW c \in Seq(Instr), NEW d, SameShape(c, d)
    PROVE  /\ LabelsIn(d) = LabelsIn(c) /\ JumpsIn(d) = JumpsIn(c) /\ DOMAIN d = DOMAIN c
           /\ \A k \in DOMAIN c : d[k].to = c[k].to
<1>1. DOMAIN d = DOMAIN c
  BY DEF SameShape
<1>2. QED BY <1>1 DEF SameShape, LabelsIn, JumpsIn

\* Killing or folding instructions and rewriting entries leaves every label
\* and every jump with its entry.
LEMMA CodedKept ==
    ASSUME NEW c, NEW ls, Coded(c, ls), NEW d, SameShape(c, d),
           NEW ls2, ls2 \in [DOMAIN ls -> [name : DOMAIN ls, refs : Int]]
    PROVE  Coded(d, ls2)
<1>1. c \in Seq(Instr) /\ d \in Seq(Instr)
  BY DEF Coded, SameShape
<1>2. DOMAIN ls2 = DOMAIN ls /\ ls2 \in Entries(ls2)
  BY DEF Entries
<1>3. \A k \in DOMAIN d : d[k].kind # "quad" => d[k].to \in DOMAIN ls2
  BY <1>1, <1>2, SameShapePlaces DEF Coded, SameShape
<1>4. Numbered(d)
  <2>1. LabelsIn(d) = LabelsIn(c) /\ \A k \in LabelsIn(c) : d[k].to = c[k].to
    BY <1>1, SameShapePlaces DEF LabelsIn
  <2>2. QED BY <2>1 DEF Coded, Numbered
<1>5. QED BY <1>1, <1>2, <1>3, <1>4 DEF Coded

LEMMA PlacedKept ==
    ASSUME NEW c \in Seq(Instr), NEW d, SameShape(c, d), NEW p, NEW g, NEW l, Placed(c, p, g, l), p <= Len(c),
           NEW g2 \in {g, p, None}, NEW l2 \in {l, p, None}, l2 = p => p \in LabelsIn(c)
    PROVE  Placed(d, p + 1, g2, l2)
<1>1. LabelsIn(d) = LabelsIn(c) /\ Len(d) = Len(c) /\ Len(c) \in Nat
  BY SameShapePlaces DEF SameShape
<1>2. p \in 1 .. Len(c) /\ g \in 0 .. p - 1 /\ l \in 0 .. p - 1
  BY <1>1 DEF Placed
<1>3. p + 1 \in 1 .. Len(d) + 1 /\ g2 \in 0 .. p + 1 - 1 /\ l2 \in 0 .. p + 1 - 1
  BY <1>1, <1>2 DEF None
<1>4. l2 # None => l2 \in LabelsIn(d)
  BY <1>1 DEF Placed
<1>5. QED BY <1>3, <1>4 DEF Placed

\* Counts still cover the jumps when none of them died or rose from the dead
\* and no count that matters went down.
LEMMA CoveredKept ==
    ASSUME NEW c, NEW ls, Coded(c, ls), NEW d, SameShape(c, d),
           \A j \in JumpsIn(c) : d[j].dead = c[j].dead,
           NEW p, NEW l, Covered(c, ls, p, l),
           NEW ls2, ls2 \in [DOMAIN ls -> [name : DOMAIN ls, refs : Int]], NEW p2, NEW l2,
           \A k \in LabelsIn(c) : k >= p2 \/ k = l2 =>
               (k >= p \/ k = l) /\ ls2[c[k].to].refs >= ls[c[k].to].refs
    PROVE  Covered(d, ls2, p2, l2)
<1>1. c \in Seq(Instr)
  BY DEF Coded
<1>2. LabelsIn(d) = LabelsIn(c) /\ JumpsIn(d) = JumpsIn(c) /\ \A k \in DOMAIN c : d[k].to = c[k].to
  BY <1>1, SameShapePlaces
<1>3. \A n : Leading(d, n) = Leading(c, n) /\ Cardinality(Leading(c, n)) \in Nat
  <2>1. \A n : Leading(d, n) = Leading(c, n)
    BY <1>2 DEF Leading, JumpsIn
  <2>2. \A n : Leading(c, n) \in SUBSET DOMAIN c
    BY DEF Leading, JumpsIn
  <2>3. QED BY <1>1, <2>1, <2>2, PlacesFinite
<1>4. ASSUME NEW k \in LabelsIn(d), k >= p2 \/ k = l2
      PROVE  ls2[d[k].to].refs >= Cardinality(Leading(d, d[k].to))
  <2>1. k \in LabelsIn(c) /\ d[k].to = c[k].to /\ c[k].to \in DOMAIN ls
    BY <1>2 DEF Coded, LabelsIn
  <2>2. ls[c[k].to].refs >= Cardinality(Leading(c, c[k].to)) /\ ls2[c[k].to].refs >= ls[c[k].to].refs
    BY <1>4, <2>1 DEF Covered
  <2>3. ls[c[k].to].refs \in Int /\ ls2[c[k].to].refs \in Int
    BY <2>1 DEF Coded, Entries
  <2>4. QED BY <1>3, <2>1, <2>2, <2>3
<1>5. QED BY <1>4 DEF Covered

\* A jump dies and is taken off its label's count.
LEMMA CoveredDrop ==
    ASSUME NEW c, NEW ls, Coded(c, ls), NEW d, SameShape(c, d),
           NEW p \in JumpsIn(c), ~c[p].dead, d[p].dead, \A j \in JumpsIn(c) \ {p} : d[j].dead = c[j].dead,
           NEW l, Covered(c, ls, p, l), p \in Nat,
           NEW ls2, ls2 = [ls EXCEPT ![c[p].to].refs = @ - 1]
    PROVE  Covered(d, ls2, p + 1, l)
<1>1. c \in Seq(Instr)
  BY DEF Coded
<1>2. LabelsIn(d) = LabelsIn(c) /\ JumpsIn(d) = JumpsIn(c) /\ \A k \in DOMAIN c : d[k].to = c[k].to
  BY <1>1, SameShapePlaces
<1> DEFINE n == c[p].to
<1>3. p \in Leading(c, n) /\ Leading(d, n) = Leading(c, n) \ {p}
  BY <1>2 DEF Leading, JumpsIn
<1>4. \A m : m # n => Leading(d, m) = Leading(c, m)
  BY <1>2 DEF Leading, JumpsIn
<1>5. \A m : Leading(c, m) \in SUBSET DOMAIN c
  BY DEF Leading, JumpsIn
<1>6. Cardinality(Leading(d, n)) = Cardinality(Leading(c, n)) - 1 /\ Cardinality(Leading(c, n)) \in Nat
  BY <1>1, <1>3, <1>5, PlacesRemoved, PlacesFinite
<1>7. ASSUME NEW k \in LabelsIn(d), k >= p + 1 \/ k = l
      PROVE  ls2[d[k].to].refs >= Cardinality(Leading(d, d[k].to))
  <2>1. k \in LabelsIn(c) /\ k \in Nat /\ d[k].to = c[k].to /\ c[k].to \in DOMAIN ls
    BY <1>1, <1>2 DEF Coded, LabelsIn
  <2>2. ls[c[k].to].refs \in Int /\ ls[c[k].to] \in [name : DOMAIN ls, refs : Int]
    BY <2>1 DEF Coded, Entries
  <2>3. ls[c[k].to].refs >= Cardinality(Leading(c, c[k].to))
    BY <1>7, <2>1 DEF Covered
  <2>4. CASE c[k].to = n
    <3>1. ls2[n].refs = ls[n].refs - 1
      BY <2>1, <2>2, <2>4 DEF Coded, Entries
    <3>2. QED BY <1>6, <2>1, <2>2, <2>3, <2>4, <3>1
  <2>5. CASE c[k].to # n
    <3>1. ls2[c[k].to] = ls[c[k].to]
      BY <2>1, <2>5
    <3>2. QED BY <1>4, <2>1, <2>3, <2>5, <3>1
  <2>6. QED BY <2>4, <2>5
<1>8. QED BY <1>7 DEF Covered

(***************************************************************************)
(* The steps.                                                              *)
(***************************************************************************)
LEMMA MaxCodeNat == ASSUME bound \in Bounds PROVE MaxCode \in Nat
BY OptimiseAssumption DEF MaxCode

LEMMA InitIInv == Init => IInv
<1> SUFFICES ASSUME Init PROVE IInv
  OBVIOUS
<1>1. source \in Seq(Instr) /\ Len(source) = 0 /\ LabelsIn(source) = {} /\ JumpsIn(source) = {}
  BY DEF Init, LabelsIn, JumpsIn
<1>2. bound \in Bounds
  BY DEF Init
<1>3. Written(source, MaxCode)
  BY <1>1, <1>2, MaxCodeNat DEF Written, Numbered
<1>4. QED BY <1>2, <1>3 DEF Init, IInv

\* A quad or a jump as the statements make them.
LEMMA OtherInstr ==
    ASSUME bound \in Bounds, NEW i, i \in {Quad, DeadQuad} \/ i \in Gotos
    PROVE  i \in Instr /\ i.kind # "label" /\ (i.kind = "goto" => i.to \in 1 .. MaxCode)
<1>1. CASE i \in {Quad, DeadQuad}
  <2>1. Quad \in Instr /\ Quad.kind = "quad"
    BY DEF Quad, Instr, None
  <2>2. DeadQuad \in Instr /\ DeadQuad.kind = "quad"
    BY DEF Quad, DeadQuad, Instr, None
  <2>3. QED BY <1>1, <2>1, <2>2
<1>2. CASE i \in Gotos
  <2>1. Conditions \subseteq {"always", "var", "zero", "one"}
    BY OptimiseAssumption DEF Conditions
  <2>2. i \in [kind : {"goto"}, cond : Conditions, neg : BOOLEAN, when : BOOLEAN,
               to : 1 .. MaxCode, dead : {FALSE}]
    BY <1>2 DEF Gotos
  <2>3. i \in Instr
    <3>1. \A n \in 1 .. MaxCode : n \in Nat
      BY MaxCodeNat
    <3> HIDE DEF MaxCode, Conditions
    <3>2. QED BY <2>1, <2>2, <3>1 DEF Instr
  <2>4. i.kind = "goto" /\ i.to \in 1 .. MaxCode
    BY <2>2
  <2>5. QED BY <2>3, <2>4
<1>3. QED BY <1>1, <1>2

LEMMA EmitKeeps == ASSUME IInv, Emit PROVE IInv'
<1>1. phase = "emit" /\ bound \in Bounds /\ Written(source, MaxCode) /\ Len(source) < MaxCode
  BY DEF IInv, Emit
<1>2. PICK i \in {Quad, DeadQuad, LabelOf(Cardinality(LabelsIn(source)) + 1)} \cup {g \in Gotos : WellFormed(g)} :
          source' = Append(source, i)
  BY DEF Emit
<1>3. MaxCode \in Nat /\ MaxCode' = MaxCode
  BY <1>1, MaxCodeNat DEF Emit, MaxCode
<1>4. CASE i = LabelOf(Cardinality(LabelsIn(source)) + 1)
  <2>1. Written(source', MaxCode)
    BY <1>1, <1>2, <1>3, <1>4, AppendLabel
  <2>2. QED BY <1>1, <1>3, <2>1 DEF IInv, Emit
<1>5. CASE i # LabelOf(Cardinality(LabelsIn(source)) + 1)
  <2>1. i \in {Quad, DeadQuad} \/ i \in Gotos
    BY <1>2, <1>5
  <2>2. i \in Instr /\ i.kind # "label" /\ (i.kind = "goto" => i.to \in 1 .. MaxCode)
    BY <1>1, <2>1, OtherInstr
  <2>3. Written(source', MaxCode)
    BY <1>1, <1>2, <1>3, <2>2, AppendOther
  <2>4. QED BY <1>1, <1>3, <2>3 DEF IInv, Emit
<1>6. QED BY <1>4, <1>5

LEMMA StartKeeps == ASSUME IInv, Start PROVE IInv'
<1>1. phase = "emit" /\ bound \in Bounds /\ Written(source, MaxCode) /\ at = 1 /\ goto2 = None /\ label2 = None
  BY DEF IInv, Start
<1>2. MaxCode \in Nat /\ MaxCode' = MaxCode /\ Surplus \subseteq Nat
  BY <1>1, MaxCodeNat, OptimiseAssumption DEF Start, MaxCode, Surplus
<1>3. PICK extra \in Surplus :
          labels' = [n \in 1 .. Cardinality(LabelsIn(source)) |->
                        [name |-> n, refs |-> extra + Cardinality({k \in JumpsIn(source) : source[k].to = n})]]
  BY DEF Start
<1>4. extra \in Nat /\ Wanted(source) <= Cardinality(LabelsIn(source))
  BY <1>2, <1>3 DEF Start
<1>5. Coded(source, labels') /\ Covered(source, labels', 1, None)
  BY <1>1, <1>2, <1>3, <1>4, StartCoded
<1>6. ta_code' = source /\ at' = 1 /\ goto2' = None /\ label2' = None /\ phase' = "pass"
      /\ bound' = bound /\ fault' = fault
  BY <1>1 DEF Start
<1>7. Placed(source, 1, None, None) /\ Len(source) <= MaxCode
  <2>1. source \in Seq(Instr)
    BY <1>1 DEF Written
  <2>2. Len(source) \in Nat
    BY <2>1
  <2>3. QED BY <1>1, <2>2 DEF Placed, None, Written
<1>8. QED BY <1>1, <1>2, <1>5, <1>6, <1>7 DEF IInv

\* What the iterator stands on, with its condition folded, is an instruction
\* of the same kind to the same label.
LEMMA CurrentSame ==
    ASSUME IInv, AtALive
    PROVE  /\ at \in DOMAIN ta_code /\ at \in Nat /\ Current \in Instr
           /\ Current.kind = ta_code[at].kind /\ Current.to = ta_code[at].to
           /\ ~Current.dead /\ ~ta_code[at].dead
<1>1. ta_code \in Seq(Instr) /\ Placed(ta_code, at, goto2, label2) /\ at <= Len(ta_code)
  BY DEF IInv, AtALive, Coded
<1>2. at \in DOMAIN ta_code /\ at \in Nat
  BY <1>1 DEF Placed
<1>3. ta_code[at] \in Instr /\ ~ta_code[at].dead
  BY <1>1, <1>2 DEF AtALive
<1> DEFINE i == ta_code[at]
           j == Not(i)
<1>4. j \in Instr /\ j.kind = i.kind /\ j.to = i.to /\ j.dead = i.dead
  BY <1>3 DEF Not, Instr
<1> HIDE DEF j
<1>5. Current = j \/ Current = [j EXCEPT !.cond = "always", !.when = TRUE]
  BY DEF Current, j
<1>6. Current \in Instr /\ Current.kind = j.kind /\ Current.to = j.to /\ Current.dead = j.dead
  BY <1>4, <1>5 DEF Instr
<1>7. QED BY <1>2, <1>3, <1>4, <1>6

Put(c, p, i) == [c EXCEPT ![p] = i]

\* Another instruction of the same kind to the same label in one's place.
LEMMA PutSame ==
    ASSUME NEW c \in Seq(Instr), NEW p \in DOMAIN c, NEW i \in Instr,
           i.kind = c[p].kind, i.to = c[p].to
    PROVE  /\ SameShape(c, Put(c, p, i)) /\ Put(c, p, i)[p] = i
           /\ \A k \in DOMAIN c : k # p => Put(c, p, i)[k] = c[k]
<1> DEFINE d == Put(c, p, i)
<1>1. d \in Seq(Instr) /\ Len(d) = Len(c) /\ d[p] = i /\ \A k \in DOMAIN c : k # p => d[k] = c[k]
  BY DEF Put
<1> HIDE DEF d
<1>2. \A k \in DOMAIN c : d[k].kind = c[k].kind /\ d[k].to = c[k].to
  BY <1>1
<1>3. SameShape(c, d)
  BY <1>1, <1>2 DEF SameShape
<1>4. QED BY <1>1, <1>3 DEF d

LEMMA KillSame ==
    ASSUME IInv, AtALive, Kill(Current)
    PROVE  /\ SameShape(ta_code, ta_code') /\ ta_code'[at].dead
           /\ \A k \in DOMAIN ta_code : k # at => ta_code'[k] = ta_code[k]
<1>1. ta_code \in Seq(Instr)
  BY DEF IInv, AtALive, Coded
<1>2. at \in DOMAIN ta_code /\ Current \in Instr /\ Current.kind = ta_code[at].kind /\ Current.to = ta_code[at].to
  BY CurrentSame
<1> DEFINE i == [Current EXCEPT !.dead = TRUE]
<1>3. i \in Instr /\ i.kind = ta_code[at].kind /\ i.to = ta_code[at].to /\ i.dead
  BY <1>2 DEF Instr
<1>4. ta_code' = Put(ta_code, at, i)
  BY DEF Kill, Put
<1> HIDE DEF i
<1>5. QED BY <1>1, <1>2, <1>3, <1>4, PutSame

\* What every step of the walk has in common.
LEMMA StepKeeps ==
    ASSUME IInv, phase = "pass", at <= Len(ta_code), Advance,
           SameShape(ta_code, ta_code'),
           labels' \in [DOMAIN labels -> [name : DOMAIN labels, refs : Int]],
           goto2' \in {goto2, at, None}, label2' \in {label2, at, None}, label2' = at => at \in LabelsIn(ta_code),
           Covered(ta_code', labels', at + 1, label2'),
           fault' \in {"none", "name"}
    PROVE  IInv'
<1>1. ta_code \in Seq(Instr) /\ Coded(ta_code, labels) /\ Len(ta_code) <= MaxCode
      /\ Placed(ta_code, at, goto2, label2) /\ bound \in Bounds
  BY DEF IInv, Coded
<1>2. Coded(ta_code', labels')
  BY <1>1, CodedKept
<1>3. Placed(ta_code', at + 1, goto2', label2')
  BY <1>1, PlacedKept
<1>4. at' = at + 1 /\ bound' = bound /\ phase' = "pass" /\ MaxCode' = MaxCode
  BY DEF Advance, MaxCode
<1>5. Len(ta_code') <= MaxCode
  BY <1>1 DEF SameShape
<1>6. QED BY <1>1, <1>2, <1>3, <1>4, <1>5 DEF IInv

\* In the pass.
LEMMA InPass ==
    ASSUME IInv, phase = "pass"
    PROVE  /\ Coded(ta_code, labels) /\ ta_code \in Seq(Instr)
           /\ Placed(ta_code, at, goto2, label2)
           /\ Covered(ta_code, labels, at, label2)
           /\ labels \in [DOMAIN labels -> [name : DOMAIN labels, refs : Int]]
           /\ fault \in {"none", "name"}
           /\ SameShape(ta_code, ta_code)
           /\ at \in Nat /\ (label2 # None => label2 \in LabelsIn(ta_code) /\ label2 # at)
BY DEF IInv, Coded, Entries, SameShape, Placed

\* Only labels and quads change, and entries stay as they are.
LEMMA CoveredAlike ==
    ASSUME NEW c, NEW ls, Coded(c, ls), NEW d, SameShape(c, d),
           \A j \in JumpsIn(c) : d[j].dead = c[j].dead,
           NEW p \in Nat, NEW l, Covered(c, ls, p, l), NEW l2 \in {l, p, None}
    PROVE  Covered(d, ls, p + 1, l2)
<1>1. \A k \in LabelsIn(c) : k \in Nat /\ k # None
  BY DEF Coded, LabelsIn, None
<1>2. ASSUME NEW k \in LabelsIn(c), k >= p + 1 \/ k = l2
      PROVE  (k >= p \/ k = l) /\ ls[c[k].to].refs >= ls[c[k].to].refs
  <2>1. c[k].to \in DOMAIN ls
    BY DEF Coded, LabelsIn
  <2>2. ls[c[k].to].refs \in Int
    BY <2>1 DEF Coded, Entries
  <2>3. QED BY <1>1, <1>2, <2>2
<1>3. ls \in [DOMAIN ls -> [name : DOMAIN ls, refs : Int]]
  BY DEF Coded, Entries
<1>4. QED BY <1>2, <1>3, CoveredKept

LEMMA SkipDeadKeeps == ASSUME IInv, SkipDead PROVE IInv'
<1>1. Covered(ta_code', labels', at + 1, label2')
  BY InPass, CoveredAlike DEF SkipDead
<1>2. phase = "pass" /\ at <= Len(ta_code) /\ Advance
      /\ ta_code' = ta_code /\ labels' = labels /\ goto2' = goto2 /\ label2' = label2 /\ fault' = fault
  BY DEF SkipDead
<1>3. label2 # at
  BY <1>2, InPass DEF Placed, None
<1>4. QED BY <1>1, <1>2, <1>3, InPass, StepKeeps

LEMMA KeepLabelKeeps == ASSUME IInv, KeepLabel PROVE IInv'
<1>1. phase = "pass" /\ at <= Len(ta_code) /\ AtALive /\ Current.kind = "label"
  BY DEF KeepLabel, Here, AtALive
<1>2. ta_code' = ta_code /\ labels' = labels /\ goto2' = None /\ label2' = at /\ fault' = fault /\ Advance
  BY DEF KeepLabel
<1>3. at \in LabelsIn(ta_code)
  BY <1>1, CurrentSame DEF LabelsIn
<1>4. Covered(ta_code', labels', at + 1, label2')
  BY <1>1, <1>2, InPass, CoveredAlike
<1>5. QED BY <1>1, <1>2, <1>3, <1>4, InPass, StepKeeps

LEMMA KeepQuadKeeps == ASSUME IInv, KeepQuad PROVE IInv'
<1>1. phase = "pass" /\ at <= Len(ta_code)
  BY DEF KeepQuad, Here, AtALive
<1>2. ta_code' = ta_code /\ labels' = labels /\ goto2' = None /\ label2' = None /\ fault' = fault /\ Advance
  BY DEF KeepQuad
<1>3. Covered(ta_code', labels', at + 1, label2')
  BY <1>1, <1>2, InPass, CoveredAlike
<1>4. at # None
  BY <1>1, InPass DEF Placed, None
<1>5. QED BY <1>1, <1>2, <1>3, <1>4, InPass, StepKeeps

LEMMA DropOtherKeeps == ASSUME IInv, DropOther PROVE IInv'
<1>1. phase = "pass" /\ at <= Len(ta_code) /\ AtALive /\ Current.kind # "goto"
  BY DEF DropOther, Here, AtALive
<1>2. Kill(Current) /\ labels' = labels /\ goto2' = goto2 /\ label2' = label2 /\ fault' = fault /\ Advance
  BY DEF DropOther
<1>3. at \notin JumpsIn(ta_code)
  BY <1>1, CurrentSame DEF JumpsIn
<1>4. SameShape(ta_code, ta_code') /\ \A j \in JumpsIn(ta_code) : ta_code'[j].dead = ta_code[j].dead
  BY <1>1, <1>2, <1>3, KillSame DEF JumpsIn
<1>5. Covered(ta_code', labels', at + 1, label2')
  BY <1>1, <1>2, <1>4, InPass, CoveredAlike
<1>6. label2 # at
  BY <1>1, InPass DEF Placed, None
<1>7. QED BY <1>1, <1>2, <1>4, <1>5, <1>6, InPass, StepKeeps

LEMMA DropJumpKeeps == ASSUME IInv, DropJump PROVE IInv'
<1>1. phase = "pass" /\ at <= Len(ta_code) /\ AtALive /\ Current.kind = "goto"
  BY DEF DropJump, Here, AtALive
<1>2. Kill(Current) /\ goto2' = goto2 /\ label2' = label2 /\ fault' = fault /\ Advance
      /\ labels' = [labels EXCEPT ![Current.to].refs = @ - 1]
  BY DEF DropJump
<1>3. at \in JumpsIn(ta_code) /\ ~ta_code[at].dead /\ Current.to = ta_code[at].to /\ at \in Nat
  BY <1>1, CurrentSame DEF JumpsIn
<1>4. /\ SameShape(ta_code, ta_code') /\ ta_code'[at].dead
      /\ \A j \in JumpsIn(ta_code) \ {at} : ta_code'[j].dead = ta_code[j].dead
  BY <1>1, <1>2, KillSame DEF JumpsIn
<1>5. Covered(ta_code', labels', at + 1, label2')
  BY <1>1, <1>2, <1>3, <1>4, InPass, CoveredDrop
<1>6. labels' \in [DOMAIN labels -> [name : DOMAIN labels, refs : Int]]
  <2>1. Current.to \in DOMAIN labels
    BY <1>1, <1>3, InPass DEF Coded, JumpsIn
  <2>2. labels \in [DOMAIN labels -> [name : DOMAIN labels, refs : Int]]
    BY <1>1, InPass
  <2>3. [labels[Current.to] EXCEPT !.refs = @ - 1] \in [name : DOMAIN labels, refs : Int]
    BY <2>1, <2>2
  <2>4. QED BY <1>2, <2>2, <2>3
<1>7. label2 # at
  BY <1>1, InPass DEF Placed, None
<1>8. QED BY <1>1, <1>2, <1>4, <1>5, <1>6, <1>7, InPass, StepKeeps

LEMMA MergeLabelKeeps == ASSUME IInv, MergeLabel PROVE IInv'
<1> DEFINE l1 == Current.to
<1>1. phase = "pass" /\ at <= Len(ta_code) /\ AtALive /\ Current.kind = "label" /\ label2 # None
  BY DEF MergeLabel, Here, AtALive
<1>2. /\ Kill(Current) /\ goto2' = goto2 /\ label2' = label2 /\ Advance
      /\ labels' = [labels EXCEPT ![l1] = labels[ta_code[label2].to]]
      /\ fault' \in {fault, "name"}
  BY DEF MergeLabel
<1>3. at \in LabelsIn(ta_code) /\ l1 = ta_code[at].to /\ at \in Nat
  BY <1>1, CurrentSame DEF LabelsIn
<1> HIDE DEF l1
<1>4. at \notin JumpsIn(ta_code)
  BY <1>3 DEF JumpsIn, LabelsIn
<1>5. SameShape(ta_code, ta_code') /\ \A j \in JumpsIn(ta_code) : ta_code'[j].dead = ta_code[j].dead
  BY <1>1, <1>2, <1>4, KillSame DEF JumpsIn
<1>6. label2 \in LabelsIn(ta_code) /\ label2 # at
  BY <1>1, InPass
<1>7. labels \in [DOMAIN labels -> [name : DOMAIN labels, refs : Int]] /\ ta_code[label2].to \in DOMAIN labels
  BY <1>1, <1>6, InPass DEF Coded, LabelsIn
<1>8. labels' \in [DOMAIN labels -> [name : DOMAIN labels, refs : Int]]
  BY <1>2, <1>7
<1>9. ASSUME NEW k \in LabelsIn(ta_code), k >= at + 1 \/ k = label2
      PROVE  (k >= at \/ k = label2) /\ labels'[ta_code[k].to].refs >= labels[ta_code[k].to].refs
  <2>1. k \in Nat /\ k # at /\ ta_code[k].to \in DOMAIN labels
    BY <1>1, <1>3, <1>6, <1>9, InPass DEF LabelsIn, Coded
  <2>2. ta_code[k].to # l1
    BY <1>1, <1>3, <2>1, InPass DEF Coded, Numbered
  <2>3. labels'[ta_code[k].to] = labels[ta_code[k].to] /\ labels[ta_code[k].to].refs \in Int
    BY <1>2, <1>7, <2>1, <2>2
  <2>4. QED BY <1>3, <1>9, <2>1, <2>3
<1>10. Covered(ta_code', labels', at + 1, label2)
  BY <1>1, <1>5, <1>8, <1>9, InPass, CoveredKept
<1>11. QED BY <1>1, <1>2, <1>5, <1>6, <1>8, <1>10, InPass, StepKeeps

Renamed(ls, l, l2) ==
    [[ls EXCEPT ![l].refs = @ + ls[l2].refs] EXCEPT ![l2].name = ls[l].name]

\* A label in front of a jump: its count is added to the one of the jump's
\* label, and it gets that label's name.
LEMMA RenameKeeps ==
    ASSUME NEW ls, ls \in [DOMAIN ls -> [name : DOMAIN ls, refs : Int]],
           NEW l \in DOMAIN ls, NEW l2 \in DOMAIN ls, ls[l2].refs >= 0
    PROVE  /\ Renamed(ls, l, l2) \in [DOMAIN ls -> [name : DOMAIN ls, refs : Int]]
           /\ \A n \in DOMAIN ls : Renamed(ls, l, l2)[n].refs >= ls[n].refs
<1> DEFINE R == [name : DOMAIN ls, refs : Int]
           more == [ls[l] EXCEPT !.refs = @ + ls[l2].refs]
           mid == [ls EXCEPT ![l] = more]
           named == [mid[l2] EXCEPT !.name = ls[l].name]
           ls2 == Renamed(ls, l, l2)
<1>1. ls[l] \in R /\ ls[l2] \in R
  OBVIOUS
<1>2. more \in R /\ more.refs >= ls[l].refs
  BY <1>1
<1>3. mid = [ls EXCEPT ![l].refs = @ + ls[l2].refs]
  OBVIOUS
<1>4. ls2 = [mid EXCEPT ![l2] = named]
  BY <1>3 DEF Renamed
<1> HIDE DEF more, ls2
<1>5. mid \in [DOMAIN ls -> R] /\ \A n \in DOMAIN ls : mid[n].refs >= ls[n].refs
  <2>1. mid \in [DOMAIN ls -> R]
    BY <1>2
  <2>2. ASSUME NEW n \in DOMAIN ls PROVE mid[n].refs >= ls[n].refs
    <3>1. ls[n].refs \in Int
      OBVIOUS
    <3>2. CASE n = l
      BY <1>2, <3>2
    <3>3. CASE n # l
      BY <3>1, <3>3
    <3>4. QED BY <3>2, <3>3
  <2>3. QED BY <2>1, <2>2
<1> HIDE DEF mid
<1>6. named \in R /\ named.refs = mid[l2].refs
  BY <1>1, <1>5
<1> HIDE DEF named
<1>7. ls2 \in [DOMAIN ls -> R]
  BY <1>4, <1>5, <1>6
<1>8. ASSUME NEW n \in DOMAIN ls PROVE ls2[n].refs >= ls[n].refs
  <2>1. ls2[n].refs = mid[n].refs
    BY <1>4, <1>5, <1>6
  <2>2. QED BY <1>5, <2>1
<1>9. QED BY <1>7, <1>8 DEF ls2

\* The jump at the iterator is written back, and the label before it may die.
LEMMA JumpWrittenBack ==
    ASSUME IInv, AtALive, Current.kind = "goto", NEW rename \in BOOLEAN, rename => label2 # None,
           ta_code' = [[ta_code EXCEPT ![at] = Current] EXCEPT ![IF rename THEN label2 ELSE at].dead = rename]
    PROVE  SameShape(ta_code, ta_code') /\ \A j \in JumpsIn(ta_code) : ta_code'[j].dead = ta_code[j].dead
<1>1. phase = "pass" /\ ta_code \in Seq(Instr) /\ at \in DOMAIN ta_code
  BY InPass, CurrentSame DEF AtALive
<1>2. Current \in Instr /\ Current.kind = ta_code[at].kind /\ Current.to = ta_code[at].to
      /\ Current.dead = FALSE /\ ta_code[at].dead = FALSE
  BY <1>1, CurrentSame DEF Instr
<1> DEFINE mid == [ta_code EXCEPT ![at] = Current]
           q == IF rename THEN label2 ELSE at
<1>3. mid \in Seq(Instr) /\ Len(mid) = Len(ta_code) /\ DOMAIN mid = DOMAIN ta_code
  BY <1>1, <1>2
<1>4. \A k \in DOMAIN ta_code : mid[k].kind = ta_code[k].kind /\ mid[k].to = ta_code[k].to
                                /\ mid[k].dead = ta_code[k].dead
  <2>1. mid[at] = Current /\ \A k \in DOMAIN ta_code : k # at => mid[k] = ta_code[k]
    BY <1>1
  <2> HIDE DEF mid
  <2>2. QED BY <1>2, <2>1
<1>5. q \in DOMAIN mid /\ (rename => q \notin JumpsIn(ta_code)) /\ (~rename => ~mid[q].dead)
  BY <1>1, <1>2, <1>3, <1>4, InPass DEF LabelsIn, JumpsIn
<1>6. ta_code' = [mid EXCEPT ![q] = [mid[q] EXCEPT !.dead = rename]]
  OBVIOUS
<1> HIDE DEF mid, q
<1>7. mid[q] \in Instr
  BY <1>3, <1>5
<1>8. /\ SameShape(mid, ta_code') /\ ta_code'[q].dead = rename
      /\ \A k \in DOMAIN mid : k # q => ta_code'[k] = mid[k]
  <2> DEFINE i == [mid[q] EXCEPT !.dead = rename]
  <2>1. i \in Instr /\ i.kind = mid[q].kind /\ i.to = mid[q].to /\ i.dead = rename
    BY <1>7 DEF Instr
  <2>2. ta_code' = Put(mid, q, i)
    BY <1>6 DEF Put
  <2> HIDE DEF i
  <2>3. mid \in Seq(Instr) /\ q \in DOMAIN mid
    BY <1>3, <1>5
  <2>4. i \in Instr /\ i.kind = mid[q].kind /\ i.to = mid[q].to
    BY <2>1
  <2> DEFINE d == Put(mid, q, i)
  <2>5. SameShape(mid, d) /\ d[q] = i /\ \A k \in DOMAIN mid : k # q => d[k] = mid[k]
    BY <2>3, <2>4, PutSame
  <2> HIDE DEF d
  <2>6. ta_code' = d
    BY <2>2 DEF d
  <2>7. QED BY <2>1, <2>5, <2>6, Zenon
<1>9. SameShape(ta_code, ta_code')
  BY <1>3, <1>4, <1>8 DEF SameShape
<1>10. ASSUME NEW j \in JumpsIn(ta_code) PROVE ta_code'[j].dead = ta_code[j].dead
  <2>1. j \in DOMAIN mid /\ mid[j].dead = ta_code[j].dead /\ mid[j] \in Instr
    BY <1>3, <1>4 DEF JumpsIn
  <2>2. CASE j # q
    BY <1>8, <2>1, <2>2
  <2>3. CASE j = q
    <3>1. ~rename /\ ~mid[q].dead
      BY <1>5, <2>3
    <3>2. QED BY <1>8, <2>1, <2>3, <3>1 DEF Instr
  <2>4. QED BY <2>2, <2>3
<1>11. QED BY <1>9, <1>10

LEMMA KeepJumpKeeps == ASSUME IInv, KeepJump PROVE IInv'
<1> DEFINE rename == label2 # None /\ Current.cond = "always"
           l == Current.to
           l2 == ta_code[label2].to
<1>1. phase = "pass" /\ at <= Len(ta_code) /\ AtALive /\ Current.kind = "goto"
  BY DEF KeepJump, Here, AtALive
<1>2. /\ ta_code' = [[ta_code EXCEPT ![at] = Current] EXCEPT ![IF rename THEN label2 ELSE at].dead = rename]
      /\ labels' = IF ~rename THEN labels
                   ELSE [[labels EXCEPT ![l].refs = @ + labels[l2].refs] EXCEPT ![l2].name = labels[l].name]
      /\ fault' \in {fault, "name"} /\ goto2' = at /\ label2' = None /\ Advance
  BY DEF KeepJump
<1>3. SameShape(ta_code, ta_code') /\ \A j \in JumpsIn(ta_code) : ta_code'[j].dead = ta_code[j].dead
  BY <1>1, <1>2, JumpWrittenBack
<1>4. labels \in [DOMAIN labels -> [name : DOMAIN labels, refs : Int]] /\ l \in DOMAIN labels
  BY <1>1, CurrentSame, InPass DEF Coded
<1>5. /\ labels' \in [DOMAIN labels -> [name : DOMAIN labels, refs : Int]]
      /\ \A n \in DOMAIN labels : labels'[n].refs >= labels[n].refs
  <2>1. CASE ~rename
    <3>1. labels' = labels
      BY <1>2, <2>1
    <3>2. \A n \in DOMAIN labels : labels[n].refs \in Int
      BY <1>4
    <3>3. QED BY <1>4, <3>1, <3>2
  <2>2. CASE rename
    <3>1. label2 \in LabelsIn(ta_code) /\ l2 \in DOMAIN labels
      BY <1>1, <2>2, InPass DEF Coded, LabelsIn
    <3>2. labels[l2].refs >= Cardinality(Leading(ta_code, l2))
      BY <1>1, <3>1, InPass DEF Covered
    <3>3. Cardinality(Leading(ta_code, l2)) \in Nat
      <4>1. Leading(ta_code, l2) \in SUBSET DOMAIN ta_code
        BY DEF Leading, JumpsIn
      <4>2. QED BY <1>1, <4>1, InPass, PlacesFinite
    <3>4. labels[l2].refs \in Int
      BY <1>4, <3>1
    <3>5. labels[l2].refs >= 0
      BY <3>2, <3>3, <3>4
    <3> HIDE DEF l, l2
    <3>6. labels' = Renamed(labels, l, l2)
      BY <1>2, <2>2 DEF Renamed
    <3>7. QED BY <1>4, <3>1, <3>5, <3>6, RenameKeeps
  <2>3. QED BY <2>1, <2>2
<1>6. ASSUME NEW k \in LabelsIn(ta_code), k >= at + 1 \/ k = None
      PROVE  (k >= at \/ k = label2) /\ labels'[ta_code[k].to].refs >= labels[ta_code[k].to].refs
  <2>1. k \in Nat /\ k # None /\ ta_code[k].to \in DOMAIN labels
    BY <1>1, InPass DEF LabelsIn, Coded, None
  <2>2. at \in Nat
    BY <1>1, InPass
  <2>3. k >= at
    BY <1>6, <2>1, <2>2
  <2>4. QED BY <1>5, <2>1, <2>3
<1>7. Covered(ta_code', labels', at + 1, None)
  <2>1. Coded(ta_code, labels) /\ Covered(ta_code, labels, at, label2)
    BY <1>1, InPass
  <2>2. QED BY <1>3, <1>5, <1>6, <2>1, CoveredKept
<1>8. at # None
  BY <1>1, InPass DEF Placed, None
<1>9. fault' \in {"none", "name"}
  BY <1>1, <1>2, InPass
<1>10. QED BY <1>1, <1>2, <1>3, <1>5, <1>7, <1>8, <1>9, InPass, StepKeeps

LEMMA FinishKeeps == ASSUME IInv, Finish PROVE IInv'
BY DEF IInv, Finish, MaxCode

LEMMA StutterKeeps == ASSUME IInv, UNCHANGED vars PROVE IInv'
BY DEF IInv, vars, MaxCode

LEMMA NextIInv == ASSUME IInv, [Next]_vars PROVE IInv'
BY EmitKeeps, StartKeeps, SkipDeadKeeps, DropJumpKeeps, DropOtherKeeps, MergeLabelKeeps, KeepLabelKeeps,
   KeepQuadKeeps, KeepJumpKeeps, FinishKeeps, StutterKeeps DEF Next, Done

LEMMA SpecIInv == Spec => []IInv
BY InitIInv, NextIInv, PTL DEF Spec

(***************************************************************************)
(* Names.                                                                  *)
(***************************************************************************)
\* Labels are numbered without a gap, and none is dead before the pass.
Labelled(code) ==
    /\ \A k \in LabelsIn(code) : ~code[k].dead
    /\ \A n \in 1 .. Cardinality(LabelsIn(code)) : \E k \in LabelsIn(code) : code[k].to = n

\* Label n is printed.
Printed(code, n) == \E k \in LabelsIn(code) : ~code[k].dead /\ code[k].to = n

\* A jump that the iterator has passed, and that stays, leads to label n.
Needed(code, n, p) == \E j \in JumpsIn(code) : j < p /\ ~code[j].dead /\ code[j].to = n

\* A label that is printed has its own name, the name of a jump's label is
\* printed, and another label has the name of a label ahead only if a jump
\* that stays needs that one anyway: its count will not be zero.
Named(code, ls, p) ==
    /\ \A k \in LabelsIn(code) : ~code[k].dead => ls[code[k].to].name = code[k].to
    /\ \A j \in JumpsIn(code) : ~code[j].dead => Printed(code, ls[code[j].to].name)
    /\ \A k \in LabelsIn(code), n \in DOMAIN ls :
          k >= p /\ n # code[k].to /\ ls[n].name = code[k].to => Needed(code, code[k].to, p)

NInv ==
    /\ phase = "emit" => Labelled(source)
    /\ phase # "emit" /\ fault = "none" =>
          Named(ta_code, labels, at) /\ (label2 # None => ~ta_code[label2].dead)

LEMMA NeededKept ==
    ASSUME NEW c \in Seq(Instr), NEW d, SameShape(c, d), NEW p \in Nat, NEW n, Needed(c, n, p),
           \A j \in JumpsIn(c) : j < p => d[j].dead = c[j].dead
    PROVE  Needed(d, n, p) /\ Needed(d, n, p + 1)
<1>1. PICK j \in JumpsIn(c) : j < p /\ ~c[j].dead /\ c[j].to = n
  BY DEF Needed
<1>2. j \in JumpsIn(d) /\ ~d[j].dead /\ d[j].to = n /\ j \in Nat
  BY <1>1, SameShapePlaces DEF JumpsIn
<1>3. j < p + 1
  BY <1>1, <1>2
<1>4. QED BY <1>1, <1>2, <1>3 DEF Needed

LEMMA PrintedKept ==
    ASSUME NEW c \in Seq(Instr), NEW d, SameShape(c, d), NEW n, Printed(c, n),
           \A k \in LabelsIn(c) : ~c[k].dead /\ d[k].dead => c[k].to # n
    PROVE  Printed(d, n)
<1>1. PICK k \in LabelsIn(c) : ~c[k].dead /\ c[k].to = n
  BY DEF Printed
<1>2. k \in DOMAIN c /\ k \in LabelsIn(d) /\ d[k].to = n
  BY <1>1, SameShapePlaces DEF LabelsIn
<1>3. ~d[k].dead
  BY <1>1
<1>4. QED BY <1>2, <1>3 DEF Printed

\* No name changes, no jump that stays dies, and a label that dies is the name
\* of no jump's label.
LEMMA NamedKept ==
    ASSUME NEW c, NEW ls, Coded(c, ls), NEW d, SameShape(c, d), NEW p \in Nat, Named(c, ls, p),
           NEW ls2, DOMAIN ls2 = DOMAIN ls, \A n \in DOMAIN ls : ls2[n].name = ls[n].name,
           \A k \in DOMAIN c : ~d[k].dead => ~c[k].dead,
           \A j \in JumpsIn(c) : j < p => d[j].dead = c[j].dead,
           \A k \in LabelsIn(c), j \in JumpsIn(c) :
               ~c[k].dead /\ d[k].dead /\ ~d[j].dead => ls[c[j].to].name # c[k].to
    PROVE  Named(d, ls2, p + 1)
<1>1. c \in Seq(Instr) /\ LabelsIn(d) = LabelsIn(c) /\ JumpsIn(d) = JumpsIn(c)
      /\ \A k \in DOMAIN c : d[k].to = c[k].to
  BY SameShapePlaces DEF Coded
<1>2. /\ \A k \in LabelsIn(c) : k \in DOMAIN c /\ k \in Nat /\ c[k].to \in DOMAIN ls
      /\ \A k \in JumpsIn(c) : k \in DOMAIN c /\ k \in Nat /\ c[k].to \in DOMAIN ls
  BY <1>1 DEF LabelsIn, JumpsIn, Coded
<1>3. \A k \in LabelsIn(d) : ~d[k].dead => ls2[d[k].to].name = d[k].to
  BY <1>1, <1>2 DEF Named
<1>4. ASSUME NEW j \in JumpsIn(d), ~d[j].dead PROVE Printed(d, ls2[d[j].to].name)
  <2>1. ~c[j].dead /\ ls2[d[j].to].name = ls[c[j].to].name
    BY <1>1, <1>2, <1>4
  <2>2. Printed(c, ls[c[j].to].name)
    BY <1>1, <2>1 DEF Named
  <2>3. \A k \in LabelsIn(c) : ~c[k].dead /\ d[k].dead => c[k].to # ls[c[j].to].name
    BY <1>1, <1>4
  <2>4. QED BY <1>1, <2>1, <2>2, <2>3, PrintedKept
<1>5. ASSUME NEW k \in LabelsIn(d), NEW n \in DOMAIN ls2,
             k >= p + 1, n # d[k].to, ls2[n].name = d[k].to
      PROVE  Needed(d, d[k].to, p + 1)
  <2>1. k >= p /\ n # c[k].to /\ ls[n].name = c[k].to /\ d[k].to = c[k].to
    BY <1>1, <1>2, <1>5
  <2>2. Needed(c, c[k].to, p)
    BY <1>1, <2>1 DEF Named
  <2>3. QED BY <1>1, <2>1, <2>2, NeededKept
<1>6. QED BY <1>3, <1>4, <1>5 DEF Named


LEMMA LabelledOther ==
    ASSUME NEW max \in Nat, NEW code, Written(code, max), Labelled(code),
           NEW i \in Instr, i.kind # "label"
    PROVE  Labelled(Append(code, i))
<1> DEFINE d == Append(code, i)
<1>1. code \in Seq(Instr) /\ d \in Seq(Instr) /\ Len(d) = Len(code) + 1
  BY DEF Written
<1>2. \A k \in DOMAIN code : d[k] = code[k]
  BY <1>1
<1>3. d[Len(code) + 1] = i /\ DOMAIN d = DOMAIN code \cup {Len(code) + 1}
  BY <1>1
<1> HIDE DEF d
<1>4. LabelsIn(d) = LabelsIn(code) /\ \A k \in LabelsIn(code) : d[k] = code[k]
  BY <1>1, <1>2, <1>3 DEF LabelsIn
<1>5. Labelled(d)
  BY <1>4 DEF Labelled
<1>6. QED BY <1>5 DEF d

LEMMA LabelledLabel ==
    ASSUME NEW max \in Nat, NEW code, Written(code, max), Labelled(code)
    PROVE  Labelled(Append(code, LabelOf(Cardinality(LabelsIn(code)) + 1)))
<1> DEFINE n == Cardinality(LabelsIn(code)) + 1
           i == LabelOf(n)
           d == Append(code, i)
           p == Len(code) + 1
<1>1. code \in Seq(Instr) /\ LabelsIn(code) \in SUBSET DOMAIN code
  BY DEF Written, LabelsIn
<1>2. n \in Nat /\ n >= 1 /\ n - 1 = Cardinality(LabelsIn(code))
  BY <1>1, PlacesFinite
<1>3. i \in Instr /\ i.kind = "label" /\ i.to = n /\ ~i.dead
  <2> HIDE DEF n
  <2>1. QED BY <1>2 DEF LabelOf, Quad, Instr, None
<1> HIDE DEF i
<1>4. \A k \in DOMAIN code : d[k] = code[k]
  BY <1>1, <1>3
<1>5. d[p] = i /\ DOMAIN d = DOMAIN code \cup {p} /\ p \notin DOMAIN code
  BY <1>1, <1>3
<1> HIDE DEF d, p
<1>6. LabelsIn(d) = LabelsIn(code) \cup {p}
  BY <1>3, <1>4, <1>5 DEF LabelsIn
<1>7. Cardinality(LabelsIn(d)) = n
  BY <1>1, <1>5, <1>6, PlacesAdded
<1>8. \A k \in LabelsIn(code) : d[k] = code[k]
  BY <1>1, <1>4
<1>9. \A k \in LabelsIn(d) : ~d[k].dead
  BY <1>3, <1>5, <1>6, <1>8 DEF Labelled
<1>10. ASSUME NEW m \in 1 .. n PROVE \E k \in LabelsIn(d) : d[k].to = m
  <2>1. CASE m = n
    BY <1>3, <1>5, <1>6, <2>1
  <2>2. CASE m # n
    <3>1. m \in 1 .. n - 1
      BY <1>2, <2>2
    <3>2. PICK k \in LabelsIn(code) : code[k].to = m
      BY <1>2, <3>1 DEF Labelled
    <3>3. QED BY <1>6, <1>8, <3>2
  <2>3. QED BY <2>1, <2>2
<1>11. Labelled(d)
  BY <1>7, <1>9, <1>10 DEF Labelled
<1>12. QED BY <1>11 DEF d, i

LEMMA InitNames == ASSUME Init PROVE NInv
<1>1. phase = "emit" /\ LabelsIn(source) = {}
  BY DEF Init, LabelsIn
<1>2. Cardinality(LabelsIn(source)) = 0
  BY <1>1, FS_EmptySet
<1>3. Labelled(source)
  BY <1>1, <1>2 DEF Labelled
<1>4. QED BY <1>1, <1>3 DEF NInv

LEMMA EmitNames == ASSUME IInv, NInv, Emit PROVE NInv'
<1>1. phase = "emit" /\ phase' = "emit" /\ bound \in Bounds /\ Written(source, MaxCode) /\ Labelled(source)
  BY DEF IInv, NInv, Emit
<1>2. PICK i \in {Quad, DeadQuad, LabelOf(Cardinality(LabelsIn(source)) + 1)} \cup {g \in Gotos : WellFormed(g)} :
          source' = Append(source, i)
  BY DEF Emit
<1>3. MaxCode \in Nat
  BY <1>1, MaxCodeNat
<1>4. CASE i = LabelOf(Cardinality(LabelsIn(source)) + 1)
  <2>1. Labelled(source')
    BY <1>1, <1>2, <1>3, <1>4, LabelledLabel
  <2>2. QED BY <1>1, <2>1 DEF NInv
<1>5. CASE i # LabelOf(Cardinality(LabelsIn(source)) + 1)
  <2>1. i \in Instr /\ i.kind # "label"
    BY <1>1, <1>2, <1>5, OtherInstr
  <2>2. Labelled(source')
    BY <1>1, <1>2, <1>3, <2>1, LabelledOther
  <2>3. QED BY <1>1, <2>2 DEF NInv
<1>6. QED BY <1>4, <1>5

LEMMA StartNames == ASSUME IInv, NInv, Start PROVE NInv'
<1>1. phase = "emit" /\ bound \in Bounds /\ Written(source, MaxCode) /\ Labelled(source) /\ at = 1 /\ label2 = None
  BY DEF IInv, NInv, Start
<1>2. MaxCode \in Nat /\ Wanted(source) <= Cardinality(LabelsIn(source))
  BY <1>1, MaxCodeNat DEF Start
<1>3. PICK extra \in Surplus :
          labels' = [n \in 1 .. Cardinality(LabelsIn(source)) |->
                        [name |-> n, refs |-> extra + Cardinality({k \in JumpsIn(source) : source[k].to = n})]]
  BY DEF Start
<1>4. ta_code' = source /\ at' = 1 /\ label2' = None /\ phase' = "pass"
  BY <1>1 DEF Start
<1> DEFINE c == Cardinality(LabelsIn(source))
<1>5. DOMAIN labels' = 1 .. c /\ \A n \in 1 .. c : labels'[n].name = n
  BY <1>3
<1>6. c \in Nat
  <2>1. source \in Seq(Instr) /\ LabelsIn(source) \in SUBSET DOMAIN source
    BY <1>1 DEF Written, LabelsIn
  <2>2. QED BY <2>1, PlacesFinite
<1>7. \A k \in LabelsIn(source) : source[k].to \in 1 .. c
  BY <1>1 DEF Written
<1>8. \A n \in 1 .. c : Printed(source, n)
  BY <1>1 DEF Labelled, Printed
<1> HIDE DEF c
<1>9. \A j \in JumpsIn(source) : source[j].to \in 1 .. c
  <2>1. \A j \in JumpsIn(source) : source[j].to <= Wanted(source) /\ source[j].to \in 1 .. MaxCode
    BY <1>1, <1>2, WantedBounds DEF Written
  <2>2. Wanted(source) <= c /\ Wanted(source) \in Nat
    BY <1>1, <1>2, WantedBounds DEF c
  <2>3. QED BY <1>2, <1>6, <2>1, <2>2
<1>10. Named(source, labels', 1)
  BY <1>5, <1>7, <1>8, <1>9 DEF Named
<1>11. QED BY <1>4, <1>10 DEF NInv

\* What the pass knows of names.
LEMMA NamesInPass ==
    ASSUME IInv, NInv, phase = "pass", fault = "none"
    PROVE  Named(ta_code, labels, at) /\ (label2 # None => ~ta_code[label2].dead)
BY DEF NInv

\* A step that leaves names alone.
LEMMA StepNames ==
    ASSUME IInv, NInv, phase = "pass", Advance, SameShape(ta_code, ta_code'),
           fault' = "none" => fault = "none",
           DOMAIN labels' = DOMAIN labels, \A n \in DOMAIN labels : labels'[n].name = labels[n].name,
           \A k \in DOMAIN ta_code : ~ta_code'[k].dead => ~ta_code[k].dead,
           \A k \in DOMAIN ta_code : k # at => ta_code'[k].dead = ta_code[k].dead,
           at \in LabelsIn(ta_code) /\ ~ta_code[at].dead /\ ta_code'[at].dead => Leading(ta_code, ta_code[at].to) = {},
           label2' \in {label2, None} \/ (label2' = at /\ ~ta_code'[at].dead)
    PROVE  NInv'
<1> SUFFICES ASSUME fault' = "none"
             PROVE  Named(ta_code', labels', at + 1) /\ (label2' # None => ~ta_code'[label2'].dead)
  BY DEF NInv, Advance
<1>1. fault = "none" /\ Named(ta_code, labels, at) /\ (label2 # None => ~ta_code[label2].dead)
  BY NamesInPass
<1>2. /\ Coded(ta_code, labels) /\ ta_code \in Seq(Instr) /\ at \in Nat
      /\ (label2 # None => label2 \in LabelsIn(ta_code) /\ label2 # at)
  BY InPass
<1>3. ASSUME NEW k \in LabelsIn(ta_code), NEW j \in JumpsIn(ta_code),
             ~ta_code[k].dead, ta_code'[k].dead, ~ta_code'[j].dead
      PROVE  labels[ta_code[j].to].name # ta_code[k].to
  <2>1. k = at /\ ~ta_code[j].dead /\ j \in DOMAIN ta_code /\ k \in DOMAIN ta_code
    BY <1>3 DEF LabelsIn, JumpsIn
  <2>2. Leading(ta_code, ta_code[k].to) = {}
    BY <1>3, <2>1
  <2>3. ta_code[j].to # ta_code[k].to /\ ta_code[j].to \in DOMAIN labels
    BY <1>2, <2>1, <2>2 DEF Leading, Coded, JumpsIn
  <2>4. ~Needed(ta_code, ta_code[k].to, at)
    BY <2>2 DEF Needed, Leading
  <2>5. k >= at
    BY <1>2, <2>1
  <2>6. QED BY <1>1, <2>3, <2>4, <2>5 DEF Named
<1>4. \A j \in JumpsIn(ta_code) : j < at => ta_code'[j].dead = ta_code[j].dead
  BY <1>2 DEF JumpsIn
<1>5. Named(ta_code', labels', at + 1)
  BY <1>1, <1>2, <1>3, <1>4, NamedKept
<1>6. label2' # None => ~ta_code'[label2'].dead
  BY <1>1, <1>2 DEF LabelsIn
<1>7. QED BY <1>5, <1>6

LEMMA SkipDeadNames == ASSUME IInv, NInv, SkipDead PROVE NInv'
<1>1. phase = "pass" /\ at <= Len(ta_code) /\ Advance
      /\ ta_code' = ta_code /\ labels' = labels /\ label2' = label2 /\ fault' = fault
  BY DEF SkipDead
<1>2. QED BY <1>1, InPass, StepNames

LEMMA KeepLabelNames == ASSUME IInv, NInv, KeepLabel PROVE NInv'
<1>1. phase = "pass" /\ AtALive
  BY DEF KeepLabel, Here, AtALive
<1>2. ta_code' = ta_code /\ labels' = labels /\ label2' = at /\ fault' = fault /\ Advance
  BY DEF KeepLabel
<1>3. ~ta_code[at].dead
  BY <1>1, CurrentSame
<1>4. QED BY <1>1, <1>2, <1>3, InPass, StepNames

LEMMA KeepQuadNames == ASSUME IInv, NInv, KeepQuad PROVE NInv'
<1>1. phase = "pass" /\ ta_code' = ta_code /\ labels' = labels /\ label2' = None /\ fault' = fault /\ Advance
  BY DEF KeepQuad, Here, AtALive
<1>2. QED BY <1>1, InPass, StepNames

LEMMA DropJumpNames == ASSUME IInv, NInv, DropJump PROVE NInv'
<1>1. phase = "pass" /\ AtALive /\ Current.kind = "goto"
  BY DEF DropJump, Here, AtALive
<1>2. Kill(Current) /\ label2' = label2 /\ fault' = fault /\ Advance
      /\ labels' = [labels EXCEPT ![Current.to].refs = @ - 1]
  BY DEF DropJump
<1>3. at \in JumpsIn(ta_code) /\ ~ta_code[at].dead /\ at \notin LabelsIn(ta_code)
  BY <1>1, CurrentSame DEF JumpsIn, LabelsIn
<1>4. /\ SameShape(ta_code, ta_code') /\ ta_code'[at].dead
      /\ \A k \in DOMAIN ta_code : k # at => ta_code'[k] = ta_code[k]
  BY <1>1, <1>2, KillSame
<1>5. DOMAIN labels' = DOMAIN labels /\ \A n \in DOMAIN labels : labels'[n].name = labels[n].name
  <2>1. labels \in [DOMAIN labels -> [name : DOMAIN labels, refs : Int]]
    BY <1>1, InPass
  <2>2. \A n \in DOMAIN labels : labels[n] \in [name : DOMAIN labels, refs : Int]
    BY <2>1
  <2>3. ASSUME NEW n \in DOMAIN labels PROVE labels'[n].name = labels[n].name
    <3>1. CASE n = Current.to
      BY <1>2, <2>2, <3>1
    <3>2. CASE n # Current.to
      BY <1>2, <3>2
    <3>3. QED BY <3>1, <3>2
  <2>4. QED BY <1>2, <2>3
<1>6. QED BY <1>1, <1>2, <1>3, <1>4, <1>5, StepNames

\* No jump leads to a label that nothing is counted for.
LEMMA NothingLeads ==
    ASSUME IInv, AtALive, at \in LabelsIn(ta_code), labels[ta_code[at].to].refs = 0
    PROVE  Leading(ta_code, ta_code[at].to) = {}
<1>1. phase = "pass" /\ Covered(ta_code, labels, at, label2) /\ ta_code \in Seq(Instr) /\ at \in Nat
  BY InPass DEF AtALive
<1> DEFINE L == Leading(ta_code, ta_code[at].to)
<1>2. L \in SUBSET DOMAIN ta_code
  BY DEF Leading, JumpsIn
<1>3. IsFiniteSet(L) /\ Cardinality(L) \in Nat
  BY <1>1, <1>2, PlacesFinite
<1>4. 0 >= Cardinality(L)
  BY <1>1 DEF Covered
<1> HIDE DEF L
<1>5. Cardinality(L) = 0
  BY <1>3, <1>4
<1>6. L = {}
  BY <1>3, <1>5, FS_EmptySet
<1>7. QED BY <1>6 DEF L

LEMMA DropOtherNames == ASSUME IInv, NInv, DropOther PROVE NInv'
<1>1. phase = "pass" /\ AtALive /\ (Current.kind = "quad" \/ (Current.kind = "label" /\ Unreferenced))
  BY DEF DropOther, Here, AtALive
<1>2. Kill(Current) /\ labels' = labels /\ label2' = label2 /\ fault' = fault /\ Advance
  BY DEF DropOther
<1>3. /\ SameShape(ta_code, ta_code') /\ ta_code'[at].dead
      /\ \A k \in DOMAIN ta_code : k # at => ta_code'[k] = ta_code[k]
  BY <1>1, <1>2, KillSame
<1>4. at \in LabelsIn(ta_code) => Leading(ta_code, ta_code[at].to) = {}
  <2> SUFFICES ASSUME at \in LabelsIn(ta_code) PROVE labels[ta_code[at].to].refs = 0
    BY <1>1, NothingLeads
  <2>1. Current.kind # "quad" /\ Current.to = ta_code[at].to
    BY <1>1, CurrentSame DEF LabelsIn
  <2>2. QED BY <1>1, <2>1 DEF Unreferenced
<1>5. ~ta_code[at].dead
  BY <1>1, CurrentSame
<1>6. QED BY <1>1, <1>2, <1>3, <1>4, <1>5, StepNames

LEMMA MergeLabelNames == ASSUME IInv, NInv, MergeLabel PROVE NInv'
<1> SUFFICES ASSUME fault' = "none"
             PROVE  Named(ta_code', labels', at + 1) /\ (label2' # None => ~ta_code'[label2'].dead)
  BY DEF NInv, Advance, MergeLabel
<1> DEFINE l1 == Current.to
           l2 == ta_code[label2].to
<1>1. phase = "pass" /\ AtALive /\ Current.kind = "label" /\ label2 # None
  BY DEF MergeLabel, Here, AtALive
<1>2. /\ Kill(Current) /\ label2' = label2
      /\ labels' = [labels EXCEPT ![l1] = labels[l2]]
      /\ fault = "none" /\ \A n \in DOMAIN labels \ {l1} : labels[n].name # labels[l1].name
  BY DEF MergeLabel
<1>3. /\ Coded(ta_code, labels) /\ ta_code \in Seq(Instr) /\ at \in Nat
      /\ label2 \in LabelsIn(ta_code) /\ label2 # at
  BY <1>1, InPass
<1>4. Named(ta_code, labels, at) /\ ~ta_code[label2].dead
  BY <1>1, <1>2, NamesInPass
<1>5. at \in LabelsIn(ta_code) /\ l1 = ta_code[at].to /\ ~ta_code[at].dead
  BY <1>1, CurrentSame DEF LabelsIn
<1>6. /\ SameShape(ta_code, ta_code') /\ ta_code'[at].dead
      /\ \A k \in DOMAIN ta_code : k # at => ta_code'[k] = ta_code[k]
  BY <1>1, <1>2, KillSame
<1>7. LabelsIn(ta_code') = LabelsIn(ta_code) /\ JumpsIn(ta_code') = JumpsIn(ta_code)
      /\ \A k \in DOMAIN ta_code : ta_code'[k].to = ta_code[k].to
  BY <1>3, <1>6, SameShapePlaces
<1>8. /\ \A k \in LabelsIn(ta_code) : k \in DOMAIN ta_code /\ k \in Nat /\ ta_code[k].to \in DOMAIN labels
      /\ \A k \in JumpsIn(ta_code) : k \in DOMAIN ta_code /\ k # at /\ ta_code[k].to \in DOMAIN labels
  BY <1>3, <1>5 DEF LabelsIn, JumpsIn, Coded
<1>9. labels[l1].name = l1 /\ labels[l2].name = l2 /\ l1 \in DOMAIN labels /\ l1 # l2
  BY <1>3, <1>4, <1>5, <1>8 DEF Named, Coded, Numbered
<1>10. /\ DOMAIN labels' = DOMAIN labels /\ labels'[l1].name = l2
       /\ \A n \in DOMAIN labels : n # l1 => labels'[n].name = labels[n].name
  BY <1>2, <1>9
<1> HIDE DEF l1, l2
<1>11. \A k \in LabelsIn(ta_code') : ~ta_code'[k].dead => labels'[ta_code'[k].to].name = ta_code'[k].to
  <2>1. ASSUME NEW k \in LabelsIn(ta_code), ~ta_code'[k].dead PROVE labels'[ta_code[k].to].name = ta_code[k].to
    <3>1. k # at /\ ~ta_code[k].dead /\ ta_code[k].to # l1
      BY <1>3, <1>5, <1>6, <1>8, <2>1 DEF Coded, Numbered
    <3>2. QED BY <1>4, <1>8, <1>10, <3>1 DEF Named
  <2>2. QED BY <1>7, <1>8, <2>1
<1>12. Printed(ta_code', l2)
  BY <1>3, <1>4, <1>6, <1>7, <1>8 DEF Printed, l2
<1>13. ASSUME NEW j \in JumpsIn(ta_code), ~ta_code'[j].dead PROVE Printed(ta_code', labels'[ta_code[j].to].name)
  <2>1. CASE ta_code[j].to = l1
    BY <1>10, <1>12, <2>1
  <2>2. CASE ta_code[j].to # l1
    <3>1. ~ta_code[j].dead
      BY <1>6, <1>8, <1>13
    <3>2. Printed(ta_code, labels[ta_code[j].to].name)
      BY <1>4, <3>1 DEF Named
    <3>3. labels[ta_code[j].to].name # l1
      BY <1>2, <1>8, <1>9, <2>2
    <3>4. \A k \in LabelsIn(ta_code) : ~ta_code[k].dead /\ ta_code'[k].dead => ta_code[k].to # labels[ta_code[j].to].name
      BY <1>5, <1>6, <1>8, <3>3
    <3>5. Printed(ta_code', labels[ta_code[j].to].name)
      BY <1>3, <1>6, <3>2, <3>4, PrintedKept
    <3>6. QED BY <1>8, <1>10, <2>2, <3>5
  <2>3. QED BY <2>1, <2>2
<1>14. ASSUME NEW k \in LabelsIn(ta_code), NEW n \in DOMAIN labels,
              k >= at + 1, n # ta_code[k].to, labels'[n].name = ta_code[k].to
       PROVE  Needed(ta_code', ta_code[k].to, at + 1)
  <2>1. k >= at /\ k # label2
    BY <1>1, <1>3, <1>8, <1>14, InPass DEF Placed
  <2>2. ta_code[k].to # l2
    BY <1>3, <2>1 DEF Coded, Numbered, l2
  <2>3. labels[n].name = ta_code[k].to
    BY <1>10, <1>14, <2>2
  <2>4. Needed(ta_code, ta_code[k].to, at)
    BY <1>4, <1>14, <2>1, <2>3 DEF Named
  <2>5. \A j \in JumpsIn(ta_code) : j < at => ta_code'[j].dead = ta_code[j].dead
    BY <1>6, <1>8
  <2>6. QED BY <1>3, <1>6, <2>4, <2>5, NeededKept
<1>15. Named(ta_code', labels', at + 1)
  BY <1>7, <1>8, <1>10, <1>11, <1>13, <1>14 DEF Named
<1>16. ~ta_code'[label2].dead
  BY <1>3, <1>4, <1>6, <1>8
<1>17. QED BY <1>2, <1>15, <1>16

\* The jump is written back and the label before it dies.
LEMMA RenameDies ==
    ASSUME IInv, AtALive, Current.kind = "goto", label2 # None,
           ta_code' = [[ta_code EXCEPT ![at] = Current] EXCEPT ![label2].dead = TRUE]
    PROVE  /\ SameShape(ta_code, ta_code') /\ ta_code'[label2].dead
           /\ \A k \in DOMAIN ta_code : k # label2 => ta_code'[k].dead = ta_code[k].dead
<1>1. SameShape(ta_code, ta_code')
  BY JumpWrittenBack
<1>2. /\ phase = "pass" /\ ta_code \in Seq(Instr) /\ at \in DOMAIN ta_code
      /\ ~Current.dead /\ ~ta_code[at].dead /\ Current \in Instr
      /\ label2 \in DOMAIN ta_code /\ label2 # at
  BY InPass, CurrentSame DEF AtALive, LabelsIn
<1>3. ta_code[at] \in Instr /\ ta_code[label2] \in Instr
  BY <1>2
<1>4. ta_code'[at] = Current /\ ta_code'[label2] = [ta_code[label2] EXCEPT !.dead = TRUE]
      /\ \A k \in DOMAIN ta_code : k # at /\ k # label2 => ta_code'[k] = ta_code[k]
  BY <1>2
<1>5. ta_code'[at].dead = ta_code[at].dead
  BY <1>2, <1>3, <1>4 DEF Instr
<1>6. ta_code'[label2].dead
  BY <1>3, <1>4 DEF Instr
<1>7. QED BY <1>1, <1>4, <1>5, <1>6

LEMMA RenameNames ==
    ASSUME NEW ls, ls \in [DOMAIN ls -> [name : DOMAIN ls, refs : Int]],
           NEW l \in DOMAIN ls, NEW l2 \in DOMAIN ls
    PROVE  /\ DOMAIN Renamed(ls, l, l2) = DOMAIN ls /\ Renamed(ls, l, l2)[l2].name = ls[l].name
           /\ \A n \in DOMAIN ls : n # l2 => Renamed(ls, l, l2)[n].name = ls[n].name
<1> DEFINE R == [name : DOMAIN ls, refs : Int]
           more == [ls[l] EXCEPT !.refs = @ + ls[l2].refs]
           mid == [ls EXCEPT ![l] = more]
           named == [mid[l2] EXCEPT !.name = ls[l].name]
           ls2 == Renamed(ls, l, l2)
<1>1. ls[l] \in R /\ ls[l2] \in R
  OBVIOUS
<1>2. more \in R /\ more.name = ls[l].name
  BY <1>1
<1>3. mid = [ls EXCEPT ![l].refs = @ + ls[l2].refs]
  OBVIOUS
<1>4. ls2 = [mid EXCEPT ![l2] = named]
  BY <1>3 DEF Renamed
<1> HIDE DEF more, ls2
<1>5. mid \in [DOMAIN ls -> R] /\ \A n \in DOMAIN ls : mid[n].name = ls[n].name
  <2>1. mid \in [DOMAIN ls -> R]
    BY <1>2
  <2>2. ASSUME NEW n \in DOMAIN ls PROVE mid[n].name = ls[n].name
    BY <1>2
  <2>3. QED BY <2>1, <2>2
<1> HIDE DEF mid
<1>6. named.name = ls[l].name
  BY <1>1, <1>5
<1> HIDE DEF named
<1>7. DOMAIN ls2 = DOMAIN ls /\ ls2[l2] = named /\ \A n \in DOMAIN ls : n # l2 => ls2[n] = mid[n]
  BY <1>4, <1>5
<1>8. QED BY <1>5, <1>6, <1>7 DEF ls2

LEMMA RenameJumpNames ==
    ASSUME IInv, NInv, KeepJump, label2 # None, Current.cond = "always", fault' = "none"
    PROVE  Named(ta_code', labels', at + 1)
<1> DEFINE l == Current.to
           l2 == ta_code[label2].to
<1>1. phase = "pass" /\ AtALive /\ Current.kind = "goto"
  BY DEF KeepJump, Here, AtALive
<1>2. /\ ta_code' = [[ta_code EXCEPT ![at] = Current] EXCEPT ![label2].dead = TRUE]
      /\ labels' = Renamed(labels, l, l2)
      /\ fault = "none"
      /\ \A n \in DOMAIN labels : labels[n].name = labels[l2].name => n = l2 /\ n # l
  BY DEF KeepJump, Renamed
<1>3. /\ Coded(ta_code, labels) /\ ta_code \in Seq(Instr) /\ at \in Nat
      /\ labels \in [DOMAIN labels -> [name : DOMAIN labels, refs : Int]]
      /\ label2 \in LabelsIn(ta_code) /\ label2 # at /\ Placed(ta_code, at, goto2, label2)
  BY <1>1, InPass
<1>4. Named(ta_code, labels, at) /\ ~ta_code[label2].dead
  BY <1>1, <1>2, NamesInPass
<1>5. at \in JumpsIn(ta_code) /\ l = ta_code[at].to /\ ~ta_code[at].dead
  BY <1>1, CurrentSame DEF JumpsIn
<1>6. /\ SameShape(ta_code, ta_code') /\ ta_code'[label2].dead
      /\ \A k \in DOMAIN ta_code : k # label2 => ta_code'[k].dead = ta_code[k].dead
  BY <1>1, <1>2, RenameDies
<1>7. LabelsIn(ta_code') = LabelsIn(ta_code) /\ JumpsIn(ta_code') = JumpsIn(ta_code)
      /\ \A k \in DOMAIN ta_code : ta_code'[k].to = ta_code[k].to
  BY <1>3, <1>6, SameShapePlaces
<1>8. /\ \A k \in LabelsIn(ta_code) : k \in DOMAIN ta_code /\ k \in Nat /\ ta_code[k].to \in DOMAIN labels
      /\ \A k \in JumpsIn(ta_code) : k \in DOMAIN ta_code /\ k # label2 /\ ta_code[k].to \in DOMAIN labels
  BY <1>3 DEF LabelsIn, JumpsIn, Coded
<1>9. l \in DOMAIN labels /\ l2 \in DOMAIN labels /\ labels[l2].name = l2
  BY <1>3, <1>4, <1>5, <1>8 DEF Named
<1> HIDE DEF l, l2
<1>10. /\ DOMAIN labels' = DOMAIN labels /\ labels'[l2].name = labels[l].name
       /\ \A n \in DOMAIN labels : n # l2 => labels'[n].name = labels[n].name
  <2>1. PICK ls : ls = Renamed(labels, l, l2)
    OBVIOUS
  <2>2. /\ DOMAIN ls = DOMAIN labels /\ ls[l2].name = labels[l].name
        /\ \A n \in DOMAIN labels : n # l2 => ls[n].name = labels[n].name
    BY <1>3, <1>9, <2>1, RenameNames
  <2>3. QED BY <1>2, <2>1, <2>2
<1>11. ASSUME NEW j \in JumpsIn(ta_code), ~ta_code[j].dead, ta_code[j].to # l2
       PROVE  Printed(ta_code', labels[ta_code[j].to].name)
  <2>1. Printed(ta_code, labels[ta_code[j].to].name)
    BY <1>4, <1>11 DEF Named
  <2>2. labels[ta_code[j].to].name # l2
    BY <1>2, <1>8, <1>9, <1>11
  <2>3. \A k \in LabelsIn(ta_code) : ~ta_code[k].dead /\ ta_code'[k].dead => ta_code[k].to # labels[ta_code[j].to].name
    BY <1>6, <1>8, <2>2 DEF l2
  <2>4. QED BY <1>3, <1>6, <2>1, <2>3, PrintedKept
<1>12. l # l2
  BY <1>2, <1>9
<1>13. Printed(ta_code', labels[l].name)
  BY <1>5, <1>11, <1>12
<1>14. ASSUME NEW j \in JumpsIn(ta_code), ~ta_code'[j].dead PROVE Printed(ta_code', labels'[ta_code[j].to].name)
  <2>1. ~ta_code[j].dead
    BY <1>6, <1>8, <1>14
  <2>2. CASE ta_code[j].to = l2
    BY <1>10, <1>13, <2>2
  <2>3. CASE ta_code[j].to # l2
    BY <1>8, <1>10, <1>11, <2>1, <2>3
  <2>4. QED BY <2>2, <2>3
<1>15. \A k \in LabelsIn(ta_code) : ~ta_code'[k].dead => labels'[ta_code[k].to].name = ta_code[k].to
  <2>1. ASSUME NEW k \in LabelsIn(ta_code), ~ta_code'[k].dead PROVE labels'[ta_code[k].to].name = ta_code[k].to
    <3>1. k # label2 /\ ~ta_code[k].dead /\ ta_code[k].to # l2
      BY <1>3, <1>6, <1>8, <2>1 DEF Coded, Numbered, l2
    <3>2. QED BY <1>4, <1>8, <1>10, <3>1 DEF Named
  <2>2. QED BY <2>1
<1>16. Needed(ta_code', l, at + 1)
  <2>1. at \in JumpsIn(ta_code') /\ ~ta_code'[at].dead /\ ta_code'[at].to = l /\ at < at + 1
    BY <1>3, <1>5, <1>6, <1>7, <1>8
  <2>2. QED BY <2>1 DEF Needed
<1>17. ASSUME NEW k \in LabelsIn(ta_code), NEW n \in DOMAIN labels,
              k >= at + 1, n # ta_code[k].to, labels'[n].name = ta_code[k].to
       PROVE  Needed(ta_code', ta_code[k].to, at + 1)
  <2>1. k >= at /\ k \in Nat
    BY <1>3, <1>8, <1>17
  <2>2. \A j \in JumpsIn(ta_code) : j < at => ta_code'[j].dead = ta_code[j].dead
    BY <1>6, <1>8
  <2>3. ASSUME NEW m \in DOMAIN labels, m # ta_code[k].to, labels[m].name = ta_code[k].to
        PROVE  Needed(ta_code', ta_code[k].to, at + 1)
    <3>1. Needed(ta_code, ta_code[k].to, at)
      BY <1>4, <2>1, <2>3 DEF Named
    <3>2. QED BY <1>3, <1>6, <2>2, <3>1, NeededKept
  <2>4. CASE n # l2
    <3>1. labels[n].name = ta_code[k].to
      BY <1>10, <1>17, <2>4
    <3>2. QED BY <1>17, <2>3, <3>1
  <2>5. CASE n = l2
    <3>1. labels[l].name = ta_code[k].to
      BY <1>10, <1>17, <2>5
    <3>2. CASE l = ta_code[k].to
      BY <1>16, <3>2
    <3>3. CASE l # ta_code[k].to
      BY <1>9, <2>3, <3>1, <3>3
    <3>4. QED BY <3>2, <3>3
  <2>6. QED BY <2>4, <2>5
<1>18. QED BY <1>7, <1>8, <1>10, <1>14, <1>15, <1>17 DEF Named

LEMMA KeepJumpNames == ASSUME IInv, NInv, KeepJump PROVE NInv'
<1>1. phase = "pass" /\ AtALive /\ Current.kind = "goto" /\ phase' = "pass" /\ Advance /\ label2' = None
      /\ (fault' = "none" => fault = "none")
  BY DEF KeepJump, Here, AtALive, Advance
<1>2. CASE label2 # None /\ Current.cond = "always"
  <2>1. fault' = "none" => Named(ta_code', labels', at + 1)
    BY <1>2, RenameJumpNames
  <2>2. QED BY <1>1, <2>1 DEF NInv, Advance
<1>3. CASE ~(label2 # None /\ Current.cond = "always")
  <2>1. labels' = labels /\ ta_code' = [[ta_code EXCEPT ![at] = Current] EXCEPT ![at].dead = FALSE]
    BY <1>3 DEF KeepJump
  <2>2. SameShape(ta_code, ta_code')
    <3>1. \E rename \in BOOLEAN : ~rename /\ ta_code' = [[ta_code EXCEPT ![at] = Current] EXCEPT ![IF rename THEN label2 ELSE at].dead = rename]
      BY <2>1
    <3>2. QED BY <1>1, <3>1, JumpWrittenBack
  <2>3. at \notin LabelsIn(ta_code) /\ ~ta_code[at].dead /\ at \in DOMAIN ta_code /\ ta_code \in Seq(Instr)
    BY <1>1, CurrentSame, InPass DEF LabelsIn
  <2>4. \A k \in DOMAIN ta_code : k # at => ta_code'[k].dead = ta_code[k].dead
    BY <2>1, <2>3
  <2>5. QED BY <1>1, <2>1, <2>2, <2>3, <2>4, StepNames
<1>4. QED BY <1>2, <1>3

LEMMA FinishNames == ASSUME IInv, NInv, Finish PROVE NInv'
BY DEF IInv, NInv, Finish

LEMMA StutterNames == ASSUME NInv, UNCHANGED vars PROVE NInv'
BY DEF NInv, vars

LEMMA NextNames == ASSUME IInv, NInv, [Next]_vars PROVE NInv'
BY EmitNames, StartNames, SkipDeadNames, DropJumpNames, DropOtherNames, MergeLabelNames, KeepLabelNames,
   KeepQuadNames, KeepJumpNames, FinishNames, StutterNames DEF Next, Done

LEMMA SpecNames == Spec => []NInv
BY SpecIInv, InitNames, NextNames, PTL DEF Spec

\* A set of places has a first one.
LEMMA MinIsIn ==
    ASSUME NEW S \in SUBSET Nat, S # {}
    PROVE  Min(S) \in S
<1>1. \E x \in S : \A y \in S : x <= y
  BY LeastNumber
<1>2. QED BY <1>1 DEF Min

(***************************************************************************)
(* Where moves end.  m takes every place to the next one; a place that it  *)
(* takes to itself is an end.                                              *)
(***************************************************************************)
Closed(m, S) == \A p \in DOMAIN m : m[p] \in S => p \in S

\* The places that lead to f: those in every set with f and whatever moves into it.
To(m, f) == {p \in DOMAIN m : \A S \in SUBSET DOMAIN m : f \in S /\ Closed(m, S) => p \in S}

LEMMA ToItself == ASSUME NEW P, NEW m \in [P -> P], NEW f \in P PROVE f \in To(m, f)
BY DEF To

LEMMA ToLeast ==
    ASSUME NEW P, NEW m \in [P -> P], NEW f, NEW S \in SUBSET P, f \in S, Closed(m, S)
    PROVE  To(m, f) \subseteq S
BY DEF To

\* What moves to a place that leads to f leads to f.
LEMMA ToBack ==
    ASSUME NEW P, NEW m \in [P -> P], NEW f, NEW p \in P, m[p] \in To(m, f)
    PROVE  p \in To(m, f)
BY DEF To, Closed

\* What leads to f, and is not f, moves to what leads to f.
LEMMA ToOnward ==
    ASSUME NEW P, NEW m \in [P -> P], NEW f \in P, NEW p \in To(m, f), p # f
    PROVE  m[p] \in To(m, f)
<1> SUFFICES ASSUME m[p] \notin To(m, f) PROVE FALSE
  OBVIOUS
<1> DEFINE S == To(m, f) \ {p}
<1>1. S \in SUBSET P /\ f \in S
  BY ToItself DEF To
<1>2. Closed(m, S)
  <2>1. ASSUME NEW q \in P, m[q] \in S PROVE q \in S
    <3>1. q \in To(m, f)
      BY <2>1, ToBack
    <3>2. QED BY <2>1, <3>1
  <2>2. QED BY <2>1 DEF Closed
<1>3. p \in S
  <2> HIDE DEF S
  <2>1. QED BY <1>1, <1>2, ToLeast
<1>4. QED BY <1>3

\* A place that only moves within G does not lead out of it.
LEMMA ToWithin ==
    ASSUME NEW P, NEW m \in [P -> P], NEW G \in SUBSET P, \A q \in G : m[q] \in G,
           NEW f \in P, NEW p \in G, p \in To(m, f)
    PROVE  f \in G
<1> SUFFICES ASSUME f \notin G PROVE FALSE
  OBVIOUS
<1>1. Closed(m, P \ G)
  BY DEF Closed
<1>2. To(m, f) \subseteq P \ G
  BY <1>1, ToLeast
<1>3. QED BY <1>2

\* Places in a row.
LEMMA ToAlong ==
    ASSUME NEW P \in SUBSET Nat, NEW m \in [P -> P], NEW f \in P, NEW a \in Nat, NEW b \in Nat, b <= a, b .. a \subseteq P,
           \A q \in b .. a - 1 : m[q] = q + 1 /\ q # f
    PROVE  b \in To(m, f) <=> a \in To(m, f)
<1> DEFINE n == a - b
<1>1. n \in Nat
  OBVIOUS
<1>2. ASSUME a \in To(m, f) PROVE b \in To(m, f)
  <2> DEFINE Q == {k \in 0 .. n : a - k \in To(m, f)}
  <2>1. 0 \in Q
    BY <1>2, <1>1
  <2>2. ASSUME NEW k \in 1 .. n, k - 1 \in Q PROVE k \in Q
    <3>1. a - k \in b .. a - 1 /\ (a - k) + 1 = a - (k - 1) /\ a - k \in P
      OBVIOUS
    <3>2. m[a - k] \in To(m, f)
      BY <2>2, <3>1
    <3>3. a - k \in To(m, f)
      BY <3>1, <3>2, ToBack
    <3>4. QED BY <3>3
  <2>3. 0 .. n \subseteq Q
    <3> HIDE DEF Q, n
    <3>1. QED BY <1>1, <2>1, <2>2, Upwards
  <2>4. n \in 0 .. n
    BY <1>1
  <2>5. n \in Q
    BY <2>3, <2>4
  <2>6. QED BY <2>5
<1>3. ASSUME b \in To(m, f) PROVE a \in To(m, f)
  <2> DEFINE Q == {k \in 0 .. n : b + k \in To(m, f)}
  <2>1. 0 \in Q
    BY <1>3, <1>1
  <2>2. ASSUME NEW k \in 1 .. n, k - 1 \in Q PROVE k \in Q
    <3>1. b + (k - 1) \in b .. a - 1 /\ (b + (k - 1)) + 1 = b + k /\ b + (k - 1) \in P
      OBVIOUS
    <3>2. b + (k - 1) \in To(m, f) /\ b + (k - 1) # f
      BY <2>2, <3>1
    <3>3. m[b + (k - 1)] \in To(m, f)
      BY <3>2, ToOnward
    <3>4. QED BY <3>1, <3>3
  <2>3. 0 .. n \subseteq Q
    <3> HIDE DEF Q, n
    <3>1. QED BY <1>1, <2>1, <2>2, Upwards
  <2>4. n \in 0 .. n
    BY <1>1
  <2>5. n \in Q
    BY <2>3, <2>4
  <2>6. QED BY <2>5
<1>4. QED BY <1>2, <1>3
\* The moves from p to q, k of them.
Path(m, p, q, k, g) == g[0] = p /\ g[k] = q /\ \A j \in 1 .. k : g[j] = m[g[j - 1]]

\* What leads to f gets there in some number of moves.
LEMMA ToPath ==
    ASSUME NEW P, NEW m \in [P -> P], NEW f \in P, NEW p \in To(m, f)
    PROVE  \E k \in Nat : \E g \in [0 .. k -> P] : Path(m, p, f, k, g)
<1> DEFINE S == {q \in P : \E k \in Nat : \E g \in [0 .. k -> P] : Path(m, q, f, k, g)}
<1>1. f \in S
  <2>1. [j \in 0 .. 0 |-> f] \in [0 .. 0 -> P] /\ Path(m, f, f, 0, [j \in 0 .. 0 |-> f])
    BY DEF Path
  <2>2. QED BY <2>1
<1>2. Closed(m, S)
  <2>1. ASSUME NEW q \in P, m[q] \in S PROVE q \in S
    <3>1. PICK k \in Nat : \E g \in [0 .. k -> P] : Path(m, m[q], f, k, g)
      BY <2>1
    <3>0. PICK g \in [0 .. k -> P] : Path(m, m[q], f, k, g)
      BY <3>1
    <3> DEFINE h == [j \in 0 .. k + 1 |-> IF j = 0 THEN q ELSE g[j - 1]]
    <3>2. h \in [0 .. k + 1 -> P] /\ h[0] = q /\ h[k + 1] = f
      BY <3>0 DEF Path
    <3>3. ASSUME NEW j \in 1 .. k + 1 PROVE h[j] = m[h[j - 1]]
      <4>1. CASE j = 1
        BY <3>0, <4>1 DEF Path
      <4>2. CASE j # 1
        <5>1. j - 1 \in 1 .. k /\ h[j] = g[j - 1] /\ h[j - 1] = g[(j - 1) - 1]
          BY <4>2
        <5>2. QED BY <3>0, <5>1 DEF Path
      <4>3. QED BY <4>1, <4>2
    <3>4. Path(m, q, f, k + 1, h)
      <4> HIDE DEF h
      <4>1. QED BY <3>2, <3>3 DEF Path
    <3>5. k + 1 \in Nat
      OBVIOUS
    <3> HIDE DEF h
    <3>6. QED BY <3>2, <3>4, <3>5
  <2>2. QED BY <2>1 DEF Closed
<1>3. S \in SUBSET P
  OBVIOUS
<1> HIDE DEF S
<1>4. p \in S
  BY <1>1, <1>2, <1>3, ToLeast
<1>5. QED BY <1>4 DEF S

\* A path without a detour.
LEMMA PathCut ==
    ASSUME NEW P, NEW m \in [P -> P], NEW p, NEW q, NEW k \in Nat, NEW g \in [0 .. k -> P], Path(m, p, q, k, g),
           NEW i \in 0 .. k, NEW j \in 0 .. k, i < j, g[i] = g[j]
    PROVE  \E n \in Nat : n < k /\ \E h \in [0 .. n -> P] : Path(m, p, q, n, h)
<1> DEFINE d == j - i
           n == k - d
           h == [x \in 0 .. n |-> IF x <= i THEN g[x] ELSE g[x + d]]
<1>1. d \in Nat /\ d >= 1 /\ n \in Nat /\ n < k /\ i <= n
  OBVIOUS
<1>2. i + d = j /\ n + d = k
  OBVIOUS
<1> HIDE DEF d, n
<1>3. \A x \in 0 .. n : x \in 0 .. k /\ x + d \in 0 .. k
  BY <1>1, <1>2
<1>4. h \in [0 .. n -> P]
  BY <1>3
<1>5. h[0] = p
  BY <1>1 DEF Path
<1>6. h[n] = q
  <2>1. n \in 0 .. n
    BY <1>1
  <2>2. CASE n <= i
    <3>1. n = i /\ k = j
      BY <1>1, <1>2, <2>2
    <3>2. QED BY <2>1, <2>2, <3>1 DEF Path
  <2>3. CASE ~(n <= i)
    BY <1>2, <2>1, <2>3 DEF Path
  <2>4. QED BY <2>2, <2>3
<1>7. ASSUME NEW x \in 1 .. n PROVE h[x] = m[h[x - 1]]
  <2>1. x \in 0 .. n /\ x - 1 \in 0 .. n /\ x \in 1 .. k /\ x + d \in 1 .. k
    BY <1>1, <1>2
  <2>2. CASE x <= i
    <3>1. h[x] = g[x] /\ h[x - 1] = g[x - 1]
      BY <2>1, <2>2
    <3>2. QED BY <2>1, <3>1 DEF Path
  <2>3. CASE x = i + 1
    <3>1. h[x] = g[x + d] /\ h[x - 1] = g[i]
      BY <2>1, <2>3
    <3>2. (x + d) - 1 = j
      BY <1>1, <1>2, <2>3
    <3>3. g[x + d] = m[g[(x + d) - 1]]
      BY <2>1 DEF Path
    <3>4. QED BY <3>1, <3>2, <3>3
  <2>4. CASE ~(x <= i + 1)
    <3>1. h[x] = g[x + d] /\ h[x - 1] = g[(x - 1) + d] /\ (x - 1) + d = (x + d) - 1
      BY <1>1, <2>1, <2>4
    <3>2. g[x + d] = m[g[(x + d) - 1]]
      BY <2>1 DEF Path
    <3>3. QED BY <3>1, <3>2
  <2>5. QED BY <2>2, <2>3, <2>4
<1> HIDE DEF h
<1>8. Path(m, p, q, n, h)
  BY <1>5, <1>6, <1>7 DEF Path
<1>9. QED BY <1>1, <1>4, <1>8

\* The ends but for the first M places: an end is reached in M moves.
LEMMA ShortPath ==
    ASSUME NEW P, NEW m \in [P -> P], NEW f \in P, m[f] = f, NEW p \in To(m, f),
           NEW M \in Nat, \A q \in P : m[q] # q => q \in 1 .. M
    PROVE  \E k \in 0 .. M : \E g \in [0 .. k -> P] : Path(m, p, f, k, g)
<1> DEFINE K == {k \in Nat : \E g \in [0 .. k -> P] : Path(m, p, f, k, g)}
<1>1. K \in SUBSET Nat /\ K # {}
  BY ToPath
<1>2. PICK k \in K : \A n \in K : k <= n
  <2> HIDE DEF K
  <2>1. QED BY <1>1, LeastNumber
<1>3. PICK g \in [0 .. k -> P] : Path(m, p, f, k, g)
  OBVIOUS
<1>4. k \in Nat
  OBVIOUS
<1>5. \A n \in Nat : n < k => ~ \E h \in [0 .. n -> P] : Path(m, p, f, n, h)
  BY <1>2
<1> HIDE DEF K
<1>6. ASSUME NEW i \in 0 .. k, NEW j \in 0 .. k, i < j PROVE g[i] # g[j]
  BY <1>3, <1>4, <1>5, <1>6, PathCut
<1>7. ASSUME NEW i \in 0 .. k - 1 PROVE g[i] \in 1 .. M
  <2>1. i \in 0 .. k /\ i + 1 \in 1 .. k /\ i + 1 \in 0 .. k /\ i < i + 1 /\ (i + 1) - 1 = i
    BY <1>4
  <2>2. g[i] # g[i + 1]
    BY <1>6, <2>1
  <2>3. g[i + 1] = m[g[(i + 1) - 1]]
    BY <1>3, <2>1 DEF Path
  <2>4. m[g[i]] # g[i]
    BY <2>1, <2>2, <2>3
  <2>5. QED BY <2>1, <2>4
<1>8. k <= M
  <2> SUFFICES ASSUME M < k PROVE FALSE
    BY <1>4
  <2> DEFINE h == [i \in 0 .. k - 1 |-> g[i]]
  <2>1. h \in [0 .. k - 1 -> 1 .. M]
    BY <1>7
  <2>2. IsFiniteSet(0 .. k - 1) /\ IsFiniteSet(1 .. M)
    BY <1>4, FS_Interval
  <2>3. Cardinality(0 .. k - 1) = k /\ Cardinality(1 .. M) = M
    <3>1. 0 \in Int /\ 1 \in Int /\ k - 1 \in Int /\ M \in Int /\ ~(0 > k - 1)
      BY <1>4
    <3>2. Cardinality(0 .. k - 1) = IF 0 > k - 1 THEN 0 ELSE (k - 1) - 0 + 1
      BY <3>1, FS_Interval
    <3>3. Cardinality(1 .. M) = IF 1 > M THEN 0 ELSE M - 1 + 1
      BY <3>1, FS_Interval
    <3>4. QED BY <1>4, <3>1, <3>2, <3>3
  <2> HIDE DEF h
  <2>4. PICK i, j \in 0 .. k - 1 : i # j /\ h[i] = h[j]
    <3> DEFINE A == 0 .. k - 1
               B == 1 .. M
    <3>1. IsFiniteSet(A) /\ IsFiniteSet(B) /\ h \in [A -> B]
      BY <2>1, <2>2
    <3>2. Cardinality(B) < Cardinality(A)
      BY <2>3
    <3> HIDE DEF A, B
    <3>3. \E i, j \in A : i # j /\ h[i] = h[j]
      BY <3>1, <3>2, FS_PigeonHole
    <3>4. QED BY <3>3 DEF A
  <2>5. g[i] = g[j] /\ i \in 0 .. k /\ j \in 0 .. k /\ (i < j \/ j < i)
    BY <1>4, <2>4 DEF h
  <2>6. QED BY <1>6, <2>5
<1>9. QED BY <1>3, <1>4, <1>8

Places == 1 .. Undefined

LEMMA PlacesAre ==
    ASSUME MaxCode \in Nat
    PROVE  /\ Places \in SUBSET Nat /\ 1 .. MaxCode \subseteq Places
           /\ End \in Places /\ Spinning \in Places /\ Undefined \in Places
           /\ \A p \in Places : p > MaxCode => p \in {End, Spinning, Undefined}
           /\ \A p \in 1 .. MaxCode : p + 1 \in Places
BY DEF Places, End, Spinning, Undefined

LEMMA OnwardIs ==
    ASSUME MaxCode \in Nat, NEW m \in [Places -> Places], NEW p \in Places
    PROVE  \E g \in [0 .. 2 * MaxCode -> Places] :
              /\ g[0] = p /\ \A k \in 1 .. 2 * MaxCode : g[k] = m[g[k - 1]]
              /\ Onward(m, p) = IF m[g[2 * MaxCode]] = g[2 * MaxCode] THEN g[2 * MaxCode] ELSE Spinning
<1>1. PICK n \in Nat : n = 2 * MaxCode
  OBVIOUS
<1> DEFINE F(f) == f = [k \in 0 .. n |-> IF k = 0 THEN p ELSE m[f[k - 1]]]
           D == [k \in 1 .. n |-> m]
<1>2. D \in [1 .. n -> [Places -> Places]]
  OBVIOUS
<1>3. PICK g \in [0 .. n -> Places] : Follows(g, p, D, n)
  <2> HIDE DEF D
  <2>1. QED BY <1>2, Recursion
<1>4. g[0] = p /\ \A k \in 1 .. n : g[k] = m[g[k - 1]]
  BY <1>3 DEF Follows
<1>5. F(g)
  BY <1>3, <1>4
<1>6. PICK h : h = CHOOSE f : F(f)
  OBVIOUS
<1>7. F(h)
  <2> HIDE DEF F
  <2>1. QED BY <1>5, <1>6, Zenon
<1>8. h[0] = p /\ \A k \in 1 .. n : h[k] = m[h[k - 1]]
  BY <1>7
<1>9. \A k \in 0 .. n : h[k] = g[k]
  <2> DEFINE Q == {k \in 0 .. n : h[k] = g[k]}
  <2>1. 0 \in Q
    BY <1>4, <1>8
  <2>2. \A k \in 1 .. n : k - 1 \in Q => k \in Q
    BY <1>4, <1>8
  <2>3. 0 .. n \subseteq Q
    <3> HIDE DEF Q
    <3>1. QED BY <2>1, <2>2, Upwards
  <2>4. QED BY <2>3
<1>10. Onward(m, p) = IF m[h[n]] = h[n] THEN h[n] ELSE Spinning
  BY <1>1, <1>6, Zenon DEF Onward
<1>11. h[n] = g[n]
  BY <1>9
<1>12. QED BY <1>1, <1>4, <1>10, <1>11

\* Onward gives the end that a place leads to, and Spinning if there is none.
LEMMA OnwardEnds ==
    ASSUME MaxCode \in Nat, NEW m \in [Places -> Places], \A q \in Places : m[q] # q => q \in 1 .. MaxCode,
           NEW p \in Places
    PROVE  /\ Onward(m, p) \in Places
           /\ \A f \in Places : m[f] = f /\ p \in To(m, f) => Onward(m, p) = f
           /\ Onward(m, p) # Spinning => m[Onward(m, p)] = Onward(m, p) /\ p \in To(m, Onward(m, p))
<1>1. PICK n \in Nat : n = 2 * MaxCode
  OBVIOUS
<1>2. PICK g \in [0 .. n -> Places] :
         /\ g[0] = p /\ \A k \in 1 .. n : g[k] = m[g[k - 1]]
         /\ Onward(m, p) = IF m[g[n]] = g[n] THEN g[n] ELSE Spinning
  BY <1>1, OnwardIs
<1>3. n \in 0 .. n /\ g[n] \in Places /\ Spinning \in Places
  BY PlacesAre
<1>4. ASSUME NEW f \in Places, m[f] = f, p \in To(m, f) PROVE Onward(m, p) = f
  <2>1. PICK k \in 0 .. MaxCode : \E h \in [0 .. k -> Places] : Path(m, p, f, k, h)
    BY <1>4, ShortPath
  <2>2. PICK h \in [0 .. k -> Places] : Path(m, p, f, k, h)
    BY <2>1
  <2>3. k \in 0 .. n
    BY <1>1
  <2> DEFINE Q == {j \in 0 .. n : (j <= k => g[j] = h[j]) /\ (j >= k => g[j] = f)}
  <2>4. 0 \in Q
    BY <1>2, <2>2, <2>3 DEF Path
  <2>5. ASSUME NEW j \in 1 .. n, j - 1 \in Q PROVE j \in Q
    <3>1. CASE j <= k
      <4>1. g[j] = h[j]
        BY <1>2, <2>2, <2>3, <2>5, <3>1 DEF Path
      <4>2. j >= k => g[j] = f
        BY <2>2, <2>3, <3>1, <4>1 DEF Path
      <4>3. QED BY <4>1, <4>2
    <3>2. CASE ~(j <= k)
      <4>1. g[j - 1] = f
        BY <2>3, <2>5, <3>2
      <4>2. QED BY <1>2, <1>4, <3>2, <4>1
    <3>3. QED BY <3>1, <3>2
  <2>6. 0 .. n \subseteq Q
    <3> HIDE DEF Q
    <3>1. QED BY <2>4, <2>5, Upwards
  <2>7. g[n] = f
    BY <1>3, <2>3, <2>6
  <2>8. QED BY <1>2, <1>4, <2>7
<1>5. ASSUME Onward(m, p) # Spinning PROVE m[Onward(m, p)] = Onward(m, p) /\ p \in To(m, Onward(m, p))
  <2>1. m[g[n]] = g[n] /\ Onward(m, p) = g[n]
    BY <1>2, <1>5
  <2> DEFINE Q == {j \in 0 .. n : g[n - j] \in To(m, g[n])}
  <2>2. 0 \in Q
    BY <1>3, ToItself
  <2>3. ASSUME NEW j \in 1 .. n, j - 1 \in Q PROVE j \in Q
    <3>1. n - j \in 0 .. n /\ n - (j - 1) \in 1 .. n /\ (n - (j - 1)) - 1 = n - j
      OBVIOUS
    <3>2. m[g[n - j]] \in To(m, g[n]) /\ g[n - j] \in Places
      BY <1>2, <2>3, <3>1
    <3>3. g[n - j] \in To(m, g[n])
      BY <3>2, ToBack
    <3>4. QED BY <3>3
  <2>4. 0 .. n \subseteq Q
    <3> HIDE DEF Q
    <3>1. QED BY <2>2, <2>3, Upwards
  <2>5. g[n - n] \in To(m, g[n]) /\ n - n = 0
    BY <1>3, <2>4
  <2>6. QED BY <1>2, <2>1, <2>5
<1>6. Onward(m, p) \in Places
  BY <1>2, <1>3
<1>7. QED BY <1>4, <1>5, <1>6

(***************************************************************************)
(* Two ways to move.                                                       *)
(***************************************************************************)
LEMMA HalfRedirected ==
    ASSUME NEW P, NEW m \in [P -> P], NEW n \in [P -> P], NEW H \in SUBSET P, NEW f \in P,
           \A p \in H : m[p] \in H,
           \A p \in H : m[p] \in To(n, f) => n[p] \in To(n, f)
    PROVE  \A p \in H : p \in To(m, f) => p \in To(n, f)
<1> DEFINE S == {p \in P : p \in H => p \in To(n, f)}
<1>1. S \in SUBSET P /\ f \in S
  BY ToItself
<1>2. Closed(m, S)
  <2>1. ASSUME NEW p \in P, m[p] \in S, p \in H PROVE p \in To(n, f)
    <3>1. m[p] \in To(n, f)
      BY <2>1
    <3>2. n[p] \in To(n, f)
      BY <2>1, <3>1
    <3>3. QED BY <3>2, ToBack
  <2>2. QED BY <2>1 DEF Closed
<1>3. To(m, f) \subseteq S
  <2> HIDE DEF S
  <2>1. QED BY <1>1, <1>2, ToLeast
<1>4. QED BY <1>3

\* A move to u may as well go to v when the two lead to the same end.
LEMMA Redirected ==
    ASSUME NEW P, NEW m \in [P -> P], NEW n \in [P -> P], NEW H \in SUBSET P, NEW f \in P, NEW u, NEW v,
           \A p \in H : m[p] \in H /\ n[p] \in H,
           \A p \in H : m[p] = n[p] \/ (m[p] = u /\ n[p] = v),
           u \in To(m, f) <=> v \in To(m, f), u \in To(n, f) <=> v \in To(n, f)
    PROVE  \A p \in H : p \in To(m, f) <=> p \in To(n, f)
<1>1. \A p \in H : p \in To(m, f) => p \in To(n, f)
  <2>1. \A p \in H : m[p] \in To(n, f) => n[p] \in To(n, f)
    OBVIOUS
  <2>2. QED BY <2>1, HalfRedirected
<1>2. \A p \in H : p \in To(n, f) => p \in To(m, f)
  <2>1. \A p \in H : n[p] \in To(m, f) => m[p] \in To(m, f)
    OBVIOUS
  <2>2. QED BY <2>1, HalfRedirected
<1>3. QED BY <1>1, <1>2

(***************************************************************************)
(* The moves of the code.                                                  *)
(***************************************************************************)
\* Moves, TargetBefore and TargetAfter of any code.
Onto(max, code, target) ==
    [p \in 1 .. max + 3 |->
        IF p > max THEN p
        ELSE IF p > Len(code) THEN max + 1
        ELSE IF Shows(code[p]) THEN p
        ELSE IF Jumps(code[p]) THEN target[p]
        ELSE p + 1]

Before(code) == [j \in JumpsIn(code) |-> CHOOSE k \in LabelsIn(code) : code[k].to = code[j].to]

Printing(code, ls, j) == {k \in LabelsIn(code) : ~code[k].dead /\ ls[code[k].to].name = ls[code[j].to].name}
Lead(max, code, ls) ==
    [j \in JumpsIn(code) |-> IF Printing(code, ls, j) = {} THEN max + 3 ELSE Min(Printing(code, ls, j))]

\* Places of two codes that lead to the same ends.
Alike(s, q, m, p) == \A f \in DOMAIN s : s[f] = f => (q \in To(s, f) <=> p \in To(m, f))

\* Every place of G is in the code what it was in src: G is what the code can
\* reach, and more.
Kept(max, src, code, ls, G) ==
    LET t == Lead(max, code, ls)
        m == Onto(max, code, t)
        s == Onto(max, src, Before(src))
    IN  /\ G \subseteq 1 .. max + 3 /\ 1 \in G
        /\ \A p \in G : m[p] \in G /\ Alike(s, p, m, p)
        /\ \A p \in G \cap DOMAIN code : Shows(src[p]) <=> Shows(code[p])
        /\ \A p \in G \cap DOMAIN code : Shows(code[p]) => p + 1 \in G
        /\ \A p \in G \cap JumpsIn(code) : Shows(code[p]) =>
              /\ t[p] \in G /\ Alike(s, Before(src)[p], m, t[p])
              /\ \A x \in BOOLEAN : Takes(src[p], x) = Takes(code[p], x)

\* The jump before it, or the label before it, is only followed by dead code.
Passed(code, p, g2, l2) ==
    /\ g2 = None \/ l2 = None
    /\ g2 # None => g2 \in JumpsIn(code) /\ ~code[g2].dead /\ \A k \in g2 + 1 .. p - 1 : code[k].dead
    /\ l2 # None => \A k \in l2 + 1 .. p - 1 : code[k].dead

\* What lies ahead, and what lies behind the label before it, is in G.
Ahead(max, p, l2, G) == (IF l2 = None THEN p ELSE l2) .. max + 3 \subseteq G

\* Every jump is to a label.
Aimed(code) == \A j \in JumpsIn(code) : \E k \in LabelsIn(code) : code[k].to = code[j].to

MInv ==
    phase # "emit" =>
        /\ source \in Seq(Instr) /\ Len(source) <= MaxCode /\ Aimed(source)
        /\ SameShape(source, ta_code)
        /\ Passed(ta_code, at, goto2, label2)
        /\ fault = "none" => \E G : Kept(MaxCode, source, ta_code, labels, G) /\ Ahead(MaxCode, at, label2, G)

LEMMA OntoIs ==
    ASSUME NEW max \in Nat, NEW code \in Seq(Instr), Len(code) <= max, NEW target,
           \A j \in JumpsIn(code) : Jumps(code[j]) => target[j] \in LabelsIn(code)
    PROVE  /\ Onto(max, code, target) \in [1 .. max + 3 -> 1 .. max + 3]
           /\ \A p \in 1 .. max + 3 : p \notin DOMAIN code =>
                 Onto(max, code, target)[p] = IF p > max THEN p ELSE max + 1
           /\ \A p \in DOMAIN code :
                 Onto(max, code, target)[p] = IF Shows(code[p]) THEN p ELSE IF Jumps(code[p]) THEN target[p] ELSE p + 1
           /\ \A p \in DOMAIN code : Onto(max, code, target)[p] = p <=> Shows(code[p])
           /\ \A p \in 1 .. max + 3 : Onto(max, code, target)[p] # p => p \in 1 .. max
<1> DEFINE m == Onto(max, code, target)
<1>1. Len(code) \in Nat /\ DOMAIN code = 1 .. Len(code)
  OBVIOUS
<1>2. \A p \in DOMAIN code : p \in 1 .. max /\ p \in Nat
  BY <1>1
<1>3. \A p \in DOMAIN code : Jumps(code[p]) => p \in JumpsIn(code) /\ target[p] \in LabelsIn(code) /\ target[p] # p
  <2>1. ASSUME NEW p \in DOMAIN code, Jumps(code[p]) PROVE p \in JumpsIn(code)
    BY <2>1 DEF Jumps, JumpsIn
  <2>2. \A p \in JumpsIn(code) : p \notin LabelsIn(code)
    BY DEF JumpsIn, LabelsIn
  <2>3. QED BY <2>1, <2>2
<1>4. ASSUME NEW p \in 1 .. max + 3, p \notin DOMAIN code PROVE m[p] = IF p > max THEN p ELSE max + 1
  <2>1. p > max \/ p > Len(code)
    BY <1>1, <1>4
  <2>2. QED BY <2>1 DEF Onto
<1>5. ASSUME NEW p \in DOMAIN code
      PROVE  m[p] = IF Shows(code[p]) THEN p ELSE IF Jumps(code[p]) THEN target[p] ELSE p + 1
  <2>1. p \in 1 .. max + 3 /\ ~(p > max) /\ ~(p > Len(code))
    BY <1>1, <1>2
  <2>2. QED BY <2>1 DEF Onto
<1>6. DOMAIN m = 1 .. max + 3 /\ m = [p \in 1 .. max + 3 |-> m[p]]
  BY DEF Onto
<1> HIDE DEF m
<1>7. ASSUME NEW p \in 1 .. max + 3 PROVE m[p] \in 1 .. max + 3
  <2>1. CASE p \in DOMAIN code
    <3>1. LabelsIn(code) \subseteq DOMAIN code
      BY DEF LabelsIn
    <3>2. p + 1 \in 1 .. max + 3 /\ DOMAIN code \subseteq 1 .. max + 3
      BY <1>2, <2>1
    <3>3. QED BY <1>3, <1>5, <2>1, <3>1, <3>2
  <2>2. CASE p \notin DOMAIN code
    BY <1>4, <2>2
  <2>3. QED BY <2>1, <2>2
<1>8. \A p \in DOMAIN code : m[p] = p <=> Shows(code[p])
  BY <1>2, <1>3, <1>5
<1>9. ASSUME NEW p \in 1 .. max + 3, m[p] # p PROVE p \in 1 .. max
  <2>1. CASE p \in DOMAIN code
    BY <1>2, <2>1
  <2>2. CASE p \notin DOMAIN code
    BY <1>4, <1>9, <2>2
  <2>3. QED BY <2>1, <2>2
<1>10. QED BY <1>4, <1>5, <1>6, <1>7, <1>8, <1>9 DEF m

LEMMA BeforeIs ==
    ASSUME NEW code \in Seq(Instr), Aimed(code), NEW j \in JumpsIn(code)
    PROVE  Before(code)[j] \in LabelsIn(code) /\ code[Before(code)[j]].to = code[j].to
BY DEF Before, Aimed

\* The one place that a jump's label is printed at.
LEMMA LeadIs ==
    ASSUME NEW max \in Nat, NEW code, NEW ls, Coded(code, ls), NEW p, Named(code, ls, p),
           NEW j \in JumpsIn(code), ~code[j].dead
    PROVE  /\ Lead(max, code, ls)[j] \in LabelsIn(code)
           /\ ~code[Lead(max, code, ls)[j]].dead
           /\ code[Lead(max, code, ls)[j]].to = ls[code[j].to].name
<1> DEFINE S == Printing(code, ls, j)
<1>1. code \in Seq(Instr)
  BY DEF Coded
<1>2. PICK k \in LabelsIn(code) : ~code[k].dead /\ code[k].to = ls[code[j].to].name
  BY DEF Named, Printed
<1>3. S \in SUBSET Nat /\ k \in S
  <2>1. ls[code[k].to].name = code[k].to
    BY <1>2 DEF Named
  <2>2. QED BY <1>1, <1>2, <2>1 DEF Printing, LabelsIn
<1>4. Min(S) \in S
  <2> HIDE DEF S
  <2>1. QED BY <1>3, MinIsIn
<1>5. Lead(max, code, ls)[j] = Min(S)
  <2>1. Lead(max, code, ls)[j] = IF S = {} THEN max + 3 ELSE Min(S)
    BY DEF Lead
  <2> HIDE DEF S
  <2>2. QED BY <1>3, <2>1
<1>6. Min(S) \in LabelsIn(code) /\ ~code[Min(S)].dead /\ ls[code[Min(S)].to].name = ls[code[j].to].name
  <2>1. PICK q : q = Min(S)
    OBVIOUS
  <2>2. q \in Printing(code, ls, j)
    BY <1>4, <2>1
  <2>3. q \in LabelsIn(code) /\ ~code[q].dead /\ ls[code[q].to].name = ls[code[j].to].name
    BY <2>2, Zenon DEF Printing
  <2> HIDE DEF S
  <2>4. QED BY <2>1, <2>3
<1>7. code[Min(S)].to = ls[code[j].to].name
  <2> HIDE DEF S
  <2>1. QED BY <1>6 DEF Named
<1>8. QED BY <1>5, <1>6, <1>7

\* Jumps to labels of one name lead to one place.
LEMMA LeadAlike ==
    ASSUME NEW max \in Nat, NEW code, NEW ls, Coded(code, ls), NEW p, Named(code, ls, p),
           NEW j \in JumpsIn(code), ~code[j].dead,
           NEW k \in LabelsIn(code), code[k].to = ls[code[j].to].name
    PROVE  Lead(max, code, ls)[j] = k
BY LeadIs DEF Coded, Numbered

\* The moves of code in the pass, and of the code before it.
MovesNow(max, code, ls) == Onto(max, code, Lead(max, code, ls))
MovesThen(max, src) == Onto(max, src, Before(src))

MovesOf(max, code, target, m) ==
    /\ m \in [1 .. max + 3 -> 1 .. max + 3]
    /\ \A p \in 1 .. max + 3 : p \notin DOMAIN code => m[p] = IF p > max THEN p ELSE max + 1
    /\ \A p \in DOMAIN code : m[p] = IF Shows(code[p]) THEN p ELSE IF Jumps(code[p]) THEN target[p] ELSE p + 1
    /\ \A p \in DOMAIN code : m[p] = p <=> Shows(code[p])
    /\ \A p \in 1 .. max + 3 : m[p] # p => p \in 1 .. max

LEMMA MovesNowAre ==
    ASSUME NEW max \in Nat, NEW code, NEW ls, Coded(code, ls), NEW p, Named(code, ls, p), Len(code) <= max
    PROVE  MovesOf(max, code, Lead(max, code, ls), MovesNow(max, code, ls))
<1>1. code \in Seq(Instr)
  BY DEF Coded
<1>2. \A j \in JumpsIn(code) : Jumps(code[j]) => Lead(max, code, ls)[j] \in LabelsIn(code)
  BY LeadIs DEF Jumps
<1>3. QED BY <1>1, <1>2, OntoIs DEF MovesOf, MovesNow

LEMMA MovesThenAre ==
    ASSUME NEW max \in Nat, NEW src \in Seq(Instr), Aimed(src), Len(src) <= max
    PROVE  MovesOf(max, src, Before(src), MovesThen(max, src))
<1>1. \A j \in JumpsIn(src) : Before(src)[j] \in LabelsIn(src)
  BY BeforeIs
<1>2. QED BY <1>1, OntoIs DEF MovesOf, MovesThen

\* Within H the code d shows what code shows, and jumps to v instead of u; the
\* two lead to the same ends.
Rerouted(max, src, code, ls, d, ls2, H, u, v) ==
    /\ \A p \in H : MovesNow(max, d, ls2)[p] \in H
    /\ \A p \in H \cap DOMAIN code : /\ Shows(d[p]) <=> Shows(code[p])
                                     /\ Jumps(d[p]) <=> Jumps(code[p])
                                     /\ Shows(d[p]) => p + 1 \in H
    /\ \A p \in H \cap JumpsIn(code) : Shows(d[p]) =>
          Lead(max, d, ls2)[p] \in H /\ \A x \in BOOLEAN : Takes(code[p], x) = Takes(d[p], x)
    /\ \A p \in H \cap JumpsIn(code) : Shows(d[p]) \/ Jumps(d[p]) =>
          \/ Lead(max, d, ls2)[p] = Lead(max, code, ls)[p]
          \/ Lead(max, code, ls)[p] = u /\ Lead(max, d, ls2)[p] = v
    /\ \A f \in 1 .. max + 3 : MovesThen(max, src)[f] = f =>
          /\ u \in To(MovesNow(max, code, ls), f) <=> v \in To(MovesNow(max, code, ls), f)
          /\ u \in To(MovesNow(max, d, ls2), f) <=> v \in To(MovesNow(max, d, ls2), f)

\* Code in which the same shows as before, and jumps to u go to v instead.
LEMMA KeptOn ==
    ASSUME NEW max \in Nat, NEW src \in Seq(Instr), Len(src) <= max, Aimed(src),
           NEW code, NEW ls, Coded(code, ls), NEW p1, Named(code, ls, p1), SameShape(src, code),
           NEW d, NEW ls2, Coded(d, ls2), NEW p2, Named(d, ls2, p2), SameShape(code, d),
           NEW G, Kept(max, src, code, ls, G), NEW H \in SUBSET G, 1 \in H, NEW u \in H, NEW v,
           Rerouted(max, src, code, ls, d, ls2, H, u, v)
    PROVE  Kept(max, src, d, ls2, H)
<1> DEFINE P == 1 .. max + 3
           t == Lead(max, code, ls)
           t2 == Lead(max, d, ls2)
           m == MovesNow(max, code, ls)
           n == MovesNow(max, d, ls2)
           s == MovesThen(max, src)
<1>1. code \in Seq(Instr) /\ d \in Seq(Instr) /\ Len(code) = Len(src) /\ Len(d) = Len(src)
      /\ DOMAIN d = DOMAIN code /\ JumpsIn(d) = JumpsIn(code)
  <2>1. code \in Seq(Instr) /\ d \in Seq(Instr) /\ Len(code) = Len(src) /\ Len(d) = Len(src)
    BY DEF Coded, SameShape
  <2>2. DOMAIN d = DOMAIN code /\ JumpsIn(d) = JumpsIn(code)
    BY <2>1, SameShapePlaces
  <2>3. QED BY <2>1, <2>2
<1>2. MovesOf(max, code, t, m) /\ MovesOf(max, d, t2, n) /\ MovesOf(max, src, Before(src), s)
  BY <1>1, MovesNowAre, MovesThenAre
<1>3. m \in [P -> P] /\ n \in [P -> P] /\ s \in [P -> P] /\ DOMAIN s = P
  BY <1>2 DEF MovesOf
<1>4. /\ G \in SUBSET P
      /\ \A p \in G : m[p] \in G /\ Alike(s, p, m, p)
      /\ \A p \in G \cap DOMAIN code : Shows(src[p]) <=> Shows(code[p])
      /\ \A p \in G \cap JumpsIn(code) : Shows(code[p]) =>
            /\ t[p] \in G /\ Alike(s, Before(src)[p], m, t[p])
            /\ \A x \in BOOLEAN : Takes(src[p], x) = Takes(code[p], x)
  BY DEF Kept, MovesNow, MovesThen
<1>5. /\ \A p \in H : n[p] \in H
      /\ \A p \in H \cap JumpsIn(code) : Shows(d[p]) => t2[p] \in H
      /\ \A p \in H \cap JumpsIn(code) : Shows(d[p]) \/ Jumps(d[p]) => t2[p] = t[p] \/ (t[p] = u /\ t2[p] = v)
      /\ \A f \in P : s[f] = f => /\ u \in To(m, f) <=> v \in To(m, f)
                                  /\ u \in To(n, f) <=> v \in To(n, f)
      /\ \A p \in H \cap DOMAIN code : /\ Shows(d[p]) <=> Shows(code[p])
                                       /\ Jumps(d[p]) <=> Jumps(code[p])
                                       /\ Shows(d[p]) => p + 1 \in H
      /\ \A p \in H \cap JumpsIn(code) : Shows(d[p]) => \A x \in BOOLEAN : Takes(code[p], x) = Takes(d[p], x)
  BY DEF Rerouted
<1> HIDE DEF P, t, t2, m, n, s
<1>6. ASSUME NEW p \in H PROVE m[p] = n[p] \/ (m[p] = u /\ n[p] = v)
  <2>1. p \in P
    BY <1>4
  <2>2. CASE p \in DOMAIN code
    <3>1. Jumps(d[p]) => p \in JumpsIn(code)
      BY <1>1, <2>2 DEF Jumps, JumpsIn
    <3>2. /\ m[p] = IF Shows(code[p]) THEN p ELSE IF Jumps(code[p]) THEN t[p] ELSE p + 1
          /\ n[p] = IF Shows(d[p]) THEN p ELSE IF Jumps(d[p]) THEN t2[p] ELSE p + 1
      BY <1>1, <1>2, <2>2 DEF MovesOf
    <3>3. QED BY <1>5, <2>2, <3>1, <3>2
  <2>3. CASE p \notin DOMAIN code
    <3>1. p \notin DOMAIN d /\ p \in 1 .. max + 3
      BY <1>1, <2>1, <2>3 DEF P
    <3>2. m[p] = IF p > max THEN p ELSE max + 1
      BY <1>2, <2>3, <3>1 DEF MovesOf
    <3>3. n[p] = IF p > max THEN p ELSE max + 1
      BY <1>2, <3>1 DEF MovesOf
    <3>4. QED BY <3>2, <3>3
  <2>4. QED BY <2>2, <2>3
<1>7. \A p \in H : m[p] \in H
  BY <1>5, <1>6
<1>8. ASSUME NEW f \in P, s[f] = f PROVE \A p \in H : p \in To(m, f) <=> p \in To(n, f)
  <2>1. H \in SUBSET P /\ \A p \in H : m[p] \in H /\ n[p] \in H
    BY <1>4, <1>5, <1>7
  <2>2. (u \in To(m, f) <=> v \in To(m, f)) /\ (u \in To(n, f) <=> v \in To(n, f))
    BY <1>5, <1>8
  <2>3. QED BY <1>3, <1>6, <2>1, <2>2, Redirected
<1>9. ASSUME NEW p \in H PROVE Alike(s, p, n, p)
  <2>1. Alike(s, p, m, p)
    BY <1>4
  <2>2. QED BY <1>3, <1>8, <2>1 DEF Alike
<1>10. ASSUME NEW p \in H \cap JumpsIn(code), Shows(d[p])
       PROVE  /\ Alike(s, Before(src)[p], n, t2[p])
              /\ \A x \in BOOLEAN : Takes(src[p], x) = Takes(d[p], x)
  <2>1. p \in DOMAIN code /\ Shows(code[p])
    BY <1>5, <1>10 DEF JumpsIn
  <2>2. Alike(s, Before(src)[p], m, t[p]) /\ \A x \in BOOLEAN : Takes(src[p], x) = Takes(code[p], x)
    BY <1>4, <2>1
  <2>3. t2[p] \in H /\ (t2[p] = t[p] \/ (t[p] = u /\ t2[p] = v))
    BY <1>5, <1>10
  <2>4. ASSUME NEW f \in P, s[f] = f PROVE t[p] \in To(m, f) <=> t2[p] \in To(n, f)
    <3>1. t2[p] \in To(m, f) <=> t2[p] \in To(n, f)
      BY <1>8, <2>3, <2>4
    <3>2. t[p] \in To(m, f) <=> t2[p] \in To(m, f)
      BY <1>5, <2>3, <2>4
    <3>3. QED BY <3>1, <3>2
  <2>5. Alike(s, Before(src)[p], n, t2[p])
    BY <1>3, <2>2, <2>4 DEF Alike
  <2>6. QED BY <1>5, <1>10, <2>2, <2>5
<1>11. \A p \in H \cap DOMAIN d : (Shows(src[p]) <=> Shows(d[p])) /\ (Shows(d[p]) => p + 1 \in H)
  BY <1>1, <1>4, <1>5
<1>12. /\ H \subseteq P
       /\ \A p \in H : n[p] \in H /\ Alike(s, p, n, p)
       /\ \A p \in H \cap JumpsIn(d) : Shows(d[p]) =>
            /\ t2[p] \in H /\ Alike(s, Before(src)[p], n, t2[p])
            /\ \A x \in BOOLEAN : Takes(src[p], x) = Takes(d[p], x)
  BY <1>1, <1>4, <1>5, <1>9, <1>10
<1>13. QED BY <1>11, <1>12 DEF Kept, P, t2, n, s, MovesNow, MovesThen

Source(max, src) == max \in Nat /\ src \in Seq(Instr) /\ Len(src) <= max /\ Aimed(src)
Stage(src, code, ls, p) == Coded(code, ls) /\ Named(code, ls, p) /\ SameShape(src, code)

LEMMA LeadKept ==
    ASSUME NEW max \in Nat, NEW code, NEW ls, Coded(code, ls), NEW p1, Named(code, ls, p1),
           NEW d, NEW ls2, Coded(d, ls2), NEW p2, Named(d, ls2, p2), SameShape(code, d),
           NEW j \in JumpsIn(code), ~code[j].dead, ~d[j].dead,
           ls2[code[j].to].name = ls[code[j].to].name
    PROVE  Lead(max, d, ls2)[j] = Lead(max, code, ls)[j]
<1> DEFINE k == Lead(max, code, ls)[j]
<1>1. k \in LabelsIn(code) /\ code[k].to = ls[code[j].to].name
  BY LeadIs
<1> HIDE DEF k
<1>2. LabelsIn(d) = LabelsIn(code) /\ JumpsIn(d) = JumpsIn(code) /\ \A q \in DOMAIN code : d[q].to = code[q].to
  BY SameShapePlaces DEF Coded
<1>3. k \in LabelsIn(d) /\ j \in JumpsIn(d) /\ d[k].to = ls2[d[j].to].name
  BY <1>1, <1>2 DEF LabelsIn, JumpsIn
<1>4. Lead(max, d, ls2)[j] = k
  BY <1>3, LeadAlike
<1>5. QED BY <1>4 DEF k

\* Code that shows and jumps as it did.
LEMMA KeptSame ==
    ASSUME NEW max, NEW src, Source(max, src),
           NEW code, NEW ls, NEW p1, Stage(src, code, ls, p1),
           NEW d, NEW ls2, NEW p2, Stage(code, d, ls2, p2),
           NEW G, Kept(max, src, code, ls, G), NEW H \in SUBSET G, 1 \in H,
           \A p \in H \cap DOMAIN code : /\ Shows(d[p]) <=> Shows(code[p])
                                         /\ Jumps(d[p]) <=> Jumps(code[p])
                                         /\ Shows(d[p]) \/ ~Jumps(d[p]) => p + 1 \in H
                                         /\ Shows(d[p]) => \A x \in BOOLEAN : Takes(code[p], x) = Takes(d[p], x),
           \A p \in max + 1 .. max + 3 : p \in H,
           \A p \in LabelsIn(d) : ~d[p].dead => p \in H \/ p \notin G,
           \A j \in JumpsIn(code) : ~d[j].dead => ~code[j].dead /\ ls2[code[j].to].name = ls[code[j].to].name
    PROVE  Kept(max, src, d, ls2, H)
<1> DEFINE t == Lead(max, code, ls)
           t2 == Lead(max, d, ls2)
           m == MovesNow(max, code, ls)
           n == MovesNow(max, d, ls2)
<1>1. /\ max \in Nat /\ src \in Seq(Instr) /\ Len(src) <= max /\ Aimed(src)
      /\ Coded(code, ls) /\ Named(code, ls, p1) /\ SameShape(src, code)
      /\ Coded(d, ls2) /\ Named(d, ls2, p2) /\ SameShape(code, d)
  BY DEF Source, Stage
<1>2. /\ code \in Seq(Instr) /\ d \in Seq(Instr) /\ Len(code) <= max /\ Len(d) <= max
  BY <1>1 DEF SameShape, Coded
<1>3. /\ DOMAIN d = DOMAIN code /\ JumpsIn(d) = JumpsIn(code) /\ LabelsIn(d) = LabelsIn(code)
  BY <1>1, <1>2, SameShapePlaces
<1>4. MovesOf(max, code, t, m) /\ MovesOf(max, d, t2, n)
  BY <1>1, <1>2, MovesNowAre
<1>5. /\ G \in SUBSET (1 .. max + 3)
      /\ \A p \in G : m[p] \in G
      /\ \A p \in G \cap JumpsIn(code) : Shows(code[p]) => t[p] \in G
  BY DEF Kept, MovesNow
<1> HIDE DEF t, t2, m, n
<1>6. \A p \in JumpsIn(code) : Shows(d[p]) \/ Jumps(d[p]) => ~d[p].dead
  BY DEF Shows, Jumps
<1>7. ASSUME NEW p \in JumpsIn(code), ~d[p].dead PROVE t2[p] = t[p]
  BY <1>1, <1>7, LeadKept DEF t, t2
<1>8. ASSUME NEW p \in H \cap JumpsIn(code), Shows(d[p]) \/ Jumps(d[p]) PROVE t2[p] \in H
  <2>1. p \in DOMAIN code /\ ~d[p].dead /\ p \in JumpsIn(d)
    BY <1>3, <1>6, <1>8 DEF JumpsIn
  <2>2. t2[p] \in LabelsIn(d) /\ ~d[t2[p]].dead
    BY <1>1, <2>1, LeadIs DEF t2
  <2>3. t2[p] \in G
    <3>1. CASE Shows(d[p])
      BY <1>5, <1>7, <1>8, <2>1, <3>1
    <3>2. CASE ~Shows(d[p])
      <4>1. ~Shows(code[p]) /\ Jumps(code[p])
        BY <1>8, <2>1, <3>2
      <4>2. m[p] = t[p]
        BY <1>4, <2>1, <4>1 DEF MovesOf
      <4>3. QED BY <1>5, <1>7, <1>8, <2>1, <4>2
    <3>3. QED BY <3>1, <3>2
  <2>4. QED BY <2>2, <2>3
<1>9. ASSUME NEW p \in H PROVE n[p] \in H
  <2>1. CASE p \in DOMAIN code
    <3>1. n[p] = IF Shows(d[p]) THEN p ELSE IF Jumps(d[p]) THEN t2[p] ELSE p + 1
      BY <1>3, <1>4, <2>1 DEF MovesOf
    <3>2. Jumps(d[p]) => p \in JumpsIn(code)
      BY <1>3, <2>1 DEF Jumps, JumpsIn
    <3>3. QED BY <1>8, <2>1, <3>1, <3>2
  <2>2. CASE p \notin DOMAIN code
    <3>1. p \in 1 .. max + 3
      BY <1>5
    <3>2. n[p] = IF p > max THEN p ELSE max + 1
      BY <1>3, <1>4, <2>2, <3>1 DEF MovesOf
    <3>3. max + 1 \in max + 1 .. max + 3
      BY <1>1
    <3>4. QED BY <3>2, <3>3
  <2>3. QED BY <2>1, <2>2
<1>10. /\ \A p \in H \cap JumpsIn(code) : Shows(d[p]) => t2[p] \in H
       /\ \A p \in H \cap JumpsIn(code) : Shows(d[p]) \/ Jumps(d[p]) => t2[p] = t[p]
       /\ \A p \in H \cap JumpsIn(code) : Shows(d[p]) => \A x \in BOOLEAN : Takes(code[p], x) = Takes(d[p], x)
  BY <1>6, <1>7, <1>8 DEF JumpsIn
<1>11. /\ \A p \in H : MovesNow(max, d, ls2)[p] \in H
       /\ \A p \in H \cap JumpsIn(code) : Shows(d[p]) =>
             Lead(max, d, ls2)[p] \in H /\ \A x \in BOOLEAN : Takes(code[p], x) = Takes(d[p], x)
       /\ \A p \in H \cap JumpsIn(code) : Shows(d[p]) \/ Jumps(d[p]) => Lead(max, d, ls2)[p] = Lead(max, code, ls)[p]
  BY <1>9, <1>10 DEF t, t2, n
<1>12. Rerouted(max, src, code, ls, d, ls2, H, 1, 1)
  BY <1>11 DEF Rerouted
<1>13. QED BY <1>1, <1>12, KeptOn

\* Code in which the jumps to u go to v: the moves from u to v, or from v to
\* u, do not show.
LEMMA KeptRedirected ==
    ASSUME NEW max, NEW src, Source(max, src),
           NEW code, NEW ls, NEW p1, Stage(src, code, ls, p1),
           NEW d, NEW ls2, NEW p2, Stage(code, d, ls2, p2),
           NEW G, Kept(max, src, code, ls, G), NEW u \in G, NEW v \in G,
           \A p \in DOMAIN code : /\ Shows(d[p]) <=> Shows(code[p])
                                  /\ Jumps(d[p]) <=> Jumps(code[p])
                                  /\ Shows(d[p]) => \A x \in BOOLEAN : Takes(code[p], x) = Takes(d[p], x),
           \A p \in JumpsIn(code) : ~d[p].dead =>
              /\ ~code[p].dead
              /\ \/ Lead(max, d, ls2)[p] = Lead(max, code, ls)[p]
                 \/ Lead(max, code, ls)[p] = u /\ Lead(max, d, ls2)[p] = v,
           \A f \in 1 .. max + 3 : (f \in G => MovesNow(max, code, ls)[f] = f /\ MovesNow(max, d, ls2)[f] = f) =>
              /\ u \in To(MovesNow(max, code, ls), f) <=> v \in To(MovesNow(max, code, ls), f)
              /\ u \in To(MovesNow(max, d, ls2), f) <=> v \in To(MovesNow(max, d, ls2), f)
    PROVE  Kept(max, src, d, ls2, G)
<1> DEFINE t == Lead(max, code, ls)
           t2 == Lead(max, d, ls2)
           m == MovesNow(max, code, ls)
           n == MovesNow(max, d, ls2)
           s == MovesThen(max, src)
<1>1. /\ max \in Nat /\ src \in Seq(Instr) /\ Len(src) <= max /\ Aimed(src)
      /\ Coded(code, ls) /\ Named(code, ls, p1) /\ SameShape(src, code)
      /\ Coded(d, ls2) /\ Named(d, ls2, p2) /\ SameShape(code, d)
  BY DEF Source, Stage
<1>2. /\ code \in Seq(Instr) /\ d \in Seq(Instr) /\ Len(code) = Len(src) /\ Len(d) = Len(src)
      /\ Len(code) <= max /\ Len(d) <= max
  BY <1>1 DEF SameShape, Coded
<1>3. /\ DOMAIN d = DOMAIN code /\ DOMAIN src = DOMAIN code /\ JumpsIn(d) = JumpsIn(code)
  BY <1>1, <1>2, SameShapePlaces
<1>4. MovesOf(max, code, t, m) /\ MovesOf(max, d, t2, n) /\ MovesOf(max, src, Before(src), s)
  BY <1>1, <1>2, MovesNowAre, MovesThenAre
<1>5. /\ G \in SUBSET (1 .. max + 3) /\ 1 \in G
      /\ \A p \in G : m[p] \in G
      /\ \A p \in G \cap DOMAIN code : Shows(src[p]) <=> Shows(code[p])
      /\ \A p \in G \cap DOMAIN code : Shows(code[p]) => p + 1 \in G
      /\ \A p \in G \cap JumpsIn(code) : Shows(code[p]) => t[p] \in G
  BY DEF Kept, MovesNow
<1> HIDE DEF t, t2, m, n, s
<1>6. \A p \in JumpsIn(code) : Shows(d[p]) \/ Jumps(d[p]) => ~d[p].dead
  BY DEF Shows, Jumps
<1>7. \A p \in JumpsIn(code) : Shows(d[p]) \/ Jumps(d[p]) => t2[p] = t[p] \/ (t[p] = u /\ t2[p] = v)
  BY <1>6 DEF t, t2
<1>8. ASSUME NEW p \in G PROVE n[p] \in G
  <2>1. CASE p \in DOMAIN code
    <3>1. n[p] = IF Shows(d[p]) THEN p ELSE IF Jumps(d[p]) THEN t2[p] ELSE p + 1
      BY <1>3, <1>4, <2>1 DEF MovesOf
    <3>2. m[p] = IF Shows(d[p]) THEN p ELSE IF Jumps(d[p]) THEN t[p] ELSE p + 1
      BY <1>4, <2>1 DEF MovesOf
    <3>3. Jumps(d[p]) => p \in JumpsIn(code)
      BY <1>3, <2>1 DEF Jumps, JumpsIn
    <3>4. QED BY <1>5, <1>7, <3>1, <3>2, <3>3
  <2>2. CASE p \notin DOMAIN code
    <3>1. p \in 1 .. max + 3
      BY <1>5
    <3>2. n[p] = m[p]
      BY <1>3, <1>4, <2>2, <3>1 DEF MovesOf
    <3>3. QED BY <1>5, <3>2
  <2>3. QED BY <2>1, <2>2
<1>9. ASSUME NEW f \in 1 .. max + 3, s[f] = f, f \in G PROVE m[f] = f /\ n[f] = f
  <2>1. CASE f \in DOMAIN code
    <3>1. Shows(src[f]) /\ Shows(code[f]) /\ Shows(d[f])
      BY <1>3, <1>4, <1>5, <1>9, <2>1 DEF MovesOf
    <3>2. QED BY <1>3, <1>4, <2>1, <3>1 DEF MovesOf
  <2>2. CASE f \notin DOMAIN code
    <3>1. s[f] = m[f]
      BY <1>3, <1>4, <2>2 DEF MovesOf
    <3>2. s[f] = n[f]
      BY <1>3, <1>4, <2>2 DEF MovesOf
    <3>3. QED BY <1>9, <3>1, <3>2
  <2>3. QED BY <2>1, <2>2
<1>10. \A f \in 1 .. max + 3 : s[f] = f =>
          /\ u \in To(m, f) <=> v \in To(m, f)
          /\ u \in To(n, f) <=> v \in To(n, f)
  BY <1>9 DEF m, n
<1>11. \A p \in G \cap JumpsIn(code) : Shows(d[p]) => t2[p] \in G
  BY <1>5, <1>7 DEF JumpsIn
<1>12. /\ \A p \in G : MovesNow(max, d, ls2)[p] \in G
       /\ \A p \in G \cap JumpsIn(code) : Shows(d[p]) =>
             Lead(max, d, ls2)[p] \in G /\ \A x \in BOOLEAN : Takes(code[p], x) = Takes(d[p], x)
       /\ \A p \in G \cap JumpsIn(code) : Shows(d[p]) \/ Jumps(d[p]) =>
              \/ Lead(max, d, ls2)[p] = Lead(max, code, ls)[p]
              \/ Lead(max, code, ls)[p] = u /\ Lead(max, d, ls2)[p] = v
       /\ \A f \in 1 .. max + 3 : MovesThen(max, src)[f] = f =>
              /\ u \in To(MovesNow(max, code, ls), f) <=> v \in To(MovesNow(max, code, ls), f)
              /\ u \in To(MovesNow(max, d, ls2), f) <=> v \in To(MovesNow(max, d, ls2), f)
  <2>1. \A p \in JumpsIn(code) : p \in DOMAIN code
    BY DEF JumpsIn
  <2>2. QED BY <1>7, <1>8, <1>10, <1>11, <2>1 DEF t, t2, m, n, s
<1>13. \A p \in G \cap DOMAIN code : /\ Shows(d[p]) <=> Shows(code[p])
                                     /\ Jumps(d[p]) <=> Jumps(code[p])
                                     /\ Shows(d[p]) => p + 1 \in G
  BY <1>5
<1>14. Rerouted(max, src, code, ls, d, ls2, G, u, v)
  BY <1>12, <1>13 DEF Rerouted
<1>15. QED BY <1>1, <1>5, <1>14, KeptOn

(***************************************************************************)
(* What a step of the walk means.                                          *)
(***************************************************************************)
LEMMA MeaningNow ==
    ASSUME IInv, NInv, MInv, phase = "pass"
    PROVE  /\ Source(MaxCode, source) /\ SameShape(source, ta_code) /\ ta_code \in Seq(Instr)
           /\ Len(ta_code) <= MaxCode /\ Coded(ta_code, labels)
           /\ Passed(ta_code, at, goto2, label2) /\ Placed(ta_code, at, goto2, label2)
           /\ fault = "none" => /\ Stage(source, ta_code, labels, at)
                                /\ label2 # None => ~ta_code[label2].dead
                                /\ \E G : Kept(MaxCode, source, ta_code, labels, G) /\ Ahead(MaxCode, at, label2, G)
<1>1. MaxCode \in Nat
  BY MaxCodeNat DEF IInv
<1>2. Source(MaxCode, source) /\ SameShape(source, ta_code) /\ Passed(ta_code, at, goto2, label2)
  BY <1>1 DEF MInv, Source
<1>3. Coded(ta_code, labels) /\ Len(ta_code) <= MaxCode /\ ta_code \in Seq(Instr) /\ Placed(ta_code, at, goto2, label2)
  BY DEF IInv, Coded
<1>4. ASSUME fault = "none"
      PROVE  /\ Stage(source, ta_code, labels, at)
             /\ label2 # None => ~ta_code[label2].dead
             /\ \E G : Kept(MaxCode, source, ta_code, labels, G) /\ Ahead(MaxCode, at, label2, G)
  <2>1. Named(ta_code, labels, at) /\ (label2 # None => ~ta_code[label2].dead)
    BY <1>4, NamesInPass
  <2>2. \E G : Kept(MaxCode, source, ta_code, labels, G) /\ Ahead(MaxCode, at, label2, G)
    BY <1>4 DEF MInv
  <2>3. QED BY <1>2, <1>3, <2>1, <2>2 DEF Stage
<1>5. QED BY <1>2, <1>3, <1>4

LEMMA SameShapeThrough ==
    ASSUME NEW b \in Seq(Instr), NEW c, SameShape(b, c), NEW d, SameShape(c, d)
    PROVE  SameShape(b, d)
<1>1. DOMAIN c = DOMAIN b
  BY DEF SameShape
<1>2. QED BY <1>1 DEF SameShape

LEMMA PassedOn ==
    ASSUME NEW c \in Seq(Instr), NEW d, SameShape(c, d), NEW p \in DOMAIN c, NEW g, NEW l, Passed(c, p, g, l),
           Placed(c, p, g, l), d[p].dead, \A k \in DOMAIN c : k # p => d[k].dead = c[k].dead
    PROVE  Passed(d, p + 1, g, l)
<1>1. /\ p \in Nat /\ p \in 1 .. Len(c) /\ g \in 0 .. p - 1 /\ l \in 0 .. p - 1
  BY DEF Placed
<1>2. JumpsIn(d) = JumpsIn(c)
  BY SameShapePlaces
<1>3. ASSUME NEW b \in 0 .. p - 1, \A k \in b + 1 .. p - 1 : c[k].dead, NEW k \in b + 1 .. p + 1 - 1 PROVE d[k].dead
  <2>1. CASE k = p
    BY <2>1
  <2>2. CASE k # p
    <3>1. k \in b + 1 .. p - 1 /\ k \in DOMAIN c
      BY <1>1, <2>2
    <3>2. QED BY <1>3, <2>2, <3>1
  <2>3. QED BY <2>1, <2>2
<1>4. ASSUME g # None PROVE g \in JumpsIn(d) /\ ~d[g].dead /\ \A k \in g + 1 .. p + 1 - 1 : d[k].dead
  <2>1. g \in JumpsIn(c) /\ ~c[g].dead /\ \A k \in g + 1 .. p - 1 : c[k].dead
    BY <1>4 DEF Passed
  <2>2. g # p /\ g \in DOMAIN c
    BY <1>1, <2>1 DEF JumpsIn
  <2>3. \A k \in g + 1 .. p + 1 - 1 : d[k].dead
    BY <1>1, <1>3, <2>1
  <2>4. QED BY <1>2, <2>1, <2>2, <2>3
<1>5. ASSUME l # None PROVE \A k \in l + 1 .. p + 1 - 1 : d[k].dead
  <2>1. \A k \in l + 1 .. p - 1 : c[k].dead
    BY <1>5 DEF Passed
  <2>2. QED BY <1>1, <1>3, <2>1
<1>6. QED BY <1>4, <1>5 DEF Passed

LEMMA AheadOn ==
    ASSUME NEW max \in Nat, NEW p \in Nat, NEW l \in 0 .. p - 1, NEW G, Ahead(max, p, l, G), NEW l2 \in {l, p, None}
    PROVE  Ahead(max, p + 1, l2, G)
<1>1. p .. max + 3 \subseteq G /\ (l # None => l .. max + 3 \subseteq G)
  BY DEF Ahead, None
<1>2. p + 1 .. max + 3 \subseteq G
  BY <1>1
<1>3. QED BY <1>1, <1>2 DEF Ahead

LEMMA StepMeaning ==
    ASSUME IInv, NInv, MInv, phase = "pass", Advance, SameShape(ta_code, ta_code'),
           Passed(ta_code', at + 1, goto2', label2'),
           fault' = "none" => \E G : Kept(MaxCode, source, ta_code', labels', G) /\ Ahead(MaxCode, at + 1, label2', G)
    PROVE  MInv'
<1>1. Source(MaxCode, source) /\ SameShape(source, ta_code)
  BY MeaningNow
<1>2. SameShape(source, ta_code')
  BY <1>1, SameShapeThrough DEF Source
<1>3. at' = at + 1 /\ source' = source /\ phase' = "pass" /\ MaxCode' = MaxCode
  BY DEF Advance, MaxCode
<1>4. QED BY <1>1, <1>2, <1>3 DEF MInv, Source

\* The code stays as it is.
LEMMA StillMeans ==
    ASSUME IInv, NInv, MInv, phase = "pass", Advance, ta_code' = ta_code, labels' = labels,
           fault' = fault, label2' \in {label2, at, None},
           Passed(ta_code, at + 1, goto2', label2')
    PROVE  MInv'
<1>1. SameShape(ta_code, ta_code')
  BY InPass
<1>2. ASSUME fault = "none"
      PROVE  \E G : Kept(MaxCode, source, ta_code, labels, G) /\ Ahead(MaxCode, at + 1, label2', G)
  <2>1. PICK G : Kept(MaxCode, source, ta_code, labels, G) /\ Ahead(MaxCode, at, label2, G)
    BY <1>2, MeaningNow
  <2>2. MaxCode \in Nat /\ at \in Nat /\ label2 \in 0 .. at - 1
    BY MeaningNow, InPass DEF Source, Placed
  <2>3. Ahead(MaxCode, at + 1, label2', G)
    BY <2>1, <2>2, AheadOn
  <2>4. QED BY <2>1, <2>3
<1>3. QED BY <1>1, <1>2, StepMeaning

LEMMA SkipDeadMeans == ASSUME IInv, NInv, MInv, SkipDead PROVE MInv'
<1>1. phase = "pass" /\ at <= Len(ta_code) /\ Advance /\ ta_code[at].dead
      /\ ta_code' = ta_code /\ labels' = labels /\ goto2' = goto2 /\ label2' = label2 /\ fault' = fault
  BY DEF SkipDead
<1>2. at \in DOMAIN ta_code
  BY <1>1, InPass DEF Placed
<1>3. Passed(ta_code, at + 1, goto2, label2)
  BY <1>1, <1>2, MeaningNow, InPass, PassedOn
<1>4. QED BY <1>1, <1>3, StillMeans

LEMMA KeepLabelMeans == ASSUME IInv, NInv, MInv, KeepLabel PROVE MInv'
<1>1. phase = "pass" /\ ta_code' = ta_code /\ labels' = labels /\ goto2' = None /\ label2' = at /\ fault' = fault /\ Advance
  BY DEF KeepLabel, Here, AtALive
<1>2. at \in Nat
  BY <1>1, InPass
<1>3. Passed(ta_code, at + 1, None, at)
  BY <1>2 DEF Passed
<1>4. QED BY <1>1, <1>3, StillMeans

LEMMA KeepQuadMeans == ASSUME IInv, NInv, MInv, KeepQuad PROVE MInv'
<1>1. phase = "pass" /\ ta_code' = ta_code /\ labels' = labels /\ goto2' = None /\ label2' = None /\ fault' = fault /\ Advance
  BY DEF KeepQuad, Here, AtALive
<1>2. Passed(ta_code, at + 1, None, None)
  BY DEF Passed
<1>3. QED BY <1>1, <1>2, StillMeans

\* What the step leaves behind is numbered and named as before.
LEMMA StepStage ==
    ASSUME IInv', NInv', phase = "pass", Advance, fault' = "none", SameShape(ta_code, ta_code')
    PROVE  Stage(ta_code, ta_code', labels', at + 1)
<1>1. phase' = "pass" /\ at' = at + 1
  BY DEF Advance
<1>2. QED BY <1>1 DEF IInv, NInv, Stage

\* Folding an instruction's condition changes neither what shows nor where it leads.
LEMMA CurrentFolds ==
    ASSUME IInv, AtALive
    PROVE  /\ Shows(Current) <=> Shows(ta_code[at])
           /\ Jumps(Current) <=> Jumps(ta_code[at])
           /\ Shows(ta_code[at]) => \A x \in BOOLEAN : Takes(ta_code[at], x) = Takes(Current, x)
           /\ Fixed(Current) => ~Shows(ta_code[at]) /\ ~Jumps(ta_code[at])
<1>1. at \in DOMAIN ta_code /\ ta_code \in Seq(Instr)
  BY CurrentSame, InPass DEF AtALive
<1>2. PICK i \in Instr : i = ta_code[at]
  BY <1>1
<1>3. PICK j : j = Not(i)
  OBVIOUS
<1>4. /\ j \in Instr /\ j.kind = i.kind /\ j.to = i.to /\ j.dead = i.dead /\ j.cond = i.cond
      /\ i.neg => ~j.neg /\ j.when = ~i.when
      /\ ~i.neg => j = i
  BY <1>2, <1>3 DEF Not, Instr
<1>5. (Shows(j) <=> Shows(i)) /\ (Jumps(j) <=> Jumps(i)) /\ \A x \in BOOLEAN : Takes(i, x) = Takes(j, x)
  <2>1. CASE i.neg
    BY <1>4, <2>1 DEF Shows, Jumps, Takes, Fixed, Instr
  <2>2. CASE ~i.neg
    BY <1>4, <2>2
  <2>3. QED BY <1>2, <2>1, <2>2
<1>6. ~j.neg
  BY <1>2, <1>4 DEF Instr
<1>7. Current = IF Fixed(j) /\ Taken(j) THEN [j EXCEPT !.cond = "always", !.when = TRUE] ELSE j
  BY <1>2, <1>3 DEF Current
<1>8. CASE Fixed(j) /\ Taken(j)
  <2>1. Current.kind = "goto" /\ Current.cond = "always" /\ Current.dead = j.dead
    BY <1>4, <1>7, <1>8 DEF Instr, Fixed
  <2>2. ~Shows(j) /\ (Jumps(j) <=> ~j.dead) /\ ~Fixed(Current)
    BY <1>4, <1>6, <1>8, <2>1 DEF Fixed, Taken, Shows, Jumps, Instr
  <2>3. ~Shows(Current) /\ (Jumps(Current) <=> ~j.dead)
    BY <2>1 DEF Shows, Jumps
  <2>4. QED BY <1>2, <1>5, <2>2, <2>3
<1>9. CASE ~(Fixed(j) /\ Taken(j))
  <2>1. Current = j
    BY <1>7, <1>9
  <2>2. Fixed(j) => ~Shows(j) /\ ~Jumps(j)
    BY <1>4, <1>6, <1>9 DEF Fixed, Taken, Shows, Jumps, Instr
  <2>3. QED BY <1>2, <1>5, <2>1, <2>2
<1>10. QED BY <1>8, <1>9

\* From a place of G that shows, or falls through, the code goes on within G.
LEMMA GoesOn ==
    ASSUME NEW max, NEW src, Source(max, src), NEW code, NEW ls, NEW p1, Stage(src, code, ls, p1),
           NEW G, Kept(max, src, code, ls, G), NEW p \in G \cap DOMAIN code, Shows(code[p]) \/ ~Jumps(code[p])
    PROVE  p + 1 \in G
<1>1. max \in Nat /\ Coded(code, ls) /\ Named(code, ls, p1) /\ Len(code) <= max
  BY DEF Source, Stage, SameShape
<1>2. MovesOf(max, code, Lead(max, code, ls), MovesNow(max, code, ls))
  BY <1>1, MovesNowAre
<1>3. CASE Shows(code[p])
  BY <1>3 DEF Kept
<1>4. CASE ~Shows(code[p])
  <2>1. MovesNow(max, code, ls)[p] = p + 1
    BY <1>2, <1>4 DEF MovesOf
  <2>2. MovesNow(max, code, ls)[p] \in G
    BY DEF Kept, MovesNow
  <2>3. QED BY <2>1, <2>2
<1>5. QED BY <1>3, <1>4

\* An instruction that neither shows nor jumps goes.
LEMMA KilledMeans ==
    ASSUME IInv, NInv, MInv, IInv', NInv', AtALive, Kill(Current), Advance,
           goto2' = goto2, label2' = label2, fault' = fault,
           ~Shows(ta_code[at]), ~Jumps(ta_code[at]),
           \A j \in JumpsIn(ta_code) : labels'[ta_code[j].to].name = labels[ta_code[j].to].name
    PROVE  MInv'
<1>1. phase = "pass" /\ at \in DOMAIN ta_code /\ at \in Nat /\ ta_code \in Seq(Instr)
  BY CurrentSame, InPass DEF AtALive
<1>2. /\ SameShape(ta_code, ta_code') /\ ta_code'[at].dead
      /\ \A k \in DOMAIN ta_code : k # at => ta_code'[k] = ta_code[k]
  BY KillSame
<1>3. Passed(ta_code', at + 1, goto2, label2)
  BY <1>1, <1>2, MeaningNow, PassedOn
<1>4. ASSUME fault = "none"
      PROVE  \E G : Kept(MaxCode, source, ta_code', labels', G) /\ Ahead(MaxCode, at + 1, label2, G)
  <2>1. PICK G : Kept(MaxCode, source, ta_code, labels, G) /\ Ahead(MaxCode, at, label2, G)
    BY <1>1, <1>4, MeaningNow
  <2>2. /\ Source(MaxCode, source) /\ Stage(source, ta_code, labels, at)
        /\ Stage(ta_code, ta_code', labels', at + 1)
    BY <1>1, <1>2, <1>4, MeaningNow, StepStage
  <2>3. MaxCode \in Nat /\ Len(ta_code) <= MaxCode /\ label2 \in 0 .. at - 1
    BY <1>1, MeaningNow DEF Source, Placed
  <2>4. at .. MaxCode + 3 \subseteq G
    BY <1>1, <2>1, <2>3 DEF Ahead
  <2>5. at + 1 \in G
    <3>1. at <= MaxCode
      BY <1>1, <2>3
    <3>2. QED BY <1>1, <2>3, <2>4, <3>1
  <2>6. ASSUME NEW p \in G \cap DOMAIN ta_code
        PROVE  /\ Shows(ta_code'[p]) <=> Shows(ta_code[p])
               /\ Jumps(ta_code'[p]) <=> Jumps(ta_code[p])
               /\ Shows(ta_code'[p]) \/ ~Jumps(ta_code'[p]) => p + 1 \in G
               /\ Shows(ta_code'[p]) => \A x \in BOOLEAN : Takes(ta_code[p], x) = Takes(ta_code'[p], x)
    <3>1. CASE p = at
      BY <1>2, <2>5, <3>1 DEF Shows, Jumps
    <3>2. CASE p # at
      BY <1>2, <2>1, <2>2, <3>2, GoesOn
    <3>3. QED BY <3>1, <3>2
  <2>7. /\ G \in SUBSET G /\ 1 \in G
        /\ \A p \in MaxCode + 1 .. MaxCode + 3 : p \in G
        /\ \A p \in LabelsIn(ta_code') : ~ta_code'[p].dead => p \in G \/ p \notin G
        /\ \A j \in JumpsIn(ta_code) : ~ta_code'[j].dead =>
              ~ta_code[j].dead /\ labels'[ta_code[j].to].name = labels[ta_code[j].to].name
    <3>1. \A p \in MaxCode + 1 .. MaxCode + 3 : p \in at .. MaxCode + 3
      BY <1>1, <2>3
    <3>2. QED BY <1>2, <2>1, <2>4, <3>1 DEF Kept, JumpsIn
  <2>8. Kept(MaxCode, source, ta_code', labels', G)
    BY <2>1, <2>2, <2>6, <2>7, KeptSame
  <2>9. Ahead(MaxCode, at + 1, label2, G)
    BY <1>1, <2>1, <2>3, AheadOn
  <2>10. QED BY <2>8, <2>9
<1>5. QED BY <1>1, <1>2, <1>3, <1>4, StepMeaning

\* What is behind a jump goes: it was not reached.
LEMMA BehindMeans ==
    ASSUME IInv, NInv, MInv, IInv', NInv', AtALive, Kill(Current), Advance,
           goto2' = goto2, label2' = label2, fault' = fault, BehindAJump,
           \A j \in JumpsIn(ta_code) : labels'[ta_code[j].to].name = labels[ta_code[j].to].name
    PROVE  MInv'
<1>1. phase = "pass" /\ at \in DOMAIN ta_code /\ at \in Nat /\ ta_code \in Seq(Instr)
  BY CurrentSame, InPass DEF AtALive
<1>2. /\ SameShape(ta_code, ta_code') /\ ta_code'[at].dead
      /\ \A k \in DOMAIN ta_code : k # at => ta_code'[k] = ta_code[k]
  BY KillSame
<1>3. Passed(ta_code', at + 1, goto2, label2)
  BY <1>1, <1>2, MeaningNow, PassedOn
<1>4. /\ goto2 \in JumpsIn(ta_code) /\ goto2 \in Nat /\ goto2 >= 1 /\ goto2 < at /\ label2 = None
      /\ ~ta_code[goto2].dead /\ ta_code[goto2].cond = "always"
      /\ \A k \in goto2 + 1 .. at : ta_code'[k].dead
  <2>1. Passed(ta_code, at, goto2, label2) /\ goto2 \in 0 .. at - 1
    BY <1>1, MeaningNow DEF Placed
  <2>2. goto2 # None /\ ta_code[goto2].cond = "always"
    BY DEF BehindAJump
  <2>3. goto2 + 1 .. at = goto2 + 1 .. (at + 1) - 1
    BY <1>1
  <2>4. QED BY <1>1, <1>3, <2>1, <2>2, <2>3 DEF Passed, None
<1>5. Jumps(ta_code[goto2]) /\ ~Shows(ta_code[goto2])
  BY <1>4 DEF Jumps, Shows, JumpsIn
<1>6. ASSUME fault = "none"
      PROVE  \E G : Kept(MaxCode, source, ta_code', labels', G) /\ Ahead(MaxCode, at + 1, label2, G)
  <2>1. PICK G : Kept(MaxCode, source, ta_code, labels, G) /\ Ahead(MaxCode, at, label2, G)
    BY <1>1, <1>6, MeaningNow
  <2>2. /\ Source(MaxCode, source) /\ Stage(source, ta_code, labels, at)
        /\ Stage(ta_code, ta_code', labels', at + 1)
    BY <1>1, <1>2, <1>6, MeaningNow, StepStage
  <2>3. MaxCode \in Nat /\ Len(ta_code) <= MaxCode
    BY <1>1, MeaningNow DEF Source
  <2>4. at .. MaxCode + 3 \subseteq G /\ 1 \in G /\ G \subseteq 1 .. MaxCode + 3
    BY <1>4, <2>1 DEF Ahead, Kept
  <2> DEFINE H == G \ (goto2 + 1 .. at)
  <2>5. /\ H \in SUBSET G /\ 1 \in H /\ at \notin H
        /\ at + 1 .. MaxCode + 3 \subseteq H
    BY <1>1, <1>4, <2>4
  <2>6. ASSUME NEW p \in H \cap DOMAIN ta_code
        PROVE  /\ Shows(ta_code'[p]) <=> Shows(ta_code[p])
               /\ Jumps(ta_code'[p]) <=> Jumps(ta_code[p])
               /\ Shows(ta_code'[p]) \/ ~Jumps(ta_code'[p]) => p + 1 \in H
               /\ Shows(ta_code'[p]) => \A x \in BOOLEAN : Takes(ta_code[p], x) = Takes(ta_code'[p], x)
    <3>1. p # at /\ p \in G /\ p \in Nat
      BY <1>1, <2>5
    <3>2. ta_code'[p] = ta_code[p]
      BY <1>2, <3>1
    <3>3. Shows(ta_code[p]) \/ ~Jumps(ta_code[p]) => p + 1 \in G /\ p # goto2
      BY <1>5, <2>1, <2>2, <3>1, GoesOn
    <3>4. p \notin goto2 + 1 .. at
      OBVIOUS
    <3>5. p # goto2 => p + 1 \notin goto2 + 1 .. at
      BY <1>1, <1>4, <3>1, <3>4
    <3>6. QED BY <3>2, <3>3, <3>5
  <2>7. /\ \A p \in MaxCode + 1 .. MaxCode + 3 : p \in H
        /\ \A p \in LabelsIn(ta_code') : ~ta_code'[p].dead => p \in H \/ p \notin G
        /\ \A j \in JumpsIn(ta_code) : ~ta_code'[j].dead =>
              ~ta_code[j].dead /\ labels'[ta_code[j].to].name = labels[ta_code[j].to].name
    <3>1. \A p \in MaxCode + 1 .. MaxCode + 3 : p \in at + 1 .. MaxCode + 3
      BY <1>1, <2>3
    <3>2. \A p \in LabelsIn(ta_code') : ~ta_code'[p].dead => p \in H \/ p \notin G
      BY <1>4
    <3>3. QED BY <1>2, <2>5, <3>1, <3>2 DEF JumpsIn
  <2> HIDE DEF H
  <2>8. Kept(MaxCode, source, ta_code', labels', H)
    BY <2>1, <2>2, <2>5, <2>6, <2>7, KeptSame
  <2>9. Ahead(MaxCode, at + 1, label2, H)
    BY <1>4, <2>5 DEF Ahead
  <2>10. QED BY <2>8, <2>9
<1>7. QED BY <1>1, <1>2, <1>3, <1>6, StepMeaning

LEMMA DropJumpMeans == ASSUME IInv, NInv, MInv, IInv', NInv', DropJump PROVE MInv'
<1>1. /\ phase = "pass" /\ AtALive /\ Kill(Current) /\ Advance
      /\ goto2' = goto2 /\ label2' = label2 /\ fault' = fault
      /\ labels' = [labels EXCEPT ![Current.to].refs = @ - 1]
      /\ Fixed(Current) \/ BehindAJump
  BY DEF DropJump, Here, AtALive
<1>2. ASSUME NEW j \in JumpsIn(ta_code) PROVE labels'[ta_code[j].to].name = labels[ta_code[j].to].name
  <2>1. ta_code[j].to \in DOMAIN labels /\ labels[ta_code[j].to] \in [name : DOMAIN labels, refs : Int]
    BY <1>1, InPass DEF Coded, JumpsIn
  <2>2. QED BY <1>1, <2>1
<1>3. CASE Fixed(Current)
  <2>1. ~Shows(ta_code[at]) /\ ~Jumps(ta_code[at])
    BY <1>1, <1>3, CurrentFolds
  <2>2. QED BY <1>1, <1>2, <2>1, KilledMeans
<1>4. CASE BehindAJump
  BY <1>1, <1>2, <1>4, BehindMeans
<1>5. QED BY <1>1, <1>3, <1>4

LEMMA DropOtherMeans == ASSUME IInv, NInv, MInv, IInv', NInv', DropOther PROVE MInv'
<1>1. /\ phase = "pass" /\ AtALive /\ Kill(Current) /\ Advance
      /\ goto2' = goto2 /\ label2' = label2 /\ fault' = fault /\ labels' = labels
      /\ Current.kind = "label" \/ BehindAJump
  BY DEF DropOther, Here, AtALive
<1>2. CASE Current.kind = "label"
  <2>1. ta_code[at].kind = "label"
    BY <1>1, <1>2, CurrentSame
  <2>2. ~Shows(ta_code[at]) /\ ~Jumps(ta_code[at])
    BY <2>1 DEF Shows, Jumps
  <2>3. QED BY <1>1, <2>2, KilledMeans
<1>3. CASE BehindAJump
  BY <1>1, <1>3, BehindMeans
<1>4. QED BY <1>1, <1>2, <1>3

\* A label with nothing but dead code behind it leads where the next place does.
LEMMA AlongLabel ==
    ASSUME NEW max \in Nat, NEW code, NEW ls, Coded(code, ls), NEW p1, Named(code, ls, p1), Len(code) <= max,
           NEW b \in LabelsIn(code), NEW a \in DOMAIN code, b < a, \A k \in b + 1 .. a - 1 : code[k].dead,
           NEW G, b .. a \subseteq G, NEW f \in 1 .. max + 3, f \in G => MovesNow(max, code, ls)[f] = f
    PROVE  b \in To(MovesNow(max, code, ls), f) <=> a \in To(MovesNow(max, code, ls), f)
<1> DEFINE m == MovesNow(max, code, ls)
           P == 1 .. max + 3
<1>1. MovesOf(max, code, Lead(max, code, ls), m)
  BY MovesNowAre
<1>2. m \in [P -> P]
  BY <1>1 DEF MovesOf
<1>3. /\ code \in Seq(Instr) /\ b \in DOMAIN code /\ code[b].kind = "label" /\ b \in Nat /\ a \in Nat /\ b >= 1
      /\ a <= Len(code) /\ Len(code) \in Nat
  BY DEF Coded, LabelsIn
<1>4. ASSUME NEW q \in b .. a - 1 PROVE m[q] = q + 1 /\ q # f
  <2>1. q \in DOMAIN code /\ q \in b .. a
    BY <1>3
  <2>2. q = b \/ code[q].dead
    BY <1>3
  <2>3. ~Shows(code[q]) /\ ~Jumps(code[q])
    BY <1>3, <2>2 DEF Shows, Jumps
  <2>4. m[q] = q + 1
    BY <1>1, <2>1, <2>3 DEF MovesOf
  <2>5. q \in Nat /\ q \in G
    BY <1>3, <2>1
  <2> HIDE DEF m
  <2>6. q # f
    BY <2>4, <2>5 DEF m
  <2>7. QED BY <2>4, <2>6
<1>5. P \in SUBSET Nat /\ b .. a \subseteq P /\ b <= a
  BY <1>3
<1> HIDE DEF m, P
<1>6. f \in P
  BY DEF P
<1>7. b \in To(m, f) <=> a \in To(m, f)
  BY <1>2, <1>3, <1>4, <1>5, <1>6, ToAlong
<1>8. QED BY <1>7 DEF m

LEMMA MergeLabelMeans == ASSUME IInv, NInv, MInv, IInv', NInv', MergeLabel PROVE MInv'
<1> DEFINE l1 == Current.to
           l2 == ta_code[label2].to
<1>1. phase = "pass" /\ AtALive /\ Current.kind = "label" /\ label2 # None
  BY DEF MergeLabel, Here, AtALive
<1>2. /\ Kill(Current) /\ label2' = label2 /\ goto2' = goto2 /\ Advance
      /\ labels' = [labels EXCEPT ![l1] = labels[l2]]
      /\ (fault' = "none" => fault = "none")
  BY DEF MergeLabel
<1>3. /\ Coded(ta_code, labels) /\ ta_code \in Seq(Instr) /\ at \in Nat /\ at \in DOMAIN ta_code
      /\ label2 \in LabelsIn(ta_code) /\ label2 # at /\ label2 \in 0 .. at - 1
  BY <1>1, InPass, CurrentSame DEF Placed
<1>4. at \in LabelsIn(ta_code) /\ l1 = ta_code[at].to /\ ~ta_code[at].dead
  BY <1>1, CurrentSame DEF LabelsIn
<1>5. /\ SameShape(ta_code, ta_code') /\ ta_code'[at].dead
      /\ \A k \in DOMAIN ta_code : k # at => ta_code'[k] = ta_code[k]
  BY <1>1, <1>2, KillSame
<1>6. /\ LabelsIn(ta_code') = LabelsIn(ta_code) /\ JumpsIn(ta_code') = JumpsIn(ta_code)
      /\ DOMAIN ta_code' = DOMAIN ta_code /\ \A k \in DOMAIN ta_code : ta_code'[k].to = ta_code[k].to
      /\ Len(ta_code') = Len(ta_code)
  BY <1>3, <1>5, SameShapePlaces DEF SameShape
<1>7. Passed(ta_code', at + 1, goto2, label2)
  BY <1>1, <1>3, <1>5, MeaningNow, PassedOn
<1>8. ASSUME fault' = "none"
      PROVE  \E G : Kept(MaxCode, source, ta_code', labels', G) /\ Ahead(MaxCode, at + 1, label2, G)
  <2>1. PICK G : Kept(MaxCode, source, ta_code, labels, G) /\ Ahead(MaxCode, at, label2, G)
    BY <1>1, <1>2, <1>8, MeaningNow
  <2>2. /\ Source(MaxCode, source) /\ Stage(source, ta_code, labels, at) /\ Stage(ta_code, ta_code', labels', at + 1)
        /\ ~ta_code[label2].dead
    BY <1>1, <1>2, <1>5, <1>8, MeaningNow, StepStage
  <2>3. /\ MaxCode \in Nat /\ Len(ta_code) <= MaxCode /\ Named(ta_code, labels, at)
        /\ Coded(ta_code', labels') /\ Named(ta_code', labels', at + 1)
    BY <1>1, <2>2, MeaningNow DEF Source, Stage
  <2>4. label2 .. MaxCode + 3 \subseteq G /\ label2 .. at \subseteq G /\ at \in G /\ label2 \in G
    <3>1. label2 .. MaxCode + 3 \subseteq G
      BY <1>1, <2>1 DEF Ahead
    <3>2. at <= MaxCode
      BY <1>3, <2>3
    <3>3. QED BY <1>3, <2>3, <3>1, <3>2
  <2>5. /\ \A k \in label2 + 1 .. at - 1 : ta_code[k].dead
        /\ \A k \in label2 + 1 .. at - 1 : ta_code'[k].dead
    <3>1. Passed(ta_code, at, goto2, label2)
      BY <1>1, MeaningNow
    <3>2. \A k \in label2 + 1 .. at - 1 : k \in label2 + 1 .. (at + 1) - 1
      BY <1>3
    <3>3. \A k \in label2 + 1 .. at - 1 : ta_code[k].dead
      BY <1>1, <3>1 DEF Passed
    <3>4. \A k \in label2 + 1 .. (at + 1) - 1 : ta_code'[k].dead
      BY <1>1, <1>7 DEF Passed
    <3> HIDE DEF l1, l2
    <3>5. QED BY <3>2, <3>3, <3>4
  <2>6. ASSUME NEW p \in DOMAIN ta_code
        PROVE  /\ Shows(ta_code'[p]) <=> Shows(ta_code[p])
               /\ Jumps(ta_code'[p]) <=> Jumps(ta_code[p])
               /\ Shows(ta_code'[p]) => \A x \in BOOLEAN : Takes(ta_code[p], x) = Takes(ta_code'[p], x)
    <3>1. CASE p = at
      BY <1>4, <1>5, <3>1 DEF Shows, Jumps, LabelsIn
    <3>2. CASE p # at
      BY <1>5, <3>2
    <3>3. QED BY <3>1, <3>2
  <2>7. ASSUME NEW j \in JumpsIn(ta_code), ~ta_code'[j].dead
        PROVE  /\ ~ta_code[j].dead
               /\ \/ Lead(MaxCode, ta_code', labels')[j] = Lead(MaxCode, ta_code, labels)[j]
                  \/ Lead(MaxCode, ta_code, labels)[j] = at /\ Lead(MaxCode, ta_code', labels')[j] = label2
    <3>1. j # at /\ j \in DOMAIN ta_code /\ ~ta_code[j].dead /\ j \in JumpsIn(ta_code') /\ ta_code'[j].to = ta_code[j].to
          /\ ta_code[j].to \in DOMAIN labels
      BY <1>3, <1>5, <1>6, <2>7 DEF JumpsIn, Coded
    <3>2. labels[l1].name = l1 /\ labels[l2].name = l2 /\ l1 \in DOMAIN labels
      BY <1>3, <1>4, <2>2, <2>3 DEF Named, Coded, LabelsIn
    <3>3. CASE ta_code[j].to = l1
      <4>1. labels'[l1].name = l2
        BY <1>2, <3>2
      <4>2. Lead(MaxCode, ta_code, labels)[j] = at
        BY <1>3, <1>4, <2>3, <3>1, <3>2, <3>3, LeadAlike
      <4>3. label2 \in LabelsIn(ta_code') /\ ta_code'[label2].to = labels'[ta_code'[j].to].name
        BY <1>3, <1>6, <3>1, <3>3, <4>1 DEF LabelsIn
      <4>4. Lead(MaxCode, ta_code', labels')[j] = label2
        BY <2>3, <2>7, <3>1, <4>3, LeadAlike
      <4>5. QED BY <3>1, <4>2, <4>4
    <3>4. CASE ta_code[j].to # l1
      <4>1. labels'[ta_code[j].to].name = labels[ta_code[j].to].name
        BY <1>2, <3>1, <3>4
      <4>2. Lead(MaxCode, ta_code', labels')[j] = Lead(MaxCode, ta_code, labels)[j]
        BY <1>3, <1>5, <2>3, <2>7, <3>1, <4>1, LeadKept
      <4>3. QED BY <3>1, <4>2
    <3>5. QED BY <3>3, <3>4
  <2> HIDE DEF l1, l2
  <2>8. ASSUME NEW f \in 1 .. MaxCode + 3,
               f \in G => MovesNow(MaxCode, ta_code, labels)[f] = f /\ MovesNow(MaxCode, ta_code', labels')[f] = f
        PROVE  /\ at \in To(MovesNow(MaxCode, ta_code, labels), f) <=> label2 \in To(MovesNow(MaxCode, ta_code, labels), f)
               /\ at \in To(MovesNow(MaxCode, ta_code', labels'), f) <=> label2 \in To(MovesNow(MaxCode, ta_code', labels'), f)
    <3>1. label2 < at
      BY <1>3
    <3>2. label2 \in To(MovesNow(MaxCode, ta_code, labels), f) <=> at \in To(MovesNow(MaxCode, ta_code, labels), f)
      BY <1>3, <2>3, <2>4, <2>5, <2>8, <3>1, AlongLabel
    <3>3. label2 \in LabelsIn(ta_code') /\ at \in DOMAIN ta_code' /\ Len(ta_code') <= MaxCode
      BY <1>3, <1>6, <2>3
    <3>4. label2 \in To(MovesNow(MaxCode, ta_code', labels'), f) <=> at \in To(MovesNow(MaxCode, ta_code', labels'), f)
      BY <2>3, <2>4, <2>5, <2>8, <3>1, <3>3, AlongLabel
    <3>5. QED BY <3>2, <3>4
  <2>9. Kept(MaxCode, source, ta_code', labels', G)
    BY <2>1, <2>2, <2>4, <2>6, <2>7, <2>8, KeptRedirected
  <2>10. Ahead(MaxCode, at + 1, label2, G)
    BY <1>3, <2>1, <2>3, AheadOn
  <2>11. QED BY <2>9, <2>10
<1>9. QED BY <1>1, <1>2, <1>5, <1>7, <1>8, StepMeaning

LEMMA OneMove ==
    ASSUME NEW P, NEW m \in [P -> P], NEW f \in P, NEW a \in P, a # f
    PROVE  a \in To(m, f) <=> m[a] \in To(m, f)
BY ToOnward, ToBack

\* A jump that stays is now the jump before.
LEMMA KeepJumpPasses ==
    ASSUME IInv, AtALive, Current.kind = "goto", SameShape(ta_code, ta_code'), ~ta_code'[at].dead
    PROVE  Passed(ta_code', at + 1, at, None)
<1>1. at \in JumpsIn(ta_code) /\ at \in Nat /\ ta_code \in Seq(Instr)
  BY CurrentSame, InPass DEF AtALive, JumpsIn
<1>2. at \in JumpsIn(ta_code')
  BY <1>1, SameShapePlaces
<1>3. \A k \in at + 1 .. (at + 1) - 1 : ta_code'[k].dead
  BY <1>1
<1>4. QED BY <1>2, <1>3 DEF Passed

LEMMA PlainJumpMeans ==
    ASSUME IInv, NInv, MInv, IInv', NInv', KeepJump, ~(label2 # None /\ Current.cond = "always") PROVE MInv'
<1>1. /\ phase = "pass" /\ AtALive /\ Current.kind = "goto" /\ Advance
      /\ goto2' = at /\ label2' = None /\ labels' = labels /\ fault' = fault
      /\ ta_code' = [[ta_code EXCEPT ![at] = Current] EXCEPT ![at].dead = FALSE]
  BY DEF KeepJump, Here, AtALive
<1>2. /\ at \in DOMAIN ta_code /\ at \in Nat /\ ta_code \in Seq(Instr) /\ Current \in Instr /\ ~Current.dead
      /\ ~ta_code[at].dead /\ label2 \in 0 .. at - 1
  BY <1>1, CurrentSame, InPass DEF Placed
<1>3. SameShape(ta_code, ta_code')
  <2>1. \E rename \in BOOLEAN : ~rename /\ ta_code' = [[ta_code EXCEPT ![at] = Current] EXCEPT ![IF rename THEN label2 ELSE at].dead = rename]
    BY <1>1
  <2>2. QED BY <1>1, <2>1, JumpWrittenBack
<1>4. ta_code'[at] = Current /\ \A k \in DOMAIN ta_code : k # at => ta_code'[k] = ta_code[k]
  <2>1. Current.dead = FALSE /\ Current = [kind |-> Current.kind, cond |-> Current.cond, neg |-> Current.neg,
                                          when |-> Current.when, to |-> Current.to, dead |-> Current.dead]
    BY <1>2 DEF Instr
  <2>2. [Current EXCEPT !.dead = FALSE] = Current
    BY <2>1
  <2>3. ta_code'[at] = [Current EXCEPT !.dead = FALSE]
    BY <1>1, <1>2
  <2>4. QED BY <1>1, <1>2, <2>2, <2>3
<1>5. Passed(ta_code', at + 1, at, None)
  BY <1>1, <1>2, <1>3, <1>4, KeepJumpPasses
<1>6. ASSUME fault = "none"
      PROVE  \E G : Kept(MaxCode, source, ta_code', labels', G) /\ Ahead(MaxCode, at + 1, None, G)
  <2>1. PICK G : Kept(MaxCode, source, ta_code, labels, G) /\ Ahead(MaxCode, at, label2, G)
    BY <1>1, <1>6, MeaningNow
  <2>2. /\ Source(MaxCode, source) /\ Stage(source, ta_code, labels, at)
        /\ Stage(ta_code, ta_code', labels', at + 1)
    BY <1>1, <1>3, <1>6, MeaningNow, StepStage
  <2>3. MaxCode \in Nat /\ Len(ta_code) <= MaxCode
    BY <1>1, MeaningNow DEF Source
  <2>4. at .. MaxCode + 3 \subseteq G
    BY <1>2, <2>1, <2>3 DEF Ahead
  <2>5. ASSUME NEW p \in G \cap DOMAIN ta_code
        PROVE  /\ Shows(ta_code'[p]) <=> Shows(ta_code[p])
               /\ Jumps(ta_code'[p]) <=> Jumps(ta_code[p])
               /\ Shows(ta_code'[p]) \/ ~Jumps(ta_code'[p]) => p + 1 \in G
               /\ Shows(ta_code'[p]) => \A x \in BOOLEAN : Takes(ta_code[p], x) = Takes(ta_code'[p], x)
    <3>1. Shows(ta_code[p]) \/ ~Jumps(ta_code[p]) => p + 1 \in G
      BY <2>1, <2>2, GoesOn
    <3>2. CASE p = at
      BY <1>1, <1>4, <3>1, <3>2, CurrentFolds
    <3>3. CASE p # at
      BY <1>4, <3>1, <3>3
    <3>4. QED BY <3>2, <3>3
  <2>6. /\ G \in SUBSET G /\ 1 \in G
        /\ \A p \in MaxCode + 1 .. MaxCode + 3 : p \in G
        /\ \A p \in LabelsIn(ta_code') : ~ta_code'[p].dead => p \in G \/ p \notin G
        /\ \A j \in JumpsIn(ta_code) : ~ta_code'[j].dead =>
              ~ta_code[j].dead /\ labels'[ta_code[j].to].name = labels[ta_code[j].to].name
    <3>1. \A p \in MaxCode + 1 .. MaxCode + 3 : p \in at .. MaxCode + 3
      BY <1>2, <2>3
    <3>2. QED BY <1>1, <1>2, <1>4, <2>1, <2>4, <3>1 DEF Kept, JumpsIn
  <2>7. Kept(MaxCode, source, ta_code', labels', G)
    BY <2>1, <2>2, <2>5, <2>6, KeptSame
  <2>8. Ahead(MaxCode, at + 1, None, G)
    BY <1>2, <2>1, <2>3, AheadOn
  <2>9. QED BY <2>7, <2>8
<1>7. QED BY <1>1, <1>3, <1>5, <1>6, StepMeaning

LEMMA RenameJumpMeans ==
    ASSUME IInv, NInv, MInv, IInv', NInv', KeepJump, label2 # None, Current.cond = "always" PROVE MInv'
<1> DEFINE l == Current.to
           l2 == ta_code[label2].to
<1>1. /\ phase = "pass" /\ AtALive /\ Current.kind = "goto" /\ Advance /\ goto2' = at /\ label2' = None
      /\ ta_code' = [[ta_code EXCEPT ![at] = Current] EXCEPT ![label2].dead = TRUE]
      /\ labels' = Renamed(labels, l, l2)
      /\ fault' = "none" => /\ fault = "none"
                            /\ \A n \in DOMAIN labels : labels[n].name = labels[l2].name => n = l2 /\ n # l
  BY DEF KeepJump, Here, AtALive, Renamed
<1>2. /\ Coded(ta_code, labels) /\ ta_code \in Seq(Instr) /\ at \in Nat /\ at \in DOMAIN ta_code
      /\ labels \in [DOMAIN labels -> [name : DOMAIN labels, refs : Int]]
      /\ label2 \in LabelsIn(ta_code) /\ label2 # at /\ label2 \in 0 .. at - 1
  BY <1>1, InPass, CurrentSame DEF Placed
<1>3. /\ at \in JumpsIn(ta_code) /\ l = ta_code[at].to /\ ~ta_code[at].dead /\ ~Current.dead /\ Current \in Instr
      /\ label2 \in DOMAIN ta_code
  BY <1>1, <1>2, CurrentSame DEF JumpsIn, LabelsIn
<1>4. /\ SameShape(ta_code, ta_code') /\ ta_code'[label2].dead
      /\ \A k \in DOMAIN ta_code : k # label2 => ta_code'[k].dead = ta_code[k].dead
  BY <1>1, RenameDies
<1>5. ta_code'[at] = Current /\ \A k \in DOMAIN ta_code : k # at /\ k # label2 => ta_code'[k] = ta_code[k]
  BY <1>1, <1>2, <1>3
<1>6. /\ LabelsIn(ta_code') = LabelsIn(ta_code) /\ JumpsIn(ta_code') = JumpsIn(ta_code)
      /\ DOMAIN ta_code' = DOMAIN ta_code /\ \A k \in DOMAIN ta_code : ta_code'[k].to = ta_code[k].to
      /\ Len(ta_code') = Len(ta_code)
  BY <1>2, <1>4, SameShapePlaces DEF SameShape
<1>7. Passed(ta_code', at + 1, at, None)
  BY <1>1, <1>3, <1>4, <1>5, KeepJumpPasses
<1>8. Jumps(ta_code[at]) /\ ~Shows(ta_code[at]) /\ Jumps(ta_code'[at]) /\ ~Shows(ta_code'[at])
  <2>1. Jumps(Current) /\ ~Shows(Current)
    BY <1>1, <1>3 DEF Jumps, Shows
  <2>2. QED BY <1>1, <1>5, <2>1, CurrentFolds
<1>9. ASSUME fault' = "none"
      PROVE  \E G : Kept(MaxCode, source, ta_code', labels', G) /\ Ahead(MaxCode, at + 1, None, G)
  <2> DEFINE m == MovesNow(MaxCode, ta_code, labels)
             n == MovesNow(MaxCode, ta_code', labels')
             v == Lead(MaxCode, ta_code, labels)[at]
             P == 1 .. MaxCode + 3
  <2>1. PICK G : Kept(MaxCode, source, ta_code, labels, G) /\ Ahead(MaxCode, at, label2, G)
    BY <1>1, <1>9, MeaningNow
  <2>2. /\ Source(MaxCode, source) /\ Stage(source, ta_code, labels, at) /\ Stage(ta_code, ta_code', labels', at + 1)
        /\ ~ta_code[label2].dead
    BY <1>1, <1>4, <1>9, MeaningNow, StepStage
  <2>3. /\ MaxCode \in Nat /\ Len(ta_code) <= MaxCode /\ Named(ta_code, labels, at)
        /\ Coded(ta_code', labels') /\ Named(ta_code', labels', at + 1) /\ Len(ta_code') <= MaxCode
    BY <1>1, <1>6, <2>2, MeaningNow DEF Source, Stage
  <2>4. label2 .. MaxCode + 3 \subseteq G /\ label2 .. at \subseteq G /\ at \in G /\ label2 \in G /\ at \in P
    <3>1. label2 .. MaxCode + 3 \subseteq G
      BY <2>1 DEF Ahead
    <3>2. at <= MaxCode /\ at >= 1
      BY <1>2, <2>3
    <3>3. QED BY <1>2, <2>3, <3>1, <3>2
  <2>5. /\ \A k \in label2 + 1 .. at - 1 : ta_code[k].dead
        /\ \A k \in label2 + 1 .. at - 1 : ta_code'[k].dead
    <3>1. \A k \in label2 + 1 .. at - 1 : ta_code[k].dead
      BY <1>1, MeaningNow DEF Passed
    <3>2. \A k \in label2 + 1 .. at - 1 : k \in DOMAIN ta_code /\ k # label2
      BY <1>2, <1>3
    <3>3. QED BY <1>4, <3>1, <3>2
  <2>6. /\ labels[l2].name = l2 /\ l # l2 /\ l \in DOMAIN labels /\ l2 \in DOMAIN labels
    <3>1. labels[l2].name = l2 /\ l \in DOMAIN labels /\ l2 \in DOMAIN labels
      BY <1>2, <1>3, <2>2, <2>3 DEF Named, Coded, LabelsIn, JumpsIn
    <3>2. QED BY <1>1, <1>9, <3>1
  <2>7. /\ labels'[l2].name = labels[l].name
        /\ \A i \in DOMAIN labels : i # l2 => labels'[i].name = labels[i].name
    <3> HIDE DEF l, l2
    <3>1. PICK ls : ls = Renamed(labels, l, l2)
      OBVIOUS
    <3>2. /\ DOMAIN ls = DOMAIN labels /\ ls[l2].name = labels[l].name
          /\ \A i \in DOMAIN labels : i # l2 => ls[i].name = labels[i].name
      BY <1>2, <2>6, <3>1, RenameNames
    <3>3. QED BY <1>1, <3>1, <3>2
  <2>8. v \in LabelsIn(ta_code) /\ ta_code[v].to = labels[l].name
    <3>1. /\ MaxCode \in Nat /\ Coded(ta_code, labels) /\ Named(ta_code, labels, at)
          /\ at \in JumpsIn(ta_code) /\ ~ta_code[at].dead
      BY <1>2, <1>3, <2>3
    <3>2. v \in LabelsIn(ta_code) /\ ta_code[v].to = labels[ta_code[at].to].name
      BY <3>1, LeadIs
    <3>3. QED BY <1>3, <3>2
  <2>9. MovesOf(MaxCode, ta_code, Lead(MaxCode, ta_code, labels), m)
        /\ MovesOf(MaxCode, ta_code', Lead(MaxCode, ta_code', labels'), n)
    BY <1>2, <2>3, MovesNowAre
  <2>10. Lead(MaxCode, ta_code', labels')[at] = v
    <3>1. /\ MaxCode \in Nat /\ Coded(ta_code, labels) /\ Named(ta_code, labels, at)
          /\ Coded(ta_code', labels') /\ Named(ta_code', labels', at + 1) /\ SameShape(ta_code, ta_code')
      BY <1>2, <1>4, <2>3
    <3>2. /\ at \in JumpsIn(ta_code) /\ ~ta_code[at].dead /\ ~ta_code'[at].dead
          /\ labels'[ta_code[at].to].name = labels[ta_code[at].to].name
      BY <1>3, <1>5, <2>6, <2>7
    <3>3. QED BY <3>1, <3>2, LeadKept
  <2> HIDE DEF v, m, n
  <2>11. m \in [P -> P] /\ n \in [P -> P] /\ m[at] = v /\ n[at] = v
    BY <1>2, <1>6, <1>8, <2>9, <2>10 DEF MovesOf, v
  <2>12. v \in G /\ v # at
    <3>1. m[at] \in G
      BY <2>1, <2>4 DEF Kept, MovesNow, m
    <3>2. QED BY <1>3, <2>8, <2>11, <3>1 DEF LabelsIn, JumpsIn
  <2>13. ASSUME NEW p \in DOMAIN ta_code
         PROVE  /\ Shows(ta_code'[p]) <=> Shows(ta_code[p])
                /\ Jumps(ta_code'[p]) <=> Jumps(ta_code[p])
                /\ Shows(ta_code'[p]) => \A x \in BOOLEAN : Takes(ta_code[p], x) = Takes(ta_code'[p], x)
    <3>1. CASE p = at
      BY <1>8, <3>1
    <3>2. CASE p = label2
      <4>1. ta_code[p].kind = "label" /\ ta_code'[p].kind = "label"
        BY <1>2, <1>6, <3>2 DEF LabelsIn
      <4>2. QED BY <4>1 DEF Shows, Jumps
    <3>3. CASE p # at /\ p # label2
      BY <1>5, <3>3
    <3>4. QED BY <3>1, <3>2, <3>3
  <2>14. ASSUME NEW j \in JumpsIn(ta_code), ~ta_code'[j].dead
         PROVE  /\ ~ta_code[j].dead
                /\ \/ Lead(MaxCode, ta_code', labels')[j] = Lead(MaxCode, ta_code, labels)[j]
                   \/ Lead(MaxCode, ta_code, labels)[j] = label2 /\ Lead(MaxCode, ta_code', labels')[j] = v
    <3>1. j # label2 /\ j \in DOMAIN ta_code /\ ~ta_code[j].dead /\ j \in JumpsIn(ta_code')
          /\ ta_code'[j].to = ta_code[j].to /\ ta_code[j].to \in DOMAIN labels
      BY <1>2, <1>4, <1>6, <2>14 DEF JumpsIn, LabelsIn, Coded
    <3>2. CASE ta_code[j].to = l2
      <4>1. Lead(MaxCode, ta_code, labels)[j] = label2
        BY <1>2, <2>3, <2>6, <3>1, <3>2, LeadAlike
      <4>2. v \in LabelsIn(ta_code') /\ ta_code'[v].to = labels'[ta_code'[j].to].name
        BY <1>6, <2>7, <2>8, <3>1, <3>2 DEF LabelsIn
      <4>3. Lead(MaxCode, ta_code', labels')[j] = v
        BY <2>3, <2>14, <3>1, <4>2, LeadAlike
      <4>4. QED BY <3>1, <4>1, <4>3
    <3>3. CASE ta_code[j].to # l2
      <4>1. labels'[ta_code[j].to].name = labels[ta_code[j].to].name
        BY <2>7, <3>1, <3>3
      <4>2. Lead(MaxCode, ta_code', labels')[j] = Lead(MaxCode, ta_code, labels)[j]
        <5>1. /\ MaxCode \in Nat /\ Coded(ta_code, labels) /\ Named(ta_code, labels, at)
              /\ Coded(ta_code', labels') /\ Named(ta_code', labels', at + 1) /\ SameShape(ta_code, ta_code')
          BY <1>2, <1>4, <2>3
        <5>2. QED BY <2>14, <3>1, <4>1, <5>1, LeadKept
      <4>3. QED BY <3>1, <4>2
    <3>4. QED BY <3>2, <3>3
  <2> HIDE DEF l, l2
  <2>15. ASSUME NEW f \in P, f \in G => m[f] = f /\ n[f] = f
         PROVE  /\ label2 \in To(m, f) <=> v \in To(m, f)
                /\ label2 \in To(n, f) <=> v \in To(n, f)
    <3>1. label2 < at /\ at # f
      BY <1>2, <2>4, <2>11, <2>12, <2>15
    <3>2. label2 \in To(m, f) <=> at \in To(m, f)
      BY <1>2, <2>3, <2>4, <2>5, <2>15, <3>1, AlongLabel DEF m
    <3>3. label2 \in LabelsIn(ta_code') /\ at \in DOMAIN ta_code'
      BY <1>2, <1>6
    <3>4. label2 \in To(n, f) <=> at \in To(n, f)
      BY <2>3, <2>4, <2>5, <2>15, <3>1, <3>3, AlongLabel DEF n
    <3>5. (at \in To(m, f) <=> v \in To(m, f)) /\ (at \in To(n, f) <=> v \in To(n, f))
      BY <2>4, <2>11, <3>1, OneMove
    <3>6. QED BY <3>2, <3>4, <3>5
  <2>16. Kept(MaxCode, source, ta_code', labels', G)
    BY <2>1, <2>2, <2>4, <2>12, <2>13, <2>14, <2>15, KeptRedirected DEF m, n
  <2>17. Ahead(MaxCode, at + 1, None, G)
    BY <1>2, <2>1, <2>3, AheadOn
  <2>18. QED BY <2>16, <2>17
<1>10. QED BY <1>1, <1>4, <1>7, <1>9, StepMeaning

LEMMA KeepJumpMeans == ASSUME IInv, NInv, MInv, IInv', NInv', KeepJump PROVE MInv'
BY PlainJumpMeans, RenameJumpMeans

\* Before the walk every place means itself.
LEMMA KeptAtFirst ==
    ASSUME NEW max, NEW src, Source(max, src), NEW ls, Coded(src, ls), NEW p1, Named(src, ls, p1),
           \A k \in LabelsIn(src) : ~src[k].dead
    PROVE  Kept(max, src, src, ls, 1 .. max + 3)
<1> DEFINE P == 1 .. max + 3
           t == Lead(max, src, ls)
           m == MovesNow(max, src, ls)
           s == MovesThen(max, src)
<1>1. max \in Nat /\ src \in Seq(Instr) /\ Len(src) <= max /\ Aimed(src)
  BY DEF Source
<1>2. MovesOf(max, src, t, m) /\ MovesOf(max, src, Before(src), s)
  BY <1>1, MovesNowAre, MovesThenAre
<1>3. ASSUME NEW j \in JumpsIn(src), ~src[j].dead PROVE t[j] = Before(src)[j] /\ t[j] \in P
  <2>1. PICK k : k = Before(src)[j]
    OBVIOUS
  <2>2. k \in LabelsIn(src) /\ src[k].to = src[j].to
    BY <1>1, <2>1, BeforeIs
  <2>3. ls[src[j].to].name = src[k].to
    BY <2>2 DEF Named
  <2>4. t[j] = k
    BY <1>1, <1>3, <2>2, <2>3, LeadAlike
  <2>5. k \in P
    BY <1>1, <2>2 DEF LabelsIn
  <2>6. QED BY <2>1, <2>4, <2>5
<1>4. m \in [P -> P] /\ s \in [P -> P]
  BY <1>2 DEF MovesOf
<1>5. ASSUME NEW p \in P PROVE m[p] = s[p]
  <2>1. CASE p \in DOMAIN src
    <3>1. Jumps(src[p]) => p \in JumpsIn(src) /\ ~src[p].dead
      BY <2>1 DEF Jumps, JumpsIn
    <3>2. m[p] = IF Shows(src[p]) THEN p ELSE IF Jumps(src[p]) THEN t[p] ELSE p + 1
      BY <1>2, <2>1 DEF MovesOf
    <3>3. s[p] = IF Shows(src[p]) THEN p ELSE IF Jumps(src[p]) THEN Before(src)[p] ELSE p + 1
      BY <1>2, <2>1 DEF MovesOf
    <3>4. QED BY <1>3, <3>1, <3>2, <3>3
  <2>2. CASE p \notin DOMAIN src
    BY <1>2, <2>2 DEF MovesOf
  <2>3. QED BY <2>1, <2>2
<1> HIDE DEF m, s, t
<1>6. m = s
  <2> HIDE DEF P
  <2>1. m = [p \in P |-> m[p]] /\ s = [p \in P |-> s[p]]
    BY <1>4
  <2>2. QED BY <1>5, <2>1
<1>7. \A p \in P : m[p] \in P /\ Alike(s, p, m, p)
  BY <1>4, <1>6 DEF Alike
<1>8. \A p \in DOMAIN src : p + 1 \in P
  BY <1>1
<1>9. \A p \in JumpsIn(src) : Shows(src[p]) => t[p] \in P /\ Alike(s, Before(src)[p], m, t[p])
  BY <1>3, <1>6 DEF Shows, Alike
<1>10. P \subseteq P /\ 1 \in P
  BY <1>1
<1> HIDE DEF P
<1>11. Kept(max, src, src, ls, P)
  BY <1>7, <1>8, <1>9, <1>10 DEF Kept, P, m, s, t, MovesNow, MovesThen
<1>12. QED BY <1>11 DEF P

LEMMA StartMeans == ASSUME IInv, NInv, IInv', NInv', Start PROVE MInv'
<1>1. /\ phase = "emit" /\ phase' = "pass" /\ ta_code' = source /\ source' = source
      /\ at' = 1 /\ goto2' = None /\ label2' = None /\ fault' = fault /\ MaxCode' = MaxCode
  BY DEF IInv, Start, MaxCode
<1>2. bound \in Bounds /\ Written(source, MaxCode) /\ Labelled(source) /\ MaxCode \in Nat
  BY <1>1, MaxCodeNat DEF IInv, NInv
<1>3. source \in Seq(Instr) /\ Len(source) <= MaxCode
  BY <1>2 DEF Written
<1>4. Coded(source, labels')
  BY <1>1 DEF IInv
<1>5. Aimed(source)
  <2> DEFINE c == Cardinality(LabelsIn(source))
  <2>1. Wanted(source) <= c
    BY DEF Start
  <2>2. c \in Nat
    <3>1. LabelsIn(source) \in SUBSET DOMAIN source
      BY DEF LabelsIn
    <3>2. QED BY <1>3, <3>1, PlacesFinite
  <2>3. ASSUME NEW j \in JumpsIn(source) PROVE source[j].to \in 1 .. c
    <3>1. source[j].to <= Wanted(source) /\ source[j].to \in 1 .. MaxCode /\ Wanted(source) \in Nat
      BY <1>2, <1>3, <2>3, WantedBounds DEF Written
    <3> HIDE DEF c
    <3>2. QED BY <1>2, <2>1, <2>2, <3>1
  <2>4. QED BY <1>2, <2>3 DEF Labelled, Aimed
<1>6. SameShape(source, source) /\ Passed(source, 1, None, None)
  BY <1>3 DEF SameShape, Passed
<1>7. ASSUME fault = "none"
      PROVE  \E G : Kept(MaxCode, source, source, labels', G) /\ Ahead(MaxCode, 1, None, G)
  <2>1. Named(source, labels', 1)
    BY <1>1, <1>7 DEF NInv
  <2>2. Source(MaxCode, source) /\ \A k \in LabelsIn(source) : ~source[k].dead
    BY <1>2, <1>3, <1>5 DEF Source, Labelled
  <2>3. Kept(MaxCode, source, source, labels', 1 .. MaxCode + 3)
    BY <1>4, <2>1, <2>2, KeptAtFirst
  <2>4. Ahead(MaxCode, 1, None, 1 .. MaxCode + 3)
    BY DEF Ahead
  <2>5. QED BY <2>3, <2>4
<1>8. QED BY <1>1, <1>3, <1>5, <1>6, <1>7 DEF MInv

LEMMA FinishMeans == ASSUME MInv, Finish PROVE MInv'
<1>1. phase = "pass" /\ phase' = "done" /\ MaxCode' = MaxCode
      /\ UNCHANGED <<source, ta_code, labels, at, goto2, label2, fault>>
  BY DEF Finish, MaxCode
<1>2. QED BY <1>1 DEF MInv

LEMMA StutterMeans == ASSUME MInv, UNCHANGED vars PROVE MInv'
<1>1. MaxCode' = MaxCode /\ UNCHANGED <<source, ta_code, labels, at, goto2, label2, fault, phase>>
  BY DEF vars, MaxCode
<1>2. QED BY <1>1 DEF MInv

LEMMA NextMeans == ASSUME IInv, NInv, MInv, [Next]_vars PROVE MInv'
<1>1. IInv' /\ NInv'
  BY NextIInv, NextNames
<1>2. CASE Emit
  BY <1>2 DEF Emit, MInv
<1>3. QED BY <1>1, <1>2, StartMeans, SkipDeadMeans, DropJumpMeans, DropOtherMeans, MergeLabelMeans, KeepLabelMeans,
             KeepQuadMeans, KeepJumpMeans, FinishMeans, StutterMeans DEF Next, Done

LEMMA SpecMeans == Spec => []MInv
<1>1. Init => MInv
  BY DEF Init, MInv
<1>2. QED BY <1>1, SpecIInv, SpecNames, NextMeans, PTL DEF Spec

(***************************************************************************)
(* What the code does.                                                     *)
(***************************************************************************)
LEMMA MovesAre ==
    ASSUME MaxCode \in Nat
    PROVE  /\ Moves(source, TargetBefore) = MovesThen(MaxCode, source)
           /\ Moves(ta_code, TargetAfter) = MovesNow(MaxCode, ta_code, labels)
           /\ TargetBefore = Before(source) /\ TargetAfter = Lead(MaxCode, ta_code, labels)
<1>1. TargetBefore = Before(source)
  BY DEF TargetBefore, Before
<1>2. TargetAfter = Lead(MaxCode, ta_code, labels)
  BY DEF TargetAfter, Lead, Printing, Undefined
<1>3. \A code, target : Moves(code, target) = Onto(MaxCode, code, target)
  BY DEF Moves, Onto, End, Undefined
<1>4. QED BY <1>1, <1>2, <1>3 DEF MovesThen, MovesNow

\* Alike places go on to the same end.
LEMMA AlikeOnward ==
    ASSUME MaxCode \in Nat, NEW s \in [Places -> Places], NEW m \in [Places -> Places],
           \A q \in Places : (s[q] # q => q \in 1 .. MaxCode) /\ (m[q] # q => q \in 1 .. MaxCode),
           NEW G \in SUBSET Places, \A p \in G : m[p] \in G /\ (m[p] = p <=> s[p] = p),
           NEW q \in Places, NEW p \in G, Alike(s, q, m, p)
    PROVE  /\ Onward(s, q) = Onward(m, p) /\ Onward(s, q) \in Places
           /\ Onward(s, q) # Spinning => Onward(s, q) \in G /\ s[Onward(s, q)] = Onward(s, q)
<1> DEFINE a == Onward(s, q)
           b == Onward(m, p)
<1>1. /\ a \in Places /\ b \in Places
      /\ a # Spinning => s[a] = a /\ q \in To(s, a)
      /\ b # Spinning => m[b] = b /\ p \in To(m, b)
      /\ \A f \in Places : s[f] = f /\ q \in To(s, f) => a = f
      /\ \A f \in Places : m[f] = f /\ p \in To(m, f) => b = f
  BY OnwardEnds
<1> HIDE DEF a, b
<1>2. \A f \in Places : s[f] = f => (q \in To(s, f) <=> p \in To(m, f))
  BY DEF Alike
<1>3. \A f \in Places : p \in To(m, f) => f \in G
  BY ToWithin
<1>4. CASE a # Spinning
  <2>1. p \in To(m, a) /\ a \in G /\ s[a] = a
    BY <1>1, <1>2, <1>3, <1>4
  <2>2. b = a
    BY <1>1, <2>1
  <2>3. QED BY <1>1, <2>1, <2>2 DEF a, b
<1>5. CASE a = Spinning
  <2> SUFFICES ASSUME b # Spinning PROVE FALSE
    BY <1>1, <1>5 DEF a, b
  <2>1. b \in G /\ m[b] = b /\ p \in To(m, b)
    BY <1>1, <1>3
  <2>2. s[b] = b
    BY <2>1
  <2>3. a = b
    BY <1>1, <1>2, <2>1, <2>2
  <2>4. QED BY <1>5, <2>3
<1>6. QED BY <1>4, <1>5

\* The sets that Reached goes through.
LEMMA ReachedIn ==
    ASSUME MaxCode \in Nat, NEW s, NEW R, Onward(s, 1) \in R,
           \A p \in R \cap (1 .. MaxCode), x \in BOOLEAN : After(source, TargetBefore, s, p, x) \in R
    PROVE  Reached(s) \subseteq R \cap (1 .. MaxCode)
<1> DEFINE F(f) == f = [n \in 0 .. MaxCode |-> IF n = 0 THEN {Onward(s, 1)} ELSE Further(s, f[n - 1])]
           D == [k \in 1 .. MaxCode |-> [r \in SUBSET R |-> Further(s, r)]]
<1>1. \A r \in SUBSET R : Further(s, r) \in SUBSET R
  BY DEF Further
<1>2. D \in [1 .. MaxCode -> [SUBSET R -> SUBSET R]]
  BY <1>1
<1>3. PICK g \in [0 .. MaxCode -> SUBSET R] : Follows(g, {Onward(s, 1)}, D, MaxCode)
  <2> HIDE DEF D
  <2>1. {Onward(s, 1)} \in SUBSET R
    OBVIOUS
  <2>2. QED BY <1>2, <2>1, Recursion
<1>4. g[0] = {Onward(s, 1)} /\ \A k \in 1 .. MaxCode : g[k] = Further(s, g[k - 1])
  <2>1. \A k \in 1 .. MaxCode : k - 1 \in 0 .. MaxCode
    OBVIOUS
  <2>2. \A k \in 1 .. MaxCode : D[k][g[k - 1]] = Further(s, g[k - 1])
    BY <2>1
  <2> HIDE DEF D
  <2>3. QED BY <1>3, <2>2 DEF Follows
<1>5. F(g)
  BY <1>3, <1>4
<1>6. PICK h : h = CHOOSE f : F(f)
  OBVIOUS
<1>7. F(h)
  <2> HIDE DEF F
  <2>1. QED BY <1>5, <1>6, Zenon
<1>8. h[0] = {Onward(s, 1)} /\ \A k \in 1 .. MaxCode : h[k] = Further(s, h[k - 1])
  <2>1. \A k \in 0 .. MaxCode : h[k] = IF k = 0 THEN {Onward(s, 1)} ELSE Further(s, h[k - 1])
    BY <1>7
  <2>2. 0 \in 0 .. MaxCode /\ \A k \in 1 .. MaxCode : k \in 0 .. MaxCode /\ k # 0
    OBVIOUS
  <2> HIDE DEF F, D
  <2>3. QED BY <2>1, <2>2
<1>9. 0 .. MaxCode \subseteq {k \in 0 .. MaxCode : h[k] \in SUBSET R}
  <2> DEFINE Q == {k \in 0 .. MaxCode : h[k] \in SUBSET R}
  <2>1. 0 \in Q
    BY <1>8
  <2>2. \A k \in 1 .. MaxCode : k - 1 \in Q => k \in Q
    BY <1>1, <1>8
  <2>3. 0 .. MaxCode \subseteq Q
    <3> HIDE DEF Q
    <3>1. QED BY <2>1, <2>2, Upwards
  <2>4. QED BY <2>3
<1>10. h[MaxCode] \subseteq R
  BY <1>9
<1>11. Reached(s) = h[MaxCode] \cap (1 .. MaxCode)
  BY <1>6, Zenon DEF Reached
<1>12. QED BY <1>10, <1>11

\* Code that means in G what it meant before does the same.
LEMMA MeaningIsKept ==
    ASSUME NEW p1, Source(MaxCode, source), Stage(source, ta_code, labels, p1),
           NEW G, Kept(MaxCode, source, ta_code, labels, G),
           phase = "done", fault = "none"
    PROVE  MeaningKept
<1> DEFINE s == Moves(source, TargetBefore)
           m == Moves(ta_code, TargetAfter)
           R == {p \in Places : p \in 1 .. MaxCode => p \in G \cap DOMAIN ta_code /\ Shows(ta_code[p])}
<1>1. /\ MaxCode \in Nat /\ source \in Seq(Instr) /\ Len(source) <= MaxCode /\ Aimed(source)
      /\ Coded(ta_code, labels) /\ Named(ta_code, labels, p1) /\ SameShape(source, ta_code)
      /\ ta_code \in Seq(Instr) /\ Len(ta_code) <= MaxCode
  BY DEF Source, Stage, SameShape
<1>2. DOMAIN ta_code = DOMAIN source /\ JumpsIn(ta_code) = JumpsIn(source) /\ LabelsIn(source) \subseteq DOMAIN source
  BY <1>1, SameShapePlaces DEF LabelsIn
<1>3. /\ s = MovesThen(MaxCode, source) /\ m = MovesNow(MaxCode, ta_code, labels)
      /\ TargetBefore = Before(source) /\ TargetAfter = Lead(MaxCode, ta_code, labels)
  BY <1>1, MovesAre
<1>4. MovesOf(MaxCode, source, TargetBefore, s) /\ MovesOf(MaxCode, ta_code, TargetAfter, m)
  BY <1>1, <1>3, MovesNowAre, MovesThenAre
<1> HIDE DEF s, m
<1>5. /\ G \in SUBSET Places /\ 1 \in G
      /\ \A p \in G : m[p] \in G /\ Alike(s, p, m, p)
      /\ \A p \in G \cap DOMAIN ta_code : (Shows(source[p]) <=> Shows(ta_code[p])) /\ (Shows(ta_code[p]) => p + 1 \in G)
      /\ \A p \in G \cap JumpsIn(ta_code) : Shows(ta_code[p]) =>
            /\ TargetAfter[p] \in G /\ Alike(s, TargetBefore[p], m, TargetAfter[p])
            /\ \A x \in BOOLEAN : Takes(source[p], x) = Takes(ta_code[p], x)
  BY <1>3 DEF Kept, MovesThen, MovesNow, Places, Undefined
<1>6. /\ s \in [Places -> Places] /\ m \in [Places -> Places]
      /\ \A q \in Places : (s[q] # q => q \in 1 .. MaxCode) /\ (m[q] # q => q \in 1 .. MaxCode)
  BY <1>4 DEF MovesOf, Places, Undefined
<1>7. ASSUME NEW p \in G PROVE m[p] = p <=> s[p] = p
  <2>1. CASE p \in DOMAIN ta_code
    BY <1>2, <1>4, <1>5, <2>1 DEF MovesOf
  <2>2. CASE p \notin DOMAIN ta_code
    <3>1. p \in 1 .. MaxCode + 3
      BY <1>5 DEF Places, Undefined
    <3>2. s[p] = m[p]
      BY <1>2, <1>4, <2>2, <3>1 DEF MovesOf
    <3>3. QED BY <3>2
  <2>3. QED BY <2>1, <2>2
<1>8. ASSUME NEW q \in Places, NEW p \in G, Alike(s, q, m, p) PROVE Onward(s, q) = Onward(m, p) /\ Onward(s, q) \in R
  <2> DEFINE a == Onward(s, q)
  <2>1. a = Onward(m, p) /\ a \in Places /\ (a # Spinning => a \in G /\ s[a] = a)
    <3>1. \A i \in G : m[i] \in G /\ (m[i] = i <=> s[i] = i)
      BY <1>5, <1>7
    <3>2. G \in SUBSET Places /\ MaxCode \in Nat
      BY <1>1, <1>5
    <3> HIDE DEF R
    <3>3. QED BY <1>6, <1>8, <3>1, <3>2, AlikeOnward
  <2> HIDE DEF a
  <2>2. ASSUME a \in 1 .. MaxCode PROVE a \in G \cap DOMAIN ta_code /\ Shows(ta_code[a])
    <3>1. a \in G /\ s[a] = a
      BY <1>1, <2>1, <2>2 DEF Spinning
    <3>2. m[a] = a
      BY <1>7, <3>1
    <3>3. a \in DOMAIN ta_code
      <4> SUFFICES ASSUME a \notin DOMAIN ta_code PROVE FALSE
        OBVIOUS
      <4>1. a \in 1 .. MaxCode + 3 /\ ~(a > MaxCode) /\ a # MaxCode + 1
        BY <1>1, <2>2
      <4>2. m[a] = MaxCode + 1
        BY <1>4, <4>1 DEF MovesOf
      <4>3. QED BY <3>2, <4>1, <4>2
    <3>4. QED BY <1>4, <3>1, <3>2, <3>3 DEF MovesOf
  <2>3. a \in R
    BY <2>1, <2>2
  <2>4. QED BY <2>1, <2>3 DEF a
<1>9. ASSUME NEW p \in R \cap (1 .. MaxCode), NEW x \in BOOLEAN
      PROVE  /\ Shows(ta_code[p])
             /\ After(ta_code, TargetAfter, m, p, x) = After(source, TargetBefore, s, p, x)
             /\ After(source, TargetBefore, s, p, x) \in R
  <2>1. p \in G \cap DOMAIN ta_code /\ Shows(ta_code[p]) /\ p + 1 \in G
    BY <1>5
  <2>2. ta_code[p].kind = source[p].kind
    BY <1>1, <1>2, <2>1 DEF SameShape
  <2>3. Takes(source[p], x) = Takes(ta_code[p], x)
    <3>1. CASE p \in JumpsIn(ta_code)
      BY <1>5, <2>1, <3>1
    <3>2. CASE p \notin JumpsIn(ta_code)
      <4>1. ta_code[p].kind # "goto" /\ source[p].kind # "goto"
        BY <2>1, <2>2, <3>2 DEF JumpsIn
      <4>2. QED BY <4>1 DEF Takes
    <3>3. QED BY <3>1, <3>2
  <2>4. CASE Takes(source[p], x)
    <3>1. p \in G \cap JumpsIn(ta_code)
      BY <2>1, <2>2, <2>4 DEF Takes, JumpsIn
    <3>2. TargetAfter[p] \in G /\ Alike(s, TargetBefore[p], m, TargetAfter[p])
      BY <1>5, <2>1, <3>1
    <3>3. TargetBefore[p] \in Places
      <4>1. TargetBefore[p] \in LabelsIn(source)
        BY <1>1, <1>2, <1>3, <3>1, BeforeIs
      <4>2. TargetBefore[p] \in 1 .. MaxCode
        BY <1>1, <1>2, <4>1
      <4>3. QED BY <1>1, <4>2, PlacesAre
    <3>4. Onward(s, TargetBefore[p]) = Onward(m, TargetAfter[p]) /\ Onward(s, TargetBefore[p]) \in R
      BY <1>8, <3>2, <3>3
    <3> HIDE DEF R
    <3>5. QED BY <2>1, <2>3, <2>4, <3>4 DEF After
  <2>5. CASE ~Takes(source[p], x)
    <3>1. p + 1 \in Places /\ Alike(s, p + 1, m, p + 1)
      BY <1>5, <2>1
    <3>2. Onward(s, p + 1) = Onward(m, p + 1) /\ Onward(s, p + 1) \in R
      BY <1>8, <2>1, <3>1
    <3> HIDE DEF R
    <3>3. QED BY <2>1, <2>3, <2>5, <3>2 DEF After
  <2>6. QED BY <2>4, <2>5
<1>10. Onward(s, 1) = Onward(m, 1) /\ Onward(s, 1) \in R
  BY <1>5, <1>8
<1> HIDE DEF R
<1>11. Reached(s) \subseteq R \cap (1 .. MaxCode)
  BY <1>1, <1>9, <1>10, ReachedIn
<1>12. \A p \in Reached(s) : /\ Shows(ta_code[p])
                             /\ \A x \in BOOLEAN : After(ta_code, TargetAfter, m, p, x) = After(source, TargetBefore, s, p, x)
  BY <1>9, <1>11
<1>13. QED BY <1>10, <1>12 DEF MeaningKept, s, m

(***************************************************************************)
(* The theorems.                                                           *)
(***************************************************************************)

\* A label's name is always one of the function's own, and the iterator and
\* the pointers to what it passed stay within the function: 3ac.cpp never
\* follows goto2 or label2 to a place behind the code.
THEOREM SpecTypeOK == Spec => []TypeOK
<1>1. IInv => TypeOK
  <2> SUFFICES ASSUME IInv PROVE TypeOK
    OBVIOUS
  <2>1. bound \in Bounds /\ phase \in {"emit", "pass", "done"} /\ fault \in {"none", "name"}
    BY DEF IInv
  <2>2. MaxCode \in Nat
    BY <2>1, MaxCodeNat
  <2>3. CASE phase = "emit"
    <3>1. labels = <<>> /\ at = 1 /\ goto2 = None /\ label2 = None
      BY <2>3 DEF IInv
    <3>2. QED BY <2>1, <2>2, <3>1 DEF TypeOK, None
  <2>4. CASE phase # "emit"
    <3>1. Coded(ta_code, labels) /\ Len(ta_code) <= MaxCode /\ Placed(ta_code, at, goto2, label2)
      BY <2>4 DEF IInv
    <3>2. Len(ta_code) \in Nat
      BY <3>1 DEF Coded
    <3>3. at \in 1 .. MaxCode + 1 /\ goto2 \in 0 .. MaxCode /\ label2 \in 0 .. MaxCode
      BY <2>2, <3>1, <3>2 DEF Placed
    <3>4. \A n \in DOMAIN labels : labels[n].name \in DOMAIN labels /\ labels[n].refs \in Int
      BY <3>1 DEF Coded, Entries
    <3>5. QED BY <2>1, <3>3, <3>4 DEF TypeOK
  <2>5. QED BY <2>3, <2>4
<1>2. QED BY <1>1, SpecIInv, PTL

\* A label ahead of the walk is counted for every jump that still leads to it,
\* through merging, renaming and removal, so that one whose count has reached
\* zero can go.
THEOREM SpecCountsCover == Spec => []CountsCover
<1>1. IInv => CountsCover
  BY DEF IInv, CountsCover, Covered, Leading
<1>2. QED BY <1>1, SpecIInv, PTL

\* A jump that stays is never left to a label that is not printed: merging,
\* renaming and removal may take any number of labels away, but of every name
\* that a jump prints one stays, until a label is renamed that another has
\* copied its name from.
THEOREM SpecNamesPrinted == Spec => []NamesPrinted
<1>1. IInv /\ NInv => NamesPrinted
  <2> SUFFICES ASSUME IInv, NInv, phase = "done", fault = "none", NEW j \in JumpsIn(ta_code), ~ta_code[j].dead
               PROVE  TargetAfter[j] # Undefined
    BY DEF NamesPrinted
  <2> DEFINE printed == {k \in LabelsIn(ta_code) : ~ta_code[k].dead
                                              /\ labels[ta_code[k].to].name = labels[ta_code[j].to].name}
  <2>1. Named(ta_code, labels, at) /\ Coded(ta_code, labels) /\ bound \in Bounds /\ Len(ta_code) <= MaxCode
    BY DEF IInv, NInv
  <2>2. MaxCode \in Nat /\ ta_code \in Seq(Instr)
    BY <2>1, MaxCodeNat DEF Coded
  <2>3. printed \in SUBSET (1 .. MaxCode)
    BY <2>1, <2>2 DEF LabelsIn
  <2>4. PICK k \in LabelsIn(ta_code) : ~ta_code[k].dead /\ ta_code[k].to = labels[ta_code[j].to].name
    BY <2>1 DEF Named, Printed
  <2>5. k \in printed
    BY <2>1, <2>4 DEF Named
  <2>6. TargetAfter[j] = Min(printed)
    BY <2>5 DEF TargetAfter
  <2> HIDE DEF printed
  <2>7. Min(printed) \in 1 .. MaxCode
    <3>1. printed \in SUBSET Nat /\ printed # {}
      BY <2>2, <2>3, <2>5
    <3>2. Min(printed) \in printed
      BY <3>1, MinIsIn
    <3>3. QED BY <2>3, <3>2
  <2>8. QED BY <2>2, <2>6, <2>7 DEF Undefined
<1>2. QED BY <1>1, SpecIInv, SpecNames, PTL

\* What the code does stays what it was: from its beginning, and from every
\* place it comes to that shows, it goes on to the same place whichever way a
\* jump's variable falls, for functions of any length, however many labels are
\* merged or renamed and however many jumps go.
THEOREM SpecMeaningKept == Spec => []MeaningKept
<1>1. IInv /\ NInv /\ MInv => MeaningKept
  <2> SUFFICES ASSUME IInv, NInv, MInv, phase = "done", fault = "none" PROVE MeaningKept
    BY DEF MeaningKept
  <2>1. /\ source \in Seq(Instr) /\ Len(source) <= MaxCode /\ Aimed(source) /\ SameShape(source, ta_code)
        /\ \E G : Kept(MaxCode, source, ta_code, labels, G)
    BY DEF MInv
  <2>2. MaxCode \in Nat /\ Coded(ta_code, labels) /\ Named(ta_code, labels, at)
    BY MaxCodeNat DEF IInv, NInv
  <2>3. Source(MaxCode, source) /\ Stage(source, ta_code, labels, at)
    BY <2>1, <2>2 DEF Source, Stage
  <2>4. QED BY <2>1, <2>3, MeaningIsKept
<1>2. QED BY <1>1, SpecIInv, SpecNames, SpecMeans, PTL
=============================================================================
