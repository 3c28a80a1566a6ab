----------------------------- MODULE FoldProofs -----------------------------
(***************************************************************************)
(* TypeOK, NoTempLost and MeaningKept are invariants of Fold for blocks of *)
(* any length over any constants: the optimiser's block, run beside the    *)
(* text's, always holds the same values in the variables and in the        *)
(* addresses that are still to be read.                                    *)
(***************************************************************************)
EXTENDS Fold, WellFoundedInduction, TLAPS

(***************************************************************************)
(* A set of numbers that has 0, and k if it has k - 1, has all; and what   *)
(* is defined for 0, and for k from k - 1, is defined for all.             *)
(***************************************************************************)
LEMMA LeastNumber ==
    ASSUME NEW S \in SUBSET Nat, S # {}
    PROVE  \E n \in S : \A k \in S : n <= k
<1>1. PICK n \in S : \A k \in S : ~(<<k, n>> \in OpToRel(<, Nat))
  BY NatLessThanWellFounded, WFMin
<1>2. \A j, k \in Nat : j < k => <<j, k>> \in OpToRel(<, Nat)
  BY DEF OpToRel
<1>3. \A k \in S : ~(k < n)
  BY <1>1, <1>2
<1>4. QED BY <1>3

LEMMA Upwards ==
    ASSUME NEW n \in Nat, NEW P, 0 \in P, \A k \in 1 .. n : k - 1 \in P => k \in P
    PROVE  0 .. n \subseteq P
<1> DEFINE Bad == (0 .. n) \ P
<1>1. SUFFICES ASSUME Bad # {} PROVE FALSE
  OBVIOUS
<1>2. PICK k \in Bad : \A m \in Bad : k <= m
  <2>1. Bad \in SUBSET Nat
    OBVIOUS
  <2> HIDE DEF Bad
  <2>2. QED BY <1>1, <2>1, LeastNumber
<1>3. k \in 1 .. n
  OBVIOUS
<1>4. k - 1 \in 0 .. n /\ k - 1 \notin Bad
  BY <1>2, <1>3
<1>5. QED BY <1>3, <1>4

Follows(g, c, D, k) ==
    g[0] = c /\ \A j \in 1 .. k : g[j] = D[j][g[j - 1]]

LEMMA Recursion ==
    ASSUME NEW n \in Nat, NEW S, NEW c \in S, NEW D \in [1 .. n -> [S -> S]]
    PROVE  \E g \in [0 .. n -> S] : Follows(g, c, D, n)
<1> DEFINE P == {k \in 0 .. n : \E g \in [0 .. k -> S] : Follows(g, c, D, k)}
<1>1. 0 \in P
  <2>1. [k \in 0 .. 0 |-> c] \in [0 .. 0 -> S] /\ Follows([k \in 0 .. 0 |-> c], c, D, 0)
    BY DEF Follows
  <2>2. QED BY <2>1
<1>2. ASSUME NEW k \in 1 .. n, k - 1 \in P PROVE k \in P
  <2>1. PICK g \in [0 .. k - 1 -> S] : Follows(g, c, D, k - 1)
    BY <1>2
  <2>2. g[k - 1] \in S /\ D[k][g[k - 1]] \in S
    OBVIOUS
  <2> DEFINE h == [j \in 0 .. k |-> IF j = k THEN D[k][g[k - 1]] ELSE g[j]]
  <2>3. h \in [0 .. k -> S]
    BY <2>2
  <2>4. h[0] = c /\ h[k] = D[k][g[k - 1]] /\ h[k - 1] = g[k - 1]
    BY <2>1 DEF Follows
  <2>5. \A j \in 1 .. k : h[j] = D[j][h[j - 1]]
    <3> TAKE j \in 1 .. k
    <3>1. CASE j = k
      BY <2>4, <3>1
    <3>2. CASE j # k
      <4>1. j \in 1 .. k - 1 /\ h[j] = g[j] /\ h[j - 1] = g[j - 1]
        BY <3>2
      <4>2. QED BY <2>1, <4>1 DEF Follows
    <3>3. QED BY <3>1, <3>2
  <2> HIDE DEF h
  <2>6. Follows(h, c, D, k)
    BY <2>4, <2>5 DEF Follows
  <2>7. QED BY <2>3, <2>6
<1>3. n \in P
  <2> HIDE DEF P
  <2>1. 0 .. n \subseteq P
    BY <1>1, <1>2, Upwards
  <2>2. n \in 0 .. n
    OBVIOUS
  <2>3. QED BY <2>1, <2>2
<1>4. QED BY <1>3

(***************************************************************************)
(* Names, and what the operations compute.                                 *)
(***************************************************************************)
LEMMA Naming ==
    /\ \A c : Number(c)[1] = "number" /\ Number(c)[2] = c
    /\ \A v : VariableId(v)[1] = "variable" /\ VariableId(v)[2] = v
    /\ \A k : TempId(k)[1] = "temporary" /\ TempId(k)[2] = k
    /\ NoId[1] = "none" /\ NoId = <<"none", 0>>
BY DEF Number, VariableId, TempId, NoId

Numerals  == {Number(c) : c \in Int}
Words     == {"variable", "temporary"} \X Nat     \* what the text and new_temp call them
Addresses == [con : BOOLEAN, name : Numerals \cup Words, table_id : Ids \cup {NoId}]

\* An address is a constant, or denotes a variable or temporary, which is not
\* called as a number is unless it was renamed.
Sane(a) ==
    /\ a \in Addresses
    /\ a.con => a.name \in Numerals /\ a.table_id = NoId
    /\ ~a.con => a.table_id \in Ids

Clean(a) == ~a.con => a.name \in Words

LEMMA Distinct ==
    /\ \A i \in Ids : i \notin Numerals /\ i # NoId /\ (i[1] = "variable" \/ i[1] = "temporary")
    /\ \A c : Number(c) \notin Ids /\ Number(c) \notin Words
    /\ \A v, k : VariableId(v) # TempId(k) /\ NoId # TempId(k) /\ NoId # VariableId(v)
    /\ \A j, k : TempId(j) = TempId(k) => j = k
    /\ \A v, w : VariableId(v) = VariableId(w) => v = w
    /\ \A c, d : Number(c) = Number(d) => c = d
<1>1. \A i \in Ids : i[1] = "variable" \/ i[1] = "temporary"
  BY Naming DEF Ids
<1>2. \A i \in Numerals : i[1] = "number"
  BY Naming DEF Numerals
<1>3. \A i \in Ids : i \notin Numerals /\ i # NoId
  BY <1>1, <1>2, Naming
<1>4. \A c : Number(c) \notin Ids /\ Number(c) \notin Words
  BY <1>1, Naming DEF Words
<1>5. QED BY <1>1, <1>3, <1>4, Naming

LEMMA Leaves0 ==
    ASSUME bound \in Bounds
    PROVE
    /\ \A c \in Int : Sane(Constant(c)) /\ Clean(Constant(c)) /\ Constant(c).con /\ Value(Constant(c)) = c
    /\ \A v \in Vars : Sane(Variable(v)) /\ Clean(Variable(v)) /\ ~Variable(v).con
    /\ \A k \in 1 .. 3 * MaxCode : Sane(Temp(k)) /\ Clean(Temp(k)) /\ ~Temp(k).con
<1>1. \A c \in Int : Constant(c) \in Addresses /\ Number(c) \in Numerals
  BY DEF Constant, Addresses, Numerals
<1>2. \A v \in Vars : VariableId(v) \in Ids
  BY DEF Ids
<1>3. \A k \in 1 .. 3 * MaxCode : TempId(k) \in Ids
  BY DEF Ids
<1>4. \A v \in Vars : VariableName(v) \in Words /\ Variable(v) \in Addresses
  BY <1>2, FoldAssumption DEF Variable, VariableName, Words, Addresses
<1>5. \A k \in 1 .. 3 * MaxCode : TempName(k) \in Words /\ Temp(k) \in Addresses
  BY <1>3, FoldAssumption DEF Temp, TempName, Words, Addresses, MaxCode
<1>6. QED BY <1>1, <1>2, <1>3, <1>4, <1>5, Naming DEF Sane, Clean, Constant, Variable, Temp, Value

LEMMA TargetIs ==
    /\ \A c : Constant(c).con /\ Constant(c).table_id = NoId /\ Constant(c).name = Number(c)
    /\ \A v : Variable(v).table_id = VariableId(v) /\ Variable(v).name = VariableName(v) /\ ~Variable(v).con
    /\ \A k : Temp(k).table_id = TempId(k) /\ Temp(k).name = TempName(k) /\ ~Temp(k).con
BY DEF Constant, Variable, Temp

LEMMA ValueIs == ASSUME NEW a, Sane(a), a.con PROVE Value(a) \in Int /\ a.name = Number(Value(a))
BY Naming DEF Sane, Value, Numerals

\* The powers that fit a shift.
LEMMA Powers == Pow2 \in [0 .. 30 -> Nat \ {0}]
<1> DEFINE D == [k \in 1 .. 30 |-> [p \in Nat \ {0} |-> 2 * p]]
<1>1. D \in [1 .. 30 -> [Nat \ {0} -> Nat \ {0}]]
  OBVIOUS
<1>2. PICK g \in [0 .. 30 -> Nat \ {0}] : Follows(g, 1, D, 30)
  <2>1. PICK S : S = Nat \ {0}
    OBVIOUS
  <2>2. D \in [1 .. 30 -> [S -> S]] /\ 1 \in S /\ 30 \in Nat
    BY <1>1, <2>1
  <2> HIDE DEF D
  <2>3. \E g \in [0 .. 30 -> S] : Follows(g, 1, D, 30)
    BY <2>2, Recursion
  <2>4. QED BY <2>1, <2>3
<1>3. \A k \in 0 .. 30 : g[k] = IF k = 0 THEN 1 ELSE 2 * g[k - 1]
  BY <1>2 DEF Follows
<1>4. g = [k \in 0 .. 30 |-> IF k = 0 THEN 1 ELSE 2 * g[k - 1]]
  BY <1>2, <1>3
<1>5. \A f : f = [k \in 0 .. 30 |-> IF k = 0 THEN 1 ELSE 2 * f[k - 1]] => f \in [0 .. 30 -> Nat \ {0}]
  <2>1. TAKE f
  <2>2. HAVE f = [k \in 0 .. 30 |-> IF k = 0 THEN 1 ELSE 2 * f[k - 1]]
  <2> DEFINE P == {k \in 0 .. 30 : f[k] \in Nat \ {0}}
  <2>3. 0 \in P
    BY <2>2
  <2>4. \A k \in 1 .. 30 : k - 1 \in P => k \in P
    BY <2>2
  <2>5. 0 .. 30 \subseteq P
    <3> HIDE DEF P
    <3>1. QED BY <2>3, <2>4, Upwards
  <2>6. QED BY <2>2, <2>5
<1>6. Pow2 = [k \in 0 .. 30 |-> IF k = 0 THEN 1 ELSE 2 * Pow2[k - 1]]
  BY <1>4, Zenon DEF Pow2
<1>7. QED BY <1>5, <1>6

LEMMA LogIs == ASSUME NEW n, Power(n) PROVE Log2(n) \in 0 .. 30 /\ n = Pow2[Log2(n)]
BY Zenon DEF Power, Log2

BinaryOps == {"+", "-", "*", "/", "%", "<", "<<", ">>"}

LEMMA QuotientIs ==
    ASSUME NEW x \in Int, NEW y \in Int, y # 0
    PROVE  Quotient(x, y) \in Int /\ Quotient(x, 1) = x /\ Quotient(0, y) = 0
<1>1. PICK a \in Nat : a = IF x < 0 THEN -x ELSE x
  OBVIOUS
<1>2. PICK b \in Nat : b = (IF y < 0 THEN -y ELSE y) /\ b > 0
  OBVIOUS
<1>3. a \div b \in Int /\ a \div 1 = a /\ 0 \div b = 0
  BY <1>1, <1>2
<1>4. Quotient(x, y) \in Int
  BY <1>1, <1>2, <1>3 DEF Quotient
<1>5. Quotient(x, 1) = x
  BY <1>1, <1>3 DEF Quotient
<1>6. Quotient(0, y) = 0
  BY <1>2, <1>3 DEF Quotient
<1>7. QED BY <1>4, <1>5, <1>6

LEMMA MeaningIs ==
    ASSUME NEW op \in BinaryOps, NEW x \in Int, NEW y \in Int, Defined(op, x, y)
    PROVE  Meaning(op, x, y) \in Int
<1>1. CASE op \in {"+", "-", "*", "<"}
  BY <1>1 DEF Meaning
<1>2. CASE op \in {"/", "%"}
  <2>1. y # 0
    BY <1>2 DEF Defined
  <2>2. PICK q \in Int : q = Quotient(x, y)
    BY <2>1, QuotientIs
  <2>3. QED BY <1>2, <2>2 DEF Meaning
<1>3. CASE op \in {"<<", ">>"}
  <2>1. PICK p \in Nat : p = Pow2[y] /\ p # 0
    BY <1>3, Powers DEF Defined
  <2>2. x * p \in Int /\ x \div p \in Int
    BY <2>1
  <2>3. QED BY <1>3, <2>1, <2>2 DEF Meaning
<1>4. QED BY <1>1, <1>2, <1>3 DEF BinaryOps

\* What makes the simplifications right.
LEMMA Identities ==
    ASSUME NEW x \in Int, NEW y \in Int
    PROVE  /\ Meaning("+", x, 0) = x /\ Meaning("+", 0, y) = y /\ Meaning("-", x, 0) = x
           /\ Meaning("*", x, 1) = x /\ Meaning("*", 1, y) = y /\ Meaning("*", 0, y) = 0
           /\ Meaning("/", x, 1) = x
           /\ y # 0 => Meaning("/", 0, y) = 0
           /\ Power(y) => Meaning("<<", x, Log2(y)) = Meaning("*", x, y) /\ Log2(y) \in 0 .. 30
<1>1. Meaning("+", x, 0) = x /\ Meaning("+", 0, y) = y /\ Meaning("-", x, 0) = x
  BY DEF Meaning
<1>2. Meaning("*", x, 1) = x /\ Meaning("*", 1, y) = y /\ Meaning("*", 0, y) = 0
  BY DEF Meaning
<1>3. Meaning("/", x, 1) = x
  <2>1. Quotient(x, 1) = x
    BY QuotientIs
  <2>2. QED BY <2>1 DEF Meaning
<1>4. y # 0 => Meaning("/", 0, y) = 0
  <2>1. y # 0 => Quotient(0, y) = 0
    BY QuotientIs
  <2>2. QED BY <2>1 DEF Meaning
<1>5. ASSUME Power(y) PROVE Meaning("<<", x, Log2(y)) = Meaning("*", x, y) /\ Log2(y) \in 0 .. 30
  <2>1. PICK k : k = Log2(y)
    OBVIOUS
  <2>2. k \in 0 .. 30 /\ y = Pow2[k]
    BY <1>5, <2>1, LogIs
  <2>3. Meaning("<<", x, k) = x * Pow2[k] /\ Meaning("*", x, y) = x * y
    BY DEF Meaning
  <2>4. QED BY <2>1, <2>2, <2>3
<1>6. QED BY <1>1, <1>2, <1>3, <1>4, <1>5

(***************************************************************************)
(* Code that can be run, and the states it goes through.                   *)
(***************************************************************************)
Quads  == [result : Nat, op : BinaryOps \cup {"="}, arg1 : Nat, arg2 : Nat, dead : BOOLEAN]
States == [ok : BOOLEAN, mem : [Ids -> Int]]

\* A quad whose places have addresses, and whose result is not a constant.
Runs(q, h) ==
    /\ q \in Quads
    /\ ~q.dead => /\ Sane(h[q.arg1])
                  /\ q.arg2 # None => Sane(h[q.arg2]) /\ q.op \in BinaryOps
                  /\ h[q.result].table_id \in Ids

Value1(q, h, s) == Read(s.mem, h[q.arg1])
Value2(q, h, s) == Read(s.mem, h[q.arg2])
Means(q, h, s)  == q.arg2 = None \/ Defined(q.op, Value1(q, h, s), Value2(q, h, s))
Yields(q, h, s) == IF q.arg2 = None THEN Value1(q, h, s) ELSE Meaning(q.op, Value1(q, h, s), Value2(q, h, s))

LEMMA ReadIs ==
    ASSUME NEW a, Sane(a), NEW s \in States
    PROVE  Read(s.mem, a) \in Int
BY ValueIs DEF Sane, States, Read

LEMMA ExecuteIs ==
    ASSUME NEW h, NEW q, Runs(q, h), NEW s \in States
    PROVE  /\ Execute(q, h, s) \in States
           /\ ~s.ok \/ q.dead => Execute(q, h, s) = s
           /\ s.ok /\ ~q.dead /\ ~Means(q, h, s) => ~Execute(q, h, s).ok
           /\ s.ok /\ ~q.dead /\ Means(q, h, s) =>
                 /\ Yields(q, h, s) \in Int
                 /\ Execute(q, h, s) = [s EXCEPT !.mem[h[q.result].table_id] = Yields(q, h, s)]
<1> DEFINE x == Read(s.mem, h[q.arg1])
           y == Read(s.mem, h[q.arg2])
<1>1. CASE ~s.ok \/ q.dead
  BY <1>1 DEF Execute
<1>2. CASE s.ok /\ ~q.dead
  <2>1. x \in Int /\ (q.arg2 # None => y \in Int /\ q.op \in BinaryOps) /\ h[q.result].table_id \in Ids
    BY <1>2, ReadIs DEF Runs
  <2>2. CASE ~Means(q, h, s)
    <3>1. Execute(q, h, s) = [s EXCEPT !.ok = FALSE]
      BY <1>2, <2>2, Zenon DEF Execute, Means, Value1, Value2
    <3>2. QED BY <1>2, <2>2, <3>1 DEF States
  <2>3. CASE Means(q, h, s)
    <3>1. Yields(q, h, s) \in Int
      BY <2>1, <2>3, MeaningIs DEF Yields, Means, Value1, Value2
    <3>2. Execute(q, h, s) = [s EXCEPT !.mem[h[q.result].table_id] = Yields(q, h, s)]
      <4>1. CASE q.arg2 = None
        BY <1>2, <4>1, Zenon DEF Execute, Yields, Value1
      <4>2. CASE q.arg2 # None
        BY <1>2, <2>3, <4>2, Zenon DEF Execute, Yields, Means, Value1, Value2
      <4>3. QED BY <4>1, <4>2
    <3>3. QED BY <1>2, <2>1, <2>3, <3>1, <3>2 DEF States
  <2>4. QED BY <2>2, <2>3
<1>3. QED BY <1>1, <1>2

Runnable(h, c) == c \in Seq(Quads) /\ \A k \in 1 .. Len(c) : Runs(c[k], h)

Starts == [Vars -> Int]

LEMMA BeginningIs ==
    ASSUME NEW start \in Starts
    PROVE  /\ Beginning(start) \in States /\ Beginning(start).ok
           /\ \A v \in Vars : Beginning(start).mem[VariableId(v)] = start[v]
<1>1. \A i \in Ids : i[1] = "variable" => i[2] \in Vars
  BY Naming DEF Ids
<1>2. \A i \in Ids : (IF i[1] = "variable" THEN start[i[2]] ELSE 0) \in Int
  BY <1>1 DEF Starts
<1>3. \A v \in Vars : VariableId(v) \in Ids
  BY DEF Ids
<1>4. QED BY <1>2, <1>3, Naming DEF Beginning, States

LEMMA RunIs ==
    ASSUME NEW h, NEW c, Runnable(h, c), NEW start \in Starts
    PROVE  /\ Run(h, c, start) \in [0 .. Len(c) -> States]
           /\ Run(h, c, start)[0] = Beginning(start)
           /\ \A k \in 1 .. Len(c) : Run(h, c, start)[k] = Execute(c[k], h, Run(h, c, start)[k - 1])
<1> DEFINE n == Len(c)
           b == Beginning(start)
           D == [k \in 1 .. n |-> [s \in States |-> Execute(c[k], h, s)]]
<1>1. n \in Nat /\ b \in States
  BY BeginningIs DEF Runnable
<1>2. D \in [1 .. n -> [States -> States]]
  BY ExecuteIs DEF Runnable
<1>3. PICK g \in [0 .. n -> States] : Follows(g, b, D, n)
  <2> HIDE DEF D, b
  <2>1. QED BY <1>1, <1>2, Recursion
<1>4. \A k \in 1 .. n : k - 1 \in 0 .. n /\ g[k] = Execute(c[k], h, g[k - 1])
  <2>1. TAKE k \in 1 .. n
  <2>2. k - 1 \in 0 .. n
    <3> HIDE DEF n
    <3>1. QED BY <1>1
  <2>3. g[k - 1] \in States /\ g[k] = D[k][g[k - 1]]
    <3> HIDE DEF n, D, b
    <3>1. QED BY <1>3, <2>2 DEF Follows
  <2>4. D[k][g[k - 1]] = Execute(c[k], h, g[k - 1])
    BY <2>3
  <2>5. QED BY <2>2, <2>3, <2>4
<1>5. g = [k \in 0 .. n |-> IF k = 0 THEN b ELSE Execute(c[k], h, g[k - 1])]
  <2> HIDE DEF D, b, n
  <2>1. g[0] = b
    BY <1>3 DEF Follows
  <2>2. \A k \in 0 .. n : g[k] = IF k = 0 THEN b ELSE Execute(c[k], h, g[k - 1])
    BY <1>1, <1>4, <2>1
  <2>3. QED BY <1>3, <2>2
<1>6. PICK r : r = Run(h, c, start)
  OBVIOUS
<1>7. r = [k \in 0 .. n |-> IF k = 0 THEN b ELSE Execute(c[k], h, r[k - 1])]
  <2> DEFINE F(f) == f = [k \in 0 .. n |-> IF k = 0 THEN b ELSE Execute(c[k], h, f[k - 1])]
  <2>1. r = CHOOSE f : F(f)
    BY <1>6, Zenon DEF Run
  <2>2. F(g)
    BY <1>5
  <2> HIDE DEF F
  <2>3. F(r)
    BY <2>1, <2>2, Zenon
  <2>4. QED BY <2>3 DEF F
<1>8. /\ r[0] = b
      /\ \A k \in 1 .. n : k \in 0 .. n /\ r[k] = Execute(c[k], h, r[k - 1])
      /\ DOMAIN r = 0 .. n
  <2> HIDE DEF b, n
  <2>1. QED BY <1>1, <1>7
<1>9. \A k \in 0 .. n : r[k] = g[k]
  <2> DEFINE P == {k \in 0 .. n : r[k] = g[k]}
  <2> HIDE DEF n, b, D
  <2>1. 0 \in P
    BY <1>1, <1>3, <1>8 DEF Follows
  <2>2. \A k \in 1 .. n : k - 1 \in P => k \in P
    BY <1>1, <1>4, <1>8
  <2>3. 0 .. n \subseteq P
    <3> HIDE DEF P
    <3>1. QED BY <1>1, <2>1, <2>2, Upwards
  <2>4. QED BY <2>3
<1>10. r \in [0 .. n -> States]
  <2> HIDE DEF n, b, D
  <2>1. r = [k \in 0 .. n |-> r[k]]
    BY <1>7
  <2>2. QED BY <1>3, <1>9, <2>1
<1>11. QED BY <1>6, <1>8, <1>10

\* What a quad does depends on the quad and its operands' addresses, and on
\* the number its result has.
Alike(q, h, g) ==
    ~q.dead => /\ h[q.arg1] = g[q.arg1] /\ (q.arg2 # None => h[q.arg2] = g[q.arg2])
               /\ h[q.result].table_id = g[q.result].table_id

LEMMA ExecuteSame ==
    ASSUME NEW q, NEW h, NEW g, NEW s, Alike(q, h, g)
    PROVE  Execute(q, h, s) = Execute(q, g, s)
<1>1. CASE ~s.ok \/ q.dead
  BY <1>1 DEF Execute
<1>2. CASE s.ok /\ ~q.dead /\ q.arg2 = None
  BY <1>2 DEF Execute, Alike
<1>3. CASE s.ok /\ ~q.dead /\ q.arg2 # None
  BY <1>3 DEF Execute, Alike
<1>4. QED BY <1>1, <1>2, <1>3

LEMMA RunSame ==
    ASSUME NEW h, NEW c, Runnable(h, c), NEW g, NEW d, Runnable(g, d), NEW start \in Starts,
           NEW m \in Nat, m <= Len(c), m <= Len(d),
           \A k \in 1 .. m : c[k] = d[k] /\ Alike(c[k], h, g)
    PROVE  Run(h, c, start)[m] = Run(g, d, start)[m]
<1> DEFINE r == Run(h, c, start)
           t == Run(g, d, start)
           P == {k \in 0 .. m : r[k] = t[k]}
<1>1. /\ r[0] = Beginning(start) /\ t[0] = Beginning(start)
      /\ \A k \in 1 .. Len(c) : r[k] = Execute(c[k], h, r[k - 1])
      /\ \A k \in 1 .. Len(d) : t[k] = Execute(d[k], g, t[k - 1])
  BY RunIs
<1>2. Len(c) \in Nat /\ Len(d) \in Nat
  BY DEF Runnable
<1> HIDE DEF r, t
<1>3. 0 \in P
  BY <1>1
<1>4. ASSUME NEW k \in 1 .. m, k - 1 \in P PROVE k \in P
  <2>1. r[k - 1] = t[k - 1] /\ k \in 1 .. Len(c) /\ k \in 1 .. Len(d)
    BY <1>2, <1>4
  <2>2. Execute(c[k], h, r[k - 1]) = Execute(c[k], g, r[k - 1])
    BY ExecuteSame
  <2>3. QED BY <1>1, <2>1, <2>2
<1>5. 0 .. m \subseteq P
  <2> HIDE DEF P
  <2>1. QED BY <1>3, <1>4, Upwards
<1>6. m \in P
  BY <1>5
<1>7. QED BY <1>6 DEF r, t

(***************************************************************************)
(* The invariant.  Made is what the expressions guarantee of a block: a    *)
(* place is read once, by the quad it belongs to or, if it is the result   *)
(* of an operation, by a later one before anything is assigned.            *)
(***************************************************************************)
Place(k) == 3 * k - 2     \* of the k-th quad's result

Denotes(a, v)  == ~a.con /\ a.table_id = VariableId(v)
Leaf(a)        == a.con \/ \E v \in Vars : Denotes(a, v)
Computes(h, k) == h[Place(k)] = Temp(Place(k))
Assigns(h, k)  == \E v \in Vars : Denotes(h[Place(k)], v)
Reads(q)       == {q.arg1, q.arg2} \ {None}
Bounded(h, p)  == \A m \in 1 .. 3 * MaxCode : h[p].table_id = TempId(m) => m <= p

Source(h, k, p) ==
    \/ p \in {3 * k - 1, 3 * k} /\ Leaf(h[p])
    \/ p = Place(k) /\ Assigns(h, k)
    \/ \E j \in 1 .. k - 1 : p = Place(j) /\ \A i \in j .. k - 1 : Computes(h, i)

MadeQuad(h, q, k) ==
    /\ q.result = Place(k) /\ ~q.dead
    /\ Computes(h, k) \/ Assigns(h, k)
    /\ \A p \in Reads(q) : Source(h, k, p)
    /\ q.arg1 # None /\ q.arg1 # q.arg2 /\ q.arg2 # Place(k)
    /\ q.arg2 = None => Assigns(h, k)
    /\ q.arg2 # None => q.op \in BinaryOps /\ (Assigns(h, k) => q.arg1 = Place(k))

Made(h, c) ==
    /\ c \in Seq(Quads) /\ Len(c) <= MaxCode
    /\ h \in Seq(Addresses) /\ Len(h) = 3 * Len(c)
    /\ \A p \in 1 .. 3 * Len(c) : Sane(h[p]) /\ Clean(h[p]) /\ Bounded(h, p)
    /\ \A k \in 1 .. Len(c) : MadeQuad(h, c[k], k)
    /\ \A j, k \in 1 .. Len(c) : j # k => Reads(c[j]) \cap Reads(c[k]) = {}

\* The results that wait to be read.
Waiting ==
    \A p \in pending :
        /\ \E j \in 1 .. Len(ta_code) : p = Place(j) /\ \A i \in j .. Len(ta_code) : Computes(heap, i)
        /\ \A k \in 1 .. Len(ta_code) : p \notin Reads(ta_code[k])

SameTarget(a, b) == a.con = b.con /\ a.table_id = b.table_id

\* What the walk leaves alone: where quads read and write, all that is ahead of
\* it, and where the results of quads that live are.
WalkedQuad(k) ==
    /\ ta_code[k].result = Place(k)
    /\ ta_code[k].arg1 = before.code[k].arg1 /\ ta_code[k].arg2 = before.code[k].arg2
    /\ ta_code[k].arg2 # None => ta_code[k].op \in BinaryOps
    /\ k >= at => ta_code[k] = before.code[k] /\ \A p \in Place(k) .. 3 * k : heap[p] = before.heap[p]
    /\ ~ta_code[k].dead => SameTarget(heap[Place(k)], before.heap[Place(k)])

Walked ==
    /\ Made(before.heap, before.code)
    /\ ta_code \in Seq(Quads) /\ Len(ta_code) = Len(before.code)
    /\ heap \in [1 .. 3 * Len(ta_code) -> Addresses]
    /\ at \in 1 .. Len(ta_code) + 1
    /\ \A k \in 1 .. Len(ta_code) : WalkedQuad(k)
    /\ \A p \in 1 .. 3 * Len(ta_code) : Sane(heap[p]) /\ Bounded(heap, p)

\* NoTempLost, while the walk goes on.
Lives ==
    \A k \in 1 .. Len(ta_code) : ~ta_code[k].dead =>
        \A p \in Reads(ta_code[k]) :
            heap[p].table_id[1] = "temporary" =>
                \E j \in 1 .. k - 1 : ~ta_code[j].dead /\ heap[Place(j)].table_id = heap[p].table_id

\* The two runs up to the iterator: w of the text, n of what the walk has made.
Ahead(j) == \E k \in at .. Len(ta_code) : Place(j) \in Reads(ta_code[k])

Agree(w, n) ==
    w.ok => /\ n.ok
            /\ \A v \in Vars : n.mem[VariableId(v)] = w.mem[VariableId(v)]
            /\ \A j \in 1 .. at - 1 : Ahead(j) => Read(n.mem, heap[Place(j)]) = w.mem[TempId(Place(j))]

Meant ==
    /\ \A p \in 1 .. 3 * Len(ta_code) : Clean(heap[p])
    /\ \A start \in Starts :
          Agree(Run(before.heap, before.code, start)[at - 1], Run(heap, ta_code, start)[at - 1])

IInv ==
    /\ bound \in Bounds
    /\ phase \in {"emit", "pass", "done", "crashed"}
    /\ fault \in {"none", "unfolded", "renamed", "rounding", "namesake"}
    /\ phase = "emit" => Made(heap, ta_code) /\ Waiting /\ fault = "none" /\ at = 1
    /\ phase # "emit" => pending = {} /\ Walked /\ Lives /\ (fault = "none" => Meant)
    /\ phase = "done" => at = Len(ta_code) + 1

(***************************************************************************)
(* Making the block.                                                       *)
(***************************************************************************)
Fits(a, p) == Sane(a) /\ Clean(a) /\ \A m \in 1 .. 3 * MaxCode : a.table_id = TempId(m) => m <= p

\* g is h with the addresses of one more quad.
Extends(g, h, n, r, x, y) ==
    /\ g \in Seq(Addresses) /\ Len(g) = 3 * n + 3
    /\ \A p \in 1 .. 3 * n : g[p] = h[p]
    /\ g[3 * n + 1] = r /\ g[3 * n + 2] = x /\ g[3 * n + 3] = y

LEMMA Extended ==
    ASSUME NEW h \in Seq(Addresses), NEW n \in Nat, Len(h) = 3 * n,
           NEW r \in Addresses, NEW x \in Addresses, NEW y \in Addresses
    PROVE  Extends(h \o <<r, x, y>>, h, n, r, x, y)
<1>1. PICK A : A = Addresses
  OBVIOUS
<1>2. <<r, x, y>> \in Seq(A) /\ Len(<<r, x, y>>) = 3 /\ h \in Seq(A)
  BY <1>1
<1>3. PICK t \in Seq(A) : t = <<r, x, y>> /\ Len(t) = 3 /\ t[1] = r /\ t[2] = x /\ t[3] = y
  BY <1>2
<1>4. PICK g : g = h \o t
  OBVIOUS
<1>5. g \in Seq(A) /\ Len(g) = 3 * n + 3
  <2>1. g \in Seq(A) /\ Len(g) = Len(h) + Len(t)
    BY <1>2, <1>3, <1>4
  <2>2. QED BY <1>3, <2>1
<1>6. PICK m : m = Len(h)
  OBVIOUS
<1>7. /\ \A p \in 1 .. m : g[p] = h[p]
      /\ g[m + 1] = r /\ g[m + 2] = x /\ g[m + 3] = y
  BY <1>2, <1>3, <1>4, <1>6
<1>8. QED BY <1>1, <1>3, <1>4, <1>5, <1>6, <1>7 DEF Extends

LEMMA SourceKept ==
    ASSUME NEW h, NEW g, NEW n \in Nat, NEW k \in 1 .. n, \A p \in 1 .. 3 * n : g[p] = h[p]
    PROVE  /\ Computes(g, k) <=> Computes(h, k)
           /\ Assigns(g, k) <=> Assigns(h, k)
           /\ \A p : Source(h, k, p) => Source(g, k, p)
           /\ \A q : MadeQuad(h, q, k) => MadeQuad(g, q, k)
<1>1. \A i \in 1 .. n : Place(i) \in 1 .. 3 * n
  BY DEF Place
<1>2. \A i \in 1 .. n : (Computes(g, i) <=> Computes(h, i)) /\ (Assigns(g, i) <=> Assigns(h, i))
  BY <1>1 DEF Computes, Assigns, Denotes
<1>3. ASSUME NEW p, Source(h, k, p) PROVE Source(g, k, p)
  <2>1. CASE p \in {3 * k - 1, 3 * k} /\ Leaf(h[p])
    <3>1. p \in 1 .. 3 * n
      BY <2>1
    <3>2. QED BY <2>1, <3>1 DEF Source
  <2>2. CASE p = Place(k) /\ Assigns(h, k)
    BY <1>2, <2>2 DEF Source
  <2>3. ASSUME NEW j \in 1 .. k - 1, p = Place(j), \A i \in j .. k - 1 : Computes(h, i) PROVE Source(g, k, p)
    <3>1. \A i \in j .. k - 1 : Computes(g, i)
      BY <1>2, <2>3
    <3>2. QED BY <2>3, <3>1 DEF Source
  <2>4. QED BY <1>3, <2>1, <2>2, <2>3 DEF Source
<1>4. QED BY <1>2, <1>3 DEF MadeQuad

LEMMA MadeMore ==
    ASSUME NEW h, NEW c, Made(h, c), NEW n \in Nat, n = Len(c), n + 1 <= MaxCode, MaxCode \in Nat,
           NEW r, NEW x, NEW y, Fits(r, 3 * n + 1), Fits(x, 3 * n + 2), Fits(y, 3 * n + 3),
           NEW g, Extends(g, h, n, r, x, y), NEW q \in Quads, MadeQuad(g, q, n + 1),
           \A k \in 1 .. n : Reads(q) \cap Reads(c[k]) = {}
    PROVE  Made(g, Append(c, q))
<1>1. PICK d : d = Append(c, q)
  OBVIOUS
<1>2. d \in Seq(Quads) /\ Len(d) = n + 1 /\ d[n + 1] = q /\ \A k \in 1 .. n : d[k] = c[k]
  BY <1>1 DEF Made
<1>3. \A p \in 1 .. 3 * n : g[p] = h[p]
  BY DEF Extends
<1>4. \A k \in 1 .. n + 1 : MadeQuad(g, d[k], k)
  <2>1. TAKE k \in 1 .. n + 1
  <2>2. CASE k = n + 1
    BY <1>2, <2>2
  <2>3. CASE k \in 1 .. n
    BY <1>2, <1>3, <2>3, SourceKept DEF Made
  <2>4. QED BY <2>2, <2>3
<1>5. \A p \in 1 .. 3 * (n + 1) : Sane(g[p]) /\ Clean(g[p]) /\ Bounded(g, p)
  <2>1. TAKE p \in 1 .. 3 * (n + 1)
  <2>2. CASE p \in 1 .. 3 * n
    BY <1>3, <2>2 DEF Made, Bounded
  <2>3. CASE p \in {3 * n + 1, 3 * n + 2, 3 * n + 3}
    BY <2>3 DEF Extends, Fits, Bounded
  <2>4. QED BY <2>2, <2>3
<1>6. \A j, k \in 1 .. n + 1 : j # k => Reads(d[j]) \cap Reads(d[k]) = {}
  <2>1. TAKE j, k \in 1 .. n + 1
  <2>2. CASE j \in 1 .. n /\ k \in 1 .. n
    BY <1>2, <2>2 DEF Made
  <2>3. CASE j = n + 1 /\ k \in 1 .. n
    BY <1>2, <2>3
  <2>4. CASE j \in 1 .. n /\ k = n + 1
    BY <1>2, <2>4
  <2>5. QED BY <2>2, <2>3, <2>4
<1>7. g \in Seq(Addresses) /\ Len(g) = 3 * (n + 1) /\ n + 1 <= MaxCode
  BY DEF Extends
<1>8. QED BY <1>1, <1>2, <1>4, <1>5, <1>6, <1>7 DEF Made

LEMMA BoundIs == ASSUME bound \in Bounds PROVE MaxCode \in Nat /\ Consts \subseteq Int /\ Ops \subseteq BinaryOps /\ Spread \in Nat
BY FoldAssumption DEF MaxCode, Consts, Ops, Spread, BinaryOps

\* An operand that may be read next.
LEMMA SourceIs ==
    ASSUME IInv, phase = "emit", NEW s, NEW n \in Nat, n = Len(ta_code), s \in {3 * n + 2, 3 * n + 3},
           NEW p \in Sources(s)
    PROVE  /\ Fits(p[2], s)
           /\ p[1] \in pending \/ (p[1] = s /\ Leaf(p[2]))
<1>1. CASE p \in {<<s, a>> : a \in Leaves}
  <2>1. PICK a \in Leaves : p = <<s, a>>
    BY <1>1
  <2>2. Sane(a) /\ Clean(a) /\ Leaf(a) /\ \A m : a.table_id # TempId(m)
    <3>1. ASSUME NEW c \in Consts, a = Constant(c) PROVE Sane(a) /\ Clean(a) /\ Leaf(a) /\ \A m : a.table_id # TempId(m)
      <4>1. Sane(a) /\ Clean(a) /\ a.con /\ a.table_id = NoId
        BY <3>1, BoundIs, Leaves0, TargetIs DEF IInv
      <4>2. QED BY <4>1, Distinct DEF Leaf, Denotes
    <3>2. ASSUME NEW v \in Vars, a = Variable(v) PROVE Sane(a) /\ Clean(a) /\ Leaf(a) /\ \A m : a.table_id # TempId(m)
      <4>1. Sane(a) /\ Clean(a) /\ a.table_id = VariableId(v)
        BY <3>2, Leaves0, TargetIs DEF IInv
      <4>2. Leaf(a)
        BY <3>2, TargetIs DEF Leaf, Denotes
      <4>3. QED BY <4>1, <4>2, Distinct
    <3>3. QED BY <2>1, <3>1, <3>2 DEF Leaves
  <2>3. QED BY <2>1, <2>2 DEF Fits
<1>2. CASE p \in {<<i, heap[i]>> : i \in pending}
  <2>1. PICK i \in pending : p = <<i, heap[i]>>
    BY <1>2
  <2>2. PICK j \in 1 .. n : i = Place(j)
    BY <2>1 DEF IInv, Waiting
  <2>3. i \in 1 .. 3 * n
    BY <2>2 DEF Place
  <2>4. Sane(heap[i]) /\ Clean(heap[i]) /\ Bounded(heap, i)
    BY <2>3 DEF IInv, Made
  <2>5. \A m \in 1 .. 3 * MaxCode : heap[i].table_id = TempId(m) => m <= s
    BY <2>3, <2>4 DEF Bounded
  <2>6. QED BY <2>1, <2>4, <2>5 DEF Fits
<1>3. QED BY <1>1, <1>2 DEF Sources

LEMMA SourceRange ==
    ASSUME NEW h, NEW k \in Nat, k >= 1, NEW p, Source(h, k, p)
    PROVE  p \in 1 .. 3 * k /\ p # None
BY DEF Source, Place, None

LEMMA OperandIs ==
    ASSUME IInv, phase = "emit", NEW s, NEW n \in Nat, n = Len(ta_code), s \in {3 * n + 2, 3 * n + 3},
           NEW p \in Sources(s), NEW g, \A i \in 1 .. 3 * n : g[i] = heap[i], g[s] = p[2]
    PROVE  /\ Source(g, n + 1, p[1])
           /\ p[1] \in Nat /\ p[1] # None /\ p[1] # Place(n + 1)
           /\ p[1] = s \/ p[1] <= 3 * n
           /\ \A k \in 1 .. n : p[1] \notin Reads(ta_code[k])
<1>1. CASE p[1] = s /\ Leaf(p[2])
  <2>1. Source(g, n + 1, s)
    BY <1>1 DEF Source
  <2>2. \A k \in 1 .. n : s \notin Reads(ta_code[k])
    <3>1. SUFFICES ASSUME NEW k \in 1 .. n, s \in Reads(ta_code[k]) PROVE FALSE
      OBVIOUS
    <3>2. Source(heap, k, s)
      BY <3>1 DEF IInv, Made, MadeQuad
    <3>3. s \in 1 .. 3 * k
      BY <3>2, SourceRange
    <3>4. QED BY <3>3
  <2>3. QED BY <1>1, <2>1, <2>2 DEF Place, None
<1>2. CASE p[1] \in pending
  <2>1. /\ \A k \in 1 .. n : p[1] \notin Reads(ta_code[k])
        /\ \E j \in 1 .. n : p[1] = Place(j) /\ \A i \in j .. n : Computes(heap, i)
    BY <1>2 DEF IInv, Waiting
  <2>2. PICK j \in 1 .. n : p[1] = Place(j) /\ \A i \in j .. n : Computes(heap, i)
    BY <2>1
  <2>3. \A i \in j .. n : Computes(g, i)
    <3>1. \A i \in j .. n : i \in 1 .. n
      OBVIOUS
    <3>2. QED BY <2>2, <3>1, SourceKept
  <2>4. j \in 1 .. (n + 1) - 1 /\ (n + 1) - 1 = n
    OBVIOUS
  <2>5. Source(g, n + 1, p[1])
    BY <2>2, <2>3, <2>4 DEF Source
  <2>6. p[1] \in 1 .. 3 * n
    BY <2>2 DEF Place
  <2>7. QED BY <2>1, <2>5, <2>6 DEF Place, None
<1>3. QED BY <1>1, <1>2, SourceIs

LEMMA EmitKeeps ==
    ASSUME IInv, NEW r, NEW op, NEW x, NEW y, NEW p1, NEW p2, Emit(r, op, x, y, p1, p2),
           NEW n \in Nat, n = Len(ta_code), n + 1 <= MaxCode,
           Fits(r, 3 * n + 1), Fits(x, 3 * n + 2), Fits(y, 3 * n + 3),
           Extends(heap', heap, n, r, x, y) =>
               /\ MadeQuad(heap', [result |-> Slot(1), op |-> op, arg1 |-> p1, arg2 |-> p2, dead |-> FALSE], n + 1)
               /\ \A k \in 1 .. n : p1 \notin Reads(ta_code[k]) /\ (p2 # None => p2 \notin Reads(ta_code[k])),
           Extends(heap', heap, n, r, x, y) => Waiting',
           op \in BinaryOps \cup {"="}, p1 \in Nat, p2 \in Nat
    PROVE  IInv'
<1> DEFINE q == [result |-> Slot(1), op |-> op, arg1 |-> p1, arg2 |-> p2, dead |-> FALSE]
<1>1. /\ phase = "emit" /\ phase' = "emit" /\ bound' = bound /\ fault' = fault /\ at' = at
      /\ heap' = heap \o <<r, x, y>> /\ ta_code' = Append(ta_code, q)
  BY DEF Emit
<1>2. Made(heap, ta_code) /\ fault = "none" /\ at = 1 /\ bound \in Bounds
  BY <1>1 DEF IInv
<1>3. heap \in Seq(Addresses) /\ Len(heap) = 3 * n
  BY <1>2 DEF Made
<1>4. Extends(heap', heap, n, r, x, y)
  BY <1>1, <1>3, Extended DEF Fits, Sane
<1>5. q \in Quads
  BY <1>3 DEF Quads, Slot
<1>6. Made(heap', ta_code')
  <2>1. Reads(q) = {p1, p2} \ {None}
    BY DEF Reads
  <2>2. \A k \in 1 .. n : Reads(q) \cap Reads(ta_code[k]) = {}
    BY <1>4, <2>1
  <2>3. MadeQuad(heap', q, n + 1) /\ MaxCode \in Nat
    BY <1>2, <1>4, BoundIs
  <2> HIDE DEF q
  <2>4. Made(heap', Append(ta_code, q))
    BY <1>2, <1>4, <1>5, <2>2, <2>3, MadeMore
  <2>5. QED BY <1>1, <2>4
<1>7. Made(heap, ta_code)' /\ Waiting'
  BY <1>1, <1>4, <1>6 DEF Made, MaxCode, Addresses, Ids, Sane, Clean, Bounded
<1>8. QED BY <1>1, <1>2, <1>7 DEF IInv

LEMMA SlotIs ==
    ASSUME IInv, phase = "emit", NEW n \in Nat, n = Len(ta_code)
    PROVE  Slot(1) = 3 * n + 1 /\ Slot(2) = 3 * n + 2 /\ Slot(3) = 3 * n + 3 /\ Place(n + 1) = 3 * n + 1
<1>1. Len(heap) = 3 * n
  BY DEF IInv, Made
<1>2. QED BY <1>1 DEF Slot, Place

LEMMA TempFits ==
    ASSUME bound \in Bounds, NEW n \in Nat, n + 1 <= MaxCode, MaxCode \in Nat
    PROVE  Fits(Temp(3 * n + 1), 3 * n + 1)
<1>1. 3 * n + 1 \in 1 .. 3 * MaxCode
  OBVIOUS
<1>2. Sane(Temp(3 * n + 1)) /\ Clean(Temp(3 * n + 1))
  BY <1>1, Leaves0
<1>3. QED BY <1>1, <1>2, TargetIs, Distinct DEF Fits

LEMMA VariableFits == ASSUME bound \in Bounds, NEW v \in Vars, NEW p PROVE Fits(Variable(v), p)
BY Leaves0, TargetIs, Distinct DEF Fits

\* Nothing that waits has been read, and all of it is since the last assignment.
LEMMA WaitingMore ==
    ASSUME IInv, phase = "emit", NEW n \in Nat, n = Len(ta_code), NEW q, ta_code' = Append(ta_code, q),
           \A i \in 1 .. 3 * n : heap'[i] = heap[i], Computes(heap', n + 1),
           \A i \in pending' : i \in pending \/ i = Place(n + 1),
           \A i \in pending' : i \notin Reads(q)
    PROVE  Waiting'
<1>1. ta_code \in Seq(Quads) /\ Made(heap, ta_code)
  BY DEF IInv, Made
<1>2. Len(ta_code') = n + 1 /\ ta_code'[n + 1] = q /\ \A k \in 1 .. n : ta_code'[k] = ta_code[k]
  BY <1>1
<1>3. \A k \in 1 .. n : \A i \in Reads(ta_code[k]) : i \in 1 .. 3 * n
  <2>1. TAKE k \in 1 .. n
  <2>2. TAKE i \in Reads(ta_code[k])
  <2>3. Source(heap, k, i)
    BY <1>1 DEF Made, MadeQuad
  <2>4. i \in 1 .. 3 * k
    BY <2>3, SourceRange
  <2>5. QED BY <2>4
<1>4. ASSUME NEW i \in pending'
      PROVE  /\ \E j \in 1 .. n + 1 : i = Place(j) /\ \A m \in j .. n + 1 : Computes(heap', m)
             /\ \A k \in 1 .. n + 1 : i \notin Reads(ta_code'[k])
  <2>1. CASE i = Place(n + 1)
    <3>1. i \notin 1 .. 3 * n
      BY <2>1 DEF Place
    <3>2. \A k \in 1 .. n + 1 : k \in 1 .. n \/ k = n + 1
      OBVIOUS
    <3>3. \A k \in 1 .. n + 1 : i \notin Reads(ta_code'[k])
      BY <1>2, <1>3, <1>4, <3>1, <3>2
    <3>4. \A m \in n + 1 .. n + 1 : m = n + 1
      OBVIOUS
    <3>5. n + 1 \in 1 .. n + 1
      OBVIOUS
    <3>6. QED BY <2>1, <3>3, <3>4, <3>5
  <2>2. CASE i \in pending
    <3>1. PICK j \in 1 .. n : i = Place(j) /\ \A m \in j .. n : Computes(heap, m)
      BY <2>2 DEF IInv, Waiting
    <3>2. \A m \in j .. n + 1 : Computes(heap', m)
      <4>1. \A m \in 1 .. n : Computes(heap, m) => Computes(heap', m)
        BY SourceKept
      <4>2. \A m \in j .. n + 1 : m = n + 1 \/ (m \in 1 .. n /\ m \in j .. n)
        OBVIOUS
      <4>3. QED BY <3>1, <4>1, <4>2
    <3>3. \A k \in 1 .. n : i \notin Reads(ta_code[k])
      BY <2>2 DEF IInv, Waiting
    <3>4. \A k \in 1 .. n + 1 : k \in 1 .. n \/ k = n + 1
      OBVIOUS
    <3>5. \A k \in 1 .. n + 1 : i \notin Reads(ta_code'[k])
      BY <1>2, <1>4, <3>3, <3>4
    <3>6. QED BY <3>1, <3>2, <3>5
  <2>3. QED BY <1>4, <2>1, <2>2
<1>5. \A i \in pending' :
        /\ \E j \in 1 .. Len(ta_code') : i = Place(j) /\ \A m \in j .. Len(ta_code') : Computes(heap', m)
        /\ \A k \in 1 .. Len(ta_code') : i \notin Reads(ta_code'[k])
  BY <1>2, <1>4
<1>6. QED BY <1>5 DEF Waiting, Computes

LEMMA BinaryKeeps == ASSUME IInv, EmitBinary PROVE IInv'
<1>1. PICK op \in Ops, x \in Sources(Slot(2)), y \in Sources(Slot(3)) :
        /\ x[1] # y[1]
        /\ Emit(Temp(Slot(1)), op, x[2], y[2], x[1], y[1])
        /\ pending' = (pending \ {x[1], y[1]}) \cup {Slot(1)}
  BY DEF EmitBinary
<1>2. phase = "emit" /\ Len(ta_code) < MaxCode
  BY <1>1 DEF Emit
<1>3. PICK n \in Nat : n = Len(ta_code)
  BY <1>2 DEF IInv, Made
<1>4. MaxCode \in Nat /\ Ops \subseteq BinaryOps /\ n + 1 <= MaxCode
  BY <1>2, <1>3, BoundIs DEF IInv
<1>5. Slot(1) = 3 * n + 1 /\ Slot(2) = 3 * n + 2 /\ Slot(3) = 3 * n + 3 /\ Place(n + 1) = 3 * n + 1
  BY <1>2, <1>3, SlotIs
<1>6. PICK r : r = Temp(Slot(1))
  OBVIOUS
<1>7. Fits(r, 3 * n + 1) /\ Fits(x[2], 3 * n + 2) /\ Fits(y[2], 3 * n + 3)
  BY <1>2, <1>3, <1>4, <1>5, <1>6, TempFits, SourceIs DEF IInv
<1>8. /\ x[1] \in Nat /\ y[1] \in Nat /\ x[1] # None /\ y[1] # None
      /\ x[1] # 3 * n + 1 /\ y[1] # 3 * n + 1
      /\ \A k \in 1 .. n : x[1] \notin Reads(ta_code[k]) /\ y[1] \notin Reads(ta_code[k])
  <2>1. PICK g : g = [i \in 1 .. 3 * n + 3 |-> IF i <= 3 * n THEN heap[i] ELSE IF i = 3 * n + 2 THEN x[2] ELSE y[2]]
    OBVIOUS
  <2>2. (\A i \in 1 .. 3 * n : g[i] = heap[i]) /\ g[3 * n + 2] = x[2] /\ g[3 * n + 3] = y[2]
    BY <2>1
  <2>3. QED BY <1>2, <1>3, <1>5, <2>2, OperandIs
<1> DEFINE q == [result |-> Slot(1), op |-> op, arg1 |-> x[1], arg2 |-> y[1], dead |-> FALSE]
<1>9. ASSUME Extends(heap', heap, n, r, x[2], y[2])
      PROVE  MadeQuad(heap', q, n + 1) /\ Waiting'
  <2>1. /\ \A i \in 1 .. 3 * n : heap'[i] = heap[i]
        /\ heap'[3 * n + 1] = r /\ heap'[3 * n + 2] = x[2] /\ heap'[3 * n + 3] = y[2]
    BY <1>9 DEF Extends
  <2>2. Source(heap', n + 1, x[1]) /\ Source(heap', n + 1, y[1])
    BY <1>2, <1>3, <1>5, <2>1, OperandIs
  <2>3. Computes(heap', n + 1)
    BY <1>5, <1>6, <2>1 DEF Computes
  <2>4. MadeQuad(heap', q, n + 1)
    <3>1. ~Assigns(heap', n + 1)
      BY <1>5, <1>6, <2>1, TargetIs, Distinct DEF Assigns, Denotes
    <3>2. QED BY <1>1, <1>4, <1>5, <1>8, <2>2, <2>3, <3>1 DEF MadeQuad, Reads
  <2>5. Waiting'
    <3>1. ta_code' = Append(ta_code, q)
      BY <1>1 DEF Emit
    <3>2. \A i \in pending' : (i \in pending \/ i = Place(n + 1)) /\ i \notin {x[1], y[1]}
      BY <1>1, <1>5, <1>8
    <3>3. Reads(q) = {x[1], y[1]}
      BY <1>8 DEF Reads
    <3> HIDE DEF q
    <3>4. QED BY <1>2, <1>3, <2>1, <2>3, <3>1, <3>2, <3>3, WaitingMore
  <2>6. QED BY <2>4, <2>5
<1>10. Emit(r, op, x[2], y[2], x[1], y[1]) /\ op \in BinaryOps \cup {"="}
  BY <1>1, <1>4, <1>6
<1>11. QED BY <1>3, <1>4, <1>7, <1>8, <1>9, <1>10, EmitKeeps

LEMMA AssignKeeps == ASSUME IInv, EmitAssign PROVE IInv'
<1>1. PICK v \in Vars, x \in Sources(Slot(2)) :
        pending' = {} /\ Emit(Variable(v), "=", x[2], x[2], x[1], None)
  BY DEF EmitAssign
<1>2. phase = "emit" /\ Len(ta_code) < MaxCode
  BY <1>1 DEF Emit
<1>3. PICK n \in Nat : n = Len(ta_code)
  BY <1>2 DEF IInv, Made
<1>4. MaxCode \in Nat /\ n + 1 <= MaxCode
  BY <1>2, <1>3, BoundIs DEF IInv
<1>5. Slot(1) = 3 * n + 1 /\ Slot(2) = 3 * n + 2 /\ Place(n + 1) = 3 * n + 1
  BY <1>2, <1>3, SlotIs
<1>6. PICK r : r = Variable(v)
  OBVIOUS
<1>7. Fits(r, 3 * n + 1) /\ Fits(x[2], 3 * n + 2)
  BY <1>2, <1>3, <1>5, <1>6, VariableFits, SourceIs DEF IInv
<1>8. Fits(x[2], 3 * n + 3)
  <2>1. \A m \in 1 .. 3 * MaxCode : m <= 3 * n + 2 => m <= 3 * n + 3
    OBVIOUS
  <2>2. QED BY <1>7, <2>1 DEF Fits
<1>9. /\ x[1] \in Nat /\ x[1] # None /\ x[1] # 3 * n + 1
      /\ \A k \in 1 .. n : x[1] \notin Reads(ta_code[k])
  <2>1. PICK g : g = [i \in 1 .. 3 * n + 3 |-> IF i <= 3 * n THEN heap[i] ELSE x[2]]
    OBVIOUS
  <2>2. (\A i \in 1 .. 3 * n : g[i] = heap[i]) /\ g[3 * n + 2] = x[2]
    BY <2>1
  <2>3. QED BY <1>2, <1>3, <1>5, <2>2, OperandIs
<1> DEFINE q == [result |-> Slot(1), op |-> "=", arg1 |-> x[1], arg2 |-> None, dead |-> FALSE]
<1>10. ASSUME Extends(heap', heap, n, r, x[2], x[2]) PROVE MadeQuad(heap', q, n + 1)
  <2>1. /\ \A i \in 1 .. 3 * n : heap'[i] = heap[i]
        /\ heap'[3 * n + 1] = r /\ heap'[3 * n + 2] = x[2]
    BY <1>10 DEF Extends
  <2>2. Source(heap', n + 1, x[1])
    BY <1>2, <1>3, <1>5, <2>1, OperandIs
  <2>3. Assigns(heap', n + 1)
    BY <1>5, <1>6, <2>1, TargetIs DEF Assigns, Denotes
  <2>4. None # 3 * n + 1
    BY DEF None
  <2>5. QED BY <1>5, <1>9, <2>2, <2>3, <2>4 DEF MadeQuad, Reads
<1>11. Waiting'
  BY <1>1 DEF Waiting
<1>12. Emit(r, "=", x[2], x[2], x[1], None) /\ None \in Nat
  BY <1>1, <1>6 DEF None
<1>13. QED BY <1>3, <1>4, <1>7, <1>8, <1>9, <1>10, <1>11, <1>12, EmitKeeps

LEMMA CompoundKeeps == ASSUME IInv, EmitCompound PROVE IInv'
<1>1. PICK op \in Ops, v \in Vars, y \in Sources(Slot(3)) :
        pending' = {} /\ Emit(Variable(v), op, Variable(v), y[2], Slot(1), y[1])
  BY DEF EmitCompound
<1>2. phase = "emit" /\ Len(ta_code) < MaxCode
  BY <1>1 DEF Emit
<1>3. PICK n \in Nat : n = Len(ta_code)
  BY <1>2 DEF IInv, Made
<1>4. MaxCode \in Nat /\ Ops \subseteq BinaryOps /\ n + 1 <= MaxCode
  BY <1>2, <1>3, BoundIs DEF IInv
<1>5. Slot(1) = 3 * n + 1 /\ Slot(3) = 3 * n + 3 /\ Place(n + 1) = 3 * n + 1
  BY <1>2, <1>3, SlotIs
<1>6. PICK r : r = Variable(v)
  OBVIOUS
<1>7. Fits(r, 3 * n + 1) /\ Fits(r, 3 * n + 2) /\ Fits(y[2], 3 * n + 3)
  BY <1>2, <1>3, <1>5, <1>6, VariableFits, SourceIs DEF IInv
<1>8. /\ y[1] \in Nat /\ y[1] # None /\ y[1] # 3 * n + 1
      /\ \A k \in 1 .. n : y[1] \notin Reads(ta_code[k])
  <2>1. PICK g : g = [i \in 1 .. 3 * n + 3 |-> IF i <= 3 * n THEN heap[i] ELSE y[2]]
    OBVIOUS
  <2>2. (\A i \in 1 .. 3 * n : g[i] = heap[i]) /\ g[3 * n + 3] = y[2]
    BY <2>1
  <2>3. QED BY <1>2, <1>3, <1>5, <2>2, OperandIs
<1>9. \A k \in 1 .. n : 3 * n + 1 \notin Reads(ta_code[k])
  <2>1. SUFFICES ASSUME NEW k \in 1 .. n, 3 * n + 1 \in Reads(ta_code[k]) PROVE FALSE
    OBVIOUS
  <2>2. Source(heap, k, 3 * n + 1)
    BY <1>2, <1>3, <2>1 DEF IInv, Made, MadeQuad
  <2>3. 3 * n + 1 \in 1 .. 3 * k
    BY <2>2, SourceRange
  <2>4. QED BY <2>3
<1> DEFINE q == [result |-> Slot(1), op |-> op, arg1 |-> Slot(1), arg2 |-> y[1], dead |-> FALSE]
<1>10. ASSUME Extends(heap', heap, n, r, r, y[2]) PROVE MadeQuad(heap', q, n + 1)
  <2>1. /\ \A i \in 1 .. 3 * n : heap'[i] = heap[i]
        /\ heap'[3 * n + 1] = r /\ heap'[3 * n + 3] = y[2]
    BY <1>10 DEF Extends
  <2>2. Source(heap', n + 1, y[1])
    BY <1>2, <1>3, <1>5, <2>1, OperandIs
  <2>3. Assigns(heap', n + 1)
    BY <1>5, <1>6, <2>1, TargetIs DEF Assigns, Denotes
  <2>4. Source(heap', n + 1, 3 * n + 1)
    BY <1>5, <2>3 DEF Source
  <2>5. 3 * n + 1 # None
    BY DEF None
  <2>6. QED BY <1>1, <1>4, <1>5, <1>8, <2>2, <2>3, <2>4, <2>5 DEF MadeQuad, Reads
<1>11. Waiting'
  BY <1>1 DEF Waiting
<1>12. Emit(r, op, r, y[2], Slot(1), y[1]) /\ op \in BinaryOps \cup {"="} /\ Slot(1) \in Nat
  BY <1>1, <1>4, <1>5, <1>6
<1>13. \A k \in 1 .. n : Slot(1) \notin Reads(ta_code[k]) /\ (y[1] # None => y[1] \notin Reads(ta_code[k]))
  BY <1>5, <1>8, <1>9
<1>14. QED BY <1>3, <1>4, <1>7, <1>8, <1>10, <1>11, <1>12, <1>13, EmitKeeps

LEMMA InitIs == Init => IInv
<1>1. ASSUME Init PROVE IInv
  <2>1. MaxCode \in Nat
    BY <1>1, BoundIs DEF Init
  <2>2. Made(heap, ta_code)
    BY <1>1, <2>1 DEF Init, Made
  <2>3. Waiting
    BY <1>1 DEF Init, Waiting
  <2>4. QED BY <1>1, <2>2, <2>3 DEF Init, IInv
<1>2. QED BY <1>1

\* Made code can be run.
LEMMA MadeRuns == ASSUME NEW h, NEW c, Made(h, c) PROVE Runnable(h, c)
<1>1. ASSUME NEW k \in 1 .. Len(c) PROVE Runs(c[k], h)
  <2>1. c[k] \in Quads /\ MadeQuad(h, c[k], k) /\ Len(c) \in Nat
    BY DEF Made
  <2>2. \A p \in Reads(c[k]) : p \in 1 .. 3 * Len(c)
    <3>1. TAKE p \in Reads(c[k])
    <3>2. p \in 1 .. 3 * k
      BY <2>1, SourceRange DEF MadeQuad
    <3>3. QED BY <2>1, <3>2
  <2>3. Sane(h[c[k].arg1]) /\ (c[k].arg2 # None => Sane(h[c[k].arg2]))
    BY <2>1, <2>2 DEF Made, MadeQuad, Reads
  <2>4. Place(k) \in 1 .. 3 * Len(c)
    BY <2>1 DEF Place
  <2>5. Sane(h[Place(k)]) /\ ~h[Place(k)].con
    BY <2>1, <2>4 DEF Made, MadeQuad, Computes, Assigns, Temp, Denotes
  <2>6. QED BY <2>1, <2>3, <2>5 DEF Runs, MadeQuad, Sane
<1>2. QED BY <1>1 DEF Runnable, Made

LEMMA StartKeeps == ASSUME IInv, Start PROVE IInv'
<1>1. /\ phase = "emit" /\ phase' = "pass" /\ pending = {} /\ before'.heap = heap /\ before'.code = ta_code
      /\ bound' = bound /\ heap' = heap /\ ta_code' = ta_code /\ pending' = pending /\ at' = at /\ fault' = fault
  BY DEF Start
<1>2. Made(heap, ta_code) /\ at = 1 /\ bound \in Bounds
  BY <1>1 DEF IInv
<1>3. PICK n \in Nat : n = Len(ta_code)
  BY <1>2 DEF Made
<1>4. \A k \in 1 .. n : MadeQuad(heap, ta_code[k], k)
  BY <1>2, <1>3 DEF Made
<1>5. heap \in [1 .. 3 * n -> Addresses]
  BY <1>2, <1>3 DEF Made
<1>6. Walked'
  <2>1. Made(before'.heap, before'.code)
    BY <1>1, <1>2
  <2>2. \A k \in 1 .. n :
          /\ ta_code[k].result = Place(k)
          /\ ta_code[k].arg2 # None => ta_code[k].op \in BinaryOps
    BY <1>4 DEF MadeQuad
  <2>3. \A k \in 1 .. n : WalkedQuad(k)'
    BY <1>1, <2>2 DEF WalkedQuad, SameTarget
  <2>4. \A p \in 1 .. 3 * n : Sane(heap[p]) /\ Bounded(heap, p)
    BY <1>2, <1>3 DEF Made
  <2>5. ta_code \in Seq(Quads) /\ at \in 1 .. n + 1
    BY <1>2 DEF Made
  <2>6. Made(before.heap, before.code)' /\ \A p \in 1 .. 3 * n : (Sane(heap[p]) /\ Bounded(heap, p))'
    BY <1>1, <2>1, <2>4 DEF Made, MaxCode, Addresses, Ids, Sane, Clean, Bounded
  <2>7. heap' \in [1 .. 3 * n -> Addresses']
    BY <1>1, <1>5 DEF Addresses, Ids, MaxCode
  <2>8. QED BY <1>1, <1>3, <2>3, <2>5, <2>6, <2>7 DEF Walked
<1>7. Lives'
  <2>1. SUFFICES ASSUME NEW k \in 1 .. n, NEW p \in Reads(ta_code[k]), heap[p].table_id[1] = "temporary"
                 PROVE  \E j \in 1 .. k - 1 : ~ta_code[j].dead /\ heap[Place(j)].table_id = heap[p].table_id
    BY <1>1, <1>3 DEF Lives
  <2>2. Source(heap, k, p) /\ \A j \in 1 .. n : ~ta_code[j].dead
    BY <1>4 DEF MadeQuad
  <2>3. p \in 1 .. 3 * n
    <3>1. p \in 1 .. 3 * k
      BY <2>2, SourceRange
    <3>2. QED BY <3>1
  <2>4. ~Leaf(heap[p])
    <3>1. Sane(heap[p])
      BY <1>2, <1>3, <2>3 DEF Made
    <3>2. \A v \in Vars : heap[p].table_id # VariableId(v)
      BY <2>1, TargetIs, Naming
    <3>3. ~heap[p].con
      BY <2>1, <3>1, Naming DEF Sane
    <3>4. QED BY <3>2, <3>3 DEF Leaf, Denotes
  <2>5. ~(p = Place(k) /\ Assigns(heap, k))
    BY <2>1, TargetIs, Naming DEF Assigns, Denotes
  <2>6. PICK j \in 1 .. k - 1 : p = Place(j)
    BY <2>2, <2>4, <2>5 DEF Source
  <2>7. QED BY <2>2, <2>6
<1>8. Meant'
  <2>1. \A p \in 1 .. 3 * n : Clean(heap[p])
    BY <1>2, <1>3 DEF Made
  <2>2. Runnable(heap, ta_code)
    BY <1>2, MadeRuns
  <2>3. ASSUME NEW start \in Starts
        PROVE  Agree(Run(before.heap, before.code, start)[at - 1], Run(heap, ta_code, start)[at - 1])'
    <3>1. PICK s : s = Run(heap, ta_code, start)[0]
      OBVIOUS
    <3>2. s.ok
      BY <2>2, <3>1, RunIs, BeginningIs
    <3>3. (Run(before.heap, before.code, start)[at - 1])' = s /\ (Run(heap, ta_code, start)[at - 1])' = s
      BY <1>1, <1>2, <3>1 DEF Run, Beginning, Ids, MaxCode
    <3>4. \A j \in 1 .. at' - 1 : FALSE
      BY <1>1, <1>2
    <3>5. QED BY <3>2, <3>3, <3>4 DEF Agree
  <2>4. QED BY <1>1, <1>3, <2>1, <2>3 DEF Meant, Starts
<1>9. QED BY <1>1, <1>2, <1>6, <1>7, <1>8 DEF IInv

(***************************************************************************)
(* One step of the walk.  Touched is what all simplifications have in      *)
(* common.                                                                 *)
(***************************************************************************)
Touched ==
    /\ phase = "pass" /\ at <= Len(ta_code)
    /\ phase' = phase /\ bound' = bound /\ pending' = pending /\ before' = before /\ at' = at + 1
    /\ \E q \in Quads :
          /\ ta_code' = [ta_code EXCEPT ![at] = q]
          /\ q.result = Q.result /\ q.arg1 = Q.arg1 /\ q.arg2 = Q.arg2
          /\ q.arg2 # None => q.op \in BinaryOps
    /\ heap' \in [1 .. 3 * Len(ta_code) -> Addresses]
    /\ \A p \in 1 .. 3 * Len(ta_code) : p \notin Reads(Q) /\ p # Place(at) => heap'[p] = heap[p]
    /\ \A p \in Reads(Q) : p # Place(at) => Sane(heap'[p]) /\ SameTarget(heap'[p], heap[p])
    /\ Sane(heap'[Place(at)])
    /\ ~ta_code'[at].dead => heap'[Place(at)] = heap[Place(at)]
    /\ ta_code'[at].dead =>
          \/ heap'[Place(at)] = heap[Place(at)] /\ Assigns(heap, at)
          \/ \E p \in Reads(Q) : heap'[Place(at)].table_id \in {heap[p].table_id, NoId}

LEMMA NotTemp ==
    ASSUME NEW a, Sane(a), Leaf(a)
    PROVE  a.table_id[1] # "temporary" /\ \A m : a.table_id # TempId(m)
<1>1. CASE a.con
  BY <1>1, Naming DEF Sane
<1>2. CASE \E v \in Vars : a.table_id = VariableId(v)
  BY <1>2, TargetIs, Naming
<1>3. QED BY <1>1, <1>2 DEF Leaf, Denotes

\* Where a quad reads, as the walk finds it.
LEMMA QuadIs ==
    ASSUME Walked, NEW n \in Nat, n = Len(ta_code), NEW k \in 1 .. n
    PROVE  /\ ta_code[k] \in Quads /\ ta_code[k].result = Place(k) /\ MadeQuad(before.heap, before.code[k], k)
           /\ Reads(ta_code[k]) = Reads(before.code[k])
           /\ \A p \in Reads(ta_code[k]) : p \in 1 .. 3 * k /\ p \in 1 .. 3 * n /\ Source(before.heap, k, p)
           /\ Place(k) \in 1 .. 3 * n
           /\ \A j \in 1 .. n : j # k => Reads(ta_code[j]) \cap Reads(ta_code[k]) = {}
<1>1. /\ ta_code \in Seq(Quads) /\ Len(before.code) = n
      /\ \A j \in 1 .. n : WalkedQuad(j) /\ MadeQuad(before.heap, before.code[j], j)
      /\ \A i, j \in 1 .. n : i # j => Reads(before.code[i]) \cap Reads(before.code[j]) = {}
  BY DEF Walked, Made
<1>2. \A j \in 1 .. n : Reads(ta_code[j]) = Reads(before.code[j])
  BY <1>1 DEF WalkedQuad, Reads
<1>3. ASSUME NEW p \in Reads(ta_code[k])
      PROVE  p \in 1 .. 3 * k /\ p \in 1 .. 3 * n /\ Source(before.heap, k, p)
  <2>1. Source(before.heap, k, p)
    BY <1>1, <1>2 DEF MadeQuad
  <2>2. p \in 1 .. 3 * k
    BY <2>1, SourceRange
  <2>3. QED BY <2>1, <2>2
<1>4. Place(k) \in 1 .. 3 * n
  BY DEF Place
<1>5. ta_code[k] \in Quads /\ ta_code[k].result = Place(k)
  BY <1>1 DEF WalkedQuad
<1>6. QED BY <1>1, <1>2, <1>3, <1>4, <1>5

LEMMA TouchedQuads ==
    ASSUME Walked, Touched, NEW n \in Nat, n = Len(ta_code)
    PROVE  /\ ta_code' \in Seq(Quads) /\ Len(ta_code') = n
           /\ \A k \in 1 .. n : k # at => ta_code'[k] = ta_code[k]
           /\ at \in 1 .. n /\ Q = ta_code[at] /\ Q = before.code[at] /\ ~Q.dead
           /\ ta_code'[at].result = Place(at) /\ ta_code'[at].arg1 = Q.arg1 /\ ta_code'[at].arg2 = Q.arg2
           /\ ta_code'[at].arg2 # None => ta_code'[at].op \in BinaryOps
           /\ \A k \in 1 .. n : Reads(ta_code'[k]) = Reads(ta_code[k])
<1>1. ta_code \in Seq(Quads) /\ at \in 1 .. n
  BY DEF Walked, Touched
<1>2. PICK q \in Quads :
        /\ ta_code' = [ta_code EXCEPT ![at] = q]
        /\ q.result = Q.result /\ q.arg1 = Q.arg1 /\ q.arg2 = Q.arg2
        /\ q.arg2 # None => q.op \in BinaryOps
  BY DEF Touched
<1>3. ta_code' \in Seq(Quads) /\ Len(ta_code') = n /\ ta_code'[at] = q
      /\ \A k \in 1 .. n : k # at => ta_code'[k] = ta_code[k]
  BY <1>1, <1>2
<1>4. WalkedQuad(at) /\ MadeQuad(before.heap, before.code[at], at)
  BY <1>1, QuadIs DEF Walked
<1>5. Q = ta_code[at] /\ Q = before.code[at] /\ ~Q.dead /\ Q.result = Place(at)
  BY <1>1, <1>4 DEF WalkedQuad, MadeQuad, Q
<1>6. Reads(q) = Reads(Q)
  BY <1>2 DEF Reads
<1>7. QED BY <1>1, <1>2, <1>3, <1>5, <1>6

\* Targets of places other than the quad's own result stay.
LEMMA TouchedPlaces ==
    ASSUME Walked, Touched, NEW n \in Nat, n = Len(ta_code)
    PROVE  /\ \A p \in 1 .. 3 * n : p # Place(at) => SameTarget(heap'[p], heap[p]) /\ Sane(heap'[p])
           /\ \A p \in 1 .. 3 * n : p \notin Reads(Q) /\ p # Place(at) => heap'[p] = heap[p]
           /\ \A j \in 1 .. n : j # at => Place(j) # Place(at)
           /\ \A p \in Reads(Q) : p \in 1 .. 3 * at
           /\ \A p \in Place(at) .. 3 * at : heap[p] = before.heap[p]
<1>1. \A p \in 1 .. 3 * n : p \notin Reads(Q) /\ p # Place(at) => heap'[p] = heap[p]
  BY DEF Touched
<1>2. \A p \in Reads(Q) : p # Place(at) => Sane(heap'[p]) /\ SameTarget(heap'[p], heap[p])
  BY DEF Touched
<1>3. \A p \in 1 .. 3 * n : Sane(heap[p])
  BY DEF Walked
<1>4. at \in 1 .. n /\ Q = ta_code[at]
  BY TouchedQuads
<1>5. WalkedQuad(at)
  BY <1>4 DEF Walked
<1>6. \A j \in 1 .. n : j # at => Place(j) # Place(at)
  BY <1>4 DEF Place
<1>7. \A p \in Reads(Q) : p \in 1 .. 3 * at
  BY <1>4, QuadIs
<1>8. \A p \in Place(at) .. 3 * at : heap[p] = before.heap[p]
  BY <1>4, <1>5 DEF WalkedQuad
<1>9. ASSUME NEW p \in 1 .. 3 * n, p # Place(at) PROVE SameTarget(heap'[p], heap[p]) /\ Sane(heap'[p])
  <2>1. CASE p \in Reads(Q)
    BY <1>2, <1>9, <2>1
  <2>2. CASE p \notin Reads(Q)
    BY <1>1, <1>3, <1>9, <2>2 DEF SameTarget
  <2>3. QED BY <2>1, <2>2
<1>10. QED BY <1>1, <1>6, <1>7, <1>8, <1>9

\* An operand of the quad at the iterator that is a temporary is a result before it.
LEMMA ReadTemp ==
    ASSUME Walked, NEW n \in Nat, n = Len(ta_code), at \in 1 .. n, NEW p \in Reads(Q),
           NEW m, heap[p].table_id = TempId(m)
    PROVE  p < Place(at)
<1>1. Q = ta_code[at]
  BY DEF Q
<1>2. Source(before.heap, at, p) /\ WalkedQuad(at) /\ \A i \in 1 .. 3 * n : Sane(heap[i])
  BY <1>1, QuadIs DEF Walked
<1>3. ~(p \in {3 * at - 1, 3 * at} /\ Leaf(before.heap[p]))
  <2>1. SUFFICES ASSUME p \in {3 * at - 1, 3 * at}, Leaf(before.heap[p]) PROVE FALSE
    OBVIOUS
  <2>2. p \in Place(at) .. 3 * at /\ p \in 1 .. 3 * n
    BY <2>1 DEF Place
  <2>3. heap[p] = before.heap[p]
    BY <1>2, <2>2 DEF WalkedQuad
  <2>4. QED BY <1>2, <2>1, <2>2, <2>3, NotTemp
<1>4. ~(p = Place(at) /\ Assigns(before.heap, at))
  <2>1. SUFFICES ASSUME p = Place(at), Assigns(before.heap, at) PROVE FALSE
    OBVIOUS
  <2>2. p \in Place(at) .. 3 * at
    BY <2>1 DEF Place
  <2>3. heap[p] = before.heap[p]
    BY <1>2, <2>2 DEF WalkedQuad
  <2>4. QED BY <2>1, <2>3, TargetIs, Distinct DEF Assigns, Denotes
<1>5. PICK j \in 1 .. at - 1 : p = Place(j)
  BY <1>2, <1>3, <1>4 DEF Source
<1>6. QED BY <1>5 DEF Place

LEMMA TouchedWalked == ASSUME Walked, Touched, bound \in Bounds PROVE Walked'
<1>1. PICK n \in Nat : n = Len(ta_code)
  BY DEF Walked
<1>2. /\ before' = before /\ bound' = bound /\ at' = at + 1 /\ at \in 1 .. n
      /\ ta_code' \in Seq(Quads) /\ Len(ta_code') = n /\ Len(before.code) = n
      /\ Made(before.heap, before.code) /\ heap' \in [1 .. 3 * n -> Addresses]
  BY <1>1, TouchedQuads DEF Walked, Touched
<1>3. ASSUME NEW k \in 1 .. n PROVE WalkedQuad(k)'
  <2>1. WalkedQuad(k) /\ WalkedQuad(at)
    BY <1>1, <1>2, <1>3 DEF Walked
  <2>2. /\ ta_code'[k].result = Place(k)
        /\ ta_code'[k].arg1 = before.code[k].arg1 /\ ta_code'[k].arg2 = before.code[k].arg2
        /\ ta_code'[k].arg2 # None => ta_code'[k].op \in BinaryOps
    <3>1. CASE k = at
      BY <1>1, <2>1, <3>1, TouchedQuads DEF WalkedQuad
    <3>2. CASE k # at
      BY <1>1, <2>1, <3>2, TouchedQuads DEF WalkedQuad
    <3>3. QED BY <3>1, <3>2
  <2>3. ASSUME k >= at + 1 PROVE ta_code'[k] = before.code[k] /\ \A p \in Place(k) .. 3 * k : heap'[p] = before.heap[p]
    <3>1. ta_code'[k] = ta_code[k] /\ k >= at
      BY <1>1, <1>2, <2>3, TouchedQuads
    <3>2. \A p \in Place(k) .. 3 * k : heap'[p] = heap[p]
      <4>1. TAKE p \in Place(k) .. 3 * k
      <4>2. p \in 1 .. 3 * n /\ p > 3 * at /\ p # Place(at)
        BY <1>2, <2>3 DEF Place
      <4>3. p \notin Reads(Q)
        <5>1. p \notin 1 .. 3 * at
          BY <1>2, <4>2
        <5>2. QED BY <1>1, <5>1, TouchedPlaces
      <4>4. QED BY <1>1, <4>2, <4>3, TouchedPlaces
    <3>3. QED BY <2>1, <3>1, <3>2 DEF WalkedQuad
  <2>4. ~ta_code'[k].dead => SameTarget(heap'[Place(k)], before.heap[Place(k)])
    <3>1. CASE k = at
      <4>1. ~ta_code'[at].dead => heap'[Place(at)] = heap[Place(at)]
        BY DEF Touched
      <4>2. Place(at) \in Place(at) .. 3 * at
        BY <1>2 DEF Place
      <4>3. heap[Place(at)] = before.heap[Place(at)]
        BY <1>1, <4>2, TouchedPlaces
      <4>4. QED BY <3>1, <4>1, <4>3 DEF SameTarget
    <3>2. CASE k # at
      <4>1. ta_code'[k] = ta_code[k] /\ Place(k) # Place(at) /\ Place(k) \in 1 .. 3 * n
        BY <1>1, <1>3, <3>2, TouchedQuads, TouchedPlaces, QuadIs
      <4>2. SameTarget(heap'[Place(k)], heap[Place(k)])
        BY <1>1, <4>1, TouchedPlaces
      <4>3. QED BY <2>1, <4>1, <4>2 DEF WalkedQuad, SameTarget
    <3>3. QED BY <3>1, <3>2
  <2>5. QED BY <1>2, <2>2, <2>3, <2>4 DEF WalkedQuad
<1>4. ASSUME NEW p \in 1 .. 3 * n PROVE Sane(heap'[p]) /\ Bounded(heap', p)
  <2>1. Bounded(heap, p)
    BY <1>1, <1>4 DEF Walked
  <2>2. CASE p # Place(at)
    BY <1>1, <1>4, <2>1, <2>2, TouchedPlaces DEF SameTarget, Bounded
  <2>3. CASE p = Place(at)
    <3>1. Sane(heap'[p])
      BY <2>3 DEF Touched
    <3>2. CASE heap'[p] = heap[p]
      BY <2>1, <3>1, <3>2 DEF Bounded
    <3>3. ASSUME NEW r \in Reads(Q), heap'[p].table_id \in {heap[r].table_id, NoId} PROVE Bounded(heap', p)
      <4>1. SUFFICES ASSUME NEW m \in 1 .. 3 * MaxCode, heap'[p].table_id = TempId(m) PROVE m <= p
        BY DEF Bounded
      <4>2. heap[r].table_id = TempId(m)
        BY <3>3, <4>1, Distinct
      <4>3. r < Place(at) /\ r \in 1 .. 3 * at
        BY <1>1, <1>2, <4>2, ReadTemp, TouchedPlaces
      <4>4. r \in 1 .. 3 * n
        BY <1>2, <4>3
      <4>5. m <= r
        BY <1>1, <4>2, <4>4 DEF Walked, Bounded
      <4>6. QED BY <2>3, <4>3, <4>5
    <3>4. QED BY <2>3, <3>1, <3>2, <3>3 DEF Touched
  <2>4. QED BY <2>2, <2>3
<1>5. /\ (Made(before.heap, before.code))'
      /\ \A p \in 1 .. 3 * n : (Sane(heap[p]) /\ Bounded(heap, p))'
      /\ heap' \in [1 .. 3 * n -> Addresses']
  BY <1>2, <1>4 DEF Made, MaxCode, Addresses, Ids, Sane, Clean, Bounded
<1>6. at' \in 1 .. n + 1
  BY <1>2
<1>7. QED BY <1>2, <1>3, <1>5, <1>6 DEF Walked

LEMMA TouchedLives == ASSUME Walked, Touched, Lives, bound \in Bounds PROVE Lives'
<1>1. PICK n \in Nat : n = Len(ta_code)
  BY DEF Walked
<1>2. /\ at \in 1 .. n /\ Len(ta_code') = n /\ Q = ta_code[at] /\ ~ta_code[at].dead
      /\ \A k \in 1 .. n : k # at => ta_code'[k] = ta_code[k]
      /\ \A k \in 1 .. n : Reads(ta_code'[k]) = Reads(ta_code[k])
  BY <1>1, TouchedQuads
<1>3. /\ \A p \in 1 .. 3 * n : p # Place(at) => heap'[p].table_id = heap[p].table_id
      /\ \A j \in 1 .. n : j # at => Place(j) # Place(at)
      /\ \A k \in 1 .. n : Place(k) \in 1 .. 3 * n /\ \A p \in Reads(ta_code[k]) : p \in 1 .. 3 * k /\ p \in 1 .. 3 * n
  BY <1>1, TouchedPlaces, QuadIs DEF SameTarget
<1>4. \A j \in 1 .. n : j # at => heap'[Place(j)].table_id = heap[Place(j)].table_id
  BY <1>3
<1>5. SUFFICES ASSUME NEW k \in 1 .. n, ~ta_code'[k].dead, NEW p \in Reads(ta_code[k]), heap'[p].table_id[1] = "temporary"
               PROVE  \E j \in 1 .. k - 1 : ~ta_code'[j].dead /\ heap'[Place(j)].table_id = heap'[p].table_id
  BY <1>2 DEF Lives
<1>6. ~ta_code[k].dead
  BY <1>2, <1>5
<1>7. p \in 1 .. 3 * k /\ p \in 1 .. 3 * n /\ Source(before.heap, k, p)
  BY <1>1, <1>5, QuadIs
<1>8. CASE k = at
  <2>1. heap'[Place(at)] = heap[Place(at)]
    BY <1>5, <1>8 DEF Touched
  <2>2. heap'[p].table_id = heap[p].table_id
    BY <1>3, <1>7, <2>1
  <2>3. PICK j \in 1 .. k - 1 : ~ta_code[j].dead /\ heap[Place(j)].table_id = heap[p].table_id
    BY <1>1, <1>5, <1>6, <2>2 DEF Lives
  <2>4. j \in 1 .. n /\ j # at
    BY <1>8
  <2>5. QED BY <1>2, <1>4, <2>2, <2>3, <2>4
<1>9. CASE k < at
  <2>1. p # Place(at)
    BY <1>2, <1>7, <1>9 DEF Place
  <2>2. heap'[p].table_id = heap[p].table_id
    BY <1>3, <1>7, <2>1
  <2>3. PICK j \in 1 .. k - 1 : ~ta_code[j].dead /\ heap[Place(j)].table_id = heap[p].table_id
    BY <1>1, <1>5, <1>6, <2>2 DEF Lives
  <2>4. j \in 1 .. n /\ j # at
    BY <1>2, <1>9
  <2>5. QED BY <1>2, <1>4, <2>2, <2>3, <2>4
<1>10. CASE k > at
  <2>1. p \notin Reads(Q)
    <3>1. at \in 1 .. n /\ at # k
      BY <1>2, <1>10
    <3>2. Reads(ta_code[at]) \cap Reads(ta_code[k]) = {}
      BY <1>1, <3>1, QuadIs
    <3>3. QED BY <1>2, <1>5, <3>2
  <2>2. at \in 1 .. k - 1 /\ Place(at) \in Place(at) .. 3 * at
    BY <1>2, <1>10 DEF Place
  <2>3. heap[Place(at)] = before.heap[Place(at)]
    BY <1>1, <2>2, TouchedPlaces
  <2>4. CASE p = Place(at) /\ ~ta_code'[at].dead
    BY <2>2, <2>4
  <2>5. CASE p = Place(at) /\ ta_code'[at].dead
    <3>1. heap'[p] # heap[p] \/ ~Assigns(heap, at)
      BY <1>5, <2>5, TargetIs, Naming DEF Assigns, Denotes
    <3>2. PICK r \in Reads(Q) : heap'[p].table_id \in {heap[r].table_id, NoId}
      BY <2>5, <3>1 DEF Touched
    <3>3. heap'[p].table_id = heap[r].table_id
      BY <1>5, <3>2, Naming
    <3>4. PICK j \in 1 .. at - 1 : ~ta_code[j].dead /\ heap[Place(j)].table_id = heap[r].table_id
      BY <1>1, <1>2, <1>5, <3>2, <3>3 DEF Lives
    <3>5. j \in 1 .. n /\ j # at /\ j \in 1 .. k - 1
      BY <1>2, <1>10
    <3>6. QED BY <1>2, <1>4, <3>3, <3>4, <3>5
  <2>6. CASE p # Place(at)
    <3>1. heap'[p].table_id = heap[p].table_id
      BY <1>3, <1>7, <2>6
    <3>2. PICK j \in 1 .. k - 1 : ~ta_code[j].dead /\ heap[Place(j)].table_id = heap[p].table_id
      BY <1>1, <1>5, <1>6, <3>1 DEF Lives
    <3>3. j \in 1 .. n
      OBVIOUS
    <3>4. CASE j # at
      BY <1>2, <1>4, <3>1, <3>2, <3>3, <3>4
    <3>5. CASE j = at /\ ~ta_code'[at].dead
      <4>1. heap'[Place(at)] = heap[Place(at)]
        BY <3>5 DEF Touched
      <4>2. QED BY <3>1, <3>2, <3>5, <4>1
    <3>6. CASE j = at /\ ta_code'[at].dead
      <4>1. heap[p].table_id = TempId(Place(at))
        <5>1. MadeQuad(before.heap, before.code[at], at)
          BY <1>1, <1>2, QuadIs
        <5>2. ~Assigns(before.heap, at)
          BY <1>5, <2>3, <3>1, <3>2, <3>6, TargetIs, Naming DEF Assigns, Denotes
        <5>3. before.heap[Place(at)] = Temp(Place(at))
          BY <5>1, <5>2 DEF MadeQuad, Computes
        <5>4. QED BY <2>3, <3>2, <3>6, <5>3, TargetIs
      <4>2. Place(at) \in 1 .. 3 * MaxCode
        <5>1. n <= MaxCode /\ MaxCode \in Nat
          BY <1>1, BoundIs DEF Walked, Made
        <5>2. QED BY <1>2, <5>1 DEF Place
      <4>3. Place(at) <= p
        BY <1>1, <1>7, <4>1, <4>2 DEF Walked, Bounded
      <4>4. WalkedQuad(k) /\ Sane(heap[p])
        BY <1>1, <1>7 DEF Walked
      <4>5. \A i \in Place(k) .. 3 * k : heap[i] = before.heap[i]
        BY <1>2, <1>10, <4>4 DEF WalkedQuad
      <4>6. ~(p \in {3 * k - 1, 3 * k} /\ Leaf(before.heap[p]))
        <5>1. p \in {3 * k - 1, 3 * k} => p \in Place(k) .. 3 * k
          BY DEF Place
        <5>2. QED BY <4>1, <4>4, <4>5, <5>1, NotTemp
      <4>7. ~(p = Place(k) /\ Assigns(before.heap, k))
        <5>1. Place(k) \in Place(k) .. 3 * k
          BY DEF Place
        <5>2. QED BY <4>1, <4>5, <5>1, TargetIs, Distinct DEF Assigns, Denotes
      <4>8. PICK i \in 1 .. k - 1 : p = Place(i) /\ \A h \in i .. k - 1 : Computes(before.heap, h)
        BY <1>7, <4>6, <4>7 DEF Source
      <4>9. i > at /\ i \in 1 .. n /\ i \in i .. k - 1
        BY <1>2, <2>6, <4>3, <4>8 DEF Place
      <4>10. WalkedQuad(i) /\ Place(i) \in Place(i) .. 3 * i
        BY <1>1, <4>9 DEF Walked, Place
      <4>11. heap[p] = before.heap[p] /\ before.heap[p] = Temp(p)
        BY <1>2, <4>8, <4>9, <4>10 DEF WalkedQuad, Computes
      <4>12. QED BY <2>6, <4>1, <4>11, TargetIs, Distinct
    <3>7. QED BY <3>4, <3>5, <3>6
  <2>7. QED BY <2>4, <2>5, <2>6
<1>11. QED BY <1>2, <1>8, <1>9, <1>10

(***************************************************************************)
(* The values.  Refolds says of a step that what is left of the quad       *)
(* computes, or its result's address now has, what the quad meant.         *)
(***************************************************************************)
Simulates(s) ==
    s.ok /\ Means(Q, heap, s) =>
        LET t == Execute(ta_code'[at], heap', s)
        IN  /\ t.ok
            /\ \/ /\ heap'[Place(at)] = heap[Place(at)]
                  /\ t = [s EXCEPT !.mem[heap[Place(at)].table_id] = Yields(Q, heap, s)]
               \/ Computes(heap, at) /\ t = s /\ Read(s.mem, heap'[Place(at)]) = Yields(Q, heap, s)
               \/ Assigns(heap, at) /\ t = s /\ s.mem[heap[Place(at)].table_id] = Yields(Q, heap, s)

Refolds == \A s \in States : Simulates(s)

LEMMA WalkedRuns == ASSUME Walked PROVE Runnable(heap, ta_code) /\ Runnable(before.heap, before.code)
<1>1. PICK n \in Nat : n = Len(ta_code)
  BY DEF Walked
<1>2. ASSUME NEW k \in 1 .. n PROVE Runs(ta_code[k], heap)
  <2>1. /\ ta_code[k] \in Quads /\ ta_code[k].result = Place(k) /\ MadeQuad(before.heap, before.code[k], k)
        /\ \A p \in Reads(ta_code[k]) : p \in 1 .. 3 * n
        /\ Place(k) \in 1 .. 3 * n
    BY <1>1, QuadIs
  <2>2. WalkedQuad(k) /\ \A p \in 1 .. 3 * n : Sane(heap[p]) /\ Sane(before.heap[p])
    BY <1>1 DEF Walked, Made
  <2>3. Sane(heap[ta_code[k].arg1]) /\ (ta_code[k].arg2 # None => Sane(heap[ta_code[k].arg2]) /\ ta_code[k].op \in BinaryOps)
    BY <2>1, <2>2 DEF Reads, MadeQuad, WalkedQuad
  <2>4. ~before.heap[Place(k)].con
    <3>1. \/ before.heap[Place(k)] = Temp(Place(k))
          \/ \E v \in Vars : Denotes(before.heap[Place(k)], v)
      BY <2>1 DEF MadeQuad, Computes, Assigns, Denotes
    <3>2. QED BY <3>1, TargetIs DEF Denotes
  <2>5. ~ta_code[k].dead => heap[Place(k)].table_id \in Ids
    BY <2>1, <2>2, <2>4 DEF WalkedQuad, SameTarget, Sane
  <2>6. QED BY <2>1, <2>3, <2>5 DEF Runs
<1>3. Runnable(heap, ta_code)
  BY <1>1, <1>2 DEF Runnable, Walked
<1>4. QED BY <1>3, MadeRuns DEF Walked

\* What a step leaves can be run.
LEMMA BehindRuns ==
    ASSUME Walked, Touched, bound \in Bounds
    PROVE  Runnable(heap', ta_code')
<1>1. bound' = bound
  BY DEF Touched
<1>2. Walked'
  BY TouchedWalked
<1>3. Runnable(heap, ta_code)'
  <2>1. Walked' => Runnable(heap, ta_code)'
    BY WalkedRuns, PTL
  <2>2. QED BY <1>2, <2>1
<1>4. QED BY <1>1, <1>3 DEF Runnable, Runs, Sane, Addresses, Ids, MaxCode

\* The code behind the iterator is not affected by a step.
LEMMA BehindSame ==
    ASSUME Walked, Touched, bound \in Bounds, NEW start \in Starts
    PROVE  Run(heap, ta_code, start)[at - 1] = Run(heap', ta_code', start)[at - 1]
<1>1. PICK n \in Nat : n = Len(ta_code)
  BY DEF Walked
<1>2. /\ at \in 1 .. n /\ Len(ta_code') = n /\ Q = ta_code[at]
      /\ \A k \in 1 .. n : k # at => ta_code'[k] = ta_code[k]
  BY <1>1, TouchedQuads
<1>3. bound' = bound
  BY DEF Touched
<1>4. Runnable(heap, ta_code) /\ Runnable(heap', ta_code')
  BY WalkedRuns, BehindRuns
<1>7. ASSUME NEW k \in 1 .. at - 1 PROVE ta_code[k] = ta_code'[k] /\ Alike(ta_code[k], heap, heap')
  <2>1. k \in 1 .. n /\ k # at
    BY <1>2
  <2>2. ta_code[k] = ta_code'[k]
    BY <1>2, <2>1
  <2>3. /\ ta_code[k].result = Place(k) /\ Place(k) \in 1 .. 3 * n /\ Place(k) # Place(at)
        /\ \A p \in Reads(ta_code[k]) : p \in 1 .. 3 * k /\ p \in 1 .. 3 * n
        /\ Reads(ta_code[at]) \cap Reads(ta_code[k]) = {}
        /\ MadeQuad(before.heap, before.code[k], k) /\ WalkedQuad(k)
    BY <1>1, <1>2, <2>1, QuadIs, TouchedPlaces DEF Walked
  <2>4. \A p \in Reads(ta_code[k]) : p # Place(at)
    <3>1. Place(at) \notin 1 .. 3 * k
      BY <1>2, <2>1 DEF Place
    <3>2. QED BY <2>3, <3>1
  <2>5. \A p \in Reads(ta_code[k]) : heap'[p] = heap[p]
    BY <1>1, <1>2, <2>3, <2>4, TouchedPlaces
  <2>6. ta_code[k].arg1 # None
    BY <2>3 DEF MadeQuad, WalkedQuad
  <2>7. heap'[ta_code[k].arg1] = heap[ta_code[k].arg1]
        /\ (ta_code[k].arg2 # None => heap'[ta_code[k].arg2] = heap[ta_code[k].arg2])
    BY <2>5, <2>6 DEF Reads
  <2>8. heap'[Place(k)].table_id = heap[Place(k)].table_id
    BY <1>1, <2>3, TouchedPlaces DEF SameTarget
  <2>9. QED BY <2>2, <2>3, <2>7, <2>8 DEF Alike
<1>8. at - 1 \in Nat /\ at - 1 <= Len(ta_code) /\ at - 1 <= Len(ta_code')
  BY <1>1, <1>2
<1>9. QED BY <1>4, <1>7, <1>8, RunSame

\* Before the quad is run, its operands have the same values in both runs.
LEMMA OperandsAgree ==
    ASSUME Walked, at \in 1 .. Len(ta_code), NEW w \in States, NEW n \in States, w.ok, Agree(w, n)
    PROVE  \A p \in Reads(Q) : Read(n.mem, heap[p]) = Read(w.mem, before.heap[p])
<1>1. PICK m \in Nat : m = Len(ta_code)
  BY DEF Walked
<1>2. Q = ta_code[at]
  BY DEF Q
<1>3. SUFFICES ASSUME NEW p \in Reads(Q) PROVE Read(n.mem, heap[p]) = Read(w.mem, before.heap[p])
  OBVIOUS
<1>4. Source(before.heap, at, p) /\ WalkedQuad(at)
  BY <1>1, <1>2, QuadIs DEF Walked
<1>5. \A v \in Vars : n.mem[VariableId(v)] = w.mem[VariableId(v)]
  BY DEF Agree
<1>6. \A a : \A v \in Vars : Denotes(a, v) => Read(n.mem, a) = Read(w.mem, a)
  BY <1>5 DEF Read, Denotes
<1>7. CASE p \in {3 * at - 1, 3 * at} /\ Leaf(before.heap[p])
  <2>1. p \in Place(at) .. 3 * at
    BY <1>7 DEF Place
  <2>2. heap[p] = before.heap[p]
    BY <1>4, <2>1 DEF WalkedQuad
  <2>3. CASE heap[p].con
    BY <2>2, <2>3 DEF Read
  <2>4. QED BY <1>6, <1>7, <2>2, <2>3 DEF Leaf, Denotes
<1>8. CASE p = Place(at) /\ Assigns(before.heap, at)
  <2>1. p \in Place(at) .. 3 * at
    BY <1>8 DEF Place
  <2>2. heap[p] = before.heap[p]
    BY <1>4, <2>1 DEF WalkedQuad
  <2>3. QED BY <1>6, <1>8, <2>2 DEF Assigns, Denotes
<1>9. ASSUME NEW j \in 1 .. at - 1, p = Place(j), \A i \in j .. at - 1 : Computes(before.heap, i)
      PROVE  Read(n.mem, heap[p]) = Read(w.mem, before.heap[p])
  <2>1. Ahead(j)
    BY <1>2, <1>9 DEF Ahead
  <2>2. Read(n.mem, heap[p]) = w.mem[TempId(p)]
    BY <1>9, <2>1 DEF Agree
  <2>3. j \in j .. at - 1
    OBVIOUS
  <2>4. before.heap[p] = Temp(p)
    BY <1>9, <2>3 DEF Computes
  <2>5. QED BY <2>2, <2>4 DEF Read, Temp
<1>10. QED BY <1>4, <1>7, <1>8, <1>9 DEF Source
\* A result that is read after the quad at the iterator: nothing is assigned before its reader.
LEMMA AheadIs ==
    ASSUME Walked, Touched, bound \in Bounds, NEW n \in Nat, n = Len(ta_code),
           NEW j \in 1 .. at, NEW k \in at + 1 .. n, Place(j) \in Reads(ta_code[k])
    PROVE  /\ Computes(before.heap, at)
           /\ j # at => /\ heap'[Place(j)] = heap[Place(j)] /\ Sane(heap[Place(j)])
                        /\ Ahead(j) /\ heap[Place(j)].table_id # TempId(Place(at))
<1>1. at \in 1 .. n /\ Q = ta_code[at]
  BY TouchedQuads
<1>2. k \in 1 .. n /\ k # at /\ j \in 1 .. n
  BY <1>1
<1>3. Source(before.heap, k, Place(j)) /\ Reads(ta_code[at]) \cap Reads(ta_code[k]) = {}
  BY <1>1, <1>2, QuadIs
<1>4. Place(j) \notin {3 * k - 1, 3 * k} /\ Place(j) # Place(k)
  BY <1>1 DEF Place
<1>5. PICK i \in 1 .. k - 1 : Place(j) = Place(i) /\ \A h \in i .. k - 1 : Computes(before.heap, h)
  BY <1>3, <1>4 DEF Source
<1>6. at \in i .. k - 1
  BY <1>1, <1>5 DEF Place
<1>7. Computes(before.heap, at)
  BY <1>5, <1>6
<1>8. ASSUME j # at
      PROVE  /\ heap'[Place(j)] = heap[Place(j)] /\ Sane(heap[Place(j)])
             /\ Ahead(j) /\ heap[Place(j)].table_id # TempId(Place(at))
  <2>1. Place(j) \in 1 .. 3 * n /\ Place(j) # Place(at) /\ Place(j) < Place(at)
    BY <1>1, <1>2, <1>8 DEF Place
  <2>2. heap'[Place(j)] = heap[Place(j)]
    BY <1>1, <1>3, <2>1, TouchedPlaces
  <2>3. Sane(heap[Place(j)]) /\ Bounded(heap, Place(j))
    BY <2>1 DEF Walked
  <2>4. Ahead(j)
    BY <1>1 DEF Ahead
  <2>5. Place(at) \in 1 .. 3 * MaxCode
    <3>1. n <= MaxCode /\ MaxCode \in Nat
      BY BoundIs DEF Walked, Made
    <3>2. QED BY <1>1, <3>1 DEF Place
  <2>6. Place(j) \in Int /\ Place(at) \in Int
    BY <1>1 DEF Place
  <2>7. heap[Place(j)].table_id # TempId(Place(at))
    BY <2>1, <2>3, <2>5, <2>6 DEF Bounded
  <2>8. QED BY <2>2, <2>3, <2>4, <2>7
<1>9. QED BY <1>7, <1>8

\* Agree of the next state.
AgreeOn(w, n) ==
    w.ok => /\ n.ok
            /\ \A v \in Vars : n.mem[VariableId(v)] = w.mem[VariableId(v)]
            /\ \A j \in 1 .. at : (\E k \in at + 1 .. Len(ta_code) : Place(j) \in Reads(ta_code[k])) =>
                   Read(n.mem, heap'[Place(j)]) = w.mem[TempId(Place(j))]

\* Both runs, the text's and what the walk has made, over one more quad.
LEMMA Onward ==
    ASSUME Walked, Touched, bound \in Bounds, NEW w \in States, NEW n \in States, Agree(w, n), Simulates(n)
    PROVE  AgreeOn(Execute(before.code[at], before.heap, w), Execute(ta_code'[at], heap', n))
<1>1. PICK m \in Nat : m = Len(ta_code)
  BY DEF Walked
<1>2. at \in 1 .. m /\ Q = ta_code[at] /\ Q = before.code[at] /\ ~Q.dead
  BY <1>1, TouchedQuads
<1>3. PICK b : b = Execute(Q, before.heap, w)
  OBVIOUS
<1>4. PICK t : t = Execute(ta_code'[at], heap', n)
  OBVIOUS
<1>5. SUFFICES ASSUME b.ok PROVE AgreeOn(b, t)
  BY <1>2, <1>3, <1>4 DEF AgreeOn
<1>6. Place(at) \in Place(at) .. 3 * at /\ Place(at) \in 1 .. 3 * m
  BY <1>2 DEF Place
<1>7. heap[Place(at)] = before.heap[Place(at)] /\ MadeQuad(before.heap, Q, at) /\ Q.result = Place(at)
  BY <1>1, <1>2, <1>6, TouchedPlaces, QuadIs DEF MadeQuad
<1>8. PICK R : R = heap[Place(at)].table_id
  OBVIOUS
<1>9. PICK y : y = Yields(Q, before.heap, w)
  OBVIOUS
<1>10. Runs(Q, before.heap)
  BY <1>1, <1>2, WalkedRuns DEF Runnable, Walked
<1>11. w.ok /\ Means(Q, before.heap, w) /\ y \in Int /\ b = [w EXCEPT !.mem[R] = y]
  BY <1>2, <1>3, <1>5, <1>7, <1>8, <1>9, <1>10, ExecuteIs
<1>12. R \in Ids
  BY <1>2, <1>7, <1>8, <1>10 DEF Runs
<1>13. n.ok /\ Means(Q, heap, n) /\ Yields(Q, heap, n) = y
  <2>1. \A p \in Reads(Q) : Read(n.mem, heap[p]) = Read(w.mem, before.heap[p])
    BY <1>1, <1>2, <1>11, OperandsAgree
  <2>2. Q.arg1 # None
    BY <1>7 DEF MadeQuad
  <2>3. Value1(Q, heap, n) = Value1(Q, before.heap, w)
    BY <2>1, <2>2 DEF Reads, Value1
  <2>4. Q.arg2 # None => Value2(Q, heap, n) = Value2(Q, before.heap, w)
    BY <2>1 DEF Reads, Value2
  <2>5. Means(Q, heap, n)
    BY <1>11, <2>3, <2>4 DEF Means
  <2>6. Yields(Q, heap, n) = y
    BY <1>9, <2>3, <2>4 DEF Yields
  <2>7. QED BY <1>11, <2>5, <2>6 DEF Agree
<1>14. /\ t.ok
       /\ \/ heap'[Place(at)] = heap[Place(at)] /\ t = [n EXCEPT !.mem[R] = y]
          \/ Computes(heap, at) /\ t = n /\ Read(n.mem, heap'[Place(at)]) = y
          \/ Assigns(heap, at) /\ t = n /\ n.mem[R] = y
  BY <1>4, <1>8, <1>13 DEF Simulates
<1>15. Agree(w, n) /\ \A v \in Vars : n.mem[VariableId(v)] = w.mem[VariableId(v)] /\ VariableId(v) \in Ids
  BY <1>11 DEF Agree, Ids
<1>16. \A i \in Ids : b.mem[i] = IF i = R THEN y ELSE w.mem[i]
  BY <1>11, <1>12 DEF States
<1>17. t = [n EXCEPT !.mem[R] = y] => \A i \in Ids : t.mem[i] = IF i = R THEN y ELSE n.mem[i]
  BY <1>12 DEF States
<1>18. Computes(heap, at) => R = TempId(Place(at)) /\ \A v \in Vars : VariableId(v) # R
  BY <1>8, TargetIs, Distinct DEF Computes
<1>19. \A v \in Vars : t.mem[VariableId(v)] = b.mem[VariableId(v)]
  <2>1. CASE t = [n EXCEPT !.mem[R] = y]
    BY <1>15, <1>16, <1>17, <2>1
  <2>2. CASE Computes(heap, at) /\ t = n
    BY <1>15, <1>16, <1>18, <2>2
  <2>3. CASE t = n /\ n.mem[R] = y
    BY <1>15, <1>16, <2>3
  <2>4. QED BY <1>14, <2>1, <2>2, <2>3
<1>20. ASSUME NEW j \in 1 .. at, NEW k \in at + 1 .. m, Place(j) \in Reads(ta_code[k])
       PROVE  Read(t.mem, heap'[Place(j)]) = b.mem[TempId(Place(j))]
  <2>1. Computes(before.heap, at)
    BY <1>1, <1>20, AheadIs
  <2>2. Computes(heap, at) /\ ~Assigns(heap, at) /\ heap[Place(at)] = Temp(Place(at))
    <3>1. before.heap[Place(at)] = Temp(Place(at))
      BY <2>1 DEF Computes
    <3>2. QED BY <1>7, <3>1, TargetIs, Distinct DEF Computes, Assigns, Denotes
  <2>3. R = TempId(Place(at))
    BY <1>18, <2>2
  <2>4. TempId(Place(j)) \in Ids
    <3>1. m <= MaxCode /\ MaxCode \in Nat
      BY <1>1, BoundIs DEF Walked, Made
    <3>2. Place(j) \in 1 .. 3 * MaxCode
      BY <1>2, <3>1 DEF Place
    <3>3. QED BY <3>2 DEF Ids
  <2>5. CASE j = at
    <3>1. b.mem[TempId(Place(j))] = y
      BY <1>12, <1>16, <2>3, <2>5
    <3>2. CASE heap'[Place(at)] = heap[Place(at)] /\ t = [n EXCEPT !.mem[R] = y]
      <4>1. Read(t.mem, heap'[Place(j)]) = t.mem[R]
        BY <2>2, <2>3, <2>5, <3>2, TargetIs DEF Read
      <4>2. QED BY <1>12, <1>17, <3>1, <3>2, <4>1
    <3>3. CASE t = n /\ Read(n.mem, heap'[Place(at)]) = y
      BY <2>5, <3>1, <3>3
    <3>4. QED BY <1>14, <2>2, <3>2, <3>3
  <2>6. CASE j # at
    <3>1. /\ heap'[Place(j)] = heap[Place(j)] /\ Sane(heap[Place(j)])
          /\ Ahead(j) /\ heap[Place(j)].table_id # R
      BY <1>1, <1>20, <2>3, <2>6, AheadIs
    <3>2. Read(n.mem, heap[Place(j)]) = w.mem[TempId(Place(j))]
      BY <1>2, <1>11, <2>6, <3>1 DEF Agree
    <3>3. TempId(Place(j)) # R
      <4>1. Place(j) # Place(at)
        BY <1>2, <2>6 DEF Place
      <4>2. QED BY <2>3, <4>1, Distinct
    <3>4. b.mem[TempId(Place(j))] = w.mem[TempId(Place(j))]
      BY <1>16, <2>4, <3>3
    <3>5. Read(t.mem, heap[Place(j)]) = Read(n.mem, heap[Place(j)])
      <4>1. CASE t = n
        BY <4>1
      <4>2. CASE t = [n EXCEPT !.mem[R] = y]
        BY <1>17, <3>1, <4>2 DEF Read, Sane
      <4>3. QED BY <1>14, <4>1, <4>2
    <3>6. QED BY <3>1, <3>2, <3>4, <3>5
  <2>7. QED BY <2>5, <2>6
<1>21. QED BY <1>1, <1>14, <1>19, <1>20 DEF AgreeOn

LEMMA MeantOn ==
    ASSUME Walked, Touched, Meant, Refolds, bound \in Bounds, \A p \in 1 .. 3 * Len(ta_code) : Clean(heap'[p])
    PROVE  Meant'
<1>1. PICK n \in Nat : n = Len(ta_code)
  BY DEF Walked
<1>2. /\ before' = before /\ bound' = bound /\ at' = at + 1 /\ at \in 1 .. n /\ Len(ta_code') = n
      /\ Len(before.code) = n /\ \A k \in 1 .. n : Reads(ta_code'[k]) = Reads(ta_code[k])
  BY <1>1, TouchedQuads DEF Walked, Touched
<1>3. Runnable(heap', ta_code') /\ Runnable(heap, ta_code) /\ Runnable(before.heap, before.code)
  BY WalkedRuns, BehindRuns
<1>4. ASSUME NEW start \in Starts
      PROVE  Agree(Run(before.heap, before.code, start)[at - 1], Run(heap, ta_code, start)[at - 1])'
  <2>1. PICK w : w = Run(before.heap, before.code, start)[at - 1]
    OBVIOUS
  <2>2. PICK m : m = Run(heap, ta_code, start)[at - 1]
    OBVIOUS
  <2>3. at - 1 \in 0 .. n /\ at \in 0 .. n
    BY <1>2
  <2>4. w \in States /\ m \in States
    <3>1. Run(before.heap, before.code, start) \in [0 .. n -> States]
      BY <1>2, <1>3, RunIs
    <3>2. Run(heap, ta_code, start) \in [0 .. n -> States]
      BY <1>1, <1>3, RunIs
    <3>3. QED BY <2>1, <2>2, <2>3, <3>1, <3>2
  <2>5. Agree(w, m) /\ Simulates(m)
    BY <2>1, <2>2, <2>4 DEF Meant, Refolds
  <2>6. m = Run(heap', ta_code', start)[at - 1]
    BY <2>2, BehindSame
  <2>7. Run(before.heap, before.code, start)[at] = Execute(before.code[at], before.heap, w)
    BY <1>2, <1>3, <2>1, RunIs
  <2>8. Run(heap', ta_code', start)[at] = Execute(ta_code'[at], heap', m)
    BY <1>2, <1>3, <2>6, RunIs
  <2>9. AgreeOn(Run(before.heap, before.code, start)[at], Run(heap', ta_code', start)[at])
    BY <2>4, <2>5, <2>7, <2>8, Onward
  <2>10. PICK b : b = Run(before.heap, before.code, start)[at]
    OBVIOUS
  <2>11. PICK t : t = Run(heap', ta_code', start)[at]
    OBVIOUS
  <2>12. (Run(before.heap, before.code, start)[at - 1])' = b /\ (Run(heap, ta_code, start)[at - 1])' = t
    <3>1. at' - 1 = at
      BY <1>2
    <3>2. QED BY <1>2, <2>10, <2>11, <3>1 DEF Run, Beginning, Ids, MaxCode
  <2>13. AgreeOn(b, t)
    BY <2>9, <2>10, <2>11
  <2>14. b.ok => /\ t.ok
                 /\ \A v \in Vars : t.mem[VariableId(v)] = b.mem[VariableId(v)]
                 /\ \A j \in 1 .. at' - 1 : Ahead(j)' => Read(t.mem, heap'[Place(j)]) = b.mem[TempId(Place(j))]
    <3>1. at' - 1 = at /\ at' = at + 1 /\ \A k \in at' .. n : k \in 1 .. n
      BY <1>2
    <3>2. \A j : Ahead(j)' => \E k \in at + 1 .. n : Place(j) \in Reads(ta_code[k])
      BY <1>2, <3>1 DEF Ahead
    <3>3. QED BY <1>1, <2>13, <3>1, <3>2 DEF AgreeOn
  <2>15. QED BY <2>12, <2>14 DEF Agree
<1>5. \A p \in 1 .. 3 * n : Clean(heap[p])'
  BY <1>1 DEF Clean
<1>6. QED BY <1>1, <1>2, <1>4, <1>5 DEF Meant, Starts
(***************************************************************************)
(* The walk's steps, one by one.                                           *)
(***************************************************************************)

\* A step of the walk that is like all others, and right unless it is one of
\* the simplifications known to be wrong.
LEMMA WalkKeeps ==
    ASSUME IInv, Touched, fault' \in {"none", "unfolded", "renamed", "rounding", "namesake"},
           fault' = "none" => fault = "none" /\ Refolds /\ \A p \in 1 .. 3 * Len(ta_code) : Clean(heap'[p])
    PROVE  IInv'
<1>1. phase = "pass" /\ phase' = phase /\ bound' = bound /\ pending' = pending
  BY DEF Touched
<1>2. bound \in Bounds /\ pending = {} /\ Walked /\ Lives /\ (fault = "none" => Meant)
  BY <1>1 DEF IInv
<1>3. Walked' /\ Lives'
  BY <1>2, TouchedWalked, TouchedLives
<1>4. fault' = "none" => Meant'
  BY <1>2, MeantOn
<1>5. QED BY <1>1, <1>2, <1>3, <1>4 DEF IInv

Here ==
    /\ Q \in Quads /\ Q.result = Place(at) /\ ~Q.dead
    /\ Q.arg1 \in 1 .. 3 * Len(ta_code) /\ Q.arg1 # None /\ Place(at) \in 1 .. 3 * Len(ta_code)
    /\ Sane(Arg1) /\ Sane(heap[Place(at)]) /\ ~heap[Place(at)].con
    /\ Computes(heap, at) \/ Assigns(heap, at)
    /\ Q.arg2 = None => Assigns(heap, at) /\ Reads(Q) = {Q.arg1}
    /\ Q.arg2 # None => /\ Q.arg2 \in 1 .. 3 * Len(ta_code) /\ Q.arg2 # Place(at) /\ Q.arg1 # Q.arg2
                        /\ Sane(Arg2) /\ Q.op \in BinaryOps /\ Reads(Q) = {Q.arg1, Q.arg2}
                        /\ Assigns(heap, at) <=> Q.arg1 = Place(at)

\* The quad at the iterator, and its operands.
LEMMA HereIs == ASSUME Walked, at <= Len(ta_code) PROVE Here
<1>1. PICK n \in Nat : n = Len(ta_code)
  BY DEF Walked
<1>2. at \in 1 .. n /\ Q = ta_code[at]
  BY <1>1 DEF Walked, Q
<1>3. WalkedQuad(at) /\ \A p \in 1 .. 3 * n : Sane(heap[p])
  BY <1>1, <1>2 DEF Walked
<1>4. Q = before.code[at] /\ \A p \in Place(at) .. 3 * at : heap[p] = before.heap[p]
  <2>1. at >= at
    BY <1>2
  <2>2. QED BY <1>2, <1>3, <2>1, Zenon DEF WalkedQuad
<1>5. /\ Q \in Quads /\ Q.result = Place(at) /\ MadeQuad(before.heap, Q, at)
      /\ \A p \in Reads(Q) : p \in 1 .. 3 * n
      /\ Place(at) \in 1 .. 3 * n
  <2>1. /\ ta_code[at] \in Quads /\ ta_code[at].result = Place(at) /\ MadeQuad(before.heap, before.code[at], at)
        /\ \A p \in Reads(ta_code[at]) : p \in 1 .. 3 * at /\ p \in 1 .. 3 * n /\ Source(before.heap, at, p)
        /\ Place(at) \in 1 .. 3 * n
    BY <1>1, <1>2, QuadIs
  <2>2. QED BY <1>2, <1>4, <2>1
<1>6. Place(at) \in Place(at) .. 3 * at
  BY <1>2 DEF Place
<1>7. heap[Place(at)] = before.heap[Place(at)]
  BY <1>4, <1>6
<1>8. (Computes(before.heap, at) <=> Computes(heap, at)) /\ (Assigns(before.heap, at) <=> Assigns(heap, at))
  BY <1>7 DEF Computes, Assigns, Denotes
<1>9. /\ ~Q.dead /\ Q.arg1 # None /\ Q.arg1 # Q.arg2 /\ Q.arg2 # Place(at)
      /\ Computes(heap, at) \/ Assigns(heap, at)
      /\ Q.arg2 = None => Assigns(heap, at)
      /\ Q.arg2 # None => Q.op \in BinaryOps /\ (Assigns(heap, at) => Q.arg1 = Place(at))
  BY <1>5, <1>8 DEF MadeQuad
<1>10. (Q.arg2 = None => Reads(Q) = {Q.arg1}) /\ (Q.arg2 # None => Reads(Q) = {Q.arg1, Q.arg2})
  BY <1>9 DEF Reads
<1>11. Q.arg1 \in 1 .. 3 * n /\ (Q.arg2 # None => Q.arg2 \in 1 .. 3 * n)
  BY <1>5, <1>10
<1>12. Sane(Arg1) /\ Sane(heap[Place(at)]) /\ (Q.arg2 # None => Sane(Arg2))
  BY <1>3, <1>5, <1>11 DEF Arg1, Arg2
<1>13. ~heap[Place(at)].con
  <2>1. heap[Place(at)] = Temp(Place(at)) \/ \E v \in Vars : Denotes(heap[Place(at)], v)
    BY <1>9 DEF Computes, Assigns, Denotes
  <2>2. QED BY <2>1, TargetIs DEF Denotes
<1>14. Q.arg1 = Place(at) => Assigns(heap, at)
  <2>1. SUFFICES ASSUME Q.arg1 = Place(at), Computes(heap, at) PROVE FALSE
    BY <1>9
  <2>2. Place(at) \in Reads(Q) /\ heap[Place(at)].table_id = TempId(Place(at))
    BY <1>10, <2>1, TargetIs DEF Computes
  <2>3. Place(at) < Place(at)
    BY <1>1, <1>2, <2>2, ReadTemp
  <2>4. QED BY <1>2, <2>3 DEF Place
<1>15. QED BY <1>1, <1>5, <1>9, <1>10, <1>11, <1>12, <1>13, <1>14 DEF Here

\* An address whose name is a number is a constant, unless it was renamed.
LEMMA NumberIs ==
    ASSUME NEW a, Sane(a), Clean(a), NEW c \in Int, a.name = Number(c)
    PROVE  a.con /\ Value(a) = c
BY Distinct, Naming DEF Sane, Clean, Value

LEMMA RuleMatches == Matches(Rule)
<1> DEFINE S == {k \in DOMAIN Rules : Matches(Rules[k])}
<1>1. DOMAIN Rules = 1 .. 15 /\ Rules[15] = "none"
  BY DEF Rules
<1>2. 15 \in S
  BY <1>1 DEF Matches
<1>3. S \subseteq Nat
  BY <1>1
<1>4. Min(S) \in S
  <2> HIDE DEF S
  <2>1. \E k \in S : \A m \in S : k <= m
    BY <1>2, <1>3, LeastNumber
  <2>2. QED BY <2>1, Zenon DEF Min
<1>5. QED BY <1>4, Zenon DEF Rule

\* A quad that stays as it is computes what it did.
LEMMA StaysRight == ASSUME Walked, at <= Len(ta_code), heap' = heap, ta_code'[at] = Q PROVE Refolds
<1>1. Here
  BY HereIs
<1>2. Runs(Q, heap)
  BY <1>1 DEF Here, Runs, Arg1, Arg2, Sane
<1>3. SUFFICES ASSUME NEW s \in States, s.ok, Means(Q, heap, s)
               PROVE  /\ Execute(Q, heap, s).ok
                      /\ Execute(Q, heap, s) = [s EXCEPT !.mem[heap[Place(at)].table_id] = Yields(Q, heap, s)]
  BY DEF Refolds, Simulates
<1>4. Execute(Q, heap, s) = [s EXCEPT !.mem[heap[Q.result].table_id] = Yields(Q, heap, s)]
  BY <1>1, <1>2, <1>3, ExecuteIs DEF Here
<1>5. QED BY <1>1, <1>3, <1>4 DEF Here, States

\* A quad that dies does nothing, so its result's address must do it.
LEMMA DiesRight ==
    ASSUME ta_code'[at].dead,
           \A s \in States : s.ok /\ Means(Q, heap, s) =>
               \/ Computes(heap, at) /\ Read(s.mem, heap'[Place(at)]) = Yields(Q, heap, s)
               \/ Assigns(heap, at) /\ s.mem[heap[Place(at)].table_id] = Yields(Q, heap, s)
    PROVE  Refolds
<1>1. \A s : Execute(ta_code'[at], heap', s) = s
  BY DEF Execute
<1>2. QED BY <1>1 DEF Refolds, Simulates
LEMMA PassIs ==
    ASSUME IInv, phase = "pass", at <= Len(ta_code)
    PROVE  /\ Walked /\ Here /\ bound \in Bounds /\ fault \in {"none", "unfolded", "renamed", "rounding", "namesake"}
           /\ ta_code \in Seq(Quads) /\ at \in 1 .. Len(ta_code) /\ Q = ta_code[at]
           /\ heap \in [1 .. 3 * Len(ta_code) -> Addresses] /\ \A p \in 1 .. 3 * Len(ta_code) : Sane(heap[p])
           /\ fault = "none" => \A p \in 1 .. 3 * Len(ta_code) : Clean(heap[p])
<1>1. Walked /\ bound \in Bounds /\ fault \in {"none", "unfolded", "renamed", "rounding", "namesake"} /\ (fault = "none" => Meant)
  BY DEF IInv
<1>2. Here
  BY <1>1, HereIs
<1>3. at \in 1 .. Len(ta_code) /\ Q = ta_code[at]
  BY <1>1 DEF Walked, Q
<1>4. fault = "none" => \A p \in 1 .. 3 * Len(ta_code) : Clean(heap[p])
  BY <1>1 DEF Meant
<1>5. QED BY <1>1, <1>2, <1>3, <1>4 DEF Walked

\* What is left to say of a step that changes the quad and some addresses.
LEMMA TouchedIs ==
    ASSUME IInv, phase = "pass", at <= Len(ta_code), NEW f, Step(f),
           NEW q \in Quads, ta_code' = [ta_code EXCEPT ![at] = q],
           q.result = Q.result, q.arg1 = Q.arg1, q.arg2 = Q.arg2, q.arg2 # None => q.op \in BinaryOps,
           heap' \in [1 .. 3 * Len(ta_code) -> Addresses],
           \A p \in 1 .. 3 * Len(ta_code) : p \notin Reads(Q) /\ p # Place(at) => heap'[p] = heap[p],
           \A p \in Reads(Q) : p # Place(at) => Sane(heap'[p]) /\ SameTarget(heap'[p], heap[p]),
           Sane(heap'[Place(at)]),
           ~q.dead => heap'[Place(at)] = heap[Place(at)],
           q.dead => \/ heap'[Place(at)] = heap[Place(at)] /\ Assigns(heap, at)
                     \/ \E p \in Reads(Q) : heap'[Place(at)].table_id \in {heap[p].table_id, NoId}
    PROVE  Touched /\ ta_code'[at] = q
<1>1. ta_code'[at] = q
  BY PassIs
<1>2. phase' = phase /\ bound' = bound /\ pending' = pending /\ before' = before /\ at' = at + 1
  BY DEF Step
<1>3. QED BY <1>1, <1>2 DEF Touched

LEMMA FaultIs ==
    ASSUME NEW f, Step(f), f \in {"none", "unfolded", "renamed", "rounding", "namesake"},
           fault \in {"none", "unfolded", "renamed", "rounding", "namesake"}
    PROVE  /\ fault' \in {"none", "unfolded", "renamed", "rounding", "namesake"}
           /\ fault' = "none" => fault = "none" /\ f = "none"
BY DEF Step

LEMMA CopyKeeps == ASSUME IInv, OptimiseCopy PROVE IInv'
<1> DEFINE d == Arg1.name = heap[Q.result].name
           f == IF d /\ Arg1.table_id # heap[Q.result].table_id THEN "namesake" ELSE "none"
           q == [Q EXCEPT !.dead = d]
<1>1. /\ phase = "pass" /\ at <= Len(ta_code) /\ Q.arg2 = None /\ heap' = heap /\ Step(f)
      /\ ta_code' = [ta_code EXCEPT ![at].dead = d]
  BY DEF OptimiseCopy
<1>2. /\ Walked /\ Here /\ bound \in Bounds /\ fault \in {"none", "unfolded", "renamed", "rounding", "namesake"}
      /\ ta_code \in Seq(Quads) /\ at \in 1 .. Len(ta_code) /\ Q = ta_code[at]
      /\ heap \in [1 .. 3 * Len(ta_code) -> Addresses] /\ \A p \in 1 .. 3 * Len(ta_code) : Sane(heap[p])
      /\ fault = "none" => \A p \in 1 .. 3 * Len(ta_code) : Clean(heap[p])
  BY <1>1, PassIs
<1>3. ta_code' = [ta_code EXCEPT ![at] = q]
  BY <1>1, <1>2
<1>4. /\ q \in Quads /\ q.result = Q.result /\ q.arg1 = Q.arg1 /\ q.arg2 = Q.arg2 /\ (q.dead <=> d)
      /\ ~d => q = Q
  BY <1>2 DEF Quads, Here
<1>5. Touched /\ ta_code'[at] = q
  <2>1. /\ \A p \in Reads(Q) : Sane(heap[p]) /\ SameTarget(heap[p], heap[p])
        /\ Sane(heap[Place(at)]) /\ Assigns(heap, at)
    BY <1>1, <1>2 DEF Here, SameTarget
  <2> HIDE DEF q
  <2>2. QED BY <1>1, <1>2, <1>3, <1>4, <2>1, TouchedIs
<1> HIDE DEF q
<1>6. ASSUME fault = "none", f = "none" PROVE Refolds
  <2>1. CASE d
    <3>1. Clean(Arg1) /\ Sane(Arg1)
      BY <1>2, <1>6 DEF Here, Arg1
    <3>2. PICK v \in Vars : Denotes(heap[Place(at)], v)
      BY <1>1, <1>2 DEF Here, Assigns, Denotes
    <3>3. Arg1.table_id = VariableId(v) /\ VariableId(v) \in Ids
      BY <1>2, <1>6, <2>1, <3>2 DEF Here, Ids, Denotes
    <3>4. ~Arg1.con /\ Arg1.table_id = VariableId(v)
      BY <3>1, <3>3, Distinct DEF Sane
    <3>5. heap[Place(at)].table_id = VariableId(v) /\ Assigns(heap, at)
      BY <3>2, TargetIs DEF Assigns, Denotes
    <3>6. \A s \in States : Yields(Q, heap, s) = s.mem[VariableId(v)]
      BY <1>1, <3>4 DEF Yields, Value1, Read, Arg1
    <3>7. ta_code'[at].dead
      BY <1>4, <1>5, <2>1
    <3>8. QED BY <3>5, <3>6, <3>7, DiesRight
  <2>2. CASE ~d
    BY <1>1, <1>2, <1>4, <1>5, <2>2, StaysRight
  <2>3. QED BY <2>1, <2>2
<1>7. /\ fault' \in {"none", "unfolded", "renamed", "rounding", "namesake"}
      /\ fault' = "none" => fault = "none" /\ f = "none"
  BY <1>1, <1>2, FaultIs
<1>8. QED BY <1>1, <1>2, <1>5, <1>6, <1>7, FaultIs, WalkKeeps

\* The quad and the addresses stay.
LEMMA LeftKeeps ==
    ASSUME IInv, phase = "pass", at <= Len(ta_code), Q.arg2 # None, UNCHANGED <<heap, ta_code>>, Step("none")
    PROVE  IInv'
<1>1. /\ Walked /\ Here /\ bound \in Bounds /\ fault \in {"none", "unfolded", "renamed", "rounding", "namesake"}
      /\ ta_code \in Seq(Quads) /\ at \in 1 .. Len(ta_code) /\ Q = ta_code[at]
      /\ heap \in [1 .. 3 * Len(ta_code) -> Addresses] /\ \A p \in 1 .. 3 * Len(ta_code) : Sane(heap[p])
      /\ fault = "none" => \A p \in 1 .. 3 * Len(ta_code) : Clean(heap[p])
  BY PassIs
<1>2. ta_code' = [ta_code EXCEPT ![at] = Q]
  BY <1>1
<1>3. Touched /\ ta_code'[at] = Q
  <2>1. /\ \A p \in Reads(Q) : Sane(heap[p]) /\ SameTarget(heap[p], heap[p])
        /\ Sane(heap[Place(at)]) /\ Q \in Quads /\ ~Q.dead /\ Q.op \in BinaryOps
    BY <1>1 DEF Here, SameTarget, Arg1, Arg2
  <2>2. heap' = heap
    OBVIOUS
  <2>3. QED BY <1>1, <1>2, <2>1, <2>2, TouchedIs
<1>4. Refolds
  BY <1>1, <1>3, StaysRight
<1>5. QED BY <1>1, <1>3, <1>4, FaultIs, WalkKeeps

LEMMA SimplifyIs ==
    ASSUME NEW rules, Simplify(rules)
    PROVE  phase = "pass" /\ at <= Len(ta_code) /\ Q.arg2 # None /\ ~Constants /\ Rule \in rules
BY Zenon DEF Simplify

LEMMA StaysKeeps == ASSUME IInv, Stays PROVE IInv'
<1>1. Simplify({"zero minus", "over zero", "none"}) /\ UNCHANGED <<heap, ta_code>> /\ Step("none")
  BY Zenon DEF Stays
<1>2. phase = "pass" /\ at <= Len(ta_code) /\ Q.arg2 # None
  BY <1>1, SimplifyIs, Zenon
<1>3. UNCHANGED <<heap, ta_code>> /\ Step("none")
  BY <1>1, Zenon
<1>4. QED BY <1>2, <1>3, LeftKeeps

LEMMA MatchesIs ==
    /\ Matches("plus zero")        <=> Op({"+", "-"}) /\ Arg2.name = Number(0)
    /\ Matches("zero plus")        <=> Op({"+"}) /\ Arg1.name = Number(0)
    /\ Matches("times zero")       <=> Op({"*"}) /\ Arg2.name = Number(0)
    /\ Matches("zero times")       <=> Op({"*"}) /\ Arg1.name = Number(0)
    /\ Matches("zero over")        <=> Op({"/"}) /\ Arg1.name = Number(0)
    /\ Matches("one on the right") <=> Op({"*", "/"}) /\ Arg2.name = Number(1)
    /\ Matches("one times")        <=> Op({"*"}) /\ Arg1.name = Number(1)
    /\ Matches("times power")      <=> Op({"*"}) /\ Arg2.con /\ Power(Value(Arg2))
    /\ Matches("over power")       <=> Op({"/"}) /\ Arg2.con /\ Power(Value(Arg2))
    /\ Matches("over itself")      <=> Op({"/"}) /\ Arg2.name = Arg1.name
    /\ Matches("minus itself")     <=> Op({"-"}) /\ Arg2.name = Arg1.name
BY Zenon DEF Matches
\* The quad dies and its result becomes one of its operands, whose value it computed.
LEMMA AliasKeeps ==
    ASSUME IInv, phase = "pass", at <= Len(ta_code), Q.arg2 # None, NEW p \in Reads(Q), Alias(heap[p], "none"),
           fault = "none" =>
               /\ \A s \in States : Means(Q, heap, s) => Yields(Q, heap, s) = Read(s.mem, heap[p])
               /\ Assigns(heap, at) => p = Place(at)
    PROVE  IInv'
<1>1. /\ heap' = [heap EXCEPT ![Q.result] = heap[p]] /\ Step("none")
      /\ ta_code' = [ta_code EXCEPT ![at].dead = TRUE]
  BY DEF Alias, Die
<1> DEFINE q == [Q EXCEPT !.dead = TRUE]
<1>2. /\ Walked /\ Here /\ bound \in Bounds /\ fault \in {"none", "unfolded", "renamed", "rounding", "namesake"}
      /\ ta_code \in Seq(Quads) /\ at \in 1 .. Len(ta_code) /\ Q = ta_code[at]
      /\ heap \in [1 .. 3 * Len(ta_code) -> Addresses] /\ \A i \in 1 .. 3 * Len(ta_code) : Sane(heap[i])
      /\ fault = "none" => \A i \in 1 .. 3 * Len(ta_code) : Clean(heap[i])
  BY PassIs
<1>3. ta_code' = [ta_code EXCEPT ![at] = q]
  BY <1>1, <1>2
<1>4. q \in Quads /\ q.result = Q.result /\ q.arg1 = Q.arg1 /\ q.arg2 = Q.arg2 /\ q.op = Q.op /\ q.dead
  BY <1>2 DEF Quads, Here
<1>5. p \in 1 .. 3 * Len(ta_code) /\ Q.result = Place(at) /\ Place(at) \in 1 .. 3 * Len(ta_code) /\ Q.op \in BinaryOps
      /\ \A i \in Reads(Q) : i \in 1 .. 3 * Len(ta_code)
  BY <1>2 DEF Here
<1>6. /\ heap' \in [1 .. 3 * Len(ta_code) -> Addresses] /\ heap'[Place(at)] = heap[p]
      /\ \A i \in 1 .. 3 * Len(ta_code) : i # Place(at) => heap'[i] = heap[i]
  BY <1>1, <1>2, <1>5
<1>7. \A i \in Reads(Q) : i # Place(at) => Sane(heap'[i]) /\ SameTarget(heap'[i], heap[i])
  BY <1>2, <1>5, <1>6 DEF SameTarget
<1>8. Touched /\ ta_code'[at] = q
  <2> HIDE DEF q
  <2>1. Sane(heap'[Place(at)])
    BY <1>2, <1>5, <1>6
  <2>2. \A i \in 1 .. 3 * Len(ta_code) : i \notin Reads(Q) /\ i # Place(at) => heap'[i] = heap[i]
    BY <1>6
  <2>3. q.dead => \E i \in Reads(Q) : heap'[Place(at)].table_id \in {heap[i].table_id, NoId}
    BY <1>6
  <2>4. QED BY <1>1, <1>3, <1>4, <1>5, <1>6, <1>7, <2>1, <2>2, <2>3, TouchedIs
<1>9. ASSUME fault = "none" PROVE Refolds /\ \A i \in 1 .. 3 * Len(ta_code) : Clean(heap'[i])
  <2>1. \A i \in 1 .. 3 * Len(ta_code) : Clean(heap'[i])
    BY <1>2, <1>5, <1>6, <1>9
  <2>2. Computes(heap, at) \/ Assigns(heap, at)
    BY <1>2 DEF Here
  <2>3. ASSUME NEW s \in States, s.ok, Means(Q, heap, s)
        PROVE  \/ Computes(heap, at) /\ Read(s.mem, heap'[Place(at)]) = Yields(Q, heap, s)
               \/ Assigns(heap, at) /\ s.mem[heap[Place(at)].table_id] = Yields(Q, heap, s)
    <3>1. CASE Computes(heap, at)
      BY <1>6, <1>9, <2>3, <3>1
    <3>2. CASE Assigns(heap, at)
      <4>1. p = Place(at) /\ ~heap[p].con
        BY <1>2, <1>9, <3>2 DEF Here
      <4>2. Yields(Q, heap, s) = Read(s.mem, heap[p])
        BY <1>9, <2>3
      <4>3. QED BY <3>2, <4>1, <4>2 DEF Read
    <3>3. QED BY <2>2, <3>1, <3>2
  <2>4. ta_code'[at].dead
    BY <1>4, <1>8
  <2>5. Refolds
    BY <2>3, <2>4, DiesRight
  <2>6. QED BY <2>1, <2>5
<1>10. QED BY <1>1, <1>2, <1>8, <1>9, FaultIs, WalkKeeps

\* What the operands of a quad that does not have two constants look like, and
\* what an operand named as a number is, unless one was renamed.
LEMMA OperandNames ==
    ASSUME IInv, phase = "pass", at <= Len(ta_code), Q.arg2 # None, fault = "none", NEW c \in Int
    PROVE  /\ Arg1.name = Number(c) => /\ Arg1.con /\ Computes(heap, at)
                                       /\ \A s : Value1(Q, heap, s) = c
           /\ Arg2.name = Number(c) => Arg2.con /\ \A s : Value2(Q, heap, s) = c
           /\ Q.arg1 \in Reads(Q) /\ Q.arg2 \in Reads(Q)
           /\ \A s \in States : Value1(Q, heap, s) \in Int /\ Value2(Q, heap, s) \in Int
<1>1. Here /\ \A i \in 1 .. 3 * Len(ta_code) : Clean(heap[i])
  BY PassIs
<1>2. Sane(Arg1) /\ Sane(Arg2) /\ Clean(Arg1) /\ Clean(Arg2) /\ Q.arg1 \in Reads(Q) /\ Q.arg2 \in Reads(Q)
  BY <1>1 DEF Here, Arg1, Arg2
<1>3. ASSUME Arg1.name = Number(c) PROVE Arg1.con /\ Computes(heap, at) /\ \A s : Value1(Q, heap, s) = c
  <2>1. Arg1.con /\ Value(Arg1) = c
    BY <1>2, <1>3, NumberIs
  <2>2. Q.arg1 # Place(at)
    BY <1>1, <2>1 DEF Here, Arg1
  <2>3. Computes(heap, at)
    BY <1>1, <2>2 DEF Here
  <2>4. QED BY <2>1, <2>3 DEF Value1, Read, Arg1
<1>4. ASSUME Arg2.name = Number(c) PROVE Arg2.con /\ \A s : Value2(Q, heap, s) = c
  <2>1. Arg2.con /\ Value(Arg2) = c
    BY <1>2, <1>4, NumberIs
  <2>2. QED BY <2>1 DEF Value2, Read, Arg2
<1>5. \A s \in States : Value1(Q, heap, s) \in Int /\ Value2(Q, heap, s) \in Int
  BY <1>2, ReadIs DEF Value1, Value2, Arg1, Arg2
<1>6. QED BY <1>2, <1>3, <1>4, <1>5

LEMMA LeftRight == ASSUME IInv, BecomesLeft PROVE IInv'
<1>1. Simplify({"plus zero", "one on the right"}) /\ Alias(Arg1, "none")
  BY Zenon DEF BecomesLeft
<1>2. phase = "pass" /\ at <= Len(ta_code) /\ Q.arg2 # None
  BY <1>1, SimplifyIs, Zenon
<1>3. Matches("plus zero") \/ Matches("one on the right")
  <2>1. Rule \in {"plus zero", "one on the right"}
    BY <1>1, SimplifyIs, Zenon
  <2>2. QED BY <2>1, RuleMatches, Zenon
<1>4. Q.arg1 \in Reads(Q) /\ (Assigns(heap, at) => Q.arg1 = Place(at))
  <2>1. Here
    BY <1>2, PassIs
  <2>2. QED BY <1>2, <2>1 DEF Here
<1>5. ASSUME fault = "none", NEW s \in States, Means(Q, heap, s)
      PROVE  Yields(Q, heap, s) = Value1(Q, heap, s)
  <2>1. PICK x \in Int : x = Value1(Q, heap, s)
    BY <1>2, <1>5, OperandNames
  <2>2. CASE Op({"+", "-"}) /\ Arg2.name = Number(0)
    <3>1. Value2(Q, heap, s) = 0
      BY <1>2, <1>5, <2>2, OperandNames
    <3>2. Meaning("+", x, 0) = x /\ Meaning("-", x, 0) = x
      BY Identities
    <3>3. QED BY <1>2, <2>1, <2>2, <3>1, <3>2 DEF Yields, Op
  <2>3. CASE Op({"*", "/"}) /\ Arg2.name = Number(1)
    <3>1. Value2(Q, heap, s) = 1
      BY <1>2, <1>5, <2>3, OperandNames
    <3>2. Meaning("*", x, 1) = x /\ Meaning("/", x, 1) = x
      BY Identities
    <3>3. QED BY <1>2, <2>1, <2>3, <3>1, <3>2 DEF Yields, Op
  <2>4. (Op({"+", "-"}) /\ Arg2.name = Number(0)) \/ (Op({"*", "/"}) /\ Arg2.name = Number(1))
    BY <1>3, MatchesIs, Zenon
  <2>5. QED BY <2>2, <2>3, <2>4
<1>6. Alias(heap[Q.arg1], "none")
  BY <1>1, Zenon DEF Arg1
<1>7. \A s \in States : Value1(Q, heap, s) = Read(s.mem, heap[Q.arg1])
  BY DEF Value1
<1>8. QED BY <1>2, <1>4, <1>5, <1>6, <1>7, AliasKeeps

LEMMA RightRight == ASSUME IInv, BecomesRight PROVE IInv'
<1>1. Simplify({"zero plus", "one times"}) /\ Alias(Arg2, "none")
  BY Zenon DEF BecomesRight
<1>2. Matches("zero plus") \/ Matches("one times")
  <2>1. Rule \in {"zero plus", "one times"}
    BY <1>1, SimplifyIs, Zenon
  <2>2. QED BY <2>1, RuleMatches, Zenon
<1>3. (Op({"+"}) /\ Arg1.name = Number(0)) \/ (Op({"*"}) /\ Arg1.name = Number(1))
  BY <1>2, MatchesIs, Zenon
<1>4. phase = "pass" /\ at <= Len(ta_code) /\ Q.arg2 # None
  BY <1>1, SimplifyIs, Zenon
<1>5. Q.arg2 \in Reads(Q) /\ (Assigns(heap, at) /\ Computes(heap, at) => FALSE)
  <2>1. Here
    BY <1>4, PassIs
  <2>2. QED BY <1>4, <2>1, TargetIs, Distinct DEF Here, Assigns, Computes, Denotes
<1>6. ASSUME fault = "none", NEW s \in States, Means(Q, heap, s)
      PROVE  Yields(Q, heap, s) = Value2(Q, heap, s) /\ Computes(heap, at)
  <2>1. PICK y \in Int : y = Value2(Q, heap, s)
    BY <1>4, <1>6, OperandNames
  <2>2. CASE Op({"+"}) /\ Arg1.name = Number(0)
    <3>1. Value1(Q, heap, s) = 0 /\ Computes(heap, at)
      BY <1>4, <1>6, <2>2, OperandNames
    <3>2. Meaning("+", 0, y) = y
      BY Identities
    <3>3. QED BY <1>4, <2>1, <2>2, <3>1, <3>2 DEF Yields, Op
  <2>3. CASE Op({"*"}) /\ Arg1.name = Number(1)
    <3>1. Value1(Q, heap, s) = 1 /\ Computes(heap, at)
      BY <1>4, <1>6, <2>3, OperandNames
    <3>2. Meaning("*", 1, y) = y
      BY Identities
    <3>3. QED BY <1>4, <2>1, <2>3, <3>1, <3>2 DEF Yields, Op
  <2>4. QED BY <1>3, <2>2, <2>3
<1>7. fault = "none" => Computes(heap, at)
  BY <1>3, <1>4, OperandNames
<1>8. Alias(heap[Q.arg2], "none")
  BY <1>1, Zenon DEF Arg2
<1>9. \A s \in States : Value2(Q, heap, s) = Read(s.mem, heap[Q.arg2])
  BY DEF Value2
<1>10. QED BY <1>4, <1>5, <1>6, <1>7, <1>8, <1>9, AliasKeeps
LEMMA ConstantKeeps == ASSUME IInv, BecomesConstant PROVE IInv'
<1> DEFINE rules == {"times zero", "zero times", "zero over", "over itself", "minus itself"}
<1>1. Simplify(rules)
  BY Zenon DEF BecomesConstant
<1>2. phase = "pass" /\ at <= Len(ta_code) /\ Q.arg2 # None /\ ~(Arg1.con /\ Arg2.con)
  BY <1>1, SimplifyIs, Zenon DEF Constants
<1>3. Rule \in rules
  BY <1>1, SimplifyIs, Zenon
<1>4. PICK c : c = IF Rule = "over itself" THEN 1 ELSE 0
  BY Zenon
<1>5. PICK a : /\ a = [Arg1 EXCEPT !.name = Number(c)]
               /\ heap' = [heap EXCEPT ![Q.arg1] = a, ![Q.result] = a]
               /\ Die /\ Step(IF a.con THEN "none" ELSE "renamed")
  BY <1>4, Zenon DEF BecomesConstant
<1>6. \/ Matches("times zero") \/ Matches("over itself") \/ Matches("minus itself")
      \/ (Matches("zero times") \/ Matches("zero over")) /\ c = 0
  BY <1>3, <1>4, RuleMatches, Zenon
<1>7. \/ Arg2.name = Number(0) \/ Arg2.name = Arg1.name
      \/ (Op({"*"}) \/ Op({"/"})) /\ Arg1.name = Number(0) /\ c = 0
  BY <1>6, MatchesIs, Zenon
<1>8. c \in {0, 1}
  <2>1. PICK isSelf \in BOOLEAN : isSelf = (Rule = "over itself")
    BY Zenon
  <2>2. c = IF isSelf THEN 1 ELSE 0
    BY <1>4, <2>1, Zenon
  <2>3. QED BY <2>2
<1> HIDE DEF rules
<1> DEFINE q == [Q EXCEPT !.dead = TRUE]
           f == IF a.con THEN "none" ELSE "renamed"
<1>9. /\ Walked /\ Here /\ bound \in Bounds /\ fault \in {"none", "unfolded", "renamed", "rounding", "namesake"}
      /\ ta_code \in Seq(Quads) /\ at \in 1 .. Len(ta_code) /\ Q = ta_code[at]
      /\ heap \in [1 .. 3 * Len(ta_code) -> Addresses] /\ \A i \in 1 .. 3 * Len(ta_code) : Sane(heap[i])
      /\ fault = "none" => \A i \in 1 .. 3 * Len(ta_code) : Clean(heap[i])
  BY <1>2, PassIs
<1>10. ta_code' = [ta_code EXCEPT ![at] = q]
  BY <1>5, <1>9 DEF Die
<1>11. q \in Quads /\ q.result = Q.result /\ q.arg1 = Q.arg1 /\ q.arg2 = Q.arg2 /\ q.op = Q.op /\ q.dead
  BY <1>9 DEF Quads, Here
<1>12. /\ Q.result = Place(at) /\ Place(at) \in 1 .. 3 * Len(ta_code) /\ Q.op \in BinaryOps
       /\ Q.arg1 \in 1 .. 3 * Len(ta_code) /\ Q.arg2 \in 1 .. 3 * Len(ta_code) /\ Reads(Q) = {Q.arg1, Q.arg2}
       /\ Sane(Arg1) /\ Sane(Arg2) /\ Q.arg1 # Q.arg2 /\ Q.arg2 # Place(at)
       /\ (Arg1.con => Computes(heap, at)) /\ Arg1 = heap[Q.arg1] /\ Arg2 = heap[Q.arg2]
  BY <1>2, <1>9 DEF Here, Arg1, Arg2
<1>13. a.con = Arg1.con /\ a.name = Number(c) /\ a.table_id = Arg1.table_id /\ Sane(a) /\ a \in Addresses
  <2>1. Number(c) \in Numerals
    BY <1>8 DEF Numerals
  <2>2. QED BY <1>5, <1>12, <2>1 DEF Sane, Addresses
<1>14. /\ heap' \in [1 .. 3 * Len(ta_code) -> Addresses] /\ heap'[Place(at)] = a /\ heap'[Q.arg1] = a
       /\ \A i \in 1 .. 3 * Len(ta_code) : i # Place(at) /\ i # Q.arg1 => heap'[i] = heap[i]
  <2> HIDE DEF q
  <2>1. QED BY <1>5, <1>9, <1>12, <1>13
<1>15. Touched /\ ta_code'[at] = q
  <2> HIDE DEF q
  <2>1. Step(f)
    BY <1>5
  <2> HIDE DEF f
  <2>2. \A i \in Reads(Q) : i # Place(at) => Sane(heap'[i]) /\ SameTarget(heap'[i], heap[i])
    BY <1>12, <1>13, <1>14 DEF SameTarget
  <2>3. \A i \in 1 .. 3 * Len(ta_code) : i \notin Reads(Q) /\ i # Place(at) => heap'[i] = heap[i]
    BY <1>12, <1>14
  <2>4. q.dead => \E i \in Reads(Q) : heap'[Place(at)].table_id \in {heap[i].table_id, NoId}
    BY <1>12, <1>13, <1>14
  <2>5. Sane(heap'[Place(at)]) /\ (q.arg2 # None => q.op \in BinaryOps)
    BY <1>11, <1>12, <1>13, <1>14
  <2>6. QED BY <1>2, <1>10, <1>11, <1>14, <2>1, <2>2, <2>3, <2>4, <2>5, TouchedIs
<1>16. f \in {"none", "renamed"} /\ (f = "none" => a.con)
  OBVIOUS
<1>17. ASSUME fault = "none", a.con PROVE Refolds /\ \A i \in 1 .. 3 * Len(ta_code) : Clean(heap'[i])
  <2>1. Arg1.con /\ ~Arg2.con /\ Clean(Arg1) /\ Clean(Arg2)
    BY <1>2, <1>9, <1>12, <1>13, <1>17
  <2>2. Arg2.name # Number(0) /\ Arg2.name # Arg1.name
    BY <1>12, <2>1, Distinct DEF Clean, Sane, Numerals
  <2>3. Op({"*", "/"}) /\ Arg1.name = Number(0) /\ c = 0
    BY <1>7, <2>2 DEF Op
  <2>4. \A i \in 1 .. 3 * Len(ta_code) : Clean(heap'[i])
    BY <1>9, <1>14, <1>17 DEF Clean
  <2>5. ASSUME NEW s \in States, Means(Q, heap, s)
        PROVE  Computes(heap, at) /\ Read(s.mem, heap'[Place(at)]) = Yields(Q, heap, s)
    <3>1. Value1(Q, heap, s) = 0 /\ Computes(heap, at)
      BY <1>2, <1>17, <2>3, OperandNames
    <3>2. PICK y \in Int : y = Value2(Q, heap, s)
      BY <1>2, <1>17, <2>5, OperandNames
    <3>3. Meaning("*", 0, y) = 0 /\ (y # 0 => Meaning("/", 0, y) = 0)
      BY Identities
    <3>4. Q.op = "/" => y # 0
      BY <1>2, <2>5, <3>2 DEF Means, Defined
    <3>5. Yields(Q, heap, s) = 0
      BY <1>2, <2>3, <3>1, <3>2, <3>3, <3>4 DEF Yields, Op
    <3>6. Read(s.mem, a) = 0
      BY <1>13, <1>17, <2>3, Naming DEF Read, Value
    <3>7. QED BY <1>14, <3>1, <3>5, <3>6
  <2>6. ta_code'[at].dead
    BY <1>11, <1>15
  <2>7. Refolds
    BY <2>5, <2>6, DiesRight
  <2>8. QED BY <2>4, <2>7
<1>18. Step(f)
  BY <1>5
<1> HIDE DEF f, q
<1>19. /\ fault' \in {"none", "unfolded", "renamed", "rounding", "namesake"}
       /\ fault' = "none" => fault = "none" /\ a.con
  BY <1>9, <1>16, <1>18, FaultIs
<1>20. QED BY <1>15, <1>17, <1>19, WalkKeeps

LEMMA ShiftKeeps == ASSUME IInv, BecomesShift PROVE IInv'
<1> DEFINE rules == {"times power", "over power"}
<1>1. Simplify(rules)
  BY Zenon DEF BecomesShift
<1>2. phase = "pass" /\ at <= Len(ta_code) /\ Q.arg2 # None
  BY <1>1, SimplifyIs, Zenon
<1>3. Rule \in rules
  BY <1>1, SimplifyIs, Zenon
<1>4. PICK o : o = IF Rule = "times power" THEN "<<" ELSE ">>"
  BY Zenon
<1>5. PICK f : f = IF Rule = "over power" THEN "rounding" ELSE "none"
  BY Zenon
<1>6. /\ heap' = [heap EXCEPT ![Q.arg2].name = Number(Log2(Value(Arg2)))]
      /\ ta_code' = [ta_code EXCEPT ![at].op = o]
      /\ Step(f)
  BY <1>4, <1>5, Zenon DEF BecomesShift
<1>7. Matches("times power") \/ Matches("over power")
  BY <1>3, RuleMatches, Zenon
<1>8. Arg2.con /\ Power(Value(Arg2))
  BY <1>7, MatchesIs, Zenon
<1>9. f \in {"none", "rounding"} /\ o \in {"<<", ">>"}
  <2>1. CASE Rule = "times power"
    <3>1. Rule # "over power"
      BY <2>1, Zenon
    <3>2. o = "<<" /\ f = "none"
      BY <1>4, <1>5, <2>1, <3>1, Zenon
    <3>3. QED BY <3>2
  <2>2. CASE Rule = "over power"
    <3>1. Rule # "times power"
      BY <2>2, Zenon
    <3>2. o = ">>" /\ f = "rounding"
      BY <1>4, <1>5, <2>2, <3>1, Zenon
    <3>3. QED BY <3>2
  <2>3. QED BY <1>3, <2>1, <2>2, Zenon
<1>10. f = "none" => o = "<<" /\ Op({"*"})
  <2>1. CASE Rule = "times power"
    <3>1. o = "<<"
      BY <1>4, <2>1, Zenon
    <3>2. Op({"*"})
      BY <2>1, RuleMatches, MatchesIs, Zenon
    <3>3. QED BY <3>1, <3>2
  <2>2. CASE Rule = "over power"
    <3>1. f = "rounding"
      BY <1>5, <2>2, Zenon
    <3>2. QED BY <3>1
  <2>3. QED BY <1>3, <2>1, <2>2, Zenon
<1> HIDE DEF rules
<1> DEFINE q == [Q EXCEPT !.op = o]
<1>11. /\ Walked /\ Here /\ bound \in Bounds /\ fault \in {"none", "unfolded", "renamed", "rounding", "namesake"}
       /\ ta_code \in Seq(Quads) /\ at \in 1 .. Len(ta_code) /\ Q = ta_code[at]
       /\ heap \in [1 .. 3 * Len(ta_code) -> Addresses] /\ \A i \in 1 .. 3 * Len(ta_code) : Sane(heap[i])
       /\ fault = "none" => \A i \in 1 .. 3 * Len(ta_code) : Clean(heap[i])
  BY <1>2, PassIs
<1>12. ta_code' = [ta_code EXCEPT ![at] = q]
  BY <1>6, <1>11
<1>13. o \in BinaryOps
  BY <1>9 DEF BinaryOps
<1>14. q \in Quads /\ q.result = Q.result /\ q.arg1 = Q.arg1 /\ q.arg2 = Q.arg2 /\ q.op = o /\ q.dead = Q.dead
  BY <1>11, <1>13 DEF Quads, Here
<1>15. /\ Q.result = Place(at) /\ Place(at) \in 1 .. 3 * Len(ta_code) /\ Q.op \in BinaryOps /\ ~Q.dead
       /\ Q.arg1 \in 1 .. 3 * Len(ta_code) /\ Q.arg2 \in 1 .. 3 * Len(ta_code) /\ Reads(Q) = {Q.arg1, Q.arg2}
       /\ Sane(Arg1) /\ Sane(Arg2) /\ Q.arg1 # Q.arg2 /\ Q.arg2 # Place(at)
       /\ Arg1 = heap[Q.arg1] /\ Arg2 = heap[Q.arg2]
       /\ Sane(heap[Place(at)]) /\ ~heap[Place(at)].con
  BY <1>2, <1>11 DEF Here, Arg1, Arg2
<1>16. PICK e \in 0 .. 30 : e = Log2(Value(Arg2))
  BY <1>8, LogIs
<1>17. PICK a : a = [Arg2 EXCEPT !.name = Number(e)]
  OBVIOUS
<1>18. /\ a.con /\ a.con = Arg2.con /\ a.name = Number(e) /\ a.table_id = Arg2.table_id
       /\ Sane(a) /\ a \in Addresses
  <2>1. Number(e) \in Numerals
    BY DEF Numerals
  <2>2. QED BY <1>8, <1>15, <1>17, <2>1 DEF Sane, Addresses
<1>19. heap' = [heap EXCEPT ![Q.arg2] = a]
  BY <1>6, <1>11, <1>15, <1>16, <1>17
<1>20. /\ heap' \in [1 .. 3 * Len(ta_code) -> Addresses] /\ heap'[Q.arg2] = a
       /\ \A i \in 1 .. 3 * Len(ta_code) : i # Q.arg2 => heap'[i] = heap[i]
  <2> HIDE DEF q
  <2>1. QED BY <1>11, <1>15, <1>18, <1>19
<1>21. Touched /\ ta_code'[at] = q
  <2> HIDE DEF q
  <2>1. \A i \in Reads(Q) : i # Place(at) => Sane(heap'[i]) /\ SameTarget(heap'[i], heap[i])
    <3>1. SameTarget(a, heap[Q.arg2]) /\ SameTarget(heap[Q.arg1], heap[Q.arg1])
      BY <1>15, <1>18 DEF SameTarget
    <3>2. heap'[Q.arg2] = a /\ heap'[Q.arg1] = heap[Q.arg1]
      BY <1>15, <1>20
    <3>3. QED BY <1>15, <1>18, <3>1, <3>2
  <2>2. \A i \in 1 .. 3 * Len(ta_code) : i \notin Reads(Q) /\ i # Place(at) => heap'[i] = heap[i]
    BY <1>15, <1>20
  <2>3. heap'[Place(at)] = heap[Place(at)] /\ Sane(heap'[Place(at)]) /\ ~q.dead
    BY <1>14, <1>15, <1>20
  <2>4. QED BY <1>2, <1>6, <1>12, <1>13, <1>14, <1>20, <2>1, <2>2, <2>3, TouchedIs
<1> HIDE DEF q
<1>22. ASSUME fault = "none", f = "none" PROVE Refolds /\ \A i \in 1 .. 3 * Len(ta_code) : Clean(heap'[i])
  <2>1. \A i \in 1 .. 3 * Len(ta_code) : Clean(heap'[i])
    BY <1>11, <1>18, <1>20, <1>22 DEF Clean
  <2>2. heap'[Place(at)] = heap[Place(at)] /\ heap'[Q.arg1] = heap[Q.arg1] /\ heap'[Q.arg2] = a
    BY <1>15, <1>20
  <2>3. Runs(q, heap')
    BY <1>13, <1>14, <1>15, <1>18, <2>2 DEF Runs, Sane
  <2>4. ASSUME NEW s \in States, s.ok, Means(Q, heap, s)
        PROVE  /\ Execute(q, heap', s).ok
               /\ Execute(q, heap', s) = [s EXCEPT !.mem[heap[Place(at)].table_id] = Yields(Q, heap, s)]
    <3>1. PICK x \in Int : x = Value1(Q, heap, s)
      BY <1>2, <1>22, <2>4, OperandNames
    <3>2. PICK y \in Int : y = Value(Arg2)
      BY <1>8, <1>15, ValueIs
    <3>3. Value2(Q, heap, s) = y /\ Power(y) /\ e = Log2(y)
      BY <1>8, <1>15, <1>16, <3>2 DEF Value2, Read
    <3>4. Meaning("<<", x, e) = Meaning("*", x, y)
      BY <3>3, Identities
    <3>5. Value1(q, heap', s) = x
      BY <1>14, <2>2, <3>1 DEF Value1
    <3>6. Value2(q, heap', s) = e
      BY <1>14, <1>18, <2>2, Naming DEF Value2, Read, Value
    <3>7. q.op = "<<" /\ Q.op = "*" /\ q.arg2 # None
      BY <1>2, <1>10, <1>14, <1>22 DEF Op
    <3>8. Means(q, heap', s)
      BY <3>6, <3>7 DEF Means, Defined
    <3>9. Yields(q, heap', s) = Yields(Q, heap, s)
      BY <1>2, <3>1, <3>3, <3>4, <3>5, <3>6, <3>7 DEF Yields
    <3>10. Execute(q, heap', s) = [s EXCEPT !.mem[heap'[q.result].table_id] = Yields(q, heap', s)]
      BY <1>14, <1>15, <2>3, <2>4, <3>8, ExecuteIs
    <3>11. heap'[q.result].table_id = heap[Place(at)].table_id
      BY <1>14, <1>15, <2>2
    <3>12. QED BY <2>4, <3>9, <3>10, <3>11 DEF States
  <2>5. Refolds
    BY <1>21, <2>2, <2>4 DEF Refolds, Simulates
  <2>6. QED BY <2>1, <2>5
<1>23. /\ fault' \in {"none", "unfolded", "renamed", "rounding", "namesake"}
       /\ fault' = "none" => fault = "none" /\ f = "none"
  BY <1>6, <1>9, <1>11, FaultIs
<1>24. QED BY <1>21, <1>22, <1>23, WalkKeeps
LEMMA FoldKeeps == ASSUME IInv, FoldConstants PROVE IInv'
<1>1. phase = "pass" /\ at <= Len(ta_code) /\ Q.arg2 # None /\ Arg1.con /\ Arg2.con
  BY DEF FoldConstants, Constants
<1>2. CASE Op({"/"}) /\ Value(Arg2) = 0
  <2>1. UNCHANGED <<heap, ta_code>> /\ Step("none")
    BY <1>2, Zenon DEF FoldConstants
  <2>2. QED BY <1>1, <2>1, LeftKeeps
<1>3. CASE ~(Op({"/"}) /\ Value(Arg2) = 0)
  <2>1. PICK c : c = IF Op(Folding) /\ Defined(Q.op, Value(Arg1), Value(Arg2))
                     THEN Meaning(Q.op, Value(Arg1), Value(Arg2)) ELSE Value(Arg1)
    BY Zenon
  <2>2. PICK f : f = IF Op(Folding) THEN "none" ELSE "unfolded"
    BY Zenon
  <2>3. PICK a : a = Constant(c)
    OBVIOUS
  <2>4. /\ heap' = [heap EXCEPT ![Q.arg1] = a, ![Q.result] = a]
        /\ ta_code' = [ta_code EXCEPT ![at].dead = TRUE]
        /\ Step(f)
    BY <1>3, <2>1, <2>2, <2>3, Zenon DEF FoldConstants, Die
  <2> DEFINE q == [Q EXCEPT !.dead = TRUE]
  <2>5. /\ Walked /\ Here /\ bound \in Bounds /\ fault \in {"none", "unfolded", "renamed", "rounding", "namesake"}
        /\ ta_code \in Seq(Quads) /\ at \in 1 .. Len(ta_code) /\ Q = ta_code[at]
        /\ heap \in [1 .. 3 * Len(ta_code) -> Addresses] /\ \A i \in 1 .. 3 * Len(ta_code) : Sane(heap[i])
        /\ fault = "none" => \A i \in 1 .. 3 * Len(ta_code) : Clean(heap[i])
    BY <1>1, PassIs
  <2>6. ta_code' = [ta_code EXCEPT ![at] = q]
    BY <2>4, <2>5
  <2>7. q \in Quads /\ q.result = Q.result /\ q.arg1 = Q.arg1 /\ q.arg2 = Q.arg2 /\ q.op = Q.op /\ q.dead
    BY <2>5 DEF Quads, Here
  <2> HIDE DEF q
  <2>8. /\ Q.result = Place(at) /\ Place(at) \in 1 .. 3 * Len(ta_code) /\ Q.op \in BinaryOps
        /\ Q.arg1 \in 1 .. 3 * Len(ta_code) /\ Q.arg2 \in 1 .. 3 * Len(ta_code) /\ Reads(Q) = {Q.arg1, Q.arg2}
        /\ Sane(Arg1) /\ Sane(Arg2) /\ Arg1 = heap[Q.arg1] /\ Arg2 = heap[Q.arg2]
        /\ Computes(heap, at)
    BY <1>1, <2>5 DEF Here, Arg1, Arg2
  <2>9. PICK x \in Int : x = Value(Arg1)
    BY <1>1, <2>8, ValueIs
  <2>10. PICK y \in Int : y = Value(Arg2)
    BY <1>1, <2>8, ValueIs
  <2>11. c = IF Op(Folding) /\ Defined(Q.op, x, y) THEN Meaning(Q.op, x, y) ELSE x
    BY <2>1, <2>9, <2>10
  <2>12. c \in Int
    BY <2>8, <2>11, MeaningIs
  <2>13. Sane(a) /\ Clean(a) /\ a.con /\ Value(a) = c /\ a.table_id = NoId /\ a \in Addresses
    BY <2>3, <2>5, <2>12, Leaves0, TargetIs DEF Sane
  <2>14. /\ heap' \in [1 .. 3 * Len(ta_code) -> Addresses] /\ heap'[Place(at)] = a /\ heap'[Q.arg1] = a
         /\ \A i \in 1 .. 3 * Len(ta_code) : i # Place(at) /\ i # Q.arg1 => heap'[i] = heap[i]
    BY <2>4, <2>5, <2>8, <2>13
  <2>15. Touched /\ ta_code'[at] = q
    <3>1. \A i \in Reads(Q) : i # Place(at) => Sane(heap'[i]) /\ SameTarget(heap'[i], heap[i])
      <4>1. SameTarget(a, heap[Q.arg1]) /\ SameTarget(heap[Q.arg2], heap[Q.arg2])
        BY <1>1, <2>8, <2>13 DEF SameTarget, Sane
      <4>2. \A i \in Reads(Q) : i # Place(at) => heap'[i] = IF i = Q.arg1 THEN a ELSE heap[i]
        BY <2>8, <2>14
      <4>3. QED BY <2>8, <2>13, <4>1, <4>2
    <3>2. \A i \in 1 .. 3 * Len(ta_code) : i \notin Reads(Q) /\ i # Place(at) => heap'[i] = heap[i]
      BY <2>8, <2>14
    <3>3. q.dead => \E i \in Reads(Q) : heap'[Place(at)].table_id \in {heap[i].table_id, NoId}
      BY <2>8, <2>13, <2>14
    <3>4. Sane(heap'[Place(at)]) /\ (q.arg2 # None => q.op \in BinaryOps)
      BY <2>7, <2>8, <2>13, <2>14
    <3>5. QED BY <1>1, <2>4, <2>6, <2>7, <2>14, <3>1, <3>2, <3>3, <3>4, TouchedIs
  <2>16. f \in {"none", "unfolded"} /\ (f = "none" => Op(Folding))
    BY <2>2
  <2>17. ASSUME fault = "none", f = "none" PROVE Refolds /\ \A i \in 1 .. 3 * Len(ta_code) : Clean(heap'[i])
    <3>1. \A i \in 1 .. 3 * Len(ta_code) : Clean(heap'[i])
      BY <2>5, <2>13, <2>14, <2>17
    <3>2. ASSUME NEW s \in States, Means(Q, heap, s)
          PROVE  Read(s.mem, heap'[Place(at)]) = Yields(Q, heap, s)
      <4>1. Value1(Q, heap, s) = x /\ Value2(Q, heap, s) = y
        BY <1>1, <2>8, <2>9, <2>10 DEF Value1, Value2, Read
      <4>2. Defined(Q.op, x, y)
        BY <1>1, <3>2, <4>1 DEF Means
      <4>3. Yields(Q, heap, s) = c
        BY <1>1, <2>11, <2>16, <2>17, <4>1, <4>2 DEF Yields
      <4>4. Read(s.mem, a) = c
        BY <2>13 DEF Read
      <4>5. QED BY <2>14, <4>3, <4>4
    <3>3. ta_code'[at].dead
      BY <2>7, <2>15
    <3>4. Refolds
      BY <2>8, <3>2, <3>3, DiesRight
    <3>5. QED BY <3>1, <3>4
  <2>18. /\ fault' \in {"none", "unfolded", "renamed", "rounding", "namesake"}
         /\ fault' = "none" => fault = "none" /\ f = "none"
    BY <2>4, <2>5, <2>16, FaultIs
  <2>19. QED BY <2>15, <2>17, <2>18, WalkKeeps
<1>4. QED BY <1>2, <1>3

\* A step that only ends the walk.
LEMMA Unmoved ==
    ASSUME IInv, phase # "emit", UNCHANGED <<bound, heap, ta_code, pending, before, at, fault>>,
           phase' \in {"pass", "done", "crashed"}, phase' = "done" => at = Len(ta_code) + 1
    PROVE  IInv'
<1>1. bound \in Bounds /\ pending = {} /\ Walked /\ Lives /\ (fault = "none" => Meant)
      /\ fault \in {"none", "unfolded", "renamed", "rounding", "namesake"}
  BY DEF IInv
<1>2. Walked'
  BY <1>1 DEF Walked, WalkedQuad, Made, MaxCode, Addresses, Ids, Sane, Clean, Bounded
<1>3. Lives'
  BY <1>1 DEF Lives
<1>4. fault = "none" => Meant'
  <2>1. SUFFICES ASSUME Meant PROVE Meant'
    BY <1>1
  <2>2. \A p \in 1 .. 3 * Len(ta_code) : Clean(heap[p])'
    BY <2>1 DEF Meant, Clean
  <2>3. ASSUME NEW start \in Starts
        PROVE  Agree(Run(before.heap, before.code, start)[at - 1], Run(heap, ta_code, start)[at - 1])'
    <3>1. PICK w : w = Run(before.heap, before.code, start)[at - 1]
      OBVIOUS
    <3>2. PICK m : m = Run(heap, ta_code, start)[at - 1]
      OBVIOUS
    <3>3. (Run(before.heap, before.code, start)[at - 1])' = w /\ (Run(heap, ta_code, start)[at - 1])' = m
      BY <3>1, <3>2 DEF Run, Beginning, Ids, MaxCode
    <3>4. Agree(w, m)
      BY <2>1, <3>1, <3>2 DEF Meant
    <3>5. \A j : Ahead(j)' <=> Ahead(j)
      BY DEF Ahead
    <3>6. QED BY <3>3, <3>4, <3>5 DEF Agree
  <2>4. QED BY <2>2, <2>3 DEF Meant, Starts
<1>5. QED BY <1>1, <1>2, <1>3, <1>4 DEF IInv

LEMMA NextKeeps == ASSUME IInv, [Next]_vars PROVE IInv'
<1>1. CASE EmitBinary
  BY <1>1, BinaryKeeps
<1>2. CASE EmitAssign
  BY <1>2, AssignKeeps
<1>3. CASE EmitCompound
  BY <1>3, CompoundKeeps
<1>4. CASE Start
  BY <1>4, StartKeeps
<1>5. CASE OptimiseCopy
  BY <1>5, CopyKeeps
<1>6. CASE FoldConstants
  BY <1>6, FoldKeeps
<1>7. CASE BecomesLeft
  BY <1>7, LeftRight
<1>8. CASE BecomesRight
  BY <1>8, RightRight
<1>9. CASE BecomesConstant
  BY <1>9, ConstantKeeps
<1>10. CASE BecomesShift
  BY <1>10, ShiftKeeps
<1>11. CASE PowerTimesVariable
  <2>1. phase = "pass" /\ phase' = "crashed" /\ UNCHANGED <<bound, heap, ta_code, pending, before, at, fault>>
    BY <1>11, Zenon DEF PowerTimesVariable, Simplify
  <2>2. QED BY <2>1, Unmoved
<1>12. CASE Stays
  BY <1>12, StaysKeeps
<1>13. CASE Finish
  <2>1. phase = "pass" /\ at > Len(ta_code) /\ phase' = "done"
        /\ UNCHANGED <<bound, heap, ta_code, pending, before, at, fault>>
    BY <1>13 DEF Finish
  <2>2. Walked
    BY <2>1 DEF IInv
  <2>3. at = Len(ta_code) + 1
    BY <2>1, <2>2 DEF Walked
  <2>4. QED BY <2>1, <2>3, Unmoved
<1>14. CASE UNCHANGED vars
  <2>1. UNCHANGED <<bound, heap, ta_code, pending, before, at, phase, fault>>
    BY <1>14 DEF vars
  <2>2. CASE phase # "emit"
    <3>1. phase' \in {"pass", "done", "crashed"} /\ (phase' = "done" => at = Len(ta_code) + 1)
      BY <2>1, <2>2 DEF IInv
    <3>2. QED BY <2>1, <2>2, <3>1, Unmoved
  <2>3. CASE phase = "emit"
    <3>1. Made(heap, ta_code) /\ Waiting /\ fault = "none" /\ at = 1 /\ bound \in Bounds
      BY <2>3 DEF IInv
    <3>2. Made(heap, ta_code)'
      BY <2>1, <3>1 DEF Made, MaxCode, Addresses, Ids, Sane, Clean, Bounded
    <3>3. Waiting'
      BY <2>1, <3>1 DEF Waiting
    <3>4. QED BY <2>1, <2>3, <3>1, <3>2, <3>3 DEF IInv
  <2>4. QED BY <2>2, <2>3
<1>15. QED
  BY <1>1, <1>2, <1>3, <1>4, <1>5, <1>6, <1>7, <1>8, <1>9, <1>10, <1>11, <1>12, <1>13, <1>14, Zenon DEF Next, Done

\* The invariant: a block is made so that every place is read once, and while
\* the walk goes on no step of it has been lost and the two runs agree.
THEOREM SpecIInv == Spec => []IInv
<1>1. Init => IInv
  BY InitIs
<1>2. IInv /\ [Next]_vars => IInv'
  BY NextKeeps
<1>3. QED BY <1>1, <1>2, PTL DEF Spec

(***************************************************************************)
(* The properties.                                                         *)
(***************************************************************************)
LEMMA TypesFollow == ASSUME IInv PROVE TypeOK
<1>1. PICK n \in Nat : n = Len(ta_code)
  BY DEF IInv, Made, Walked
<1>2. MaxCode \in Nat
  BY BoundIs DEF IInv
<1>3. DOMAIN heap = 1 .. 3 * n /\ (\A p \in 1 .. 3 * n : Sane(heap[p])) /\ at \in 1 .. MaxCode + 1
  <2>1. CASE phase = "emit"
    BY <1>1, <1>2, <2>1 DEF IInv, Made
  <2>2. CASE phase # "emit"
    <3>1. Walked
      BY <2>2 DEF IInv
    <3>2. n <= MaxCode
      BY <1>1, <3>1 DEF Walked, Made
    <3>3. at \in 1 .. n + 1
      BY <1>1, <3>1 DEF Walked
    <3>4. QED BY <1>1, <1>2, <3>1, <3>2, <3>3 DEF Walked
  <2>3. QED BY <2>1, <2>2
<1>4. ASSUME NEW p \in pending PROVE p \in 1 .. 3 * n /\ ~heap[p].con
  <2>1. phase = "emit"
    BY <1>4 DEF IInv
  <2>2. PICK j \in 1 .. n : p = Place(j) /\ \A i \in j .. n : Computes(heap, i)
    BY <1>1, <1>4, <2>1 DEF IInv, Waiting
  <2>3. j \in j .. n /\ Place(j) \in 1 .. 3 * n
    BY DEF Place
  <2>4. heap[p] = Temp(p)
    BY <2>2, <2>3 DEF Computes
  <2>5. QED BY <2>2, <2>3, <2>4, TargetIs
<1>5. QED BY <1>1, <1>3, <1>4 DEF TypeOK, Sane, IInv

LEMMA LivesFollows == ASSUME IInv PROVE NoTempLost
<1>1. SUFFICES ASSUME phase = "done" PROVE NoTempLost
  BY DEF NoTempLost
<1>2. Walked /\ Lives
  BY <1>1 DEF IInv
<1>3. PICK n \in Nat : n = Len(ta_code) /\ ta_code \in Seq(Quads) /\ DOMAIN ta_code = 1 .. n
  BY <1>2 DEF Walked
<1>4. \A j \in 1 .. n : ta_code[j].result = Place(j)
  BY <1>2, <1>3, QuadIs
<1>5. ASSUME NEW k \in 1 .. n, ~ta_code[k].dead, NEW p \in Reads(ta_code[k]), heap[p].table_id[1] = "temporary"
      PROVE  \E j \in 1 .. k - 1 : ~ta_code[j].dead /\ heap[ta_code[j].result].table_id = heap[p].table_id
  <2>1. PICK j \in 1 .. k - 1 : ~ta_code[j].dead /\ heap[Place(j)].table_id = heap[p].table_id
    BY <1>2, <1>3, <1>5 DEF Lives
  <2>2. j \in 1 .. n
    OBVIOUS
  <2>3. QED BY <1>4, <2>1, <2>2
<1>6. QED BY <1>3, <1>5 DEF NoTempLost, Reads

LEMMA MeaningFollows == ASSUME IInv PROVE MeaningKept
<1>1. SUFFICES ASSUME phase = "done", fault = "none",
                      NEW start \in [Vars -> -Spread .. Spread],
                      Executed(before.heap, before.code, start).ok
               PROVE  LET was == Executed(before.heap, before.code, start)
                          now == Executed(heap, ta_code, start)
                      IN  now.ok /\ \A v \in Vars : now.mem[VariableId(v)] = was.mem[VariableId(v)]
  BY DEF MeaningKept
<1>2. Walked /\ Meant /\ at = Len(ta_code) + 1 /\ bound \in Bounds
  BY <1>1 DEF IInv
<1>3. PICK n \in Nat : n = Len(ta_code) /\ n = Len(before.code)
  BY <1>2 DEF Walked
<1>4. start \in Starts
  <2>1. Spread \in Nat
    BY <1>2, BoundIs
  <2>2. -Spread .. Spread \subseteq Int
    BY <2>1
  <2>3. QED BY <2>2 DEF Starts
<1>5. at - 1 = n
  BY <1>2, <1>3
<1>6. Agree(Run(before.heap, before.code, start)[n], Run(heap, ta_code, start)[n])
  BY <1>2, <1>4, <1>5 DEF Meant
<1>7. QED BY <1>1, <1>3, <1>6 DEF Executed, Agree

\* Addresses that are no constants denote a variable or a temporary of the
\* block at every step of the walk: TypeOK, for blocks of any length.
THEOREM SpecTypeOK == Spec => []TypeOK
<1>1. IInv => TypeOK
  BY TypesFollow
<1>2. QED BY <1>1, SpecIInv, PTL

\* No quad that stays reads a temporary whose quad died: it would read what
\* the register or the slot happened to hold.
THEOREM SpecNoTempLost == Spec => []NoTempLost
<1>1. IInv => NoTempLost
  BY LivesFollows
<1>2. QED BY <1>1, SpecIInv, PTL

\* Constant folding keeps the meaning of every block, whatever its constants,
\* whatever the variables are called and hold, but for the simplifications of
\* fault: a namesake's copy that goes is one of them.
THEOREM SpecMeaningKept == Spec => []MeaningKept
<1>1. IInv => MeaningKept
  BY MeaningFollows
<1>2. QED BY <1>1, SpecIInv, PTL
===============================================================================
