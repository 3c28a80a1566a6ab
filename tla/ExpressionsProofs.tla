-------------------------- MODULE ExpressionsProofs --------------------------
(***************************************************************************)
(* For every expression that can be reduced, whatever its length: the      *)
(* addresses that wait give what the text says, the quads that stay alive  *)
(* do to the variables what the text says, read no temporary that only a   *)
(* dead quad computes, and a condition leaves where the text says.         *)
(*                                                                         *)
(* The argument has four parts.  What is emitted is Good whatever went     *)
(* wrong: every quad is formed, every jump is patched forwards, and what   *)
(* is read is alive.  Code that another extends runs as it did, up to the  *)
(* jumps that were patched, so an action only adds what its own quads do.  *)
(* As long as nothing went wrong the machine that runs all of the code is  *)
(* Running: it has the text's memory, and the operands' values, unless a   *)
(* jump of an && or || that is decided was taken.  At the end no quad that *)
(* assigns a variable is dead, and then the quads that are alive do what   *)
(* all of them do.                                                         *)
(***************************************************************************)
EXTENDS Expressions, WellFoundedInduction, TLAPS

(***************************************************************************)
(* A set of numbers has a least one; one that has 0, and k if it has       *)
(* k - 1, has all; and what is defined for 0, and for k from k - 1, is     *)
(* defined for all.                                                        *)
(***************************************************************************)
LEMMA LeastNumber ==
    ASSUME NEW S \in SUBSET Nat, S # {}
    PROVE  \E n \in S : \A k \in S : n <= k
<1>1. PICK n \in S : \A k \in S : ~(<<k, n>> \in OpToRel(<, Nat))
  BY NatLessThanWellFounded, WFMin
<1>2. \A j, k \in Nat : j < k => <<j, k>> \in OpToRel(<, Nat)
  BY DEF OpToRel
<1>3. \A k \in S : ~(k < n)
  BY <1>1, <1>2
<1>4. QED BY <1>3

LEMMA Upwards ==
    ASSUME NEW n \in Nat, NEW P, 0 \in P, \A k \in 1 .. n : k - 1 \in P => k \in P
    PROVE  0 .. n \subseteq P
<1> DEFINE Bad == (0 .. n) \ P
<1>1. SUFFICES ASSUME Bad # {} PROVE FALSE
  OBVIOUS
<1>2. PICK k \in Bad : \A m \in Bad : k <= m
  <2>1. Bad \in SUBSET Nat
    OBVIOUS
  <2> HIDE DEF Bad
  <2>2. QED BY <1>1, <2>1, LeastNumber
<1>3. k \in 1 .. n
  OBVIOUS
<1>4. k - 1 \in 0 .. n /\ k - 1 \notin Bad
  BY <1>2, <1>3
<1>5. QED BY <1>3, <1>4

Follows(g, c, D, k) ==
    g[0] = c /\ \A j \in 1 .. k : g[j] = D[j][g[j - 1]]

LEMMA Recursion ==
    ASSUME NEW n \in Nat, NEW S, NEW c \in S, NEW D \in [1 .. n -> [S -> S]]
    PROVE  \E g \in [0 .. n -> S] : Follows(g, c, D, n)
<1> DEFINE P == {k \in 0 .. n : \E g \in [0 .. k -> S] : Follows(g, c, D, k)}
<1>1. 0 \in P
  <2>1. [k \in 0 .. 0 |-> c] \in [0 .. 0 -> S] /\ Follows([k \in 0 .. 0 |-> c], c, D, 0)
    BY DEF Follows
  <2>2. QED BY <2>1
<1>2. ASSUME NEW k \in 1 .. n, k - 1 \in P PROVE k \in P
  <2>1. PICK g \in [0 .. k - 1 -> S] : Follows(g, c, D, k - 1)
    BY <1>2
  <2>2. g[k - 1] \in S /\ D[k][g[k - 1]] \in S
    OBVIOUS
  <2> DEFINE h == [j \in 0 .. k |-> IF j = k THEN D[k][g[k - 1]] ELSE g[j]]
  <2>3. h \in [0 .. k -> S]
    BY <2>2
  <2>4. h[0] = c /\ h[k] = D[k][g[k - 1]] /\ h[k - 1] = g[k - 1]
    BY <2>1 DEF Follows
  <2>5. \A j \in 1 .. k : h[j] = D[j][h[j - 1]]
    <3> TAKE j \in 1 .. k
    <3>1. CASE j = k
      BY <2>4, <3>1
    <3>2. CASE j # k
      <4>1. j \in 1 .. k - 1 /\ h[j] = g[j] /\ h[j - 1] = g[j - 1]
        BY <3>2
      <4>2. QED BY <2>1, <4>1 DEF Follows
    <3>3. QED BY <3>1, <3>2
  <2> HIDE DEF h
  <2>6. Follows(h, c, D, k)
    BY <2>4, <2>5 DEF Follows
  <2>7. QED BY <2>3, <2>6
<1>3. n \in P
  <2> HIDE DEF P
  <2>1. 0 .. n \subseteq P
    BY <1>1, <1>2, Upwards
  <2>2. n \in 0 .. n
    OBVIOUS
  <2>3. QED BY <2>1, <2>2
<1>4. QED BY <1>3

(***************************************************************************)
(* What the parser has emitted: types, and which quads write and read an   *)
(* address.                                                                *)
(***************************************************************************)
Binaries  == {"+", "-", "*", "/", "%", "&", "|", "^", "<<", "<", "=="}
Copies    == {"=", "()", "la", "!"}
Ops       == Binaries \cup Copies \cup {"()s", "goto", "label"}
Kinds     == {"ID3", "CON", "TEMP", "MEM"}
Addresses ==
    {x \in [kind : Kinds, var : Nat, ea : BOOLEAN, val : Int, instr : Nat] :
        (x.kind = "ID3" => x.var # None) /\ (x.kind \in {"MEM", "CON"} => x.var = None)}
Quads     == [op : Ops, result : Nat, arg1 : Nat, arg2 : Nat, when : BOOLEAN, to : Nat, dead : BOOLEAN]
Outs      == [heap : Seq(Addresses), code : Seq(Quads)]

Places(h) == 1 .. Len(h)
Temp(h, a) == h[a].var = None /\ h[a].kind # "CON"

Writes(q, a) == q.op \notin {"()s", "goto", "label"} /\ q.result = a
Reads(q)     == ({q.arg1, q.arg2} \cup (IF q.op = "()s" THEN {q.result} ELSE {})) \ {None}

\* j is the last quad before k that writes a.
Latest(code, a, j, k) == j \in 1 .. k - 1 /\ Writes(code[j], a) /\ \A i \in j + 1 .. k - 1 : ~Writes(code[i], a)

\* A quad that assigns a variable and is dead.
Loses(o, k) == o.code[k].dead /\ o.heap[o.code[k].result].var # None
Lost(o)     == {o.code[k].result : k \in {j \in Places(o.code) : Loses(o, j)}}

\* The operands a quad has.
Formed(h, q) ==
    /\ q.op \in Copies \cup Binaries \cup {"()s"} => q.result \in Places(h)
    /\ q.op # "label" => q.arg1 \in Places(h) \/ (q.op = "goto" /\ q.arg1 = None)
    /\ q.op = "label" => q.arg1 = None /\ q.result = None
    /\ q.op = "goto" => q.result = None
    /\ q.op \in Binaries => q.arg2 \in Places(h)
    /\ q.op \notin Binaries => q.arg2 = None
    /\ q.dead => q.op \in Copies \cup Binaries
    /\ q.op # "goto" => q.to = None

Patched(code, k) == code[k].to = None \/ (code[k].to \in k + 1 .. Len(code) /\ code[code[k].to].op = "label")

\* Every read temporary was computed last by a quad that is alive.
Fed(o, k) == \A a \in Reads(o.code[k]) : Temp(o.heap, a) =>
                \E j \in Places(o.code) : Latest(o.code, a, j, k) /\ ~o.code[j].dead

\* A temporary remembers the quad that computed it last, unless that is alive.
Known(o, a) == (Temp(o.heap, a) /\ o.heap[a].instr # None) =>
                  \E j \in Places(o.code) : /\ Latest(o.code, a, j, Len(o.code) + 1)
                                            /\ o.code[j].dead => j = o.heap[a].instr

\* A temporary that is computed again is computed from what it was.
Rewritten(o, k) ==
    LET r == o.code[k].result
    IN  (Writes(o.code[k], r) /\ Temp(o.heap, r)) => (r \in Reads(o.code[k]) \/ \A j \in 1 .. k - 1 : ~Writes(o.code[j], r))
Linear(o) ==
    /\ \A k \in Places(o.code) : Rewritten(o, k)
    /\ \A a \in Places(o.heap) : o.heap[a].instr = None => \A k \in Places(o.code) : ~Writes(o.code[k], a)

Good(o) ==
    /\ o \in Outs /\ Linear(o)
    /\ \A a \in Places(o.heap) : o.heap[a].instr <= Len(o.code) /\ Known(o, a) /\ (o.heap[a].ea => o.heap[a].var # None)
    /\ \A k \in Places(o.code) : /\ Formed(o.heap, o.code[k]) /\ Patched(o.code, k) /\ Fed(o, k)
                                 /\ Loses(o, k) => o.heap[o.code[k].result].instr = k

\* An address that can be read.
Ready(o, a) == a \in Places(o.heap) /\ (Temp(o.heap, a) => o.heap[a].instr # None)

\* o2 has what o has.
Same(x, y) == x.var = y.var /\ x.ea = y.ea /\ x.val = y.val /\ (x.kind = "CON" <=> y.kind = "CON")
Keeps(o, o2) ==
    /\ Len(o.heap) <= Len(o2.heap) /\ Len(o.code) <= Len(o2.code)
    /\ \A a \in Places(o.heap) : Same(o.heap[a], o2.heap[a]) /\ (o.heap[a].instr # None => o2.heap[a].instr # None)
SameKinds(o, o2) == \A a \in Places(o.heap) : o.heap[a].kind = o2.heap[a].kind

LEMMA KeepsReady == ASSUME NEW o, NEW o2, Good(o), Good(o2), Keeps(o, o2), NEW a, Ready(o, a) PROVE Ready(o2, a)
<1>1. Len(o.heap) \in Nat /\ Len(o2.heap) \in Nat
  BY DEF Good, Outs
<1>2. QED BY <1>1 DEF Keeps, Same, Ready, Temp, Places

(***************************************************************************)
(* A new address.                                                          *)
(***************************************************************************)
LEMMA WithIs ==
    ASSUME NEW o \in Outs, NEW x \in Addresses, NEW w, w = With(o, x)
    PROVE  /\ w \in Outs /\ w.code = o.code /\ Len(w.heap) = Len(o.heap) + 1 /\ Last(w) = Len(o.heap) + 1
           /\ w.heap[Last(w)] = x /\ \A a \in Places(o.heap) : w.heap[a] = o.heap[a]
<1>1. o.heap \in Seq(Addresses) /\ o.code \in Seq(Quads) /\ o = [heap |-> o.heap, code |-> o.code]
  BY DEF Outs
<1>2. w = [heap |-> Append(o.heap, x), code |-> o.code]
  BY <1>1 DEF With
<1>3. Append(o.heap, x) \in Seq(Addresses) /\ Len(Append(o.heap, x)) = Len(o.heap) + 1
  BY <1>1
<1>4. QED BY <1>1, <1>2, <1>3 DEF Outs, Last, Places

LEMMA WithGood ==
    ASSUME NEW o, Good(o), NEW x \in Addresses, x.instr = None, x.ea => x.var # None, NEW w, w = With(o, x)
    PROVE  Good(w) /\ Keeps(o, w) /\ SameKinds(o, w) /\ Lost(w) = Lost(o) /\ (~(x.var = None /\ x.kind # "CON") => Ready(w, Last(w)))
<1>1. /\ w \in Outs /\ w.code = o.code /\ Len(w.heap) = Len(o.heap) + 1 /\ Last(w) = Len(o.heap) + 1
      /\ w.heap[Last(w)] = x /\ \A a \in Places(o.heap) : w.heap[a] = o.heap[a]
  BY WithIs DEF Good
<1>2. Len(o.heap) \in Nat /\ Len(o.code) \in Nat
  BY DEF Good, Outs
<1>3. Places(w.heap) = Places(o.heap) \cup {Last(w)} /\ Places(o.heap) \subseteq Places(w.heap)
  BY <1>1, <1>2 DEF Places
<1>4. Keeps(o, w) /\ SameKinds(o, w)
  BY <1>1, <1>2 DEF Keeps, SameKinds, Same
<1>5. ASSUME NEW k \in Places(o.code)
      PROVE  /\ Formed(w.heap, w.code[k]) /\ Patched(w.code, k) /\ Fed(w, k) /\ (Loses(w, k) <=> Loses(o, k))
             /\ Loses(w, k) => w.heap[w.code[k].result].instr = k
  <2>1. Formed(o.heap, o.code[k]) /\ Patched(o.code, k) /\ Fed(o, k) /\ o.code[k] \in Quads
        /\ (Loses(o, k) => o.heap[o.code[k].result].instr = k)
    BY DEF Good, Outs, Places
  <2>2. Formed(w.heap, w.code[k]) /\ Patched(w.code, k)
    BY <1>1, <1>3, <2>1 DEF Formed, Patched
  <2>3. Reads(o.code[k]) \subseteq Places(o.heap)
    BY <2>1 DEF Formed, Reads, Quads, Ops
  <2>4. Fed(w, k)
    BY <1>1, <2>1, <2>3 DEF Fed, Temp
  <2>5. o.code[k].dead => o.code[k].result \in Places(o.heap)
    BY <2>1 DEF Formed
  <2>6. QED BY <1>1, <2>1, <2>2, <2>4, <2>5 DEF Loses
<1>6. ASSUME NEW a \in Places(w.heap) PROVE w.heap[a].instr <= Len(w.code) /\ Known(w, a) /\ (w.heap[a].ea => w.heap[a].var # None)
  <2>1. CASE a = Last(w)
    BY <1>1, <1>2, <2>1 DEF Known, None
  <2>2. CASE a \in Places(o.heap)
    <3>1. o.heap[a].instr <= Len(o.code) /\ Known(o, a) /\ (o.heap[a].ea => o.heap[a].var # None)
      BY <2>2 DEF Good
    <3>2. QED BY <1>1, <2>2, <3>1 DEF Known, Temp
  <2>3. QED BY <1>3, <2>1, <2>2
<1>l. Linear(w)
  <2>1. Linear(o) /\ \A k \in Places(o.code) : Formed(o.heap, o.code[k]) /\ o.code[k] \in Quads
    BY DEF Good, Outs, Places
  <2>2. \A k \in Places(o.code) : \A a : Writes(o.code[k], a) => a \in Places(o.heap)
    BY <2>1 DEF Formed, Writes, Quads, Ops
  <2>3. \A k \in Places(w.code) : Rewritten(w, k)
    BY <1>1, <2>1, <2>2 DEF Rewritten, Linear, Temp
  <2>4. Last(w) \notin Places(o.heap)
    BY <1>1, <1>2 DEF Places
  <2>5. \A a \in Places(w.heap) : w.heap[a].instr = None => \A k \in Places(w.code) : ~Writes(w.code[k], a)
    BY <1>1, <1>3, <2>1, <2>2, <2>4 DEF Linear
  <2>6. QED BY <2>3, <2>5 DEF Linear
<1>7. Good(w)
  BY <1>1, <1>5, <1>6, <1>l DEF Good
<1>8. Lost(w) = Lost(o)
  BY <1>1, <1>5 DEF Lost
<1>9. (~(x.var = None /\ x.kind # "CON") => Ready(w, Last(w)))
  BY <1>1, <1>3 DEF Ready, Temp
<1>10. QED BY <1>4, <1>7, <1>8, <1>9

(***************************************************************************)
(* A quad.                                                                 *)
(***************************************************************************)
\* The same quad, but perhaps alive.
Likewise(q, q2) == /\ q2.op = q.op /\ q2.result = q.result /\ q2.arg1 = q.arg1 /\ q2.arg2 = q.arg2
                   /\ q2.when = q.when

LEMMA AliveIs ==
    ASSUME NEW c \in Seq(Quads), NEW S, NEW d, d = Alive(c, S)
    PROVE  /\ d \in Seq(Quads) /\ Len(d) = Len(c)
           /\ \A k \in Places(c) : Likewise(c[k], d[k]) /\ d[k].to = c[k].to /\ (d[k].dead <=> c[k].dead /\ k \notin S)
<1> DEFINE f(k) == IF k \in S THEN [c[k] EXCEPT !.dead = FALSE] ELSE c[k]
<1>1. d = [k \in 1 .. Len(c) |-> f(k)]
  BY DEF Alive
<1>2. \A k \in 1 .. Len(c) : f(k) \in Quads /\ Likewise(c[k], f(k)) /\ f(k).to = c[k].to /\ (f(k).dead <=> c[k].dead /\ k \notin S)
  <2> TAKE k \in 1 .. Len(c)
  <2>1. c[k] \in Quads
    OBVIOUS
  <2>2. QED BY <2>1 DEF Quads, Likewise
<1> HIDE DEF f
<1>3. d \in Seq(Quads) /\ Len(d) = Len(c)
  BY <1>1, <1>2
<1>4. QED BY <1>1, <1>2, <1>3 DEF Places

LEMMA InstrIs ==
    ASSUME NEW op \in Ops, NEW r \in Nat, NEW a1 \in Nat, NEW a2 \in Nat
    PROVE  Instr(op, r, a1, a2) \in Quads
BY DEF Instr, Quads, None

Revived(o, op, r, a1, a2) ==
    {o.heap[a].instr : a \in {a1, a2} \ {None}}
    \cup (IF op = "()s" THEN {Len(o.code) + 1, o.heap[r].instr} ELSE {})
    \cup (IF o.heap[r].kind = "ID3" THEN {Len(o.code) + 1} ELSE {})

Emission(o, d, op, r, a1, a2, n, S) ==
    /\ d \in Outs /\ Len(d.heap) = Len(o.heap) /\ Len(d.code) = n
    /\ \A a \in Places(o.heap) : /\ Same(o.heap[a], d.heap[a]) /\ d.heap[a].kind = o.heap[a].kind
                                 /\ d.heap[a].instr = IF a = r THEN n ELSE o.heap[a].instr
    /\ \A k \in Places(o.code) : /\ Likewise(o.code[k], d.code[k]) /\ d.code[k].to = o.code[k].to
                                 /\ d.code[k].dead <=> o.code[k].dead /\ k \notin S
    /\ Likewise(Instr(op, r, a1, a2), d.code[n]) /\ d.code[n].to = None /\ (d.code[n].dead <=> n \notin S)

LEMMA EmittedIs ==
    ASSUME NEW o \in Outs, NEW op \in Ops, NEW r \in Places(o.heap), NEW a1 \in Nat, NEW a2 \in Nat,
           NEW d, d = Emitted(o, op, r, a1, a2), NEW n, n = Len(o.code) + 1, NEW S, S = Revived(o, op, r, a1, a2)
    PROVE  Emission(o, d, op, r, a1, a2, n, S)
<1>1. o.heap \in Seq(Addresses) /\ o.code \in Seq(Quads)
  BY DEF Outs
<1> DEFINE c == Append(o.code, Instr(op, r, a1, a2))
           h == [o.heap EXCEPT ![r].instr = n]
<1>2. d = [heap |-> h, code |-> Alive(c, S)]
  BY DEF Emitted, Revived
<1>3. n \in Nat /\ r \in 1 .. Len(o.heap)
  BY <1>1 DEF Places
<1>4. h \in Seq(Addresses) /\ Len(h) = Len(o.heap)
      /\ \A a \in Places(o.heap) : Same(o.heap[a], h[a]) /\ h[a].kind = o.heap[a].kind
                                   /\ h[a].instr = IF a = r THEN n ELSE o.heap[a].instr
  <2>1. \A a \in 1 .. Len(o.heap) : o.heap[a] \in Addresses
    BY <1>1
  <2>2. [o.heap[r] EXCEPT !.instr = n] \in Addresses
    BY <2>1, <1>3 DEF Addresses
  <2>3. h = [a \in 1 .. Len(o.heap) |-> IF a = r THEN [o.heap[r] EXCEPT !.instr = n] ELSE o.heap[a]]
    BY <1>1, <1>3
  <2>4. h \in Seq(Addresses) /\ Len(h) = Len(o.heap)
    <3>1. \A a \in 1 .. Len(o.heap) : (IF a = r THEN [o.heap[r] EXCEPT !.instr = n] ELSE o.heap[a]) \in Addresses
      BY <2>1, <2>2
    <3> DEFINE f(a) == IF a = r THEN [o.heap[r] EXCEPT !.instr = n] ELSE o.heap[a]
    <3> HIDE DEF h, f
    <3>2. Len(o.heap) \in Nat
      BY <1>1
    <3>3. h = [a \in 1 .. Len(o.heap) |-> f(a)] /\ \A a \in 1 .. Len(o.heap) : f(a) \in Addresses
      BY <2>3, <3>1 DEF f
    <3>4. QED BY <3>2, <3>3
  <2>5. \A a \in Places(o.heap) : Same(o.heap[a], h[a]) /\ h[a].kind = o.heap[a].kind
                                   /\ h[a].instr = IF a = r THEN n ELSE o.heap[a].instr
    BY <2>1, <2>3 DEF Same, Places, Addresses
  <2>6. QED BY <2>4, <2>5
<1>5. c \in Seq(Quads) /\ Len(c) = n /\ (\A k \in Places(o.code) : c[k] = o.code[k]) /\ c[n] = Instr(op, r, a1, a2)
      /\ Places(o.code) \subseteq Places(c) /\ n \in Places(c)
  <2>1. Instr(op, r, a1, a2) \in Quads
    BY <1>3, InstrIs
  <2> DEFINE q == Instr(op, r, a1, a2)
  <2> HIDE DEF q
  <2>2. QED BY <1>1, <2>1 DEF Places, q
<1> DEFINE e == Alive(c, S)
<1> HIDE DEF c, h
<1>6. /\ e \in Seq(Quads) /\ Len(e) = Len(c)
      /\ \A k \in Places(c) : Likewise(c[k], e[k]) /\ e[k].to = c[k].to /\ (e[k].dead <=> c[k].dead /\ k \notin S)
  BY <1>5, AliveIs
<1>7. Instr(op, r, a1, a2).dead = TRUE /\ Instr(op, r, a1, a2).to = None
  BY DEF Instr
<1>8. d.heap = h /\ d.code = e /\ d \in Outs
  BY <1>2, <1>4, <1>6 DEF Outs
<1> HIDE DEF e
<1>9. QED BY <1>4, <1>5, <1>6, <1>7, <1>8 DEF Emission

LEMMA LikewiseWrites == ASSUME NEW q, NEW q2, Likewise(q, q2) PROVE Reads(q2) = Reads(q) /\ \A a : Writes(q2, a) <=> Writes(q, a)
BY DEF Likewise, Reads, Writes

LEMMA LatestStays ==
    ASSUME NEW c, NEW d, NEW n \in Nat, \A k \in 1 .. n : Likewise(c[k], d[k]), NEW k \in Nat, k <= n + 1, NEW a, NEW j
    PROVE  Latest(d, a, j, k) <=> Latest(c, a, j, k)
<1>1. \A i \in 1 .. n : Writes(d[i], a) <=> Writes(c[i], a)
  BY LikewiseWrites
<1>2. \A i \in 1 .. k - 1 : i \in 1 .. n
  OBVIOUS
<1>3. \A i \in 1 .. k - 1 : \A m \in i + 1 .. k - 1 : m \in 1 .. n
  OBVIOUS
<1>4. QED BY <1>1, <1>2, <1>3 DEF Latest

Emits(o, op, r, a1, a2) ==
    /\ op \in Copies \cup Binaries \cup {"()s"}
    /\ r \in Places(o.heap) /\ (op = "()s" => Ready(o, r)) /\ r \notin Lost(o) \ {a1, a2}
    /\ Ready(o, a1) /\ (op \in Binaries => Ready(o, a2)) /\ (op \notin Binaries => a2 = None)
    /\ op # "()s" /\ Temp(o.heap, r) => o.heap[r].instr = None \/ r \in {a1, a2}

\* The addresses whose dead quad assigns a variable, after another quad.
LostBy(o, r, a1, a2) ==
    (Lost(o) \ {a1, a2}) \cup (IF o.heap[r].var # None /\ o.heap[r].kind # "ID3" THEN {r} ELSE {})

LEMMA EmittedGood ==
    ASSUME NEW o, Good(o), NEW op, NEW r, NEW a1, NEW a2, Emits(o, op, r, a1, a2), NEW d, d = Emitted(o, op, r, a1, a2)
    PROVE  /\ Good(d) /\ Keeps(o, d) /\ SameKinds(o, d) /\ Ready(d, r) /\ Lost(d) \subseteq LostBy(o, r, a1, a2)
           /\ d.heap[r].instr # None
<1> DEFINE n == Len(o.code) + 1
           S == Revived(o, op, r, a1, a2)
<1>1. o \in Outs /\ Len(o.heap) \in Nat /\ Len(o.code) \in Nat /\ n \in Nat /\ n # None
  BY DEF Good, Outs, None
<1>2. op \in Ops /\ r \in Places(o.heap) /\ a1 \in Places(o.heap) /\ a2 \in Nat /\ a1 \in Nat /\ r \in Nat
      /\ r # None /\ a1 # None
  BY <1>1 DEF Emits, Ready, Ops, Places, None
<1>3. /\ d \in Outs /\ Len(d.heap) = Len(o.heap) /\ Len(d.code) = n
      /\ \A a \in Places(o.heap) : /\ Same(o.heap[a], d.heap[a]) /\ d.heap[a].kind = o.heap[a].kind
                                   /\ d.heap[a].instr = IF a = r THEN n ELSE o.heap[a].instr
      /\ \A k \in Places(o.code) : /\ Likewise(o.code[k], d.code[k]) /\ d.code[k].to = o.code[k].to
                                   /\ d.code[k].dead <=> o.code[k].dead /\ k \notin S
      /\ Likewise(Instr(op, r, a1, a2), d.code[n]) /\ d.code[n].to = None /\ (d.code[n].dead <=> n \notin S)
  <2>1. n = Len(o.code) + 1 /\ S = Revived(o, op, r, a1, a2)
    OBVIOUS
  <2> HIDE DEF n, S
  <2>2. Emission(o, d, op, r, a1, a2, n, S)
    BY <1>1, <1>2, <2>1, EmittedIs
  <2>3. QED BY <2>2 DEF Emission
<1>q. /\ d.code[n].op = op /\ d.code[n].result = r /\ d.code[n].arg1 = a1 /\ d.code[n].arg2 = a2
      /\ Reads(d.code[n]) = ({a1, a2} \cup (IF op = "()s" THEN {r} ELSE {})) \ {None}
      /\ \A a : Writes(d.code[n], a) <=> op # "()s" /\ r = a
  <2>1. /\ d.code[n].op = op /\ d.code[n].result = r /\ d.code[n].arg1 = a1 /\ d.code[n].arg2 = a2
    BY <1>3 DEF Likewise, Instr
  <2>2. op \notin {"goto", "label"}
    BY DEF Emits, Copies, Binaries
  <2>3. QED BY <2>1, <2>2 DEF Reads, Writes
<1>s. /\ \A a \in {a1, a2} \ {None} : o.heap[a].instr \in S
      /\ op = "()s" => n \in S /\ o.heap[r].instr \in S
      /\ o.heap[r].kind = "ID3" => n \in S
  BY DEF Revived
<1> HIDE DEF n, S
<1>4. Places(d.heap) = Places(o.heap) /\ Places(d.code) = Places(o.code) \cup {n} /\ n \notin Places(o.code)
      /\ Places(o.code) = 1 .. n - 1
  BY <1>1, <1>3 DEF Places, n
<1>5. Keeps(o, d) /\ SameKinds(o, d)
  BY <1>1, <1>3 DEF Keeps, SameKinds, n
<1>6. \A a \in Places(o.heap) : Temp(d.heap, a) <=> Temp(o.heap, a)
  BY <1>3 DEF Temp, Same
<1>7. \A a, j : \A k \in 1 .. n : Latest(d.code, a, j, k) <=> Latest(o.code, a, j, k)
  <2>1. n - 1 \in Nat /\ \A k \in 1 .. n - 1 : Likewise(o.code[k], d.code[k])
    BY <1>1, <1>3, <1>4 DEF n
  <2> TAKE a, j
  <2> TAKE k \in 1 .. n
  <2>2. k \in Nat /\ k <= (n - 1) + 1
    BY <1>1
  <2> DEFINE m == n - 1
  <2>3. m \in Nat /\ (\A i \in 1 .. m : Likewise(o.code[i], d.code[i])) /\ k <= m + 1
    BY <2>1, <2>2
  <2> HIDE DEF m
  <2>4. QED BY <2>2, <2>3, LatestStays
<1>8. \A a : Ready(o, a) /\ Temp(o.heap, a) =>
          \E j \in Places(o.code) : Latest(o.code, a, j, n) /\ (o.code[j].dead => j = o.heap[a].instr)
  <2> SUFFICES ASSUME NEW a, Ready(o, a), Temp(o.heap, a)
               PROVE  \E j \in Places(o.code) : Latest(o.code, a, j, n) /\ (o.code[j].dead => j = o.heap[a].instr)
    OBVIOUS
  <2>1. Known(o, a) /\ o.heap[a].instr # None
    BY DEF Good, Ready
  <2>2. QED BY <2>1 DEF Known, n
<1>9. Fed(d, n)
  <2> SUFFICES ASSUME NEW a \in Reads(d.code[n]), Temp(d.heap, a)
               PROVE  \E j \in Places(d.code) : Latest(d.code, a, j, n) /\ ~d.code[j].dead
    BY DEF Fed
  <2>1. Ready(o, a) /\ o.heap[a].instr \in S
    BY <1>q, <1>s DEF Emits
  <2>2. Temp(o.heap, a)
    BY <1>6, <2>1 DEF Ready
  <2>3. PICK j \in Places(o.code) : Latest(o.code, a, j, n) /\ (o.code[j].dead => j = o.heap[a].instr)
    BY <1>8, <2>1, <2>2
  <2>4. ~d.code[j].dead
    BY <1>3, <2>1, <2>3
  <2>5. n \in 1 .. n
    BY <1>1, <1>4, <2>3
  <2>6. QED BY <1>4, <1>7, <2>3, <2>4, <2>5
<1>10. ASSUME NEW k \in Places(o.code) PROVE Fed(d, k)
  <2>1. Fed(o, k) /\ Formed(o.heap, o.code[k]) /\ o.code[k] \in Quads
    BY DEF Good, Outs, Places
  <2>2. Reads(d.code[k]) = Reads(o.code[k]) /\ Reads(o.code[k]) \subseteq Places(o.heap)
    <3>1. Reads(o.code[k]) \subseteq Places(o.heap)
      BY <2>1 DEF Formed, Reads, Quads, Ops
    <3>2. QED BY <1>3, <3>1, LikewiseWrites
  <2>3. k \in 1 .. n
    BY <1>4, <1>1
  <2> SUFFICES ASSUME NEW a \in Reads(d.code[k]), Temp(d.heap, a)
               PROVE  \E j \in Places(d.code) : Latest(d.code, a, j, k) /\ ~d.code[j].dead
    BY DEF Fed
  <2>4. PICK j \in Places(o.code) : Latest(o.code, a, j, k) /\ ~o.code[j].dead
    BY <1>6, <2>1, <2>2 DEF Fed
  <2>5. QED BY <1>3, <1>4, <1>7, <2>3, <2>4
<1>11. ASSUME NEW a \in Places(d.heap)
       PROVE  d.heap[a].instr <= Len(d.code) /\ Known(d, a) /\ (d.heap[a].ea => d.heap[a].var # None)
  <2>1. o.heap[a].instr <= Len(o.code) /\ (o.heap[a].ea => o.heap[a].var # None) /\ o.heap[a] \in Addresses
    BY <1>1, <1>4 DEF Good, Outs, Places
  <2>2. d.heap[a].instr <= Len(d.code) /\ (d.heap[a].ea => d.heap[a].var # None)
    BY <1>1, <1>3, <1>4, <2>1 DEF Same, n, Addresses
  <2>3. CASE a = r /\ op # "()s"
    <3>1. n \in Places(d.code) /\ Len(d.code) + 1 = n + 1
      BY <1>3, <1>4
    <3>2. Latest(d.code, a, n, n + 1)
      BY <1>1, <1>q, <2>3 DEF Latest, n
    <3>3. QED BY <1>3, <1>4, <2>2, <2>3, <3>1, <3>2 DEF Known
  <2>4. CASE ~(a = r /\ op # "()s")
    <3> SUFFICES ASSUME Temp(d.heap, a), d.heap[a].instr # None
                 PROVE  \E j \in Places(d.code) : Latest(d.code, a, j, n + 1) /\ (d.code[j].dead => j = d.heap[a].instr)
      BY <1>3, <2>2 DEF Known
    <3>1. Ready(o, a) /\ Temp(o.heap, a)
      BY <1>3, <1>4, <1>6, <2>4 DEF Ready, Emits
    <3>2. PICK j \in Places(o.code) : Latest(o.code, a, j, n) /\ (o.code[j].dead => j = o.heap[a].instr)
      BY <1>8, <3>1
    <3>3. n \in 1 .. n
      BY <1>1, <1>4, <3>2
    <3>4. Latest(d.code, a, j, n) /\ ~Writes(d.code[n], a)
      BY <1>7, <1>q, <2>4, <3>2, <3>3
    <3>5. Latest(d.code, a, j, n + 1)
      BY <1>1, <3>4 DEF Latest
    <3>6. d.code[j].dead => j = d.heap[a].instr
      <4>1. CASE a = r
        BY <1>3, <1>s, <2>4, <3>2, <4>1
      <4>2. CASE a # r
        BY <1>3, <1>4, <3>2, <4>2
      <4>3. QED BY <4>1, <4>2
    <3>7. QED BY <1>4, <3>2, <3>5, <3>6
  <2>5. QED BY <2>3, <2>4
<1>12. ASSUME NEW k \in Places(o.code)
       PROVE  /\ Formed(d.heap, d.code[k]) /\ Patched(d.code, k)
              /\ Loses(d, k) => d.heap[d.code[k].result].instr = k /\ d.code[k].result \in Lost(o) \ {a1, a2}
  <2>1. Formed(o.heap, o.code[k]) /\ Patched(o.code, k) /\ (Loses(o, k) => o.heap[o.code[k].result].instr = k)
    BY DEF Good
  <2>2. Formed(d.heap, d.code[k])
    BY <1>3, <1>4, <2>1 DEF Formed, Likewise
  <2>3. Patched(d.code, k)
    <3>1. CASE o.code[k].to = None
      BY <1>3, <3>1 DEF Patched
    <3>2. CASE o.code[k].to \in k + 1 .. Len(o.code) /\ o.code[o.code[k].to].op = "label"
      <4>1. o.code[k].to \in k + 1 .. Len(d.code) /\ o.code[k].to \in Places(o.code)
        BY <1>1, <1>3, <1>4, <3>2 DEF n
      <4>2. QED BY <1>3, <3>2, <4>1 DEF Patched, Likewise
    <3>3. QED BY <2>1, <3>1, <3>2 DEF Patched
  <2>4. ASSUME Loses(d, k) PROVE d.heap[d.code[k].result].instr = k /\ d.code[k].result \in Lost(o) \ {a1, a2}
    <3>1. o.code[k].dead /\ k \notin S /\ d.code[k].result = o.code[k].result /\ o.code[k].result \in Places(o.heap)
      BY <1>3, <2>1, <2>4 DEF Loses, Likewise, Formed
    <3>2. Loses(o, k) /\ o.code[k].result \in Lost(o)
      BY <1>3, <2>4, <3>1 DEF Loses, Same, Lost
    <3>3. o.heap[o.code[k].result].instr = k /\ o.code[k].result # None
      BY <1>1, <2>1, <3>1, <3>2 DEF Places, None
    <3>4. o.code[k].result \notin {a1, a2}
      BY <1>s, <3>1, <3>3
    <3>5. o.code[k].result # r
      BY <3>2, <3>4 DEF Emits
    <3>6. QED BY <1>3, <3>1, <3>2, <3>3, <3>4, <3>5
  <2>5. QED BY <2>2, <2>3, <2>4
<1>13. Formed(d.heap, d.code[n]) /\ Patched(d.code, n) /\ (Loses(d, n) => d.heap[d.code[n].result].instr = n)
  <2>1. d.code[n].dead => op # "()s"
    BY <1>3, <1>s
  <2>2. Formed(d.heap, d.code[n])
    BY <1>3, <1>4, <1>q, <1>2, <2>1 DEF Formed, Emits, Ready, Copies, Binaries
  <2>3. QED BY <1>2, <1>3, <1>4, <1>q, <2>2 DEF Patched
<1>l. Linear(d)
  <2>1. Linear(o) /\ \A k \in Places(o.code) : \A a : Writes(d.code[k], a) <=> Writes(o.code[k], a)
    BY <1>3, LikewiseWrites DEF Good
  <2>2. \A k \in Places(o.code) : Reads(d.code[k]) = Reads(o.code[k]) /\ d.code[k].result = o.code[k].result
    BY <1>3, LikewiseWrites DEF Likewise
  <2>3. \A k \in Places(o.code) : Writes(o.code[k], o.code[k].result) => o.code[k].result \in Places(o.heap)
    <3>1. \A k \in Places(o.code) : Formed(o.heap, o.code[k]) /\ o.code[k] \in Quads
      BY DEF Good, Outs, Places
    <3>2. QED BY <3>1 DEF Formed, Writes, Quads, Ops
  <2>4. ASSUME NEW k \in Places(o.code) PROVE Rewritten(d, k)
    <3>1. Rewritten(o, k)
      BY <2>1 DEF Linear
    <3>2. \A j \in 1 .. k - 1 : j \in Places(o.code)
      BY <1>1, <1>4
    <3>3. QED BY <1>6, <2>1, <2>2, <2>3, <3>1, <3>2 DEF Rewritten
  <2>5. Rewritten(d, n)
    <3> SUFFICES ASSUME op # "()s", Temp(o.heap, r), r \notin {a1, a2} PROVE \A j \in 1 .. n - 1 : ~Writes(d.code[j], r)
      BY <1>2, <1>6, <1>q DEF Rewritten
    <3>1. o.heap[r].instr = None
      BY DEF Emits
    <3>2. QED BY <1>2, <1>4, <2>1, <3>1 DEF Linear
  <2>6. \A a \in Places(d.heap) : d.heap[a].instr = None => \A k \in Places(d.code) : ~Writes(d.code[k], a)
    <3> TAKE a \in Places(d.heap)
    <3> SUFFICES ASSUME d.heap[a].instr = None PROVE \A k \in Places(d.code) : ~Writes(d.code[k], a)
      OBVIOUS
    <3>1. a # r /\ o.heap[a].instr = None
      BY <1>1, <1>3, <1>4
    <3>2. QED BY <1>4, <1>q, <2>1, <3>1 DEF Linear
  <2>7. QED BY <1>4, <2>4, <2>5, <2>6 DEF Linear
<1>14. Good(d)
  BY <1>3, <1>4, <1>9, <1>10, <1>11, <1>12, <1>13, <1>l DEF Good
<1>15. Ready(d, r) /\ d.heap[r].instr # None
  BY <1>1, <1>2, <1>3, <1>4 DEF Ready
<1>16. Lost(d) \subseteq LostBy(o, r, a1, a2)
  <2> SUFFICES ASSUME NEW k \in Places(d.code), Loses(d, k) PROVE d.code[k].result \in LostBy(o, r, a1, a2)
    BY DEF Lost
  <2>1. CASE k \in Places(o.code)
    BY <1>12, <2>1 DEF LostBy
  <2>2. CASE k = n
    <3>1. o.heap[r].kind # "ID3" /\ o.heap[r].var # None /\ d.code[k].result = r
      BY <1>2, <1>3, <1>q, <1>s, <2>2 DEF Loses, Same
    <3>2. QED BY <3>1 DEF LostBy
  <2>3. QED BY <1>4, <2>1, <2>2
<1>17. QED BY <1>5, <1>14, <1>15, <1>16

(***************************************************************************)
(* Jumps and labels.                                                       *)
(***************************************************************************)
Gotos(c) == {k \in Places(c) : c[k].op = "goto"}

\* d has another quad than o, a jump or a label; some quads are alive now, and
\* the jumps of J lead to the new quad.
Marked(o, d, q, S, J) ==
    /\ d \in Outs /\ d.heap = o.heap /\ Len(d.code) = Len(o.code) + 1
    /\ \A k \in Places(o.code) : /\ Likewise(o.code[k], d.code[k])
                                 /\ d.code[k].to = IF k \in J THEN Len(o.code) + 1 ELSE o.code[k].to
                                 /\ d.code[k].dead <=> o.code[k].dead /\ k \notin S
    /\ d.code[Len(o.code) + 1] = q

LEMMA MarkedGood ==
    ASSUME NEW o, Good(o), NEW d, NEW q, NEW S, NEW J, J \subseteq Gotos(o.code), Marked(o, d, q, S, J),
           ~q.dead /\ q.to = None /\ Formed(o.heap, q), J # {} => q.op = "label", q.op \in {"goto", "label"},
           \A a \in Reads(q) : Ready(o, a) /\ o.heap[a].instr \in S \cup {None}
    PROVE  /\ Good(d) /\ Keeps(o, d) /\ SameKinds(o, d) /\ Lost(d) = {a \in Lost(o) : o.heap[a].instr \notin S}
           /\ Gotos(d.code) = Gotos(o.code) \cup {k \in {Len(d.code)} : q.op = "goto"}
<1> DEFINE n == Len(o.code) + 1
<1>1. o \in Outs /\ Len(o.heap) \in Nat /\ Len(o.code) \in Nat /\ n \in Nat /\ n # None
  BY DEF Good, Outs, None
<1>2. /\ d \in Outs /\ d.heap = o.heap /\ Len(d.code) = n /\ d.code[n] = q
      /\ \A k \in Places(o.code) : /\ Likewise(o.code[k], d.code[k])
                                   /\ d.code[k].to = IF k \in J THEN n ELSE o.code[k].to
                                   /\ d.code[k].dead <=> o.code[k].dead /\ k \notin S
  BY DEF Marked
<1>n. n = Len(o.code) + 1
  OBVIOUS
<1> HIDE DEF n
<1>4. Places(d.code) = Places(o.code) \cup {n} /\ n \notin Places(o.code) /\ Places(o.code) = 1 .. n - 1
  BY <1>1, <1>2, <1>n DEF Places
<1>5. Keeps(o, d) /\ SameKinds(o, d)
  BY <1>1, <1>2, <1>n DEF Keeps, SameKinds, Same
<1>7. \A a, j : \A k \in 1 .. n : Latest(d.code, a, j, k) <=> Latest(o.code, a, j, k)
  <2> TAKE a, j
  <2> TAKE k \in 1 .. n
  <2> DEFINE m == n - 1
  <2>3. m \in Nat /\ (\A i \in 1 .. m : Likewise(o.code[i], d.code[i])) /\ k <= m + 1 /\ k \in Nat
    BY <1>1, <1>2, <1>4, <1>n
  <2> HIDE DEF m
  <2>4. QED BY <2>3, LatestStays
<1>8. \A a : Ready(o, a) /\ Temp(o.heap, a) =>
          \E j \in Places(o.code) : Latest(o.code, a, j, n) /\ (o.code[j].dead => j = o.heap[a].instr)
  <2> SUFFICES ASSUME NEW a, Ready(o, a), Temp(o.heap, a)
               PROVE  \E j \in Places(o.code) : Latest(o.code, a, j, n) /\ (o.code[j].dead => j = o.heap[a].instr)
    OBVIOUS
  <2>1. Known(o, a) /\ o.heap[a].instr # None
    BY DEF Good, Ready
  <2>2. QED BY <2>1, <1>n DEF Known
<1>9. Fed(d, n)
  <2> SUFFICES ASSUME NEW a \in Reads(d.code[n]), Temp(d.heap, a)
               PROVE  \E j \in Places(d.code) : Latest(d.code, a, j, n) /\ ~d.code[j].dead
    BY DEF Fed
  <2>1. Ready(o, a) /\ o.heap[a].instr \in S \cup {None}
    BY <1>2
  <2>2. Temp(o.heap, a) /\ o.heap[a].instr \in S
    BY <1>2, <2>1 DEF Ready
  <2>3. PICK j \in Places(o.code) : Latest(o.code, a, j, n) /\ (o.code[j].dead => j = o.heap[a].instr)
    BY <1>8, <2>1, <2>2
  <2>4. ~d.code[j].dead
    BY <1>2, <2>2, <2>3
  <2>5. n \in 1 .. n
    BY <1>1, <1>4, <2>3
  <2>6. QED BY <1>4, <1>7, <2>3, <2>4, <2>5
<1>10. ASSUME NEW k \in Places(o.code) PROVE Fed(d, k)
  <2>1. Fed(o, k)
    BY DEF Good
  <2>2. Reads(d.code[k]) = Reads(o.code[k])
    BY <1>2, LikewiseWrites
  <2>3. k \in 1 .. n
    BY <1>4, <1>1
  <2> SUFFICES ASSUME NEW a \in Reads(d.code[k]), Temp(d.heap, a)
               PROVE  \E j \in Places(d.code) : Latest(d.code, a, j, k) /\ ~d.code[j].dead
    BY DEF Fed
  <2>4. PICK j \in Places(o.code) : Latest(o.code, a, j, k) /\ ~o.code[j].dead
    BY <1>2, <2>1, <2>2 DEF Fed
  <2>5. QED BY <1>2, <1>4, <1>7, <2>3, <2>4
<1>11. ASSUME NEW a \in Places(d.heap)
       PROVE  d.heap[a].instr <= Len(d.code) /\ Known(d, a) /\ (d.heap[a].ea => d.heap[a].var # None)
  <2>1. o.heap[a].instr <= Len(o.code) /\ (o.heap[a].ea => o.heap[a].var # None) /\ o.heap[a] \in Addresses
    BY <1>1, <1>2 DEF Good, Outs, Places
  <2>2. d.heap[a].instr <= Len(d.code) /\ (d.heap[a].ea => d.heap[a].var # None)
    BY <1>1, <1>2, <1>n, <2>1 DEF Addresses
  <2> SUFFICES ASSUME Temp(d.heap, a), d.heap[a].instr # None
               PROVE  \E j \in Places(d.code) : Latest(d.code, a, j, n + 1) /\ (d.code[j].dead => j = d.heap[a].instr)
    BY <1>2, <2>2 DEF Known
  <2>3. Ready(o, a) /\ Temp(o.heap, a)
    BY <1>2 DEF Ready
  <2>4. PICK j \in Places(o.code) : Latest(o.code, a, j, n) /\ (o.code[j].dead => j = o.heap[a].instr)
    BY <1>8, <2>3
  <2>5. n \in 1 .. n
    BY <1>1, <1>4, <2>4
  <2>6. Latest(d.code, a, j, n) /\ ~Writes(d.code[n], a)
    BY <1>2, <1>7, <2>4, <2>5 DEF Writes
  <2>7. Latest(d.code, a, j, n + 1)
    BY <1>1, <2>6 DEF Latest
  <2>8. QED BY <1>2, <1>4, <2>4, <2>7
<1>12. ASSUME NEW k \in Places(o.code)
       PROVE  /\ Formed(d.heap, d.code[k]) /\ Patched(d.code, k)
              /\ Loses(d, k) <=> Loses(o, k) /\ k \notin S
              /\ Loses(d, k) => d.heap[d.code[k].result].instr = k
  <2>1. Formed(o.heap, o.code[k]) /\ Patched(o.code, k) /\ (Loses(o, k) => o.heap[o.code[k].result].instr = k)
    BY DEF Good
  <2>2. Formed(d.heap, d.code[k])
    <3>1. k \in J => o.code[k].op = "goto"
      BY DEF Gotos
    <3>2. QED BY <1>2, <1>4, <2>1, <3>1 DEF Formed, Likewise
  <2>3. Patched(d.code, k)
    <3>1. CASE k \in J
      <4>1. d.code[k].to = n /\ d.code[n].op = "label" /\ n \in k + 1 .. Len(d.code)
        BY <1>1, <1>2, <1>4, <3>1
      <4>2. QED BY <4>1 DEF Patched
    <3>2. CASE k \notin J /\ o.code[k].to = None
      BY <1>2, <3>2 DEF Patched
    <3>3. CASE k \notin J /\ o.code[k].to \in k + 1 .. Len(o.code) /\ o.code[o.code[k].to].op = "label"
      <4>1. o.code[k].to \in k + 1 .. Len(d.code) /\ o.code[k].to \in Places(o.code)
        BY <1>1, <1>2, <1>4, <1>n, <3>3
      <4>2. QED BY <1>2, <3>3, <4>1 DEF Patched, Likewise
    <3>4. QED BY <2>1, <3>1, <3>2, <3>3 DEF Patched
  <2>4. QED BY <1>2, <2>1, <2>2, <2>3 DEF Loses, Likewise
<1>13. Formed(d.heap, d.code[n]) /\ Patched(d.code, n) /\ ~Loses(d, n)
  BY <1>2 DEF Patched, Loses
<1>l. Linear(d)
  <2>1. Linear(o) /\ \A k \in Places(o.code) : \A a : Writes(d.code[k], a) <=> Writes(o.code[k], a)
    BY <1>2, LikewiseWrites DEF Good
  <2>2. \A k \in Places(o.code) : Reads(d.code[k]) = Reads(o.code[k]) /\ d.code[k].result = o.code[k].result
    BY <1>2, LikewiseWrites DEF Likewise
  <2>4. ASSUME NEW k \in Places(o.code) PROVE Rewritten(d, k)
    <3>1. Rewritten(o, k)
      BY <2>1 DEF Linear
    <3>2. \A j \in 1 .. k - 1 : j \in Places(o.code)
      BY <1>1, <1>4
    <3>3. QED BY <1>2, <2>1, <2>2, <3>1, <3>2 DEF Rewritten
  <2>5. \A a : ~Writes(d.code[n], a)
    BY <1>2 DEF Writes
  <2>6. \A a \in Places(d.heap) : d.heap[a].instr = None => \A k \in Places(d.code) : ~Writes(d.code[k], a)
    BY <1>2, <1>4, <2>1, <2>5 DEF Linear
  <2>7. QED BY <1>4, <2>4, <2>5, <2>6 DEF Linear, Rewritten
<1>14. Good(d)
  BY <1>2, <1>4, <1>9, <1>10, <1>11, <1>12, <1>13, <1>l DEF Good
<1>15. Lost(d) = {a \in Lost(o) : o.heap[a].instr \notin S}
  <2>1. \A k \in Places(o.code) : Loses(o, k) => o.heap[o.code[k].result].instr = k
    BY DEF Good
  <2>2. \A k \in Places(o.code) : d.code[k].result = o.code[k].result
    BY <1>2 DEF Likewise
  <2>3. QED BY <1>4, <1>12, <1>13, <2>1, <2>2 DEF Lost
<1>16. Gotos(d.code) = Gotos(o.code) \cup {k \in {Len(d.code)} : q.op = "goto"}
  BY <1>2, <1>4 DEF Gotos, Likewise
<1>17. QED BY <1>5, <1>14, <1>15, <1>16

LEMMA JumpedIs ==
    ASSUME NEW o, Good(o), NEW a, a = None \/ Ready(o, a), NEW when \in BOOLEAN, NEW d, d = Jumped(o, a, when)
    PROVE  /\ Good(d) /\ Keeps(o, d) /\ SameKinds(o, d) /\ Lost(d) \subseteq Lost(o) \ {a}
           /\ d.heap = o.heap /\ Gotos(d.code) = Gotos(o.code) \cup {Len(d.code)} /\ Len(d.code) = Len(o.code) + 1
           /\ \A k \in Places(o.code) : Likewise(o.code[k], d.code[k]) /\ d.code[k].to = o.code[k].to
           /\ LET q == d.code[Len(d.code)] IN q.op = "goto" /\ q.arg1 = a /\ q.result = None /\ q.when = when /\ q.to = None
<1> DEFINE S == (IF a = None THEN {} ELSE {o.heap[a].instr}) \ {None}
           q == [Instr("goto", None, a, None) EXCEPT !.when = when, !.dead = FALSE]
           c == Alive(o.code, S)
<1>1. o \in Outs /\ o.heap \in Seq(Addresses) /\ o.code \in Seq(Quads) /\ Len(o.code) \in Nat /\ a \in Nat /\ (a = None \/ a \in Places(o.heap))
  BY DEF Good, Outs, Ready, Places, None
<1>2. d = [heap |-> o.heap, code |-> Append(c, q)]
  BY <1>1 DEF Jumped, Outs
<1>3. /\ c \in Seq(Quads) /\ Len(c) = Len(o.code)
      /\ \A k \in Places(o.code) : Likewise(o.code[k], c[k]) /\ c[k].to = o.code[k].to /\ (c[k].dead <=> o.code[k].dead /\ k \notin S)
  <2> HIDE DEF S
  <2>1. QED BY <1>1, AliveIs
<1>4. /\ q \in Quads /\ q.op = "goto" /\ q.arg1 = a /\ q.arg2 = None /\ q.result = None /\ q.to = None /\ ~q.dead /\ q.when = when
  BY <1>1 DEF Instr, Quads, Ops, None
<1> HIDE DEF c, q
<1>5. d.heap = o.heap /\ d.code = Append(c, q) /\ d \in Outs
  BY <1>1, <1>2, <1>3, <1>4 DEF Outs
<1>6. Len(d.code) = Len(o.code) + 1 /\ d.code[Len(o.code) + 1] = q /\ \A k \in Places(o.code) : d.code[k] = c[k]
  BY <1>1, <1>3, <1>4, <1>5 DEF Places
<1> HIDE DEF S
<1>7. Marked(o, d, q, S, {})
  BY <1>3, <1>5, <1>6 DEF Marked
<1>8. Reads(q) = {a} \ {None}
  BY <1>1, <1>4 DEF Reads
<1>9. Formed(o.heap, q)
  BY <1>1, <1>4 DEF Formed, Copies, Binaries
<1>10. a # None => o.heap[a].instr \in S \cup {None}
  BY DEF S
<1>11. /\ Good(d) /\ Keeps(o, d) /\ SameKinds(o, d) /\ Lost(d) = {x \in Lost(o) : o.heap[x].instr \notin S}
       /\ Gotos(d.code) = Gotos(o.code) \cup {k \in {Len(d.code)} : q.op = "goto"}
  BY <1>4, <1>7, <1>8, <1>9, <1>10, MarkedGood
<1>12. a \notin Lost(d)
  <2> SUFFICES ASSUME a \in Lost(o) PROVE o.heap[a].instr \in S
    BY <1>11
  <2>1. PICK k \in Places(o.code) : Loses(o, k) /\ o.code[k].result = a
    BY DEF Lost
  <2>2. o.heap[a].instr = k /\ k # None /\ a # None
    BY <2>1, <1>1 DEF Good, Formed, Loses, Places, None
  <2>3. QED BY <2>2 DEF S
<1>13. Lost(d) \subseteq Lost(o) \ {a} /\ Gotos(d.code) = Gotos(o.code) \cup {Len(d.code)}
  BY <1>4, <1>11, <1>12
<1>14. \A k \in Places(o.code) : Likewise(o.code[k], d.code[k]) /\ d.code[k].to = o.code[k].to
  BY <1>3, <1>6
<1>15. d.code[Len(d.code)] = q
  BY <1>6
<1>16. QED BY <1>4, <1>5, <1>6, <1>11, <1>13, <1>14, <1>15

LEMMA LabelledIs ==
    ASSUME NEW o, Good(o), NEW J, J \subseteq Gotos(o.code), J # {}, NEW d, d = Labelled(o, J)
    PROVE  /\ Good(d) /\ Keeps(o, d) /\ SameKinds(o, d) /\ Lost(d) = Lost(o)
           /\ d.heap = o.heap /\ Gotos(d.code) = Gotos(o.code) /\ Len(d.code) = Len(o.code) + 1
           /\ \A k \in Places(o.code) : /\ Likewise(o.code[k], d.code[k])
                                        /\ d.code[k].to = IF k \in J THEN Len(o.code) + 1 ELSE o.code[k].to
           /\ d.code[Len(d.code)].op = "label"
<1> DEFINE n == Len(o.code) + 1
           q == [Instr("label", None, None, None) EXCEPT !.dead = FALSE]
           c == Append(o.code, q)
           f(k) == IF k \in J THEN [c[k] EXCEPT !.to = n] ELSE c[k]
<1>1. o \in Outs /\ o.heap \in Seq(Addresses) /\ o.code \in Seq(Quads) /\ Len(o.code) \in Nat /\ n \in Nat
  BY DEF Good, Outs
<1>2. q \in Quads /\ q.op = "label" /\ q.arg1 = None /\ q.arg2 = None /\ q.result = None /\ q.to = None /\ ~q.dead
  BY DEF Instr, Quads, Ops, None
<1> HIDE DEF q
<1>3. c \in Seq(Quads) /\ Len(c) = n /\ (\A k \in Places(o.code) : c[k] = o.code[k]) /\ c[n] = q
  BY <1>1, <1>2 DEF Places
<1>n. n = Len(o.code) + 1
  OBVIOUS
<1>4. d = [heap |-> o.heap, code |-> [k \in DOMAIN c |-> f(k)]]
  BY <1>1 DEF Labelled, Outs, q
<1> HIDE DEF c, n
<1>5. \A k \in 1 .. n : f(k) \in Quads /\ Likewise(c[k], f(k)) /\ f(k).to = (IF k \in J THEN n ELSE c[k].to) /\ f(k).dead = c[k].dead
  <2> TAKE k \in 1 .. n
  <2>1. c[k] \in Quads
    BY <1>3
  <2>2. QED BY <1>1, <2>1 DEF Quads, Likewise
<1>6. n \notin J /\ f(n) = q
  BY <1>1, <1>3, <1>n DEF Gotos, Places
<1> HIDE DEF f
<1>7. d.heap = o.heap /\ d.code = [k \in 1 .. n |-> f(k)] /\ d.code \in Seq(Quads) /\ Len(d.code) = n /\ d \in Outs
  <2>1. DOMAIN c = 1 .. n
    BY <1>1, <1>3
  <2>2. [k \in 1 .. n |-> f(k)] \in Seq(Quads) /\ Len([k \in 1 .. n |-> f(k)]) = n
    BY <1>1, <1>5
  <2>3. QED BY <1>1, <1>4, <2>1, <2>2 DEF Outs
<1>8. Places(o.code) \subseteq 1 .. n /\ n \in 1 .. n
  BY <1>1, <1>n DEF Places
<1>9. Marked(o, d, q, {}, J)
  BY <1>3, <1>5, <1>6, <1>7, <1>8, <1>n DEF Marked
<1>10. Reads(q) = {}
  BY <1>2 DEF Reads
<1>11. Formed(o.heap, q)
  BY <1>2 DEF Formed, Copies, Binaries
<1>12. /\ Good(d) /\ Keeps(o, d) /\ SameKinds(o, d) /\ Lost(d) = {x \in Lost(o) : o.heap[x].instr \notin {}}
       /\ Gotos(d.code) = Gotos(o.code) \cup {k \in {Len(d.code)} : q.op = "goto"}
  <2>1. q.op \in {"goto", "label"}
    BY <1>2
  <2>2. QED BY <1>2, <1>9, <1>10, <1>11, <2>1, MarkedGood
<1>13. QED BY <1>2, <1>3, <1>5, <1>6, <1>7, <1>8, <1>12, <1>n

(***************************************************************************)
(* A variable's address that becomes a temporary's.                        *)
(***************************************************************************)
LEMMA RetypedIs ==
    ASSUME NEW o, Good(o), NEW a \in Places(o.heap), o.heap[a].kind # "CON", NEW d, d = Retyped(o, a)
    PROVE  /\ Good(d) /\ Keeps(o, d) /\ Lost(d) = Lost(o) /\ d.code = o.code /\ Len(d.heap) = Len(o.heap)
           /\ \A b \in Places(o.heap) : d.heap[b].kind = IF a = b THEN "TEMP" ELSE o.heap[b].kind
<1>1. o \in Outs /\ o.heap \in Seq(Addresses) /\ o.code \in Seq(Quads) /\ Len(o.code) \in Nat /\ Len(o.heap) \in Nat
  BY DEF Good, Outs
<1> DEFINE f(b) == IF b = a THEN [o.heap[a] EXCEPT !.kind = "TEMP"] ELSE o.heap[b]
<1>2. d = [heap |-> [b \in 1 .. Len(o.heap) |-> f(b)], code |-> o.code]
  <2>1. o = [heap |-> o.heap, code |-> o.code]
    BY <1>1 DEF Outs
  <2>2. d = [heap |-> [o.heap EXCEPT ![a].kind = "TEMP"], code |-> o.code]
    BY <2>1 DEF Retyped
  <2>3. [o.heap EXCEPT ![a].kind = "TEMP"] = [b \in 1 .. Len(o.heap) |-> f(b)]
    BY <1>1 DEF Places
  <2>4. QED BY <2>2, <2>3
<1>3. \A b \in Places(o.heap) : /\ f(b) \in Addresses /\ Same(o.heap[b], f(b)) /\ f(b).instr = o.heap[b].instr
                                /\ f(b).kind = IF a = b THEN "TEMP" ELSE o.heap[b].kind
  <2> TAKE b \in Places(o.heap)
  <2>1. o.heap[b] \in Addresses
    BY <1>1 DEF Places
  <2>2. QED BY <2>1 DEF Addresses, Same, Kinds
<1> HIDE DEF f
<1>4. d.code = o.code /\ d.heap = [b \in 1 .. Len(o.heap) |-> f(b)] /\ d.heap \in Seq(Addresses) /\ Len(d.heap) = Len(o.heap) /\ d \in Outs
  BY <1>1, <1>2, <1>3 DEF Outs, Places
<1>5. \A b \in Places(o.heap) : /\ Same(o.heap[b], d.heap[b]) /\ d.heap[b].instr = o.heap[b].instr
                                /\ d.heap[b].kind = IF a = b THEN "TEMP" ELSE o.heap[b].kind
  BY <1>3, <1>4 DEF Places
<1>c. d.code = o.code /\ Len(d.heap) = Len(o.heap) /\ d \in Outs
  BY <1>4
<1>v. \A b \in Places(o.heap) : d.heap[b].instr = o.heap[b].instr /\ d.heap[b].var = o.heap[b].var /\ d.heap[b].ea = o.heap[b].ea
  BY <1>5 DEF Same
<1>s. \A b \in Places(o.heap) : Same(o.heap[b], d.heap[b])
  BY <1>5
<1>6. Places(d.heap) = Places(o.heap) /\ \A b \in Places(o.heap) : Temp(d.heap, b) <=> Temp(o.heap, b)
  BY <1>4, <1>5 DEF Places, Temp, Same
<1>7. \A b \in Places(o.heap) : d.heap[b].instr <= Len(d.code) /\ Known(d, b) /\ (d.heap[b].ea => d.heap[b].var # None)
  <2> TAKE b \in Places(o.heap)
  <2>1. o.heap[b].instr <= Len(o.code) /\ Known(o, b) /\ (o.heap[b].ea => o.heap[b].var # None)
    BY DEF Good
  <2>2. Known(d, b)
    BY <1>c, <1>v, <1>6, <2>1 DEF Known
  <2>3. QED BY <1>c, <1>v, <2>1, <2>2
<1>8. ASSUME NEW k \in Places(o.code)
      PROVE  /\ Formed(d.heap, d.code[k]) /\ Patched(d.code, k) /\ Fed(d, k) /\ (Loses(d, k) <=> Loses(o, k))
             /\ Loses(d, k) => d.heap[d.code[k].result].instr = k
  <2>1. /\ Formed(o.heap, o.code[k]) /\ Patched(o.code, k) /\ Fed(o, k) /\ (Loses(o, k) => o.heap[o.code[k].result].instr = k)
        /\ o.code[k] \in Quads
    BY <1>1 DEF Good, Places
  <2>2. Formed(d.heap, d.code[k]) /\ Patched(d.code, k)
    BY <1>4, <1>6, <2>1 DEF Formed, Patched
  <2>3. Reads(o.code[k]) \subseteq Places(o.heap)
    BY <2>1 DEF Formed, Reads, Quads, Ops
  <2>4. Fed(d, k)
    BY <1>4, <1>6, <2>1, <2>3 DEF Fed
  <2>5. o.code[k].dead => o.code[k].result \in Places(o.heap)
    BY <2>1 DEF Formed
  <2>6. Loses(d, k) <=> Loses(o, k)
    BY <1>c, <1>v, <2>5 DEF Loses
  <2>7. Loses(o, k) => o.code[k].result \in Places(o.heap)
    BY <2>5 DEF Loses
  <2>8. QED BY <1>c, <1>v, <2>1, <2>2, <2>4, <2>6, <2>7
<1>l. Linear(d)
  <2>1. Linear(o) /\ \A k \in Places(o.code) : Formed(o.heap, o.code[k]) /\ o.code[k] \in Quads
    BY <1>1 DEF Good, Places
  <2>2. \A k \in Places(o.code) : \A b : Writes(o.code[k], b) => b \in Places(o.heap)
    BY <2>1 DEF Formed, Writes, Quads, Ops
  <2>3. \A k \in Places(d.code) : Rewritten(d, k)
    BY <1>4, <1>6, <2>1, <2>2 DEF Rewritten, Linear
  <2>4. QED BY <1>c, <1>v, <1>6, <2>1, <2>3 DEF Linear
<1>9. Good(d)
  BY <1>4, <1>6, <1>7, <1>8, <1>l DEF Good
<1>10. Keeps(o, d)
  BY <1>1, <1>c, <1>s, <1>v DEF Keeps
<1>11. Lost(d) = Lost(o)
  BY <1>4, <1>8 DEF Lost
<1>12. QED BY <1>4, <1>5, <1>9, <1>10, <1>11

(***************************************************************************)
(* Arithmetic and the machine's types.                                     *)
(***************************************************************************)
LEMMA Powers == Pow2 \in [0 .. 15 -> Nat \ {0}]
<1> DEFINE D == [k \in 1 .. 15 |-> [p \in Nat \ {0} |-> 2 * p]]
<1>1. D \in [1 .. 15 -> [Nat \ {0} -> Nat \ {0}]]
  OBVIOUS
<1>2. PICK g \in [0 .. 15 -> Nat \ {0}] : Follows(g, 1, D, 15)
  <2>1. PICK S : S = Nat \ {0}
    OBVIOUS
  <2>2. D \in [1 .. 15 -> [S -> S]] /\ 1 \in S /\ 15 \in Nat
    BY <1>1, <2>1
  <2> HIDE DEF D
  <2>3. \E g \in [0 .. 15 -> S] : Follows(g, 1, D, 15)
    BY <2>2, Recursion
  <2>4. QED BY <2>1, <2>3
<1>3. \A k \in 0 .. 15 : g[k] = IF k = 0 THEN 1 ELSE 2 * g[k - 1]
  BY <1>2 DEF Follows
<1>4. g = [k \in 0 .. 15 |-> IF k = 0 THEN 1 ELSE 2 * g[k - 1]]
  BY <1>2, <1>3
<1>5. \A f : f = [k \in 0 .. 15 |-> IF k = 0 THEN 1 ELSE 2 * f[k - 1]] => f \in [0 .. 15 -> Nat \ {0}]
  <2>1. TAKE f
  <2>2. HAVE f = [k \in 0 .. 15 |-> IF k = 0 THEN 1 ELSE 2 * f[k - 1]]
  <2> DEFINE P == {k \in 0 .. 15 : f[k] \in Nat \ {0}}
  <2>3. 0 \in P
    BY <2>2
  <2>4. \A k \in 1 .. 15 : k - 1 \in P => k \in P
    BY <2>2
  <2>5. 0 .. 15 \subseteq P
    <3> HIDE DEF P
    <3>1. QED BY <2>3, <2>4, Upwards
  <2>6. QED BY <2>2, <2>5
<1>6. Pow2 = [k \in 0 .. 15 |-> IF k = 0 THEN 1 ELSE 2 * Pow2[k - 1]]
  BY <1>4, Zenon DEF Pow2
<1>7. QED BY <1>5, <1>6

LEMMA BitIs == ASSUME NEW x \in Int, NEW i \in 0 .. 15 PROVE Bit(x, i) \in {0, 1}
<1>1. PICK p \in Nat : p = Pow2[i] /\ p > 0
  BY Powers
<1>2. x \div p \in Int
  BY <1>1
<1>3. QED BY <1>1, <1>2 DEF Bit

LEMMA CommonIs == ASSUME NEW x \in Int, NEW y \in Int PROVE Common(x, y) \in Int
<1> DEFINE e(k) == Bit(x, k - 1) * Bit(y, k - 1) * Pow2[k - 1]
           D == [k \in 1 .. 4 |-> [p \in Int |-> p + e(k)]]
<1>1. \A k \in 1 .. 4 : e(k) \in Int
  <2> TAKE k \in 1 .. 4
  <2>1. k - 1 \in 0 .. 15
    OBVIOUS
  <2>2. PICK b \in Int, c \in Int, p \in Int : b = Bit(x, k - 1) /\ c = Bit(y, k - 1) /\ p = Pow2[k - 1]
    BY <2>1, BitIs, Powers
  <2>3. b * c * p \in Int
    OBVIOUS
  <2>4. QED BY <2>2, <2>3
<1> HIDE DEF e
<1>2. D \in [1 .. 4 -> [Int -> Int]]
  BY <1>1
<1>3. PICK g \in [0 .. 4 -> Int] : Follows(g, 0, D, 4)
  <2>1. PICK S : S = Int
    OBVIOUS
  <2>2. D \in [1 .. 4 -> [S -> S]] /\ 0 \in S /\ 4 \in Nat
    BY <1>2, <2>1
  <2> HIDE DEF D
  <2>3. \E g \in [0 .. 4 -> S] : Follows(g, 0, D, 4)
    BY <2>2, Recursion
  <2>4. QED BY <2>1, <2>3
<1>4. \A k \in 0 .. 4 : g[k] = IF k = 0 THEN 0 ELSE g[k - 1] + e(k)
  BY <1>3 DEF Follows
<1> DEFINE F(f) == f = [k \in 0 .. 4 |-> IF k = 0 THEN 0 ELSE f[k - 1] + e(k)]
<1>5. F(g)
  BY <1>3, <1>4
<1>6. PICK r : r = CHOOSE f : F(f)
  OBVIOUS
<1>7. F(r)
  <2> HIDE DEF F
  <2>1. QED BY <1>5, <1>6, Zenon
<1>8. Common(x, y) = r[4]
  BY <1>6, Zenon DEF Common, e
<1>9. r[0] = 0 /\ r[1] = r[0] + e(1) /\ r[2] = r[1] + e(2) /\ r[3] = r[2] + e(3) /\ r[4] = r[3] + e(4)
  BY <1>7
<1>10. r[4] \in Int
  <2>1. r[1] \in Int
    BY <1>1, <1>9
  <2>2. r[2] \in Int
    BY <1>1, <1>9, <2>1
  <2>3. r[3] \in Int
    BY <1>1, <1>9, <2>2
  <2>4. QED BY <1>1, <1>9, <2>3
<1>11. QED BY <1>8, <1>10

LEMMA MeaningIs == ASSUME NEW op \in Binaries, NEW x \in Int, NEW y \in Int PROVE Meaning(op, x, y) \in Int
<1>1. Common(x, y) \in Int /\ Wild \in Int
  BY CommonIs DEF Wild
<1>2. CASE ~Defined(op, x, y)
  BY <1>1, <1>2 DEF Meaning
<1>3. CASE Defined(op, x, y)
  <2>1. CASE op \in {"+", "-", "*"}
    BY <1>3, <2>1 DEF Meaning
  <2>2. CASE op \in {"/", "%"}
    <3>1. x \in Int /\ y > 0
      BY <1>3, <2>2 DEF Defined
    <3>2. x \div y \in Int /\ x % y \in Int
      BY <3>1
    <3>3. QED BY <1>3, <2>2, <3>2 DEF Meaning
  <2>3. CASE op \in {"&", "|", "^"}
    BY <1>1, <1>3, <2>3 DEF Meaning
  <2>4. CASE op = "<<"
    <3>1. y \in 0 .. 15
      BY <1>3, <2>4 DEF Defined
    <3>2. PICK p \in Int : p = Pow2[y]
      BY <3>1, Powers
    <3>3. QED BY <1>3, <2>4, <3>2 DEF Meaning
  <2>5. CASE op \in {"<", "=="}
    BY <1>3, <2>5 DEF Meaning, Truth
  <2>6. QED BY <2>1, <2>2, <2>3, <2>4, <2>5 DEF Binaries
<1>4. QED BY <1>2, <1>3

LEMMA Sums == ASSUME NEW x \in Int, NEW y \in Int
              PROVE  Meaning("+", x, y) = x + y /\ Meaning("-", x, y) = x - y /\ Meaning("*", x, y) = x * y
BY DEF Meaning, Defined

Memories    == [Cells -> Int]
Machines(h) == [mem : Memories, temps : [Places(h) -> Int], skip : Int, from : Nat]

LEMMA AtIs == ASSUME NEW m \in Memories, NEW c PROVE At(m, c) \in Int
BY DEF At, Memories, Wild

LEMMA DenotedIs ==
    ASSUME NEW h \in Seq(Addresses), NEW m \in Machines(h), NEW a \in Places(h) PROVE Denoted(h, m, a) \in Int
<1>1. h[a] \in Addresses /\ m.temps[a] \in Int /\ m.mem \in Memories
  BY DEF Places, Machines
<1>2. h[a].val \in Int /\ h[a].var \in Int /\ At(m.mem, h[a].var) \in Int
  BY <1>1, AtIs DEF Addresses
<1>3. QED BY <1>1, <1>2 DEF Denoted

LEMMA ResultIs ==
    ASSUME NEW h \in Seq(Addresses), NEW m \in Machines(h), NEW q \in Quads, Formed(h, q), q.op \notin {"goto", "label"}
    PROVE  Result(h, m, q) \in Int
<1>1. q.arg1 \in Places(h) /\ (q.op \in Binaries => q.arg2 \in Places(h)) /\ q.op \in Binaries \cup Copies \cup {"()s"}
  BY DEF Formed, Quads, Ops
<1>2. Denoted(h, m, q.arg1) \in Int /\ (q.op \in Binaries => Denoted(h, m, q.arg2) \in Int)
  BY <1>1, DenotedIs
<1>3. h[q.arg1] \in Addresses /\ m.mem \in Memories
  BY <1>1 DEF Places, Machines
<1>4. h[q.arg1].var \in Int
  BY <1>3 DEF Addresses
<1>5. At(m.mem, Denoted(h, m, q.arg1)) \in Int
  BY <1>3, AtIs
<1>6. CASE q.op \in Binaries
  <2>1. Meaning(q.op, Denoted(h, m, q.arg1), Denoted(h, m, q.arg2)) \in Int
    BY <1>2, <1>6, MeaningIs
  <2>2. Result(h, m, q) = Meaning(q.op, Denoted(h, m, q.arg1), Denoted(h, m, q.arg2))
    BY <1>6 DEF Result, Binaries
  <2>3. QED BY <2>1, <2>2
<1>7. CASE q.op \in Copies \cup {"()s"}
  BY <1>2, <1>4, <1>5, <1>7 DEF Result, Copies, Truth
<1>8. QED BY <1>1, <1>6, <1>7

LEMMA StoredIs ==
    ASSUME NEW h, NEW m \in Machines(h), NEW c, NEW v \in Int
    PROVE  Stored(m, c, v) \in Machines(h)
<1>1. CASE c \in Cells
  <2>1. [m.mem EXCEPT ![c] = v] \in Memories
    BY DEF Machines, Memories
  <2>2. [m EXCEPT !.mem = [m.mem EXCEPT ![c] = v]] \in Machines(h)
    BY <2>1 DEF Machines
  <2>3. Stored(m, c, v) = [m EXCEPT !.mem = [m.mem EXCEPT ![c] = v]]
    BY <1>1 DEF Stored, Machines
  <2>4. QED BY <2>2, <2>3
<1>2. CASE c \notin Cells
  BY <1>2 DEF Stored
<1>3. QED BY <1>1, <1>2

LEMMA SteppedIs ==
    ASSUME NEW h \in Seq(Addresses), NEW m \in Machines(h), NEW q \in Quads, Formed(h, q), q.op # "label", NEW k \in Nat
    PROVE  Stepped(h, m, q, k) \in Machines(h)
<1>1. CASE q.op = "goto"
  <2>1. q.to \in Int /\ Left \in Int
    BY DEF Quads, Left
  <2>2. [m EXCEPT !.skip = IF q.to = None THEN Left ELSE q.to, !.from = k] \in Machines(h)
    BY <2>1 DEF Machines
  <2>3. QED BY <1>1, <2>2 DEF Stepped
<1>2. CASE q.op # "goto"
  <2>1. Result(h, m, q) \in Int
    BY <1>2, ResultIs
  <2>2. q.result \in Places(h)
    BY <1>2 DEF Formed, Quads, Ops
  <2>3. \A c : Stored(m, c, Result(h, m, q)) \in Machines(h)
    BY <2>1, StoredIs
  <2>4. [m EXCEPT !.temps[q.result] = Result(h, m, q)] \in Machines(h)
    <3>1. PICK v \in Int : v = Result(h, m, q)
      BY <2>1
    <3>2. [m.temps EXCEPT ![q.result] = v] \in [Places(h) -> Int]
      BY DEF Machines
    <3>3. [m EXCEPT !.temps = [m.temps EXCEPT ![q.result] = v]] \in Machines(h)
      BY <3>2 DEF Machines
    <3>4. [m EXCEPT !.temps[q.result] = v] = [m EXCEPT !.temps = [m.temps EXCEPT ![q.result] = v]]
      BY DEF Machines
    <3>5. QED BY <3>1, <3>3, <3>4
  <2>5. QED BY <1>2, <2>3, <2>4 DEF Stepped
<1>3. QED BY <1>1, <1>2

LEMMA AfterIs ==
    ASSUME NEW o, Good(o), NEW all, NEW m \in Machines(o.heap), NEW k \in Places(o.code)
    PROVE  After(o, all, m, k) \in Machines(o.heap)
<1>1. o.heap \in Seq(Addresses) /\ o.code[k] \in Quads /\ Formed(o.heap, o.code[k]) /\ k \in Nat
  BY DEF Good, Outs, Places
<1>2. CASE m.skip = k
  BY <1>2 DEF After, Machines, None
<1>3. CASE m.skip # k
  <2>1. o.code[k].op # "label" => Stepped(o.heap, m, o.code[k], k) \in Machines(o.heap)
    BY <1>1, SteppedIs
  <2>2. QED BY <1>3, <2>1 DEF After
<1>4. QED BY <1>2, <1>3

LEMMA RunIs ==
    ASSUME NEW o, Good(o), NEW all, NEW mem \in Memories
    PROVE  /\ Run(mem, o, all) \in [0 .. Len(o.code) -> Machines(o.heap)]
           /\ Run(mem, o, all)[0] = Before(mem, o)
           /\ \A k \in Places(o.code) : Run(mem, o, all)[k] = After(o, all, Run(mem, o, all)[k - 1], k)
<1> DEFINE n == Len(o.code)
           b == Before(mem, o)
           S == Machines(o.heap)
           D == [k \in 1 .. n |-> [s \in S |-> After(o, all, s, k)]]
<1>1. n \in Nat /\ b \in S
  BY DEF Good, Outs, Before, Machines, Wild, None, Places
<1>2. D \in [1 .. n -> [S -> S]]
  BY AfterIs DEF Places
<1>3. PICK g \in [0 .. n -> S] : Follows(g, b, D, n)
  <2> HIDE DEF D, b, S
  <2>1. QED BY <1>1, <1>2, Recursion
<1>4. \A k \in 1 .. n : k - 1 \in 0 .. n /\ g[k] = After(o, all, g[k - 1], k)
  <2>1. TAKE k \in 1 .. n
  <2>2. k - 1 \in 0 .. n
    <3> HIDE DEF n
    <3>1. QED BY <1>1
  <2>3. g[k - 1] \in S /\ g[k] = D[k][g[k - 1]]
    <3> HIDE DEF n, D, b, S
    <3>1. QED BY <1>3, <2>2 DEF Follows
  <2>4. D[k][g[k - 1]] = After(o, all, g[k - 1], k)
    BY <2>3
  <2>5. QED BY <2>2, <2>3, <2>4
<1>5. g = [k \in 0 .. n |-> IF k = 0 THEN b ELSE After(o, all, g[k - 1], k)]
  <2> HIDE DEF D, b, n, S
  <2>1. g[0] = b
    BY <1>3 DEF Follows
  <2>2. \A k \in 0 .. n : g[k] = IF k = 0 THEN b ELSE After(o, all, g[k - 1], k)
    BY <1>1, <1>4, <2>1
  <2>3. QED BY <1>3, <2>2
<1>6. PICK r : r = Run(mem, o, all)
  OBVIOUS
<1>7. r = [k \in 0 .. n |-> IF k = 0 THEN b ELSE After(o, all, r[k - 1], k)]
  <2> DEFINE F(f) == f = [k \in 0 .. n |-> IF k = 0 THEN b ELSE After(o, all, f[k - 1], k)]
  <2>1. r = CHOOSE f : F(f)
    BY <1>6, Zenon DEF Run
  <2>2. F(g)
    BY <1>5
  <2> HIDE DEF F
  <2>3. F(r)
    BY <2>1, <2>2, Zenon
  <2>4. QED BY <2>3 DEF F
<1>8. /\ r[0] = b
      /\ \A k \in 1 .. n : k \in 0 .. n /\ r[k] = After(o, all, r[k - 1], k)
      /\ DOMAIN r = 0 .. n
  <2> HIDE DEF b, n
  <2>1. QED BY <1>1, <1>7
<1>9. \A k \in 0 .. n : r[k] = g[k]
  <2> DEFINE P == {k \in 0 .. n : r[k] = g[k]}
  <2> HIDE DEF n, b, D, S
  <2>1. 0 \in P
    BY <1>1, <1>3, <1>8 DEF Follows
  <2>2. \A k \in 1 .. n : k - 1 \in P => k \in P
    BY <1>1, <1>4, <1>8
  <2>3. 0 .. n \subseteq P
    <3> HIDE DEF P
    <3>1. QED BY <1>1, <2>1, <2>2, Upwards
  <2>4. QED BY <2>3
<1>10. r \in [0 .. n -> S]
  <2> HIDE DEF n, b, D, S
  <2>1. r = [k \in 0 .. n |-> r[k]]
    BY <1>7
  <2>2. QED BY <1>3, <1>9, <2>1
<1> HIDE DEF b, S, D
<1>11. QED BY <1>6, <1>8, <1>10 DEF Places, b, S

(***************************************************************************)
(* Code that another extends runs as it did.                               *)
(***************************************************************************)
Like(h, m, m2, J, N) ==
    /\ m2.mem = m.mem /\ m2.from = m.from
    /\ \A a \in Places(h) : m2.temps[a] = m.temps[a]
    /\ m2.skip = IF m.skip = Left /\ m.from \in J THEN N ELSE m.skip

\* The jumps of J, which led nowhere, lead to N.
Alike(o, o2, J, N) ==
    /\ Len(o.heap) <= Len(o2.heap) /\ Len(o.code) <= Len(o2.code) /\ N \in Nat /\ N > Len(o.code)
    /\ \A a \in Places(o.heap) : Same(o.heap[a], o2.heap[a])
    /\ \A k \in Places(o.code) : /\ Likewise(o.code[k], o2.code[k])
                                 /\ o2.code[k].to = IF k \in J THEN N ELSE o.code[k].to
                                 /\ k \in J => o.code[k].to = None

LEMMA DenotedLike ==
    ASSUME NEW h, NEW h2, NEW m, NEW m2, NEW J, NEW N, Like(h, m, m2, J, N), NEW a \in Places(h), Same(h[a], h2[a])
    PROVE  Denoted(h2, m2, a) = Denoted(h, m, a)
BY DEF Like, Same, Denoted

LEMMA ResultLike ==
    ASSUME NEW h, NEW h2, NEW m, NEW m2, NEW J, NEW N, Like(h, m, m2, J, N), NEW q \in Quads, NEW q2, Likewise(q, q2),
           Formed(h, q), q.op \notin {"goto", "label"}, \A a \in Places(h) : Same(h[a], h2[a])
    PROVE  Result(h2, m2, q2) = Result(h, m, q)
<1>1. q.arg1 \in Places(h) /\ (q.op \in Binaries => q.arg2 \in Places(h)) /\ q.op \in Binaries \cup Copies \cup {"()s"}
  BY DEF Formed, Quads, Ops
<1>2. /\ Denoted(h2, m2, q.arg1) = Denoted(h, m, q.arg1)
      /\ (q.op \in Binaries => Denoted(h2, m2, q.arg2) = Denoted(h, m, q.arg2))
  BY <1>1, DenotedLike
<1>3. h2[q.arg1].var = h[q.arg1].var /\ m2.mem = m.mem /\ q2.op = q.op /\ q2.arg1 = q.arg1 /\ q2.arg2 = q.arg2
  BY <1>1 DEF Same, Like, Likewise
<1>4. CASE q.op \in Binaries
  <2>1. Result(h, m, q) = Meaning(q.op, Denoted(h, m, q.arg1), Denoted(h, m, q.arg2))
    BY <1>4 DEF Result, Binaries
  <2>2. Result(h2, m2, q2) = Meaning(q.op, Denoted(h2, m2, q.arg1), Denoted(h2, m2, q.arg2))
    BY <1>3, <1>4 DEF Result, Binaries
  <2>3. QED BY <1>2, <1>4, <2>1, <2>2
<1>5. CASE q.op \in Copies \cup {"()s"}
  BY <1>2, <1>3, <1>5 DEF Result, Copies
<1>6. QED BY <1>1, <1>4, <1>5

LEMMA StoredLike ==
    ASSUME NEW h, NEW h2, NEW m \in Machines(h), NEW m2 \in Machines(h2), NEW J, NEW N, Like(h, m, m2, J, N), NEW c, NEW v
    PROVE  Like(h, Stored(m, c, v), Stored(m2, c, v), J, N)
<1>1. CASE c \in Cells
  <2>1. Stored(m, c, v) = [m EXCEPT !.mem = [m.mem EXCEPT ![c] = v]] /\ Stored(m2, c, v) = [m2 EXCEPT !.mem = [m2.mem EXCEPT ![c] = v]]
    BY <1>1 DEF Stored, Machines
  <2>2. QED BY <2>1 DEF Like, Machines
<1>2. CASE c \notin Cells
  BY <1>2 DEF Stored
<1>3. QED BY <1>1, <1>2

LEMMA StoredParts ==
    ASSUME NEW h, NEW m \in Machines(h), NEW c, NEW v
    PROVE  /\ Stored(m, c, v).temps = m.temps /\ Stored(m, c, v).skip = m.skip /\ Stored(m, c, v).from = m.from
           /\ Stored(m, c, v).mem = IF c \in Cells THEN [m.mem EXCEPT ![c] = v] ELSE m.mem
<1>1. CASE c \in Cells
  <2>1. Stored(m, c, v) = [m EXCEPT !.mem = [m.mem EXCEPT ![c] = v]]
    BY <1>1 DEF Stored, Machines
  <2>2. QED BY <1>1, <2>1 DEF Machines
<1>2. CASE c \notin Cells
  BY <1>2 DEF Stored
<1>3. QED BY <1>1, <1>2

LEMMA SteppedLike ==
    ASSUME NEW h, NEW h2, NEW m \in Machines(h), NEW m2 \in Machines(h2), NEW J, NEW N \in Nat, Like(h, m, m2, J, N), m.skip = None,
           NEW k \in Nat,
           NEW q \in Quads, NEW q2 \in Quads, Likewise(q, q2), q2.to = (IF k \in J THEN N ELSE q.to), k \in J => q.to = None, N > 0,
           Formed(h, q), q.op # "label", \A a \in Places(h) : Same(h[a], h2[a]) /\ a \in Places(h2)
    PROVE  Like(h, Stepped(h, m, q, k), Stepped(h2, m2, q2, k), J, N)
<1>1. m2.skip = None /\ m2.mem = m.mem /\ m2.from = m.from /\ (\A a \in Places(h) : m2.temps[a] = m.temps[a])
      /\ q2.op = q.op /\ q2.result = q.result
  BY DEF Like, None, Left, Likewise
<1>2. CASE q.op = "goto"
  <2>1. (q.arg1 # None => Denoted(h2, m2, q.arg1) = Denoted(h, m, q.arg1)) /\ q2.when = q.when /\ q2.arg1 = q.arg1
    BY <1>2, DenotedLike DEF Formed, Likewise
  <2>2. Taken(h2, m2, q2) <=> Taken(h, m, q)
    BY <2>1 DEF Taken
  <2>3. CASE ~Taken(h, m, q)
    BY <1>1, <1>2, <2>2, <2>3 DEF Stepped
  <2>4. CASE Taken(h, m, q)
    <3> DEFINE s == IF q.to = None THEN Left ELSE q.to
               s2 == IF q2.to = None THEN Left ELSE q2.to
    <3>1. Stepped(h, m, q, k) = [m EXCEPT !.skip = s, !.from = k] /\ Stepped(h2, m2, q2, k) = [m2 EXCEPT !.skip = s2, !.from = k]
      BY <1>1, <1>2, <2>2, <2>4 DEF Stepped
    <3>2. s2 = IF s = Left /\ k \in J THEN N ELSE s
      BY DEF Quads, Left, None
    <3> HIDE DEF s, s2
    <3>3. QED BY <1>1, <3>1, <3>2 DEF Like, Machines
  <2>5. QED BY <2>3, <2>4
<1>3. CASE q.op # "goto"
  <2>1. PICK v : v = Result(h, m, q) /\ v = Result(h2, m2, q2)
    BY <1>3, ResultLike
  <2>2. q.result \in Places(h) /\ q.result \in Places(h2) /\ h2[q.result].var = h[q.result].var
    BY <1>3 DEF Formed, Quads, Ops, Same
  <2>3. Denoted(h2, m2, q.result) = Denoted(h, m, q.result)
    BY <2>2, DenotedLike
  <2>4. \A c : Like(h, Stored(m, c, v), Stored(m2, c, v), J, N)
    BY StoredLike
  <2>5. Like(h, [m EXCEPT !.temps[q.result] = v], [m2 EXCEPT !.temps[q.result] = v], J, N)
    <3>1. PICK w, w2 : w = [m EXCEPT !.temps[q.result] = v] /\ w2 = [m2 EXCEPT !.temps[q.result] = v]
      OBVIOUS
    <3>2. /\ w.mem = m.mem /\ w.skip = m.skip /\ w.from = m.from /\ w.temps[q.result] = v
          /\ \A b \in Places(h) : b # q.result => w.temps[b] = m.temps[b]
      BY <2>2, <3>1 DEF Machines
    <3>3. /\ w2.mem = m2.mem /\ w2.skip = m2.skip /\ w2.from = m2.from /\ w2.temps[q.result] = v
          /\ \A b \in Places(h2) : b # q.result => w2.temps[b] = m2.temps[b]
      BY <2>2, <3>1 DEF Machines
    <3>4. Like(h, w, w2, J, N)
      BY <3>2, <3>3 DEF Like
    <3>5. QED BY <3>1, <3>4
  <2>6. QED BY <1>1, <1>3, <2>1, <2>2, <2>3, <2>4, <2>5 DEF Stepped
<1>4. QED BY <1>2, <1>3

\* Nothing is being skipped, or what a jump skips that lies ahead or leads nowhere.
Skips(o, m, k) ==
    \/ m.skip = None
    \/ m.skip = Left /\ m.from \in Gotos(o.code) /\ o.code[m.from].to = None /\ m.from <= k
    \/ m.skip \in k + 1 .. Len(o.code)

LEMMA RunSkips ==
    ASSUME NEW o, Good(o), NEW all, NEW mem \in Memories, NEW k \in 0 .. Len(o.code)
    PROVE  Skips(o, Run(mem, o, all)[k], k)
<1>1. PICK r, n : r = Run(mem, o, all) /\ n = Len(o.code)
  OBVIOUS
<1>2. /\ r \in [0 .. n -> Machines(o.heap)] /\ r[0] = Before(mem, o)
      /\ \A j \in 1 .. n : r[j] = After(o, all, r[j - 1], j)
  BY <1>1, RunIs DEF Places
<1>3. n \in Nat
  BY <1>1 DEF Good, Outs
<1> DEFINE P == {j \in 0 .. n : Skips(o, r[j], j)}
<1>4. 0 \in P
  BY <1>2, <1>3 DEF Skips, Before
<1>5. ASSUME NEW j \in 1 .. n, j - 1 \in P PROVE j \in P
  <2>1. PICK m \in Machines(o.heap) : m = r[j - 1]
    BY <1>2, <1>3
  <2>2. Skips(o, m, j - 1) /\ r[j] = After(o, all, m, j)
    BY <1>2, <1>5, <2>1
  <2>3. j \in Places(o.code) /\ o.code[j] \in Quads /\ Formed(o.heap, o.code[j]) /\ Patched(o.code, j) /\ o.heap \in Seq(Addresses)
    BY <1>1 DEF Good, Outs, Places
  <2>4. Skips(o, After(o, all, m, j), j)
    <3>1. CASE m.skip = j
      BY <3>1 DEF After, Skips, Machines
    <3>2. CASE m.skip # j /\ (m.skip # None \/ o.code[j].op = "label" \/ (o.code[j].dead /\ ~all))
      <4>1. After(o, all, m, j) = m
        BY <3>2 DEF After
      <4>2. QED BY <2>2, <3>2, <4>1, <1>1, <1>3 DEF Skips, Gotos, Places
    <3>3. CASE m.skip # j /\ m.skip = None /\ o.code[j].op # "label" /\ ~(o.code[j].dead /\ ~all)
      <4>1. After(o, all, m, j) = Stepped(o.heap, m, o.code[j], j)
        BY SMTT(30), <3>3 DEF After
      <4>2. CASE o.code[j].op # "goto"
        <5>1. \A c, v : Stored(m, c, v).skip = None
          BY <3>3, StoredParts
        <5>2. [m EXCEPT !.temps[o.code[j].result] = Result(o.heap, m, o.code[j])].skip = None
          BY <3>3 DEF Machines
        <5>3. QED BY <4>1, <4>2, <5>1, <5>2 DEF Stepped, Skips
      <4>3. CASE o.code[j].op = "goto" /\ ~Taken(o.heap, m, o.code[j])
        BY <3>3, <4>1, <4>3 DEF Stepped, Skips
      <4>4. CASE o.code[j].op = "goto" /\ Taken(o.heap, m, o.code[j])
        <5>1. PICK s : s = IF o.code[j].to = None THEN Left ELSE o.code[j].to
          OBVIOUS
        <5>2. After(o, all, m, j) = [m EXCEPT !.skip = s, !.from = j]
          BY <4>1, <4>4, <5>1 DEF Stepped
        <5>3. j \in Gotos(o.code) /\ ((s = Left /\ o.code[j].to = None) \/ s \in j + 1 .. Len(o.code))
          BY <2>3, <4>4, <5>1 DEF Gotos, Patched
        <5>4. QED BY <5>2, <5>3 DEF Skips, Machines
      <4>5. QED BY <4>2, <4>3, <4>4
    <3>4. QED BY <3>1, <3>2, <3>3
  <2>5. QED BY <2>2, <2>4
<1>6. 0 .. n \subseteq P
  <2> HIDE DEF P
  <2>1. QED BY <1>3, <1>4, <1>5, Upwards
<1>7. QED BY <1>1, <1>6

\* The machine at the end of all the code.
Final(mem, o) == Executed(mem, o, TRUE)

LEMMA FinalIs ==
    ASSUME NEW o, Good(o), NEW mem \in Memories, NEW m, m = Final(mem, o)
    PROVE  /\ m \in Machines(o.heap) /\ m.skip \in {None, Left}
           /\ m.skip = Left => m.from \in Gotos(o.code) /\ o.code[m.from].to = None
<1>1. PICK n \in Nat : n = Len(o.code)
  BY DEF Good, Outs
<1>2. m = Run(mem, o, TRUE)[n] /\ n \in 0 .. n
  BY <1>1 DEF Final, Executed
<1>3. m \in Machines(o.heap) /\ Skips(o, m, n)
  <2>1. Run(mem, o, TRUE) \in [0 .. n -> Machines(o.heap)]
    BY <1>1, RunIs
  <2>2. Skips(o, Run(mem, o, TRUE)[n], n)
    BY <1>1, <1>2, RunSkips
  <2>3. QED BY <1>2, <2>1, <2>2
<1>4. n + 1 .. n = {}
  OBVIOUS
<1>5. QED BY <1>1, <1>3, <1>4 DEF Skips, None, Left

LEMMA RunLike ==
    ASSUME NEW o, Good(o), NEW o2, Good(o2), NEW J, NEW N, Alike(o, o2, J, N), NEW mem \in Memories, NEW k \in 0 .. Len(o.code)
    PROVE  Like(o.heap, Run(mem, o, TRUE)[k], Run(mem, o2, TRUE)[k], J, N)
<1>1. PICK r, r2, n : r = Run(mem, o, TRUE) /\ r2 = Run(mem, o2, TRUE) /\ n = Len(o.code)
  OBVIOUS
<1>2. n \in Nat /\ Len(o2.code) \in Nat /\ n <= Len(o2.code) /\ Len(o.heap) \in Nat /\ Len(o2.heap) \in Nat /\ N \in Nat /\ N > n
  BY <1>1 DEF Good, Outs, Alike
<1>3. /\ r \in [0 .. n -> Machines(o.heap)] /\ r[0] = Before(mem, o)
      /\ \A j \in 1 .. n : r[j] = After(o, TRUE, r[j - 1], j)
  <2>1. /\ Run(mem, o, TRUE) \in [0 .. Len(o.code) -> Machines(o.heap)] /\ Run(mem, o, TRUE)[0] = Before(mem, o)
        /\ \A j \in Places(o.code) : Run(mem, o, TRUE)[j] = After(o, TRUE, Run(mem, o, TRUE)[j - 1], j)
    BY RunIs
  <2>2. QED BY <1>1, <2>1 DEF Places
<1>4. /\ \A j \in 0 .. n : r2[j] \in Machines(o2.heap)
      /\ r2[0] = Before(mem, o2) /\ \A j \in 1 .. n : r2[j] = After(o2, TRUE, r2[j - 1], j)
  <2>1. /\ Run(mem, o2, TRUE) \in [0 .. Len(o2.code) -> Machines(o2.heap)] /\ Run(mem, o2, TRUE)[0] = Before(mem, o2)
        /\ \A j \in Places(o2.code) : Run(mem, o2, TRUE)[j] = After(o2, TRUE, Run(mem, o2, TRUE)[j - 1], j)
    BY RunIs
  <2>2. \A j \in 0 .. n : j \in 0 .. Len(o2.code) /\ (j # 0 => j \in Places(o2.code))
    BY <1>2 DEF Places
  <2>3. \A j \in 1 .. n : j \in 0 .. n /\ j # 0
    BY <1>2
  <2>4. QED BY <1>1, <1>2, <2>1, <2>2, <2>3
<1>5. \A a \in Places(o.heap) : Same(o.heap[a], o2.heap[a]) /\ a \in Places(o2.heap)
  BY <1>2 DEF Alike, Places
<1> DEFINE P == {j \in 0 .. n : Like(o.heap, r[j], r2[j], J, N)}
<1>6. 0 \in P
  <2>1. \A a \in Places(o.heap) : r[0].temps[a] = Wild /\ r2[0].temps[a] = Wild
    BY <1>3, <1>4, <1>5 DEF Before, Places, Good, Outs
  <2>2. r[0].mem = mem /\ r2[0].mem = mem /\ r[0].skip = None /\ r2[0].skip = None /\ r[0].from = None /\ r2[0].from = None
    BY <1>3, <1>4 DEF Before
  <2>3. QED BY <1>2, <2>1, <2>2 DEF Like, None, Left
<1>7. ASSUME NEW j \in 1 .. n, j - 1 \in P PROVE j \in P
  <2>1. PICK m \in Machines(o.heap), m2 \in Machines(o2.heap) : m = r[j - 1] /\ m2 = r2[j - 1]
    BY <1>2, <1>3, <1>4
  <2>2. Like(o.heap, m, m2, J, N) /\ r[j] = After(o, TRUE, m, j) /\ r2[j] = After(o2, TRUE, m2, j)
    BY <1>3, <1>4, <1>7, <2>1
  <2>3. /\ j \in Places(o.code) /\ o.code[j] \in Quads /\ o2.code[j] \in Quads /\ Formed(o.heap, o.code[j]) /\ Likewise(o.code[j], o2.code[j])
        /\ o2.code[j].to = (IF j \in J THEN N ELSE o.code[j].to) /\ (j \in J => o.code[j].to = None)
    BY <1>1, <1>2 DEF Good, Outs, Places, Alike
  <2>4. m2.skip = (IF m.skip = Left /\ m.from \in J THEN N ELSE m.skip) /\ N # j /\ N # None /\ j # None /\ j # Left
    BY <1>2, <2>2 DEF Like, None, Left
  <2>5. Like(o.heap, After(o, TRUE, m, j), After(o2, TRUE, m2, j), J, N)
    <3>1. CASE m.skip = j
      <4>1. m2.skip = j
        BY <2>4, <3>1
      <4>2. After(o, TRUE, m, j) = [m EXCEPT !.skip = None] /\ After(o2, TRUE, m2, j) = [m2 EXCEPT !.skip = None]
        BY <3>1, <4>1 DEF After
      <4>3. PICK w, w2 : w = [m EXCEPT !.skip = None] /\ w2 = [m2 EXCEPT !.skip = None]
        OBVIOUS
      <4>4. /\ w.mem = m.mem /\ w.from = m.from /\ w.temps = m.temps /\ w.skip = None
            /\ w2.mem = m2.mem /\ w2.from = m2.from /\ w2.temps = m2.temps /\ w2.skip = None
        BY <2>1, <4>3 DEF Machines
      <4>5. Like(o.heap, w, w2, J, N)
        BY <2>2, <4>4 DEF Like, None, Left
      <4>6. QED BY <4>2, <4>3, <4>5
    <3>2. CASE m.skip # j /\ (m.skip # None \/ o.code[j].op = "label")
      <4>1. m2.skip # j /\ (m2.skip # None \/ o2.code[j].op = "label")
        BY <2>3, <2>4, <3>2 DEF Likewise
      <4>2. After(o, TRUE, m, j) = m /\ After(o2, TRUE, m2, j) = m2
        BY <3>2, <4>1 DEF After
      <4>3. QED BY <2>2, <4>2
    <3>3. CASE m.skip # j /\ m.skip = None /\ o.code[j].op # "label"
      <4>1. m2.skip # j /\ m2.skip = None /\ o2.code[j].op # "label"
        BY <2>3, <2>4, <3>3 DEF Likewise, None, Left
      <4>2. After(o, TRUE, m, j) = Stepped(o.heap, m, o.code[j], j) /\ After(o2, TRUE, m2, j) = Stepped(o2.heap, m2, o2.code[j], j)
        BY <3>3, <4>1 DEF After
      <4>3. Like(o.heap, Stepped(o.heap, m, o.code[j], j), Stepped(o2.heap, m2, o2.code[j], j), J, N)
        BY <1>2, <1>5, <2>2, <2>3, <3>3, SteppedLike
      <4>4. QED BY <4>2, <4>3
    <3>4. QED BY <3>1, <3>2, <3>3
  <2>6. Like(o.heap, r[j], r2[j], J, N)
    BY <2>2, <2>5
  <2>7. j \in 0 .. n
    BY <1>2
  <2>8. QED BY <2>6, <2>7
<1>8. 0 .. n \subseteq P
  <2> HIDE DEF P
  <2>1. QED BY <1>2, <1>6, <1>7, Upwards
<1>9. QED BY <1>1, <1>8

(***************************************************************************)
(* What each kind of new code does to the machine.                         *)
(***************************************************************************)
Agree(h, m, m2) ==
    m2.mem = m.mem /\ m2.from = m.from /\ m2.skip = m.skip /\ \A a \in Places(h) : m2.temps[a] = m.temps[a]

LEMMA SameFinal ==
    ASSUME NEW o, Good(o), NEW o2, Good(o2), NEW J, NEW N, Alike(o, o2, J, N), Len(o2.code) = Len(o.code), NEW mem \in Memories
    PROVE  Like(o.heap, Final(mem, o), Final(mem, o2), J, N)
<1>1. PICK n \in Nat : n = Len(o.code)
  BY DEF Good, Outs
<1>2. n \in 0 .. Len(o.code)
  BY <1>1
<1>3. Like(o.heap, Run(mem, o, TRUE)[n], Run(mem, o2, TRUE)[n], J, N)
  BY <1>2, RunLike
<1>4. QED BY <1>1, <1>3 DEF Final, Executed

\* The last quad of o2 is run from where o ends.
Succeeds(mem, o, o2, J, N) ==
    \E m2 \in Machines(o2.heap) : Like(o.heap, Final(mem, o), m2, J, N) /\ Final(mem, o2) = After(o2, TRUE, m2, Len(o2.code))

LEMMA NextFinal ==
    ASSUME NEW o, Good(o), NEW o2, Good(o2), NEW J, NEW N, Alike(o, o2, J, N), Len(o2.code) = Len(o.code) + 1, NEW mem \in Memories
    PROVE  Succeeds(mem, o, o2, J, N)
<1>1. PICK k \in Nat, n \in Nat : k = Len(o.code) /\ n = k + 1
  BY DEF Good, Outs
<1>2. k \in 0 .. Len(o.code) /\ n = k + 1 /\ n \in Nat /\ n - 1 = k
  BY <1>1
<1>3. Like(o.heap, Run(mem, o, TRUE)[k], Run(mem, o2, TRUE)[k], J, N)
  BY <1>2, RunLike
<1>4. n \in Places(o2.code) /\ k \in 0 .. Len(o2.code)
  BY <1>2 DEF Places
<1>5. Run(mem, o2, TRUE)[n] = After(o2, TRUE, Run(mem, o2, TRUE)[n - 1], n) /\ Run(mem, o2, TRUE)[k] \in Machines(o2.heap)
  <2>1. /\ Run(mem, o2, TRUE) \in [0 .. Len(o2.code) -> Machines(o2.heap)]
        /\ \A j \in Places(o2.code) : Run(mem, o2, TRUE)[j] = After(o2, TRUE, Run(mem, o2, TRUE)[j - 1], j)
    BY RunIs
  <2>2. QED BY <1>4, <2>1
<1>6. Final(mem, o2) = Run(mem, o2, TRUE)[n] /\ Final(mem, o) = Run(mem, o, TRUE)[k]
  BY <1>1 DEF Final, Executed
<1>7. n = Len(o2.code)
  BY <1>1
<1>8. QED BY <1>2, <1>3, <1>5, <1>6, <1>7 DEF Succeeds

LEMMA WithRuns ==
    ASSUME NEW o, Good(o), NEW x \in Addresses, x.instr = None, x.ea => x.var # None, NEW w, w = With(o, x), NEW mem \in Memories
    PROVE  Agree(o.heap, Final(mem, o), Final(mem, w))
<1>1. /\ w \in Outs /\ w.code = o.code /\ Len(w.heap) = Len(o.heap) + 1 /\ Last(w) = Len(o.heap) + 1
      /\ w.heap[Last(w)] = x /\ \A a \in Places(o.heap) : w.heap[a] = o.heap[a]
  BY WithIs DEF Good
<1>2. Good(w)
  BY WithGood
<1>3. Len(o.code) \in Nat /\ Len(o.heap) \in Nat
  BY DEF Good, Outs
<1>4. PICK N \in Nat : N = Len(o.code) + 1
  BY <1>3
<1>5. Alike(o, w, {}, N)
  BY <1>1, <1>3, <1>4 DEF Alike, Same, Likewise
<1>6. Like(o.heap, Final(mem, o), Final(mem, w), {}, N)
  BY <1>1, <1>2, <1>5, SameFinal
<1>7. QED BY <1>6 DEF Like, Agree

LEMMA RetypedRuns ==
    ASSUME NEW o, Good(o), NEW a \in Places(o.heap), o.heap[a].kind # "CON", NEW d, d = Retyped(o, a), NEW mem \in Memories
    PROVE  Agree(o.heap, Final(mem, o), Final(mem, d))
<1>1. Good(d) /\ Keeps(o, d) /\ d.code = o.code /\ Len(d.heap) = Len(o.heap)
  BY RetypedIs
<1>3. Len(o.code) \in Nat /\ Len(o.heap) \in Nat
  BY DEF Good, Outs
<1>4. PICK N \in Nat : N = Len(o.code) + 1
  BY <1>3
<1>5. Alike(o, d, {}, N)
  BY <1>1, <1>3, <1>4 DEF Alike, Keeps, Likewise
<1>6. Like(o.heap, Final(mem, o), Final(mem, d), {}, N)
  BY <1>1, <1>5, SameFinal
<1>7. QED BY <1>6 DEF Like, Agree

\* What a quad of op with result r and the value v makes of m.
Wrote(h, m, m2, op, r, v) ==
    /\ m2.skip = m.skip /\ m2.from = m.from
    /\ m2.mem = IF op = "()s" /\ Denoted(h, m, r) \in Cells THEN [m.mem EXCEPT ![Denoted(h, m, r)] = v]
                ELSE IF op # "()s" /\ h[r].var \in Cells THEN [m.mem EXCEPT ![h[r].var] = v]
                ELSE m.mem
    /\ \A a \in Places(h) : m2.temps[a] = IF a = r /\ op # "()s" /\ h[r].var = None THEN v ELSE m.temps[a]

LEMMA EmittedAlike ==
    ASSUME NEW o, Good(o), NEW op, NEW r, NEW a1, NEW a2, Emits(o, op, r, a1, a2), NEW d, d = Emitted(o, op, r, a1, a2),
           NEW n, n = Len(o.code) + 1
    PROVE  /\ Alike(o, d, {}, n) /\ Good(d) /\ Len(d.code) = n /\ Len(d.heap) = Len(o.heap)
           /\ Likewise(Instr(op, r, a1, a2), d.code[n]) /\ Gotos(d.code) = Gotos(o.code)
           /\ op \in Ops \ {"goto", "label"} /\ n \in Places(d.code) /\ n \in Nat
<1>1. o \in Outs /\ Len(o.heap) \in Nat /\ Len(o.code) \in Nat /\ n \in Nat /\ n # None
  BY DEF Good, Outs, None
<1>2. op \in Ops /\ r \in Places(o.heap) /\ a1 \in Places(o.heap) /\ a2 \in Nat /\ a1 \in Nat /\ op \notin {"goto", "label"}
  BY <1>1 DEF Emits, Ready, Ops, Places, None, Copies, Binaries
<1>3. PICK S : S = Revived(o, op, r, a1, a2)
  OBVIOUS
<1>4. Emission(o, d, op, r, a1, a2, n, S)
  BY <1>1, <1>2, <1>3, EmittedIs
<1>5. Good(d)
  BY EmittedGood
<1>6. Alike(o, d, {}, n)
  BY <1>1, <1>4 DEF Emission, Alike
<1>7. Places(d.code) = Places(o.code) \cup {n} /\ n \in Places(d.code)
  BY <1>1, <1>4 DEF Emission, Places
<1>8. Gotos(d.code) = Gotos(o.code)
  <2>1. d.code[n].op = op /\ \A k \in Places(o.code) : d.code[k].op = o.code[k].op
    BY <1>4 DEF Emission, Likewise, Instr
  <2>2. QED BY <1>2, <1>7, <2>1 DEF Gotos
<1>9. QED BY <1>1, <1>2, <1>4, <1>5, <1>6, <1>7, <1>8 DEF Emission

LEMMA EmittedRuns ==
    ASSUME NEW o, Good(o), NEW op, NEW r, NEW a1, NEW a2, Emits(o, op, r, a1, a2), NEW d, d = Emitted(o, op, r, a1, a2),
           NEW mem \in Memories, NEW m, m = Final(mem, o), NEW v, v = Result(o.heap, m, Instr(op, r, a1, a2))
    PROVE  /\ m.skip = Left => Agree(o.heap, m, Final(mem, d))
           /\ m.skip = None => Wrote(o.heap, m, Final(mem, d), op, r, v)
<1>1. PICK n : n = Len(o.code) + 1
  OBVIOUS
<1>2. /\ Alike(o, d, {}, n) /\ Good(d) /\ Len(d.code) = n /\ Len(d.heap) = Len(o.heap)
      /\ Likewise(Instr(op, r, a1, a2), d.code[n])
      /\ op \in Ops \ {"goto", "label"} /\ n \in Places(d.code) /\ n \in Nat
  BY <1>1, EmittedAlike
<1>3. PICK m2 \in Machines(d.heap) : Like(o.heap, m, m2, {}, n) /\ Final(mem, d) = After(d, TRUE, m2, n)
  <2>1. Alike(o, d, {}, n) /\ Good(d) /\ Len(d.code) = Len(o.code) + 1
    BY <1>1, <1>2
  <2>2. Succeeds(mem, o, d, {}, n)
    BY <2>1, NextFinal
  <2>3. QED BY <1>2, <2>2 DEF Succeeds
<1>4. Agree(o.heap, m, m2) /\ n # None /\ n # Left
  BY <1>2, <1>3 DEF Like, Agree, Places, None, Left
<1>5. d.code[n].op = op /\ d.code[n].result = r /\ d.code[n].arg1 = a1 /\ d.code[n].arg2 = a2
  BY <1>2 DEF Likewise, Instr
<1>6. ASSUME m.skip = Left PROVE Agree(o.heap, m, Final(mem, d))
  <2>1. After(d, TRUE, m2, n) = m2
    BY <1>4, <1>6 DEF After, Agree, None, Left
  <2>2. QED BY <1>3, <1>4, <2>1
<1>7. ASSUME m.skip = None PROVE Wrote(o.heap, m, Final(mem, d), op, r, v)
  <2>1. Final(mem, d) = Stepped(d.heap, m2, d.code[n], n)
    BY <1>2, <1>3, <1>4, <1>5, <1>7 DEF After, Agree
  <2>2. d.code[n] \in Quads /\ Formed(o.heap, d.code[n]) /\ Places(d.heap) = Places(o.heap)
    BY <1>2 DEF Good, Outs, Places, Formed
  <2>3. \A a \in Places(o.heap) : Same(o.heap[a], d.heap[a])
    BY <1>2 DEF Alike
  <2>4. v = Result(d.heap, m2, d.code[n])
    <3>1. Result(d.heap, m2, d.code[n]) = Result(o.heap, m, d.code[n])
      <4>1. Likewise(d.code[n], d.code[n]) /\ d.code[n].op \notin {"goto", "label"}
        BY <1>2, <1>5 DEF Likewise
      <4>2. QED BY <1>3, <2>2, <2>3, <4>1, ResultLike
    <3>2. Result(o.heap, m, d.code[n]) = Result(o.heap, m, Instr(op, r, a1, a2))
      <4>1. Instr(op, r, a1, a2).op = op /\ Instr(op, r, a1, a2).arg1 = a1 /\ Instr(op, r, a1, a2).arg2 = a2
        BY DEF Instr
      <4>2. QED BY <1>5, <4>1 DEF Result
    <3>3. QED BY <3>1, <3>2
  <2>5. r \in Places(o.heap) /\ r \in Places(d.heap) /\ d.heap[r].var = o.heap[r].var
    BY <2>2, <2>3 DEF Emits, Same
  <2>6. Denoted(d.heap, m2, r) = Denoted(o.heap, m, r)
    BY <1>3, <2>3, <2>5, DenotedLike
  <2>7. CASE op = "()s"
    <3>1. Final(mem, d) = Stored(m2, Denoted(o.heap, m, r), v)
      BY <1>5, <2>1, <2>4, <2>6, <2>7 DEF Stepped
    <3>2. PICK w, c : w = Final(mem, d) /\ c = Denoted(o.heap, m, r)
      OBVIOUS
    <3>3. /\ w.temps = m2.temps /\ w.skip = m2.skip /\ w.from = m2.from
          /\ w.mem = IF c \in Cells THEN [m2.mem EXCEPT ![c] = v] ELSE m2.mem
      <4>1. w = Stored(m2, c, v) /\ m2 \in Machines(d.heap)
        BY <1>3, <3>1, <3>2
      <4>2. QED BY <4>1, StoredParts
    <3>4. Wrote(o.heap, m, w, op, r, v)
      BY <1>4, <2>7, <3>2, <3>3 DEF Wrote, Agree
    <3>5. QED BY <3>2, <3>4
  <2>8. CASE op # "()s" /\ o.heap[r].var # None
    <3>1. Final(mem, d) = Stored(m2, o.heap[r].var, v)
      BY <1>2, <1>5, <2>1, <2>4, <2>5, <2>8 DEF Stepped
    <3>2. PICK w, c : w = Final(mem, d) /\ c = o.heap[r].var
      OBVIOUS
    <3>3. /\ w.temps = m2.temps /\ w.skip = m2.skip /\ w.from = m2.from
          /\ w.mem = IF c \in Cells THEN [m2.mem EXCEPT ![c] = v] ELSE m2.mem
      <4>1. w = Stored(m2, c, v) /\ m2 \in Machines(d.heap)
        BY <1>3, <3>1, <3>2
      <4>2. QED BY <4>1, StoredParts
    <3>4. Wrote(o.heap, m, w, op, r, v)
      BY <1>4, <2>8, <3>2, <3>3 DEF Wrote, Agree
    <3>5. QED BY <3>2, <3>4
  <2>9. CASE op # "()s" /\ o.heap[r].var = None
    <3>1. Final(mem, d) = [m2 EXCEPT !.temps[r] = v]
      BY <1>2, <1>5, <2>1, <2>4, <2>5, <2>9 DEF Stepped
    <3>2. PICK w : w = Final(mem, d)
      OBVIOUS
    <3>3. w.mem = m2.mem /\ w.skip = m2.skip /\ w.from = m2.from /\ w.temps[r] = v /\ \A b \in Places(d.heap) : b # r => w.temps[b] = m2.temps[b]
      BY <1>3, <2>5, <3>1, <3>2 DEF Machines
    <3>4. None \notin Cells
      BY DEF None, Cells
    <3>5. Wrote(o.heap, m, w, op, r, v)
      BY <1>4, <2>2, <2>9, <3>3, <3>4 DEF Wrote, Agree
    <3>6. QED BY <3>2, <3>5
  <2>10. QED BY <2>7, <2>8, <2>9
<1>8. QED BY <1>6, <1>7

LEMMA JumpedRuns ==
    ASSUME NEW o, Good(o), NEW a, Ready(o, a), NEW when \in BOOLEAN, NEW d, d = Jumped(o, a, when),
           NEW mem \in Memories, NEW m, m = Final(mem, o), NEW e, e = Final(mem, d)
    PROVE  /\ m.skip = Left => Agree(o.heap, m, e)
           /\ e.mem = m.mem /\ \A b \in Places(o.heap) : e.temps[b] = m.temps[b]
           /\ m.skip = None => IF (Denoted(o.heap, m, a) # 0) = when THEN e.skip = Left /\ e.from = Len(d.code) ELSE e.skip = None
<1>1. PICK n \in Nat : n = Len(o.code) + 1
  BY DEF Good, Outs
<1>2. /\ Good(d) /\ Keeps(o, d) /\ d.heap = o.heap /\ Len(d.code) = n
      /\ \A k \in Places(o.code) : Likewise(o.code[k], d.code[k]) /\ d.code[k].to = o.code[k].to
  <2>1. Good(d) /\ Keeps(o, d) /\ d.heap = o.heap /\ Len(d.code) = Len(o.code) + 1
    BY JumpedIs
  <2>2. \A k \in Places(o.code) : Likewise(o.code[k], d.code[k]) /\ d.code[k].to = o.code[k].to
    BY JumpedIs
  <2>3. QED BY <1>1, <2>1, <2>2
<1>3. d.code[n].op = "goto" /\ d.code[n].arg1 = a /\ d.code[n].when = when /\ d.code[n].to = None /\ a # None
  <2>1. LET q == d.code[Len(d.code)] IN q.op = "goto" /\ q.arg1 = a /\ q.result = None /\ q.when = when /\ q.to = None
    BY JumpedIs
  <2>2. QED BY <1>2, <2>1 DEF Ready, Places, None
<1>4. Alike(o, d, {}, n)
  BY <1>1, <1>2 DEF Alike, Keeps, Good, Outs
<1>5. Succeeds(mem, o, d, {}, n)
  BY <1>1, <1>2, <1>4, NextFinal
<1>6. PICK m2 \in Machines(d.heap) : Like(o.heap, m, m2, {}, n) /\ e = After(d, TRUE, m2, n)
  BY <1>2, <1>5 DEF Succeeds
<1>7. Agree(o.heap, m, m2) /\ n # None /\ n # Left
  BY <1>1, <1>6 DEF Like, Agree, None, Left, Good, Outs
<1>8. CASE m.skip = Left
  <2>1. e = m2
    BY <1>6, <1>7, <1>8 DEF After, Agree, None, Left
  <2>2. QED BY <1>7, <1>8, <2>1 DEF Agree, None, Left
<1>9. CASE m.skip = None
  <2>1. e = Stepped(d.heap, m2, d.code[n], n)
    BY <1>3, <1>6, <1>7, <1>9 DEF After, Agree
  <2>2. Denoted(d.heap, m2, a) = Denoted(o.heap, m, a)
    <3>1. a \in Places(o.heap) /\ Same(o.heap[a], d.heap[a])
      BY <1>2 DEF Ready, Same
    <3>2. QED BY <1>6, <3>1, DenotedLike
  <2>3. e = IF (Denoted(o.heap, m, a) # 0) = when THEN [m2 EXCEPT !.skip = Left, !.from = n] ELSE m2
    BY <1>3, <2>1, <2>2 DEF Stepped, Taken
  <2>4. CASE (Denoted(o.heap, m, a) # 0) = when
    <3>1. e.skip = Left /\ e.from = n /\ e.mem = m2.mem /\ e.temps = m2.temps
      BY <1>6, <2>3, <2>4 DEF Machines
    <3>2. QED BY <1>2, <1>7, <1>9, <2>4, <3>1 DEF Agree, None, Left
  <2>5. CASE ~((Denoted(o.heap, m, a) # 0) = when)
    BY <1>2, <1>7, <1>9, <2>3, <2>5 DEF Agree, None, Left
  <2>6. QED BY <2>4, <2>5
<1>10. m.skip \in {None, Left}
  BY FinalIs
<1>11. QED BY <1>8, <1>9, <1>10

LEMMA LabelledRuns ==
    ASSUME NEW o, Good(o), NEW J, J \subseteq Gotos(o.code), \A k \in J : o.code[k].to = None, NEW d, d = Labelled(o, J),
           NEW mem \in Memories, NEW m, m = Final(mem, o), NEW e, e = Final(mem, d)
    PROVE  /\ e.mem = m.mem /\ e.from = m.from /\ \A b \in Places(o.heap) : e.temps[b] = m.temps[b]
           /\ e.skip = IF m.skip = Left /\ m.from \in J THEN None ELSE m.skip
<1>0. CASE J = {}
  <2>1. d = o
    BY <1>0 DEF Labelled
  <2>2. QED BY <1>0, <2>1
<1>a. CASE J # {}
  <2>1. PICK n \in Nat : n = Len(o.code) + 1
    BY DEF Good, Outs
  <2>2. /\ Good(d) /\ Keeps(o, d) /\ d.heap = o.heap /\ Len(d.code) = n /\ d.code[n].op = "label"
        /\ \A k \in Places(o.code) : /\ Likewise(o.code[k], d.code[k])
                                     /\ d.code[k].to = IF k \in J THEN n ELSE o.code[k].to
    BY <1>a, <2>1, LabelledIs
  <2>3. Alike(o, d, J, n)
    BY <2>1, <2>2 DEF Alike, Keeps, Good, Outs
  <2>4. Succeeds(mem, o, d, J, n)
    BY <2>1, <2>2, <2>3, NextFinal
  <2>5. PICK m2 \in Machines(d.heap) : Like(o.heap, m, m2, J, n) /\ e = After(d, TRUE, m2, n)
    BY <2>2, <2>4 DEF Succeeds
  <2>6. m.skip \in {None, Left} /\ n # None /\ n # Left
    BY <2>1, FinalIs DEF None, Left, Good, Outs
  <2>7. CASE m.skip = Left /\ m.from \in J
    <3>1. m2.skip = n
      BY <2>5, <2>7 DEF Like
    <3>2. e = [m2 EXCEPT !.skip = None]
      BY <2>5, <3>1 DEF After
    <3>3. e.mem = m2.mem /\ e.from = m2.from /\ e.temps = m2.temps /\ e.skip = None
      BY <2>5, <3>2 DEF Machines
    <3>4. QED BY <2>5, <2>7, <3>3 DEF Like
  <2>8. CASE ~(m.skip = Left /\ m.from \in J)
    <3>1. m2.skip = m.skip
      BY <2>5, <2>8 DEF Like
    <3>2. e = m2
      BY <2>2, <2>5, <2>6, <3>1 DEF After
    <3>3. QED BY <2>5, <2>8, <3>1, <3>2 DEF Like
  <2>9. QED BY <2>7, <2>8
<1>b. QED BY <1>0, <1>a

(***************************************************************************)
(* Code that computes: it changes neither memory nor what o computed.      *)
(***************************************************************************)
Adds(o, d) ==
    /\ Good(d) /\ Keeps(o, d) /\ SameKinds(o, d) /\ Lost(d) \subseteq Lost(o)
    /\ \A k \in Places(o.code) : o.code[k].op = d.code[k].op /\ o.code[k].to = d.code[k].to
    /\ \A mem \in Memories : Agree(o.heap, Final(mem, o), Final(mem, d))

LEMMA AddsSelf == ASSUME NEW o, Good(o) PROVE Adds(o, o)
<1>1. Len(o.heap) \in Nat /\ Len(o.code) \in Nat
  BY DEF Good, Outs
<1>2. QED BY <1>1 DEF Adds, Keeps, SameKinds, Same, Agree

LEMMA AddsOn == ASSUME NEW o, NEW d, NEW e, Good(o), Adds(o, d), Adds(d, e) PROVE Adds(o, e)
<1>1. Len(o.heap) \in Nat /\ Len(o.code) \in Nat /\ Len(d.heap) \in Nat /\ Len(d.code) \in Nat /\ Len(e.heap) \in Nat /\ Len(e.code) \in Nat
  BY DEF Good, Outs, Adds
<1>2. Places(o.heap) \subseteq Places(d.heap) /\ Places(o.code) \subseteq Places(d.code)
  BY <1>1 DEF Adds, Keeps, Places
<1>3. Keeps(o, e)
  BY <1>1, <1>2 DEF Adds, Keeps, Same
<1>4. SameKinds(o, e)
  BY <1>2 DEF Adds, SameKinds
<1>5. \A k \in Places(o.code) : o.code[k].op = e.code[k].op /\ o.code[k].to = e.code[k].to
  BY <1>2 DEF Adds
<1>6. ASSUME NEW mem \in Memories PROVE Agree(o.heap, Final(mem, o), Final(mem, e))
  <2>1. Agree(o.heap, Final(mem, o), Final(mem, d)) /\ Agree(d.heap, Final(mem, d), Final(mem, e))
    BY DEF Adds
  <2>2. QED BY <1>2, <2>1 DEF Agree
<1>7. QED BY <1>3, <1>4, <1>5, <1>6 DEF Adds

LEMMA AddsReady == ASSUME NEW o, NEW d, Good(o), Adds(o, d), NEW a, Ready(o, a) PROVE Ready(d, a) /\ d.heap[a].kind = o.heap[a].kind
<1>1. Ready(d, a)
  BY KeepsReady DEF Adds
<1>2. QED BY <1>1 DEF Adds, SameKinds, Ready

\* What was denoted still is.
LEMMA AddsDenoted ==
    ASSUME NEW o, NEW d, Good(o), Adds(o, d), NEW a \in Places(o.heap), NEW mem \in Memories
    PROVE  Denoted(d.heap, Final(mem, d), a) = Denoted(o.heap, Final(mem, o), a)
<1>1. Agree(o.heap, Final(mem, o), Final(mem, d)) /\ Same(o.heap[a], d.heap[a])
  BY DEF Adds, Keeps
<1>2. QED BY <1>1 DEF Agree, Same, Denoted

LEMMA WithAdds ==
    ASSUME NEW o, Good(o), NEW x \in Addresses, x.instr = None, x.ea => x.var # None, NEW w, w = With(o, x)
    PROVE  /\ Adds(o, w) /\ Last(w) = Len(o.heap) + 1 /\ Last(w) \in Places(w.heap) /\ Last(w) \notin Places(o.heap)
           /\ Len(w.heap) = Last(w) /\ w.heap[Last(w)] = x
           /\ (x.var # None \/ x.kind = "CON" => Ready(w, Last(w))) /\ Lost(w) = Lost(o) /\ w.code = o.code
<1>1. /\ w \in Outs /\ w.code = o.code /\ Len(w.heap) = Len(o.heap) + 1 /\ Last(w) = Len(o.heap) + 1
      /\ w.heap[Last(w)] = x
  BY WithIs DEF Good
<1>2. Good(w) /\ Keeps(o, w) /\ SameKinds(o, w) /\ Lost(w) = Lost(o) /\ (~(x.var = None /\ x.kind # "CON") => Ready(w, Last(w)))
  BY WithGood
<1>3. Adds(o, w)
  BY <1>1, <1>2, WithRuns DEF Adds
<1>4. QED BY <1>1, <1>2, <1>3 DEF Places, Good, Outs

\* A quad that computes a temporary adds to what was before the temporary.
LEMMA EmittedAdds ==
    ASSUME NEW o, Good(o), NEW w, Good(w), Adds(o, w), NEW op, NEW r, NEW a1, NEW a2, Emits(w, op, r, a1, a2), op # "()s",
           w.heap[r].var = None, r \notin Places(o.heap), NEW d, d = Emitted(w, op, r, a1, a2)
    PROVE  /\ Adds(o, d) /\ Ready(d, r) /\ Lost(d) \subseteq Lost(w) \ {a1, a2} /\ Len(d.heap) = Len(w.heap) /\ SameKinds(w, d)
           /\ \A a \in Places(w.heap) : Same(w.heap[a], d.heap[a])
           /\ \A mem \in Memories : /\ \A a \in Places(w.heap) \ {r} : Final(mem, d).temps[a] = Final(mem, w).temps[a]
                                    /\ Final(mem, w).skip = None =>
                                          Final(mem, d).temps[r] = Result(w.heap, Final(mem, w), Instr(op, r, a1, a2))
                                    /\ Final(mem, d).skip = Final(mem, w).skip
                                    /\ Final(mem, d).mem = Final(mem, w).mem
<1>1. Good(d) /\ Keeps(w, d) /\ SameKinds(w, d) /\ Ready(d, r) /\ Lost(d) \subseteq LostBy(w, r, a1, a2) /\ Len(d.heap) = Len(w.heap)
  BY EmittedGood, EmittedAlike
<1>2. Lost(d) \subseteq Lost(w) \ {a1, a2}
  BY <1>1 DEF LostBy
<1>3. ASSUME NEW mem \in Memories
      PROVE  /\ \A a \in Places(w.heap) \ {r} : Final(mem, d).temps[a] = Final(mem, w).temps[a]
             /\ Final(mem, w).skip = None => Final(mem, d).temps[r] = Result(w.heap, Final(mem, w), Instr(op, r, a1, a2))
             /\ Final(mem, d).skip = Final(mem, w).skip /\ Final(mem, d).from = Final(mem, w).from
             /\ Final(mem, d).mem = Final(mem, w).mem
  <2>1. PICK m, v : m = Final(mem, w) /\ v = Result(w.heap, m, Instr(op, r, a1, a2))
    OBVIOUS
  <2>2. /\ m.skip = Left => Agree(w.heap, m, Final(mem, d))
        /\ m.skip = None => Wrote(w.heap, m, Final(mem, d), op, r, v)
    BY <2>1, EmittedRuns
  <2>3. m.skip \in {None, Left} /\ None # Left /\ None \notin Cells /\ r \in Places(w.heap)
    BY <2>1, FinalIs DEF None, Left, Cells, Emits
  <2>4. CASE m.skip = Left
    BY <2>1, <2>2, <2>3, <2>4 DEF Agree
  <2>5. CASE m.skip = None
    BY <2>1, <2>2, <2>3, <2>5 DEF Wrote
  <2>6. QED BY <2>3, <2>4, <2>5
<1>4. Len(o.heap) \in Nat /\ Len(o.code) \in Nat /\ Len(w.heap) \in Nat /\ Len(w.code) \in Nat /\ Len(d.heap) \in Nat /\ Len(d.code) \in Nat
  BY <1>1 DEF Good, Outs
<1>5. Places(o.heap) \subseteq Places(w.heap) \ {r} /\ Places(o.code) \subseteq Places(w.code)
  BY <1>4 DEF Adds, Keeps, Places
<1>6. Keeps(o, d)
  BY <1>1, <1>4, <1>5 DEF Adds, Keeps, Same
<1>7. SameKinds(o, d)
  BY <1>1, <1>5 DEF Adds, SameKinds
<1>8. \A k \in Places(w.code) : w.code[k].op = d.code[k].op /\ w.code[k].to = d.code[k].to
  BY EmittedAlike DEF Alike, Likewise
<1>9. \A mem \in Memories : Agree(o.heap, Final(mem, o), Final(mem, d))
  <2> TAKE mem \in Memories
  <2>1. Agree(o.heap, Final(mem, o), Final(mem, w))
    BY DEF Adds
  <2>2. QED BY <1>3, <1>5, <2>1 DEF Agree
<1>10. Adds(o, d)
  BY <1>1, <1>2, <1>5, <1>6, <1>7, <1>8, <1>9 DEF Adds
<1>11. QED BY <1>1, <1>2, <1>3, <1>10 DEF Keeps

\* A new temporary and the quad that computes it.
LEMMA ComputedAdds ==
    ASSUME NEW o, Good(o), NEW x \in {NewTemp, NewMem}, NEW op \in Copies \cup Binaries, NEW a1, Ready(o, a1), NEW a2,
           op \in Binaries => Ready(o, a2), op \notin Binaries => a2 = None, NEW d, d = Computed(o, x, op, a1, a2)
    PROVE  /\ Adds(o, d) /\ Last(d) = Len(o.heap) + 1 /\ Last(d) \notin Places(o.heap) /\ Ready(d, Last(d))
           /\ d.heap[Last(d)].kind = x.kind /\ d.heap[Last(d)].var = None /\ ~d.heap[Last(d)].ea
           /\ Lost(d) \subseteq Lost(o) \ {a1, a2}
           /\ \A mem \in Memories : Final(mem, o).skip = None =>
                 Final(mem, d).temps[Last(d)] = Result(o.heap, Final(mem, o), Instr(op, Last(d), a1, a2))
<1>1. x \in Addresses /\ x.instr = None /\ ~x.ea /\ x.var = None /\ x.kind # "CON"
  <2>1. CASE x = NewTemp
    BY <2>1 DEF NewTemp, Address, Addresses, Kinds, None
  <2>2. CASE x = NewMem
    BY <2>2 DEF NewMem, Address, Addresses, Kinds, None
  <2>3. QED BY <2>1, <2>2
<1>2. PICK w, r : w = With(o, x) /\ r = Last(w)
  OBVIOUS
<1>3. /\ Adds(o, w) /\ r = Len(o.heap) + 1 /\ r \in Places(w.heap) /\ r \notin Places(o.heap)
      /\ Len(w.heap) = r /\ w.heap[r] = x /\ Lost(w) = Lost(o) /\ w.code = o.code
  BY <1>1, <1>2, WithAdds
<1>4. Good(w) /\ Ready(w, a1) /\ (op \in Binaries => Ready(w, a2))
  BY <1>3, AddsReady DEF Adds
<1>5. r \notin Lost(o)
  <2>1. \A k \in Places(o.code) : o.code[k].dead => o.code[k].result \in Places(o.heap)
    BY DEF Good, Formed
  <2>2. QED BY <1>3, <2>1 DEF Lost, Loses
<1>6. op # "()s" /\ Emits(w, op, r, a1, a2)
  BY <1>1, <1>3, <1>4, <1>5 DEF Emits, Copies, Binaries
<1>7. d = Emitted(w, op, r, a1, a2)
  BY <1>2 DEF Computed
<1>8. /\ Adds(o, d) /\ Ready(d, r) /\ Lost(d) \subseteq Lost(w) \ {a1, a2} /\ Len(d.heap) = Len(w.heap) /\ SameKinds(w, d)
      /\ Same(w.heap[r], d.heap[r])
      /\ \A mem \in Memories : Final(mem, w).skip = None =>
            Final(mem, d).temps[r] = Result(w.heap, Final(mem, w), Instr(op, r, a1, a2))
  BY <1>1, <1>3, <1>4, <1>6, <1>7, EmittedAdds
<1>9. Last(d) = r
  BY <1>2, <1>8 DEF Last
<1>10. d.heap[r].kind = x.kind /\ d.heap[r].var = None /\ ~d.heap[r].ea
  BY <1>1, <1>3, <1>8 DEF SameKinds, Same
<1>11. ASSUME NEW mem \in Memories, Final(mem, o).skip = None
       PROVE  Final(mem, d).temps[r] = Result(o.heap, Final(mem, o), Instr(op, r, a1, a2))
  <2>1. PICK m, m2 : m = Final(mem, o) /\ m2 = Final(mem, w)
    OBVIOUS
  <2>2. Agree(o.heap, m, m2) /\ m2.skip = None
    BY <1>3, <1>11, <2>1 DEF Adds, Agree
  <2>3. Like(o.heap, m, m2, {}, 1)
    BY <2>2 DEF Agree, Like
  <2>4. PICK q : q = Instr(op, r, a1, a2)
    OBVIOUS
  <2>5. q.op = op /\ q.arg1 = a1 /\ q.arg2 = a2 /\ q.result = r
    BY <2>4 DEF Instr
  <2>6. \A a \in Places(o.heap) : Denoted(w.heap, m2, a) = Denoted(o.heap, m, a) /\ w.heap[a].var = o.heap[a].var
    <3>1. \A a \in Places(o.heap) : Same(o.heap[a], w.heap[a])
      BY <1>3 DEF Adds, Keeps
    <3>2. QED BY <2>3, <3>1, DenotedLike DEF Same
  <2>7. Result(w.heap, m2, q) = Result(o.heap, m, q)
    <3>1. a1 \in Places(o.heap) /\ (op \in Binaries => a2 \in Places(o.heap))
      BY DEF Ready
    <3>2. CASE op \in Binaries
      <4>1. /\ Result(w.heap, m2, q) = Meaning(op, Denoted(w.heap, m2, a1), Denoted(w.heap, m2, a2))
            /\ Result(o.heap, m, q) = Meaning(op, Denoted(o.heap, m, a1), Denoted(o.heap, m, a2))
        BY <2>5, <3>2 DEF Result, Binaries
      <4>2. QED BY <2>6, <3>1, <3>2, <4>1
    <3>3. CASE op \in Copies
      BY <2>2, <2>5, <2>6, <3>1, <3>3 DEF Result, Copies, Agree
    <3>4. QED BY <3>2, <3>3
  <2>8. QED BY <1>8, <2>1, <2>2, <2>4, <2>7
<1>12. QED BY <1>3, <1>8, <1>9, <1>10, <1>11

(***************************************************************************)
(* What holds of an output o and the parser's stack st, whatever went      *)
(* wrong.                                                                  *)
(***************************************************************************)
Faults == {"none", "address", "pointer", "short-circuit", "conditional", "unscaled", "unread", "comma"}
Types  == [ptr : Nat, agg : {"none", "array", "struct"}]
Nodes  == [type : Types, cell : Int, val : Int, addr : Nat, lv : BOOLEAN, known : BOOLEAN, true : SUBSET Nat, false : SUBSET Nat,
           mid : {"none", "and", "or", "if"}, saved : BOOLEAN, unread : BOOLEAN, bad : Faults]

\* The addresses whose dead quad assigns a variable belong to no variable any more.
Sound(o) == Good(o) /\ \A a \in Lost(o) : o.heap[a].kind = "TEMP"

Stands(o, n) ==
    /\ n \in Nodes
    /\ IF n.addr = None THEN n.bad \in {"conditional", "comma"} ELSE Ready(o, n.addr)
    /\ n.true \subseteq Gotos(o.code) /\ n.false \subseteq Gotos(o.code)
Standing(o, st) == st \in Seq(Nodes) /\ \A k \in Places(st) : Stands(o, st[k])

Uppermost(st) == st[Len(st)]

\* No two operands have one address.
Distinct(st) == \A j \in Places(st) : \A k \in Places(st) : j # k /\ st[j].addr # None => st[j].addr # st[k].addr

\* What the text evaluates, operand by operand.
Passes(n) == (n.val # 0) # (n.mid = "or")
Goes(n)   == n.known /\ (n.mid = "none" \/ Passes(n))
Ordered(st, act) ==
    /\ \A k \in Places(st) : /\ st[k].known = (k = 1 \/ Goes(st[k - 1]))
                             /\ st[k].mid # "none" => st[k].saved = st[k].known /\ st[k].mid \in {"and", "or"}
    /\ act = (st = <<>> \/ Goes(Uppermost(st)))

(***************************************************************************)
(* What holds as long as nothing went wrong.                               *)
(***************************************************************************)
Plain(n) == n.mid = "none" /\ n.bad = "none"
Lists(n) == n.true \cup n.false

\* What the compiler knows of an operand's address.
Shaped(o, n) ==
    /\ IsMem(o, n.addr) => ~IsArray(n.type) /\ (n.known => n.cell > 0)
    /\ o.heap[n.addr].var # None => n.cell = o.heap[n.addr].var /\ (o.heap[n.addr].ea <=> IsEa(n.type))
    /\ (o.heap[n.addr].var = None /\ ~IsMem(o, n.addr)) => n.cell = None /\ ~IsStruct(n.type)

Holds(o, m, mem, n) == IF IsMem(o, n.addr) THEN m.temps[n.addr] = n.cell ELSE Denoted(o.heap, m, n.addr) = ValueIn(mem, n)

Neat(o, n) == Plain(n) => n.addr # None /\ Shaped(o, n)
Tame(o, n) ==
    /\ n.mid = "none" /\ n.bad = "short-circuit" => n.cell = None /\ n.addr # None
    /\ n.mid # "none" => n.bad \in {"none", "short-circuit"}
    /\ n.mid = "none" /\ n.bad # "short-circuit" => Lists(n) = {}
    /\ n.true \cap n.false = {}
    /\ \A g \in Lists(n) : o.code[g].to = None

Tidy(o, st) ==
    /\ \A k \in Places(st) : Tame(o, st[k]) /\ Neat(o, st[k])
    /\ \A k \in Places(st) : \A j \in Places(st) \ {k} : Lists(st[k]) \cap Lists(st[j]) = {}
    /\ \A a \in Lost(o) : \E k \in Places(st) : st[k].mid = "none" /\ st[k].unread /\ st[k].addr = a

\* The jump of an && or || that waits below another operand is taken: it leads
\* nowhere, and the operator the && or || waits for will be found wrong.
Stuck(st, m) == m.skip = Left /\ \E k \in Places(st) : /\ k < Len(st) /\ st[k].mid = "none" /\ st[k].bad = "short-circuit"
                                                      /\ m.from \in Lists(st[k])

\* The && or || whose left operand decides it.
Decides(n) == n.mid # "none" /\ n.known /\ ~Passes(n)
Exits(n)   == IF n.mid = "or" THEN n.true ELSE n.false

Logical(st) == st # <<>> /\ Uppermost(st).mid = "none" /\ Uppermost(st).bad = "short-circuit"

Running(o, st, mem, act, m) ==
    /\ m.mem = mem
    /\ \A k \in Places(st) : Plain(st[k]) /\ st[k].known => Holds(o, m, mem, st[k])
    /\ m.skip = None => act
    /\ m.skip = None /\ Logical(st) /\ ~IsMem(o, Uppermost(st).addr) =>
          (Denoted(o.heap, m, Uppermost(st).addr) # 0) = (Uppermost(st).val # 0)
    /\ m.skip = Left /\ act => Logical(st) /\ m.from \in (IF Uppermost(st).val # 0 THEN Uppermost(st).true ELSE Uppermost(st).false)
    /\ m.skip = Left /\ ~act => \E k \in Places(st) : Decides(st[k]) /\ m.from \in Exits(st[k])

\* The condition's jump.
Decided(st, m) ==
    Uppermost(st).mid = "if" => IF truth THEN m.skip = None \/ (m.skip = Left /\ m.from \in Uppermost(st).true)
                                ELSE m.skip = Left /\ m.from \in Uppermost(st).false

Structure ==
    /\ Sound(Out) /\ Standing(Out, stack)
    /\ start \in Memories /\ text \in Memories /\ active \in BOOLEAN
    /\ phase \in {"expression", "end", "crashed"} /\ fault \in Faults
Parsed == phase = "expression" => Ordered(stack, active)
Going  == (phase = "expression" /\ fault = "none") =>
              Tidy(Out, stack) /\ (~Stuck(stack, Final(start, Out)) => Running(Out, stack, text, active, Final(start, Out)))
Ended  == (phase = "end" /\ fault = "none") =>
              stack # <<>> /\ Lost(Out) = {} /\ Final(start, Out).mem = text /\ Decided(stack, Final(start, Out))

IInv == Structure /\ Parsed /\ Going /\ Ended

(***************************************************************************)
(* What operators on addresses add, and what an address denotes then.      *)
(***************************************************************************)
Den(o, mem, a)     == Denoted(o.heap, Final(mem, o), a)
Reading(o, mem, a) == IF IsMem(o, a) THEN At(Final(mem, o).mem, Den(o, mem, a)) ELSE Den(o, mem, a)

LEMMA DenIs == ASSUME NEW o, Good(o), NEW a \in Places(o.heap), NEW mem \in Memories PROVE Den(o, mem, a) \in Int
<1>1. o.heap \in Seq(Addresses) /\ Final(mem, o) \in Machines(o.heap)
  BY FinalIs DEF Good, Outs
<1>2. QED BY <1>1, DenotedIs DEF Den

LEMMA ReadingIs == ASSUME NEW o, Good(o), NEW a \in Places(o.heap), NEW mem \in Memories PROVE Reading(o, mem, a) \in Int
<1>1. Final(mem, o).mem \in Memories
  BY FinalIs DEF Machines
<1>2. QED BY <1>1, DenIs, AtIs DEF Reading

\* Skipping or not, memory and old addresses are as they were.
LEMMA AddsReads ==
    ASSUME NEW o, NEW d, Good(o), Adds(o, d), NEW mem \in Memories
    PROVE  /\ Final(mem, d).skip = Final(mem, o).skip /\ Final(mem, d).mem = Final(mem, o).mem
           /\ \A a \in Places(o.heap) : /\ Den(d, mem, a) = Den(o, mem, a) /\ Reading(d, mem, a) = Reading(o, mem, a)
                                        /\ (IsMem(d, a) <=> IsMem(o, a)) /\ d.heap[a].var = o.heap[a].var
<1>1. Final(mem, d).skip = Final(mem, o).skip /\ Final(mem, d).mem = Final(mem, o).mem
  BY DEF Adds, Agree
<1>2. ASSUME NEW a \in Places(o.heap)
      PROVE  /\ Den(d, mem, a) = Den(o, mem, a) /\ Reading(d, mem, a) = Reading(o, mem, a)
             /\ (IsMem(d, a) <=> IsMem(o, a)) /\ d.heap[a].var = o.heap[a].var
  <2>1. Den(d, mem, a) = Den(o, mem, a)
    BY AddsDenoted DEF Den
  <2>2. d.heap[a].kind = o.heap[a].kind /\ d.heap[a].var = o.heap[a].var
    BY DEF Adds, SameKinds, Keeps, Same
  <2>3. QED BY <1>1, <2>1, <2>2 DEF Reading, IsMem
<1>3. QED BY <1>1, <1>2

\* What a quad that computes makes of what its operands denote.
Made(w, mem, op, a1, a2) ==
    CASE op \in {"=", "()s"} -> Den(w, mem, a1)
      [] op = "()" -> At(Final(mem, w).mem, Den(w, mem, a1))
      [] op = "la" -> w.heap[a1].var
      [] op = "!"  -> Truth(Den(w, mem, a1) = 0)
      [] OTHER     -> Meaning(op, Den(w, mem, a1), Den(w, mem, a2))

LEMMA ComputedMakes ==
    ASSUME NEW o, Good(o), NEW w, Adds(o, w), NEW x \in {NewTemp, NewMem}, NEW op \in Copies \cup Binaries, NEW a1, Ready(w, a1), NEW a2,
           op \in Binaries => Ready(w, a2), op \notin Binaries => a2 = None, NEW d, d = Computed(w, x, op, a1, a2)
    PROVE  /\ Adds(o, d) /\ Adds(w, d) /\ Ready(d, Last(d)) /\ d.heap[Last(d)].kind = x.kind /\ d.heap[Last(d)].var = None
           /\ (IsMem(d, Last(d)) <=> x = NewMem) /\ Lost(d) \subseteq Lost(w) \ {a1, a2}
           /\ \A mem \in Memories : Final(mem, o).skip = None => Den(d, mem, Last(d)) = Made(w, mem, op, a1, a2)
<1>1. Good(w)
  BY DEF Adds
<1>2. /\ Adds(w, d) /\ Ready(d, Last(d)) /\ d.heap[Last(d)].kind = x.kind /\ d.heap[Last(d)].var = None /\ ~d.heap[Last(d)].ea
      /\ Lost(d) \subseteq Lost(w) \ {a1, a2}
  BY <1>1, ComputedAdds
<1>3. Adds(o, d)
  BY <1>2, AddsOn
<1>4. x.kind # "CON" /\ (x.kind = "MEM" <=> x = NewMem)
  BY DEF NewTemp, NewMem, Address
<1>5. ASSUME NEW mem \in Memories, Final(mem, o).skip = None PROVE Den(d, mem, Last(d)) = Made(w, mem, op, a1, a2)
  <2>1. Final(mem, w).skip = None
    BY <1>5, AddsReads
  <2>2. Final(mem, d).temps[Last(d)] = Result(w.heap, Final(mem, w), Instr(op, Last(d), a1, a2))
    BY <1>1, <2>1, ComputedAdds
  <2>3. Den(d, mem, Last(d)) = Final(mem, d).temps[Last(d)]
    BY <1>2, <1>4 DEF Den, Denoted
  <2>4. PICK q : q = Instr(op, Last(d), a1, a2)
    OBVIOUS
  <2>5. q.op = op /\ q.arg1 = a1 /\ q.arg2 = a2
    BY <2>4 DEF Instr
  <2>6. Result(w.heap, Final(mem, w), q) = Made(w, mem, op, a1, a2)
    BY <2>5 DEF Result, Made, Den, Copies, Binaries
  <2>7. QED BY <2>2, <2>3, <2>4, <2>6
<1>6. QED BY <1>2, <1>3, <1>4, <1>5 DEF IsMem

LEMMA NewConstAdds ==
    ASSUME NEW o, Good(o), NEW w, Adds(o, w), NEW c \in Int, NEW d, d = With(w, New3Const(c))
    PROVE  /\ Adds(o, d) /\ Adds(w, d) /\ Ready(d, Last(d)) /\ ~IsMem(d, Last(d)) /\ Lost(d) = Lost(w)
           /\ d.heap[Last(d)].kind = "CON" /\ d.heap[Last(d)].val = c
           /\ \A mem \in Memories : Den(d, mem, Last(d)) = c
<1>1. Good(w)
  BY DEF Adds
<1>2. PICK x : x = New3Const(c)
  OBVIOUS
<1>3. x \in Addresses /\ x.instr = None /\ ~x.ea /\ x.kind = "CON" /\ x.val = c
  BY <1>2 DEF New3Const, Address, Addresses, Kinds, None
<1>4. Adds(w, d) /\ d.heap[Last(d)] = x /\ Ready(d, Last(d)) /\ Lost(d) = Lost(w)
  BY <1>1, <1>2, <1>3, WithAdds
<1>5. Adds(o, d)
  BY <1>4, AddsOn
<1>6. QED BY <1>3, <1>4, <1>5 DEF Den, Denoted, IsMem

LEMMA NewNameAdds ==
    ASSUME NEW o, Good(o), NEW v \in DOMAIN Declared, NEW d, d = With(o, New3Id(Declared[v]))
    PROVE  /\ Adds(o, d) /\ Ready(d, Last(d)) /\ Lost(d) = Lost(o)
           /\ d.heap[Last(d)] = New3Id(Declared[v]) /\ Declared[v].cell \in Cells /\ Declared[v].type \in Types
<1>1. Declared[v].cell \in Cells /\ Declared[v].type \in Types
  BY DEF Declared, Cells, Types, Type, Int4
<1>2. PICK x : x = New3Id(Declared[v])
  OBVIOUS
<1>3. x \in Addresses /\ x.instr = None /\ x.kind = "ID3" /\ x.var # None
  BY <1>1, <1>2 DEF New3Id, Address, Addresses, Kinds, None, Cells, IsEa, IsArray, IsStruct
<1>4. QED BY <1>1, <1>2, <1>3, WithAdds

LEMMA NewTempAdds ==
    ASSUME NEW o, Good(o), NEW w, Adds(o, w), NEW x \in {NewTemp, NewMem}, NEW d, d = With(w, x)
    PROVE  /\ Adds(o, d) /\ Adds(w, d) /\ Lost(d) = Lost(w) /\ Last(d) \in Places(d.heap) /\ Last(d) \notin Places(w.heap)
           /\ d.heap[Last(d)] = x
<1>1. Good(w)
  BY DEF Adds
<1>2. x \in Addresses /\ x.instr = None /\ ~x.ea
  <2>1. CASE x = NewTemp
    BY <2>1 DEF NewTemp, Address, Addresses, Kinds, None
  <2>2. CASE x = NewMem
    BY <2>2 DEF NewMem, Address, Addresses, Kinds, None
  <2>3. QED BY <2>1, <2>2
<1>3. Adds(w, d) /\ d.heap[Last(d)] = x /\ Lost(d) = Lost(w) /\ Last(d) \in Places(d.heap) /\ Last(d) \notin Places(w.heap)
  BY <1>1, <1>2, WithAdds
<1>4. QED BY <1>3, AddsOn

LEMMA LoadedAdds ==
    ASSUME NEW o, Good(o), NEW w, Adds(o, w), NEW a, Ready(w, a), NEW l, l = Loaded(w, a)
    PROVE  /\ Adds(o, l.o) /\ Adds(w, l.o) /\ Ready(l.o, l.at) /\ ~IsMem(l.o, l.at)
           /\ IF IsMem(w, a) THEN Lost(l.o) \subseteq Lost(w) \ {a} /\ l.o.heap[l.at].var = None ELSE l.o = w /\ l.at = a
           /\ \A mem \in Memories : Final(mem, o).skip = None => Den(l.o, mem, l.at) = Reading(w, mem, a)
<1>1. Good(w)
  BY DEF Adds
<1>2. CASE ~IsMem(w, a)
  <2>1. l.o = w /\ l.at = a
    BY <1>2 DEF Loaded
  <2>2. QED BY <1>1, <1>2, <2>1, AddsSelf DEF Reading
<1>3. CASE IsMem(w, a)
  <2>1. PICK d : d = Computed(w, NewTemp, "()", a, None)
    OBVIOUS
  <2>2. l.o = d /\ l.at = Last(d)
    <3>1. l.o = d /\ l.at = Last(With(w, NewTemp))
      BY <1>3, <2>1 DEF Loaded, Computed
    <3>2. w.heap \in Seq(Addresses) /\ w = [heap |-> w.heap, code |-> w.code]
      BY <1>1 DEF Good, Outs
    <3>3. Last(d) = Last(With(w, NewTemp))
      <4>1. Last(With(w, NewTemp)) = Len(w.heap) + 1
        <5>1. NewTemp \in Addresses /\ w \in Outs
          BY <1>1 DEF NewTemp, Address, Addresses, Kinds, None, Good
        <5>2. QED BY <5>1, WithIs
      <4>2. Last(d) = Len(w.heap) + 1
        BY <1>1, <2>1, ComputedAdds DEF Copies, Binaries
      <4>3. QED BY <4>1, <4>2
    <3>4. QED BY <3>1, <3>3
  <2>3. /\ Adds(o, d) /\ Adds(w, d) /\ Ready(d, Last(d)) /\ d.heap[Last(d)].var = None
        /\ (IsMem(d, Last(d)) <=> NewTemp = NewMem) /\ Lost(d) \subseteq Lost(w) \ {a, None}
        /\ \A mem \in Memories : Final(mem, o).skip = None => Den(d, mem, Last(d)) = Made(w, mem, "()", a, None)
    <3>1. "()" \in Copies \cup Binaries /\ "()" \notin Binaries /\ NewTemp \in {NewTemp, NewMem}
      BY DEF Copies, Binaries
    <3>2. QED BY <2>1, <3>1, ComputedMakes
  <2>4. NewTemp # NewMem
    BY DEF NewTemp, NewMem, Address
  <2>5. QED BY <1>3, <2>2, <2>3, <2>4 DEF Made, Reading
<1>4. QED BY <1>2, <1>3

(***************************************************************************)
(* Code that assigns a variable: what it keeps.                            *)
(***************************************************************************)
Continues(h, m, m2) == /\ m2.skip = m.skip /\ m2.from = m.from /\ (m.skip = Left => m2.mem = m.mem)
                       /\ \A a \in Places(h) : m2.temps[a] = m.temps[a]

Grows(o, d) ==
    /\ Sound(d) /\ Keeps(o, d)
    /\ \A k \in Places(o.code) : o.code[k].op = d.code[k].op /\ o.code[k].to = d.code[k].to
    /\ \A mem \in Memories : Continues(o.heap, Final(mem, o), Final(mem, d))

\* The addresses that are loaded from are the same.
Keeping(o, d) == \A a \in Places(o.heap) : IsMem(d, a) <=> IsMem(o, a)

LEMMA LostPlaces == ASSUME NEW o, Good(o) PROVE Lost(o) \subseteq Places(o.heap)
<1>1. \A k \in Places(o.code) : Loses(o, k) => o.code[k].result \in Places(o.heap)
  BY DEF Good, Formed, Loses
<1>2. QED BY <1>1 DEF Lost

LEMMA AddsGrows == ASSUME NEW o, Sound(o), NEW d, Adds(o, d) PROVE Grows(o, d) /\ Keeping(o, d)
<1>1. Good(o) /\ Good(d) /\ Lost(o) \subseteq Places(o.heap)
  BY LostPlaces DEF Sound, Adds
<1>2. Sound(d)
  BY <1>1 DEF Sound, Adds, SameKinds
<1>3. \A mem \in Memories : Continues(o.heap, Final(mem, o), Final(mem, d))
  BY DEF Adds, Agree, Continues
<1>4. QED BY <1>2, <1>3 DEF Adds, Grows, SameKinds, IsMem, Keeping

LEMMA GrowsReady == ASSUME NEW o, Good(o), NEW d, Grows(o, d), NEW a, Ready(o, a) PROVE Ready(d, a)
BY KeepsReady DEF Grows, Sound

LEMMA KeepsOn == ASSUME NEW o, Good(o), NEW d, Good(d), NEW e, Good(e), Keeps(o, d), Keeps(d, e)
                 PROVE  Keeps(o, e) /\ Places(o.heap) \subseteq Places(d.heap) /\ Places(o.code) \subseteq Places(d.code)
<1>1. Len(o.heap) \in Nat /\ Len(o.code) \in Nat /\ Len(d.heap) \in Nat /\ Len(d.code) \in Nat /\ Len(e.heap) \in Nat /\ Len(e.code) \in Nat
  BY DEF Good, Outs
<1>2. Places(o.heap) \subseteq Places(d.heap) /\ Places(o.code) \subseteq Places(d.code)
  BY <1>1 DEF Keeps, Places
<1>3. QED BY <1>1, <1>2 DEF Keeps, Same

\* A quad that stores: the only change is that of memory.
LEMMA StoreGrows ==
    ASSUME NEW o, Sound(o), NEW w, Grows(o, w), NEW op, NEW r, NEW a1, NEW a2, Emits(w, op, r, a1, a2),
           op = "()s" \/ w.heap[r].var # None, NEW d, d = Emitted(w, op, r, a1, a2)
    PROVE  /\ Grows(o, d) /\ (Keeping(o, w) => Keeping(o, d)) /\ Lost(d) \subseteq LostBy(w, r, a1, a2) /\ SameKinds(w, d) /\ Ready(d, r) /\ Keeps(w, d)
           /\ Len(d.heap) = Len(w.heap)
           /\ \A mem \in Memories : Final(mem, o).skip = None =>
                 LET c == IF op = "()s" THEN Den(w, mem, r) ELSE w.heap[r].var
                 IN  Final(mem, d).mem = IF c \in Cells THEN [Final(mem, w).mem EXCEPT ![c] = Made(w, mem, op, a1, a2)]
                                         ELSE Final(mem, w).mem
<1>1. Good(o) /\ Good(w)
  BY DEF Sound, Grows
<1>2. Good(d) /\ Keeps(w, d) /\ SameKinds(w, d) /\ Ready(d, r) /\ Lost(d) \subseteq LostBy(w, r, a1, a2)
  BY <1>1, EmittedGood
<1>3. Alike(w, d, {}, Len(w.code) + 1) /\ Len(d.heap) = Len(w.heap)
  BY <1>1, EmittedAlike
<1>4. r \in Places(w.heap) /\ op \in Copies \cup Binaries \cup {"()s"}
  BY DEF Emits
<1>5. Sound(d)
  <2>1. w.heap[r] \in Addresses
    BY <1>1, <1>4 DEF Good, Outs, Places
  <2>2. w.heap[r].var # None /\ w.heap[r].kind # "ID3" => w.heap[r].kind = "TEMP"
    BY <2>1 DEF Addresses, Kinds
  <2>3. Lost(w) \subseteq Places(w.heap)
    BY <1>1, LostPlaces
  <2>4. \A a \in LostBy(w, r, a1, a2) : a \in Places(w.heap) /\ w.heap[a].kind = "TEMP"
    BY <1>4, <2>2, <2>3 DEF LostBy, Grows, Sound
  <2>5. QED BY <1>2, <2>4 DEF Sound, SameKinds
<1>6. Keeps(o, d) /\ Places(o.heap) \subseteq Places(w.heap) /\ Places(o.code) \subseteq Places(w.code)
  BY <1>1, <1>2, KeepsOn DEF Grows
<1>7. Keeping(o, w) => Keeping(o, d)
  BY <1>2, <1>6 DEF Keeping, SameKinds, IsMem
<1>8. \A k \in Places(o.code) : o.code[k].op = d.code[k].op /\ o.code[k].to = d.code[k].to
  BY <1>3, <1>6 DEF Alike, Likewise, Grows
<1>9. ASSUME NEW mem \in Memories
      PROVE  /\ Continues(o.heap, Final(mem, o), Final(mem, d))
             /\ Final(mem, o).skip = None =>
                 LET c == IF op = "()s" THEN Den(w, mem, r) ELSE w.heap[r].var
                 IN  Final(mem, d).mem = IF c \in Cells THEN [Final(mem, w).mem EXCEPT ![c] = Made(w, mem, op, a1, a2)]
                                         ELSE Final(mem, w).mem
  <2>1. PICK m, v : m = Final(mem, w) /\ v = Result(w.heap, m, Instr(op, r, a1, a2))
    OBVIOUS
  <2>2. /\ m.skip = Left => Agree(w.heap, m, Final(mem, d))
        /\ m.skip = None => Wrote(w.heap, m, Final(mem, d), op, r, v)
    BY <1>1, <2>1, EmittedRuns
  <2>3. m.skip \in {None, Left} /\ None # Left
    BY <1>1, <2>1, FinalIs DEF None, Left
  <2>4. Continues(o.heap, Final(mem, o), m)
    BY <2>1 DEF Grows
  <2>5. \A a \in Places(w.heap) : Final(mem, d).temps[a] = m.temps[a]
    BY <2>2, <2>3 DEF Agree, Wrote
  <2>6. Final(mem, d).skip = m.skip /\ Final(mem, d).from = m.from /\ (m.skip = Left => Final(mem, d).mem = m.mem)
    BY <2>2, <2>3 DEF Agree, Wrote
  <2>7. Continues(o.heap, Final(mem, o), Final(mem, d))
    BY <1>6, <2>4, <2>5, <2>6 DEF Continues
  <2>8. v = Made(w, mem, op, a1, a2)
    <3>1. PICK q : q = Instr(op, r, a1, a2)
      OBVIOUS
    <3>2. q.op = op /\ q.arg1 = a1 /\ q.arg2 = a2
      BY <3>1 DEF Instr
    <3>3. v = Result(w.heap, m, q)
      BY <2>1, <3>1
    <3>4. QED BY <2>1, <3>2, <3>3 DEF Result, Made, Den
  <2>9. ASSUME Final(mem, o).skip = None
        PROVE  LET c == IF op = "()s" THEN Den(w, mem, r) ELSE w.heap[r].var
               IN  Final(mem, d).mem = IF c \in Cells THEN [Final(mem, w).mem EXCEPT ![c] = Made(w, mem, op, a1, a2)]
                                       ELSE Final(mem, w).mem
    <3>1. Wrote(w.heap, m, Final(mem, d), op, r, v)
      BY <2>2, <2>4, <2>9 DEF Continues
    <3>2. CASE op = "()s"
      BY <2>1, <2>8, <3>1, <3>2 DEF Wrote, Den
    <3>3. CASE op # "()s"
      BY <2>1, <2>8, <3>1, <3>3 DEF Wrote, Den
    <3>4. QED BY <3>2, <3>3
  <2>10. QED BY <2>7, <2>9
<1>10. Grows(o, d)
  BY <1>5, <1>6, <1>8, <1>9 DEF Grows
<1>11. QED BY <1>2, <1>3, <1>7, <1>9, <1>10

LEMMA RetypedGrows ==
    ASSUME NEW o, Sound(o), NEW d, Grows(o, d), NEW a \in Places(d.heap), d.heap[a].kind # "CON", NEW e, e = Retyped(d, a)
    PROVE  /\ Grows(o, e) /\ (Keeping(o, d) /\ ~IsMem(d, a) => Keeping(o, e)) /\ Lost(e) = Lost(d) /\ Keeps(d, e) /\ e.code = d.code /\ Len(e.heap) = Len(d.heap)
           /\ \A b \in Places(d.heap) : e.heap[b].kind = IF a = b THEN "TEMP" ELSE d.heap[b].kind
           /\ \A mem \in Memories : Final(mem, e).mem = Final(mem, d).mem /\ \A b \in Places(d.heap) : Den(e, mem, b) = Den(d, mem, b)
<1>1. Good(o) /\ Good(d)
  BY DEF Sound, Grows
<1>2. /\ Good(e) /\ Keeps(d, e) /\ Lost(e) = Lost(d) /\ e.code = d.code /\ Len(e.heap) = Len(d.heap)
      /\ \A b \in Places(d.heap) : e.heap[b].kind = IF a = b THEN "TEMP" ELSE d.heap[b].kind
  BY <1>1, RetypedIs
<1>3. \A mem \in Memories : Agree(d.heap, Final(mem, d), Final(mem, e))
  BY <1>1, RetypedRuns
<1>4. Sound(e)
  <2>1. Lost(d) \subseteq Places(d.heap)
    BY <1>1, LostPlaces
  <2>2. QED BY <1>2, <2>1 DEF Sound, Grows
<1>5. Keeps(o, e) /\ Places(o.heap) \subseteq Places(d.heap)
  BY <1>1, <1>2, KeepsOn DEF Grows
<1>6. Keeping(o, d) /\ ~IsMem(d, a) => Keeping(o, e)
  BY <1>2, <1>5 DEF Keeping, IsMem
<1>7. \A mem \in Memories : Continues(o.heap, Final(mem, o), Final(mem, e))
  BY <1>3, <1>5 DEF Grows, Agree, Continues
<1>8. Grows(o, e)
  BY <1>2, <1>4, <1>5, <1>7 DEF Grows
<1>9. \A mem \in Memories : Final(mem, e).mem = Final(mem, d).mem /\ \A b \in Places(d.heap) : Den(e, mem, b) = Den(d, mem, b)
  <2> TAKE mem \in Memories
  <2>1. Final(mem, e).mem = Final(mem, d).mem
    BY <1>3 DEF Agree
  <2>2. \A b \in Places(d.heap) : Den(e, mem, b) = Den(d, mem, b)
    BY <1>2, <1>3 DEF Keeps, Same, Agree, Den, Denoted
  <2>3. QED BY <2>1, <2>2
<1>10. QED BY <1>2, <1>6, <1>8, <1>9

(***************************************************************************)
(* A reduction of the top n operands to one: what is left of the stack.    *)
(***************************************************************************)
Pushed(st, node, st2, p) ==
    /\ st2 \in Seq(Nodes) /\ p \in Nat /\ Len(st2) = p + 1 /\ st2[p + 1] = node /\ Uppermost(st2) = node /\ st2 # <<>>
    /\ \A k \in 1 .. p : st2[k] = st[k] /\ k \in Places(st)
    /\ Places(st2) = (1 .. p) \cup {p + 1}
    /\ \A k \in Places(st) : k \in 1 .. p \/ k \in p + 1 .. Len(st)

LEMMA PushIs ==
    ASSUME NEW st \in Seq(Nodes), NEW n \in 0 .. Len(st), NEW node \in Nodes, NEW st2, st2 = Append(SubSeq(st, 1, Len(st) - n), node),
           NEW p, p = Len(st) - n
    PROVE  Pushed(st, node, st2, p)
<1>1. p \in Nat /\ p <= Len(st) /\ Len(st) \in Nat
  OBVIOUS
<1>2. PICK s : s = SubSeq(st, 1, p)
  OBVIOUS
<1>3. s \in Seq(Nodes) /\ Len(s) = p /\ \A k \in 1 .. p : s[k] = st[k]
  BY <1>1, <1>2
<1>4. st2 = Append(s, node)
  BY <1>2
<1>5. st2 \in Seq(Nodes) /\ Len(st2) = p + 1 /\ st2[p + 1] = node /\ \A k \in 1 .. p : st2[k] = st[k]
  BY <1>1, <1>3, <1>4
<1>6. Places(st2) = (1 .. p) \cup {p + 1} /\ Uppermost(st2) = node /\ st2 # <<>>
  <2>1. 1 .. p + 1 = (1 .. p) \cup {p + 1}
    BY <1>1
  <2>2. Places(st2) = (1 .. p) \cup {p + 1} /\ Uppermost(st2) = node
    BY <1>5, <2>1 DEF Places, Uppermost
  <2>3. st2 # <<>>
    BY <1>1, <1>5
  <2>4. QED BY <2>2, <2>3
<1>7. \A k \in 1 .. p : k \in Places(st)
  BY <1>1 DEF Places
<1>8. \A k \in Places(st) : k \in 1 .. p \/ k \in p + 1 .. Len(st)
  BY <1>1 DEF Places
<1>9. QED BY <1>1, <1>5, <1>6, <1>7, <1>8 DEF Pushed

LEMMA StandsOn ==
    ASSUME NEW o, Good(o), NEW d, Good(d), Keeps(o, d), Gotos(o.code) \subseteq Gotos(d.code), NEW n, Stands(o, n)
    PROVE  Stands(d, n)
BY KeepsReady DEF Stands

LEMMA GrowsGotos == ASSUME NEW o, Good(o), NEW d, Grows(o, d) PROVE Gotos(o.code) \subseteq Gotos(d.code)
<1>1. Len(o.code) \in Nat /\ Len(d.code) \in Nat
  BY DEF Good, Outs, Grows, Sound
<1>2. Places(o.code) \subseteq Places(d.code)
  BY <1>1 DEF Grows, Keeps, Places
<1>3. QED BY <1>2 DEF Grows, Gotos

LEMMA PushStands ==
    ASSUME NEW o, Good(o), NEW d, Good(d), Keeps(o, d), Gotos(o.code) \subseteq Gotos(d.code), NEW st, Standing(o, st),
           NEW node, Stands(d, node), NEW st2, NEW p, Pushed(st, node, st2, p)
    PROVE  Standing(d, st2)
<1>3. /\ st2 \in Seq(Nodes) /\ st2[p + 1] = node
      /\ \A k \in 1 .. p : st2[k] = st[k] /\ k \in Places(st)
      /\ Places(st2) = (1 .. p) \cup {p + 1}
  BY DEF Pushed
<1>4. \A k \in 1 .. p : Stands(d, st2[k])
  BY <1>3, StandsOn DEF Standing
<1>5. QED BY <1>3, <1>4 DEF Standing

\* The operands of a reduction are evaluated when it is.
Pops(st, n, p) == n \in 0 .. 3 /\ n <= Len(st) /\ p = Len(st) - n /\ \A k \in p + 1 .. Len(st) : st[k].mid = "none"

LEMMA PopKnown ==
    ASSUME NEW st \in Seq(Nodes), NEW n, NEW p, Pops(st, n, p), NEW act \in BOOLEAN, Ordered(st, act)
    PROVE  \A k \in p + 1 .. Len(st) : st[k].known = act
<1>0. n \in 0 .. 3 /\ n <= Len(st) /\ p = Len(st) - n /\ \A k \in p + 1 .. Len(st) : st[k].mid = "none"
  BY DEF Pops
<1>1. PICK l \in Nat : l = Len(st)
  OBVIOUS
<1>2. n # 0 => l \in 1 .. l /\ act = st[l].known
  <2> SUFFICES ASSUME n # 0 PROVE l \in 1 .. l /\ act = st[l].known
    OBVIOUS
  <2>1. st # <<>> /\ l \in p + 1 .. l
    BY <1>0, <1>1
  <2>2. st[l] \in Nodes
    BY <1>0, <1>1, <2>1
  <2>3. QED BY <1>0, <1>1, <2>1, <2>2 DEF Ordered, Goes, Uppermost, Nodes
<1>3. ASSUME NEW k \in p + 1 .. l, k > 1, k - 1 \in p + 1 .. l PROVE st[k].known = st[k - 1].known
  <2>1. k \in Places(st) /\ st[k - 1] \in Nodes /\ k # 1
    BY <1>0, <1>1, <1>3 DEF Places
  <2>2. QED BY <1>0, <1>1, <1>3, <2>1 DEF Ordered, Goes, Nodes
<1>4. CASE n = 1
  BY <1>0, <1>1, <1>2, <1>4
<1>5. CASE n = 2
  <2>1. st[l].known = st[l - 1].known
    BY <1>0, <1>1, <1>3, <1>5
  <2>2. \A k \in p + 1 .. Len(st) : k = l \/ k = l - 1
    BY <1>0, <1>1, <1>5
  <2>3. QED BY <1>2, <1>5, <2>1, <2>2
<1>6. CASE n = 3
  <2>1. st[l].known = st[l - 1].known /\ st[l - 1].known = st[l - 2].known
    <3>1. st[l].known = st[l - 1].known
      BY <1>0, <1>1, <1>3, <1>6
    <3>2. l - 1 \in p + 1 .. l /\ l - 1 > 1 /\ (l - 1) - 1 = l - 2 /\ l - 2 \in p + 1 .. l
      BY <1>0, <1>1, <1>6
    <3>3. QED BY <1>3, <3>1, <3>2
  <2>2. \A k \in p + 1 .. Len(st) : k = l \/ k = l - 1 \/ k = l - 2
    BY <1>0, <1>1, <1>6
  <2>3. QED BY <1>2, <1>6, <2>1, <2>2
<1>z. CASE n = 0
  BY <1>0, <1>1, <1>z
<1>7. n = 0 \/ n = 1 \/ n = 2 \/ n = 3
  BY <1>0
<1>8. QED BY <1>4, <1>5, <1>6, <1>7, <1>z

LEMMA PushOrdered ==
    ASSUME NEW st \in Seq(Nodes), NEW n, NEW p, Pops(st, n, p), NEW act \in BOOLEAN, Ordered(st, act),
           NEW node \in Nodes, node.mid = "none", node.known = act, NEW st2, Pushed(st, node, st2, p)
    PROVE  Ordered(st2, act)
<1>1. n \in 0 .. 3 /\ n <= Len(st) /\ p = Len(st) - n
  BY DEF Pops
<1>2. /\ st2 \in Seq(Nodes) /\ p \in Nat /\ Len(st2) = p + 1 /\ st2[p + 1] = node /\ Uppermost(st2) = node /\ st2 # <<>>
      /\ \A k \in 1 .. p : st2[k] = st[k] /\ k \in Places(st)
      /\ Places(st2) = (1 .. p) \cup {p + 1}
  BY DEF Pushed
<1>3. act = Goes(node)
  BY DEF Goes, Nodes
<1>4. ASSUME NEW k \in 1 .. p
      PROVE  /\ st2[k].known = (k = 1 \/ Goes(st2[k - 1]))
             /\ st2[k].mid # "none" => st2[k].saved = st2[k].known /\ st2[k].mid \in {"and", "or"}
  <2>1. k = 1 \/ k - 1 \in 1 .. p
    BY <1>2
  <2>2. QED BY <1>2, <2>1 DEF Ordered
<1>5. node.known = (p + 1 = 1 \/ Goes(st2[p]))
  <2>1. CASE n = 0 /\ st = <<>>
    BY <1>1, <2>1 DEF Ordered
  <2>2. CASE n = 0 /\ st # <<>>
    <3>1. p = Len(st) /\ p \in 1 .. p
      BY <1>1, <1>2, <2>2
    <3>2. QED BY <1>2, <2>2, <3>1 DEF Ordered, Uppermost
  <2>3. CASE n # 0
    <3>1. p + 1 \in p + 1 .. Len(st) /\ p + 1 \in Places(st) /\ (p + 1) - 1 = p
      BY <1>1, <1>2, <2>3 DEF Places
    <3>2. st[p + 1].known = act
      <4>1. \A k \in p + 1 .. Len(st) : st[k].known = act
        BY PopKnown
      <4>2. QED BY <3>1, <4>1
    <3>3. st[p + 1].known = (p + 1 = 1 \/ Goes(st[p]))
      BY <3>1 DEF Ordered
    <3>4. p = 0 \/ p \in 1 .. p
      BY <1>2
    <3>5. QED BY <1>2, <3>2, <3>3, <3>4
  <2>4. QED BY <2>1, <2>2, <2>3
<1>6. ASSUME NEW k \in Places(st2)
      PROVE  /\ st2[k].known = (k = 1 \/ Goes(st2[k - 1]))
             /\ st2[k].mid # "none" => st2[k].saved = st2[k].known /\ st2[k].mid \in {"and", "or"}
  <2>1. CASE k \in 1 .. p
    BY <1>4, <2>1
  <2>2. CASE k = p + 1
    <3>1. k - 1 = p /\ st2[k] = node
      BY <1>2, <2>2
    <3>2. QED BY <1>5, <2>2, <3>1
  <2>3. QED BY <1>2, <2>1, <2>2
<1>7. QED BY <1>2, <1>3, <1>6 DEF Ordered

(***************************************************************************)
(* What the operands that stay keep.                                       *)
(***************************************************************************)
LEMMA NeatOn ==
    ASSUME NEW o, Good(o), NEW d, Grows(o, d), NEW n, n.addr \in Places(o.heap) => (IsMem(d, n.addr) <=> IsMem(o, n.addr)), Stands(o, n), Neat(o, n)
    PROVE  Neat(d, n)
<1>1. ASSUME Plain(n) PROVE Shaped(d, n)
  <2>1. Shaped(o, n) /\ n.addr \in Places(o.heap)
    BY <1>1 DEF Neat, Stands, Ready
  <2>2. Same(o.heap[n.addr], d.heap[n.addr]) /\ (IsMem(d, n.addr) <=> IsMem(o, n.addr))
    BY <2>1 DEF Grows, Keeps
  <2>3. QED BY <2>1, <2>2 DEF Shaped, Same
<1>2. QED BY <1>1 DEF Neat

LEMMA TameOn ==
    ASSUME NEW o, Good(o), NEW d, Grows(o, d), NEW n, Stands(o, n), Tame(o, n)
    PROVE  Tame(d, n)
<1>2. \A g \in Lists(n) : d.code[g].to = None
  <2>1. Lists(n) \subseteq Places(o.code)
    BY DEF Stands, Lists, Gotos
  <2>2. QED BY <2>1 DEF Tame, Grows
<1>3. QED BY <1>2 DEF Tame

LEMMA HoldsOn ==
    ASSUME NEW o, Good(o), NEW d, Grows(o, d), NEW n, n.addr \in Places(o.heap) => (IsMem(d, n.addr) <=> IsMem(o, n.addr)),
           Stands(o, n), Plain(n), Neat(o, n), NEW start0 \in Memories,
           NEW m, m = Final(start0, o), NEW e, e = Final(start0, d), Holds(o, m, m.mem, n)
    PROVE  Holds(d, e, e.mem, n)
<1>1. n.addr \in Places(o.heap) /\ Shaped(o, n) /\ o.heap[n.addr] \in Addresses
  BY DEF Neat, Stands, Ready, Good, Outs, Places
<1>2. Same(o.heap[n.addr], d.heap[n.addr]) /\ (IsMem(d, n.addr) <=> IsMem(o, n.addr)) /\ e.temps[n.addr] = m.temps[n.addr]
  BY <1>1 DEF Grows, Keeps, Continues
<1>3. CASE IsMem(o, n.addr)
  BY <1>2, <1>3 DEF Holds
<1>4. CASE ~IsMem(o, n.addr) /\ o.heap[n.addr].var # None
  <2>1. d.heap[n.addr].kind # "CON"
    BY <1>1, <1>2, <1>4 DEF Addresses, Same
  <2>2. Denoted(d.heap, e, n.addr) = IF d.heap[n.addr].ea THEN d.heap[n.addr].var ELSE At(e.mem, d.heap[n.addr].var)
    BY <1>2, <1>4, <2>1 DEF Denoted, Same
  <2>3. n.cell = d.heap[n.addr].var /\ (d.heap[n.addr].ea <=> IsEa(n.type)) /\ n.cell # None
    BY <1>1, <1>2, <1>4 DEF Shaped, Same
  <2>4. QED BY <1>2, <1>4, <2>2, <2>3 DEF Holds, ValueIn
<1>5. CASE ~IsMem(o, n.addr) /\ o.heap[n.addr].var = None
  <2>1. n.cell = None /\ ~o.heap[n.addr].ea
    BY <1>1, <1>5 DEF Shaped, Good
  <2>2. Denoted(d.heap, e, n.addr) = Denoted(o.heap, m, n.addr)
    BY <1>2, <1>5, <2>1 DEF Denoted, Same
  <2>3. QED BY <1>2, <1>5, <2>1, <2>2 DEF Holds, ValueIn
<1>6. QED BY <1>3, <1>4, <1>5

(***************************************************************************)
(* A reduction whose operands were not found wrong.                        *)
(***************************************************************************)
Sane(o, d, st, p, node) ==
    /\ \A k \in p + 1 .. Len(st) : st[k].bad # "short-circuit"
    /\ node.bad # "short-circuit" /\ Lists(node) = {}
    /\ Plain(node) => node.addr # None /\ Shaped(d, node)
    /\ \A k \in 1 .. p : st[k].addr \in Places(o.heap) => (IsMem(d, st[k].addr) <=> IsMem(o, st[k].addr))
    /\ \A a \in Lost(d) : \/ node.unread /\ node.addr = a
                          \/ a \in Lost(o) /\ \A k \in p + 1 .. Len(st) : st[k].unread => st[k].addr # a

\* Operands that have what the text says give a result that does.
Yields(o, d, st, p, node, mem, mem2, m, m2) ==
    (m.mem = mem /\ m.skip = None /\ \A k \in p + 1 .. Len(st) : Plain(st[k]) => Holds(o, m, mem, st[k])) =>
        m2.mem = mem2 /\ (Plain(node) => Holds(d, m2, mem2, node))

LEMMA PushTidy ==
    ASSUME NEW o, Good(o), NEW d, Grows(o, d), NEW st, Standing(o, st), Tidy(o, st),
           NEW node \in Nodes, node.mid = "none", NEW p, NEW st2, Pushed(st, node, st2, p), Sane(o, d, st, p, node)
    PROVE  Tidy(d, st2)
<1>1. Pushed(st, node, st2, p) /\ st \in Seq(Nodes)
  BY DEF Standing
<1>2. ASSUME NEW k \in 1 .. p PROVE Tame(d, st2[k]) /\ Neat(d, st2[k])
  <2>1. k \in Places(st) /\ st2[k] = st[k] /\ Stands(o, st[k]) /\ Tame(o, st[k])
    BY <1>1 DEF Pushed, Tidy, Standing
  <2>2. Neat(o, st[k]) /\ (st[k].addr \in Places(o.heap) => (IsMem(d, st[k].addr) <=> IsMem(o, st[k].addr)))
    BY <1>1, <2>1 DEF Tidy, Sane
  <2>3. QED BY <2>1, <2>2, TameOn, NeatOn
<1>3. Tame(d, node) /\ Neat(d, node)
  BY DEF Sane, Neat, Tame, Lists
<1>4. \A k \in Places(st2) : \A j \in Places(st2) \ {k} : Lists(st2[k]) \cap Lists(st2[j]) = {}
  <2>1. Lists(st2[p + 1]) = {}
    BY <1>1 DEF Pushed, Sane
  <2>2. ASSUME NEW k \in 1 .. p, NEW j \in (1 .. p) \ {k} PROVE Lists(st2[k]) \cap Lists(st2[j]) = {}
    BY <1>1 DEF Pushed, Tidy
  <2>3. QED BY <1>1, <2>1, <2>2 DEF Pushed
<1>5. ASSUME NEW a \in Lost(d) PROVE \E k \in Places(st2) : st2[k].mid = "none" /\ st2[k].unread /\ st2[k].addr = a
  <2>1. CASE node.unread /\ node.addr = a
    BY <1>1, <2>1 DEF Pushed
  <2>2. CASE a \in Lost(o) /\ \A k \in p + 1 .. Len(st) : st[k].unread => st[k].addr # a
    <3>1. PICK k \in Places(st) : st[k].mid = "none" /\ st[k].unread /\ st[k].addr = a
      BY <2>2 DEF Tidy
    <3>2. k \in 1 .. p
      BY <1>1, <2>2, <3>1 DEF Pushed
    <3>3. QED BY <1>1, <3>1, <3>2 DEF Pushed
  <2>3. QED BY <2>1, <2>2 DEF Sane
<1>6. \A k \in Places(st2) : Tame(d, st2[k]) /\ Neat(d, st2[k])
  BY <1>1, <1>2, <1>3 DEF Pushed
<1>7. QED BY <1>4, <1>5, <1>6 DEF Tidy

LEMMA PushRuns ==
    ASSUME NEW o, Good(o), NEW d, Grows(o, d), NEW st, Standing(o, st), Tidy(o, st), NEW act \in BOOLEAN, Ordered(st, act),
           NEW n, NEW p, Pops(st, n, p), NEW node \in Nodes, node.mid = "none", node.known = act,
           NEW st2, Pushed(st, node, st2, p), Sane(o, d, st, p, node),
           NEW start0 \in Memories, NEW m, m = Final(start0, o), NEW m2, m2 = Final(start0, d), NEW mem, NEW mem2,
           ~Stuck(st2, m2), ~Stuck(st, m) => Running(o, st, mem, act, m),
           act => Yields(o, d, st, p, node, mem, mem2, m, m2), ~act => mem2 = mem
    PROVE  Running(d, st2, mem2, act, m2)
<1>0. n \in 0 .. 3 /\ n <= Len(st) /\ p = Len(st) - n /\ \A k \in p + 1 .. Len(st) : st[k].mid = "none"
  BY DEF Pops
<1>1. Pushed(st, node, st2, p) /\ st \in Seq(Nodes) /\ p \in Nat /\ Len(st) \in Nat
  <2>1. st \in Seq(Nodes)
    BY DEF Standing
  <2>2. QED BY <2>1 DEF Pushed
<1>5. m.skip \in {None, Left} /\ None # Left /\ Continues(o.heap, m, m2)
  BY FinalIs DEF None, Left, Grows
<1>2. \A k \in Places(st) : st[k].mid = "none" /\ st[k].bad = "short-circuit" => k \in 1 .. p /\ ~(m.skip = Left /\ m.from \in Lists(st[k]))
  <2> SUFFICES ASSUME NEW k \in Places(st), st[k].mid = "none", st[k].bad = "short-circuit"
               PROVE  k \in 1 .. p /\ ~(m.skip = Left /\ m.from \in Lists(st[k]))
    OBVIOUS
  <2>1. k \in 1 .. p
    BY <1>1 DEF Pushed, Sane
  <2>2. k \in Places(st2) /\ k < Len(st2) /\ st2[k] = st[k]
    BY <1>1, <2>1 DEF Pushed
  <2>3. m.skip = Left => m2.skip = Left /\ m2.from = m.from
    BY <1>5 DEF Continues
  <2>4. QED BY <2>1, <2>2, <2>3 DEF Stuck
<1>3. ~(Logical(st) /\ m.skip = Left /\ m.from \in Lists(Uppermost(st)))
  <2> SUFFICES ASSUME Logical(st) PROVE ~(m.skip = Left /\ m.from \in Lists(Uppermost(st)))
    OBVIOUS
  <2>1. Len(st) \in Places(st) /\ st[Len(st)].mid = "none" /\ st[Len(st)].bad = "short-circuit"
    BY <1>1 DEF Logical, Uppermost, Places
  <2>2. QED BY <1>2, <2>1 DEF Uppermost
<1>4. Running(o, st, mem, act, m)
  <2>1. ~Stuck(st, m)
    BY <1>2 DEF Stuck
  <2>2. QED BY <2>1
<1>6. m.skip = None <=> act
  BY <1>3, <1>4, <1>5 DEF Running, Lists
<1>7. m2.mem = mem2 /\ (act /\ Plain(node) => Holds(d, m2, mem2, node))
  <2>1. CASE act
    <3>1. \A k \in p + 1 .. Len(st) : st[k].known = act
      BY <1>1, PopKnown
    <3>2. \A k \in p + 1 .. Len(st) : k \in Places(st)
      BY <1>1 DEF Places
    <3>3. \A k \in p + 1 .. Len(st) : Plain(st[k]) => Holds(o, m, mem, st[k])
      BY <1>4, <2>1, <3>1, <3>2 DEF Running
    <3>4. m.mem = mem /\ m.skip = None
      BY <1>4, <1>6, <2>1 DEF Running
    <3>5. QED BY <2>1, <3>3, <3>4 DEF Yields
  <2>2. CASE ~act
    <3>1. m2.mem = m.mem /\ m.mem = mem
      BY <1>4, <1>5, <1>6, <2>2 DEF Running, Continues
    <3>2. QED BY <2>2, <3>1
  <2>3. QED BY <2>1, <2>2
<1>8. ASSUME NEW k \in 1 .. p, Plain(st2[k]), st2[k].known PROVE Holds(d, m2, mem2, st2[k])
  <2>1. /\ st2[k] = st[k] /\ k \in Places(st)
        /\ st[k].addr \in Places(o.heap) => (IsMem(d, st[k].addr) <=> IsMem(o, st[k].addr))
    BY <1>1, <1>8 DEF Pushed, Sane
  <2>2. Holds(o, m, m.mem, st[k]) /\ Neat(o, st[k]) /\ Stands(o, st[k])
    BY <1>4, <1>8, <2>1 DEF Running, Tidy, Standing
  <2>3. Holds(d, m2, m2.mem, st[k])
    BY <1>8, <2>1, <2>2, HoldsOn
  <2>4. QED BY <1>7, <2>1, <2>3
<1>9. \A k \in Places(st2) : Plain(st2[k]) /\ st2[k].known => Holds(d, m2, mem2, st2[k])
  BY <1>1, <1>7, <1>8 DEF Pushed
<1>10. ~Logical(st2)
  BY <1>1 DEF Logical, Pushed, Sane
<1>11. ASSUME ~act PROVE \E k \in Places(st2) : Decides(st2[k]) /\ m2.from \in Exits(st2[k])
  <2>1. m.skip = Left
    BY <1>5, <1>6, <1>11
  <2>2. PICK k \in Places(st) : Decides(st[k]) /\ m.from \in Exits(st[k])
    BY <1>4, <1>11, <2>1 DEF Running
  <2>3. k \in 1 .. p
    BY <1>0, <1>1, <2>2 DEF Pushed, Decides
  <2>4. QED BY <1>1, <1>5, <2>2, <2>3 DEF Pushed, Continues
<1>12. (m2.skip = None <=> act) /\ (m2.skip = Left <=> ~act)
  BY <1>5, <1>6 DEF Continues
<1>13. QED BY <1>7, <1>9, <1>10, <1>11, <1>12 DEF Running

(***************************************************************************)
(* Reductions, as the actions state them.                                  *)
(***************************************************************************)
LEMMA ReductionKeeps ==
    ASSUME IInv, phase = "expression", NEW n, NEW p, Pops(stack, n, p), NEW o, NEW node, Reduced(n, o, node),
           Sound(o), Keeps(Out, o), Gotos(ta_code) \subseteq Gotos(o.code), Stands(o, node),
           fault' \in Faults, text' \in Memories, active' = active, node.mid = "none", node.known = active,
           fault' = "none" =>
               /\ fault = "none" /\ Grows(Out, o) /\ Sane(Out, o, stack, p, node) /\ (~active => text' = text)
               /\ active => Yields(Out, o, stack, p, node, text, text', Final(start, Out), Final(start, o))
    PROVE  IInv'
<1>1. /\ Sound(Out) /\ Good(Out) /\ Standing(Out, stack) /\ stack \in Seq(Nodes) /\ start \in Memories /\ active \in BOOLEAN
      /\ Ordered(stack, active) /\ fault \in Faults
  BY DEF IInv, Structure, Parsed, Sound, Standing
<1>2. Sound(o) /\ Good(o) /\ Keeps(Out, o)
  BY DEF Sound
<1>3. Out' = o
  BY <1>2 DEF Out, Reduced, Good, Outs
<1>4. PICK w, st2, mem2, m, m2 : w = Out /\ st2 = stack' /\ mem2 = text' /\ m = Final(start, Out) /\ m2 = Final(start, o)
  OBVIOUS
<1>5. start' = start /\ phase' = "expression" /\ node \in Nodes /\ Pushed(stack, node, st2, p)
  <2>1. start' = start /\ phase' = "expression" /\ node \in Nodes /\ st2 = Append(SubSeq(stack, 1, Len(stack) - n), node)
    BY <1>4 DEF Reduced, Popped, Stands, given
  <2>2. p = Len(stack) - n /\ n \in 0 .. Len(stack)
    BY DEF Pops
  <2>3. Pushed(stack, node, st2, p)
    BY <1>1, <2>1, <2>2, PushIs
  <2>4. QED BY <2>1, <2>3
<1>6. Standing(o, stack')
  <2>1. Gotos(w.code) \subseteq Gotos(o.code)
    BY <1>4 DEF Out
  <2>2. Good(w) /\ Good(o) /\ Keeps(w, o) /\ Standing(w, stack)
    BY <1>1, <1>2, <1>4
  <2>3. Standing(o, st2)
    BY <1>5, <2>1, <2>2, PushStands
  <2>4. QED BY <1>4, <2>3
<1>7. Structure'
  BY <1>1, <1>2, <1>3, <1>5, <1>6 DEF Structure
<1>8. Ordered(stack', active')
  BY <1>1, <1>4, <1>5, PushOrdered
<1>9. ASSUME fault' = "none"
      PROVE  Tidy(o, stack') /\ (~Stuck(stack', Final(start, o)) => Running(o, stack', text', active', Final(start, o)))
  <2>1. Tidy(w, stack) /\ (~Stuck(stack, m) => Running(w, stack, text, active, m))
    BY <1>4, <1>9 DEF IInv, Going
  <2>2. /\ Good(w) /\ Grows(w, o) /\ Standing(w, stack) /\ m = Final(start, w) /\ Sane(w, o, stack, p, node)
        /\ (active => Yields(w, o, stack, p, node, text, mem2, m, m2)) /\ (~active => mem2 = text)
    BY <1>1, <1>4, <1>9
  <2>3. Tidy(o, st2)
    BY <1>5, <2>1, <2>2, PushTidy
  <2>4. ASSUME ~Stuck(st2, m2) PROVE Running(o, st2, mem2, active, m2)
    BY <1>1, <1>4, <1>5, <2>1, <2>2, <2>4, PushRuns
  <2>5. QED BY <1>4, <2>3, <2>4
<1>10. Going' /\ Parsed' /\ Ended'
  BY <1>3, <1>5, <1>8, <1>9 DEF Going, Parsed, Ended
<1>11. QED BY <1>7, <1>10 DEF IInv

(***************************************************************************)
(* The operands of a reduction.                                            *)
(***************************************************************************)
\* The address of a plain operand has what the text says.
Fits(o, s0, mem, n) ==
    /\ Plain(n) /\ n.addr # None /\ Shaped(o, n) /\ n.known
    /\ IF IsMem(o, n.addr) THEN Den(o, s0, n.addr) = n.cell /\ n.cell > 0 ELSE Den(o, s0, n.addr) = ValueIn(mem, n)
    /\ ~IsStruct(n.type) => Reading(o, s0, n.addr) = ValueIn(mem, n)
Fair(o, s0, mem) == Final(s0, o).skip = None /\ Final(s0, o).mem = mem

LEMMA FitsIs ==
    ASSUME NEW o, Good(o), NEW s0 \in Memories, NEW mem, NEW n, Stands(o, n), Plain(n), Neat(o, n), n.known, Fair(o, s0, mem),
           Holds(o, Final(s0, o), mem, n)
    PROVE  Fits(o, s0, mem, n)
<1>1. n.addr \in Places(o.heap) /\ n.addr # None /\ Shaped(o, n) /\ o.heap[n.addr] \in Addresses
  BY DEF Neat, Stands, Ready, Good, Outs, Places
<1>2. CASE ~IsMem(o, n.addr)
  BY <1>1, <1>2 DEF Fits, Holds, Den, Reading
<1>3. CASE IsMem(o, n.addr)
  <2>1. o.heap[n.addr].var = None /\ o.heap[n.addr].kind # "CON" /\ ~o.heap[n.addr].ea
    BY <1>1, <1>3 DEF Addresses, IsMem, Good
  <2>2. Den(o, s0, n.addr) = n.cell
    BY <1>3, <2>1 DEF Den, Denoted, Holds
  <2>3. n.cell > 0 /\ ~IsArray(n.type)
    BY <1>1, <1>3 DEF Shaped
  <2>4. n.cell # None /\ (~IsStruct(n.type) => ~IsEa(n.type))
    BY <2>3 DEF None, IsEa
  <2>5. QED BY <1>1, <1>3, <2>2, <2>3, <2>4 DEF Fits, Reading, ValueIn, Fair
<1>4. QED BY <1>2, <1>3

\* The operands of a reduction, and those of one that uses their addresses.
LEMMA Waiting ==
    ASSUME IInv, NEW n \in 1 .. 3, Waits(n)
    PROVE  /\ Pops(stack, n, Len(stack) - n) /\ phase = "expression" /\ Good(Out) /\ Sound(Out) /\ stack \in Seq(Nodes) /\ Len(stack) \in Nat
           /\ start \in Memories /\ text \in Memories /\ active \in BOOLEAN /\ fault \in Faults
           /\ Stands(Out, Top) /\ Top.mid = "none" /\ Top \in Nodes /\ Len(stack) \in Places(stack)
           /\ (fault = "none" => Neat(Out, Top) /\ Tame(Out, Top))
           /\ n > 1 => /\ Stands(Out, Second) /\ Second.mid = "none" /\ Second \in Nodes
                       /\ (fault = "none" => Tame(Out, Second) /\ Neat(Out, Second))
                       /\ Len(stack) - 1 \in Places(stack)
<1>1. /\ phase = "expression" /\ Good(Out) /\ Sound(Out) /\ stack \in Seq(Nodes) /\ Len(stack) \in Nat
      /\ start \in Memories /\ text \in Memories /\ active \in BOOLEAN /\ fault \in Faults /\ Standing(Out, stack)
  BY DEF IInv, Structure, Waits, Sound, Standing
<1>2. Len(stack) >= n /\ \A k \in Len(stack) - n + 1 .. Len(stack) : stack[k].mid = "none"
  BY DEF Waits
<1>3. ASSUME NEW k \in Len(stack) - n + 1 .. Len(stack)
      PROVE  /\ k \in Places(stack) /\ Stands(Out, stack[k]) /\ stack[k].mid = "none" /\ stack[k] \in Nodes
             /\ (fault = "none" => Tame(Out, stack[k]) /\ Neat(Out, stack[k]))
  <2>1. k \in Places(stack)
    BY <1>1, <1>2 DEF Places
  <2>2. Stands(Out, stack[k]) /\ stack[k].mid = "none"
    BY <1>1, <1>2, <2>1 DEF Standing
  <2>3. fault = "none" => Tame(Out, stack[k]) /\ Neat(Out, stack[k])
    BY <1>1, <2>1 DEF IInv, Going, Tidy
  <2>4. QED BY <2>1, <2>2, <2>3 DEF Stands
<1>4. Pops(stack, n, Len(stack) - n)
  BY <1>1, <1>2 DEF Pops
<1>5. Len(stack) \in Len(stack) - n + 1 .. Len(stack)
  BY <1>1
<1>6. n > 1 => Len(stack) - 1 \in Len(stack) - n + 1 .. Len(stack)
  BY <1>1
<1>7. QED BY <1>1, <1>3, <1>4, <1>5, <1>6 DEF Top, Second

LEMMA Operands ==
    ASSUME IInv, Distinct(stack), NEW production, NEW n \in 1 .. 3, Reduces(production, n)
    PROVE  /\ Pops(stack, n, Len(stack) - n) /\ phase = "expression" /\ Good(Out) /\ Sound(Out) /\ stack \in Seq(Nodes) /\ Len(stack) \in Nat
           /\ start \in Memories /\ text \in Memories /\ active \in BOOLEAN /\ fault \in Faults
           /\ Stands(Out, Top) /\ Ready(Out, Top.addr) /\ Top.mid = "none" /\ Top \in Nodes /\ Top.addr # None /\ Len(stack) \in Places(stack)
           /\ (fault = "none" => Neat(Out, Top) /\ Tame(Out, Top))
           /\ n > 1 => /\ Stands(Out, Second) /\ Ready(Out, Second.addr) /\ Second.mid = "none" /\ Second \in Nodes /\ Second.addr # None
                       /\ (fault = "none" => Tame(Out, Second) /\ Neat(Out, Second))
                       /\ Len(stack) - 1 \in Places(stack)
<1>1. Waits(n) /\ \A k \in Len(stack) - n + 1 .. Len(stack) : stack[k].addr # None
  BY DEF Reduces
<1>2. Len(stack) \in Nat
  BY <1>1, Waiting
<1>3. Top.addr # None /\ (n > 1 => Second.addr # None)
  BY <1>1, <1>2 DEF Top, Second
<1>4. QED BY <1>1, <1>3, Waiting DEF Stands

\* What a reduction must show of its result, when nothing went wrong.
Result1(o, node, mem2) ==
    /\ Grows(Out, o) /\ node.bad # "short-circuit" /\ Lists(node) = {} /\ (Plain(node) => Shaped(o, node))
    /\ (~active => mem2 = text)
Comes(o, node, mem2) == Final(start, o).mem = mem2 /\ (Plain(node) => Holds(o, Final(start, o), mem2, node))

LEMMA UnaryKeeps ==
    ASSUME IInv, Distinct(stack), NEW production, Reduces(production, 1), NEW o, NEW node, Reduced(1, o, node),
           Sound(o), Keeps(Out, o), Gotos(ta_code) \subseteq Gotos(o.code), Stands(o, node),
           fault' \in Faults, text' \in Memories, active' = active, node.mid = "none", node.known = active,
           fault' = "none" =>
               /\ fault = "none" /\ Top.bad = "none" /\ Result1(o, node, text') /\ Keeping(Out, o)
               /\ \A a \in Lost(o) : (node.unread /\ node.addr = a) \/ (a \in Lost(Out) /\ (Top.unread => Top.addr # a))
               /\ active /\ Fair(Out, start, text) /\ Fits(Out, start, text, Top) => Comes(o, node, text')
    PROVE  IInv'
<1>1. PICK p : p = Len(stack) - 1
  OBVIOUS
<1>2. /\ Pops(stack, 1, p) /\ phase = "expression" /\ Good(Out) /\ stack \in Seq(Nodes) /\ Len(stack) \in Nat
      /\ start \in Memories /\ active \in BOOLEAN /\ Stands(Out, Top) /\ Top.mid = "none" /\ (fault = "none" => Neat(Out, Top))
  BY <1>1, Operands
<1>3. \A k \in p + 1 .. Len(stack) : stack[k] = Top
  BY <1>1, <1>2 DEF Top
<1>4. Len(stack) \in p + 1 .. Len(stack)
  BY <1>1, <1>2
<1>5. active => Top.known
  <2>1. Ordered(stack, active)
    BY <1>2 DEF IInv, Parsed
  <2>2. \A k \in p + 1 .. Len(stack) : stack[k].known = active
    BY <1>2, <2>1, PopKnown
  <2>3. QED BY <1>3, <1>4, <2>2
<1>6. ASSUME fault' = "none"
      PROVE  /\ fault = "none" /\ Grows(Out, o) /\ Sane(Out, o, stack, p, node) /\ (~active => text' = text)
             /\ active => Yields(Out, o, stack, p, node, text, text', Final(start, Out), Final(start, o))
  <2>1. Sane(Out, o, stack, p, node)
    <3>1. Plain(node) => node.addr # None
      BY DEF Stands, Plain
    <3>2. QED BY <1>3, <1>6, <3>1 DEF Sane, Result1, Keeping
  <2>2. ASSUME active PROVE Yields(Out, o, stack, p, node, text, text', Final(start, Out), Final(start, o))
    <3>1. PICK m, m2, mem2 : m = Final(start, Out) /\ m2 = Final(start, o) /\ mem2 = text'
      OBVIOUS
    <3> SUFFICES ASSUME m.mem = text, m.skip = None, \A k \in p + 1 .. Len(stack) : Plain(stack[k]) => Holds(Out, m, text, stack[k])
                 PROVE  m2.mem = mem2 /\ (Plain(node) => Holds(o, m2, mem2, node))
      BY <3>1 DEF Yields
    <3>2. Plain(Top) /\ Holds(Out, m, text, Top)
      BY <1>2, <1>3, <1>4, <1>6 DEF Plain
    <3>3. Fair(Out, start, text)
      BY <3>1 DEF Fair
    <3>4. Fits(Out, start, text, Top)
      BY <1>2, <1>5, <1>6, <2>2, <3>1, <3>2, <3>3, FitsIs
    <3>5. Comes(o, node, text')
      BY <1>6, <2>2, <3>3, <3>4
    <3>6. QED BY <3>1, <3>5 DEF Comes
  <2>3. QED BY <1>6, <2>1, <2>2 DEF Result1
<1>7. QED BY <1>2, <1>6, ReductionKeeps

\* The addresses that are loaded from are the same, but for one.
KeepingBut(o, d, a) == \A b \in Places(o.heap) : b # a => (IsMem(d, b) <=> IsMem(o, b))

LEMMA BinaryKeeps ==
    ASSUME IInv, Distinct(stack), Waits(2), NEW o, NEW node, Reduced(2, o, node),
           Sound(o), Keeps(Out, o), Gotos(ta_code) \subseteq Gotos(o.code), Stands(o, node),
           fault' \in Faults, text' \in Memories, active' = active, node.mid = "none", node.known = active,
           fault' = "none" =>
               /\ fault = "none" /\ Top.bad # "short-circuit" /\ Second.bad # "short-circuit" /\ Result1(o, node, text')
               /\ KeepingBut(Out, o, Second.addr)
               /\ \A a \in Lost(o) : (node.unread /\ node.addr = a) \/ (a \in Lost(Out) /\ (Top.unread => Top.addr # a)
                                                                        /\ (Second.unread => Second.addr # a))
               /\ active /\ Fair(Out, start, text) /\ (Plain(Top) => Fits(Out, start, text, Top))
                         /\ (Plain(Second) => Fits(Out, start, text, Second)) => Comes(o, node, text')
    PROVE  IInv'
<1>1. PICK p : p = Len(stack) - 2
  OBVIOUS
<1>2. /\ Pops(stack, 2, p) /\ phase = "expression" /\ Good(Out) /\ stack \in Seq(Nodes) /\ Len(stack) \in Nat
      /\ start \in Memories /\ active \in BOOLEAN /\ Stands(Out, Top) /\ Top.mid = "none" /\ (fault = "none" => Neat(Out, Top))
      /\ Stands(Out, Second) /\ Second.mid = "none" /\ (fault = "none" => Neat(Out, Second))
  BY <1>1, Waiting
<1>3. \A k \in p + 1 .. Len(stack) : stack[k] = Top \/ stack[k] = Second
  <2>1. \A k \in p + 1 .. Len(stack) : k = Len(stack) \/ k = Len(stack) - 1
    BY <1>1, <1>2
  <2>2. QED BY <2>1 DEF Top, Second
<1>4. Len(stack) \in p + 1 .. Len(stack) /\ Len(stack) - 1 \in p + 1 .. Len(stack)
  BY <1>1, <1>2
<1>5. active => Top.known /\ Second.known
  <2>1. Ordered(stack, active)
    BY <1>2 DEF IInv, Parsed
  <2>2. \A k \in p + 1 .. Len(stack) : stack[k].known = active
    BY <1>2, <2>1, PopKnown
  <2>3. QED BY <1>4, <2>2 DEF Top, Second
<1>8. \A k \in 1 .. p : stack[k].addr # None => stack[k].addr # Second.addr
  <2>1. PICK l \in Places(stack) : l = p + 1 /\ stack[l] = Second
    BY <1>1, <1>2 DEF Second, Places, Pops
  <2>2. \A k \in 1 .. p : k \in Places(stack) /\ k # l
    BY <1>1, <1>2, <2>1 DEF Places, Pops
  <2>3. QED BY <2>1, <2>2 DEF Distinct
<1>6. ASSUME fault' = "none"
      PROVE  /\ fault = "none" /\ Grows(Out, o) /\ Sane(Out, o, stack, p, node) /\ (~active => text' = text)
             /\ active => Yields(Out, o, stack, p, node, text, text', Final(start, Out), Final(start, o))
  <2>1. Sane(Out, o, stack, p, node)
    <3>1. Plain(node) => node.addr # None
      BY DEF Stands, Plain
    <3>2. \A k \in 1 .. p : stack[k].addr \in Places(Out.heap) => (IsMem(o, stack[k].addr) <=> IsMem(Out, stack[k].addr))
      BY <1>6, <1>8 DEF KeepingBut, Places, None
    <3>3. QED BY <1>3, <1>6, <3>1, <3>2 DEF Sane, Result1
  <2>2. ASSUME active PROVE Yields(Out, o, stack, p, node, text, text', Final(start, Out), Final(start, o))
    <3>1. PICK m, m2, mem2 : m = Final(start, Out) /\ m2 = Final(start, o) /\ mem2 = text'
      OBVIOUS
    <3> SUFFICES ASSUME m.mem = text, m.skip = None, \A k \in p + 1 .. Len(stack) : Plain(stack[k]) => Holds(Out, m, text, stack[k])
                 PROVE  m2.mem = mem2 /\ (Plain(node) => Holds(o, m2, mem2, node))
      BY <3>1 DEF Yields
    <3>2. (Plain(Top) => Holds(Out, m, text, Top)) /\ (Plain(Second) => Holds(Out, m, text, Second))
      BY <1>4 DEF Top, Second
    <3>3. Fair(Out, start, text)
      BY <3>1 DEF Fair
    <3>4. Plain(Top) => Fits(Out, start, text, Top)
      BY <1>2, <1>5, <1>6, <2>2, <3>1, <3>2, <3>3, FitsIs
    <3>5. Plain(Second) => Fits(Out, start, text, Second)
      BY <1>2, <1>5, <1>6, <2>2, <3>1, <3>2, <3>3, FitsIs
    <3>6. Comes(o, node, text')
      BY <1>6, <2>2, <3>3, <3>4, <3>5
    <3>7. QED BY <3>1, <3>6 DEF Comes
  <2>3. QED BY <1>6, <2>1, <2>2 DEF Result1
<1>7. QED BY <1>2, <1>6, ReductionKeeps

(***************************************************************************)
(* Results: what their nodes are, and what is blamed.                      *)
(***************************************************************************)
Forms(n, type, cell, val, addr, bad, unread) ==
    /\ n \in Nodes /\ n.type = type /\ n.cell = cell /\ n.val = val /\ n.addr = addr /\ n.bad = bad /\ n.unread = unread
    /\ n.known = active /\ n.mid = "none" /\ n.true = {} /\ n.false = {}

LEMMA NodeForms ==
    ASSUME active \in BOOLEAN, NEW type \in Types, NEW cell \in Int, NEW val \in Int, NEW addr \in Nat, NEW bad \in Faults,
           NEW unread \in BOOLEAN, NEW n
    PROVE  /\ n = Node(type, cell, val, addr) => Forms(n, type, cell, val, addr, "none", FALSE)
           /\ n = Lvalue(type, cell, addr) => Forms(n, type, cell, 0, addr, "none", FALSE)
           /\ n = [Node(type, cell, val, addr) EXCEPT !.bad = bad] => Forms(n, type, cell, val, addr, bad, FALSE)
           /\ n = [Node(type, cell, val, addr) EXCEPT !.unread = unread] => Forms(n, type, cell, val, addr, "none", unread)
<1>1. PICK x : x = Node(type, cell, val, addr)
  OBVIOUS
<1>2. /\ x \in Nodes /\ x.type = type /\ x.cell = cell /\ x.val = val /\ x.addr = addr /\ x.bad = "none" /\ x.unread = FALSE
      /\ x.known = active /\ x.mid = "none" /\ x.true = {} /\ x.false = {}
  BY <1>1 DEF Node, Nodes, Faults
<1>3. ASSUME n = [x EXCEPT !.bad = bad] PROVE Forms(n, type, cell, val, addr, bad, FALSE)
  BY <1>2, <1>3 DEF Forms, Nodes
<1>4. ASSUME n = [x EXCEPT !.unread = unread] PROVE Forms(n, type, cell, val, addr, "none", unread)
  BY <1>2, <1>4 DEF Forms, Nodes
<1>5. ASSUME n = x PROVE Forms(n, type, cell, val, addr, "none", FALSE)
  BY <1>2, <1>5 DEF Forms
<1>6. ASSUME n = Lvalue(type, cell, addr) PROVE Forms(n, type, cell, 0, addr, "none", FALSE)
  <2>1. PICK y : y = Node(type, cell, 0, addr)
    OBVIOUS
  <2>2. /\ y \in Nodes /\ y.type = type /\ y.cell = cell /\ y.val = 0 /\ y.addr = addr /\ y.bad = "none" /\ y.unread = FALSE
        /\ y.known = active /\ y.mid = "none" /\ y.true = {} /\ y.false = {}
    BY <2>1 DEF Node, Nodes, Faults
  <2>3. n = [y EXCEPT !.lv = TRUE]
    BY <1>6, <2>1 DEF Lvalue
  <2>4. QED BY <2>2, <2>3 DEF Forms, Nodes
<1>7. QED BY <1>1, <1>3, <1>4, <1>5, <1>6

LEMMA BlameIs ==
    ASSUME NEW W, W \subseteq Faults, Blame(W), fault \in Faults
    PROVE  fault' \in Faults /\ (fault' = "none" => fault = "none" /\ \A w \in W : w = "none")
<1>1. CASE fault = "none" /\ W \ {"none"} # {}
  <2>1. (CHOOSE w \in W \ {"none"} : TRUE) \in W \ {"none"}
    BY <1>1
  <2>2. QED BY <1>1, <2>1 DEF Blame
<1>2. CASE ~(fault = "none" /\ W \ {"none"} # {})
  BY <1>2 DEF Blame
<1>3. QED BY <1>1, <1>2

LEMMA ValueIs == ASSUME NEW mem \in Memories, NEW n \in Nodes PROVE ValueIn(mem, n) \in Int
<1>1. n.cell \in Int /\ n.val \in Int
  BY DEF Nodes
<1>2. QED BY <1>1, AtIs DEF ValueIn

\* The address of a result has what the text says.
Denotes(o, mem, n) == Den(o, start, n.addr) = IF IsMem(o, n.addr) THEN n.cell ELSE ValueIn(mem, n)

LEMMA DenotesHolds ==
    ASSUME NEW o, Good(o), NEW n, Ready(o, n.addr), NEW mem, Denotes(o, mem, n)
    PROVE  Holds(o, Final(start, o), mem, n)
<1>1. n.addr \in Places(o.heap) /\ o.heap[n.addr] \in Addresses /\ (o.heap[n.addr].ea => o.heap[n.addr].var # None)
  BY DEF Good, Outs, Ready, Places
<1>2. IsMem(o, n.addr) => o.heap[n.addr].var = None /\ o.heap[n.addr].kind # "CON" /\ ~o.heap[n.addr].ea
  BY <1>1 DEF IsMem, Addresses
<1>3. QED BY <1>2 DEF Holds, Denotes, Den, Denoted

(***************************************************************************)
(* Reductions that only compute.                                           *)
(***************************************************************************)
LEMMA AddsFacts ==
    ASSUME NEW o, Sound(o), NEW d, Adds(o, d)
    PROVE  Sound(d) /\ Good(d) /\ Keeps(o, d) /\ Gotos(o.code) \subseteq Gotos(d.code) /\ Grows(o, d) /\ Keeping(o, d) /\ Lost(d) \subseteq Lost(o)
BY AddsGrows, GrowsGotos DEF Sound, Grows, Adds

\* What a reduction of one operand shows, when nothing went wrong.
UnaryFine(o, node, addr, bad, unread, W) ==
    (Plain(Top) /\ Shaped(Out, Top) /\ (active => Top.known) /\ \A w \in W : w = "none") =>
        /\ bad = "none" => Shaped(o, node)
        /\ \A a \in Lost(o) : (unread /\ addr = a) \/ (Top.unread => Top.addr # a)
        /\ (active /\ Fair(Out, start, text) /\ Fits(Out, start, text, Top) /\ bad = "none") => Denotes(o, text, node)

LEMMA UnaryAdds ==
    ASSUME IInv, Distinct(stack), NEW production, Reduces(production, 1), NEW o, NEW node, Reduced(1, o, node), Adds(Out, o),
           NEW type, NEW cell, NEW val, NEW addr, NEW bad, NEW unread, Forms(node, type, cell, val, addr, bad, unread), Ready(o, addr),
           bad # "short-circuit", NEW W, W \subseteq Faults, Blame(W), Top.bad \in W, Pure,
           UnaryFine(o, node, addr, bad, unread, W)
    PROVE  IInv'
<1>1. /\ Pops(stack, 1, Len(stack) - 1) /\ phase = "expression" /\ Good(Out) /\ Sound(Out) /\ stack \in Seq(Nodes) /\ Len(stack) \in Nat
      /\ start \in Memories /\ text \in Memories /\ active \in BOOLEAN /\ fault \in Faults
      /\ Stands(Out, Top) /\ Top.mid = "none" /\ Top \in Nodes /\ Len(stack) \in Places(stack)
      /\ (fault = "none" => Neat(Out, Top))
  BY Operands
<1>2. Sound(o) /\ Good(o) /\ Keeps(Out, o) /\ Gotos(ta_code) \subseteq Gotos(o.code) /\ Grows(Out, o) /\ Keeping(Out, o) /\ Lost(o) \subseteq Lost(Out)
  <2>1. PICK w : w = Out /\ w.code = ta_code
    BY DEF Out
  <2>2. QED BY <1>1, <2>1, AddsFacts
<1>3. /\ node \in Nodes /\ node.addr = addr /\ node.bad = bad /\ node.unread = unread /\ node.known = active /\ node.mid = "none"
      /\ Lists(node) = {} /\ node.true = {} /\ node.false = {} /\ node.addr # None
  <2>1. addr # None
    BY DEF Ready, Places, None
  <2>2. QED BY <2>1 DEF Forms, Lists
<1>4. Stands(o, node)
  BY <1>3 DEF Stands
<1>5. fault' \in Faults /\ (fault' = "none" => fault = "none" /\ \A w \in W : w = "none")
  BY <1>1, BlameIs
<1>6. text' = text /\ active' = active
  BY DEF Pure
<1>7. active => Top.known
  <2>1. Ordered(stack, active)
    BY <1>1 DEF IInv, Parsed
  <2>2. \A k \in Len(stack) - 1 + 1 .. Len(stack) : stack[k].known = active
    BY <1>1, <2>1, PopKnown
  <2>3. Len(stack) \in Len(stack) - 1 + 1 .. Len(stack)
    BY <1>1
  <2>4. QED BY <2>2, <2>3 DEF Top
<1>8. ASSUME fault' = "none"
      PROVE  /\ fault = "none" /\ Top.bad = "none" /\ Result1(o, node, text')
             /\ \A a \in Lost(o) : (node.unread /\ node.addr = a) \/ (a \in Lost(Out) /\ (Top.unread => Top.addr # a))
             /\ active /\ Fair(Out, start, text) /\ Fits(Out, start, text, Top) => Comes(o, node, text')
  <2>1. fault = "none" /\ (\A w \in W : w = "none") /\ Top.bad = "none" /\ Plain(Top) /\ Shaped(Out, Top)
    BY <1>1, <1>5, <1>8 DEF Plain, Neat
  <2>2. Result1(o, node, text')
    BY <1>2, <1>3, <1>6, <1>7, <2>1 DEF Result1, Plain, UnaryFine
  <2>3. ASSUME active /\ Fair(Out, start, text) /\ Fits(Out, start, text, Top) PROVE Comes(o, node, text')
    <3>1. Final(start, o).mem = text'
      BY <1>1, <1>6, <2>3 DEF Adds, Agree, Fair
    <3>2. bad = "none" => Denotes(o, text, node)
      BY <1>7, <2>1, <2>3 DEF UnaryFine
    <3>3. Plain(node) => Holds(o, Final(start, o), text, node)
      BY <1>2, <1>3, <3>2, DenotesHolds DEF Plain
    <3>4. QED BY <1>6, <3>1, <3>3 DEF Comes
  <2>4. QED BY <1>2, <1>3, <1>7, <2>1, <2>2, <2>3 DEF UnaryFine
<1>9. QED BY <1>1, <1>2, <1>3, <1>4, <1>5, <1>6, <1>8, UnaryKeeps

BinaryFine(o, node, bad, W) ==
    (/\ Plain(Top) /\ Shaped(Out, Top) /\ (active => Top.known)
     /\ Plain(Second) /\ Shaped(Out, Second) /\ (active => Second.known) /\ \A w \in W : w = "none") =>
        /\ bad = "none" => Shaped(o, node)
        /\ \A a \in Lost(o) : (Top.unread => Top.addr # a) /\ (Second.unread => Second.addr # a)
        /\ (active /\ Fair(Out, start, text) /\ Fits(Out, start, text, Top) /\ Fits(Out, start, text, Second) /\ bad = "none") =>
               Denotes(o, text, node)

LEMMA BinaryAdds ==
    ASSUME IInv, Distinct(stack), NEW production, Reduces(production, 2), NEW o, NEW node, Reduced(2, o, node), Adds(Out, o),
           NEW type, NEW cell, NEW val, NEW addr, NEW bad, NEW unread, Forms(node, type, cell, val, addr, bad, unread), Ready(o, addr),
           bad # "short-circuit", NEW W, W \subseteq Faults, Blame(W), Top.bad \in W, Second.bad \in W, Pure,
           BinaryFine(o, node, bad, W)
    PROVE  IInv'
<1>1. /\ Pops(stack, 2, Len(stack) - 2) /\ phase = "expression" /\ Good(Out) /\ Sound(Out) /\ stack \in Seq(Nodes) /\ Len(stack) \in Nat
      /\ start \in Memories /\ text \in Memories /\ active \in BOOLEAN /\ fault \in Faults
      /\ Stands(Out, Top) /\ Top.mid = "none" /\ Top \in Nodes /\ Len(stack) \in Places(stack)
      /\ (fault = "none" => Neat(Out, Top))
      /\ Stands(Out, Second) /\ Second.mid = "none" /\ Second \in Nodes
      /\ (fault = "none" => Neat(Out, Second))
  BY Operands
<1>2. Sound(o) /\ Good(o) /\ Keeps(Out, o) /\ Gotos(ta_code) \subseteq Gotos(o.code) /\ Grows(Out, o) /\ Keeping(Out, o) /\ Lost(o) \subseteq Lost(Out)
  <2>1. PICK w : w = Out /\ w.code = ta_code
    BY DEF Out
  <2>2. QED BY <1>1, <2>1, AddsFacts
<1>3. /\ node \in Nodes /\ node.addr = addr /\ node.bad = bad /\ node.unread = unread /\ node.known = active /\ node.mid = "none"
      /\ Lists(node) = {} /\ node.true = {} /\ node.false = {} /\ node.addr # None
  <2>1. addr # None
    BY DEF Ready, Places, None
  <2>2. QED BY <2>1 DEF Forms, Lists
<1>4. Stands(o, node)
  BY <1>3 DEF Stands
<1>5. fault' \in Faults /\ (fault' = "none" => fault = "none" /\ \A w \in W : w = "none")
  BY <1>1, BlameIs
<1>6. text' = text /\ active' = active
  BY DEF Pure
<1>7. active => Top.known /\ Second.known
  <2>1. Ordered(stack, active)
    BY <1>1 DEF IInv, Parsed
  <2>2. \A k \in Len(stack) - 2 + 1 .. Len(stack) : stack[k].known = active
    BY <1>1, <2>1, PopKnown
  <2>3. Len(stack) \in Len(stack) - 2 + 1 .. Len(stack) /\ Len(stack) - 1 \in Len(stack) - 2 + 1 .. Len(stack)
    BY <1>1
  <2>4. QED BY <2>2, <2>3 DEF Top, Second
<1>8. ASSUME fault' = "none"
      PROVE  /\ fault = "none" /\ Top.bad # "short-circuit" /\ Second.bad # "short-circuit" /\ Result1(o, node, text')
             /\ KeepingBut(Out, o, Second.addr)
             /\ \A a \in Lost(o) : (node.unread /\ node.addr = a) \/ (a \in Lost(Out) /\ (Top.unread => Top.addr # a)
                                                                      /\ (Second.unread => Second.addr # a))
             /\ active /\ Fair(Out, start, text) /\ (Plain(Top) => Fits(Out, start, text, Top))
                       /\ (Plain(Second) => Fits(Out, start, text, Second)) => Comes(o, node, text')
  <2>1. /\ fault = "none" /\ (\A w \in W : w = "none") /\ Top.bad = "none" /\ Plain(Top) /\ Shaped(Out, Top)
        /\ Second.bad = "none" /\ Plain(Second) /\ Shaped(Out, Second)
    BY <1>1, <1>5, <1>8 DEF Plain, Neat
  <2>2. Result1(o, node, text')
    BY <1>2, <1>3, <1>6, <1>7, <2>1 DEF Result1, Plain, BinaryFine
  <2>3. ASSUME active /\ Fair(Out, start, text) /\ Fits(Out, start, text, Top) /\ Fits(Out, start, text, Second) PROVE Comes(o, node, text')
    <3>1. Final(start, o).mem = text'
      BY <1>1, <1>6, <2>3 DEF Adds, Agree, Fair
    <3>2. bad = "none" => Denotes(o, text, node)
      BY <1>7, <2>1, <2>3 DEF BinaryFine
    <3>3. Plain(node) => Holds(o, Final(start, o), text, node)
      BY <1>2, <1>3, <3>2, DenotesHolds DEF Plain
    <3>4. QED BY <1>6, <3>1, <3>3 DEF Comes
  <2>4. QED BY <1>2, <1>3, <1>7, <2>1, <2>2, <2>3 DEF BinaryFine, Keeping, KeepingBut
<1>9. Waits(2)
  BY DEF Reduces
<1>10. QED BY <1>1, <1>2, <1>3, <1>4, <1>5, <1>6, <1>8, <1>9, BinaryKeeps

(***************************************************************************)
(* Primary expressions.                                                    *)
(***************************************************************************)
LEMMA NullaryAdds ==
    ASSUME IInv, Distinct(stack), phase = "expression", NEW o, NEW node, Reduced(0, o, node), Adds(Out, o), Lost(o) = Lost(Out),
           NEW type, NEW cell, NEW val, NEW addr, Forms(node, type, cell, val, addr, "none", FALSE), Ready(o, addr),
           Shaped(o, node), Fair(Out, start, text) => Denotes(o, text, node), Pure, UNCHANGED fault
    PROVE  IInv'
<1>1. /\ phase = "expression" /\ Good(Out) /\ Sound(Out) /\ stack \in Seq(Nodes) /\ Len(stack) \in Nat
      /\ start \in Memories /\ text \in Memories /\ active \in BOOLEAN /\ fault \in Faults
  BY DEF IInv, Structure, Sound, Standing
<1>2. Sound(o) /\ Good(o) /\ Keeps(Out, o) /\ Gotos(ta_code) \subseteq Gotos(o.code) /\ Grows(Out, o) /\ Keeping(Out, o)
  <2>1. PICK w : w = Out /\ w.code = ta_code
    BY DEF Out
  <2>2. QED BY <1>1, <2>1, AddsFacts
<1>3. /\ node \in Nodes /\ node.addr = addr /\ node.bad = "none" /\ node.unread = FALSE /\ node.known = active /\ node.mid = "none"
      /\ Lists(node) = {} /\ node.true = {} /\ node.false = {} /\ node.addr # None
  <2>1. addr # None
    BY DEF Ready, Places, None
  <2>2. QED BY <2>1 DEF Forms, Lists
<1>4. Stands(o, node)
  BY <1>3 DEF Stands
<1>5. Pops(stack, 0, Len(stack))
  BY <1>1 DEF Pops
<1>6. text' = text /\ active' = active /\ fault' = fault
  BY DEF Pure
<1>7. Sane(Out, o, stack, Len(stack), node)
  <2>1. \A k \in Len(stack) + 1 .. Len(stack) : FALSE
    BY <1>1
  <2>2. QED BY <1>2, <1>3, <2>1 DEF Sane, Keeping
<1>8. Yields(Out, o, stack, Len(stack), node, text, text', Final(start, Out), Final(start, o))
  <2>1. PICK m, m2 : m = Final(start, Out) /\ m2 = Final(start, o)
    OBVIOUS
  <2>2. m2.mem = m.mem
    BY <1>1, <2>1 DEF Adds, Agree
  <2>3. ASSUME m.mem = text, m.skip = None PROVE Holds(o, m2, text, node)
    <3>1. Denotes(o, text, node)
      BY <2>1, <2>3 DEF Fair
    <3>2. QED BY <1>2, <1>3, <2>1, <3>1, DenotesHolds
  <2>4. QED BY <1>6, <2>1, <2>2, <2>3 DEF Yields
<1>9. QED BY <1>1, <1>2, <1>3, <1>4, <1>5, <1>6, <1>7, <1>8, ReductionKeeps

LEMMA IdentifierKeeps == ASSUME IInv, Distinct(stack), Identifier PROVE IInv'
<1>1. PICK v, o, node :
          /\ v \in DOMAIN Declared /\ o = With(Out, New3Id(Declared[v])) /\ node = Lvalue(Declared[v].type, Declared[v].cell, Last(o))
          /\ Reduced(0, o, node)
  BY DEF Identifier
<1>2. phase = "expression" /\ Pure /\ UNCHANGED fault
  BY DEF Identifier, Reduces, Waits
<1>3. Good(Out) /\ active \in BOOLEAN /\ start \in Memories
  BY DEF IInv, Structure, Sound
<1>4. /\ Adds(Out, o) /\ Ready(o, Last(o)) /\ Lost(o) = Lost(Out) /\ o.heap[Last(o)] = New3Id(Declared[v])
      /\ Declared[v].cell \in Cells /\ Declared[v].type \in Types
  BY <1>1, <1>3, NewNameAdds
<1>5. PICK c, t, a : c = Declared[v].cell /\ t = Declared[v].type /\ a = Last(o)
  OBVIOUS
<1>6. c \in Int /\ c > 0 /\ c # None /\ t \in Types /\ a \in Nat
  BY <1>4, <1>5 DEF Cells, Ready, Places, None
<1>7. Forms(node, t, c, 0, a, "none", FALSE)
  <2>1. 0 \in Int /\ "none" \in Faults /\ FALSE \in BOOLEAN
    BY DEF Faults
  <2>2. QED BY <1>1, <1>3, <1>5, <1>6, <2>1, NodeForms
<1>8. /\ o.heap[a].kind = "ID3" /\ o.heap[a].var = c /\ o.heap[a].ea = IsEa(t)
  BY <1>4, <1>5 DEF New3Id, Address
<1>9. node.addr = a /\ node.type = t /\ node.cell = c
  BY <1>7 DEF Forms
<1>10. Shaped(o, node)
  BY <1>6, <1>8, <1>9 DEF Shaped, IsMem
<1>11. ASSUME Fair(Out, start, text) PROVE Denotes(o, text, node)
  <2>1. Final(start, o).mem = text
    BY <1>3, <1>4, <1>11 DEF Adds, Agree, Fair
  <2>2. QED BY <1>6, <1>8, <1>9, <2>1 DEF Denotes, Den, Denoted, ValueIn, IsMem
<1>12. QED BY <1>1, <1>2, <1>4, <1>5, <1>7, <1>10, <1>11, NullaryAdds

LEMMA LiteralKeeps == ASSUME IInv, Distinct(stack), Literal PROVE IInv'
<1>1. PICK c, o, node : c \in {0, 1} /\ o = With(Out, New3Const(c)) /\ node = Node(Int4, None, c, Last(o)) /\ Reduced(0, o, node)
  BY DEF Literal
<1>2. phase = "expression" /\ Pure /\ UNCHANGED fault
  BY DEF Literal, Reduces, Waits
<1>3. Good(Out) /\ active \in BOOLEAN /\ start \in Memories /\ Adds(Out, Out) /\ c \in Int
  BY <1>1, AddsSelf DEF IInv, Structure, Sound
<1>4. /\ Adds(Out, o) /\ Ready(o, Last(o)) /\ ~IsMem(o, Last(o)) /\ Lost(o) = Lost(Out)
      /\ o.heap[Last(o)].kind = "CON" /\ \A mem \in Memories : Den(o, mem, Last(o)) = c
  BY <1>1, <1>3, NewConstAdds
<1>5. PICK a : a = Last(o)
  OBVIOUS
<1>6. a \in Nat /\ Int4 \in Types /\ None \in Int
  BY <1>4, <1>5 DEF Ready, Places, Int4, Type, Types, None
<1>7. Forms(node, Int4, None, c, a, "none", FALSE)
  <2>1. "none" \in Faults /\ FALSE \in BOOLEAN
    BY DEF Faults
  <2>2. QED BY <1>1, <1>3, <1>5, <1>6, <2>1, NodeForms
<1>8. o.heap[a].var = None
  <2>1. o.heap[a] \in Addresses
    BY <1>4, <1>5 DEF Adds, Good, Outs, Ready, Places
  <2>2. QED BY <1>4, <1>5, <2>1 DEF Addresses
<1>9. node.addr = a /\ node.type = Int4 /\ node.cell = None /\ node.val = c
  BY <1>7 DEF Forms
<1>10. Shaped(o, node)
  BY <1>4, <1>5, <1>8, <1>9 DEF Shaped, IsStruct, Int4, Type
<1>11. Denotes(o, text, node)
  BY <1>3, <1>4, <1>5, <1>9 DEF Denotes, ValueIn
<1>12. QED BY <1>1, <1>2, <1>4, <1>5, <1>7, <1>10, <1>11, NullaryAdds

(***************************************************************************)
(* Unary expressions.                                                      *)
(***************************************************************************)
LEMMA UnaryFacts ==
    ASSUME IInv, Distinct(stack), NEW production, Reduces(production, 1)
    PROVE  /\ Good(Out) /\ Adds(Out, Out) /\ start \in Memories /\ text \in Memories /\ active \in BOOLEAN
           /\ Ready(Out, Top.addr) /\ Top \in Nodes /\ Top.type \in Types /\ Top.cell \in Int /\ Top.val \in Int /\ Top.bad \in Faults
           /\ Top.unread \in BOOLEAN /\ Value(Top) \in Int /\ Top.addr \in Nat
<1>1. Good(Out) /\ start \in Memories /\ text \in Memories /\ active \in BOOLEAN /\ Ready(Out, Top.addr) /\ Top \in Nodes
  BY Operands
<1>2. Adds(Out, Out) /\ Value(Top) \in Int
  BY <1>1, AddsSelf, ValueIs DEF Value
<1>3. /\ Top.type \in Types /\ Top.cell \in Int /\ Top.val \in Int /\ Top.bad \in Faults /\ Top.unread \in BOOLEAN /\ Top.addr \in Nat
  BY <1>1 DEF Nodes
<1>4. QED BY <1>1, <1>2, <1>3

LEMMA Int4Is == /\ Int4 \in Types /\ None \in Int /\ ~IsStruct(Int4) /\ ~IsArray(Int4) /\ ~IsPointer(Int4) /\ ~IsEa(Int4)
                /\ "none" \in Faults /\ FALSE \in BOOLEAN
BY DEF Int4, Type, Types, None, IsStruct, IsArray, IsPointer, IsEa, Faults

LEMMA NoValueIs == ASSUME active \in BOOLEAN PROVE Forms(NoValue, Int4, None, 0, None, "comma", FALSE)
<1>1. Int4 \in Types /\ None \in Int /\ None \in Nat /\ 0 \in Int /\ "comma" \in Faults /\ FALSE \in BOOLEAN
  BY Int4Is DEF None, Faults
<1>2. PICK n : n = NoValue
  OBVIOUS
<1>3. n = [Node(Int4, None, 0, None) EXCEPT !.bad = "comma"]
  BY <1>2 DEF NoValue
<1>4. QED BY <1>1, <1>2, <1>3, NodeForms

\* What loading, a new constant and a new temporary give, by name.
Loads(o, w, a, l) ==
    /\ Adds(o, l.o) /\ Adds(w, l.o) /\ Ready(l.o, l.at) /\ ~IsMem(l.o, l.at)
    /\ IF IsMem(w, a) THEN Lost(l.o) \subseteq Lost(w) \ {a} /\ l.o.heap[l.at].var = None ELSE l.o = w /\ l.at = a
    /\ \A mem \in Memories : Final(mem, o).skip = None => Den(l.o, mem, l.at) = Reading(w, mem, a)
Computes(o, w, x, op, a1, a2, d) ==
    /\ Adds(o, d) /\ Adds(w, d) /\ Ready(d, Last(d)) /\ d.heap[Last(d)].kind = x.kind /\ d.heap[Last(d)].var = None
    /\ (IsMem(d, Last(d)) <=> x = NewMem) /\ Lost(d) \subseteq Lost(w) \ {a1, a2}
    /\ \A mem \in Memories : Final(mem, o).skip = None => Den(d, mem, Last(d)) = Made(w, mem, op, a1, a2)
Constants(o, w, c, d) ==
    /\ Adds(o, d) /\ Adds(w, d) /\ Ready(d, Last(d)) /\ ~IsMem(d, Last(d)) /\ Lost(d) = Lost(w)
    /\ d.heap[Last(d)].kind = "CON" /\ d.heap[Last(d)].val = c
    /\ \A mem \in Memories : Den(d, mem, Last(d)) = c

LEMMA Loading == ASSUME NEW o, Good(o), NEW w, Adds(o, w), NEW a, Ready(w, a), NEW l, l = Loaded(w, a) PROVE Loads(o, w, a, l)
BY LoadedAdds DEF Loads
LEMMA Copying ==
    ASSUME NEW o, Good(o), NEW w, Adds(o, w), NEW x \in {NewTemp, NewMem}, NEW op \in Copies, NEW a1, Ready(w, a1),
           NEW d, d = Computed(w, x, op, a1, None)
    PROVE  Computes(o, w, x, op, a1, None, d)
<1>1. op \in Copies \cup Binaries /\ op \notin Binaries
  BY DEF Copies, Binaries
<1>2. QED BY <1>1, ComputedMakes DEF Computes
LEMMA Combining ==
    ASSUME NEW o, Good(o), NEW w, Adds(o, w), NEW x \in {NewTemp, NewMem}, NEW op \in Binaries, NEW a1, Ready(w, a1),
           NEW a2, Ready(w, a2), NEW d, d = Computed(w, x, op, a1, a2)
    PROVE  Computes(o, w, x, op, a1, a2, d)
<1>1. op \in Copies \cup Binaries
  BY DEF Copies, Binaries
<1>2. QED BY <1>1, ComputedMakes DEF Computes
LEMMA Naming ==
    ASSUME NEW o, Good(o), NEW w, Adds(o, w), NEW c \in Int, NEW d, d = With(w, New3Const(c)) PROVE Constants(o, w, c, d)
BY NewConstAdds DEF Constants

\* What was there before is there still.
Stays(w, d, a) == Ready(d, a) /\ Den(d, start, a) = Den(w, start, a) /\ Reading(d, start, a) = Reading(w, start, a) /\ (IsMem(d, a) <=> IsMem(w, a))
LEMMA Staying ==
    ASSUME start \in Memories, NEW w, NEW d, Good(w), Adds(w, d), NEW a, Ready(w, a) PROVE Stays(w, d, a)
<1>1. Ready(d, a)
  BY AddsReady
<1>2. a \in Places(w.heap)
  BY DEF Ready
<1>3. QED BY <1>1, <1>2, AddsReads DEF Stays

LEMMA KindsDiffer == NewTemp # NewMem
BY DEF NewTemp, NewMem, Address

\* Whose address holds a value; whose address holds an object's address.
Temporary(o, a) == Ready(o, a) /\ o.heap[a].var = None /\ ~IsMem(o, a)
Referring(o, a) == Ready(o, a) /\ o.heap[a].var = None /\ IsMem(o, a)

Evaluates1(W, o, addr, v) ==
    (active /\ Fair(Out, start, text) /\ Fits(Out, start, text, Top) /\ \A w \in W : w = "none") => Den(o, start, addr) = v
Blames1(W) == W \subseteq Faults /\ Blame(W) /\ Top.bad \in W

LEMMA TempUnary ==
    ASSUME IInv, Distinct(stack), NEW production, Reduces(production, 1), NEW o, NEW node, Reduced(1, o, node), Adds(Out, o),
           NEW type, NEW val, NEW addr, Forms(node, type, None, val, addr, "none", FALSE), Temporary(o, addr), ~IsStruct(type),
           Top.addr \notin Lost(o), NEW W, Blames1(W), Pure, Evaluates1(W, o, addr, val)
    PROVE  IInv'
<1>1. node.addr = addr /\ node.type = type /\ node.cell = None /\ node.val = val
  BY DEF Forms
<1>2. Shaped(o, node)
  BY <1>1 DEF Shaped, Temporary
<1>3. Den(o, start, addr) = val => Denotes(o, text, node)
  BY <1>1 DEF Denotes, Temporary, ValueIn
<1>4. UnaryFine(o, node, addr, "none", FALSE, W)
  BY <1>2, <1>3 DEF UnaryFine, Evaluates1
<1>5. Ready(o, addr) /\ W \subseteq Faults /\ Blame(W) /\ Top.bad \in W /\ "none" # "short-circuit"
  BY DEF Temporary, Blames1
<1>6. QED BY <1>4, <1>5, UnaryAdds

LEMMA MemUnary ==
    ASSUME IInv, Distinct(stack), NEW production, Reduces(production, 1), NEW o, NEW node, Reduced(1, o, node), Adds(Out, o),
           NEW type, NEW cell, NEW addr, Forms(node, type, cell, 0, addr, "none", FALSE), Referring(o, addr), ~IsArray(type),
           Plain(Top) /\ Shaped(Out, Top) /\ Top.known /\ active => cell > 0,
           Top.addr \notin Lost(o), NEW W, Blames1(W), Pure, Evaluates1(W, o, addr, cell)
    PROVE  IInv'
<1>1. node.addr = addr /\ node.type = type /\ node.cell = cell /\ node.known = active
  BY DEF Forms
<1>2. Plain(Top) /\ Shaped(Out, Top) /\ (active => Top.known) => Shaped(o, node)
  BY <1>1 DEF Shaped, Referring
<1>3. Den(o, start, addr) = cell => Denotes(o, text, node)
  BY <1>1 DEF Denotes, Referring
<1>4. UnaryFine(o, node, addr, "none", FALSE, W)
  BY <1>2, <1>3 DEF UnaryFine, Evaluates1
<1>5. Ready(o, addr) /\ W \subseteq Faults /\ Blame(W) /\ Top.bad \in W /\ "none" # "short-circuit"
  BY DEF Referring, Blames1
<1>6. QED BY <1>4, <1>5, UnaryAdds

LEMMA SignKeeps == ASSUME IInv, Distinct(stack), Sign PROVE IInv'
<1>1. PICK l, z, o, node, v :
         /\ v = -Value(Top) /\ l = Loaded(Out, Top.addr) /\ z = With(l.o, New3Const(0)) /\ o = Computed(z, NewTemp, "-", Last(z), l.at)
         /\ node = Node(Int4, None, v, Last(o)) /\ Reduced(1, o, node)
  BY DEF Sign
<1>2. Reduces("sign", 1) /\ Top.type = Int4 /\ Pure /\ Blame({Top.bad})
  BY DEF Sign
<1>3. /\ Good(Out) /\ Adds(Out, Out) /\ start \in Memories /\ active \in BOOLEAN
      /\ Ready(Out, Top.addr) /\ Top.bad \in Faults /\ Value(Top) \in Int
  BY <1>2, UnaryFacts
<1>4. Loads(Out, Out, Top.addr, l)
  BY <1>1, <1>3, Loading
<1>5. Constants(Out, l.o, 0, z)
  BY <1>1, <1>3, <1>4, Naming DEF Loads
<1>6. Good(l.o) /\ Adds(l.o, z) /\ Ready(l.o, l.at) /\ Adds(Out, z) /\ Ready(z, Last(z))
  BY <1>4, <1>5 DEF Loads, Constants, Adds
<1>7. Stays(l.o, z, l.at)
  BY <1>3, <1>6, Staying
<1>8. Computes(Out, z, NewTemp, "-", Last(z), l.at, o)
  BY <1>1, <1>3, <1>6, <1>7, Combining DEF Binaries, Stays
<1>9. PICK a : a = Last(o)
  OBVIOUS
<1>10. Temporary(o, a) /\ Adds(Out, o)
  BY <1>8, <1>9, KindsDiffer DEF Computes, Temporary
<1>11. Forms(node, Int4, None, v, a, "none", FALSE)
  <2>1. v \in Int /\ a \in Nat
    BY <1>1, <1>3, <1>10 DEF Temporary, Ready, Places
  <2>2. QED BY <1>1, <1>3, <1>9, <2>1, NodeForms, Int4Is
<1>12. Top.addr \notin Lost(o)
  BY <1>4, <1>5, <1>8 DEF Loads, Constants, Computes
<1>13. Evaluates1({Top.bad}, o, a, v)
  <2> SUFFICES ASSUME Fair(Out, start, text), Fits(Out, start, text, Top) PROVE Den(o, start, a) = v
    BY DEF Evaluates1
  <2>1. Reading(Out, start, Top.addr) = Value(Top) /\ Final(start, Out).skip = None
    BY <1>2, Int4Is DEF Fits, Fair, Value
  <2>2. Den(z, start, Last(z)) = 0 /\ Den(z, start, l.at) = Value(Top)
    BY <1>3, <1>4, <1>5, <1>7, <2>1 DEF Loads, Constants, Stays
  <2>3. Made(z, start, "-", Last(z), l.at) = Meaning("-", 0, Value(Top))
    BY <2>2 DEF Made
  <2>4. Meaning("-", 0, Value(Top)) = v
    BY <1>1, <1>3, Sums
  <2>5. QED BY <1>3, <1>8, <1>9, <2>1, <2>3, <2>4 DEF Computes
<1>14. Blames1({Top.bad})
  BY <1>2, <1>3 DEF Blames1
<1>15. QED BY <1>1, <1>2, <1>10, <1>11, <1>12, <1>13, <1>14, TempUnary, Int4Is

LEMMA AddressOfKeeps == ASSUME IInv, Distinct(stack), AddressOf PROVE IInv'
<1>1. PICK o, node, op, t :
         /\ t = PointerTo(Top.type) /\ op = (IF IsMem(Out, Top.addr) THEN "=" ELSE "la") /\ o = Computed(Out, NewTemp, op, Top.addr, None)
         /\ node = Node(t, None, Top.cell, Last(o)) /\ Reduced(1, o, node)
  BY DEF AddressOf
<1>2. /\ Reduces("address", 1) /\ Pure /\ Blame({Top.bad}) /\ Kind(Top) \in {"ID3", "MEM"}
  BY DEF AddressOf
<1>3. /\ Good(Out) /\ Adds(Out, Out) /\ start \in Memories /\ active \in BOOLEAN
      /\ Ready(Out, Top.addr) /\ Top.bad \in Faults /\ Top.cell \in Int /\ Top.type \in Types
  BY <1>2, UnaryFacts
<1>4. op \in Copies
  BY <1>1 DEF Copies
<1>8. Computes(Out, Out, NewTemp, op, Top.addr, None, o)
  BY <1>1, <1>3, <1>4, Copying
<1>9. PICK a : a = Last(o)
  OBVIOUS
<1>10. Temporary(o, a) /\ Adds(Out, o)
  BY <1>8, <1>9, KindsDiffer DEF Computes, Temporary
<1>11. t \in Types /\ ~IsStruct(t)
  BY <1>1, <1>3 DEF PointerTo, Type, Types, IsStruct
<1>12. Forms(node, t, None, Top.cell, a, "none", FALSE)
  <2>1. a \in Nat
    BY <1>10 DEF Temporary, Ready, Places
  <2>2. QED BY <1>1, <1>3, <1>9, <1>11, <2>1, NodeForms, Int4Is
<1>13. Top.addr \notin Lost(o)
  BY <1>8 DEF Computes
<1>14. Evaluates1({Top.bad}, o, a, Top.cell)
  <2> SUFFICES ASSUME Fair(Out, start, text), Fits(Out, start, text, Top) PROVE Den(o, start, a) = Top.cell
    BY DEF Evaluates1
  <2>1. Den(o, start, a) = Made(Out, start, op, Top.addr, None)
    BY <1>3, <1>8, <1>9 DEF Computes, Fair
  <2>2. CASE IsMem(Out, Top.addr)
    BY <1>1, <2>1, <2>2 DEF Made, Fits
  <2>3. CASE ~IsMem(Out, Top.addr)
    <3>1. Out.heap[Top.addr].kind = "ID3"
      BY <1>2, <2>3 DEF IsMem, Kind, Out
    <3>2. Out.heap[Top.addr] \in Addresses
      BY <1>3 DEF Good, Outs, Ready, Places
    <3>3. Top.cell = Out.heap[Top.addr].var
      BY <3>1, <3>2 DEF Addresses, Fits, Shaped
    <3>4. op = "la"
      BY <1>1, <2>3
    <3>5. QED BY <2>1, <3>3, <3>4 DEF Made
  <2>4. QED BY <2>2, <2>3
<1>15. Blames1({Top.bad})
  BY <1>2, <1>3 DEF Blames1
<1>16. QED BY <1>1, <1>2, <1>3, <1>10, <1>11, <1>12, <1>13, <1>14, <1>15, TempUnary

\* The object a pointer leads to.
Follows1(o, w, a, d) ==
    /\ Adds(o, d) /\ Referring(d, Last(d)) /\ Lost(d) \subseteq Lost(w) \ {a}
    /\ \A mem \in Memories : Final(mem, o).skip = None => Den(d, mem, Last(d)) = Reading(w, mem, a)
LEMMA Following ==
    ASSUME NEW o, Good(o), NEW w, Adds(o, w), NEW a, Ready(w, a),
           NEW d, d = Computed(w, NewMem, IF IsMem(w, a) THEN "()" ELSE "=", a, None)
    PROVE  Follows1(o, w, a, d)
<1>1. PICK op : op = (IF IsMem(w, a) THEN "()" ELSE "=") /\ d = Computed(w, NewMem, op, a, None)
  OBVIOUS
<1>2. op \in Copies
  BY <1>1 DEF Copies
<1>3. Computes(o, w, NewMem, op, a, None, d)
  BY <1>1, <1>2, Copying
<1>4. \A mem : Made(w, mem, op, a, None) = Reading(w, mem, a)
  BY <1>1 DEF Made, Reading
<1>5. QED BY <1>3, <1>4 DEF Computes, Follows1, Referring

Offsets(o, w, a, offset, d) ==
    /\ Adds(o, d) /\ Referring(d, Last(d)) /\ Lost(d) \subseteq Lost(w) \ {a}
    /\ \A mem \in Memories : Final(mem, o).skip = None => Den(d, mem, Last(d)) = Den(w, mem, a) + offset
LEMMA Offsetting ==
    ASSUME start \in Memories, NEW o, Good(o), NEW w, Adds(o, w), NEW a, Ready(w, a), NEW offset \in {0, Word},
           NEW d, d = Offset(w, a, offset, "=")
    PROVE  Offsets(o, w, a, offset, d)
<1>1. Good(w) /\ Adds(w, w) /\ \A mem \in Memories : Den(w, mem, a) \in Int
  <2>1. a \in Places(w.heap)
    BY DEF Ready
  <2>2. QED BY <2>1, DenIs, AddsSelf DEF Adds
<1>2. CASE offset = 0
  <2>1. d = Computed(w, NewMem, "=", a, None)
    BY <1>2 DEF Offset
  <2>2. Computes(o, w, NewMem, "=", a, None, d)
    BY <2>1, Copying DEF Copies
  <2>3. \A mem \in Memories : Made(w, mem, "=", a, None) = Den(w, mem, a) + offset
    BY <1>1, <1>2 DEF Made
  <2>4. QED BY <2>2, <2>3 DEF Computes, Offsets, Referring
<1>3. CASE offset # 0
  <2>1. PICK c : c = With(w, New3Const(offset)) /\ d = Computed(c, NewMem, "+", a, Last(c))
    BY <1>3 DEF Offset
  <2>2. offset \in Int
    BY DEF Word
  <2>3. Constants(o, w, offset, c)
    BY <2>1, <2>2, Naming
  <2>4. Ready(c, Last(c)) /\ Ready(c, a) /\ Adds(o, c) /\ \A mem \in Memories : Den(c, mem, a) = Den(w, mem, a)
    <3>1. Adds(w, c) /\ Adds(o, c) /\ Ready(c, Last(c)) /\ a \in Places(w.heap)
      BY <2>3 DEF Constants, Ready
    <3>2. Ready(c, a)
      BY <1>1, <3>1, AddsReady
    <3>3. QED BY <1>1, <3>1, <3>2, AddsReads
  <2>5. Computes(o, c, NewMem, "+", a, Last(c), d)
    BY <2>1, <2>4, Combining DEF Binaries
  <2>6. \A mem \in Memories : Made(c, mem, "+", a, Last(c)) = Den(w, mem, a) + offset
    <3> TAKE mem \in Memories
    <3>1. Made(c, mem, "+", a, Last(c)) = Meaning("+", Den(w, mem, a), offset)
      BY <2>3, <2>4 DEF Made, Constants
    <3>2. QED BY <1>1, <2>2, <3>1, Sums
  <2>7. QED BY <2>3, <2>5, <2>6 DEF Computes, Constants, Offsets, Referring
<1>4. QED BY <1>2, <1>3

LEMMA DereferenceKeeps == ASSUME IInv, Distinct(stack), Dereference PROVE IInv'
<1>1. PICK o, node, t, v :
         /\ t = Pointed(Top.type) /\ v = Value(Top) /\ o = Computed(Out, NewMem, IF IsMem(Out, Top.addr) THEN "()" ELSE "=", Top.addr, None)
         /\ node = Lvalue(t, v, Last(o)) /\ Reduced(1, o, node)
  BY DEF Dereference
<1>2. /\ Reduces("star", 1) /\ Pure /\ Blame({Top.bad}) /\ IsPointer(Top.type) /\ Legal(v)
  BY <1>1 DEF Dereference
<1>3. /\ Good(Out) /\ Adds(Out, Out) /\ start \in Memories /\ active \in BOOLEAN
      /\ Ready(Out, Top.addr) /\ Top.bad \in Faults /\ v \in Int /\ Top.type \in Types
  BY <1>1, <1>2, UnaryFacts
<1>4. Follows1(Out, Out, Top.addr, o)
  BY <1>1, <1>3, Following
<1>5. PICK a : a = Last(o)
  OBVIOUS
<1>6. Referring(o, a) /\ Adds(Out, o) /\ Top.addr \notin Lost(o)
  BY <1>4, <1>5 DEF Follows1
<1>7. t \in Types /\ ~IsArray(t) /\ ~IsStruct(Top.type)
  BY <1>1, <1>2, <1>3 DEF Pointed, Type, Types, IsPointer, IsArray, IsStruct
<1>8. Forms(node, t, v, 0, a, "none", FALSE)
  <2>1. a \in Nat /\ 0 \in Int
    BY <1>6 DEF Referring, Ready, Places
  <2>2. QED BY <1>1, <1>3, <1>5, <1>7, <2>1, NodeForms, Int4Is
<1>9. active => v > 0
  BY <1>2 DEF Legal, Cells
<1>10. Evaluates1({Top.bad}, o, a, v)
  <2> SUFFICES ASSUME Fair(Out, start, text), Fits(Out, start, text, Top) PROVE Den(o, start, a) = v
    BY DEF Evaluates1
  <2>1. Den(o, start, a) = Reading(Out, start, Top.addr)
    BY <1>3, <1>4, <1>5 DEF Follows1, Fair
  <2>2. QED BY <1>1, <1>7, <2>1 DEF Fits, Value
<1>11. Blames1({Top.bad})
  BY <1>2, <1>3 DEF Blames1
<1>12. QED BY <1>1, <1>2, <1>3, <1>6, <1>7, <1>8, <1>9, <1>10, <1>11, MemUnary

LEMMA MemberKeeps == ASSUME IInv, Distinct(stack), Member PROVE IInv'
<1>1. PICK offset, o, node, c :
         /\ offset \in {0, Word} /\ c = Top.cell + offset /\ o = Offset(Out, Top.addr, offset, "=")
         /\ node = Lvalue(Int4, c, Last(o)) /\ Reduced(1, o, node)
  BY DEF Member
<1>2. /\ Reduces("member", 1) /\ Pure /\ Blame({Top.bad}) /\ IsStruct(Top.type)
  BY DEF Member
<1>3. /\ Good(Out) /\ Adds(Out, Out) /\ start \in Memories /\ active \in BOOLEAN
      /\ Ready(Out, Top.addr) /\ Top.bad \in Faults /\ Top.cell \in Int /\ offset \in Nat /\ c \in Int
  BY <1>1, <1>2, UnaryFacts DEF Word
<1>4. Offsets(Out, Out, Top.addr, offset, o)
  BY <1>1, <1>3, Offsetting
<1>5. PICK a : a = Last(o)
  OBVIOUS
<1>6. Referring(o, a) /\ Adds(Out, o) /\ Top.addr \notin Lost(o)
  BY <1>4, <1>5 DEF Offsets
<1>8. Forms(node, Int4, c, 0, a, "none", FALSE)
  <2>1. a \in Nat /\ 0 \in Int
    BY <1>6 DEF Referring, Ready, Places
  <2>2. QED BY <1>1, <1>3, <1>5, <2>1, NodeForms, Int4Is
<1>9. ASSUME Shaped(Out, Top), Top.known PROVE Top.cell > 0
  <2>1. Out.heap[Top.addr].var \in Nat
    BY <1>3 DEF Good, Outs, Ready, Places, Addresses
  <2>2. QED BY <1>2, <1>9, <2>1 DEF Shaped, None
<1>c. ASSUME Shaped(Out, Top), Top.known PROVE c > 0
  BY <1>1, <1>3, <1>9, <1>c
<1>10. Evaluates1({Top.bad}, o, a, c)
  <2> SUFFICES ASSUME Fair(Out, start, text), Fits(Out, start, text, Top) PROVE Den(o, start, a) = c
    BY DEF Evaluates1
  <2>1. Den(o, start, a) = Den(Out, start, Top.addr) + offset
    BY <1>3, <1>4, <1>5 DEF Offsets, Fair
  <2>2. Top.cell > 0
    BY <1>9 DEF Fits
  <2>3. Den(Out, start, Top.addr) = Top.cell
    BY <1>2, <2>2 DEF Fits, ValueIn, IsEa, None
  <2>4. QED BY <1>1, <2>1, <2>3
<1>11. Blames1({Top.bad})
  BY <1>2, <1>3 DEF Blames1
<1>12. QED BY <1>1, <1>2, <1>3, <1>6, <1>8, <1>c, <1>10, <1>11, MemUnary, Int4Is

LEMMA ArrowKeeps == ASSUME IInv, Distinct(stack), Arrow PROVE IInv'
<1>1. PICK offset, o, node, c :
         /\ offset \in {0, Word} /\ c = Value(Top) + offset
         /\ o = IF offset = 0 THEN Computed(Out, NewMem, IF IsMem(Out, Top.addr) THEN "()" ELSE "=", Top.addr, None)
                ELSE LET l == Loaded(Out, Top.addr) IN Offset(l.o, l.at, offset, "=")
         /\ Legal(c) /\ node = Lvalue(Int4, c, Last(o)) /\ Reduced(1, o, node)
  BY DEF Arrow
<1>2. /\ Reduces("arrow", 1) /\ Pure /\ Blame({Top.bad}) /\ ~IsStruct(Top.type)
  BY DEF Arrow, IsStruct, Type
<1>3. /\ Good(Out) /\ Adds(Out, Out) /\ start \in Memories /\ active \in BOOLEAN
      /\ Ready(Out, Top.addr) /\ Top.bad \in Faults /\ Value(Top) \in Int /\ offset \in Nat /\ c \in Int
  BY <1>1, <1>2, UnaryFacts DEF Word
<1>4. /\ Referring(o, Last(o)) /\ Adds(Out, o) /\ Top.addr \notin Lost(o)
      /\ Final(start, Out).skip = None => Den(o, start, Last(o)) = Reading(Out, start, Top.addr) + offset
  <2>1. CASE offset = 0
    <3>1. Follows1(Out, Out, Top.addr, o)
      BY <1>1, <1>3, <2>1, Following
    <3>2. Reading(Out, start, Top.addr) \in Int
      BY <1>3, ReadingIs DEF Ready
    <3>3. QED BY <1>3, <2>1, <3>1, <3>2 DEF Follows1
  <2>2. CASE offset # 0
    <3>1. PICK l : l = Loaded(Out, Top.addr) /\ o = Offset(l.o, l.at, offset, "=")
      BY <1>1, <2>2
    <3>2. Loads(Out, Out, Top.addr, l)
      BY <1>3, <3>1, Loading
    <3>3. Adds(Out, l.o) /\ Ready(l.o, l.at)
      BY <3>2 DEF Loads
    <3>4. Offsets(Out, l.o, l.at, offset, o)
      BY <1>1, <1>3, <3>1, <3>3, Offsetting
    <3>5. QED BY <1>3, <3>2, <3>4 DEF Offsets, Loads
  <2>3. QED BY <2>1, <2>2
<1>5. PICK a : a = Last(o)
  OBVIOUS
<1>8. Forms(node, Int4, c, 0, a, "none", FALSE)
  <2>1. a \in Nat /\ 0 \in Int
    BY <1>4, <1>5 DEF Referring, Ready, Places
  <2>2. QED BY <1>1, <1>3, <1>5, <2>1, NodeForms, Int4Is
<1>9. active => c > 0
  BY <1>1 DEF Legal, Cells
<1>10. Evaluates1({Top.bad}, o, a, c)
  <2> SUFFICES ASSUME Fair(Out, start, text), Fits(Out, start, text, Top) PROVE Den(o, start, a) = c
    BY DEF Evaluates1
  <2>1. Den(o, start, a) = Reading(Out, start, Top.addr) + offset
    BY <1>4, <1>5 DEF Fair
  <2>2. QED BY <1>1, <1>2, <2>1 DEF Fits, Value
<1>11. Blames1({Top.bad})
  BY <1>2, <1>3 DEF Blames1
<1>12. QED BY <1>1, <1>2, <1>3, <1>4, <1>5, <1>8, <1>9, <1>10, <1>11, MemUnary, Int4Is

LEMMA CastKeeps == ASSUME IInv, Distinct(stack), Cast PROVE IInv'
<1>1. PICK l, node :
         /\ l = Loaded(Out, Top.addr) /\ Reduced(1, l.o, node)
         /\ node = IF IsMem(Out, Top.addr) THEN Node(Int4, None, Value(Top), l.at)
                   ELSE [Node(Int4, Top.cell, Top.val, l.at) EXCEPT !.unread = Top.unread]
  BY DEF Cast
<1>2. /\ Reduces("cast", 1) /\ Pure /\ Blame({Top.bad}) /\ Top.type = Int4
  BY DEF Cast
<1>3. /\ Good(Out) /\ Adds(Out, Out) /\ start \in Memories /\ active \in BOOLEAN /\ Top.unread \in BOOLEAN
      /\ Ready(Out, Top.addr) /\ Top.bad \in Faults /\ Value(Top) \in Int /\ Top.cell \in Int /\ Top.val \in Int
  BY <1>2, UnaryFacts
<1>4. Loads(Out, Out, Top.addr, l)
  BY <1>1, <1>3, Loading
<1>5. PICK o, a : o = l.o /\ a = l.at
  OBVIOUS
<1>6. Adds(Out, o) /\ Ready(o, a) /\ ~IsMem(o, a) /\ a \in Nat
  BY <1>4, <1>5 DEF Loads, Ready, Places
<1>7. Blames1({Top.bad})
  BY <1>2, <1>3 DEF Blames1
<1>8. CASE IsMem(Out, Top.addr)
  <2>1. node = Node(Int4, None, Value(Top), a) /\ Temporary(o, a) /\ Top.addr \notin Lost(o)
    BY <1>1, <1>4, <1>5, <1>6, <1>8 DEF Loads, Temporary
  <2>2. PICK v : v = Value(Top)
    OBVIOUS
  <2>3. Forms(node, Int4, None, v, a, "none", FALSE)
    BY <1>3, <1>6, <2>1, <2>2, NodeForms, Int4Is
  <2>4. Evaluates1({Top.bad}, o, a, v)
    <3> SUFFICES ASSUME Fair(Out, start, text), Fits(Out, start, text, Top) PROVE Den(o, start, a) = v
      BY DEF Evaluates1
    <3>1. Den(o, start, a) = Reading(Out, start, Top.addr)
      BY <1>3, <1>4, <1>5 DEF Loads, Fair
    <3>2. QED BY <1>2, <2>2, <3>1, Int4Is DEF Fits, Value
  <2>5. QED BY <1>1, <1>2, <1>3, <1>5, <1>6, <1>7, <2>1, <2>3, <2>4, TempUnary, Int4Is
<1>9. CASE ~IsMem(Out, Top.addr)
  <2>1. o = Out /\ a = Top.addr /\ node = [Node(Int4, Top.cell, Top.val, a) EXCEPT !.unread = Top.unread]
    BY <1>1, <1>4, <1>5, <1>9 DEF Loads
  <2>2. Forms(node, Int4, Top.cell, Top.val, a, "none", Top.unread)
    BY <1>3, <1>6, <2>1, NodeForms, Int4Is
  <2>3. node.addr = Top.addr /\ node.type = Top.type /\ node.cell = Top.cell /\ node.val = Top.val
    BY <1>2, <2>1, <2>2 DEF Forms
  <2>4. Shaped(Out, Top) => Shaped(o, node)
    BY <1>9, <2>1, <2>3 DEF Shaped
  <2>5. Fits(Out, start, text, Top) => Denotes(o, text, node)
    BY <1>9, <2>1, <2>3 DEF Fits, Denotes, ValueIn
  <2>6. UnaryFine(o, node, a, "none", Top.unread, {Top.bad})
    BY <2>1, <2>4, <2>5 DEF UnaryFine
  <2>7. {Top.bad} \subseteq Faults /\ Top.bad \in {Top.bad} /\ "none" # "short-circuit"
    BY <1>3
  <2>8. QED BY <1>1, <1>2, <1>5, <1>6, <2>2, <2>6, <2>7, UnaryAdds
<1>10. QED BY <1>8, <1>9

(***************************************************************************)
(* Binary expressions.                                                     *)
(***************************************************************************)
LEMMA BinaryFacts ==
    ASSUME IInv, Distinct(stack), NEW production, Reduces(production, 2)
    PROVE  /\ Good(Out) /\ Adds(Out, Out) /\ start \in Memories /\ text \in Memories /\ active \in BOOLEAN
           /\ Ready(Out, Top.addr) /\ Top \in Nodes /\ Top.type \in Types /\ Top.bad \in Faults /\ Value(Top) \in Int /\ Top.addr \in Nat
           /\ Ready(Out, Second.addr) /\ Second \in Nodes /\ Second.type \in Types /\ Second.bad \in Faults /\ Value(Second) \in Int
           /\ Second.addr \in Nat /\ Second.cell \in Int
<1>1. /\ Good(Out) /\ start \in Memories /\ text \in Memories /\ active \in BOOLEAN /\ Ready(Out, Top.addr) /\ Top \in Nodes
      /\ Ready(Out, Second.addr) /\ Second \in Nodes
  BY Operands
<1>2. Adds(Out, Out) /\ Value(Top) \in Int /\ Value(Second) \in Int
  BY <1>1, AddsSelf, ValueIs DEF Value
<1>3. /\ Top.type \in Types /\ Top.bad \in Faults /\ Top.addr \in Nat
      /\ Second.type \in Types /\ Second.bad \in Faults /\ Second.addr \in Nat /\ Second.cell \in Int
  BY <1>1 DEF Nodes
<1>4. QED BY <1>1, <1>2, <1>3

Blames2(W) == W \subseteq Faults /\ Blame(W) /\ Top.bad \in W /\ Second.bad \in W
Evaluates2(W, o, addr, v) ==
    (/\ active /\ Fair(Out, start, text) /\ Fits(Out, start, text, Top) /\ Fits(Out, start, text, Second)
     /\ \A w \in W : w = "none") => Den(o, start, addr) = v

LEMMA TempBinary ==
    ASSUME IInv, Distinct(stack), NEW production, Reduces(production, 2), NEW o, NEW node, Reduced(2, o, node), Adds(Out, o),
           NEW type, NEW val, NEW addr, Forms(node, type, None, val, addr, "none", FALSE), Temporary(o, addr), ~IsStruct(type),
           Top.addr \notin Lost(o), Second.addr \notin Lost(o), NEW W, Blames2(W), Pure, Evaluates2(W, o, addr, val)
    PROVE  IInv'
<1>1. node.addr = addr /\ node.type = type /\ node.cell = None /\ node.val = val
  BY DEF Forms
<1>2. Shaped(o, node)
  BY <1>1 DEF Shaped, Temporary
<1>3. Den(o, start, addr) = val => Denotes(o, text, node)
  BY <1>1 DEF Denotes, Temporary, ValueIn
<1>4. BinaryFine(o, node, "none", W)
  BY <1>2, <1>3 DEF BinaryFine, Evaluates2
<1>5. Ready(o, addr) /\ W \subseteq Faults /\ Blame(W) /\ Top.bad \in W /\ Second.bad \in W /\ "none" # "short-circuit"
  BY DEF Temporary, Blames2
<1>6. QED BY <1>4, <1>5, BinaryAdds

LEMMA MemBinary ==
    ASSUME IInv, Distinct(stack), NEW production, Reduces(production, 2), NEW o, NEW node, Reduced(2, o, node), Adds(Out, o),
           NEW type, NEW cell, NEW addr, Forms(node, type, cell, 0, addr, "none", FALSE), Referring(o, addr), ~IsArray(type),
           active => cell > 0,
           NEW W, Blames2(W), Pure, (\A w \in W : w = "none") => Top.addr \notin Lost(o) /\ Second.addr \notin Lost(o),
           Plain(Second) /\ Shaped(Out, Second) => Evaluates2(W, o, addr, cell)
    PROVE  IInv'
<1>1. node.addr = addr /\ node.type = type /\ node.cell = cell /\ node.known = active
  BY DEF Forms
<1>2. Shaped(o, node)
  BY <1>1 DEF Shaped, Referring
<1>3. Den(o, start, addr) = cell => Denotes(o, text, node)
  BY <1>1 DEF Denotes, Referring
<1>4. BinaryFine(o, node, "none", W)
  BY <1>2, <1>3 DEF BinaryFine, Evaluates2
<1>5. Ready(o, addr) /\ W \subseteq Faults /\ Blame(W) /\ Top.bad \in W /\ Second.bad \in W /\ "none" # "short-circuit"
  BY DEF Referring, Blames2
<1>6. QED BY <1>4, <1>5, BinaryAdds

\* Two operands, both loaded.
BothLoads(x, y, b) ==
    /\ Adds(Out, b.o) /\ Ready(b.o, b.first) /\ Ready(b.o, b.second)
    /\ x \notin Lost(b.o) \/ b.first = x
    /\ y \notin Lost(b.o) \/ b.second = y
    /\ Final(start, Out).skip = None => Den(b.o, start, b.first) = Reading(Out, start, x) /\ Den(b.o, start, b.second) = Reading(Out, start, y)

LEMMA BothLoading ==
    ASSUME start \in Memories, Good(Out), NEW x, Ready(Out, x), NEW y, Ready(Out, y), NEW b, b = BothLoaded(x, y)
    PROVE  BothLoads(x, y, b)
<1>1. PICK f, s : f = Loaded(Out, x) /\ s = Loaded(f.o, y) /\ b = [o |-> s.o, first |-> f.at, second |-> s.at]
  BY DEF BothLoaded
<1>2. b.o = s.o /\ b.first = f.at /\ b.second = s.at
  BY <1>1
<1>3. Adds(Out, Out) /\ Loads(Out, Out, x, f)
  BY <1>1, AddsSelf, Loading
<1>4. Adds(Out, f.o) /\ Good(f.o) /\ Ready(f.o, f.at)
  BY <1>3 DEF Loads, Adds
<1>5. Stays(Out, f.o, y)
  BY <1>4, Staying
<1>6. Loads(Out, f.o, y, s)
  BY <1>1, <1>4, <1>5, Loading DEF Stays
<1>7. Stays(f.o, s.o, f.at)
  BY <1>4, <1>6, Staying DEF Loads
<1>8. x \notin Lost(s.o) \/ f.at = x
  BY <1>3, <1>6 DEF Loads, Adds
<1>9. y \notin Lost(s.o) \/ s.at = y
  BY <1>6 DEF Loads
<1>10. Final(start, Out).skip = None => Den(s.o, start, f.at) = Reading(Out, start, x) /\ Den(s.o, start, s.at) = Reading(Out, start, y)
  BY <1>3, <1>5, <1>6, <1>7 DEF Loads, Stays
<1>11. QED BY <1>2, <1>6, <1>7, <1>8, <1>9, <1>10 DEF BothLoads, Loads, Stays

LEMMA OperatorKeeps ==
    ASSUME IInv, Distinct(stack), NEW op \in Binaries, NEW leftFirst \in BOOLEAN, Operator(op, leftFirst), ~IsStruct(Top.type), ~IsStruct(Second.type)
    PROVE  IInv'
<1>1. PICK b, x, y, o, node, v :
         /\ b = (IF leftFirst THEN BothLoaded(Second.addr, Top.addr) ELSE BothLoaded(Top.addr, Second.addr))
         /\ IF leftFirst THEN x = b.first /\ y = b.second ELSE x = b.second /\ y = b.first
         /\ o = Computed(b.o, NewTemp, op, x, y) /\ v = Meaning(op, Value(Second), Value(Top))
         /\ node = Node(Int4, None, v, Last(o)) /\ Reduced(2, o, node)
  BY DEF Operator
<1>2. Reduces(op, 2) /\ Pure /\ Blame({Second.bad, Top.bad})
  BY DEF Operator
<1>3. /\ Good(Out) /\ Adds(Out, Out) /\ start \in Memories /\ active \in BOOLEAN
      /\ Ready(Out, Top.addr) /\ Top.bad \in Faults /\ Value(Top) \in Int
      /\ Ready(Out, Second.addr) /\ Second.bad \in Faults /\ Value(Second) \in Int
  BY <1>2, BinaryFacts
<1>4. /\ Adds(Out, b.o) /\ Ready(b.o, x) /\ Ready(b.o, y)
      /\ Second.addr \notin Lost(b.o) \/ x = Second.addr
      /\ Top.addr \notin Lost(b.o) \/ y = Top.addr
      /\ Final(start, Out).skip = None => Den(b.o, start, x) = Reading(Out, start, Second.addr) /\ Den(b.o, start, y) = Reading(Out, start, Top.addr)
  <2>1. CASE leftFirst
    <3>1. BothLoads(Second.addr, Top.addr, b)
      BY <1>1, <1>3, <2>1, BothLoading
    <3>2. QED BY <1>1, <2>1, <3>1 DEF BothLoads
  <2>2. CASE ~leftFirst
    <3>1. BothLoads(Top.addr, Second.addr, b)
      BY <1>1, <1>3, <2>2, BothLoading
    <3>2. QED BY <1>1, <2>2, <3>1 DEF BothLoads
  <2>3. QED BY <2>1, <2>2
<1>5. Computes(Out, b.o, NewTemp, op, x, y, o)
  BY <1>1, <1>3, <1>4, Combining
<1>6. PICK a : a = Last(o)
  OBVIOUS
<1>7. Temporary(o, a) /\ Adds(Out, o)
  BY <1>5, <1>6, KindsDiffer DEF Computes, Temporary
<1>8. Forms(node, Int4, None, v, a, "none", FALSE)
  <2>1. v \in Int /\ a \in Nat
    BY <1>1, <1>3, <1>7, MeaningIs DEF Temporary, Ready, Places
  <2>2. QED BY <1>1, <1>3, <1>6, <2>1, NodeForms, Int4Is
<1>9. Top.addr \notin Lost(o) /\ Second.addr \notin Lost(o)
  BY <1>4, <1>5 DEF Computes
<1>10. Evaluates2({Second.bad, Top.bad}, o, a, v)
  <2> SUFFICES ASSUME Fair(Out, start, text), Fits(Out, start, text, Top), Fits(Out, start, text, Second) PROVE Den(o, start, a) = v
    BY DEF Evaluates2
  <2>1. Reading(Out, start, Top.addr) = Value(Top) /\ Reading(Out, start, Second.addr) = Value(Second) /\ Final(start, Out).skip = None
    BY DEF Fits, Fair, Value
  <2>2. Made(b.o, start, op, x, y) = v
    <3>1. Den(b.o, start, x) = Value(Second) /\ Den(b.o, start, y) = Value(Top)
      BY <1>4, <2>1
    <3>2. op \notin {"=", "()s", "()", "la", "!"}
      BY DEF Binaries
    <3>3. QED BY <1>1, <3>1, <3>2 DEF Made
  <2>3. QED BY <1>3, <1>5, <1>6, <2>1, <2>2 DEF Computes
<1>11. Blames2({Second.bad, Top.bad})
  BY <1>2, <1>3 DEF Blames2
<1>12. QED BY <1>1, <1>2, <1>7, <1>8, <1>9, <1>10, <1>11, TempBinary, Int4Is

\* An index times the size of an element.
Scales(a, t) ==
    /\ Adds(Out, t) /\ Ready(t, Last(t)) /\ a \notin Lost(t)
    /\ Final(start, Out).skip = None => Den(t, start, Last(t)) = Word * Den(Out, start, a)

LEMMA Scaling ==
    ASSUME start \in Memories, Sound(Out), NEW a, Ready(Out, a), NEW t, t = Scaled(Out, a) PROVE Scales(a, t)
<1>1. Good(Out) /\ Adds(Out, Out) /\ a \in Places(Out.heap) /\ Out.heap[a] \in Addresses /\ Word \in Int
  BY AddsSelf DEF Sound, Ready, Good, Outs, Places, Word
<1>2. CASE Out.heap[a].kind = "CON"
  <2>1. PICK c : c = Word * Out.heap[a].val /\ t = With(Out, New3Const(c))
    BY <1>2 DEF Scaled
  <2>2. c \in Int
    BY <1>1, <2>1 DEF Addresses
  <2>3. Constants(Out, Out, c, t)
    BY <1>1, <2>1, <2>2, Naming
  <2>4. Den(Out, start, a) = Out.heap[a].val
    BY <1>2 DEF Den, Denoted
  <2>5. a \notin Lost(Out)
    BY <1>2 DEF Sound
  <2>6. QED BY <2>1, <2>3, <2>4, <2>5 DEF Constants, Scales
<1>3. CASE Out.heap[a].kind # "CON"
  <2>1. PICK c : c = With(Out, New3Const(Word)) /\ t = Computed(c, NewTemp, "*", a, Last(c))
    BY <1>3 DEF Scaled
  <2>2. Constants(Out, Out, Word, c)
    BY <1>1, <2>1, Naming
  <2>3. Stays(Out, c, a)
    BY <1>1, <2>2, Staying DEF Constants
  <2>4. Computes(Out, c, NewTemp, "*", a, Last(c), t)
    BY <1>1, <2>1, <2>2, <2>3, Combining DEF Binaries, Constants, Stays
  <2>5. Made(c, start, "*", a, Last(c)) = Meaning("*", Den(Out, start, a), Word)
    BY <2>2, <2>3 DEF Made, Constants, Stays
  <2>6. Meaning("*", Den(Out, start, a), Word) = Word * Den(Out, start, a)
    <3>1. Den(Out, start, a) \in Int
      BY <1>1, DenIs
    <3>2. Meaning("*", Den(Out, start, a), Word) = Den(Out, start, a) * Word
      BY <1>1, <3>1, Sums
    <3>3. QED BY <1>1, <3>1, <3>2 DEF Word
  <2>7. QED BY <2>4, <2>5, <2>6 DEF Computes, Scales
<1>4. QED BY <1>2, <1>3

LEMMA IndexKeeps == ASSUME IInv, Distinct(stack), Index PROVE IInv'
<1>1. PICK t1, base, o, node, c, t, W :
         /\ t1 = Scaled(Out, Top.addr)
         /\ base = IF IsArray(Second.type) \/ ~IsMem(Out, Second.addr) THEN [o |-> t1, at |-> Second.addr]
                   ELSE LET t2 == Computed(t1, NewMem, "()", Second.addr, None) IN [o |-> t2, at |-> Last(t2)]
         /\ o = Computed(base.o, NewMem, "+", base.at, Last(t1)) /\ c = Value(Second) + Word * Value(Top)
         /\ Legal(c) /\ t = Pointed(Second.type) /\ node = Lvalue(t, c, Last(o)) /\ Reduced(2, o, node)
         /\ W = {Second.bad, Top.bad, IF IsMem(Out, Top.addr) THEN "address" ELSE "none"} /\ Blame(W)
  BY DEF Index
<1>2. Reduces("index", 2) /\ Pure /\ IsPointer(Second.type)
  BY DEF Index
<1>3. /\ Good(Out) /\ Sound(Out) /\ Adds(Out, Out) /\ start \in Memories /\ active \in BOOLEAN
      /\ Ready(Out, Top.addr) /\ Top.bad \in Faults /\ Value(Top) \in Int
      /\ Ready(Out, Second.addr) /\ Second.bad \in Faults /\ Value(Second) \in Int /\ Second.type \in Types
  BY <1>2, BinaryFacts, Operands
<1>4. Scales(Top.addr, t1)
  BY <1>1, <1>3, Scaling
<1>5. Good(t1) /\ Adds(Out, t1) /\ Ready(t1, Last(t1)) /\ Top.addr \notin Lost(t1)
  BY <1>4 DEF Scales, Adds
<1>6. Stays(Out, t1, Second.addr)
  BY <1>3, <1>5, Staying
<1>7. /\ Adds(Out, base.o) /\ Ready(base.o, base.at) /\ Ready(base.o, Last(t1)) /\ Lost(base.o) \subseteq Lost(t1)
      /\ Second.addr \notin Lost(base.o) \/ base.at = Second.addr
      /\ Final(start, Out).skip = None =>
            /\ Den(base.o, start, Last(t1)) = Den(t1, start, Last(t1))
            /\ Den(base.o, start, base.at) = IF IsArray(Second.type) THEN Den(Out, start, Second.addr) ELSE Reading(Out, start, Second.addr)
  <2>1. CASE IsArray(Second.type) \/ ~IsMem(Out, Second.addr)
    <3>1. base.o = t1 /\ base.at = Second.addr
      BY <1>1, <2>1
    <3>2. Reading(Out, start, Second.addr) = Den(Out, start, Second.addr) \/ IsArray(Second.type)
      BY <2>1 DEF Reading
    <3>3. QED BY <1>5, <1>6, <3>1, <3>2 DEF Stays
  <2>2. CASE ~(IsArray(Second.type) \/ ~IsMem(Out, Second.addr))
    <3>1. PICK t2 : t2 = Computed(t1, NewMem, "()", Second.addr, None) /\ base.o = t2 /\ base.at = Last(t2)
      BY <1>1, <2>2
    <3>2. Computes(Out, t1, NewMem, "()", Second.addr, None, t2)
      BY <1>3, <1>5, <1>6, <3>1, Copying DEF Copies, Stays
    <3>3. Stays(t1, t2, Last(t1))
      BY <1>3, <1>5, <3>2, Staying DEF Computes
    <3>4. Made(t1, start, "()", Second.addr, None) = At(Final(start, t1).mem, Den(t1, start, Second.addr))
      BY DEF Made
    <3>5. At(Final(start, t1).mem, Den(t1, start, Second.addr)) = Reading(Out, start, Second.addr)
      <4>1. Reading(t1, start, Second.addr) = Reading(Out, start, Second.addr) /\ IsMem(t1, Second.addr)
        BY <1>6, <2>2 DEF Stays
      <4>2. QED BY <4>1 DEF Reading
    <3>6. Final(start, Out).skip = None => Den(t2, start, Last(t2)) = Reading(Out, start, Second.addr)
      BY <1>3, <3>2, <3>4, <3>5 DEF Computes
    <3>7. QED BY <2>2, <3>1, <3>2, <3>3, <3>6 DEF Computes, Stays
  <2>3. QED BY <2>1, <2>2
<1>8. Computes(Out, base.o, NewMem, "+", base.at, Last(t1), o)
  BY <1>1, <1>3, <1>7, Combining DEF Binaries
<1>9. PICK a : a = Last(o)
  OBVIOUS
<1>10. Referring(o, a) /\ Adds(Out, o)
  BY <1>8, <1>9 DEF Computes, Referring
<1>11. Top.addr \notin Lost(o) /\ Second.addr \notin Lost(o)
  BY <1>5, <1>7, <1>8 DEF Computes
<1>12. t \in Types /\ ~IsArray(t) /\ ~IsStruct(Second.type)
  BY <1>1, <1>2, <1>3 DEF Pointed, Type, Types, IsPointer, IsArray, IsStruct
<1>13. Forms(node, t, c, 0, a, "none", FALSE)
  <2>1. a \in Nat /\ 0 \in Int /\ c \in Int
    BY <1>1, <1>3, <1>10 DEF Referring, Ready, Places, Word
  <2>2. QED BY ZenonT(40), <1>1, <1>3, <1>9, <1>12, <2>1, NodeForms, Int4Is
<1>14. active => c > 0
  BY <1>1 DEF Legal, Cells
<1>15. Evaluates2(W, o, a, c)
  <2> SUFFICES ASSUME Fair(Out, start, text), Fits(Out, start, text, Top), Fits(Out, start, text, Second), \A w \in W : w = "none"
               PROVE  Den(o, start, a) = c
    BY DEF Evaluates2
  <2>1. Final(start, Out).skip = None
    BY DEF Fair
  <2>2. Den(Out, start, Top.addr) = Value(Top)
    <3>1. ~IsMem(Out, Top.addr)
      BY <1>1
    <3>2. QED BY <3>1 DEF Fits, Value
  <2>3. Den(t1, start, Last(t1)) = Word * Value(Top)
    BY <1>4, <2>1, <2>2 DEF Scales
  <2>4. Den(base.o, start, base.at) = Value(Second)
    <3>1. Reading(Out, start, Second.addr) = Value(Second)
      BY <1>12 DEF Fits, Value
    <3>2. IsArray(Second.type) => Den(Out, start, Second.addr) = Value(Second)
      BY DEF Fits, Shaped, Value
    <3>3. QED BY <1>7, <2>1, <3>1, <3>2
  <2>5. Made(base.o, start, "+", base.at, Last(t1)) = Meaning("+", Value(Second), Word * Value(Top))
    BY <1>7, <2>1, <2>3, <2>4 DEF Made
  <2>6. Meaning("+", Value(Second), Word * Value(Top)) = c
    <3>1. Word * Value(Top) \in Int
      BY <1>3 DEF Word
    <3>2. QED BY <1>1, <1>3, <3>1, Sums
  <2>7. QED BY <1>3, <1>8, <1>9, <2>1, <2>5, <2>6 DEF Computes
<1>16. Blames2(W)
  <2>1. W \subseteq Faults
    BY <1>1, <1>3 DEF Faults
  <2>2. QED BY <1>1, <2>1 DEF Blames2
<1>17. QED BY <1>1, <1>2, <1>3, <1>10, <1>11, <1>12, <1>13, <1>14, <1>15, <1>16, MemBinary

LEMMA PointerPlusKeeps == ASSUME IInv, Distinct(stack), PointerPlus PROVE IInv'
<1>1. PICK left, ptr, int, l, w, t2, o, node, v, W :
         /\ left \in BOOLEAN /\ ptr = (IF left THEN Second ELSE Top) /\ int = (IF left THEN Top ELSE Second)
         /\ l = Loaded(Out, int.addr) /\ w = With(l.o, New3Const(Word)) /\ t2 = Computed(w, NewTemp, "*", l.at, Last(w))
         /\ o = Computed(t2, NewMem, "+", ptr.addr, Last(t2)) /\ v = Value(ptr) + Word * Value(int)
         /\ node = [Node(ptr.type, None, v, Last(o)) EXCEPT !.bad = "pointer"] /\ Reduced(2, o, node)
         /\ W = {ptr.bad, int.bad, IF IsMem(Out, ptr.addr) THEN "address" ELSE "none"} /\ Blame(W)
  BY DEF PointerPlus
<1>2. Reduces("+", 2) /\ Pure
  BY DEF PointerPlus
<1>3. /\ Good(Out) /\ Adds(Out, Out) /\ start \in Memories /\ active \in BOOLEAN
      /\ Ready(Out, Top.addr) /\ Top.bad \in Faults /\ Value(Top) \in Int /\ Top.type \in Types
      /\ Ready(Out, Second.addr) /\ Second.bad \in Faults /\ Value(Second) \in Int /\ Second.type \in Types
  BY <1>2, BinaryFacts
<1>4. /\ Ready(Out, ptr.addr) /\ ptr.bad \in Faults /\ Value(ptr) \in Int /\ ptr.type \in Types
      /\ Ready(Out, int.addr) /\ int.bad \in Faults /\ Value(int) \in Int
      /\ {ptr, int} = {Top, Second}
  BY <1>1, <1>3
<1>5. Loads(Out, Out, int.addr, l)
  BY <1>1, <1>3, <1>4, Loading
<1>6. Adds(Out, l.o) /\ Good(l.o) /\ Ready(l.o, l.at) /\ Word \in Int
  BY <1>5 DEF Loads, Adds, Word
<1>7. Constants(Out, l.o, Word, w)
  BY <1>1, <1>3, <1>6, Naming
<1>8. Adds(l.o, w) /\ Adds(Out, w) /\ Good(w) /\ Ready(w, Last(w)) /\ Ready(w, l.at)
  BY <1>6, <1>7, AddsReady DEF Constants, Adds
<1>9. Computes(Out, w, NewTemp, "*", l.at, Last(w), t2)
  BY <1>1, <1>3, <1>8, Combining DEF Binaries
<1>10. Adds(Out, t2) /\ Ready(t2, Last(t2)) /\ Ready(t2, ptr.addr)
  <2>1. Adds(Out, t2) /\ Ready(t2, Last(t2))
    BY <1>9 DEF Computes
  <2>2. QED BY <1>3, <1>4, <2>1, AddsReady
<1>11. Computes(Out, t2, NewMem, "+", ptr.addr, Last(t2), o)
  BY <1>1, <1>3, <1>10, Combining DEF Binaries
<1>12. ptr.addr \notin Lost(o) /\ int.addr \notin Lost(o)
  BY <1>5, <1>7, <1>9, <1>11 DEF Loads, Constants, Computes
<1>13. Top.addr \notin Lost(o) /\ Second.addr \notin Lost(o)
  BY <1>1, <1>12
<1>14. PICK a : a = Last(o)
  OBVIOUS
<1>15. Ready(o, a) /\ Adds(Out, o)
  BY <1>11, <1>14 DEF Computes
<1>16. Forms(node, ptr.type, None, v, a, "pointer", FALSE)
  <2>1. a \in Nat /\ v \in Int /\ "pointer" \in Faults
    BY <1>1, <1>4, <1>15 DEF Ready, Places, Word, Faults
  <2>2. PICK t, b : t = ptr.type /\ b = "pointer"
    OBVIOUS
  <2>3. node = [Node(t, None, v, a) EXCEPT !.bad = b] /\ t \in Types /\ b \in Faults /\ None \in Int /\ FALSE \in BOOLEAN
    BY <1>1, <1>4, <1>14, <2>1, <2>2, Int4Is
  <2>4. Forms(node, t, None, v, a, b, FALSE)
    BY <1>3, <2>1, <2>3, NodeForms
  <2>5. QED BY <2>2, <2>4
<1>17. BinaryFine(o, node, "pointer", W)
  BY <1>13 DEF BinaryFine
<1>18. W \subseteq Faults /\ Blame(W) /\ Top.bad \in W /\ Second.bad \in W
  BY <1>1, <1>3 DEF Faults
<1>19. QED BY ZenonT(40), <1>1, <1>2, <1>15, <1>16, <1>17, <1>18, BinaryAdds

(***************************************************************************)
(* Reductions that store.                                                  *)
(***************************************************************************)
Put(mem, c, v) == IF c \in Cells THEN [mem EXCEPT ![c] = v] ELSE mem

\* What a store by w's next quad gives.
Stores(w, op, r, a1, a2, d) ==
    /\ Grows(Out, d) /\ Grows(w, d) /\ (Keeping(Out, w) => Keeping(Out, d)) /\ Lost(d) \subseteq LostBy(w, r, a1, a2)
    /\ SameKinds(w, d) /\ Ready(d, r)
    /\ Final(start, Out).skip = None =>
          Final(start, d).mem = Put(Final(start, w).mem, IF op = "()s" THEN Den(w, start, r) ELSE w.heap[r].var, Made(w, start, op, a1, a2))

LEMMA Storing ==
    ASSUME start \in Memories, Sound(Out), NEW w, Grows(Out, w), NEW op, NEW r, NEW a1, NEW a2, Emits(w, op, r, a1, a2),
           op = "()s" \/ w.heap[r].var # None, NEW d, d = Emitted(w, op, r, a1, a2)
    PROVE  Stores(w, op, r, a1, a2, d)
<1>1. PICK o : o = Out
  OBVIOUS
<1>2. /\ Grows(o, d) /\ (Keeping(o, w) => Keeping(o, d)) /\ Lost(d) \subseteq LostBy(w, r, a1, a2) /\ SameKinds(w, d) /\ Ready(d, r)
      /\ \A mem \in Memories : Final(mem, o).skip = None =>
            LET c == IF op = "()s" THEN Den(w, mem, r) ELSE w.heap[r].var
            IN  Final(mem, d).mem = IF c \in Cells THEN [Final(mem, w).mem EXCEPT ![c] = Made(w, mem, op, a1, a2)]
                                    ELSE Final(mem, w).mem
  BY <1>1, StoreGrows
<1>3. Sound(w) /\ Grows(w, w)
  <2>1. Sound(w) /\ Adds(w, w)
    BY AddsSelf DEF Grows, Sound
  <2>2. QED BY <2>1, AddsGrows
<1>4. Grows(w, d)
  BY <1>3, StoreGrows
<1>5. QED BY <1>1, <1>2, <1>4 DEF Stores, Put

\* A temporary computed again from what it was.
Recomputes(w, op, r, a1, a2, d) ==
    /\ Adds(Out, d) /\ Ready(d, r) /\ Lost(d) \subseteq Lost(w) \ {a1, a2} /\ Keeps(w, d) /\ SameKinds(w, d)
    /\ \A a \in Places(w.heap) \ {r} : Den(d, start, a) = Den(w, start, a)
    /\ Final(start, Out).skip = None => Den(d, start, r) = Made(w, start, op, a1, a2)

LEMMA Recomputing ==
    ASSUME start \in Memories, Good(Out), NEW w, Adds(Out, w), NEW op, NEW r, NEW a1, NEW a2, Emits(w, op, r, a1, a2), op # "()s",
           w.heap[r].var = None, w.heap[r].kind # "CON", r \notin Places(Out.heap), NEW d, d = Emitted(w, op, r, a1, a2)
    PROVE  Recomputes(w, op, r, a1, a2, d)
<1>1. PICK o : o = Out
  OBVIOUS
<1>2. Good(w) /\ Good(o) /\ Final(start, w).skip = Final(start, o).skip
  BY <1>1 DEF Adds, Agree
<1>3. /\ Adds(o, d) /\ Ready(d, r) /\ Lost(d) \subseteq Lost(w) \ {a1, a2} /\ SameKinds(w, d)
      /\ \A a \in Places(w.heap) : Same(w.heap[a], d.heap[a])
      /\ \A mem \in Memories : /\ \A a \in Places(w.heap) \ {r} : Final(mem, d).temps[a] = Final(mem, w).temps[a]
                               /\ Final(mem, w).skip = None =>
                                     Final(mem, d).temps[r] = Result(w.heap, Final(mem, w), Instr(op, r, a1, a2))
                               /\ Final(mem, d).mem = Final(mem, w).mem
  BY <1>1, <1>2, EmittedAdds
<1>4. Keeps(w, d)
  BY <1>2, EmittedGood
<1>5. ASSUME NEW a \in Places(w.heap) \ {r} PROVE Den(d, start, a) = Den(w, start, a)
  <2>1. Same(w.heap[a], d.heap[a]) /\ Final(start, d).temps[a] = Final(start, w).temps[a] /\ Final(start, d).mem = Final(start, w).mem
    BY <1>3
  <2>2. QED BY <2>1 DEF Den, Denoted, Same
<1>6. ASSUME Final(start, o).skip = None PROVE Den(d, start, r) = Made(w, start, op, a1, a2)
  <2>1. PICK q : q = Instr(op, r, a1, a2)
    OBVIOUS
  <2>2. q.op = op /\ q.arg1 = a1 /\ q.arg2 = a2
    BY <2>1 DEF Instr
  <2>3. Result(w.heap, Final(start, w), q) = Made(w, start, op, a1, a2)
    BY <2>2 DEF Result, Made, Den
  <2>4. r \in Places(w.heap) /\ ~w.heap[r].ea
    BY <1>2 DEF Emits, Good
  <2>5. Den(d, start, r) = Final(start, d).temps[r]
    BY <1>3, <2>4 DEF Den, Denoted, Same
  <2>6. QED BY <1>2, <1>3, <1>6, <2>1, <2>3, <2>5
<1>7. QED BY <1>1, <1>3, <1>4, <1>5, <1>6 DEF Recomputes

LEMMA NewAddresses == NewTemp \in Addresses /\ NewMem \in Addresses
BY DEF NewTemp, NewMem, Address, Addresses, Kinds, None

LEMMA LastIs ==
    ASSUME NEW o, Good(o), NEW w, Adds(o, w), NEW x \in {NewTemp, NewMem}, NEW op \in Copies, NEW a1, Ready(w, a1),
           NEW d, d = Computed(w, x, op, a1, None)
    PROVE  Last(With(w, x)) = Last(d) /\ Last(d) \notin Places(w.heap)
<1>1. Good(w) /\ op \in Copies \cup Binaries /\ op \notin Binaries
  BY DEF Adds, Copies, Binaries
<1>2. Last(d) = Len(w.heap) + 1 /\ Last(d) \notin Places(w.heap)
  BY <1>1, ComputedAdds
<1>3. x \in Addresses
  BY NewAddresses
<1>4. Last(With(w, x)) = Len(w.heap) + 1
  BY <1>1, <1>3, WithIs DEF Good
<1>5. QED BY <1>2, <1>4

\* What a temporary or a constant holds is no variable's.
LEMMA HeldOn ==
    ASSUME start \in Memories, NEW w, Good(w), NEW d, Grows(w, d), NEW a \in Places(w.heap), w.heap[a].var = None
    PROVE  Den(d, start, a) = Den(w, start, a) /\ d.heap[a].var = None
<1>1. Same(w.heap[a], d.heap[a]) /\ ~w.heap[a].ea /\ Final(start, d).temps[a] = Final(start, w).temps[a]
  BY DEF Good, Grows, Keeps, Continues
<1>2. QED BY <1>1 DEF Den, Denoted, Same

LEMMA VariableIs ==
    ASSUME NEW o, Good(o), NEW a \in Places(o.heap), o.heap[a].var # None, ~o.heap[a].ea
    PROVE  Den(o, start, a) = At(Final(start, o).mem, o.heap[a].var) /\ ~IsMem(o, a)
<1>1. o.heap[a] \in Addresses
  BY DEF Good, Outs, Places
<1>2. QED BY <1>1 DEF Den, Denoted, Addresses, IsMem

\* A temporary that is not computed yet.
LEMMA InstrStays ==
    ASSUME NEW w, Good(w), NEW x \in {NewTemp, NewMem}, NEW op \in Copies, NEW a1, Ready(w, a1), NEW d, d = Computed(w, x, op, a1, None),
           NEW a \in Places(w.heap)
    PROVE  d.heap[a].instr = w.heap[a].instr
<1>1. x \in Addresses /\ op \in Ops /\ a1 \in Nat /\ None \in Nat /\ w \in Outs
  BY NewAddresses DEF None, Ops, Ready, Places, Good
<1>2. PICK n : n = With(w, x)
  OBVIOUS
<1>3. n \in Outs /\ Len(n.heap) = Len(w.heap) + 1 /\ Last(n) = Len(w.heap) + 1 /\ Len(w.heap) \in Nat /\ \A b \in Places(w.heap) : n.heap[b] = w.heap[b]
  <2>1. Len(w.heap) \in Nat
    BY <1>1 DEF Outs
  <2>2. /\ n \in Outs /\ n.code = w.code /\ Len(n.heap) = Len(w.heap) + 1 /\ Last(n) = Len(w.heap) + 1
        /\ n.heap[Last(n)] = x /\ \A b \in Places(w.heap) : n.heap[b] = w.heap[b]
    BY <1>1, <1>2, WithIs
  <2>3. QED BY <2>1, <2>2
<1>4. PICK r : r = Last(n)
  OBVIOUS
<1>5. r \in Places(n.heap) /\ a \in Places(n.heap) /\ a # r /\ a1 \in Places(n.heap) /\ r \in Nat
  BY <1>3, <1>4 DEF Places, Ready
<1>6. d = Emitted(n, op, r, a1, None)
  BY <1>2, <1>4 DEF Computed
<1>7. Emission(n, d, op, r, a1, None, Len(n.code) + 1, Revived(n, op, r, a1, None))
  BY <1>1, <1>3, <1>5, <1>6, EmittedIs
<1>8. QED BY <1>3, <1>5, <1>7 DEF Emission

LEMMA WriteIs ==
    ASSUME text \in Memories, active \in BOOLEAN, NEW c, NEW v \in Int, Write(c, v)
    PROVE  text' \in Memories /\ active' = active /\ text' = IF active THEN Put(text, c, v) ELSE text
<1>1. CASE active
  <2>1. c \in Cells /\ text' = [text EXCEPT ![c] = v] /\ active' = active
    BY <1>1 DEF Write
  <2>2. QED BY <1>1, <2>1 DEF Put, Memories
<1>2. CASE ~active
  BY <1>2 DEF Write
<1>3. QED BY <1>1, <1>2

LEMMA GrowsPlaces == ASSUME NEW o, NEW d, Good(o), Grows(o, d) PROVE Places(o.heap) \subseteq Places(d.heap)
<1>1. Good(d) /\ Len(o.heap) <= Len(d.heap)
  BY DEF Grows, Sound, Keeps
<1>2. Len(o.heap) \in Nat /\ Len(d.heap) \in Nat
  BY <1>1 DEF Good, Outs
<1>3. QED BY <1>1, <1>2 DEF Places

\* What a reduction of one operand that stores v shows.
UnaryStored(o, node, addr, bad, unread, v) ==
    (Plain(Top) /\ Shaped(Out, Top)) =>
        /\ bad = "none" => Shaped(o, node)
        /\ \A a \in Lost(o) : (unread /\ addr = a) \/ (a \in Lost(Out) /\ (Top.unread => Top.addr # a))
        /\ (active /\ Fair(Out, start, text) /\ Fits(Out, start, text, Top)) =>
              /\ Final(start, o).mem = Put(text, Top.cell, v)
              /\ bad = "none" => Denotes(o, Put(text, Top.cell, v), node)

LEMMA UnaryStores ==
    ASSUME IInv, Distinct(stack), NEW production, Reduces(production, 1), NEW o, NEW node, Reduced(1, o, node), Grows(Out, o), Keeping(Out, o),
           NEW type, NEW cell, NEW val, NEW addr, NEW bad, NEW unread, Forms(node, type, cell, val, addr, bad, unread), Ready(o, addr),
           bad # "short-circuit", Top.bad = "none", UNCHANGED fault, NEW v \in Int, Write(Top.cell, v),
           UnaryStored(o, node, addr, bad, unread, v)
    PROVE  IInv'
<1>1. /\ phase = "expression" /\ Good(Out) /\ Sound(Out)
      /\ start \in Memories /\ text \in Memories /\ active \in BOOLEAN /\ fault \in Faults
      /\ Stands(Out, Top) /\ Top.mid = "none" /\ (fault = "none" => Neat(Out, Top))
  BY Operands
<1>2. Sound(o) /\ Good(o) /\ Keeps(Out, o) /\ Gotos(ta_code) \subseteq Gotos(o.code)
  <2>1. PICK w : w = Out /\ w.code = ta_code
    BY DEF Out
  <2>2. Gotos(w.code) \subseteq Gotos(o.code)
    BY <1>1, <2>1, GrowsGotos
  <2>3. QED BY <2>1, <2>2 DEF Grows, Sound
<1>3. /\ node \in Nodes /\ node.addr = addr /\ node.bad = bad /\ node.unread = unread /\ node.known = active /\ node.mid = "none"
      /\ Lists(node) = {} /\ node.true = {} /\ node.false = {} /\ node.addr # None
  <2>1. addr # None
    BY DEF Ready, Places, None
  <2>2. QED BY <2>1 DEF Forms, Lists
<1>4. Stands(o, node)
  BY <1>3 DEF Stands
<1>5. text' \in Memories /\ active' = active /\ text' = IF active THEN Put(text, Top.cell, v) ELSE text
  BY <1>1, WriteIs
<1>8. ASSUME fault' = "none"
      PROVE  /\ fault = "none" /\ Top.bad = "none" /\ Result1(o, node, text')
             /\ \A a \in Lost(o) : (node.unread /\ node.addr = a) \/ (a \in Lost(Out) /\ (Top.unread => Top.addr # a))
             /\ active /\ Fair(Out, start, text) /\ Fits(Out, start, text, Top) => Comes(o, node, text')
  <2>1. fault = "none" /\ Plain(Top) /\ Shaped(Out, Top)
    BY <1>1, <1>8 DEF Plain, Neat
  <2>2. Result1(o, node, text')
    BY <1>3, <1>5, <2>1 DEF Result1, Plain, UnaryStored
  <2>3. ASSUME active /\ Fair(Out, start, text) /\ Fits(Out, start, text, Top) PROVE Comes(o, node, text')
    <3>1. PICK mem : mem = text' /\ mem = Put(text, Top.cell, v)
      BY <1>5, <2>3
    <3>2. Final(start, o).mem = mem /\ (bad = "none" => Denotes(o, mem, node))
      BY <2>1, <2>3, <3>1 DEF UnaryStored
    <3>3. Plain(node) => Holds(o, Final(start, o), mem, node)
      BY <1>2, <1>3, <3>2, DenotesHolds DEF Plain
    <3>4. QED BY <3>1, <3>2, <3>3 DEF Comes
  <2>4. QED BY <1>3, <2>1, <2>2, <2>3 DEF UnaryStored
<1>9. fault' \in Faults
  BY <1>1
<1>10. QED BY <1>2, <1>3, <1>4, <1>5, <1>8, <1>9, UnaryKeeps

\* What a reduction of two operands that stores v shows, when nothing went wrong.
BinaryStored(o, node, bad, v, W) ==
    (/\ Plain(Top) /\ Shaped(Out, Top) /\ Plain(Second) /\ Shaped(Out, Second) /\ \A w \in W : w = "none") =>
        /\ Grows(Out, o) /\ KeepingBut(Out, o, Second.addr)
        /\ bad = "none" => Shaped(o, node)
        /\ \A a \in Lost(o) : a \in Lost(Out) /\ (Top.unread => Top.addr # a) /\ (Second.unread => Second.addr # a)
        /\ (active /\ Fair(Out, start, text) /\ Fits(Out, start, text, Top) /\ Fits(Out, start, text, Second)) =>
              /\ Final(start, o).mem = Put(text, Second.cell, v)
              /\ bad = "none" => Denotes(o, Put(text, Second.cell, v), node)

LEMMA BinaryStores ==
    ASSUME IInv, Distinct(stack), NEW production, Reduces(production, 2), NEW o, NEW node, Reduced(2, o, node),
           Sound(o), Keeps(Out, o), Gotos(ta_code) \subseteq Gotos(o.code),
           NEW type, NEW cell, NEW val, NEW addr, NEW bad, Forms(node, type, cell, val, addr, bad, FALSE), Ready(o, addr),
           bad # "short-circuit", Second.bad = "none", NEW W, W \subseteq Faults, Blame(W), Top.bad \in W, NEW v \in Int, Write(Second.cell, v),
           BinaryStored(o, node, bad, v, W)
    PROVE  IInv'
<1>1. /\ phase = "expression" /\ Good(Out) /\ Sound(Out)
      /\ start \in Memories /\ text \in Memories /\ active \in BOOLEAN /\ fault \in Faults
      /\ Stands(Out, Top) /\ Top.mid = "none" /\ (fault = "none" => Neat(Out, Top))
      /\ Stands(Out, Second) /\ Second.mid = "none" /\ (fault = "none" => Neat(Out, Second))
  BY Operands
<1>2. Good(o)
  BY DEF Sound
<1>3. /\ node \in Nodes /\ node.addr = addr /\ node.bad = bad /\ node.unread = FALSE /\ node.known = active /\ node.mid = "none"
      /\ Lists(node) = {} /\ node.true = {} /\ node.false = {} /\ node.addr # None
  <2>1. addr # None
    BY DEF Ready, Places, None
  <2>2. QED BY <2>1 DEF Forms, Lists
<1>4. Stands(o, node)
  BY <1>3 DEF Stands
<1>5. text' \in Memories /\ active' = active /\ text' = IF active THEN Put(text, Second.cell, v) ELSE text
  BY <1>1, WriteIs
<1>6. fault' \in Faults /\ (fault' = "none" => fault = "none" /\ \A w \in W : w = "none")
  BY <1>1, BlameIs
<1>8. ASSUME fault' = "none"
      PROVE  /\ fault = "none" /\ Top.bad # "short-circuit" /\ Second.bad # "short-circuit" /\ Result1(o, node, text')
             /\ KeepingBut(Out, o, Second.addr)
             /\ \A a \in Lost(o) : (node.unread /\ node.addr = a) \/ (a \in Lost(Out) /\ (Top.unread => Top.addr # a)
                                                                      /\ (Second.unread => Second.addr # a))
             /\ active /\ Fair(Out, start, text) /\ (Plain(Top) => Fits(Out, start, text, Top))
                       /\ (Plain(Second) => Fits(Out, start, text, Second)) => Comes(o, node, text')
  <2>1. /\ fault = "none" /\ (\A w \in W : w = "none") /\ Top.bad = "none" /\ Plain(Top) /\ Shaped(Out, Top)
        /\ Plain(Second) /\ Shaped(Out, Second)
    BY <1>1, <1>6, <1>8 DEF Plain, Neat
  <2>2. Result1(o, node, text')
    BY <1>3, <1>5, <2>1 DEF Result1, Plain, BinaryStored
  <2>3. ASSUME active /\ Fair(Out, start, text) /\ Fits(Out, start, text, Top) /\ Fits(Out, start, text, Second) PROVE Comes(o, node, text')
    <3>1. PICK mem : mem = text' /\ mem = Put(text, Second.cell, v)
      BY <1>5, <2>3
    <3>2. Final(start, o).mem = mem /\ (bad = "none" => Denotes(o, mem, node))
      BY <2>1, <2>3, <3>1 DEF BinaryStored
    <3>3. Plain(node) => Holds(o, Final(start, o), mem, node)
      BY <1>2, <1>3, <3>2, DenotesHolds DEF Plain
    <3>4. QED BY <3>1, <3>2, <3>3 DEF Comes
  <2>4. QED BY <1>3, <2>1, <2>2, <2>3 DEF BinaryStored
<1>9. Waits(2)
  BY DEF Reduces
<1>10. QED BY <1>3, <1>4, <1>5, <1>6, <1>8, <1>9, BinaryKeeps

(***************************************************************************)
(* Assignments.                                                            *)
(***************************************************************************)
LEMMA Targets ==
    ASSUME Sound(Out), NEW n, Ready(Out, n.addr), Assignable(n)
    PROVE  /\ n.addr \notin Lost(Out) /\ n.bad = "none" /\ ~IsEa(n.type) /\ ~IsStruct(n.type) /\ ~IsArray(n.type)
           /\ n.addr \in Places(Out.heap) /\ Out.heap[n.addr].kind # "CON"
           /\ IF IsMem(Out, n.addr) THEN Out.heap[n.addr].var = None ELSE Out.heap[n.addr].var # None /\ Out.heap[n.addr].kind = "ID3"
<1>1. Out.heap[n.addr] \in Addresses /\ Out.heap[n.addr].kind \in {"ID3", "MEM"} /\ n.addr \in Places(Out.heap)
  BY DEF Sound, Good, Outs, Ready, Places, Assignable, Kind, Out
<1>2. n.addr \notin Lost(Out)
  BY <1>1 DEF Sound
<1>3. QED BY <1>1, <1>2 DEF Assignable, IsEa, IsMem, Addresses

\* A variable's address denotes what was stored.
LEMMA VariableStored ==
    ASSUME Good(Out), NEW n, Ready(Out, n.addr), Out.heap[n.addr].var # None, ~IsEa(n.type), Shaped(Out, n), NEW o, Grows(Out, o),
           NEW node, node.addr = n.addr, node.type = n.type, node.cell = n.cell
    PROVE  Shaped(o, node) /\ \A mem : Final(start, o).mem = mem => Denotes(o, mem, node)
<1>1. /\ n.addr \in Places(Out.heap) /\ Same(Out.heap[n.addr], o.heap[n.addr]) /\ Good(o) /\ n.addr \in Places(o.heap)
  <2>1. Len(Out.heap) \in Nat /\ Len(o.heap) \in Nat
    BY DEF Good, Outs, Grows, Sound
  <2>2. QED BY <2>1 DEF Ready, Grows, Sound, Keeps, Places
<1>2. o.heap[n.addr].var = n.cell /\ n.cell # None /\ ~o.heap[n.addr].ea
  BY <1>1 DEF Shaped, Same
<1>3. Den(o, start, n.addr) = At(Final(start, o).mem, n.cell) /\ ~IsMem(o, n.addr)
  BY <1>1, <1>2, VariableIs
<1>4. Shaped(o, node)
  BY <1>2, <1>3 DEF Shaped
<1>5. QED BY <1>2, <1>3, <1>4 DEF Denotes, ValueIn

LEMMA AssignKeeps == ASSUME IInv, Distinct(stack), Assign PROVE IInv'
<1>1. PICK l, op, e, o, node, bad, W, v :
         /\ l = (IF IsMem(Out, Second.addr) /\ IsPointer(Second.type) THEN [o |-> Out, at |-> Top.addr] ELSE Loaded(Out, Top.addr))
         /\ op = (IF IsMem(Out, Second.addr) THEN "()s" ELSE "=")
         /\ e = Emitted(l.o, op, Second.addr, l.at, None) /\ o = Retyped(e, Second.addr)
         /\ bad = (IF op = "()s" THEN "address" ELSE "none")
         /\ node = [Node(Second.type, Second.cell, 0, Second.addr) EXCEPT !.bad = bad] /\ Reduced(2, o, node)
         /\ W = {Top.bad, IF IsMem(l.o, l.at) THEN "address" ELSE "none"} /\ Blame(W) /\ v = Value(Top) /\ Write(Second.cell, v)
  <2>1. PICK l, op :
           /\ l = (IF IsMem(Out, Second.addr) /\ IsPointer(Second.type) THEN [o |-> Out, at |-> Top.addr] ELSE Loaded(Out, Top.addr))
           /\ op = (IF IsMem(Out, Second.addr) THEN "()s" ELSE "=")
           /\ Reduced(2, Retyped(Emitted(l.o, op, Second.addr, l.at, None), Second.addr),
                      [Node(Second.type, Second.cell, 0, Second.addr) EXCEPT !.bad = IF op = "()s" THEN "address" ELSE "none"])
           /\ Blame({Top.bad, IF IsMem(l.o, l.at) THEN "address" ELSE "none"}) /\ Write(Second.cell, Value(Top))
    BY Zenon DEF Assign
  <2>2. QED BY <2>1
<1>2. Reduces("=", 2) /\ Assignable(Second) /\ ~IsStruct(Top.type)
  BY DEF Assign
<1>3. /\ Good(Out) /\ Sound(Out) /\ Adds(Out, Out) /\ start \in Memories /\ active \in BOOLEAN
      /\ Ready(Out, Top.addr) /\ Top.bad \in Faults /\ v \in Int
      /\ Ready(Out, Second.addr) /\ Second.type \in Types /\ Second.cell \in Int /\ Second.addr \in Nat
  BY <1>1, <1>2, BinaryFacts, Operands
<1>4. PICK r : r = Second.addr
  OBVIOUS
<1>5. /\ r \notin Lost(Out) /\ Second.bad = "none" /\ ~IsEa(Second.type)
      /\ r \in Places(Out.heap) /\ Out.heap[r].kind # "CON"
      /\ IF IsMem(Out, r) THEN Out.heap[r].var = None ELSE Out.heap[r].var # None /\ Out.heap[r].kind = "ID3"
  BY <1>2, <1>3, <1>4, Targets
<1>6. /\ Adds(Out, l.o) /\ Ready(l.o, l.at) /\ (Top.addr \notin Lost(l.o) \/ l.at = Top.addr)
      /\ ~IsMem(l.o, l.at) /\ Final(start, Out).skip = None => Den(l.o, start, l.at) = Reading(Out, start, Top.addr)
  <2>1. CASE IsMem(Out, Second.addr) /\ IsPointer(Second.type)
    <3>1. l.o = Out /\ l.at = Top.addr
      BY <1>1, <2>1
    <3>2. QED BY <1>3, <3>1 DEF Reading
  <2>2. CASE ~(IsMem(Out, Second.addr) /\ IsPointer(Second.type))
    <3>1. Loads(Out, Out, Top.addr, l)
      BY <1>1, <1>3, <2>2, Loading
    <3>2. QED BY <1>3, <3>1 DEF Loads
  <2>3. QED BY <2>1, <2>2
<1>7. /\ Good(l.o) /\ Grows(Out, l.o) /\ Keeping(Out, l.o) /\ Lost(l.o) \subseteq Lost(Out)
      /\ Stays(Out, l.o, r) /\ l.o.heap[r].var = Out.heap[r].var /\ l.o.heap[r].kind = Out.heap[r].kind
  <2>1. Good(l.o) /\ Grows(Out, l.o) /\ Keeping(Out, l.o) /\ Lost(l.o) \subseteq Lost(Out)
    BY <1>3, <1>6, AddsFacts
  <2>2. Stays(Out, l.o, r)
    BY <1>3, <1>4, <1>6, Staying
  <2>3. QED BY <1>5, <1>6, <2>1, <2>2 DEF Adds, SameKinds, Keeps, Same
<1>8. Emits(l.o, op, r, l.at, None)
  <2>1. r \in Places(l.o.heap) /\ Ready(l.o, r)
    BY <1>7 DEF Stays, Ready
  <2>2. op # "()s" => ~Temp(l.o.heap, r)
    BY <1>1, <1>4, <1>5, <1>7 DEF Temp
  <2>3. QED BY <1>1, <1>5, <1>6, <1>7, <2>1, <2>2 DEF Emits, Copies, Binaries
<1>9. Stores(l.o, op, r, l.at, None, e)
  <2>1. op = "()s" \/ l.o.heap[r].var # None
    BY <1>1, <1>4, <1>5, <1>7
  <2>2. QED BY <1>1, <1>3, <1>4, <1>7, <1>8, <2>1, Storing
<1>10. e.heap[r].kind = Out.heap[r].kind /\ r \in Places(e.heap)
  BY <1>7, <1>8, <1>9 DEF Stores, SameKinds, Emits, Ready
<1>11. /\ Grows(Out, o) /\ (Keeping(Out, e) /\ ~IsMem(e, r) => Keeping(Out, o)) /\ Lost(o) = Lost(e) /\ Ready(o, r)
       /\ Final(start, o).mem = Final(start, e).mem
  <2>1. o = Retyped(e, r) /\ e.heap[r].kind # "CON" /\ Grows(Out, e)
    BY <1>1, <1>4, <1>5, <1>9, <1>10 DEF Stores
  <2>2. /\ Grows(Out, o) /\ (Keeping(Out, e) /\ ~IsMem(e, r) => Keeping(Out, o)) /\ Lost(o) = Lost(e)
        /\ \A mem \in Memories : Final(mem, o).mem = Final(mem, e).mem
    BY <1>3, <1>10, <2>1, RetypedGrows
  <2>3. Ready(o, r)
    BY <1>3, <1>4, <2>2, GrowsReady
  <2>4. QED BY <1>3, <2>2, <2>3
<1>12. Sound(o) /\ Keeps(Out, o) /\ Gotos(ta_code) \subseteq Gotos(o.code)
  <2>0. Out.code = ta_code
    BY DEF Out
  <2>1. PICK w : w = Out /\ w.code = ta_code
    BY <2>0
  <2>2. Gotos(w.code) \subseteq Gotos(o.code)
    BY <1>3, <1>11, <2>1, GrowsGotos
  <2>3. QED BY <1>11, <2>1, <2>2 DEF Grows
<1>13. Forms(node, Second.type, Second.cell, 0, r, bad, FALSE)
  <2>1. bad \in Faults /\ 0 \in Int /\ FALSE \in BOOLEAN /\ r \in Nat
    BY <1>1, <1>3, <1>4 DEF Faults
  <2>2. PICK t, c : t = Second.type /\ c = Second.cell
    OBVIOUS
  <2>3. node = [Node(t, c, 0, r) EXCEPT !.bad = bad] /\ t \in Types /\ c \in Int
    BY <1>1, <1>3, <1>4, <2>2
  <2>4. Forms(node, t, c, 0, r, bad, FALSE)
    BY <1>3, <2>1, <2>3, NodeForms
  <2>5. QED BY <2>2, <2>4
<1>14. node.addr = Second.addr /\ node.type = Second.type /\ node.cell = Second.cell
  BY <1>4, <1>13 DEF Forms
<1>15. Lost(o) \subseteq Lost(l.o) \ {l.at}
  <2>1. LostBy(l.o, r, l.at, None) \subseteq Lost(l.o) \ {l.at}
    BY <1>5, <1>7 DEF LostBy
  <2>2. QED BY <1>9, <1>11, <2>1 DEF Stores
<1>16. KeepingBut(Out, o, r)
  <2>1. o = Retyped(e, r) /\ e.heap[r].kind # "CON" /\ Grows(Out, e) /\ Keeping(Out, e)
    BY <1>1, <1>4, <1>5, <1>7, <1>9, <1>10 DEF Stores
  <2>2. \A b \in Places(e.heap) : o.heap[b].kind = IF r = b THEN "TEMP" ELSE e.heap[b].kind
    BY <1>3, <1>10, <2>1, RetypedGrows
  <2>3. \A b \in Places(Out.heap) : b \in Places(e.heap)
    BY <1>3, <2>1, GrowsPlaces
  <2>4. QED BY <2>1, <2>2, <2>3 DEF KeepingBut, Keeping, IsMem
<1>17. ASSUME Shaped(Out, Second), bad = "none" PROVE Shaped(o, node) /\ \A mem : Final(start, o).mem = mem => Denotes(o, mem, node)
  <2>1. Out.heap[Second.addr].var # None
    BY <1>1, <1>4, <1>5, <1>17
  <2>2. QED BY <1>3, <1>5, <1>11, <1>14, <1>17, <2>1, VariableStored
<1>18. ASSUME Shaped(Out, Second), \A w \in W : w = "none", active, Fair(Out, start, text), Fits(Out, start, text, Top), Fits(Out, start, text, Second)
       PROVE  Final(start, o).mem = Put(text, Second.cell, v)
  <2>1. Final(start, Out).skip = None /\ Final(start, l.o).mem = text
    BY <1>3, <1>6, <1>18 DEF Fair, Adds, Agree
  <2>2. Den(l.o, start, l.at) = v
    <3>1. ~IsMem(l.o, l.at)
      BY <1>1, <1>18
    <3>2. Reading(Out, start, Top.addr) = v
      BY <1>1, <1>2, <1>18 DEF Fits, Value
    <3>3. QED BY <1>6, <2>1, <3>1, <3>2
  <2>3. Made(l.o, start, op, l.at, None) = v
    BY <1>1, <2>2 DEF Made
  <2>4. Second.cell = IF op = "()s" THEN Den(l.o, start, r) ELSE l.o.heap[r].var
    <3>1. CASE op = "()s"
      BY <1>1, <1>4, <1>7, <1>18, <3>1 DEF Stays, Fits
    <3>2. CASE op # "()s"
      BY <1>1, <1>4, <1>5, <1>7, <1>18, <3>2 DEF Shaped
    <3>3. QED BY <3>1, <3>2
  <2>5. QED BY <1>9, <1>11, <2>1, <2>3, <2>4 DEF Stores
<1>19. \A a \in Lost(o) : a \in Lost(Out) /\ Top.addr # a /\ Second.addr # a
  BY <1>4, <1>5, <1>6, <1>7, <1>15
<1>20. BinaryStored(o, node, bad, v, W)
  BY <1>4, <1>11, <1>16, <1>17, <1>18, <1>19 DEF BinaryStored
<1>21. W \subseteq Faults /\ Top.bad \in W /\ bad # "short-circuit"
  BY <1>1, <1>3 DEF Faults
<1>22. PICK t, c : t = Second.type /\ c = Second.cell
  OBVIOUS
<1>23. Forms(node, t, c, 0, r, bad, FALSE)
  BY <1>13, <1>22
<1>24. QED BY <1>1, <1>2, <1>3, <1>5, <1>11, <1>12, <1>20, <1>21, <1>23, BinaryStores

\* The memory that an assignment of v to the left operand leaves.
Alters(o, v, W) ==
    (/\ Shaped(Out, Second) /\ (\A w \in W : w = "none") /\ active
     /\ Fair(Out, start, text) /\ Fits(Out, start, text, Top) /\ Fits(Out, start, text, Second)) =>
        Final(start, o).mem = Put(text, Second.cell, v)

LEMMA VariableAlters ==
    ASSUME IInv, Distinct(stack), NEW production, Reduces(production, 2), Assignable(Second), ~IsMem(Out, Second.addr),
           NEW o, NEW node, Reduced(2, o, node), Grows(Out, o), Keeping(Out, o), Lost(o) \subseteq Lost(Out) \ {Second.addr, Top.addr},
           node = Node(Second.type, Second.cell, 0, Second.addr),
           NEW W, W \subseteq Faults, Blame(W), Top.bad \in W, NEW v \in Int, Write(Second.cell, v), Alters(o, v, W)
    PROVE  IInv'
<1>1. /\ Good(Out) /\ Sound(Out) /\ start \in Memories /\ active \in BOOLEAN
      /\ Ready(Out, Second.addr) /\ Second.type \in Types /\ Second.cell \in Int /\ Second.addr \in Nat
  BY BinaryFacts, Operands
<1>2. Second.bad = "none" /\ ~IsEa(Second.type) /\ Out.heap[Second.addr].var # None
  BY <1>1, Targets
<1>3. PICK t, c, r : t = Second.type /\ c = Second.cell /\ r = Second.addr
  OBVIOUS
<1>4. Forms(node, t, c, 0, r, "none", FALSE)
  <2>1. 0 \in Int
    OBVIOUS
  <2>2. QED BY <1>1, <1>3, <2>1, NodeForms, Int4Is
<1>5. node.addr = Second.addr /\ node.type = Second.type /\ node.cell = Second.cell
  BY <1>3, <1>4 DEF Forms
<1>6. Shaped(Out, Second) => Shaped(o, node) /\ \A mem : Final(start, o).mem = mem => Denotes(o, mem, node)
  BY <1>1, <1>2, <1>5, VariableStored
<1>7. Sound(o) /\ Keeps(Out, o) /\ Gotos(ta_code) \subseteq Gotos(o.code) /\ Ready(o, r)
  <2>0. Out.code = ta_code
    BY DEF Out
  <2>1. PICK w : w = Out /\ w.code = ta_code
    BY <2>0
  <2>2. Gotos(w.code) \subseteq Gotos(o.code) /\ Ready(o, r)
    BY <1>1, <1>3, <2>1, GrowsGotos, GrowsReady
  <2>3. QED BY <2>1, <2>2 DEF Grows
<1>8. BinaryStored(o, node, "none", v, W)
  BY <1>6 DEF BinaryStored, Alters, Keeping, KeepingBut
<1>9. "none" # "short-circuit"
  OBVIOUS
<1>10. QED BY <1>2, <1>4, <1>7, <1>8, <1>9, BinaryStores

\* The quad that computes a variable from itself.
LEMMA Altering ==
    ASSUME IInv, Distinct(stack), NEW production, Reduces(production, 2), Assignable(Second), ~IsMem(Out, Second.addr), NEW op \in Binaries,
           NEW e, e = Emitted(Out, op, Second.addr, Second.addr, Top.addr), NEW W, IsMem(Out, Top.addr) => "address" \in W,
           NEW v, (\A w \in W : w = "none") => v = Meaning(op, Value(Second), Value(Top))
    PROVE  /\ Grows(Out, e) /\ Keeping(Out, e) /\ Lost(e) \subseteq Lost(Out) \ {Second.addr, Top.addr}
           /\ e.heap[Second.addr].kind = "ID3" /\ Ready(e, Second.addr) /\ Alters(e, v, W)
<1>1. /\ Good(Out) /\ Sound(Out) /\ Adds(Out, Out) /\ start \in Memories /\ active \in BOOLEAN
      /\ Ready(Out, Top.addr) /\ Ready(Out, Second.addr)
  BY BinaryFacts, Operands
<1>2. PICK r, a : r = Second.addr /\ a = Top.addr
  OBVIOUS
<1>3. /\ r \notin Lost(Out) /\ ~IsEa(Second.type) /\ ~IsStruct(Second.type) /\ r \in Places(Out.heap)
      /\ Out.heap[r].var # None /\ Out.heap[r].kind = "ID3"
  BY <1>1, <1>2, Targets
<1>4. Grows(Out, Out) /\ Keeping(Out, Out)
  BY <1>1, AddsGrows
<1>5. op # "()s" /\ Emits(Out, op, r, r, a)
  BY <1>1, <1>2, <1>3 DEF Emits, Binaries
<1>6. Stores(Out, op, r, r, a, e)
  BY <1>1, <1>2, <1>3, <1>4, <1>5, Storing
<1>7. Lost(e) \subseteq Lost(Out) \ {r, a}
  BY <1>3, <1>6 DEF Stores, LostBy
<1>8. e.heap[r].kind = "ID3"
  BY <1>3, <1>6 DEF Stores, SameKinds
<1>9. ASSUME Shaped(Out, Second), \A w \in W : w = "none", active, Fair(Out, start, text), Fits(Out, start, text, Top), Fits(Out, start, text, Second)
      PROVE  Final(start, e).mem = Put(text, Second.cell, v)
  <2>1. Final(start, Out).skip = None /\ Final(start, Out).mem = text
    BY <1>9 DEF Fair
  <2>2. Den(Out, start, r) = Value(Second) /\ Den(Out, start, a) = Value(Top)
    BY <1>2, <1>9 DEF Fits, Value
  <2>3. Made(Out, start, op, r, a) = v
    <3>1. op \notin {"=", "()s", "()", "la", "!"}
      BY DEF Binaries
    <3>2. QED BY <1>9, <2>2, <3>1 DEF Made
  <2>4. Second.cell = Out.heap[r].var
    BY <1>2, <1>3, <1>9 DEF Shaped
  <2>5. QED BY <1>5, <1>6, <2>1, <2>3, <2>4 DEF Stores
<1>10. QED BY <1>2, <1>4, <1>6, <1>7, <1>8, <1>9 DEF Stores, Alters

\* e op= f, of an object that is reached through an address.
LEMMA MemAlters ==
    ASSUME IInv, Distinct(stack), NEW production, Reduces(production, 2), Assignable(Second), IsMem(Out, Second.addr), NEW op \in Binaries,
           NEW t1, NEW t, NEW e, NEW o, NEW node, NEW v \in Int, t1 = Computed(Out, NewTemp, "()", Second.addr, None), t = Last(t1),
           e = Emitted(t1, op, t, t, Top.addr), o = Emitted(e, "()s", Second.addr, t, None),
           node = Node(Second.type, None, v, t), Reduced(2, o, node),
           NEW W, W \subseteq Faults, Blame(W), Top.bad \in W, IsMem(Out, Top.addr) => "address" \in W,
           Write(Second.cell, v), (\A w \in W : w = "none") => v = Meaning(op, Value(Second), Value(Top))
    PROVE  IInv'
<1>1. /\ Good(Out) /\ Sound(Out) /\ Adds(Out, Out) /\ start \in Memories /\ active \in BOOLEAN
      /\ Ready(Out, Top.addr) /\ Ready(Out, Second.addr) /\ Second.type \in Types
  BY BinaryFacts, Operands
<1>2. PICK r, a : r = Second.addr /\ a = Top.addr
  OBVIOUS
<1>3. /\ r \notin Lost(Out) /\ Second.bad = "none" /\ ~IsStruct(Second.type) /\ r \in Places(Out.heap)
  BY <1>1, <1>2, Targets
<1>4. Computes(Out, Out, NewTemp, "()", r, None, t1)
  BY <1>1, <1>2, Copying DEF Copies
<1>5. /\ Adds(Out, t1) /\ Good(t1) /\ Ready(t1, t) /\ t1.heap[t].var = None /\ t1.heap[t].kind = "TEMP" /\ ~IsMem(t1, t)
      /\ Lost(t1) \subseteq Lost(Out) \ {r}
  BY <1>4, KindsDiffer DEF Computes, Adds, NewTemp, Address
<1>6. t \notin Places(Out.heap)
  BY <1>1, <1>2, LastIs DEF Copies
<1>7. Stays(Out, t1, r) /\ Stays(Out, t1, a)
  BY <1>1, <1>2, <1>5, Staying
<1>8. op # "()s" /\ Emits(t1, op, t, t, a)
  BY <1>5, <1>7 DEF Emits, Binaries, Ready, Stays
<1>9. Recomputes(t1, op, t, t, a, e)
  <2>1. e = Emitted(t1, op, t, t, a) /\ t1.heap[t].kind # "CON"
    BY <1>2, <1>5
  <2>2. QED BY <1>1, <1>5, <1>6, <1>8, <2>1, Recomputing
<1>10. /\ Adds(Out, e) /\ Good(e) /\ Ready(e, t) /\ Lost(e) \subseteq Lost(Out) \ {r, a} /\ Keeps(t1, e) /\ SameKinds(t1, e)
  BY <1>5, <1>9 DEF Recomputes, Adds
<1>11. /\ Grows(Out, e) /\ Keeping(Out, e) /\ Ready(e, r) /\ e.heap[r].kind = Out.heap[r].kind
  BY <1>1, <1>2, <1>10, AddsFacts, AddsReady
<1>12. Emits(e, "()s", r, t, None)
  BY <1>3, <1>10, <1>11 DEF Emits, Binaries, Ready
<1>13. Stores(e, "()s", r, t, None, o)
  BY <1>1, <1>2, <1>11, <1>12, Storing
<1>14. Grows(Out, o) /\ Keeping(Out, o) /\ Lost(o) \subseteq Lost(Out) \ {r, a} /\ Grows(e, o) /\ SameKinds(e, o)
  <2>1. LostBy(e, r, t, None) \subseteq Lost(e)
    <3>1. r \in Places(e.heap) /\ e.heap[r].kind = "MEM"
      BY SMTT(30), <1>2, <1>11 DEF IsMem, Ready, Places
    <3>2. e.heap \in Seq(Addresses)
      BY <1>10 DEF Good, Outs
    <3>3. e.heap[r].var = None
      BY <3>1, <3>2 DEF Addresses, Places
    <3>4. QED BY <3>3 DEF LostBy
  <2>2. QED BY <1>10, <1>11, <1>13, <2>1 DEF Stores
<1>15. t \in Places(t1.heap) /\ t \in Places(e.heap) /\ e.heap[t].var = None /\ e.heap[t].kind = "TEMP"
  BY <1>5, <1>10 DEF Ready, Keeps, Same, SameKinds
<1>16. Temporary(o, t) /\ Den(o, start, t) = Den(e, start, t)
  <2>1. Den(o, start, t) = Den(e, start, t) /\ o.heap[t].var = None
    BY <1>1, <1>10, <1>14, <1>15, HeldOn
  <2>2. Ready(o, t)
    BY <1>10, <1>14, GrowsReady
  <2>3. QED BY <1>14, <1>15, <2>1, <2>2 DEF Temporary, SameKinds, IsMem
<1>17. PICK ty : ty = Second.type
  OBVIOUS
<1>18. Forms(node, ty, None, v, t, "none", FALSE)
  <2>1. t \in Nat
    BY <1>15 DEF Places
  <2>2. QED BY <1>1, <1>17, <2>1, NodeForms, Int4Is
<1>19. node.addr = t /\ node.type = Second.type /\ node.cell = None /\ node.val = v
  BY <1>17, <1>18 DEF Forms
<1>20. Shaped(o, node)
  BY <1>3, <1>16, <1>19 DEF Shaped, Temporary
<1>21. ASSUME \A w \in W : w = "none", active, Fair(Out, start, text), Fits(Out, start, text, Top), Fits(Out, start, text, Second)
       PROVE  Final(start, o).mem = Put(text, Second.cell, v) /\ Denotes(o, Put(text, Second.cell, v), node)
  <2>1. Final(start, Out).skip = None /\ Final(start, Out).mem = text /\ Final(start, e).mem = text
    BY <1>1, <1>10, <1>21 DEF Fair, Adds, Agree
  <2>2. Den(Out, start, r) = Second.cell /\ Reading(Out, start, r) = Value(Second) /\ Den(Out, start, a) = Value(Top)
    BY <1>2, <1>3, <1>21 DEF Fits, Value
  <2>3. Den(t1, start, t) = Value(Second)
    <3>1. Made(Out, start, "()", r, None) = Reading(Out, start, r)
      BY <1>2 DEF Made, Reading
    <3>2. QED BY <1>1, <1>4, <2>1, <2>2, <3>1 DEF Computes
  <2>4. Den(e, start, t) = v
    <3>1. Made(t1, start, op, t, a) = Meaning(op, Value(Second), Value(Top))
      <4>1. op \notin {"=", "()s", "()", "la", "!"}
        BY DEF Binaries
      <4>2. QED BY <1>7, <2>2, <2>3, <4>1 DEF Made, Stays
    <3>2. QED BY <1>9, <1>21, <2>1, <3>1 DEF Recomputes
  <2>5. Den(e, start, r) = Second.cell
    <3>1. r \in Places(t1.heap) \ {t}
      BY <1>3, <1>6, <1>7 DEF Stays, Ready
    <3>2. QED BY <1>7, <1>9, <2>2, <3>1 DEF Recomputes, Stays
  <2>6. Made(e, start, "()s", t, None) = v
    BY <2>4 DEF Made
  <2>7. Denotes(o, Put(text, Second.cell, v), node)
    BY <1>16, <1>19, <2>4 DEF Denotes, Temporary, ValueIn
  <2>8. QED BY <1>13, <2>1, <2>5, <2>6, <2>7 DEF Stores
<1>22. BinaryStored(o, node, "none", v, W)
  BY <1>2, <1>14, <1>20, <1>21 DEF BinaryStored, Keeping, KeepingBut
<1>23. Sound(o) /\ Keeps(Out, o) /\ Gotos(ta_code) \subseteq Gotos(o.code)
  <2>0. Out.code = ta_code
    BY DEF Out
  <2>1. PICK w : w = Out /\ w.code = ta_code
    BY <2>0
  <2>2. Gotos(w.code) \subseteq Gotos(o.code)
    BY <1>1, <1>14, <2>1, GrowsGotos
  <2>3. QED BY <1>14, <2>1, <2>2 DEF Grows
<1>24. Ready(o, t) /\ "none" # "short-circuit"
  BY <1>16 DEF Temporary
<1>25. QED BY <1>3, <1>18, <1>22, <1>23, <1>24, BinaryStores

\* e op= f, whatever the operator.
LEMMA CompoundKeeps == ASSUME IInv, Distinct(stack), NEW production, NEW op \in Binaries, CompoundAssign(production, op) PROVE IInv'
<1>1. PICK v, W : /\ v = Meaning(op, Value(Second), Value(Top) * Increment(Second))
                  /\ W = {Top.bad, IF IsMem(Out, Top.addr) THEN "address" ELSE "none", IF IsPointer(Second.type) THEN "unscaled" ELSE "none"}
                  /\ Blame(W) /\ Write(Second.cell, v) /\ Reduces(production, 2) /\ Assignable(Second)
  BY Zenon DEF CompoundAssign
<1>2. /\ Good(Out) /\ Sound(Out) /\ Adds(Out, Out) /\ start \in Memories /\ active \in BOOLEAN
      /\ Ready(Out, Top.addr) /\ Top.bad \in Faults /\ Value(Top) \in Int /\ Value(Second) \in Int /\ Ready(Out, Second.addr)
  BY <1>1, BinaryFacts, Operands
<1>3. v \in Int
  <2>1. Increment(Second) \in Int
    BY DEF Increment, Word
  <2>2. PICK x, y : x = Value(Second) /\ y = Value(Top) * Increment(Second)
    OBVIOUS
  <2>3. x \in Int /\ y \in Int
    BY <1>2, <2>1, <2>2
  <2>4. QED BY <1>1, <2>2, <2>3, MeaningIs
<1>4. /\ W \subseteq Faults /\ Top.bad \in W /\ (IsMem(Out, Top.addr) => "address" \in W)
  BY <1>1, <1>2 DEF Faults
<1>5. ASSUME \A w \in W : w = "none" PROVE v = Meaning(op, Value(Second), Value(Top))
  <2>1. "unscaled" \notin W
    BY <1>5
  <2>2. ~IsPointer(Second.type)
    BY <1>1, <2>1
  <2>3. Value(Top) * Increment(Second) = Value(Top)
    BY <1>2, <2>2 DEF Increment
  <2>4. QED BY <1>1, <2>3
<1>6. CASE IsMem(Out, Second.addr)
  <2>1. PICK t1, t, e, o, node :
           /\ t1 = Computed(Out, NewTemp, "()", Second.addr, None) /\ t = Last(t1)
           /\ e = Emitted(t1, op, t, t, Top.addr) /\ o = Emitted(e, "()s", Second.addr, t, None)
           /\ node = Node(Second.type, None, v, t) /\ Reduced(2, o, node)
    <3>1. Reduced(2, Emitted(Emitted(Computed(Out, NewTemp, "()", Second.addr, None), op, Last(Computed(Out, NewTemp, "()", Second.addr, None)), Last(Computed(Out, NewTemp, "()", Second.addr, None)), Top.addr), "()s", Second.addr, Last(Computed(Out, NewTemp, "()", Second.addr, None)), None), Node(Second.type, None, v, Last(Computed(Out, NewTemp, "()", Second.addr, None))))
      BY <1>1, <1>6 DEF CompoundAssign
    <3>2. QED BY <3>1
  <2>2. QED BY <1>1, <1>3, <1>4, <1>5, <1>6, <2>1, MemAlters
<1>7. CASE ~IsMem(Out, Second.addr)
  <2>1. PICK e, o, node :
           /\ e = Emitted(Out, op, Second.addr, Second.addr, Top.addr) /\ o = Retyped(e, Second.addr)
           /\ node = Node(Second.type, Second.cell, 0, Second.addr) /\ Reduced(2, o, node)
    <3>1. Reduced(2, Retyped(Emitted(Out, op, Second.addr, Second.addr, Top.addr), Second.addr), Node(Second.type, Second.cell, 0, Second.addr))
      BY <1>1, <1>7 DEF CompoundAssign
    <3>2. QED BY <3>1
  <2>2. /\ Grows(Out, e) /\ Keeping(Out, e) /\ Lost(e) \subseteq Lost(Out) \ {Second.addr, Top.addr}
        /\ e.heap[Second.addr].kind = "ID3" /\ Ready(e, Second.addr) /\ Alters(e, v, W)
    BY <1>1, <1>4, <1>5, <1>7, <2>1, Altering
  <2>3. PICK r : r = Second.addr
    OBVIOUS
  <2>4. r \in Places(e.heap) /\ e.heap[r].kind # "CON" /\ ~IsMem(e, r) /\ o = Retyped(e, r)
    BY <2>1, <2>2, <2>3 DEF Ready, IsMem
  <2>5. /\ Grows(Out, o) /\ (Keeping(Out, e) /\ ~IsMem(e, r) => Keeping(Out, o)) /\ Lost(o) = Lost(e)
        /\ \A mem \in Memories : Final(mem, o).mem = Final(mem, e).mem
    BY <1>2, <2>2, <2>4, RetypedGrows
  <2>6. Final(start, o).mem = Final(start, e).mem
    BY <1>2, <2>5
  <2>7. Alters(o, v, W)
    BY <2>2, <2>6 DEF Alters
  <2>8. Lost(o) \subseteq Lost(Out) \ {Second.addr, Top.addr} /\ Grows(Out, o) /\ Keeping(Out, o)
    BY <2>2, <2>4, <2>5
  <2>9. QED BY <1>1, <1>3, <1>4, <1>7, <2>1, <2>7, <2>8, VariableAlters
<1>8. QED BY <1>6, <1>7

\* e %= f
LEMMA AssignModKeeps == ASSUME IInv, Distinct(stack), AssignMod PROVE IInv'
<1>1. PICK v, W, e, node :
         /\ v = Meaning("%", Value(Second), Value(Top))
         /\ W = {Top.bad, IF IsMem(Out, Top.addr) \/ IsMem(Out, Second.addr) THEN "address" ELSE "none"}
         /\ e = Emitted(Out, "%", Second.addr, Second.addr, Top.addr) /\ node = Node(Int4, Second.cell, 0, Second.addr)
         /\ Blame(W) /\ Write(Second.cell, v) /\ Reduces("%=", 2) /\ Assignable(Second) /\ Reduced(2, e, node) /\ Second.type = Int4
  BY Zenon DEF AssignMod
<1>2. /\ Good(Out) /\ Sound(Out) /\ Adds(Out, Out) /\ start \in Memories /\ active \in BOOLEAN /\ Second.cell \in Int /\ Second.addr \in Nat
      /\ Ready(Out, Top.addr) /\ Top.bad \in Faults /\ Value(Top) \in Int /\ Value(Second) \in Int /\ Ready(Out, Second.addr)
  BY <1>1, BinaryFacts, Operands
<1>3. v \in Int /\ "%" \in Binaries
  BY <1>1, <1>2, MeaningIs DEF Binaries
<1>4. /\ W \subseteq Faults /\ Top.bad \in W /\ (IsMem(Out, Top.addr) => "address" \in W) /\ (IsMem(Out, Second.addr) => "address" \in W)
  BY <1>1, <1>2 DEF Faults
<1>5. CASE ~IsMem(Out, Second.addr)
  <2>1. /\ Grows(Out, e) /\ Keeping(Out, e) /\ Lost(e) \subseteq Lost(Out) \ {Second.addr, Top.addr} /\ Alters(e, v, W)
    BY <1>1, <1>3, <1>4, <1>5, Altering
  <2>2. node = Node(Second.type, Second.cell, 0, Second.addr)
    BY <1>1
  <2>3. QED BY <1>1, <1>3, <1>4, <1>5, <2>1, <2>2, VariableAlters
<1>6. CASE IsMem(Out, Second.addr)
  <2>1. PICK o, r, a, c : o = Out /\ r = Second.addr /\ a = Top.addr /\ c = Second.cell
    OBVIOUS
  <2>2. o.heap[r].var = None /\ o.heap[r].kind = "MEM" /\ Second.bad = "none" /\ o.code = ta_code
    BY <1>1, <1>2, <1>6, <2>1, Targets DEF IsMem, Out
  <2>3. Emits(o, "%", r, r, a)
    BY <1>2, <1>3, <2>1 DEF Emits, Ready
  <2>4. Good(e) /\ Keeps(o, e) /\ SameKinds(o, e) /\ Ready(e, r) /\ Lost(e) \subseteq LostBy(o, r, r, a)
    BY <1>1, <1>2, <2>1, <2>3, EmittedGood
  <2>5. Alike(o, e, {}, Len(o.code) + 1)
    BY <1>1, <1>2, <2>1, <2>3, EmittedAlike
  <2>6. Lost(e) \subseteq Lost(o)
    BY <2>2, <2>4 DEF LostBy
  <2>7. Sound(e)
    <3>1. Lost(o) \subseteq Places(o.heap)
      BY <1>2, <2>1, LostPlaces
    <3>2. QED BY <1>2, <2>1, <2>4, <2>6, <3>1 DEF Sound, SameKinds
  <2>8. Gotos(ta_code) \subseteq Gotos(e.code)
    <3>1. Len(o.code) \in Nat /\ Len(e.code) \in Nat
      BY <1>2, <2>1, <2>4 DEF Good, Outs
    <3>2. Places(o.code) \subseteq Places(e.code)
      BY <2>4, <3>1 DEF Keeps, Places
    <3>3. \A k \in Places(o.code) : o.code[k].op = e.code[k].op
      BY <2>5 DEF Alike, Likewise
    <3>4. Gotos(o.code) \subseteq Gotos(e.code)
      BY <3>2, <3>3 DEF Gotos
    <3>5. QED BY <2>2, <3>4
  <2>9. Forms(node, Int4, c, 0, r, "none", FALSE)
    <3>1. 0 \in Int
      OBVIOUS
    <3>2. QED BY <1>1, <1>2, <2>1, <3>1, NodeForms, Int4Is
  <2>10. BinaryStored(e, node, "none", v, W)
    <3>1. "address" \in W /\ "address" # "none"
      BY <1>4, <1>6
    <3>2. QED BY <3>1 DEF BinaryStored
  <2>11. Sound(e) /\ Keeps(Out, e) /\ "none" # "short-circuit"
    BY <2>1, <2>4, <2>7
  <2>12. QED BY <1>1, <1>3, <1>4, <2>2, <2>4, <2>8, <2>9, <2>10, <2>11, BinaryStores
<1>7. QED BY <1>5, <1>6

(***************************************************************************)
(* ++ and --.                                                              *)
(***************************************************************************)
LEMMA SumIs == ASSUME NEW x \in Int, NEW y \in Int PROVE Meaning("+", x, y) = x + y
<1>1. Defined("+", x, y)
  BY DEF Defined
<1>2. QED BY <1>1 DEF Meaning

LEMMA IncrementIs == Increment(Top) \in Int
BY DEF Increment, Word

LEMMA PlacesOn == ASSUME NEW o, NEW d, Good(o), Adds(o, d) PROVE Places(o.heap) \subseteq Places(d.heap) /\ Good(d)
<1>1. Good(d) /\ Len(o.heap) <= Len(d.heap)
  BY DEF Adds, Keeps
<1>2. Len(o.heap) \in Nat /\ Len(d.heap) \in Nat
  BY <1>1 DEF Good, Outs
<1>3. QED BY <1>1, <1>2 DEF Places

LEMMA VarsOn == ASSUME NEW o, NEW d, Adds(o, d), NEW a \in Places(o.heap)
                PROVE  d.heap[a].var = o.heap[a].var /\ d.heap[a].kind = o.heap[a].kind /\ (IsMem(d, a) <=> IsMem(o, a))
BY DEF Adds, Keeps, Same, SameKinds, IsMem

LEMMA KeptIs == ASSUME NEW o, NEW d, Keeps(o, d), NEW a \in Places(o.heap) PROVE d.heap[a].var = o.heap[a].var
BY DEF Keeps, Same
LEMMA KindIs == ASSUME NEW o, NEW d, SameKinds(o, d), NEW a \in Places(o.heap) PROVE IsMem(d, a) <=> IsMem(o, a)
BY DEF SameKinds, IsMem

\* What the code of an increment gives: the object is v, and r has val.
Counts(o, r, val, v) ==
    (Shaped(Out, Top) /\ active /\ Fair(Out, start, text) /\ Fits(Out, start, text, Top)) =>
        Final(start, o).mem = Put(text, Top.cell, v) /\ Den(o, start, r) = val

LEMMA Incremented ==
    ASSUME IInv, Distinct(stack), NEW production, Reduces(production, 1), Assignable(Top), NEW o, Grows(Out, o), Keeping(Out, o),
           NEW r, Ready(o, r), o.heap[r].var = None, IsMem(o, r) => IsPointer(Top.type), Lost(o) \subseteq Lost(Out) \ {Top.addr},
           NEW val \in Int, NEW node, node = [Node(Top.type, None, val, r) EXCEPT !.bad = PointerBad(Top.type)], Reduced(1, o, node),
           NEW v \in Int, Write(Top.cell, v), UNCHANGED fault, Counts(o, r, val, v)
    PROVE  IInv'
<1>1. /\ Good(Out) /\ Sound(Out) /\ start \in Memories /\ active \in BOOLEAN /\ Ready(Out, Top.addr) /\ Top.type \in Types
  BY Operands, UnaryFacts
<1>2. Top.bad = "none" /\ ~IsStruct(Top.type) /\ Top.addr \notin Lost(Out)
  BY <1>1, Targets
<1>3. PICK t, bad : t = Top.type /\ bad = PointerBad(Top.type)
  OBVIOUS
<1>4. bad \in Faults /\ bad # "short-circuit" /\ (bad = "none" => ~IsMem(o, r))
  BY <1>3 DEF PointerBad, Faults
<1>5. Forms(node, t, None, val, r, bad, FALSE)
  <2>1. r \in Nat
    BY DEF Ready, Places
  <2>2. node = [Node(t, None, val, r) EXCEPT !.bad = bad] /\ t \in Types
    BY <1>1, <1>3
  <2>3. QED BY <1>1, <1>4, <2>1, <2>2, NodeForms, Int4Is
<1>6. node.addr = r /\ node.type = t /\ node.cell = None /\ node.val = val
  BY <1>5 DEF Forms
<1>7. bad = "none" => Shaped(o, node)
  BY <1>2, <1>3, <1>4, <1>6 DEF Shaped
<1>8. bad = "none" => \A mem : Den(o, start, r) = val => Denotes(o, mem, node)
  BY <1>4, <1>6 DEF Denotes, ValueIn
<1>9. UnaryStored(o, node, r, bad, FALSE, v)
  BY <1>7, <1>8 DEF UnaryStored, Counts
<1>10. QED BY <1>2, <1>4, <1>5, <1>9, UnaryStores

\* e++ of a variable.
LEMMA PostVariable ==
    ASSUME IInv, Distinct(stack), Reduces("post", 1), Assignable(Top), ~IsMem(Out, Top.addr), NEW x, x = (IF IsPointer(Top.type) THEN NewMem ELSE NewTemp),
           NEW inc, inc = With(Out, New3Const(Increment(Top))), NEW e, e = Computed(inc, x, "=", Top.addr, None), NEW r, r = Last(e),
           NEW o, o = Emitted(e, "+", Top.addr, Top.addr, Last(inc)),
           NEW node, node = [Node(Top.type, None, Value(Top), r) EXCEPT !.bad = PointerBad(Top.type)], Reduced(1, o, node),
           Write(Top.cell, Value(Top) + Increment(Top)), UNCHANGED fault
    PROVE  IInv'
<1>1. /\ Good(Out) /\ Sound(Out) /\ Adds(Out, Out) /\ start \in Memories /\ active \in BOOLEAN /\ Ready(Out, Top.addr) /\ Value(Top) \in Int
  BY Operands, UnaryFacts
<1>2. PICK a, c, b : a = Top.addr /\ c = Increment(Top) /\ b = Last(inc) /\ c \in Int
  BY IncrementIs
<1>3. /\ Top.bad = "none" /\ a \notin Lost(Out) /\ Out.heap[a].var # None /\ Out.heap[a].kind = "ID3" /\ ~IsStruct(Top.type) /\ ~IsEa(Top.type)
  BY <1>1, <1>2, Targets
<1>4. Constants(Out, Out, c, inc)
  BY <1>1, <1>2, Naming
<1>5. Adds(Out, inc) /\ Good(inc) /\ Ready(inc, b) /\ Lost(inc) = Lost(Out) /\ Den(inc, start, b) = c
  BY <1>1, <1>2, <1>4 DEF Constants, Adds
<1>6. Stays(Out, inc, a)
  BY <1>1, <1>2, <1>5, Staying
<1>7. Computes(Out, inc, x, "=", a, None, e)
  <2>1. x \in {NewTemp, NewMem} /\ "=" \in Copies
    BY DEF Copies
  <2>2. QED BY <1>1, <1>2, <1>5, <1>6, <2>1, Copying DEF Stays
<1>8. /\ Adds(Out, e) /\ Adds(inc, e) /\ Good(e) /\ Ready(e, r) /\ e.heap[r].var = None /\ e.heap[r].kind = x.kind
      /\ (IsMem(e, r) <=> x = NewMem) /\ Lost(e) \subseteq Lost(Out) \ {a}
      /\ (Final(start, Out).skip = None => Den(e, start, r) = Made(inc, start, "=", a, None))
  BY SMTT(30), <1>1, <1>5, <1>7 DEF Computes, Adds
<1>9. Stays(Out, e, a) /\ Stays(inc, e, b) /\ e.heap[a].var = Out.heap[a].var /\ e.heap[a].kind = "ID3" /\ Grows(Out, e) /\ Keeping(Out, e)
  <2>1. Stays(Out, e, a) /\ Stays(inc, e, b)
    BY <1>1, <1>2, <1>5, <1>8, Staying
  <2>2. Grows(Out, e) /\ Keeping(Out, e)
    BY <1>1, <1>8, AddsFacts
  <2>3. QED BY <1>1, <1>2, <1>3, <1>8, <2>1, <2>2 DEF Adds, SameKinds, Keeps, Same, Ready
<1>10. Emits(e, "+", a, a, b)
  BY <1>3, <1>9 DEF Emits, Binaries, Stays, Ready
<1>11. Stores(e, "+", a, a, b, o)
  BY <1>1, <1>2, <1>3, <1>9, <1>10, Storing
<1>12. Lost(o) \subseteq Lost(Out) \ {a} /\ Grows(Out, o) /\ Keeping(Out, o) /\ Grows(e, o)
  BY <1>8, <1>9, <1>11 DEF Stores, LostBy
<1>13. Ready(o, r) /\ o.heap[r].var = None /\ Den(o, start, r) = Den(e, start, r) /\ (IsMem(o, r) => IsPointer(Top.type))
  <2>1. Den(o, start, r) = Den(e, start, r) /\ o.heap[r].var = None
    BY <1>1, <1>8, <1>12, HeldOn DEF Ready
  <2>2. Ready(o, r)
    BY <1>8, <1>12, GrowsReady
  <2>3. IsMem(o, r) => IsPointer(Top.type)
    BY <1>8, <1>11, KindsDiffer DEF Stores, SameKinds, IsMem, Ready
  <2>4. QED BY <2>1, <2>2, <2>3
<1>14. Counts(o, r, Value(Top), Value(Top) + c)
  <2> SUFFICES ASSUME Shaped(Out, Top), active, Fair(Out, start, text), Fits(Out, start, text, Top)
               PROVE  Final(start, o).mem = Put(text, Top.cell, Value(Top) + c) /\ Den(o, start, r) = Value(Top)
    BY DEF Counts
  <2>1. Final(start, Out).skip = None /\ Final(start, e).mem = text
    BY <1>1, <1>8 DEF Fair, Adds, Agree
  <2>2. Den(Out, start, a) = Value(Top) /\ Top.cell = Out.heap[a].var
    BY <1>2, <1>3 DEF Fits, Shaped, Value
  <2>3. Den(e, start, r) = Value(Top)
    BY <1>6, <1>8, <2>1, <2>2 DEF Made, Stays
  <2>4. Den(e, start, a) = Value(Top) /\ Den(e, start, b) = c
    BY <1>5, <1>9, <2>2 DEF Stays
  <2>5. Made(e, start, "+", a, b) = Value(Top) + c
    <3>1. Made(e, start, "+", a, b) = Meaning("+", Value(Top), c)
      BY <2>4 DEF Made
    <3>2. QED BY <1>1, <1>2, <3>1, SumIs
  <2>6. Final(start, o).mem = Put(text, Top.cell, Value(Top) + c)
    BY <1>9, <1>11, <2>1, <2>2, <2>5 DEF Stores
  <2>7. QED BY <1>13, <2>3, <2>6
<1>15. PICK v : v = Value(Top) + c /\ v \in Int
  BY <1>1, <1>2
<1>16. QED BY <1>1, <1>2, <1>12, <1>13, <1>14, <1>15, Incremented

\* e++ of an object that is reached through an address.
LEMMA PostMem ==
    ASSUME IInv, Distinct(stack), Reduces("post", 1), Assignable(Top), IsMem(Out, Top.addr), NEW x, x = (IF IsPointer(Top.type) THEN NewMem ELSE NewTemp),
           NEW inc, inc = With(Out, New3Const(Increment(Top))), NEW d, d = Computed(inc, x, "()", Top.addr, None), NEW r, r = Last(d),
           NEW w, w = Computed(d, NewTemp, "=", r, None), NEW t, t = Last(w), NEW e, e = Emitted(w, "+", t, t, Last(inc)),
           NEW o, o = Emitted(e, "()s", Top.addr, t, None),
           NEW node, node = [Node(Top.type, None, Value(Top), r) EXCEPT !.bad = PointerBad(Top.type)], Reduced(1, o, node),
           Write(Top.cell, Value(Top) + Increment(Top)), UNCHANGED fault
    PROVE  IInv'
<1>1. /\ Good(Out) /\ Sound(Out) /\ Adds(Out, Out) /\ start \in Memories /\ active \in BOOLEAN /\ Ready(Out, Top.addr) /\ Value(Top) \in Int
  BY Operands, UnaryFacts
<1>2. PICK a, c, b : a = Top.addr /\ c = Increment(Top) /\ b = Last(inc) /\ c \in Int
  BY IncrementIs
<1>3. /\ Top.bad = "none" /\ a \notin Lost(Out) /\ Out.heap[a].var = None /\ ~IsStruct(Top.type) /\ a \in Places(Out.heap)
  BY <1>1, <1>2, Targets
<1>4. Constants(Out, Out, c, inc)
  BY <1>1, <1>2, Naming
<1>5. Adds(Out, inc) /\ Good(inc) /\ Ready(inc, b) /\ Lost(inc) = Lost(Out) /\ Den(inc, start, b) = c
  BY <1>1, <1>2, <1>4 DEF Constants, Adds
<1>6. Stays(Out, inc, a)
  BY <1>1, <1>2, <1>5, Staying
<1>7. Computes(Out, inc, x, "()", a, None, d)
  <2>1. x \in {NewTemp, NewMem} /\ "()" \in Copies
    BY DEF Copies
  <2>2. QED BY <1>1, <1>2, <1>5, <1>6, <2>1, Copying DEF Stays
<1>8. /\ Adds(Out, d) /\ Adds(inc, d) /\ Good(d) /\ Ready(d, r) /\ d.heap[r].var = None
      /\ (IsMem(d, r) <=> x = NewMem) /\ Lost(d) \subseteq Lost(Out) \ {a}
      /\ (Final(start, Out).skip = None => Den(d, start, r) = Made(inc, start, "()", a, None))
  BY <1>1, <1>5, <1>7 DEF Computes, Adds
<1>9. Computes(Out, d, NewTemp, "=", r, None, w)
  <2>1. "=" \in Copies
    BY ZenonT(30) DEF Copies
  <2>2. QED BY <1>1, <1>8, <2>1, Copying
<1>10. /\ Adds(Out, w) /\ Adds(d, w) /\ Good(w) /\ Ready(w, t) /\ w.heap[t].var = None /\ w.heap[t].kind = "TEMP"
       /\ Lost(w) \subseteq Lost(Out) \ {a}
       /\ (Final(start, Out).skip = None => Den(w, start, t) = Made(d, start, "=", r, None))
  <2>1. NewTemp.kind = "TEMP"
    BY DEF NewTemp, Address
  <2>2. QED BY ZenonT(60), <1>1, <1>8, <1>9, <2>1 DEF Computes, Adds
<1>11. t \notin Places(d.heap) /\ r \in Places(d.heap) /\ Places(Out.heap) \subseteq Places(d.heap)
  <2>1. t \notin Places(d.heap)
    BY <1>1, <1>8, LastIs DEF Copies
  <2>2. QED BY <1>1, <1>8, <2>1, PlacesOn DEF Ready
<1>12. Stays(Out, w, a) /\ Stays(d, w, r) /\ Stays(inc, w, b) /\ w.heap[r].var = None /\ b \in Places(d.heap)
  <2>1. Adds(inc, w)
    BY <1>5, <1>8, <1>10, AddsOn
  <2>2. Stays(Out, w, a) /\ Stays(d, w, r) /\ Stays(inc, w, b) /\ Ready(d, b)
    BY <1>1, <1>2, <1>5, <1>8, <1>10, <2>1, Staying, AddsReady
  <2>3. r \in Places(d.heap) /\ b \in Places(d.heap)
    BY <1>8, <2>2 DEF Ready
  <2>4. QED BY <1>8, <1>10, <2>2, <2>3, VarsOn
<1>13. "+" # "()s" /\ Emits(w, "+", t, t, b)
  BY <1>10, <1>12 DEF Emits, Binaries, Ready, Stays
<1>14. Recomputes(w, "+", t, t, b, e)
  <2>1. e = Emitted(w, "+", t, t, b) /\ w.heap[t].kind # "CON" /\ t \notin Places(Out.heap)
    BY <1>2, <1>10, <1>11
  <2>2. QED BY <1>1, <1>10, <1>13, <2>1, Recomputing
<1>15. /\ Adds(Out, e) /\ Good(e) /\ Ready(e, t) /\ Lost(e) \subseteq Lost(Out) \ {a} /\ Keeps(w, e) /\ SameKinds(w, e)
  <2>1. Adds(Out, e) /\ Ready(e, t) /\ Lost(e) \subseteq Lost(w) /\ Keeps(w, e) /\ SameKinds(w, e)
    BY <1>14 DEF Recomputes
  <2>2. QED BY <1>1, <1>10, <2>1, PlacesOn
<1>16. /\ Grows(Out, e) /\ Keeping(Out, e) /\ Ready(e, a) /\ e.heap[a].kind = Out.heap[a].kind
  BY SMTT(30), <1>1, <1>2, <1>15, AddsFacts, AddsReady
<1>17. Emits(e, "()s", a, t, None)
  BY <1>3, <1>15, <1>16 DEF Emits, Binaries, Ready
<1>18. Stores(e, "()s", a, t, None, o)
  BY SMTT(30), <1>1, <1>2, <1>16, <1>17, Storing
<1>19. Grows(Out, o) /\ Keeping(Out, o) /\ Lost(o) \subseteq Lost(Out) \ {a} /\ Grows(e, o) /\ SameKinds(e, o)
  <2>1. LostBy(e, a, t, None) \subseteq Lost(e)
    <3>1. e.heap[a].var = None
      BY <1>3, <1>15, VarsOn
    <3>2. QED BY <3>1 DEF LostBy
  <2>2. QED BY <1>15, <1>16, <1>18, <2>1 DEF Stores
<1>20. Ready(e, r) /\ r \in Places(w.heap) \ {t} /\ r \in Places(e.heap) /\ e.heap[r].var = None /\ (IsMem(e, r) <=> IsMem(d, r))
  <2>1. Ready(e, r)
    BY <1>10, <1>12, <1>15, KeepsReady DEF Stays
  <2>2. r \in Places(w.heap) \ {t}
    BY <1>11, <1>12 DEF Stays, Ready
  <2>3. e.heap[r].var = None /\ (IsMem(e, r) <=> IsMem(w, r))
    <3>1. r \in Places(w.heap)
      BY <2>2
    <3>2. QED BY <1>12, <1>15, <3>1, KeptIs, KindIs
  <2>4. QED BY <1>12, <2>1, <2>2, <2>3 DEF Stays, Ready
<1>21. Ready(o, r) /\ o.heap[r].var = None /\ Den(o, start, r) = Den(e, start, r) /\ (IsMem(o, r) => IsPointer(Top.type))
  <2>1. Den(o, start, r) = Den(e, start, r) /\ o.heap[r].var = None
    BY <1>1, <1>15, <1>19, <1>20, HeldOn
  <2>2. Ready(o, r)
    BY <1>15, <1>19, <1>20, GrowsReady
  <2>3. IsMem(o, r) => IsPointer(Top.type)
    <3>1. IsMem(o, r) <=> IsMem(d, r)
      BY <1>19, <1>20, KindIs
    <3>2. QED BY <1>8, <3>1, KindsDiffer
  <2>4. QED BY SMTT(30), <2>1, <2>2, <2>3
<1>22. Counts(o, r, Value(Top), Value(Top) + c)
  <2> SUFFICES ASSUME Shaped(Out, Top), active, Fair(Out, start, text), Fits(Out, start, text, Top)
               PROVE  Final(start, o).mem = Put(text, Top.cell, Value(Top) + c) /\ Den(o, start, r) = Value(Top)
    BY ZenonT(30) DEF Counts
  <2>1. Final(start, Out).skip = None /\ Final(start, e).mem = text /\ Final(start, inc).mem = text /\ Final(start, Out).mem = text
    <3>1. Final(start, Out).skip = None /\ Final(start, Out).mem = text
      BY ZenonT(30) DEF Fair
    <3>2. Final(start, e).mem = Final(start, Out).mem
      BY <1>1, <1>15 DEF Adds, Agree
    <3>3. Final(start, inc).mem = Final(start, Out).mem
      BY <1>1, <1>5 DEF Adds, Agree
    <3>4. QED BY <3>1, <3>2, <3>3
  <2>2. Den(Out, start, a) = Top.cell /\ At(text, Top.cell) = Value(Top)
    <3>1. Den(Out, start, a) = Top.cell /\ Reading(Out, start, a) = Value(Top)
      BY <1>2, <1>3 DEF Fits, Value
    <3>2. QED BY <1>2, <2>1, <3>1 DEF Reading
  <2>3. Den(d, start, r) = Value(Top)
    BY <1>6, <1>8, <2>1, <2>2 DEF Made, Stays
  <2>4. Den(w, start, t) = Value(Top)
    BY <1>10, <2>1, <2>3 DEF Made
  <2>5. Den(w, start, b) = c
    BY <1>5, <1>12 DEF Stays
  <2>6. Den(e, start, t) = Value(Top) + c
    <3>1. Made(w, start, "+", t, b) = Meaning("+", Value(Top), c)
      BY <2>4, <2>5 DEF Made
    <3>2. QED BY <1>1, <1>2, <1>14, <2>1, <3>1, SumIs DEF Recomputes
  <2>7. Den(e, start, r) = Value(Top)
    BY <1>12, <1>14, <1>20, <2>3 DEF Recomputes, Stays
  <2>8. Den(e, start, a) = Top.cell
    <3>1. a \in Places(w.heap) \ {t}
      BY <1>3, <1>11, <1>12 DEF Stays, Ready
    <3>2. QED BY <1>12, <1>14, <2>2, <3>1 DEF Recomputes, Stays
  <2>9. Made(e, start, "()s", t, None) = Value(Top) + c
    BY <2>6 DEF Made
  <2>10. Final(start, o).mem = Put(text, Top.cell, Value(Top) + c)
    BY <1>18, <2>1, <2>8, <2>9 DEF Stores
  <2>11. QED BY <1>21, <2>7, <2>10
<1>23. PICK v : v = Value(Top) + c /\ v \in Int
  BY <1>1, <1>2
<1>24. QED BY <1>1, <1>2, <1>19, <1>21, <1>22, <1>23, Incremented

\* ++e of an object that is reached through an address.
LEMMA PreMem ==
    ASSUME IInv, Distinct(stack), Reduces("pre", 1), Assignable(Top), IsMem(Out, Top.addr), NEW x, x = (IF IsPointer(Top.type) THEN NewMem ELSE NewTemp),
           NEW inc, inc = With(Out, New3Const(Increment(Top))), NEW res, res = With(inc, x), NEW r, r = Last(res),
           NEW w, w = Computed(res, NewTemp, "()", Top.addr, None), NEW t, t = Last(w), NEW e, e = Emitted(w, "+", r, t, Last(inc)),
           NEW o, o = Emitted(e, "()s", Top.addr, r, None),
           NEW node, node = [Node(Top.type, None, Value(Top) + Increment(Top), r) EXCEPT !.bad = PointerBad(Top.type)], Reduced(1, o, node),
           Write(Top.cell, Value(Top) + Increment(Top)), UNCHANGED fault
    PROVE  IInv'
<1>1. /\ Good(Out) /\ Sound(Out) /\ Adds(Out, Out) /\ start \in Memories /\ active \in BOOLEAN /\ Ready(Out, Top.addr) /\ Value(Top) \in Int
  BY Operands, UnaryFacts
<1>2. PICK a, c, b : a = Top.addr /\ c = Increment(Top) /\ b = Last(inc) /\ c \in Int
  BY IncrementIs
<1>3. /\ Top.bad = "none" /\ a \notin Lost(Out) /\ Out.heap[a].var = None /\ ~IsStruct(Top.type) /\ a \in Places(Out.heap)
  BY <1>1, <1>2, Targets
<1>4. Constants(Out, Out, c, inc)
  BY <1>1, <1>2, Naming
<1>5. Adds(Out, inc) /\ Good(inc) /\ Ready(inc, b) /\ Lost(inc) = Lost(Out) /\ Den(inc, start, b) = c
  BY <1>1, <1>2, <1>4 DEF Constants, Adds
<1>6. /\ Adds(Out, res) /\ Adds(inc, res) /\ Good(res) /\ Lost(res) = Lost(Out) /\ r \in Places(res.heap) /\ r \notin Places(inc.heap)
      /\ res.heap[r] = x /\ x \in {NewTemp, NewMem}
  <2>1. x \in {NewTemp, NewMem}
    OBVIOUS
  <2>2. /\ Adds(Out, res) /\ Adds(inc, res) /\ Lost(res) = Lost(inc) /\ r \in Places(res.heap) /\ r \notin Places(inc.heap)
        /\ res.heap[r] = x
    BY <1>1, <1>5, <2>1, NewTempAdds
  <2>3. QED BY <1>1, <1>5, <2>1, <2>2, PlacesOn
<1>7. Stays(Out, res, a) /\ Stays(inc, res, b)
  BY <1>1, <1>2, <1>5, <1>6, Staying
<1>8. Computes(Out, res, NewTemp, "()", a, None, w)
  <2>1. "()" \in Copies
    BY SMTT(30) DEF Copies
  <2>2. QED BY <1>1, <1>2, <1>6, <1>7, <2>1, Copying DEF Stays
<1>9. /\ Adds(Out, w) /\ Adds(res, w) /\ Good(w) /\ Ready(w, t) /\ Lost(w) \subseteq Lost(Out) \ {a}
      /\ (Final(start, Out).skip = None => Den(w, start, t) = Made(res, start, "()", a, None))
  BY <1>1, <1>6, <1>8 DEF Computes, Adds
<1>10. Stays(Out, w, a) /\ Stays(inc, w, b)
  <2>1. Adds(inc, w)
    BY <1>5, <1>6, <1>9, AddsOn
  <2>2. QED BY <1>1, <1>2, <1>5, <1>9, <2>1, Staying
<1>11. r \in Places(w.heap) /\ r \notin Places(Out.heap) /\ w.heap[r].var = None /\ w.heap[r].kind = x.kind /\ w.heap[r].instr = None
       /\ x.kind # "CON" /\ (IsMem(w, r) <=> x = NewMem)
  <2>1. x.var = None /\ x.instr = None /\ x.kind # "CON" /\ (x.kind = "MEM" <=> x = NewMem)
    BY <1>6, KindsDiffer DEF NewTemp, NewMem, Address
  <2>2. r \in Places(w.heap) /\ r \notin Places(Out.heap)
    BY <1>1, <1>5, <1>6, <1>9, PlacesOn
  <2>3. w.heap[r].var = res.heap[r].var /\ w.heap[r].kind = res.heap[r].kind
    BY <1>6, <1>9, VarsOn
  <2>4. w.heap[r].instr = res.heap[r].instr
    <3>1. "()" \in Copies /\ NewTemp \in {NewTemp, NewMem}
      BY DEF Copies
    <3>2. w = Computed(res, NewTemp, "()", a, None)
      BY <1>2
    <3>3. QED BY <1>6, <1>7, <3>1, <3>2, InstrStays DEF Stays
  <2>5. QED BY <1>6, <2>1, <2>2, <2>3, <2>4 DEF IsMem
<1>12. r \notin Lost(w)
  <2>1. Lost(w) \subseteq Places(Out.heap)
    BY <1>1, <1>9, LostPlaces
  <2>2. QED BY <1>11, <2>1
<1>13. "+" # "()s" /\ Emits(w, "+", r, t, b)
  BY <1>9, <1>10, <1>11, <1>12 DEF Emits, Binaries, Stays
<1>14. Recomputes(w, "+", r, t, b, e)
  <2>1. e = Emitted(w, "+", r, t, b) /\ w.heap[r].kind # "CON"
    BY <1>2, <1>11
  <2>2. QED BY <1>1, <1>9, <1>11, <1>13, <2>1, Recomputing
<1>15. /\ Adds(Out, e) /\ Good(e) /\ Ready(e, r) /\ Lost(e) \subseteq Lost(Out) \ {a} /\ Keeps(w, e) /\ SameKinds(w, e)
       /\ e.heap[r].var = None /\ (IsMem(e, r) <=> x = NewMem)
  <2>1. Adds(Out, e) /\ Ready(e, r) /\ Lost(e) \subseteq Lost(w) /\ Keeps(w, e) /\ SameKinds(w, e)
    BY <1>14 DEF Recomputes
  <2>2. e.heap[r].var = None /\ (IsMem(e, r) <=> x = NewMem)
    BY <1>11, <2>1, KeptIs, KindIs
  <2>3. QED BY <1>1, <1>9, <2>1, <2>2, PlacesOn
<1>16. /\ Grows(Out, e) /\ Keeping(Out, e) /\ Ready(e, a) /\ e.heap[a].kind = Out.heap[a].kind
  BY <1>1, <1>2, <1>15, AddsFacts, AddsReady
<1>17. Emits(e, "()s", a, r, None)
  BY <1>3, <1>15, <1>16 DEF Emits, Binaries, Ready
<1>18. Stores(e, "()s", a, r, None, o)
  BY <1>1, <1>2, <1>16, <1>17, Storing
<1>19. Grows(Out, o) /\ Keeping(Out, o) /\ Lost(o) \subseteq Lost(Out) \ {a} /\ Grows(e, o) /\ SameKinds(e, o)
  <2>1. LostBy(e, a, r, None) \subseteq Lost(e)
    <3>1. e.heap[a].var = None
      BY <1>3, <1>15, VarsOn
    <3>2. QED BY <3>1 DEF LostBy
  <2>2. QED BY <1>15, <1>16, <1>18, <2>1 DEF Stores
<1>20. Ready(o, r) /\ o.heap[r].var = None /\ Den(o, start, r) = Den(e, start, r) /\ (IsMem(o, r) => IsPointer(Top.type))
  <2>1. r \in Places(e.heap)
    BY <1>15 DEF Ready
  <2>2. Den(o, start, r) = Den(e, start, r) /\ o.heap[r].var = None
    BY <1>1, <1>15, <1>19, <2>1, HeldOn
  <2>3. Ready(o, r)
    BY <1>15, <1>19, GrowsReady
  <2>4. IsMem(o, r) => IsPointer(Top.type)
    <3>1. IsMem(o, r) <=> IsMem(e, r)
      BY <1>19, <2>1, KindIs
    <3>2. QED BY <1>15, <3>1, KindsDiffer
  <2>5. QED BY <2>2, <2>3, <2>4
<1>21. PICK v : v = Value(Top) + c /\ v \in Int
  BY <1>1, <1>2
<1>22. Counts(o, r, v, v)
  <2> SUFFICES ASSUME Shaped(Out, Top), active, Fair(Out, start, text), Fits(Out, start, text, Top)
               PROVE  Final(start, o).mem = Put(text, Top.cell, v) /\ Den(o, start, r) = v
    BY DEF Counts
  <2>1. Final(start, Out).skip = None /\ Final(start, e).mem = text /\ Final(start, res).mem = text /\ Final(start, Out).mem = text
    BY <1>1, <1>6, <1>15 DEF Fair, Adds, Agree
  <2>2. Den(Out, start, a) = Top.cell /\ At(text, Top.cell) = Value(Top)
    <3>1. Den(Out, start, a) = Top.cell /\ Reading(Out, start, a) = Value(Top)
      BY <1>2, <1>3 DEF Fits, Value
    <3>2. QED BY <1>2, <2>1, <3>1 DEF Reading
  <2>3. Den(w, start, t) = Value(Top)
    BY <1>7, <1>9, <2>1, <2>2 DEF Made, Stays
  <2>4. Den(w, start, b) = c
    BY <1>5, <1>10 DEF Stays
  <2>5. Den(e, start, r) = v
    <3>1. Made(w, start, "+", t, b) = Meaning("+", Value(Top), c)
      BY <2>3, <2>4 DEF Made
    <3>2. QED BY <1>1, <1>2, <1>14, <1>21, <2>1, <3>1, SumIs DEF Recomputes
  <2>6. Den(e, start, a) = Top.cell
    <3>1. a \in Places(w.heap) \ {r}
      BY <1>3, <1>10, <1>11 DEF Stays, Ready
    <3>2. QED BY <1>10, <1>14, <2>2, <3>1 DEF Recomputes, Stays
  <2>7. Made(e, start, "()s", r, None) = v
    BY <2>5 DEF Made
  <2>8. Final(start, o).mem = Put(text, Top.cell, v)
    BY <1>18, <2>1, <2>6, <2>7 DEF Stores
  <2>9. QED BY <1>20, <2>5, <2>8
<1>23. QED BY <1>1, <1>2, <1>19, <1>20, <1>21, <1>22, Incremented

\* ++e of a variable.
LEMMA PreVariable ==
    ASSUME IInv, Distinct(stack), Reduces("pre", 1), Assignable(Top), ~IsMem(Out, Top.addr), NEW x, x = (IF IsPointer(Top.type) THEN NewMem ELSE NewTemp),
           NEW inc, inc = With(Out, New3Const(Increment(Top))), NEW res, res = With(inc, x),
           NEW e, e = Retyped(res, Top.addr), NEW o, o = Emitted(e, "+", Top.addr, Top.addr, Last(inc)),
           NEW node, node = [Node(Top.type, Top.cell, 0, Top.addr) EXCEPT !.unread = TRUE], Reduced(1, o, node),
           Write(Top.cell, Value(Top) + Increment(Top)), UNCHANGED fault
    PROVE  IInv'
<1>1. /\ Good(Out) /\ Sound(Out) /\ Adds(Out, Out) /\ start \in Memories /\ active \in BOOLEAN /\ Ready(Out, Top.addr) /\ Value(Top) \in Int
      /\ Top.type \in Types /\ Top.cell \in Int
  BY Operands, UnaryFacts
<1>2. PICK a, c, b : a = Top.addr /\ c = Increment(Top) /\ b = Last(inc) /\ c \in Int
  BY IncrementIs
<1>3. /\ Top.bad = "none" /\ a \notin Lost(Out) /\ Out.heap[a].var # None /\ Out.heap[a].kind = "ID3" /\ ~IsStruct(Top.type) /\ ~IsEa(Top.type)
      /\ a \in Places(Out.heap)
  BY <1>1, <1>2, Targets
<1>4. Constants(Out, Out, c, inc)
  BY <1>1, <1>2, Naming
<1>5. Adds(Out, inc) /\ Good(inc) /\ Ready(inc, b) /\ Lost(inc) = Lost(Out) /\ Den(inc, start, b) = c
  BY <1>1, <1>2, <1>4 DEF Constants, Adds
<1>6. Adds(Out, res) /\ Adds(inc, res) /\ Good(res) /\ Lost(res) = Lost(Out) /\ Grows(Out, res) /\ Keeping(Out, res)
  <2>1. x \in {NewTemp, NewMem}
    OBVIOUS
  <2>2. Adds(Out, res) /\ Adds(inc, res) /\ Lost(res) = Lost(inc)
    BY <1>1, <1>5, <2>1, NewTempAdds
  <2>3. QED BY <1>1, <1>5, <2>2, PlacesOn, AddsFacts
<1>7. Stays(Out, res, a) /\ Stays(inc, res, b) /\ res.heap[a].var = Out.heap[a].var /\ res.heap[a].kind = "ID3" /\ a \in Places(res.heap)
  <2>1. Stays(Out, res, a) /\ Stays(inc, res, b)
    BY <1>1, <1>2, <1>5, <1>6, Staying
  <2>2. QED BY <1>3, <1>6, <2>1, VarsOn DEF Stays, Ready
<1>8. /\ Grows(Out, e) /\ Keeping(Out, e) /\ Lost(e) = Lost(Out) /\ Good(e) /\ Keeps(res, e)
      /\ \A k \in Places(res.heap) : e.heap[k].kind = IF a = k THEN "TEMP" ELSE res.heap[k].kind
      /\ Final(start, e).mem = Final(start, res).mem /\ \A k \in Places(res.heap) : Den(e, start, k) = Den(res, start, k)
  <2>1. e = Retyped(res, a) /\ res.heap[a].kind # "CON" /\ ~IsMem(res, a)
    BY <1>2, <1>7 DEF IsMem
  <2>2. /\ Grows(Out, e) /\ Keeping(Out, e) /\ Lost(e) = Lost(res) /\ Keeps(res, e)
        /\ \A k \in Places(res.heap) : e.heap[k].kind = IF a = k THEN "TEMP" ELSE res.heap[k].kind
        /\ \A mem \in Memories : Final(mem, e).mem = Final(mem, res).mem /\ \A k \in Places(res.heap) : Den(e, mem, k) = Den(res, mem, k)
    BY <1>1, <1>6, <1>7, <2>1, RetypedGrows
  <2>3. QED BY <1>1, <1>6, <2>2 DEF Grows, Sound
<1>9. e.heap[a].var = Out.heap[a].var /\ Ready(e, a) /\ Ready(e, b) /\ Den(e, start, a) = Den(Out, start, a) /\ Den(e, start, b) = c
  <2>1. e.heap[a].var = Out.heap[a].var
    BY <1>7, <1>8, KeptIs
  <2>2. Ready(e, a) /\ Ready(e, b)
    BY <1>6, <1>7, <1>8, KeepsReady DEF Stays
  <2>3. Den(e, start, a) = Den(res, start, a) /\ Den(e, start, b) = Den(res, start, b)
    BY <1>7, <1>8 DEF Stays, Ready
  <2>4. QED BY <1>5, <1>7, <2>1, <2>2, <2>3 DEF Stays
<1>10. Emits(e, "+", a, a, b)
  BY <1>3, <1>8, <1>9 DEF Emits, Binaries, Ready
<1>11. Stores(e, "+", a, a, b, o)
  BY <1>1, <1>2, <1>3, <1>8, <1>9, <1>10, Storing
<1>12. Lost(o) \subseteq Lost(Out) \cup {a} /\ Grows(Out, o) /\ Keeping(Out, o) /\ Ready(o, a)
  BY <1>8, <1>11 DEF Stores, LostBy
<1>13. PICK t, m : t = Top.type /\ m = Top.cell
  OBVIOUS
<1>14. Forms(node, t, m, 0, a, "none", TRUE)
  <2>1. a \in Nat /\ 0 \in Int /\ TRUE \in BOOLEAN /\ "none" \in Faults /\ t \in Types /\ m \in Int
    BY <1>1, <1>3, <1>13, Int4Is DEF Places
  <2>2. node = [Node(t, m, 0, a) EXCEPT !.unread = TRUE]
    BY <1>2, <1>13
  <2>3. QED BY <1>1, <2>1, <2>2, NodeForms
<1>15. node.addr = Top.addr /\ node.type = Top.type /\ node.cell = Top.cell
  BY <1>2, <1>13, <1>14 DEF Forms
<1>16. PICK v : v = Value(Top) + c /\ v \in Int
  BY <1>1, <1>2
<1>17. ASSUME Shaped(Out, Top) PROVE Shaped(o, node) /\ \A mem : Final(start, o).mem = mem => Denotes(o, mem, node)
  BY <1>1, <1>2, <1>3, <1>12, <1>15, <1>17, VariableStored
<1>18. ASSUME Shaped(Out, Top), active, Fair(Out, start, text), Fits(Out, start, text, Top)
       PROVE  Final(start, o).mem = Put(text, Top.cell, v)
  <2>1. Final(start, Out).skip = None /\ Final(start, e).mem = text
    BY <1>1, <1>6, <1>8, <1>18 DEF Fair, Adds, Agree
  <2>2. Den(Out, start, a) = Value(Top) /\ Top.cell = e.heap[a].var
    BY <1>2, <1>3, <1>9, <1>18 DEF Fits, Shaped, Value
  <2>3. Made(e, start, "+", a, b) = v
    <3>1. Made(e, start, "+", a, b) = Meaning("+", Value(Top), c)
      BY <1>9, <2>2 DEF Made
    <3>2. QED BY <1>1, <1>2, <1>16, <3>1, SumIs
  <2>4. QED BY <1>11, <2>1, <2>2, <2>3 DEF Stores
<1>19. UnaryStored(o, node, a, "none", TRUE, v)
  <2>1. \A k \in Lost(o) : (TRUE /\ a = k) \/ (k \in Lost(Out) /\ (Top.unread => Top.addr # k))
    BY <1>2, <1>12
  <2>2. QED BY <1>17, <1>18, <2>1 DEF UnaryStored
<1>20. Ready(o, a) /\ "none" # "short-circuit"
  BY <1>12
<1>21. QED BY <1>2, <1>3, <1>12, <1>14, <1>16, <1>19, <1>20, UnaryStores

LEMMA PostIncrementKeeps == ASSUME IInv, Distinct(stack), PostIncrement PROVE IInv'
<1>1. PICK x, inc, res, r, o :
         /\ x = (IF IsPointer(Top.type) THEN NewMem ELSE NewTemp) /\ inc = With(Out, New3Const(Increment(Top))) /\ res = With(inc, x) /\ r = Last(res)
         /\ o = IF IsMem(Out, Top.addr)
                THEN LET t1 == With(Emitted(res, "()", r, Top.addr, None), NewTemp)
                         t  == Last(t1)
                     IN  Emitted(Emitted(Emitted(t1, "=", t, r, None), "+", t, t, Last(inc)), "()s", Top.addr, t, None)
                ELSE Emitted(Emitted(res, "=", r, Top.addr, None), "+", Top.addr, Top.addr, Last(inc))
         /\ Reduced(1, o, [Node(Top.type, None, Value(Top), r) EXCEPT !.bad = PointerBad(Top.type)])
  BY Zenon DEF PostIncrement
<1>2. Reduces("post", 1) /\ Assignable(Top) /\ Write(Top.cell, Value(Top) + Increment(Top)) /\ UNCHANGED fault
  BY DEF PostIncrement
<1>3. /\ Good(Out) /\ Adds(Out, Out) /\ Ready(Out, Top.addr) /\ start \in Memories
  BY <1>2, UnaryFacts
<1>4. PICK a, c, b, node : /\ a = Top.addr /\ c = Increment(Top) /\ b = Last(inc) /\ c \in Int
                           /\ node = [Node(Top.type, None, Value(Top), r) EXCEPT !.bad = PointerBad(Top.type)]
  BY IncrementIs
<1>5. Adds(Out, inc) /\ Good(inc) /\ Ready(inc, a) /\ x \in {NewTemp, NewMem}
  <2>1. Constants(Out, Out, c, inc)
    BY <1>1, <1>3, <1>4, Naming
  <2>2. Adds(Out, inc)
    BY <2>1 DEF Constants
  <2>3. QED BY <1>1, <1>3, <1>4, <2>2, AddsReady, PlacesOn
<1>6. CASE ~IsMem(Out, Top.addr)
  <2>1. PICK e : e = Computed(inc, x, "=", a, None)
    OBVIOUS
  <2>2. "=" \in Copies
    BY DEF Copies
  <2>3. e = Emitted(res, "=", r, a, None)
    BY <1>1, <2>1 DEF Computed
  <2>4. r = Last(e)
    BY <1>1, <1>3, <1>5, <2>1, <2>2, LastIs
  <2>5. o = Emitted(e, "+", a, a, Last(inc))
    BY <1>1, <1>4, <1>6, <2>3
  <2>6. QED BY <1>1, <1>2, <1>4, <1>6, <2>1, <2>4, <2>5, PostVariable
<1>7. CASE IsMem(Out, Top.addr)
  <2>1. PICK d : d = Computed(inc, x, "()", a, None)
    OBVIOUS
  <2>2. "=" \in Copies /\ "()" \in Copies
    BY DEF Copies
  <2>3. d = Emitted(res, "()", r, a, None)
    BY <1>1, <2>1 DEF Computed
  <2>4. r = Last(d)
    BY <1>1, <1>3, <1>5, <2>1, <2>2, LastIs
  <2>5. Adds(Out, d) /\ Ready(d, r)
    <3>1. Computes(Out, inc, x, "()", a, None, d)
      BY <1>3, <1>5, <2>1, <2>2, Copying
    <3>2. QED BY <2>4, <3>1 DEF Computes
  <2>6. PICK w, t : w = Computed(d, NewTemp, "=", r, None) /\ t = Last(With(d, NewTemp))
    OBVIOUS
  <2>7. w = Emitted(With(d, NewTemp), "=", t, r, None)
    BY <2>6 DEF Computed
  <2>8. t = Last(w)
    BY <1>3, <2>2, <2>5, <2>6, LastIs
  <2>9. PICK e : e = Emitted(w, "+", t, t, Last(inc))
    OBVIOUS
  <2>10. o = Emitted(e, "()s", a, t, None)
    BY <1>1, <1>4, <1>7, <2>3, <2>6, <2>7, <2>9
  <2>11. QED BY <1>1, <1>2, <1>4, <1>7, <2>1, <2>4, <2>6, <2>8, <2>9, <2>10, PostMem
<1>8. QED BY <1>6, <1>7

LEMMA PreIncrementKeeps == ASSUME IInv, Distinct(stack), PreIncrement PROVE IInv'
<1>1. PICK x, inc, res, r :
         /\ x = (IF IsPointer(Top.type) THEN NewMem ELSE NewTemp) /\ inc = With(Out, New3Const(Increment(Top))) /\ res = With(inc, x) /\ r = Last(res)
         /\ IF IsMem(Out, Top.addr)
            THEN LET t1 == Computed(res, NewTemp, "()", Top.addr, None)
                     o  == Emitted(Emitted(t1, "+", r, Last(t1), Last(inc)), "()s", Top.addr, r, None)
                 IN  Reduced(1, o, [Node(Top.type, None, Value(Top) + Increment(Top), r) EXCEPT !.bad = PointerBad(Top.type)])
            ELSE LET o == Emitted(Retyped(res, Top.addr), "+", Top.addr, Top.addr, Last(inc))
                 IN  Reduced(1, o, [Node(Top.type, Top.cell, 0, Top.addr) EXCEPT !.unread = TRUE])
  BY Zenon DEF PreIncrement
<1>2. Reduces("pre", 1) /\ Assignable(Top) /\ Write(Top.cell, Value(Top) + Increment(Top)) /\ UNCHANGED fault
  BY DEF PreIncrement
<1>3. CASE IsMem(Out, Top.addr)
  <2>1. PICK w, t, e, o, node :
           /\ w = Computed(res, NewTemp, "()", Top.addr, None) /\ t = Last(w) /\ e = Emitted(w, "+", r, t, Last(inc))
           /\ o = Emitted(e, "()s", Top.addr, r, None)
           /\ node = [Node(Top.type, None, Value(Top) + Increment(Top), r) EXCEPT !.bad = PointerBad(Top.type)] /\ Reduced(1, o, node)
    BY <1>1, <1>3
  <2>2. QED BY <1>1, <1>2, <1>3, <2>1, PreMem
<1>4. CASE ~IsMem(Out, Top.addr)
  <2>1. PICK e, o, node :
           /\ e = Retyped(res, Top.addr) /\ o = Emitted(e, "+", Top.addr, Top.addr, Last(inc))
           /\ node = [Node(Top.type, Top.cell, 0, Top.addr) EXCEPT !.unread = TRUE] /\ Reduced(1, o, node)
    BY <1>1, <1>4
  <2>2. QED BY <1>1, <1>2, <1>4, <2>1, PreVariable
<1>5. QED BY <1>3, <1>4

(***************************************************************************)
(* Code that may jump: what it keeps of the structure.                     *)
(***************************************************************************)
Moves(o, d) == Good(d) /\ Keeps(o, d) /\ SameKinds(o, d) /\ Lost(d) \subseteq Lost(o) /\ Gotos(o.code) \subseteq Gotos(d.code)

LEMMA MovesOn == ASSUME NEW o, Good(o), NEW d, Moves(o, d), NEW e, Moves(d, e) PROVE Moves(o, e)
<1>1. Keeps(o, e) /\ Places(o.heap) \subseteq Places(d.heap)
  BY KeepsOn DEF Moves
<1>2. SameKinds(o, e)
  BY <1>1 DEF Moves, SameKinds
<1>3. QED BY <1>1, <1>2 DEF Moves

LEMMA AddsMoves == ASSUME NEW o, Good(o), NEW d, Adds(o, d) PROVE Moves(o, d)
<1>1. Len(o.code) \in Nat /\ Len(d.code) \in Nat
  BY DEF Good, Outs, Adds
<1>2. Places(o.code) \subseteq Places(d.code)
  BY <1>1 DEF Adds, Keeps, Places
<1>3. Gotos(o.code) \subseteq Gotos(d.code)
  BY <1>2 DEF Adds, Gotos
<1>4. QED BY <1>3 DEF Moves, Adds

LEMMA SelfMoves == ASSUME NEW o, Good(o) PROVE Moves(o, o)
BY AddsSelf, AddsMoves

LEMMA LabelledMoves == ASSUME NEW o, Good(o), NEW J, J \subseteq Gotos(o.code), NEW d, d = Labelled(o, J) PROVE Moves(o, d)
<1>1. CASE J = {}
  BY <1>1, SelfMoves DEF Labelled
<1>2. CASE J # {}
  BY <1>2, LabelledIs DEF Moves
<1>3. QED BY <1>1, <1>2

LEMMA MovesSound == ASSUME NEW o, Sound(o), NEW d, Moves(o, d) PROVE Sound(d)
<1>1. Lost(o) \subseteq Places(o.heap)
  BY LostPlaces DEF Sound
<1>2. QED BY <1>1 DEF Sound, Moves, SameKinds

(***************************************************************************)
(* ! patches the lists of its operand, if that has any.                    *)
(***************************************************************************)
LEMMA LogicalNotKeeps == ASSUME IInv, Distinct(stack), LogicalNot PROVE IInv'
<1>1. PICK l, b, o, node, v :
         /\ v = Truth(Value(Top) = 0) /\ l = Loaded(Out, Top.addr) /\ b = Labelled(l.o, Top.true \cup Top.false)
         /\ o = Computed(b, NewTemp, "!", l.at, None)
         /\ node = [Node(Int4, None, v, Last(o)) EXCEPT !.true = Top.false, !.false = Top.true] /\ Reduced(1, o, node)
  BY DEF LogicalNot
<1>2. Reduces("not", 1) /\ Top.type = Int4 /\ Pure /\ Blame({Top.bad})
  BY DEF LogicalNot
<1>3. /\ Good(Out) /\ Sound(Out) /\ Adds(Out, Out) /\ start \in Memories /\ text \in Memories /\ active \in BOOLEAN
      /\ Ready(Out, Top.addr) /\ Top.bad \in Faults /\ Value(Top) \in Int /\ Top \in Nodes /\ Stands(Out, Top) /\ fault \in Faults
      /\ (fault = "none" => Tame(Out, Top)) /\ Top.mid = "none"
  BY <1>2, UnaryFacts, Operands
<1>4. Loads(Out, Out, Top.addr, l)
  BY <1>1, <1>3, Loading
<1>5. "!" \in Copies /\ v \in Int
  BY <1>1 DEF Copies, Truth
<1>6. PICK w, r, J : w = l.o /\ r = l.at /\ J = Top.true \cup Top.false
  OBVIOUS
<1>7. Adds(Out, w) /\ Ready(w, r) /\ Good(w) /\ Moves(Out, w) /\ Lost(w) \subseteq Lost(Out)
  <2>1. Adds(Out, w) /\ Ready(w, r)
    BY <1>4, <1>6 DEF Loads
  <2>2. QED BY <1>3, <2>1, AddsMoves DEF Moves
<1>8. J \subseteq Gotos(w.code)
  BY <1>3, <1>6, <1>7 DEF Stands, Moves
<1>9. PICK x, a : x = Node(Int4, None, v, Last(o)) /\ a = Last(o)
  OBVIOUS
<1>10. CASE J = {}
  <2>1. b = w
    BY <1>1, <1>6, <1>10 DEF Labelled
  <2>2. Computes(Out, w, NewTemp, "!", r, None, o)
    BY <1>1, <1>3, <1>5, <1>6, <1>7, <2>1, Copying
  <2>3. Temporary(o, a) /\ Adds(Out, o) /\ Top.addr \notin Lost(o)
    <3>1. Top.addr \notin Lost(w) \ {r}
      BY <1>3, <1>4, <1>6 DEF Loads
    <3>2. QED BY <1>9, <2>2, <3>1, KindsDiffer DEF Computes, Temporary
  <2>4. Forms(node, Int4, None, v, a, "none", FALSE)
    <3>1. a \in Nat
      BY <2>3 DEF Temporary, Ready, Places
    <3>2. Forms(x, Int4, None, v, a, "none", FALSE)
      BY <1>3, <1>5, <1>9, <3>1, NodeForms, Int4Is
    <3>3. Top.true = {} /\ Top.false = {} /\ node = [x EXCEPT !.true = {}, !.false = {}]
      BY <1>1, <1>6, <1>9, <1>10
    <3>4. QED BY <3>2, <3>3 DEF Forms, Nodes
  <2>5. Evaluates1({Top.bad}, o, a, v)
    <3> SUFFICES ASSUME Fair(Out, start, text), Fits(Out, start, text, Top) PROVE Den(o, start, a) = v
      BY DEF Evaluates1
    <3>1. Final(start, Out).skip = None
      BY DEF Fair
    <3>2. Den(w, start, r) = Value(Top)
      BY <1>2, <1>3, <1>4, <1>6, <3>1, Int4Is DEF Loads, Fits, Value
    <3>3. Den(o, start, a) = Made(w, start, "!", r, None)
      BY <1>3, <1>9, <2>2, <3>1 DEF Computes
    <3>4. QED BY <1>1, <3>2, <3>3 DEF Made
  <2>6. Blames1({Top.bad})
    BY <1>2, <1>3 DEF Blames1
  <2>7. QED BY <1>1, <1>2, <2>3, <2>4, <2>5, <2>6, Int4Is, TempUnary
<1>11. CASE J # {}
  <2>1. Good(b) /\ Moves(w, b) /\ Ready(b, r)
    <3>1. Moves(w, b)
      BY <1>1, <1>6, <1>7, <1>8, LabelledMoves
    <3>2. QED BY <1>7, <3>1, KeepsReady DEF Moves
  <2>2. Adds(b, o) /\ Ready(o, a)
    <3>1. NewTemp \in {NewTemp, NewMem} /\ "!" \in Copies \cup Binaries /\ "!" \notin Binaries
      BY DEF Copies, Binaries
    <3>2. QED BY <1>1, <1>6, <1>9, <2>1, <3>1, ComputedAdds
  <2>3. Moves(Out, o)
    <3>1. Moves(Out, b)
      BY <1>3, <1>7, <2>1, MovesOn
    <3>2. Moves(b, o)
      BY <2>1, <2>2, AddsMoves
    <3>3. QED BY <1>3, <3>1, <3>2, MovesOn
  <2>4. Sound(o) /\ Keeps(Out, o) /\ Gotos(ta_code) \subseteq Gotos(o.code)
    <3>1. Sound(o)
      BY <1>3, <2>3, MovesSound
    <3>2. Out.code = ta_code
      BY DEF Out
    <3>3. PICK z : z = Out /\ z.code = ta_code
      BY <3>2
    <3>4. QED BY <2>3, <3>1, <3>3 DEF Moves
  <2>5. /\ node \in Nodes /\ node.addr = a /\ node.known = active /\ node.mid = "none" /\ node.true = Top.false /\ node.false = Top.true
    <3>1. a \in Nat
      BY <2>2 DEF Ready, Places
    <3>2. Forms(x, Int4, None, v, a, "none", FALSE)
      BY <1>3, <1>5, <1>9, <3>1, NodeForms, Int4Is
    <3>3. Top.true \in SUBSET Nat /\ Top.false \in SUBSET Nat /\ node = [x EXCEPT !.true = Top.false, !.false = Top.true]
      BY <1>1, <1>3, <1>9 DEF Nodes
    <3>4. QED BY <3>2, <3>3 DEF Forms, Nodes
  <2>6. Stands(o, node)
    <3>1. Top.true \subseteq Gotos(o.code) /\ Top.false \subseteq Gotos(o.code)
      BY <1>3, <2>3 DEF Stands, Moves
    <3>2. a # None
      BY <2>2 DEF Ready, Places, None
    <3>3. QED BY <2>2, <2>5, <3>1, <3>2 DEF Stands
  <2>7. fault' \in Faults /\ fault' # "none"
    <3>1. fault' \in Faults /\ (fault' = "none" => fault = "none" /\ \A k \in {Top.bad} : k = "none")
      <4>1. {Top.bad} \subseteq Faults
        BY <1>3
      <4>2. QED BY <1>2, <1>3, <4>1, BlameIs
    <3>2. fault = "none" /\ Top.bad = "none" => J = {}
      BY <1>3, <1>6 DEF Tame, Lists
    <3>3. QED BY <1>11, <3>1, <3>2
  <2>8. text' \in Memories /\ active' = active
    BY <1>2, <1>3 DEF Pure
  <2>9. QED BY <1>1, <1>2, <2>4, <2>5, <2>6, <2>7, <2>8, UnaryKeeps
<1>12. QED BY <1>10, <1>11

(***************************************************************************)
(* Reductions that emit nothing, and the end of an expression statement.   *)
(***************************************************************************)
LEMMA CommaKeeps == ASSUME IInv, Distinct(stack), Comma PROVE IInv'
<1>1. PICK node, W, val :
         /\ val = Value(Top) /\ node = [NoValue EXCEPT !.val = val]
         /\ W = {IF n.bad = "short-circuit" THEN n.bad ELSE Unread(n) : n \in {Second, Top}}
         /\ Reduced(2, Out, node) /\ Blame(W)
  BY DEF Comma
<1>2. Waits(2) /\ text' = text /\ active' = active
  BY DEF Comma, Pure
<1>3. /\ Good(Out) /\ Sound(Out) /\ text \in Memories /\ active \in BOOLEAN /\ fault \in Faults /\ Top \in Nodes /\ Second \in Nodes
      /\ val \in Int
  BY <1>1, <1>2, Waiting, ValueIs DEF Value
<1>4. PICK w : w = Out /\ w.code = ta_code
  <2>1. Out.code = ta_code
    BY DEF Out
  <2>2. QED BY <2>1
<1>5. Adds(w, w) /\ Grows(w, w) /\ Keeps(w, w)
  BY <1>3, <1>4, AddsSelf, AddsFacts
<1>6. node \in Nodes /\ node.addr = None /\ node.bad = "comma" /\ Lists(node) = {} /\ node.known = active /\ node.mid = "none"
      /\ node.true = {} /\ node.false = {}
  <2>1. PICK x : x = NoValue
    OBVIOUS
  <2>2. Forms(x, Int4, None, 0, None, "comma", FALSE)
    BY <1>3, <2>1, NoValueIs
  <2>3. node = [x EXCEPT !.val = val]
    BY <1>1, <2>1
  <2>4. QED BY <1>3, <2>2, <2>3 DEF Forms, Lists, Nodes
<1>7. Stands(w, node)
  BY <1>6 DEF Stands
<1>8. W \subseteq Faults
  BY <1>1 DEF Unread, Faults
<1>9. fault' \in Faults /\ (fault' = "none" => fault = "none" /\ \A k \in W : k = "none")
  BY <1>1, <1>3, <1>8, BlameIs
<1>10. fault' = "none" => Top.bad # "short-circuit" /\ Second.bad # "short-circuit" /\ ~Top.unread /\ ~Second.unread
  <2> SUFFICES ASSUME \A k \in W : k = "none" PROVE Top.bad # "short-circuit" /\ Second.bad # "short-circuit" /\ ~Top.unread /\ ~Second.unread
    BY <1>9
  <2>1. \A n \in {Second, Top} : (IF n.bad = "short-circuit" THEN n.bad ELSE Unread(n)) = "none"
    BY <1>1
  <2>2. QED BY <2>1 DEF Unread
<1>11. ASSUME fault' = "none"
       PROVE  /\ fault = "none" /\ Top.bad # "short-circuit" /\ Second.bad # "short-circuit" /\ Result1(w, node, text')
              /\ KeepingBut(w, w, Second.addr)
              /\ \A a \in Lost(w) : (node.unread /\ node.addr = a) \/ (a \in Lost(w) /\ (Top.unread => Top.addr # a)
                                                                       /\ (Second.unread => Second.addr # a))
              /\ active /\ Fair(w, start, text) => Comes(w, node, text')
  BY <1>2, <1>4, <1>5, <1>6, <1>9, <1>10, <1>11 DEF Result1, Plain, KeepingBut, Fair, Comes
<1>12. Sound(w) /\ Keeps(Out, w) /\ Gotos(ta_code) \subseteq Gotos(w.code) /\ text' \in Memories /\ Reduced(2, w, node)
  BY <1>1, <1>2, <1>3, <1>4, <1>5
<1>13. QED BY <1>2, <1>4, <1>6, <1>7, <1>9, <1>11, <1>12, BinaryKeeps

\* A reduction that goes wrong and emits nothing.
LEMMA NothingKeeps ==
    ASSUME IInv, NEW n \in 1 .. 3, Waits(n), NEW type \in Types, NEW bad \in {"comma", "conditional"},
           NEW wrong \in {"comma", "conditional"}, NEW node, Forms(node, type, None, 0, None, bad, FALSE), Reduced(n, Out, node), Blame({wrong}), Pure
    PROVE  IInv'
<1>1. PICK w : w = Out /\ w.code = ta_code
  <2>1. Out.code = ta_code
    BY DEF Out
  <2>2. QED BY <2>1
<1>2. /\ Good(w) /\ Sound(w) /\ text \in Memories /\ phase = "expression" /\ Pops(stack, n, Len(stack) - n) /\ fault \in Faults
  BY <1>1, Waiting
<1>3. Keeps(w, w) /\ text' = text /\ active' = active
  BY <1>2, AddsSelf, AddsFacts DEF Pure
<1>4. node.known = active /\ node.mid = "none" /\ Stands(w, node)
  BY DEF Forms, Stands
<1>5. {wrong} \subseteq Faults /\ wrong # "none"
  BY DEF Faults
<1>6. fault' \in Faults /\ fault' # "none"
  BY <1>2, <1>5, BlameIs
<1>7. PICK p : p = Len(stack) - n /\ Pops(stack, n, p)
  BY <1>2
<1>8. Sound(w) /\ Keeps(Out, w) /\ Gotos(ta_code) \subseteq Gotos(w.code) /\ text' \in Memories /\ Reduced(n, w, node)
  BY <1>1, <1>2, <1>3
<1>9. QED BY <1>2, <1>3, <1>4, <1>6, <1>7, <1>8, ReductionKeeps

LEMMA ConditionalKeeps == ASSUME IInv, Conditional PROVE IInv'
<1>1. Waits(3) /\ Pure /\ Blame({"conditional"})
  BY DEF Conditional
<1>2. PICK node : Reduced(3, Out, node) /\ (node = NoValue \/ node = [Node(Top.type, None, 0, None) EXCEPT !.bad = "conditional"])
  BY DEF Conditional
<1>3. active \in BOOLEAN /\ Top.type \in Types
  BY <1>1, Waiting DEF Nodes
<1>a. PICK n \in 1 .. 3, b \in {"comma", "conditional"}, u \in {"comma", "conditional"} : n = 3 /\ b = "comma" /\ u = "conditional"
  OBVIOUS
<1>b. Waits(n) /\ Pure /\ Blame({u}) /\ Reduced(n, Out, node)
  BY <1>1, <1>2, <1>a
<1>4. CASE node = NoValue
  <2>1. PICK t : t = Int4 /\ t \in Types
    BY Int4Is
  <2>2. Forms(node, t, None, 0, None, b, FALSE)
    BY <1>3, <1>4, <1>a, <2>1, NoValueIs
  <2>3. QED BY <1>b, <2>1, <2>2, NothingKeeps
<1>5. CASE node = [Node(Top.type, None, 0, None) EXCEPT !.bad = "conditional"]
  <2>1. "conditional" \in Faults /\ None \in Int /\ None \in Nat /\ 0 \in Int /\ FALSE \in BOOLEAN
    BY DEF Faults, None
  <2>2. Forms(node, Top.type, None, 0, None, "conditional", FALSE)
    BY <1>3, <1>5, <2>1, NodeForms
  <2>3. PICK t : t = Top.type /\ t \in Types
    BY <1>3
  <2>4. Forms(node, t, None, 0, None, u, FALSE)
    BY <1>a, <2>2, <2>3
  <2>5. QED BY <1>b, <2>3, <2>4, NothingKeeps
<1>6. QED BY <1>2, <1>4, <1>5

LEMMA InvalidOperandKeeps == ASSUME IInv, InvalidOperand PROVE IInv'
<1>1. PICK n \in 1 .. 3 : Waits(n) /\ Reduced(n, Out, NoValue) /\ Blame({"comma"}) /\ Pure
  BY DEF InvalidOperand
<1>2. active \in BOOLEAN
  BY <1>1, Waiting
<1>3. QED BY <1>1, <1>2, NoValueIs, Int4Is, NothingKeeps

LEMMA NoAddressKeeps == ASSUME IInv, NoAddress PROVE IInv'
<1>1. /\ phase' = "crashed" /\ Blame({"conditional"})
      /\ Out' = Out /\ stack' = stack /\ start' = start /\ text' = text /\ active' = active
  BY DEF NoAddress, Out, given
<1>2. fault' \in Faults
  BY <1>1, BlameIs DEF IInv, Structure, Faults
<1>3. Structure'
  BY <1>1, <1>2 DEF IInv, Structure
<1>4. Parsed' /\ Going' /\ Ended'
  BY <1>1 DEF Parsed, Going, Ended
<1>5. QED BY <1>3, <1>4 DEF IInv

LEMMA ExpressionStatementKeeps == ASSUME IInv, ExpressionStatement PROVE IInv'
<1>1. /\ phase = "expression" /\ Len(stack) = 1 /\ Top.mid = "none" /\ phase' = "end" /\ Blame({Unread(Top)})
      /\ Out' = Out /\ stack' = stack /\ start' = start /\ text' = text /\ active' = active /\ truth' = truth
  BY DEF ExpressionStatement, Ends, Out, given
<1>2. fault \in Faults /\ Standing(Out, stack) /\ stack \in Seq(Nodes)
  BY DEF IInv, Structure, Standing
<1>3. {Unread(Top)} \subseteq Faults
  BY DEF Unread, Faults
<1>4. fault' \in Faults /\ (fault' = "none" => fault = "none" /\ Unread(Top) = "none")
  <2>1. fault' \in Faults /\ (fault' = "none" => fault = "none" /\ \A w \in {Unread(Top)} : w = "none")
    BY <1>1, <1>2, <1>3, BlameIs
  <2>2. QED BY <2>1
<1>5. Structure'
  BY <1>1, <1>4 DEF IInv, Structure
<1>6. Places(stack) = {1} /\ Uppermost(stack) = Top /\ stack[1] = Top /\ stack # <<>>
  BY <1>1, <1>2 DEF Places, Uppermost, Top
<1>7. ASSUME fault' = "none" PROVE Lost(Out) = {} /\ Final(start, Out).mem = text
  <2>1. fault = "none" /\ ~Top.unread
    BY <1>4, <1>7 DEF Unread
  <2>2. Tidy(Out, stack) /\ (~Stuck(stack, Final(start, Out)) => Running(Out, stack, text, active, Final(start, Out)))
    BY <1>1, <2>1 DEF IInv, Going
  <2>3. ~Stuck(stack, Final(start, Out))
    BY <1>1, <1>6 DEF Stuck
  <2>4. \A a \in Lost(Out) : \E k \in Places(stack) : stack[k].unread
    BY <2>2 DEF Tidy
  <2>5. QED BY <1>6, <2>1, <2>2, <2>3, <2>4 DEF Running
<1>8. ASSUME fault' = "none" PROVE /\ stack' # <<>> /\ Lost(Out') = {} /\ Final(start', Out').mem = text'
                                    /\ ~(Uppermost(stack').mid = "if")
  BY <1>1, <1>6, <1>7, <1>8
<1>9. Ended'
  BY <1>8 DEF Ended, Decided
<1>10. Parsed' /\ Going'
  BY <1>1 DEF Parsed, Going
<1>11. QED BY <1>5, <1>9, <1>10 DEF IInv

(***************************************************************************)
(* A jump on an address, and a label for the jumps that do not leave here. *)
(***************************************************************************)
Branches(o, a, when, J, d) ==
    LET g == Len(o.code) + 1
    IN  /\ Moves(o, d) /\ d.heap = o.heap /\ a \notin Lost(d)
        /\ g \in Gotos(d.code) \ (Gotos(o.code) \cup J) /\ d.code[g].to = None
        /\ \A k \in Gotos(o.code) \ J : d.code[k].to = o.code[k].to
        /\ \A mem \in Memories : 
              LET m == Final(mem, o)
                  e == Final(mem, d)
              IN  /\ m.skip \in {None, Left} /\ e.skip \in {None, Left} /\ None # Left
                  /\ e.mem = m.mem /\ \A b \in Places(o.heap) : e.temps[b] = m.temps[b]
                  /\ m.skip = Left /\ m.from \in J => e.skip = None
                  /\ m.skip = Left /\ m.from \notin J => e.skip = Left /\ e.from = m.from
                  /\ m.skip = None /\ (Denoted(o.heap, m, a) # 0) = when => e.skip = Left /\ e.from = g
                  /\ m.skip = None /\ (Denoted(o.heap, m, a) # 0) # when => e.skip = None

LEMMA JumpedLabelled ==
    ASSUME NEW o, Good(o), NEW a, Ready(o, a), NEW when \in BOOLEAN, NEW J, J \subseteq Gotos(o.code), \A k \in J : o.code[k].to = None,
           NEW d, d = Labelled(Jumped(o, a, when), J)
    PROVE  Branches(o, a, when, J, d) /\ Len(Jumped(o, a, when).code) = Len(o.code) + 1
<1>1. PICK j, g : j = Jumped(o, a, when) /\ g = Len(o.code) + 1
  OBVIOUS
<1>2. /\ Good(j) /\ Keeps(o, j) /\ SameKinds(o, j) /\ Lost(j) \subseteq Lost(o) \ {a} /\ j.heap = o.heap
      /\ Gotos(j.code) = Gotos(o.code) \cup {g} /\ Len(j.code) = g
      /\ \A k \in Places(o.code) : j.code[k].to = o.code[k].to
  <2>1. /\ Good(j) /\ Keeps(o, j) /\ SameKinds(o, j) /\ Lost(j) \subseteq Lost(o) \ {a} /\ j.heap = o.heap
        /\ Gotos(j.code) = Gotos(o.code) \cup {Len(j.code)} /\ Len(j.code) = Len(o.code) + 1
    BY <1>1, JumpedIs
  <2>2. \A k \in Places(o.code) : Likewise(o.code[k], j.code[k]) /\ j.code[k].to = o.code[k].to
    BY <1>1, JumpedIs
  <2>3. QED BY <1>1, <2>1, <2>2
<1>3. j.code[g].to = None
  <2>1. LET q == j.code[Len(j.code)] IN q.op = "goto" /\ q.arg1 = a /\ q.result = None /\ q.when = when /\ q.to = None
    BY <1>1, JumpedIs
  <2>2. QED BY <1>2, <2>1
<1>4. g \notin Gotos(o.code) /\ g \notin J /\ g \in Nat /\ Gotos(o.code) \subseteq Places(o.code)
  <2>1. Len(o.code) \in Nat
    BY DEF Good, Outs
  <2>2. QED BY <1>1, <2>1 DEF Gotos, Places
<1>5. J \subseteq Gotos(j.code) /\ \A k \in J : j.code[k].to = None
  BY <1>2, <1>4
<1>6. d = Labelled(j, J)
  BY <1>1
<1>7. Moves(o, j)
  BY <1>2 DEF Moves
<1>8. Moves(j, d)
  BY <1>2, <1>5, <1>6, LabelledMoves
<1>9. Moves(o, d)
  BY <1>7, <1>8, MovesOn
<1>10. /\ d.heap = j.heap
       /\ \A k \in Gotos(j.code) \ J : d.code[k].to = j.code[k].to
  <2>1. CASE J = {}
    <3>1. d = j
      BY <1>6, <2>1 DEF Labelled
    <3>2. QED BY <3>1
  <2>2. CASE J # {}
    <3>1. d.heap = j.heap /\ \A k \in Places(j.code) : /\ Likewise(j.code[k], d.code[k])
                                                      /\ d.code[k].to = IF k \in J THEN Len(j.code) + 1 ELSE j.code[k].to
      BY <1>2, <1>5, <1>6, <2>2, LabelledIs
    <3>2. QED BY <3>1 DEF Gotos
  <2>3. QED BY <2>1, <2>2
<1>11. ASSUME NEW mem \in Memories
       PROVE  LET m == Final(mem, o)
                  e == Final(mem, d)
              IN  /\ m.skip \in {None, Left} /\ e.skip \in {None, Left} /\ None # Left
                  /\ e.mem = m.mem /\ \A b \in Places(o.heap) : e.temps[b] = m.temps[b]
                  /\ m.skip = Left /\ m.from \in J => e.skip = None
                  /\ m.skip = Left /\ m.from \notin J => e.skip = Left /\ e.from = m.from
                  /\ m.skip = None /\ (Denoted(o.heap, m, a) # 0) = when => e.skip = Left /\ e.from = g
                  /\ m.skip = None /\ (Denoted(o.heap, m, a) # 0) # when => e.skip = None
  <2>1. PICK m, i, e : m = Final(mem, o) /\ i = Final(mem, j) /\ e = Final(mem, d)
    OBVIOUS
  <2>2. m.skip \in {None, Left} /\ e.skip \in {None, Left} /\ None # Left
    BY <1>9, <2>1, FinalIs DEF Moves, None, Left
  <2>3. /\ m.skip = Left => Agree(o.heap, m, i)
        /\ i.mem = m.mem /\ \A b \in Places(o.heap) : i.temps[b] = m.temps[b]
        /\ m.skip = None => IF (Denoted(o.heap, m, a) # 0) = when THEN i.skip = Left /\ i.from = Len(j.code) ELSE i.skip = None
    BY <1>1, <2>1, JumpedRuns
  <2>4. /\ e.mem = i.mem /\ e.from = i.from /\ \A b \in Places(j.heap) : e.temps[b] = i.temps[b]
        /\ e.skip = IF i.skip = Left /\ i.from \in J THEN None ELSE i.skip
    BY <1>2, <1>5, <1>6, <2>1, LabelledRuns
  <2>5. m.skip = Left => i.skip = Left /\ i.from = m.from
    BY <2>3 DEF Agree
  <2>6. QED BY <1>2, <1>4, <2>1, <2>2, <2>3, <2>4, <2>5
<1>12. a \notin Lost(d)
  BY <1>2, <1>8 DEF Moves
<1>13. g \in Gotos(d.code) \ (Gotos(o.code) \cup J) /\ d.code[g].to = None
  BY <1>2, <1>3, <1>4, <1>8, <1>10 DEF Moves
<1>14. \A k \in Gotos(o.code) \ J : d.code[k].to = o.code[k].to
  BY <1>2, <1>4, <1>10
<1>15. QED BY <1>1, <1>2, <1>9, <1>10, <1>11, <1>12, <1>13, <1>14 DEF Branches

LEMMA JumpedMoves ==
    ASSUME NEW o, Good(o), NEW a, a = None \/ Ready(o, a), NEW when \in BOOLEAN, NEW J, J \subseteq Gotos(o.code), NEW j, j = Jumped(o, a, when),
           NEW d, d = Labelled(j, J)
    PROVE  Moves(o, d) /\ d.heap = o.heap /\ Len(j.code) = Len(o.code) + 1 /\ Len(j.code) \in Gotos(d.code)
<1>1. /\ Good(j) /\ Keeps(o, j) /\ SameKinds(o, j) /\ Lost(j) \subseteq Lost(o) \ {a} /\ j.heap = o.heap
      /\ Gotos(j.code) = Gotos(o.code) \cup {Len(j.code)} /\ Len(j.code) = Len(o.code) + 1
  BY SMTT(60), JumpedIs
<1>2. Moves(o, j) /\ J \subseteq Gotos(j.code) /\ Len(j.code) \in Gotos(j.code)
  BY <1>1 DEF Moves
<1>3. Moves(j, d)
  BY <1>1, <1>2, LabelledMoves
<1>4. d.heap = j.heap
  <2>1. CASE J = {}
    BY <2>1 DEF Labelled
  <2>2. CASE J # {}
    BY <1>1, <1>2, <2>2, LabelledIs
  <2>3. QED BY <2>1, <2>2
<1>5. Moves(o, d)
  BY <1>2, <1>3, MovesOn
<1>6. QED BY <1>1, <1>2, <1>3, <1>4, <1>5 DEF Moves

\* A condition's operand, when nothing went wrong.
LEMMA TestedIs ==
    ASSUME NEW W, W = {InCondition(Top), Tested(Top)}, Blame(W), fault \in Faults, Stands(Out, Top)
    PROVE  fault' \in Faults /\ (fault' = "none" => /\ fault = "none" /\ Top.bad \in {"none", "short-circuit"}
                                                   /\ ~IsMem(Out, Top.addr) /\ Ready(Out, Top.addr) /\ Top.addr # None)
<1>1. Top.bad \in Faults
  BY DEF Nodes, Stands
<1>2. W \subseteq Faults
  BY <1>1 DEF InCondition, Tested, Faults
<1>3. fault' \in Faults /\ (fault' = "none" => fault = "none" /\ \A w \in W : w = "none")
  BY <1>2, BlameIs
<1>4. (\A w \in W : w = "none") => /\ Top.bad \in {"none", "short-circuit"} /\ ~IsMem(Out, Top.addr)
                                    /\ Ready(Out, Top.addr) /\ Top.addr # None
  BY DEF InCondition, Tested, Stands
<1>5. QED BY <1>3, <1>4

\* What the address tested has.
LEMMA TestHolds ==
    ASSUME NEW m, Running(Out, stack, text, active, m), Len(stack) \in Places(stack), stack # <<>>, Top.mid = "none",
           Tame(Out, Top), Top.bad \in {"none", "short-circuit"}, ~IsMem(Out, Top.addr), Top.known = active, m.skip = None
    PROVE  (Denoted(heap, m, Top.addr) # 0) = (Value(Top) # 0)
<1>1. Uppermost(stack) = Top /\ Out.heap = heap /\ stack[Len(stack)] = Top
  BY DEF Uppermost, Top, Out
<1>2. active
  BY DEF Running
<1>3. CASE Top.bad = "none"
  <2>1. Plain(Top) /\ Top.known
    BY <1>2, <1>3 DEF Plain
  <2>2. Holds(Out, m, text, Top)
    BY <1>1, <2>1 DEF Running
  <2>3. QED BY <1>1, <2>2 DEF Holds, Value
<1>4. CASE Top.bad = "short-circuit"
  <2>1. Logical(stack)
    BY <1>1, <1>4 DEF Logical
  <2>2. (Denoted(heap, m, Top.addr) # 0) = (Top.val # 0)
    BY <1>1, <2>1 DEF Running
  <2>3. Value(Top) = Top.val
    BY <1>4 DEF Tame, Value, ValueIn
  <2>4. QED BY <2>2, <2>3
<1>5. QED BY <1>3, <1>4

LEMMA LogicalValue == ASSUME NEW o, NEW n, Tame(o, n), n.mid = "none", n.bad = "short-circuit" PROVE Value(n) = n.val
BY DEF Tame, Value, ValueIn

(***************************************************************************)
(* The jump of a condition.                                                *)
(***************************************************************************)
LEMMA ConditionKeeps == ASSUME IInv, Condition PROVE IInv'
<1>1. PICK j, d, n2 :
         /\ j = Jumped(Out, Top.addr, FALSE) /\ d = Labelled(j, Top.true)
         /\ n2 = [Top EXCEPT !.false = @ \cup {Len(j.code)}, !.mid = "if"]
         /\ stack' = <<n2>> /\ ta_code' = d.code
  BY DEF Condition
<1>2. /\ phase = "expression" /\ Len(stack) = 1 /\ Top.mid = "none" /\ phase' = "end"
      /\ heap' = heap /\ start' = start /\ text' = text /\ active' = active /\ truth' = (Value(Top) # 0)
      /\ Blame({InCondition(Top), Tested(Top)})
  BY DEF Condition, Ends, given
<1>3. PICK w, n, g : w = Out /\ n = Top /\ g = Len(w.code) + 1
  OBVIOUS
<1>4. /\ Sound(w) /\ Good(w) /\ Standing(w, stack) /\ stack \in Seq(Nodes) /\ fault \in Faults /\ start \in Memories /\ text \in Memories
      /\ active \in BOOLEAN /\ Ordered(stack, active) /\ w.heap = heap
  BY <1>2, <1>3 DEF IInv, Structure, Sound, Standing, Parsed, Out
<1>5. Places(stack) = {1} /\ Uppermost(stack) = n /\ stack[1] = n /\ stack # <<>> /\ Len(stack) \in Places(stack) /\ n \in Nodes
  <2>1. Places(stack) = {1} /\ stack # <<>> /\ Len(stack) \in Places(stack)
    BY <1>2, <1>4 DEF Places
  <2>2. n = stack[1] /\ Uppermost(stack) = stack[1]
    BY <1>2, <1>3 DEF Uppermost, Top
  <2>3. QED BY <1>4, <2>1, <2>2 DEF Places
<1>6. Stands(w, n) /\ (n.addr = None \/ Ready(w, n.addr)) /\ n.true \subseteq Gotos(w.code) /\ n.false \subseteq Gotos(w.code)
  <2>1. Stands(w, n)
    BY <1>4, <1>5 DEF Standing
  <2>2. QED BY <1>2, <1>3, <2>1 DEF Stands
<1>7. fault' \in Faults /\ (fault' = "none" => /\ fault = "none" /\ n.bad \in {"none", "short-circuit"}
                                               /\ ~IsMem(w, n.addr) /\ Ready(w, n.addr) /\ n.addr # None)
  BY <1>2, <1>3, <1>4, <1>6, TestedIs
<1>8. fault = "none" => Tidy(w, stack) /\ (~Stuck(stack, Final(start, w)) => Running(w, stack, text, active, Final(start, w)))
  BY <1>2, <1>3 DEF IInv, Going
<1>9. d.heap = heap /\ Moves(w, d) /\ Len(j.code) = g /\ g \in Gotos(d.code)
  <2>a. PICK a, J, f : a = n.addr /\ J = n.true /\ f = FALSE
    OBVIOUS
  <2>1. f \in BOOLEAN /\ j = Jumped(w, a, f) /\ d = Labelled(j, J) /\ Good(w) /\ (a = None \/ Ready(w, a)) /\ J \subseteq Gotos(w.code)
    BY <1>1, <1>3, <1>4, <1>6, <2>a
  <2>2. Moves(w, d) /\ d.heap = w.heap /\ Len(j.code) = Len(w.code) + 1 /\ Len(j.code) \in Gotos(d.code)
    BY <2>1, JumpedMoves
  <2>3. QED BY <1>3, <1>4, <2>2
<1>10. Sound(d) /\ Out' = d
  <2>1. Sound(d)
    BY <1>4, <1>9, MovesSound
  <2>2. d \in Outs
    BY <1>9 DEF Moves, Good
  <2>3. Out' = [heap |-> d.heap, code |-> d.code]
    BY <1>1, <1>2, <1>9 DEF Out
  <2>4. QED BY <2>1, <2>2, <2>3 DEF Outs
<1>11. n2 \in Nodes /\ n2.addr = n.addr /\ n2.bad = n.bad /\ n2.true = n.true /\ n2.false = n.false \cup {g} /\ n2.mid = "if"
  <2>1. n2 = [n EXCEPT !.false = n.false \cup {g}, !.mid = "if"]
    BY <1>1, <1>3, <1>9
  <2>2. g \in Nat
    BY <1>3, <1>4 DEF Good, Outs
  <2>3. n.true \in SUBSET Nat /\ n.false \in SUBSET Nat
    BY <1>5 DEF Nodes
  <2>4. n.false \cup {g} \in SUBSET Nat
    BY <2>2, <2>3
  <2>5. QED BY <1>5, <2>1, <2>4 DEF Nodes
<1>12. Standing(d, stack')
  <2>1. Stands(d, n2)
    <3>1. n.addr = None \/ Ready(d, n.addr)
      BY <1>4, <1>6, <1>9, KeepsReady DEF Moves
    <3>2. IF n.addr = None THEN n.bad \in {"conditional", "comma"} ELSE TRUE
      BY <1>6 DEF Stands
    <3>3. n2.true \subseteq Gotos(d.code) /\ n2.false \subseteq Gotos(d.code)
      BY <1>6, <1>9, <1>11 DEF Moves
    <3>4. QED BY <1>11, <3>1, <3>2, <3>3 DEF Stands
  <2>2. PICK s : s = <<n2>>
    OBVIOUS
  <2>3. s \in Seq(Nodes) /\ Places(s) = {1} /\ s[1] = n2
    BY <1>11, <2>2 DEF Places
  <2>4. Standing(d, s)
    BY <2>1, <2>3 DEF Standing
  <2>5. QED BY <1>1, <2>2, <2>4
<1>13. Structure'
  BY <1>2, <1>4, <1>7, <1>10, <1>12 DEF Structure
<1>14. Uppermost(stack') = n2 /\ stack' # <<>>
  BY <1>1 DEF Uppermost
<1>15. ASSUME fault' = "none"
       PROVE  Lost(d) = {} /\ Final(start, d).mem = text /\ Decided(stack, Final(start, d))'
  <2>1. fault = "none" /\ n.bad \in {"none", "short-circuit"} /\ ~IsMem(w, n.addr) /\ Ready(w, n.addr)
    BY <1>7, <1>15
  <2>2. Tidy(w, stack) /\ ~Stuck(stack, Final(start, w))
    BY <1>2, <1>5, <1>8, <2>1 DEF Stuck
  <2>3. PICK m, e : m = Final(start, w) /\ e = Final(start, d)
    OBVIOUS
  <2>4. Running(w, stack, text, active, m)
    BY <1>8, <2>1, <2>2, <2>3
  <2>5. Tame(w, n) /\ \A k \in n.true : w.code[k].to = None
    BY <1>5, <2>2 DEF Tidy, Tame, Lists
  <2>6. Branches(w, n.addr, FALSE, n.true, d)
    <3>1. FALSE \in BOOLEAN /\ d = Labelled(Jumped(w, n.addr, FALSE), n.true)
      BY <1>1, <1>3
    <3>2. QED BY <1>4, <1>6, <2>1, <2>5, <3>1, JumpedLabelled
  <2>7. Lost(d) = {}
    <3>1. \A a \in Lost(w) : a = n.addr
      BY <1>5, <2>2 DEF Tidy
    <3>2. QED BY <2>6, <3>1 DEF Branches, Moves
  <2>8. n.known = active /\ active = TRUE
    BY <1>3, <1>2, <1>4, <1>5 DEF Ordered, Goes
  <2>9. m.skip = None => (Denoted(heap, m, n.addr) # 0) = (Value(n) # 0)
    BY <1>2, <1>3, <1>5, <2>1, <2>4, <2>5, <2>8, TestHolds
  <2>10. /\ m.skip \in {None, Left} /\ e.skip \in {None, Left} /\ None # Left
         /\ e.mem = m.mem
         /\ m.skip = Left /\ m.from \in n.true => e.skip = None
         /\ m.skip = Left /\ m.from \notin n.true => e.skip = Left /\ e.from = m.from
         /\ m.skip = None /\ (Denoted(heap, m, n.addr) # 0) = FALSE => e.skip = Left /\ e.from = g
         /\ m.skip = None /\ (Denoted(heap, m, n.addr) # 0) # FALSE => e.skip = None
    BY <1>3, <1>4, <2>3, <2>6 DEF Branches
  <2>11. m.mem = text
    BY <2>4 DEF Running
  <2>12. IF Value(n) # 0 THEN e.skip = None \/ (e.skip = Left /\ e.from \in n2.true)
                         ELSE e.skip = Left /\ e.from \in n2.false
    <3>1. CASE m.skip = None
      BY <1>11, <2>9, <2>10, <3>1
    <3>2. CASE m.skip = Left
      <4>1. Logical(stack) /\ m.from \in (IF n.val # 0 THEN n.true ELSE n.false)
        BY <1>5, <2>4, <2>8, <3>2 DEF Running
      <4>2. Value(n) = n.val
        BY <1>5, <2>5, <4>1, LogicalValue DEF Logical
      <4>3. n.true \cap n.false = {}
        BY <2>5 DEF Tame
      <4>4. QED BY <1>11, <2>10, <3>2, <4>1, <4>2, <4>3
    <3>3. QED BY <2>10, <3>1, <3>2
  <2>13. Decided(stack, Final(start, d))'
    <3>1. truth' = (Value(n) # 0) /\ Final(start, d)' = e
      BY <1>1, <1>2, <1>3, <1>10, <2>3
    <3>2. QED BY <1>14, <2>12, <3>1 DEF Decided
  <2>14. QED BY <2>3, <2>7, <2>10, <2>11, <2>13
<1>16. Ended'
  <2>1. Final(start', Out') = Final(start, d)
    BY <1>2, <1>10
  <2>2. QED BY <1>2, <1>10, <1>14, <1>15, <2>1 DEF Ended
<1>17. Parsed' /\ Going'
  BY <1>2 DEF Parsed, Going
<1>18. QED BY <1>13, <1>16, <1>17 DEF IInv

(***************************************************************************)
(* The jump behind the left operand of && and ||.                          *)
(***************************************************************************)
\* What the action behind the operator leaves on the stack.
Halved(n, op, when, val, g, n2) ==
    /\ n2 \in Nodes /\ n2.addr = n.addr /\ n2.mid = op /\ n2.saved = n.known /\ n2.known = n.known /\ n2.val = val /\ n2.bad = n.bad
    /\ n2.true = (IF when THEN n.true \cup {g} ELSE {}) /\ n2.false = (IF when THEN {} ELSE n.false \cup {g})

LEMMA HalvedIs ==
    ASSUME NEW n \in Nodes, NEW op \in {"and", "or"}, NEW when \in BOOLEAN, NEW val \in Int, NEW g \in Nat, NEW n2,
           n2 = [n EXCEPT !.mid = op, !.saved = n.known, !.val = val, !.cell = None,
                          !.true = IF when THEN n.true \cup {g} ELSE {}, !.false = IF when THEN {} ELSE n.false \cup {g}]
    PROVE  Halved(n, op, when, val, g, n2)
<1>1. n.true \in SUBSET Nat /\ n.false \in SUBSET Nat /\ n.known \in BOOLEAN
  BY DEF Nodes
<1>2. PICK t, f, c : t = (IF when THEN n.true \cup {g} ELSE {}) /\ f = (IF when THEN {} ELSE n.false \cup {g}) /\ c = None
  OBVIOUS
<1>a. t \in SUBSET Nat /\ f \in SUBSET Nat /\ c \in Int /\ op \in {"none", "and", "or", "if"}
  BY <1>1, <1>2 DEF None
<1>3. n2 = [n EXCEPT !.mid = op, !.saved = n.known, !.val = val, !.cell = c, !.true = t, !.false = f]
  BY <1>2
<1>4. n2 \in Nodes /\ n2.addr = n.addr /\ n2.mid = op /\ n2.saved = n.known /\ n2.known = n.known /\ n2.val = val /\ n2.bad = n.bad
      /\ n2.true = t /\ n2.false = f
  BY <1>1, <1>a, <1>3 DEF Nodes
<1>5. QED BY <1>2, <1>4 DEF Halved

\* The order of the operands, after the topmost got a middle.
LEMMA HalvedOrdered ==
    ASSUME NEW st \in Seq(Nodes), st # <<>>, NEW act \in BOOLEAN, Ordered(st, act), NEW n, n = Uppermost(st), n.mid = "none",
           NEW op \in {"and", "or"}, NEW when, NEW val, NEW g, NEW n2, Halved(n, op, when, val, g, n2),
           NEW st2, NEW p, p = Len(st) - 1, Pushed(st, n2, st2, p), NEW act2, act2 = (act /\ ((val # 0) # (op = "or")))
    PROVE  Ordered(st2, act2) /\ n.known = act
<1>1. /\ st2 \in Seq(Nodes) /\ p \in Nat /\ Len(st2) = p + 1 /\ st2[p + 1] = n2 /\ Uppermost(st2) = n2 /\ st2 # <<>>
      /\ \A k \in 1 .. p : st2[k] = st[k] /\ k \in Places(st)
      /\ Places(st2) = (1 .. p) \cup {p + 1}
  BY DEF Pushed
<1>2. n2.mid = op /\ n2.saved = n.known /\ n2.known = n.known /\ n2.val = val /\ n.known \in BOOLEAN
  <2>1. n2 \in Nodes /\ n2.mid = op /\ n2.saved = n.known /\ n2.known = n.known /\ n2.val = val
    BY DEF Halved
  <2>2. QED BY <2>1 DEF Nodes
<1>3. n.known = act
  BY <1>2 DEF Ordered, Goes
<1>4. act2 = Goes(n2)
  BY <1>2, <1>3 DEF Goes, Passes
<1>5. p + 1 \in Places(st) /\ st[p + 1] = n /\ (p + 1) - 1 = p
  BY <1>1 DEF Places, Uppermost
<1>6. n2.known = (p + 1 = 1 \/ Goes(st2[p]))
  <2>1. n.known = (p + 1 = 1 \/ Goes(st[p]))
    BY <1>5 DEF Ordered
  <2>2. p = 0 \/ p \in 1 .. p
    BY <1>1
  <2>3. QED BY <1>1, <1>2, <2>1, <2>2
<1>7. ASSUME NEW k \in 1 .. p
      PROVE  /\ st2[k].known = (k = 1 \/ Goes(st2[k - 1]))
             /\ st2[k].mid # "none" => st2[k].saved = st2[k].known /\ st2[k].mid \in {"and", "or"}
  <2>1. k = 1 \/ k - 1 \in 1 .. p
    BY <1>1
  <2>2. QED BY <1>1, <2>1 DEF Ordered
<1>8. ASSUME NEW k \in Places(st2)
      PROVE  /\ st2[k].known = (k = 1 \/ Goes(st2[k - 1]))
             /\ st2[k].mid # "none" => st2[k].saved = st2[k].known /\ st2[k].mid \in {"and", "or"}
  <2>1. CASE k \in 1 .. p
    BY <1>7, <2>1
  <2>2. CASE k = p + 1
    <3>1. k - 1 = p /\ st2[k] = n2
      BY <1>1, <2>2
    <3>2. QED BY <1>2, <1>6, <2>2, <3>1
  <2>3. QED BY <1>1, <2>1, <2>2
<1>9. QED BY <1>1, <1>3, <1>4, <1>8 DEF Ordered

LEMMA HalvedTidy ==
    ASSUME NEW o, Good(o), NEW st, Standing(o, st), Tidy(o, st), st # <<>>, NEW n, n = Uppermost(st), n.mid = "none",
           n.bad \in {"none", "short-circuit"}, NEW op \in {"and", "or"}, NEW when \in BOOLEAN, NEW J, J = (IF when THEN n.false ELSE n.true),
           NEW d, Branches(o, n.addr, when, J, d), NEW val, NEW g, g = Len(o.code) + 1, NEW n2, Halved(n, op, when, val, g, n2),
           NEW st2, NEW p, p = Len(st) - 1, Pushed(st, n2, st2, p)
    PROVE  Tidy(d, st2)
<1>1. /\ st2 \in Seq(Nodes) /\ p \in Nat /\ Len(st2) = p + 1 /\ st2[p + 1] = n2
      /\ \A k \in 1 .. p : st2[k] = st[k] /\ k \in Places(st)
      /\ Places(st2) = (1 .. p) \cup {p + 1}
      /\ \A k \in Places(st) : k \in 1 .. p \/ k \in p + 1 .. Len(st)
  BY DEF Pushed
<1>2. st \in Seq(Nodes) /\ p + 1 = Len(st) /\ p + 1 \in Places(st) /\ st[p + 1] = n /\ \A k \in Places(st) : k \in 1 .. p \/ k = p + 1
  <2>1. st \in Seq(Nodes)
    BY DEF Standing
  <2>2. QED BY <1>1, <2>1 DEF Places, Uppermost
<1>3. /\ Moves(o, d) /\ d.heap = o.heap /\ n.addr \notin Lost(d)
      /\ g \in Gotos(d.code) \ (Gotos(o.code) \cup J) /\ d.code[g].to = None
      /\ \A k \in Gotos(o.code) \ J : d.code[k].to = o.code[k].to
  BY DEF Branches
<1>4. J \subseteq Lists(n) /\ Lists(n2) \subseteq (Lists(n) \ J) \cup {g} /\ n2.mid = op /\ n2.bad = n.bad /\ n2.true \cap n2.false = {}
  <2>1. Tame(o, n)
    BY <1>2 DEF Tidy
  <2>2. QED BY <2>1 DEF Halved, Lists, Tame
<1>5. \A k \in Places(st) : Lists(st[k]) \subseteq Gotos(o.code)
  BY DEF Standing, Stands, Lists
<1>6. ASSUME NEW k \in 1 .. p PROVE Tame(d, st2[k]) /\ Neat(d, st2[k]) /\ Lists(st2[k]) \cap Lists(n) = {} /\ g \notin Lists(st2[k])
  <2>1. Tame(o, st[k]) /\ Neat(o, st[k]) /\ k \in Places(st) /\ st2[k] = st[k]
    BY <1>1 DEF Tidy
  <2>2. Lists(st[k]) \cap Lists(n) = {}
    <3>1. k \in Places(st) \ {p + 1}
      BY <1>1, <2>1
    <3>2. QED BY <1>2, <3>1 DEF Tidy
  <2>3. \A x \in Lists(st[k]) : d.code[x].to = None
    <3>1. \A x \in Lists(st[k]) : x \in Gotos(o.code) \ J /\ o.code[x].to = None
      BY <1>4, <1>5, <2>1, <2>2 DEF Tame
    <3>2. QED BY <1>3, <3>1
  <2>4. Tame(d, st[k])
    BY <2>1, <2>3 DEF Tame
  <2>5. Neat(d, st[k])
    BY <1>3, <2>1 DEF Neat, Shaped, IsMem
  <2>6. QED BY <1>3, <1>5, <2>1, <2>2, <2>4, <2>5
<1>7. Tame(d, n2) /\ Neat(d, n2)
  <2>1. \A x \in Lists(n2) : d.code[x].to = None
    <3>1. \A x \in Lists(n) \ J : d.code[x].to = None
      <4>1. \A x \in Lists(n) \ J : x \in Gotos(o.code) \ J /\ o.code[x].to = None
        BY <1>2, <1>5 DEF Tidy, Tame
      <4>2. QED BY <1>3, <4>1
    <3>2. QED BY <1>3, <1>4, <3>1
  <2>2. QED BY <1>4, <2>1 DEF Tame, Neat, Plain
<1>8. \A k \in Places(st2) : Tame(d, st2[k]) /\ Neat(d, st2[k])
  BY <1>1, <1>6, <1>7
<1>9. \A k \in Places(st2) : \A j \in Places(st2) \ {k} : Lists(st2[k]) \cap Lists(st2[j]) = {}
  <2>1. ASSUME NEW k \in 1 .. p, NEW j \in (1 .. p) \ {k} PROVE Lists(st2[k]) \cap Lists(st2[j]) = {}
    BY <1>1 DEF Tidy
  <2>2. ASSUME NEW k \in 1 .. p PROVE Lists(st2[k]) \cap Lists(n2) = {}
    BY <1>4, <1>6
  <2>3. QED BY <1>1, <2>1, <2>2
<1>10. ASSUME NEW a \in Lost(d) PROVE \E k \in Places(st2) : st2[k].mid = "none" /\ st2[k].unread /\ st2[k].addr = a
  <2>1. a \in Lost(o) /\ a # n.addr
    BY <1>3 DEF Moves
  <2>2. PICK k \in Places(st) : st[k].mid = "none" /\ st[k].unread /\ st[k].addr = a
    BY <2>1 DEF Tidy
  <2>3. k \in 1 .. p
    BY <1>2, <2>1, <2>2
  <2>4. QED BY <1>1, <2>2, <2>3
<1>11. QED BY <1>8, <1>9, <1>10 DEF Tidy

\* The heap is the same, and what was computed.
LEMMA HoldsStay ==
    ASSUME NEW o, NEW d, d.heap = o.heap, NEW m, NEW e, e.mem = m.mem, NEW n, n.addr \in Places(o.heap), e.temps[n.addr] = m.temps[n.addr],
           NEW mem, Holds(o, m, mem, n)
    PROVE  Holds(d, e, mem, n)
BY DEF Holds, IsMem, Denoted

\* The topmost operand, and what its jump does.
Halves(o, st, act, n, a, op, when, J, val, g, p, act2) ==
    /\ st # <<>> /\ act \in BOOLEAN /\ n = Uppermost(st) /\ n.mid = "none" /\ n.addr # None /\ a = n.addr
    /\ op \in {"and", "or"} /\ when \in BOOLEAN /\ when = (op = "or") /\ J = (IF when THEN n.false ELSE n.true)
    /\ g = Len(o.code) + 1 /\ p = Len(st) - 1 /\ act2 = (act /\ ((val # 0) # when))
Tests(o, m, n, a, val) ==
    /\ m.skip = None => (Denoted(o.heap, m, a) # 0) = (val # 0)
    /\ n.bad = "short-circuit" => val = n.val

LEMMA HalvedRuns ==
    ASSUME NEW o, Good(o), NEW st, Standing(o, st), Tidy(o, st), NEW act, Ordered(st, act), NEW n, NEW a, NEW op, NEW when, NEW J,
           NEW d, Branches(o, a, when, J, d), NEW val, NEW g, NEW n2, Halved(n, op, when, val, g, n2),
           NEW st2, NEW p, Pushed(st, n2, st2, p), NEW act2, Halves(o, st, act, n, a, op, when, J, val, g, p, act2),
           NEW mem, NEW s0 \in Memories, NEW m, m = Final(s0, o), NEW e, e = Final(s0, d), Running(o, st, mem, act, m),
           Tests(o, m, n, a, val)
    PROVE  Running(d, st2, mem, act2, e)
<1>h. /\ st # <<>> /\ act \in BOOLEAN /\ n = Uppermost(st) /\ n.mid = "none" /\ n.addr # None /\ a = n.addr
      /\ op \in {"and", "or"} /\ when \in BOOLEAN /\ when = (op = "or") /\ J = (IF when THEN n.false ELSE n.true)
      /\ g = Len(o.code) + 1 /\ p = Len(st) - 1 /\ act2 = (act /\ ((val # 0) # when))
  BY DEF Halves
<1>t. /\ m.skip = None => (Denoted(o.heap, m, n.addr) # 0) = (val # 0)
      /\ n.bad = "short-circuit" => val = n.val
  BY <1>h DEF Tests
<1>1. /\ st2 \in Seq(Nodes) /\ p \in Nat /\ Len(st2) = p + 1 /\ st2[p + 1] = n2 /\ Uppermost(st2) = n2
      /\ \A k \in 1 .. p : st2[k] = st[k] /\ k \in Places(st)
      /\ Places(st2) = (1 .. p) \cup {p + 1}
      /\ \A k \in Places(st) : k \in 1 .. p \/ k \in p + 1 .. Len(st)
  BY DEF Pushed
<1>2. st \in Seq(Nodes) /\ p + 1 = Len(st) /\ p + 1 \in Places(st) /\ st[p + 1] = n /\ \A k \in Places(st) : k \in 1 .. p \/ k = p + 1
  <2>1. st \in Seq(Nodes)
    BY DEF Standing
  <2>2. QED BY <1>1, <1>h, <2>1 DEF Places, Uppermost
<1>3. /\ m.skip \in {None, Left} /\ e.skip \in {None, Left} /\ None # Left
      /\ e.mem = m.mem /\ \A b \in Places(o.heap) : e.temps[b] = m.temps[b]
      /\ m.skip = Left /\ m.from \in J => e.skip = None
      /\ m.skip = Left /\ m.from \notin J => e.skip = Left /\ e.from = m.from
      /\ m.skip = None /\ (Denoted(o.heap, m, n.addr) # 0) = when => e.skip = Left /\ e.from = g
      /\ m.skip = None /\ (Denoted(o.heap, m, n.addr) # 0) # when => e.skip = None
      /\ d.heap = o.heap
  BY <1>h DEF Branches
<1>4. /\ n2.mid = op /\ n2.known = n.known /\ n2.val = val /\ n2.bad = n.bad
      /\ n2.true = (IF when THEN n.true \cup {g} ELSE {}) /\ n2.false = (IF when THEN {} ELSE n.false \cup {g})
      /\ ~Plain(n2)
  BY <1>h DEF Halved, Plain
<1>5. /\ m.mem = mem
      /\ \A k \in Places(st) : Plain(st[k]) /\ st[k].known => Holds(o, m, mem, st[k])
      /\ m.skip = None => act
      /\ m.skip = Left /\ act => Logical(st) /\ m.from \in (IF n.val # 0 THEN n.true ELSE n.false)
      /\ m.skip = Left /\ ~act => \E k \in Places(st) : Decides(st[k]) /\ m.from \in Exits(st[k])
  BY <1>h DEF Running
<1>6. n.true \cap n.false = {} /\ (Logical(st) => val = n.val)
  BY <1>2, <1>h, <1>t DEF Tidy, Tame, Logical
<1>7. n.known = act
  <2>1. n \in Nodes
    BY <1>2 DEF Places
  <2>2. QED BY <1>h, <2>1 DEF Ordered, Goes, Nodes
<1>8. ASSUME NEW k \in Places(st2), Plain(st2[k]), st2[k].known PROVE Holds(d, e, mem, st2[k])
  <2>1. k \in 1 .. p /\ st2[k] = st[k] /\ k \in Places(st)
    BY <1>1, <1>4, <1>8
  <2>2. Holds(o, m, mem, st[k])
    BY <1>5, <1>8, <2>1
  <2>3. st[k].addr \in Places(o.heap)
    <3>1. Neat(o, st[k]) /\ Stands(o, st[k])
      BY <2>1 DEF Tidy, Standing
    <3>2. QED BY <1>8, <2>1, <3>1 DEF Neat, Stands, Ready
  <2>4. e.temps[st[k].addr] = m.temps[st[k].addr]
    BY <1>3, <2>3
  <2>5. PICK x : x = st[k]
    OBVIOUS
  <2>6. Holds(d, e, mem, x)
    BY <1>3, <2>2, <2>3, <2>4, <2>5, HoldsStay
  <2>7. QED BY <2>1, <2>5, <2>6
\* The jump was not taken, or one that leaves the operand was.
<1>9. CASE m.skip = None
  <2>1. act /\ (Denoted(o.heap, m, n.addr) # 0) = (val # 0)
    BY <1>5, <1>9, <1>t
  <2>2. e.skip = None <=> act2
    BY <1>h, <1>3, <1>9, <2>1
  <2>3. ASSUME ~act2 PROVE e.from = g /\ Decides(n2) /\ g \in Exits(n2)
    <3>1. e.from = g
      BY <1>3, <1>9, <1>h, <2>1, <2>3
    <3>2. n2.known /\ ~Passes(n2) /\ n2.mid # "none"
      BY <1>4, <1>7, <1>h, <2>1, <2>3 DEF Passes
    <3>3. g \in Exits(n2)
      BY <1>4, <1>h DEF Exits
    <3>4. QED BY <3>1, <3>2, <3>3 DEF Decides
  <2>4. QED BY <1>1, <1>3, <1>5, <1>4, <1>8, <1>h, <2>2, <2>3 DEF Running, Logical
<1>10. CASE m.skip = Left /\ act
  <2>1. m.from \in (IF val # 0 THEN n.true ELSE n.false)
    BY <1>5, <1>6, <1>10
  <2>2. e.skip = None <=> act2
    BY <1>h, <1>3, <1>6, <1>10, <2>1
  <2>3. ASSUME ~act2 PROVE Decides(n2) /\ e.from \in Exits(n2)
    <3>1. e.from = m.from
      BY <1>3, <1>6, <1>10, <1>h, <2>1, <2>3
    <3>2. n2.known /\ ~Passes(n2) /\ n2.mid # "none"
      BY <1>4, <1>7, <1>10, <1>h, <2>3 DEF Passes
    <3>3. m.from \in Exits(n2)
      BY <1>4, <1>10, <1>h, <2>1, <2>3 DEF Exits
    <3>4. QED BY <3>1, <3>2, <3>3 DEF Decides
  <2>4. QED BY <1>1, <1>3, <1>5, <1>4, <1>8, <1>h, <2>2, <2>3 DEF Running, Logical
<1>11. CASE m.skip = Left /\ ~act
  <2>1. PICK k \in Places(st) : Decides(st[k]) /\ m.from \in Exits(st[k])
    BY <1>5, <1>11
  <2>2. k \in 1 .. p /\ k \in Places(st) \ {p + 1}
    BY <1>1, <1>2, <1>h, <2>1 DEF Decides
  <2>3. m.from \notin J
    <3>1. Lists(st[k]) \cap Lists(n) = {}
      BY <1>2, <2>2 DEF Tidy
    <3>2. J \subseteq Lists(n) /\ m.from \in Lists(st[k])
      BY <1>h, <2>1 DEF Lists, Exits
    <3>3. QED BY <3>1, <3>2
  <2>4. e.skip = Left /\ e.from = m.from
    BY <1>3, <1>11, <2>3
  <2>5. Decides(st2[k]) /\ e.from \in Exits(st2[k]) /\ k \in Places(st2)
    BY <1>1, <2>1, <2>2, <2>4
  <2>6. QED BY <1>1, <1>3, <1>5, <1>4, <1>8, <1>h, <1>11, <2>4, <2>5 DEF Running, Logical
<1>12. QED BY <1>3, <1>9, <1>10, <1>11

LEMMA LeftOperandKeeps == ASSUME IInv, Distinct(stack), NEW op \in {"and", "or"}, NEW when, when = (op = "or"), LeftOperand(op, when) PROVE IInv'
<1>1. Waits(1) /\ Blame({InCondition(Top), Tested(Top)})
  BY DEF LeftOperand
<1>2. PICK w, n, a, J, g, val : w = Out /\ n = Top /\ a = n.addr /\ J = (IF when THEN n.false ELSE n.true) /\ g = Len(w.code) + 1 /\ val = Value(n)
  OBVIOUS
<1>3. PICK j, d, n2, p, st2 :
         /\ j = Jumped(w, a, when) /\ d = Labelled(j, J) /\ p = Len(stack) - 1 /\ st2 = stack'
         /\ n2 = [n EXCEPT !.mid = op, !.saved = active, !.val = val, !.cell = None,
                           !.true = IF when THEN @ \cup {Len(j.code)} ELSE {}, !.false = IF when THEN {} ELSE @ \cup {Len(j.code)}]
         /\ heap' = d.heap /\ ta_code' = d.code /\ stack' = Append(Popped(1), n2)
  BY <1>2 DEF LeftOperand
<1>4. active' = (active /\ ((val # 0) # when)) /\ start' = start /\ text' = text /\ phase' = phase
  BY <1>2 DEF LeftOperand, given
<1>5. /\ phase = "expression" /\ Good(w) /\ Sound(w) /\ stack \in Seq(Nodes) /\ Len(stack) \in Nat
      /\ start \in Memories /\ text \in Memories /\ active \in BOOLEAN /\ fault \in Faults
      /\ Stands(w, n) /\ (a = None \/ Ready(w, a)) /\ n.mid = "none" /\ n \in Nodes /\ Len(stack) \in Places(stack)
      /\ (fault = "none" => Tame(w, n)) /\ Pops(stack, 1, p)
  BY <1>1, <1>2, <1>3, Waiting DEF Stands
<1>6. Standing(w, stack) /\ Ordered(stack, active) /\ stack # <<>> /\ Uppermost(stack) = n /\ when \in BOOLEAN
  <2>1. Len(stack) >= 1
    BY <1>1 DEF Waits
  <2>2. QED BY <1>2, <1>5, <2>1 DEF IInv, Structure, Parsed, Uppermost, Top
<1>7. J \subseteq Gotos(w.code) /\ val \in Int /\ g \in Nat /\ n.known = active
  <2>1. J \subseteq Gotos(w.code)
    BY <1>2, <1>5 DEF Stands
  <2>2. val \in Int
    BY <1>2, <1>5, ValueIs DEF Value
  <2>3. g \in Nat
    BY <1>2, <1>5 DEF Good, Outs
  <2>4. n.known = active
    BY <1>5, <1>6 DEF Ordered, Goes, Nodes
  <2>5. QED BY <2>1, <2>2, <2>3, <2>4
<1>8. Moves(w, d) /\ d.heap = w.heap /\ Len(j.code) = g /\ g \in Gotos(d.code)
  <2>1. Moves(w, d) /\ d.heap = w.heap /\ Len(j.code) = Len(w.code) + 1 /\ Len(j.code) \in Gotos(d.code)
    <3>1. Good(w) /\ (a = None \/ Ready(w, a)) /\ when \in BOOLEAN /\ J \subseteq Gotos(w.code) /\ j = Jumped(w, a, when) /\ d = Labelled(j, J)
      BY <1>3, <1>5, <1>6, <1>7
    <3>2. QED BY ONLY <3>1, JumpedMoves
  <2>2. QED BY <1>2, <2>1
<1>9. Sound(d) /\ Good(d) /\ Out' = d
  <2>1. Sound(d) /\ Good(d)
    BY <1>5, <1>8, MovesSound DEF Moves
  <2>2. d \in Outs
    BY <2>1 DEF Good
  <2>3. Out' = [heap |-> d.heap, code |-> d.code]
    BY <1>3 DEF Out
  <2>4. QED BY <2>1, <2>2, <2>3 DEF Outs
<1>10. Halved(n, op, when, val, g, n2)
  <2>1. n2 = [n EXCEPT !.mid = op, !.saved = n.known, !.val = val, !.cell = None,
                       !.true = IF when THEN n.true \cup {g} ELSE {}, !.false = IF when THEN {} ELSE n.false \cup {g}]
    BY <1>3, <1>7, <1>8
  <2>2. QED BY <1>5, <1>6, <1>7, <2>1, HalvedIs
<1>11. n2 \in Nodes /\ n2.addr = n.addr /\ n2.bad = n.bad
  BY <1>10 DEF Halved
<1>12. Pushed(stack, n2, st2, p)
  <2>1. p = Len(stack) - 1 /\ 1 \in 0 .. Len(stack) /\ st2 = Append(SubSeq(stack, 1, Len(stack) - 1), n2)
    BY <1>3, <1>5 DEF Pops, Popped
  <2>2. QED BY <1>5, <1>11, <2>1, PushIs
<1>13. Standing(d, st2)
  <2>1. Stands(d, n2)
    <3>1. IF n2.addr = None THEN n2.bad \in {"conditional", "comma"} ELSE Ready(d, n2.addr)
      BY <1>2, <1>5, <1>8, <1>9, <1>11, KeepsReady DEF Moves, Stands
    <3>2. n2.true \subseteq Gotos(d.code) /\ n2.false \subseteq Gotos(d.code)
      BY <1>5, <1>8, <1>10 DEF Halved, Moves, Stands
    <3>3. QED BY <1>11, <3>1, <3>2 DEF Stands
  <2>2. Keeps(w, d) /\ Gotos(w.code) \subseteq Gotos(d.code)
    BY <1>8 DEF Moves
  <2>3. QED BY <1>5, <1>6, <1>9, <1>12, <2>1, <2>2, PushStands
<1>14. fault' \in Faults /\ (fault' = "none" => /\ fault = "none" /\ n.bad \in {"none", "short-circuit"}
                                                /\ ~IsMem(w, a) /\ Ready(w, a) /\ a # None)
  BY <1>1, <1>2, <1>5, TestedIs
<1>15. active' \in BOOLEAN /\ Structure'
  <2>1. active' \in BOOLEAN
    BY <1>4
  <2>2. QED BY <1>3, <1>4, <1>5, <1>9, <1>13, <1>14, <2>1 DEF Structure
<1>16. Ordered(st2, active')
  <2>1. PICK act2 : act2 = (active /\ ((val # 0) # (op = "or"))) /\ act2 = active'
    BY <1>4
  <2>2. Ordered(st2, act2)
    BY <1>3, <1>5, <1>6, <1>10, <1>12, <2>1, HalvedOrdered
  <2>3. QED BY <2>1, <2>2
<1>17. ASSUME fault' = "none"
       PROVE  Tidy(d, st2) /\ (~Stuck(st2, Final(start, d)) => Running(d, st2, text, active', Final(start, d)))
  <2>1. fault = "none" /\ n.bad \in {"none", "short-circuit"} /\ ~IsMem(w, a) /\ Tame(w, n) /\ Ready(w, a) /\ a # None
    BY <1>5, <1>14, <1>17
  <2>2. Tidy(w, stack) /\ (~Stuck(stack, Final(start, w)) => Running(w, stack, text, active, Final(start, w)))
    BY <1>2, <1>5, <2>1 DEF IInv, Going
  <2>3. Branches(w, n.addr, when, J, d)
    <3>1. \A k \in J : w.code[k].to = None
      BY <1>2, <2>1 DEF Tame, Lists
    <3>2. d = Labelled(Jumped(w, a, when), J)
      BY <1>3
    <3>3. Branches(w, a, when, J, d)
      BY <1>5, <1>6, <1>7, <2>1, <3>1, <3>2, JumpedLabelled
    <3>4. QED BY <1>2, <3>3
  <2>4. Tidy(d, st2)
    <3>1. /\ Good(w) /\ Standing(w, stack) /\ Tidy(w, stack) /\ stack # <<>> /\ n = Uppermost(stack) /\ n.mid = "none"
          /\ n.bad \in {"none", "short-circuit"} /\ op \in {"and", "or"} /\ when \in BOOLEAN /\ J = (IF when THEN n.false ELSE n.true)
          /\ Branches(w, n.addr, when, J, d) /\ g = Len(w.code) + 1 /\ Halved(n, op, when, val, g, n2)
          /\ p = Len(stack) - 1 /\ Pushed(stack, n2, st2, p)
      BY <1>2, <1>3, <1>5, <1>6, <1>10, <1>12, <2>1, <2>2, <2>3
    <3>2. QED BY <3>1, HalvedTidy
  <2>5. ASSUME ~Stuck(st2, Final(start, d)) PROVE Running(d, st2, text, active', Final(start, d))
    <3>1. ~Stuck(stack, Final(start, w))
      <4> SUFFICES ASSUME NEW k \in Places(stack), k < Len(stack), stack[k].mid = "none", stack[k].bad = "short-circuit",
                          Final(start, w).skip = Left, Final(start, w).from \in Lists(stack[k])
                   PROVE  FALSE
        BY DEF Stuck
      <4>1. k \in 1 .. p
        BY <1>3, <1>5 DEF Places
      <4>2. k \in Places(st2) /\ k < Len(st2) /\ st2[k] = stack[k]
        BY <1>12, <4>1 DEF Pushed
      <4>3. Lists(stack[k]) \cap Lists(n) = {}
        <5>1. Len(stack) \in Places(stack) \ {k} /\ n = stack[Len(stack)]
          BY <1>5, <1>6 DEF Uppermost
        <5>2. QED BY <2>2, <5>1 DEF Tidy
      <4>4. Final(start, w).from \notin J
        BY <1>2, <4>3 DEF Lists
      <4>5. Final(start, d).skip = Left /\ Final(start, d).from = Final(start, w).from
        BY <1>5, <2>3, <4>4 DEF Branches
      <4>6. QED BY <2>5, <4>2, <4>5 DEF Stuck
    <3>2. PICK m, e, act2 : m = Final(start, w) /\ e = Final(start, d) /\ act2 = active'
      OBVIOUS
    <3>3. Running(w, stack, text, active, m)
      BY <2>2, <3>1, <3>2
    <3>4. m.skip = None => (Denoted(w.heap, m, n.addr) # 0) = (val # 0)
      <4>1. Out.heap = heap
        BY DEF Out
      <4>2. QED BY <1>2, <1>5, <1>6, <1>7, <2>1, <3>3, <4>1, TestHolds
    <3>5. n.bad = "short-circuit" => val = n.val
      BY <1>2, <1>5, <2>1, LogicalValue
    <3>6. act2 = (active /\ ((val # 0) # when))
      BY <1>4, <3>2
    <3>7. Running(d, st2, text, act2, e)
      <4>1. PICK st, act, mem, s0, f : st = stack /\ act = active /\ mem = text /\ s0 = start /\ f = when
        OBVIOUS
      <4>2. /\ Good(w) /\ Standing(w, st) /\ Tidy(w, st) /\ Ordered(st, act) /\ Branches(w, a, f, J, d) /\ Halved(n, op, f, val, g, n2)
            /\ Pushed(st, n2, st2, p) /\ s0 \in Memories
        BY <1>2, <1>5, <1>6, <1>10, <1>12, <2>2, <2>3, <4>1
      <4>3. Halves(w, st, act, n, a, op, f, J, val, g, p, act2)
        BY <1>2, <1>3, <1>5, <1>6, <2>1, <3>6, <4>1 DEF Halves
      <4>4. m = Final(s0, w) /\ e = Final(s0, d) /\ Running(w, st, mem, act, m)
        BY <3>2, <3>3, <4>1
      <4>5. Tests(w, m, n, a, val)
        BY <1>2, <3>4, <3>5 DEF Tests
      <4>6. Running(d, st2, mem, act2, e)
        BY ONLY <4>2, <4>3, <4>4, <4>5, HalvedRuns
      <4>7. QED BY <4>1, <4>6
    <3>8. QED BY <3>2, <3>7
  <2>6. QED BY <2>4, <2>5
<1>18. Parsed' /\ Going' /\ Ended'
  <2>1. Final(start', Out') = Final(start, d)
    BY <1>4, <1>9
  <2>2. stack' = st2 /\ Out' = d /\ text' = text /\ phase' = "expression"
    BY <1>3, <1>4, <1>5, <1>9
  <2>3. Parsed'
    BY <1>16, <2>2 DEF Parsed
  <2>4. Going'
    BY <1>17, <2>1, <2>2 DEF Going
  <2>5. Ended'
    BY <2>2 DEF Ended
  <2>6. QED BY <2>3, <2>4, <2>5
<1>19. QED BY <1>15, <1>18 DEF IInv

(***************************************************************************)
(* The reduction of && and ||.                                             *)
(***************************************************************************)
\* What is evaluated is below what is evaluated.
LEMMA KnownDown ==
    ASSUME NEW st \in Seq(Nodes), NEW act, Ordered(st, act), NEW k \in Places(st), st[k].known
    PROVE  \A i \in 1 .. k - 1 : Goes(st[i])
<1>1. k \in Nat /\ k >= 1 /\ k - 1 \in Nat /\ k <= Len(st) /\ Len(st) \in Nat
  BY DEF Places
<1> DEFINE P == {j \in 0 .. k - 1 : st[j + 1].known => \A i \in 1 .. j : Goes(st[i])}
<1>2. 0 \in P
  BY <1>1
<1>3. ASSUME NEW j \in 1 .. k - 1, j - 1 \in P PROVE j \in P
  <2>1. j \in Places(st) /\ j + 1 \in Places(st) /\ (j + 1) - 1 = j /\ (j - 1) + 1 = j /\ j + 1 # 1
    BY <1>1 DEF Places
  <2>2. st[j + 1].known => Goes(st[j])
    BY <2>1 DEF Ordered
  <2>3. Goes(st[j]) => st[j].known
    BY DEF Goes
  <2>4. st[j].known => \A i \in 1 .. j - 1 : Goes(st[i])
    BY <1>3, <2>1
  <2>5. \A i \in 1 .. j : i = j \/ i \in 1 .. j - 1
    BY <1>1
  <2>6. st[j + 1].known => \A i \in 1 .. j : Goes(st[i])
    BY <2>2, <2>3, <2>4, <2>5
  <2>7. QED BY <1>1, <2>6
<1> HIDE DEF P
<1>4. 0 .. k - 1 \subseteq P
  BY <1>1, <1>2, <1>3, Upwards
<1>5. k - 1 \in P /\ (k - 1) + 1 = k
  BY <1>1, <1>4
<1>6. QED BY <1>5 DEF P

Takes(st, act, l, r, node, p) ==
    /\ st \in Seq(Nodes) /\ p = Len(st) - 2 /\ p \in Nat /\ st[p + 1] = l /\ st[p + 2] = r /\ l \in Nodes /\ r \in Nodes
    /\ Places(st) = (1 .. p) \cup {p + 1, p + 2} /\ Uppermost(st) = r /\ st # <<>> /\ act \in BOOLEAN
    /\ l.mid \in {"and", "or"} /\ r.mid = "none" /\ node \in Nodes /\ node.known = l.known /\ node.mid = "none"
Joins(st, act, l, r, val, node, p) ==
    /\ Takes(st, act, l, r, node, p) /\ r.addr # None /\ node.addr = r.addr /\ node.cell = None
    /\ node.bad = "short-circuit" /\ node.unread = r.unread
    /\ node.true = l.true \cup r.true /\ node.false = l.false \cup r.false
    /\ node.val = Truth(IF l.mid = "and" THEN l.val # 0 /\ val # 0 ELSE l.val # 0 \/ val # 0)
Fallen(r, val) == r.bad \in {"none", "short-circuit"} /\ (r.bad = "short-circuit" => val = r.val)

LEMMA JoinsOrdered ==
    ASSUME NEW st, NEW act, NEW l, NEW r, NEW node, NEW p, Takes(st, act, l, r, node, p), Ordered(st, act),
           NEW st2, Pushed(st, node, st2, p)
    PROVE  Ordered(st2, l.saved) /\ l.saved = l.known /\ r.known = act /\ (act <=> l.known /\ Passes(l))
<1>1. /\ st2 \in Seq(Nodes) /\ p \in Nat /\ Len(st2) = p + 1 /\ st2[p + 1] = node /\ Uppermost(st2) = node /\ st2 # <<>>
      /\ \A k \in 1 .. p : st2[k] = st[k] /\ k \in Places(st)
      /\ Places(st2) = (1 .. p) \cup {p + 1}
  BY DEF Pushed
<1>2. /\ st[p + 1] = l /\ st[p + 2] = r /\ l \in Nodes /\ r \in Nodes /\ Uppermost(st) = r /\ st # <<>> /\ act \in BOOLEAN
      /\ p + 1 \in Places(st) /\ p + 2 \in Places(st) /\ l.mid # "none" /\ r.mid = "none" /\ node.known = l.known /\ node.mid = "none"
  BY DEF Joins, Takes
<1>3. /\ \A k \in Places(st) : /\ st[k].known = (k = 1 \/ Goes(st[k - 1]))
                               /\ st[k].mid # "none" => st[k].saved = st[k].known /\ st[k].mid \in {"and", "or"}
      /\ act = (st = <<>> \/ Goes(Uppermost(st)))
  BY DEF Ordered
<1>4. l.saved = l.known /\ l.known \in BOOLEAN /\ r.known \in BOOLEAN
  BY <1>2, <1>3 DEF Nodes
<1>5. r.known = act /\ (r.known <=> Goes(l))
  <2>1. p + 2 # 1 /\ (p + 2) - 1 = p + 1
    BY <1>1
  <2>2. r.known <=> Goes(l)
    BY <1>2, <1>3, <2>1
  <2>3. QED BY <1>2, <1>3, <1>4, <2>2 DEF Goes
<1>6. node.known = (p + 1 = 1 \/ Goes(st2[p]))
  <2>1. l.known = (p + 1 = 1 \/ Goes(st[p]))
    <3>1. (p + 1) - 1 = p
      BY <1>1
    <3>2. QED BY <1>2, <1>3, <3>1
  <2>2. p = 0 \/ p \in 1 .. p
    BY <1>1
  <2>3. QED BY <1>1, <1>2, <2>1, <2>2
<1>7. ASSUME NEW k \in 1 .. p
      PROVE  /\ st2[k].known = (k = 1 \/ Goes(st2[k - 1]))
             /\ st2[k].mid # "none" => st2[k].saved = st2[k].known /\ st2[k].mid \in {"and", "or"}
  <2>1. k = 1 \/ k - 1 \in 1 .. p
    BY <1>1
  <2>2. QED BY <1>1, <1>3, <2>1
<1>8. ASSUME NEW k \in Places(st2)
      PROVE  /\ st2[k].known = (k = 1 \/ Goes(st2[k - 1]))
             /\ st2[k].mid # "none" => st2[k].saved = st2[k].known /\ st2[k].mid \in {"and", "or"}
  <2>1. CASE k \in 1 .. p
    BY <1>7, <2>1
  <2>2. CASE k = p + 1
    <3>1. k - 1 = p /\ st2[k] = node
      BY <1>1, <2>2
    <3>2. QED BY <1>2, <1>6, <2>2, <3>1
  <2>3. QED BY <1>1, <2>1, <2>2
<1>9. l.saved = Goes(node)
  BY <1>2, <1>4 DEF Goes
<1>10. act <=> l.known /\ Passes(l)
  BY <1>2, <1>5 DEF Goes
<1>11. Ordered(st2, l.saved)
  BY <1>1, <1>8, <1>9 DEF Ordered, Goes
<1>12. QED BY <1>4, <1>5, <1>10, <1>11

LEMMA JoinsTidy ==
    ASSUME NEW o, NEW st, NEW act, NEW l, NEW r, NEW val, NEW node, NEW p, Joins(st, act, l, r, val, node, p), Tidy(o, st),
           NEW st2, Pushed(st, node, st2, p)
    PROVE  Tidy(o, st2)
<1>1. /\ p \in Nat /\ st2[p + 1] = node
      /\ \A k \in 1 .. p : st2[k] = st[k] /\ k \in Places(st)
      /\ Places(st2) = (1 .. p) \cup {p + 1}
  BY DEF Pushed
<1>2. /\ st[p + 1] = l /\ st[p + 2] = r /\ Places(st) = (1 .. p) \cup {p + 1, p + 2} /\ l.mid # "none" /\ r.mid = "none" /\ r.addr # None
      /\ node.addr = r.addr /\ node.cell = None /\ node.mid = "none" /\ node.bad = "short-circuit" /\ node.unread = r.unread
      /\ node.true = l.true \cup r.true /\ node.false = l.false \cup r.false
  BY DEF Joins, Takes
<1>3. /\ \A k \in Places(st) : Tame(o, st[k]) /\ Neat(o, st[k])
      /\ \A k \in Places(st) : \A j \in Places(st) \ {k} : Lists(st[k]) \cap Lists(st[j]) = {}
      /\ \A a \in Lost(o) : \E k \in Places(st) : st[k].mid = "none" /\ st[k].unread /\ st[k].addr = a
  BY DEF Tidy
<1>4. p + 1 \in Places(st) /\ p + 2 \in Places(st) /\ p + 1 # p + 2 /\ \A k \in 1 .. p : k # p + 1 /\ k # p + 2
  BY <1>1, <1>2
<1>5. Lists(node) = Lists(l) \cup Lists(r) /\ Lists(l) \cap Lists(r) = {}
  <2>1. Lists(node) = Lists(l) \cup Lists(r)
    BY <1>2 DEF Lists
  <2>2. p + 2 \in Places(st) \ {p + 1}
    BY <1>4
  <2>3. QED BY <1>2, <1>3, <1>4, <2>1, <2>2
<1>6. Tame(o, node) /\ Neat(o, node)
  <2>1. Tame(o, l) /\ Tame(o, r)
    BY <1>2, <1>3, <1>4
  <2>2. node.true \cap node.false = {}
    BY <1>2, <1>5, <2>1 DEF Tame, Lists
  <2>3. \A g \in Lists(node) : o.code[g].to = None
    BY <1>5, <2>1 DEF Tame
  <2>4. QED BY <1>2, <2>2, <2>3 DEF Tame, Neat, Plain
<1>7. \A k \in Places(st2) : Tame(o, st2[k]) /\ Neat(o, st2[k])
  BY <1>1, <1>3, <1>6
<1>8. \A k \in Places(st2) : \A j \in Places(st2) \ {k} : Lists(st2[k]) \cap Lists(st2[j]) = {}
  <2>1. ASSUME NEW k \in 1 .. p, NEW j \in (1 .. p) \ {k} PROVE Lists(st2[k]) \cap Lists(st2[j]) = {}
    BY <1>1, <1>3
  <2>2. ASSUME NEW k \in 1 .. p PROVE Lists(st2[k]) \cap Lists(node) = {}
    <3>1. k \in Places(st) /\ p + 1 \in Places(st) \ {k} /\ p + 2 \in Places(st) \ {k}
      BY <1>1, <1>4
    <3>2. Lists(st[k]) \cap Lists(l) = {} /\ Lists(st[k]) \cap Lists(r) = {}
      BY <1>2, <1>3, <3>1
    <3>3. QED BY <1>1, <1>5, <3>2
  <2>3. QED BY <1>1, <2>1, <2>2
<1>9. ASSUME NEW a \in Lost(o) PROVE \E k \in Places(st2) : st2[k].mid = "none" /\ st2[k].unread /\ st2[k].addr = a
  <2>1. PICK k \in Places(st) : st[k].mid = "none" /\ st[k].unread /\ st[k].addr = a
    BY <1>3
  <2>2. CASE k \in 1 .. p
    BY <1>1, <2>1, <2>2
  <2>3. CASE k = p + 2
    BY <1>1, <1>2, <2>1, <2>3
  <2>4. QED BY <1>2, <2>1, <2>2, <2>3
<1>10. QED BY <1>7, <1>8, <1>9 DEF Tidy

LEMMA JoinsRuns ==
    ASSUME NEW o, NEW st, NEW act, NEW l, NEW r, NEW val, NEW node, NEW p, Joins(st, act, l, r, val, node, p), Ordered(st, act), Fallen(r, val),
           NEW st2, Pushed(st, node, st2, p), NEW mem, NEW m, Running(o, st, mem, act, m), m.skip \in {None, Left},
           ~IsMem(o, r.addr) /\ m.skip = None => (Denoted(o.heap, m, r.addr) # 0) = (val # 0)
    PROVE  Running(o, st2, mem, l.saved, m)
<1>1. /\ p \in Nat /\ st2[p + 1] = node /\ Uppermost(st2) = node /\ st2 # <<>>
      /\ \A k \in 1 .. p : st2[k] = st[k] /\ k \in Places(st)
      /\ Places(st2) = (1 .. p) \cup {p + 1}
  BY DEF Pushed
<1>2. /\ st[p + 1] = l /\ st[p + 2] = r /\ Places(st) = (1 .. p) \cup {p + 1, p + 2} /\ l.mid \in {"and", "or"} /\ r.mid = "none"
      /\ node.addr = r.addr /\ node.mid = "none" /\ node.bad = "short-circuit" /\ ~Plain(node) /\ Uppermost(st) = r
      /\ node.true = l.true \cup r.true /\ node.false = l.false \cup r.false /\ st \in Seq(Nodes)
      /\ node.val = Truth(IF l.mid = "and" THEN l.val # 0 /\ val # 0 ELSE l.val # 0 \/ val # 0)
  BY DEF Joins, Takes, Plain
<1>3. /\ m.mem = mem
      /\ \A k \in Places(st) : Plain(st[k]) /\ st[k].known => Holds(o, m, mem, st[k])
      /\ m.skip = None => act
      /\ m.skip = Left /\ act => Logical(st) /\ m.from \in (IF r.val # 0 THEN r.true ELSE r.false)
      /\ m.skip = Left /\ ~act => \E k \in Places(st) : Decides(st[k]) /\ m.from \in Exits(st[k])
  BY <1>2 DEF Running
<1>4. Logical(st2) /\ None # Left
  BY <1>1, <1>2 DEF Logical, None, Left
<1>5. l.saved = l.known /\ (act <=> l.known /\ Passes(l))
  BY JoinsOrdered DEF Joins
<1>6. node.val # 0 <=> IF l.mid = "and" THEN l.val # 0 /\ val # 0 ELSE l.val # 0 \/ val # 0
  BY <1>2 DEF Truth
<1>7. Passes(l) => (node.val # 0 <=> val # 0)
  BY <1>2, <1>6 DEF Passes
<1>8. \A k \in Places(st2) : Plain(st2[k]) /\ st2[k].known => Holds(o, m, mem, st2[k])
  BY <1>1, <1>2, <1>3
<1>9. CASE m.skip = None
  <2>1. act /\ l.known /\ Passes(l)
    BY <1>3, <1>5, <1>9
  <2>2. ~IsMem(o, node.addr) => (Denoted(o.heap, m, node.addr) # 0) = (node.val # 0)
    BY <1>2, <1>7, <1>9, <2>1
  <2>3. QED BY <1>1, <1>3, <1>4, <1>5, <1>8, <1>9, <2>1, <2>2 DEF Running
<1>10. CASE m.skip = Left /\ act
  <2>1. Logical(st) /\ m.from \in (IF r.val # 0 THEN r.true ELSE r.false) /\ val = r.val
    BY <1>2, <1>3, <1>10 DEF Fallen, Logical
  <2>2. m.from \in (IF node.val # 0 THEN node.true ELSE node.false)
    BY <1>2, <1>5, <1>7, <1>10, <2>1
  <2>3. QED BY <1>1, <1>3, <1>4, <1>5, <1>8, <1>10, <2>2 DEF Running
<1>11. CASE m.skip = Left /\ ~act
  <2>1. PICK k \in Places(st) : Decides(st[k]) /\ m.from \in Exits(st[k])
    BY <1>3, <1>11
  <2>2. k \in 1 .. p \/ k = p + 1
    BY <1>2, <2>1 DEF Decides
  <2>3. CASE l.known
    <3>1. k = p + 1
      <4> SUFFICES ASSUME k \in 1 .. p PROVE FALSE
        BY <2>2
      <4>1. p + 1 \in Places(st) /\ k \in 1 .. (p + 1) - 1
        BY <1>1, <1>2
      <4>2. \A i \in 1 .. (p + 1) - 1 : Goes(st[i])
        BY <1>2, <2>3, <4>1, KnownDown
      <4>3. Goes(st[k])
        BY <4>1, <4>2
      <4>4. QED BY <2>1, <4>3 DEF Goes, Decides
    <3>2. ~Passes(l) /\ m.from \in Exits(l)
      BY <1>2, <2>1, <3>1 DEF Decides
    <3>3. m.from \in (IF node.val # 0 THEN node.true ELSE node.false)
      BY <1>2, <1>6, <3>2 DEF Passes, Exits
    <3>4. QED BY <1>1, <1>3, <1>4, <1>5, <1>8, <1>11, <2>3, <3>3 DEF Running
  <2>4. CASE ~l.known
    <3>1. k \in 1 .. p
      BY <1>2, <2>1, <2>2, <2>4 DEF Decides
    <3>2. k \in Places(st2) /\ Decides(st2[k]) /\ m.from \in Exits(st2[k])
      BY <1>1, <2>1, <3>1
    <3>3. QED BY <1>1, <1>3, <1>4, <1>5, <1>8, <1>11, <2>4, <3>2 DEF Running
  <2>5. QED BY <2>3, <2>4
<1>12. QED BY <1>9, <1>10, <1>11

LEMMA ReduceLogicalKeeps == ASSUME IInv, Distinct(stack), ReduceLogical PROVE IInv'
<1>a. PICK w, p, st2, val, y, f, b, a :
         /\ w = Out /\ p = Len(stack) - 2 /\ st2 = stack' /\ val = Value(Top)
         /\ y = Joined(Second, Top).true /\ f = Joined(Second, Top).false /\ b = JoinedBad(Second, Top)
         /\ a = (IF Invalid(Second) THEN None ELSE Top.addr)
  OBVIOUS
<1>b. PICK v, node :
         /\ v = (IF Second.mid = "and" THEN Second.val # 0 /\ val # 0 ELSE Second.val # 0 \/ val # 0)
         /\ node = [Node(Int4, None, Truth(v), a) EXCEPT !.true = y, !.false = f, !.known = Second.known, !.unread = Top.unread, !.bad = b]
  OBVIOUS
<1>c. Reduced(2, w, node)
  BY <1>a, <1>b DEF ReduceLogical
<1>1. PICK l, r :
         /\ w = Out /\ l = Second /\ r = Top /\ val = Value(Top) /\ p = Len(stack) - 2 /\ st2 = stack'
         /\ v = (IF l.mid = "and" THEN l.val # 0 /\ val # 0 ELSE l.val # 0 \/ val # 0)
         /\ y = Joined(l, r).true /\ f = Joined(l, r).false /\ b = JoinedBad(l, r) /\ a = (IF Invalid(l) THEN None ELSE r.addr)
         /\ node = [Node(Int4, None, Truth(v), a) EXCEPT !.true = y, !.false = f, !.known = l.known, !.unread = r.unread, !.bad = b]
         /\ Reduced(2, w, node)
  BY <1>a, <1>b, <1>c
<1>2. /\ phase = "expression" /\ Len(stack) > 1 /\ Top.mid = "none" /\ Second.mid # "none"
      /\ active' = Second.saved /\ Blame({InCondition(Top)}) /\ text' = text
  <2>1. Waits(1) /\ Len(stack) > 1 /\ Second.mid # "none" /\ active' = Second.saved /\ Blame({InCondition(Top)}) /\ text' = text
    BY DEF ReduceLogical
  <2>2. QED BY <2>1, Waiting DEF Waits
<1>3. /\ Sound(w) /\ Good(w) /\ Standing(w, stack) /\ stack \in Seq(Nodes) /\ fault \in Faults /\ start \in Memories /\ text \in Memories
      /\ active \in BOOLEAN /\ Ordered(stack, active)
  BY <1>1, <1>2 DEF IInv, Structure, Sound, Standing, Parsed
<1>4. /\ p \in Nat /\ Len(stack) \in Nat /\ stack[p + 1] = l /\ stack[p + 2] = r /\ Places(stack) = (1 .. p) \cup {p + 1, p + 2}
      /\ l \in Nodes /\ r \in Nodes /\ Uppermost(stack) = r /\ stack # <<>> /\ p + 1 \in Places(stack) /\ p + 2 \in Places(stack)
  <2>1. p \in Nat /\ Len(stack) \in Nat /\ p + 2 = Len(stack) /\ p + 1 = Len(stack) - 1
    BY <1>1, <1>2, <1>3
  <2>2. Places(stack) = (1 .. p) \cup {p + 1, p + 2}
    BY <2>1 DEF Places
  <2>3. stack[p + 1] = l /\ stack[p + 2] = r /\ Uppermost(stack) = r
    BY <1>1, <2>1 DEF Top, Second, Uppermost
  <2>4. l \in Nodes /\ r \in Nodes
    BY <1>3, <2>1, <2>2, <2>3
  <2>5. stack # <<>>
    BY <1>2
  <2>6. QED BY <2>1, <2>2, <2>3, <2>4, <2>5
<1>5. Stands(w, l) /\ Stands(w, r)
  BY <1>3, <1>4 DEF Standing
<1>6. l.mid \in {"and", "or"} /\ r.mid = "none"
  BY <1>1, <1>2, <1>3, <1>4 DEF Ordered
<1>j. /\ a \in {None, r.addr} /\ (b # "comma" => a = r.addr) /\ b \in {"comma", "conditional", "short-circuit"}
      /\ (a = None => b # "short-circuit") /\ y \subseteq l.true \cup r.true /\ f \subseteq l.false \cup r.false
  BY <1>1 DEF JoinedBad, Joined, Invalid
<1>7. /\ node \in Nodes /\ node.addr = a /\ node.cell = None /\ node.known = l.known /\ node.mid = "none"
      /\ node.bad = b /\ node.unread = r.unread /\ node.true = y /\ node.false = f /\ node.val = Truth(v)
  <2>1. PICK x, t : t = Truth(v) /\ x = Node(Int4, None, t, a)
    OBVIOUS
  <2>2. t \in Int /\ a \in Nat /\ None \in Int /\ Int4 \in Types
    BY <1>4, <1>j, <2>1, Int4Is DEF Truth, Nodes, None
  <2>3. Forms(x, Int4, None, t, a, "none", FALSE)
    BY <1>3, <2>1, <2>2, NodeForms, Int4Is
  <2>4. x \in Nodes /\ x.addr = a /\ x.cell = None /\ x.val = t /\ x.mid = "none"
    BY <2>3 DEF Forms
  <2>6. y \in SUBSET Nat /\ f \in SUBSET Nat /\ l.known \in BOOLEAN /\ r.unread \in BOOLEAN /\ b \in Faults
    BY <1>4, <1>j DEF Nodes, Faults
  <2>7. node = [x EXCEPT !.true = y, !.false = f, !.known = l.known, !.unread = r.unread, !.bad = b]
    BY <1>1, <2>1
  <2>8. QED BY <2>1, <2>4, <2>6, <2>7 DEF Nodes
<1>t. Takes(stack, active, l, r, node, p)
  BY <1>1, <1>3, <1>4, <1>6, <1>7 DEF Takes
\* What the result is, when nothing went wrong.
<1>8. ASSUME l.bad \in {"none", "short-circuit"}, r.bad \in {"none", "short-circuit"} PROVE Joins(stack, active, l, r, val, node, p)
  <2>1. ~Invalid(l) /\ ~Invalid(r) /\ r.addr # None
    BY <1>5, <1>8 DEF Invalid, Stands
  <2>2. a = r.addr /\ b = "short-circuit" /\ y = l.true \cup r.true /\ f = l.false \cup r.false
    BY <1>1, <2>1 DEF Joined, JoinedBad
  <2>3. node.val = Truth(IF l.mid = "and" THEN l.val # 0 /\ val # 0 ELSE l.val # 0 \/ val # 0)
    BY <1>1, <1>7
  <2>4. QED BY <1>7, <1>t, <2>1, <2>2, <2>3 DEF Joins
<1>9. Pushed(stack, node, st2, p)
  <2>1. st2 = Append(SubSeq(stack, 1, Len(stack) - 2), node) /\ 2 \in 0 .. Len(stack)
    BY <1>1, <1>2, <1>4 DEF Reduced, Popped
  <2>2. QED BY <1>1, <1>3, <1>7, <2>1, PushIs
<1>10. Out' = w /\ start' = start /\ phase' = phase
  <2>1. w = [heap |-> heap, code |-> ta_code]
    BY <1>1 DEF Out
  <2>2. heap' = heap /\ ta_code' = ta_code /\ start' = start /\ phase' = phase
    BY <1>1, <2>1 DEF Reduced, given
  <2>3. QED BY <2>1, <2>2 DEF Out
<1>11. Standing(w, st2)
  <2>1. Stands(w, node)
    BY <1>5, <1>7, <1>j DEF Stands
  <2>2. Keeps(w, w) /\ Gotos(w.code) \subseteq Gotos(w.code)
    BY <1>3, AddsSelf DEF Adds
  <2>3. QED BY <1>3, <1>9, <2>1, <2>2, PushStands
<1>12. /\ Ordered(st2, l.saved) /\ l.saved = l.known /\ r.known = active /\ l.known \in BOOLEAN
  BY <1>3, <1>4, <1>t, <1>9, JoinsOrdered DEF Nodes
<1>13. fault' \in Faults /\ (fault' = "none" => fault = "none" /\ r.bad \in {"none", "short-circuit"})
  <2>1. {InCondition(Top)} \subseteq Faults
    BY <1>1, <1>4 DEF InCondition, Faults, Nodes
  <2>2. fault' \in Faults /\ (fault' = "none" => fault = "none" /\ \A k \in {InCondition(Top)} : k = "none")
    BY <1>2, <1>3, <2>1, BlameIs
  <2>3. InCondition(Top) = "none" => r.bad \in {"none", "short-circuit"}
    BY <1>1 DEF InCondition
  <2>4. QED BY <2>2, <2>3
<1>14. active' = l.saved /\ active' \in BOOLEAN
  BY <1>1, <1>2, <1>12
<1>15. Structure'
  <2>1. stack' = st2 /\ phase' = "expression"
    BY <1>1, <1>2, <1>10
  <2>2. QED BY <1>2, <1>3, <1>10, <1>11, <1>13, <1>14, <2>1 DEF Structure
<1>16. ASSUME fault' = "none"
       PROVE  Tidy(w, st2) /\ (~Stuck(st2, Final(start, w)) => Running(w, st2, text, l.saved, Final(start, w)))
  <2>1. fault = "none" /\ r.bad \in {"none", "short-circuit"}
    BY <1>13, <1>16
  <2>2. Tidy(w, stack) /\ (~Stuck(stack, Final(start, w)) => Running(w, stack, text, active, Final(start, w)))
    BY <1>1, <1>2, <2>1 DEF IInv, Going
  <2>j. Joins(stack, active, l, r, val, node, p)
    BY <1>4, <1>6, <1>8, <2>1, <2>2 DEF Tidy, Tame
  <2>3. Tidy(w, st2)
    BY <1>9, <2>2, <2>j, JoinsTidy
  <2>4. ASSUME ~Stuck(st2, Final(start, w)) PROVE Running(w, st2, text, l.saved, Final(start, w))
    <3>1. ~Stuck(stack, Final(start, w))
      <4> SUFFICES ASSUME NEW k \in Places(stack), k < Len(stack), stack[k].mid = "none", stack[k].bad = "short-circuit",
                          Final(start, w).skip = Left, Final(start, w).from \in Lists(stack[k])
                   PROVE  FALSE
        BY DEF Stuck
      <4>1. k \in 1 .. p
        <5>1. p + 2 = Len(stack)
          BY <1>1, <1>4
        <5>2. k # p + 2 /\ k # p + 1
          BY <1>4, <1>6, <5>1
        <5>3. QED BY <1>4, <5>2
      <4>2. k \in Places(st2) /\ k < Len(st2) /\ st2[k] = stack[k]
        BY <1>9, <4>1 DEF Pushed
      <4>3. QED BY <2>4, <4>2 DEF Stuck
    <3>2. PICK m : m = Final(start, w)
      OBVIOUS
    <3>3. Running(w, stack, text, active, m) /\ m.skip \in {None, Left}
      BY <1>3, <2>2, <3>1, <3>2, FinalIs
    <3>4. Tame(w, r)
      BY <1>4, <2>2 DEF Tidy
    <3>5. r.bad = "short-circuit" => val = r.val
      BY <1>1, <1>6, <3>4, LogicalValue
    <3>6. Fallen(r, val)
      BY <2>1, <3>5 DEF Fallen
    <3>7. ~IsMem(w, r.addr) /\ m.skip = None => (Denoted(w.heap, m, r.addr) # 0) = (val # 0)
      <4> SUFFICES ASSUME ~IsMem(w, r.addr), m.skip = None PROVE (Denoted(w.heap, m, r.addr) # 0) = (val # 0)
        OBVIOUS
      <4>1. Len(stack) \in Places(stack) /\ w.heap = heap
        BY <1>1, <1>4 DEF Out
      <4>2. QED BY <1>1, <1>4, <1>6, <1>12, <2>1, <3>3, <3>4, <4>1, TestHolds
    <3>8. Running(w, st2, text, l.saved, m)
      <4>1. PICK st, act, mem : st = stack /\ act = active /\ mem = text
        OBVIOUS
      <4>2. Joins(st, act, l, r, val, node, p) /\ Ordered(st, act) /\ Fallen(r, val) /\ Pushed(st, node, st2, p) /\ Running(w, st, mem, act, m)
            /\ m.skip \in {None, Left}
        BY <1>3, <1>9, <2>j, <3>3, <3>6, <4>1
      <4>3. Running(w, st2, mem, l.saved, m)
        BY ONLY <4>2, <3>7, JoinsRuns
      <4>4. QED BY <4>1, <4>3
    <3>9. QED BY <3>2, <3>8
  <2>5. QED BY <2>3, <2>4
<1>17. Parsed' /\ Going' /\ Ended'
  <2>1. stack' = st2 /\ Out' = w /\ text' = text /\ phase' = "expression" /\ active' = l.saved /\ start' = start
    BY <1>1, <1>2, <1>10, <1>14
  <2>2. Parsed'
    BY <1>12, <2>1 DEF Parsed
  <2>3. Going'
    BY <1>16, <2>1 DEF Going
  <2>4. Ended'
    BY <2>1 DEF Ended
  <2>5. QED BY <2>2, <2>3, <2>4
<1>18. QED BY <1>15, <1>17 DEF IInv

(***************************************************************************)
(* Addresses are made one by one: a new one is no operand's.               *)
(***************************************************************************)
Listed(h) == \E S : h \in Seq(S)
Wide(o, d) == /\ d = [heap |-> d.heap, code |-> d.code] /\ Listed(d.heap)
              /\ Len(o.heap) \in Nat /\ Len(d.heap) \in Nat /\ Len(d.heap) >= Len(o.heap)

LEMMA SeqWider == ASSUME NEW S, NEW h \in Seq(S), NEW T, S \subseteq T PROVE h \in Seq(T)
<1>1. Len(h) \in Nat /\ h = [k \in 1 .. Len(h) |-> h[k]] /\ \A k \in 1 .. Len(h) : h[k] \in T
  OBVIOUS
<1>2. PICK n \in Nat : n = Len(h)
  BY <1>1
<1>3. [k \in 1 .. n |-> h[k]] \in Seq(T)
  BY <1>1, <1>2
<1>4. QED BY <1>1, <1>2, <1>3

LEMMA AppendIs ==
    ASSUME NEW h, Listed(h), NEW x
    PROVE  Listed(Append(h, x)) /\ Len(Append(h, x)) = Len(h) + 1 /\ Len(h) \in Nat /\ Append(h, x)[Len(h) + 1] = x
           /\ \A k \in 1 .. Len(h) : Append(h, x)[k] = h[k]
<1>1. PICK S : h \in Seq(S)
  BY DEF Listed
<1>2. PICK T : T = S \cup {x}
  OBVIOUS
<1>3. h \in Seq(T) /\ x \in T
  BY <1>1, <1>2, SeqWider
<1>4. Append(h, x) \in Seq(T) /\ Len(Append(h, x)) = Len(h) + 1 /\ Len(h) \in Nat /\ Append(h, x)[Len(h) + 1] = x
      /\ \A k \in 1 .. Len(h) : Append(h, x)[k] = h[k]
  BY <1>3
<1>5. QED BY <1>4 DEF Listed

LEMMA ReplacedIs ==
    ASSUME NEW h, Listed(h), NEW r, NEW x
    PROVE  Listed([h EXCEPT ![r] = x]) /\ Len([h EXCEPT ![r] = x]) = Len(h)
<1>1. PICK S : h \in Seq(S)
  BY DEF Listed
<1>2. PICK T, n : T = S \cup {x} /\ n = Len(h)
  OBVIOUS
<1>n. n \in Nat
  BY <1>1, <1>2
<1>3. PICK g : g = [h EXCEPT ![r] = x]
  OBVIOUS
<1> DEFINE f(k) == IF k = r THEN x ELSE h[k]
<1>4. h = [k \in 1 .. n |-> h[k]] /\ \A k \in 1 .. n : f(k) \in T
  BY <1>1, <1>2, <1>n
<1>5. g = [k \in 1 .. n |-> f(k)]
  BY <1>3, <1>4
<1> HIDE DEF f
<1>6. g \in Seq(T) /\ Len(g) = n
  BY <1>2, <1>n, <1>4, <1>5
<1>7. QED BY <1>2, <1>3, <1>6 DEF Listed

LEMMA WideWith ==
    ASSUME NEW o, NEW d, Wide(o, d), NEW a, NEW w, w = With(d, a)
    PROVE  Wide(o, w) /\ Last(w) > Len(o.heap) /\ Last(w) = Last(d) + 1
<1>1. w = [heap |-> Append(d.heap, a), code |-> d.code]
  BY DEF With, Wide
<1>2. w.heap = Append(d.heap, a) /\ w = [heap |-> w.heap, code |-> w.code]
  BY <1>1
<1>3. Listed(w.heap) /\ Len(w.heap) = Len(d.heap) + 1
  BY <1>2, AppendIs DEF Wide
<1>4. QED BY <1>2, <1>3 DEF Wide, Last

LEMMA WideEmitted ==
    ASSUME NEW o, NEW d, Wide(o, d), NEW op, NEW r, NEW a1, NEW a2, NEW e, e = Emitted(d, op, r, a1, a2)
    PROVE  Wide(o, e) /\ Last(e) = Last(d)
<1>1. PICK c, x : /\ e = [heap |-> [d.heap EXCEPT ![r] = x], code |-> c]
  <2>1. \E n, c : e = [heap |-> [d.heap EXCEPT ![r].instr = n], code |-> c]
    BY DEF Emitted
  <2>2. PICK n, c : e = [heap |-> [d.heap EXCEPT ![r] = [d.heap[r] EXCEPT !.instr = n]], code |-> c]
    BY <2>1
  <2>3. QED BY <2>2
<1>2. e.heap = [d.heap EXCEPT ![r] = x] /\ e = [heap |-> e.heap, code |-> e.code]
  BY <1>1
<1>3. Listed(e.heap) /\ Len(e.heap) = Len(d.heap)
  <2>1. PICK h : h = d.heap
    OBVIOUS
  <2>2. Listed(h)
    BY <2>1 DEF Wide
  <2>3. Listed([h EXCEPT ![r] = x]) /\ Len([h EXCEPT ![r] = x]) = Len(h)
    BY ONLY <2>2, ReplacedIs
  <2>4. QED BY <1>2, <2>1, <2>3
<1>4. QED BY <1>2, <1>3 DEF Wide, Last

LEMMA WideComputed ==
    ASSUME NEW o, NEW d, Wide(o, d), NEW x, NEW op, NEW a1, NEW a2, NEW e, e = Computed(d, x, op, a1, a2)
    PROVE  Wide(o, e) /\ Last(e) > Len(o.heap)
<1>1. PICK w : w = With(d, x)
  OBVIOUS
<1>2. e = Emitted(w, op, Last(w), a1, a2)
  BY <1>1 DEF Computed
<1>3. Wide(o, w) /\ Last(w) > Len(o.heap)
  BY <1>1, WideWith
<1>4. Wide(o, e) /\ Last(e) = Last(w)
  BY <1>2, <1>3, WideEmitted
<1>5. QED BY <1>3, <1>4

LEMMA WideLoaded ==
    ASSUME NEW o, NEW d, Wide(o, d), NEW a, NEW l, l = Loaded(d, a)
    PROVE  Wide(o, l.o) /\ (l.at = a \/ l.at > Len(o.heap))
<1>1. CASE ~IsMem(d, a)
  BY <1>1 DEF Loaded
<1>2. CASE IsMem(d, a)
  <2>1. PICK t : t = With(d, NewTemp)
    OBVIOUS
  <2>2. l = [o |-> Emitted(t, "()", Last(t), a, None), at |-> Last(t)]
    BY <1>2, <2>1 DEF Loaded
  <2>3. Wide(o, t) /\ Last(t) > Len(o.heap)
    BY <2>1, WideWith
  <2>4. PICK e : e = Emitted(t, "()", Last(t), a, None)
    OBVIOUS
  <2>5. Wide(o, e)
    BY <2>3, <2>4, WideEmitted
  <2>6. QED BY <2>2, <2>3, <2>4, <2>5
<1>3. QED BY <1>1, <1>2

LEMMA WideLabelled == ASSUME NEW o, NEW d, Wide(o, d), NEW J, NEW e, e = Labelled(d, J) PROVE Wide(o, e)
<1>1. CASE J = {}
  BY <1>1 DEF Labelled
<1>2. CASE J # {}
  <2>1. \E c : e = [d EXCEPT !.code = c]
    BY <1>2 DEF Labelled
  <2>2. PICK c : e = [d EXCEPT !.code = c]
    BY <2>1
  <2>3. d = [heap |-> d.heap, code |-> d.code]
    BY DEF Wide
  <2>4. e = [heap |-> d.heap, code |-> c]
    BY <2>2, <2>3
  <2>5. e.heap = d.heap /\ e = [heap |-> e.heap, code |-> e.code]
    BY <2>4
  <2>6. QED BY <2>5 DEF Wide
<1>3. QED BY <1>1, <1>2

(***************************************************************************)
(* Distinct operands stay distinct.                                        *)
(***************************************************************************)
\* The address of a result is none, new, or that of an operand it replaces.
Fresh(n, node) == \/ node.addr = None
                  \/ node.addr > Len(heap)
                  \/ \E k \in Len(stack) - n + 1 .. Len(stack) : node.addr = stack[k].addr
Replaces(n, node) == n \in 0 .. 3 /\ Len(stack) >= n /\ stack' = Append(Popped(n), node) /\ Fresh(n, node)

LEMMA DistinctOn ==
    ASSUME IInv, Distinct(stack), NEW n, NEW node, Replaces(n, node)
    PROVE  Distinct(stack)'
<1>1. Good(Out) /\ Standing(Out, stack) /\ stack \in Seq(Nodes)
  BY DEF IInv, Structure, Sound, Standing
<1>2. PICK p, st, st2 : st = stack /\ st2 = stack' /\ p = Len(st) - n /\ p \in Nat /\ Len(st) \in Nat /\ n \in 0 .. 3
  BY <1>1 DEF Replaces
<1>3. SubSeq(st, 1, p) \in Seq(Nodes) /\ Len(SubSeq(st, 1, p)) = p /\ \A k \in 1 .. p : SubSeq(st, 1, p)[k] = st[k]
  BY <1>1, <1>2
<1>4. st2 = Append(SubSeq(st, 1, p), node) /\ Listed(SubSeq(st, 1, p))
  <2>1. stack' = Append(SubSeq(stack, 1, Len(stack) - n), node)
    BY DEF Replaces, Popped
  <2>2. QED BY <1>2, <1>3, <2>1 DEF Listed
<1>5. Len(st2) = p + 1 /\ st2[p + 1] = node /\ \A k \in 1 .. p : st2[k] = st[k]
  <2>1. PICK s : s = SubSeq(st, 1, p)
    OBVIOUS
  <2>2. Listed(s) /\ st2 = Append(s, node) /\ Len(s) = p /\ \A k \in 1 .. p : s[k] = st[k]
    BY <1>3, <1>4, <2>1
  <2>3. QED BY <2>2, AppendIs
<1>6. \A k \in 1 .. p : k \in Places(st) /\ (st[k].addr = None \/ st[k].addr \in Places(heap))
  <2>1. \A k \in 1 .. p : k \in Places(st)
    BY <1>2 DEF Places
  <2>2. Out.heap = heap
    BY DEF Out
  <2>3. QED BY <1>1, <1>2, <2>1, <2>2 DEF Standing, Stands, Ready
<1>7. ASSUME NEW k \in 1 .. p, node.addr # None PROVE st[k].addr # node.addr
  <2>1. CASE node.addr > Len(heap)
    <3>1. Len(heap) \in Nat
      BY <1>1 DEF Good, Outs, Out
    <3>2. node.addr \notin Places(heap)
      BY <2>1, <3>1 DEF Places
    <3>3. QED BY <1>6, <1>7, <3>2
  <2>2. CASE \E j \in Len(st) - n + 1 .. Len(st) : node.addr = st[j].addr
    <3>1. PICK j \in p + 1 .. Len(st) : node.addr = st[j].addr
      BY <1>2, <2>2
    <3>2. j \in Places(st) /\ j # k /\ k \in Places(st)
      BY <1>2, <1>6, <3>1 DEF Places
    <3>d. Distinct(st)
      BY <1>2
    <3>3. QED BY <1>7, <3>1, <3>2, <3>d DEF Distinct
  <2>3. QED BY <1>2, <1>7, <2>1, <2>2 DEF Replaces, Fresh
<1>8. \A j \in Places(st2) : \A k \in Places(st2) : j # k /\ st2[j].addr # None => st2[j].addr # st2[k].addr
  <2>1. Places(st2) = (1 .. p) \cup {p + 1}
    BY <1>2, <1>5 DEF Places
  <2>2. \A j \in 1 .. p : \A k \in 1 .. p : j # k /\ st2[j].addr # None => st2[j].addr # st2[k].addr
    <3>1. Distinct(st)
      BY <1>2
    <3>2. QED BY <1>5, <1>6, <3>1 DEF Distinct
  <2>3. QED BY <1>5, <1>7, <2>1, <2>2
<1>9. QED BY <1>2, <1>8 DEF Distinct

LEMMA NodeAddr ==
    ASSUME NEW t, NEW c, NEW v, NEW a
    PROVE  /\ Node(t, c, v, a).addr = a /\ Lvalue(t, c, a).addr = a
           /\ \A b : [Node(t, c, v, a) EXCEPT !.bad = b].addr = a
           /\ \A u : [Node(t, c, v, a) EXCEPT !.unread = u].addr = a
BY DEF Node, Lvalue

LEMMA WideOut == ASSUME IInv PROVE Wide(Out, Out) /\ Out.heap = heap
<1>1. Good(Out) /\ Out = [heap |-> heap, code |-> ta_code]
  BY DEF IInv, Structure, Sound, Out
<1>2. heap \in Seq(Addresses)
  BY <1>1 DEF Good, Outs
<1>3. Listed(heap) /\ Len(heap) \in Nat
  BY <1>2 DEF Listed
<1>4. Out.heap = heap /\ Out.code = ta_code
  BY <1>1
<1>5. QED BY <1>1, <1>3, <1>4 DEF Wide

\* A reduction whose result has a new address, or one of the operands'.
LEMMA ReducedDistinct ==
    ASSUME IInv, Distinct(stack), NEW n \in 0 .. 3, Len(stack) >= n, NEW o, NEW node, Reduced(n, o, node),
           node.addr = None \/ node.addr > Len(heap) \/ \E k \in Len(stack) - n + 1 .. Len(stack) : node.addr = stack[k].addr
    PROVE  Distinct(stack)'
<1>1. Replaces(n, node)
  BY DEF Replaces, Fresh, Reduced
<1>2. QED BY <1>1, DistinctOn

LEMMA Tops ==
    ASSUME IInv
    PROVE  /\ Len(stack) >= 1 => Len(stack) \in Len(stack) - 1 + 1 .. Len(stack) /\ Len(stack) \in Len(stack) - 2 + 1 .. Len(stack)
           /\ Len(stack) >= 2 => Len(stack) - 1 \in Len(stack) - 2 + 1 .. Len(stack)
<1>1. stack \in Seq(Nodes)
  BY DEF IInv, Structure, Standing
<1>2. QED BY <1>1

LEMMA NewDistinct ==
    ASSUME IInv, Distinct(stack), NEW n \in 0 .. 3, Len(stack) >= n, NEW o, NEW node, Reduced(n, o, node),
           NEW d, Wide(Out, d), Last(d) > Len(Out.heap), node.addr = Last(d)
    PROVE  Distinct(stack)'
BY WideOut, ReducedDistinct

LEMMA IdentifierDistinct == ASSUME IInv, Distinct(stack), Identifier PROVE Distinct(stack)'
<1>1. PICK v, o : o = With(Out, New3Id(Declared[v])) /\ Reduced(0, o, Lvalue(Declared[v].type, Declared[v].cell, Last(o)))
  BY DEF Identifier
<1>2. PICK a, node : a = New3Id(Declared[v]) /\ node = Lvalue(Declared[v].type, Declared[v].cell, Last(o))
  OBVIOUS
<1>3. Wide(Out, o) /\ Last(o) > Len(Out.heap)
  BY <1>1, <1>2, WideOut, WideWith
<1>4. node.addr = Last(o) /\ Reduced(0, o, node) /\ Len(stack) >= 0
  BY <1>1, <1>2, NodeAddr DEF Identifier, Reduces, Waits
<1>5. QED BY <1>3, <1>4, NewDistinct

LEMMA LiteralDistinct == ASSUME IInv, Distinct(stack), Literal PROVE Distinct(stack)'
<1>1. PICK c, o : o = With(Out, New3Const(c)) /\ Reduced(0, o, Node(Int4, None, c, Last(o)))
  BY DEF Literal
<1>2. PICK a, node : a = New3Const(c) /\ node = Node(Int4, None, c, Last(o))
  OBVIOUS
<1>3. Wide(Out, o) /\ Last(o) > Len(Out.heap)
  BY <1>1, <1>2, WideOut, WideWith
<1>4. node.addr = Last(o) /\ Reduced(0, o, node) /\ Len(stack) >= 0
  BY <1>1, <1>2, NodeAddr DEF Literal, Reduces, Waits
<1>5. QED BY <1>3, <1>4, NewDistinct

LEMMA SignDistinct == ASSUME IInv, Distinct(stack), Sign PROVE Distinct(stack)'
<1>1. PICK l, z, o, x : /\ l = Loaded(Out, Top.addr) /\ x = New3Const(0) /\ z = With(l.o, x)
                        /\ o = Computed(z, NewTemp, "-", Last(z), l.at) /\ Reduced(1, o, Node(Int4, None, -Value(Top), Last(o)))
                        /\ Len(stack) >= 1
  BY DEF Sign, Reduces, Waits
<1>2. PICK d, node : d = l.o /\ node = Node(Int4, None, -Value(Top), Last(o))
  OBVIOUS
<1>3. Wide(Out, d)
  BY <1>1, <1>2, WideOut, WideLoaded
<1>4. Wide(Out, z)
  BY <1>1, <1>2, <1>3, WideWith
<1>5. Wide(Out, o) /\ Last(o) > Len(Out.heap)
  BY <1>1, <1>4, WideComputed
<1>6. node.addr = Last(o) /\ Reduced(1, o, node)
  BY <1>1, <1>2, NodeAddr
<1>7. QED BY <1>1, <1>5, <1>6, NewDistinct

LEMMA AddressOfDistinct == ASSUME IInv, Distinct(stack), AddressOf PROVE Distinct(stack)'
<1>1. PICK o, op, a : /\ o = Computed(Out, NewTemp, op, a, None) /\ Reduced(1, o, Node(PointerTo(Top.type), None, Top.cell, Last(o)))
                      /\ Len(stack) >= 1
  BY DEF AddressOf, Reduces, Waits
<1>2. Wide(Out, o) /\ Last(o) > Len(Out.heap)
  BY <1>1, WideOut, WideComputed
<1>3. QED BY <1>1, <1>2, NewDistinct, NodeAddr

LEMMA DereferenceDistinct == ASSUME IInv, Distinct(stack), Dereference PROVE Distinct(stack)'
<1>1. PICK o, op, a : /\ o = Computed(Out, NewMem, op, a, None) /\ Reduced(1, o, Lvalue(Pointed(Top.type), Value(Top), Last(o)))
                      /\ Len(stack) >= 1
  BY DEF Dereference, Reduces, Waits
<1>2. Wide(Out, o) /\ Last(o) > Len(Out.heap)
  BY <1>1, WideOut, WideComputed
<1>3. QED BY <1>1, <1>2, NewDistinct, NodeAddr

LEMMA WideOffset ==
    ASSUME NEW o, NEW d, Wide(o, d), NEW base, NEW offset, NEW copy, NEW e, e = Offset(d, base, offset, copy)
    PROVE  Wide(o, e) /\ Last(e) > Len(o.heap)
<1>1. CASE offset = 0
  BY <1>1, WideComputed DEF Offset
<1>2. CASE offset # 0
  <2>1. PICK x, c : x = New3Const(offset) /\ c = With(d, x)
    OBVIOUS
  <2>2. Wide(o, c)
    BY <2>1, WideWith
  <2>3. e = Computed(c, NewMem, "+", base, Last(c))
    BY <1>2, <2>1 DEF Offset
  <2>4. QED BY <2>2, <2>3, WideComputed
<1>3. QED BY <1>1, <1>2

LEMMA MemberDistinct == ASSUME IInv, Distinct(stack), Member PROVE Distinct(stack)'
<1>1. PICK o, offset, a : /\ o = Offset(Out, a, offset, "=") /\ Reduced(1, o, Lvalue(Int4, Top.cell + offset, Last(o)))
                          /\ Len(stack) >= 1
  BY DEF Member, Reduces, Waits
<1>2. Wide(Out, o) /\ Last(o) > Len(Out.heap)
  BY <1>1, WideOut, WideOffset
<1>3. QED BY <1>1, <1>2, NewDistinct, NodeAddr

LEMMA ArrowDistinct == ASSUME IInv, Distinct(stack), Arrow PROVE Distinct(stack)'
<1>1. PICK o, offset, op, l : /\ l = Loaded(Out, Top.addr)
                              /\ o = (IF offset = 0 THEN Computed(Out, NewMem, op, Top.addr, None) ELSE Offset(l.o, l.at, offset, "="))
                              /\ Reduced(1, o, Lvalue(Int4, Value(Top) + offset, Last(o))) /\ Len(stack) >= 1
  BY DEF Arrow, Reduces, Waits
<1>2. Wide(Out, l.o)
  BY <1>1, WideOut, WideLoaded
<1>3. Wide(Out, o) /\ Last(o) > Len(Out.heap)
  <2>1. CASE offset = 0
    BY <1>1, <2>1, WideOut, WideComputed
  <2>2. CASE offset # 0
    BY <1>1, <1>2, <2>2, WideOffset
  <2>3. QED BY <2>1, <2>2
<1>4. QED BY <1>1, <1>3, NewDistinct, NodeAddr

LEMMA CastDistinct == ASSUME IInv, Distinct(stack), Cast PROVE Distinct(stack)'
<1>1. PICK l, node : /\ l = Loaded(Out, Top.addr) /\ Reduced(1, l.o, node) /\ Len(stack) >= 1
                     /\ node = (IF IsMem(Out, Top.addr) THEN Node(Int4, None, Value(Top), l.at)
                                ELSE [Node(Int4, Top.cell, Top.val, l.at) EXCEPT !.unread = Top.unread])
  BY DEF Cast, Reduces, Waits
<1>2. node.addr = l.at
  <2>1. CASE IsMem(Out, Top.addr)
    BY <1>1, <2>1, NodeAddr
  <2>2. CASE ~IsMem(Out, Top.addr)
    BY <1>1, <2>2, NodeAddr
  <2>3. QED BY <2>1, <2>2
<1>3. l.at = Top.addr \/ l.at > Len(heap)
  BY <1>1, WideOut, WideLoaded
<1>4. Top = stack[Len(stack)] /\ Len(stack) \in Len(stack) - 1 + 1 .. Len(stack)
  BY <1>1, Tops DEF Top
<1>5. PICK d : d = l.o
  OBVIOUS
<1>6. node.addr = None \/ node.addr > Len(heap) \/ \E k \in Len(stack) - 1 + 1 .. Len(stack) : node.addr = stack[k].addr
  BY <1>2, <1>3, <1>4
<1>7. Reduced(1, d, node) /\ Len(stack) >= 1 /\ 1 \in 0 .. 3
  BY <1>1, <1>5
<1>8. QED BY <1>6, <1>7, ReducedDistinct

LEMMA LogicalNotDistinct == ASSUME IInv, Distinct(stack), LogicalNot PROVE Distinct(stack)'
<1>1. PICK l, b, J, o, node : /\ l = Loaded(Out, Top.addr) /\ b = Labelled(l.o, J) /\ o = Computed(b, NewTemp, "!", l.at, None)
                              /\ node = [Node(Int4, None, Truth(Value(Top) = 0), Last(o)) EXCEPT !.true = Top.false, !.false = Top.true]
                              /\ Reduced(1, o, node) /\ Len(stack) >= 1
  BY DEF LogicalNot, Reduces, Waits
<1>2. Wide(Out, l.o)
  BY <1>1, WideOut, WideLoaded
<1>3. Wide(Out, b)
  BY <1>1, <1>2, WideLabelled
<1>4. Wide(Out, o) /\ Last(o) > Len(Out.heap)
  BY <1>1, <1>3, WideComputed
<1>5. PICK x : x = Node(Int4, None, Truth(Value(Top) = 0), Last(o))
  OBVIOUS
<1>6. node.addr = x.addr /\ x.addr = Last(o)
  BY <1>1, <1>5, NodeAddr DEF Node
<1>7. node.addr = Last(o) /\ Reduced(1, o, node) /\ Len(stack) >= 1
  BY <1>1, <1>6
<1>8. QED BY <1>4, <1>7, NewDistinct

LEMMA OperatorDistinct ==
    ASSUME IInv, Distinct(stack), NEW op, NEW leftFirst \in BOOLEAN, Operator(op, leftFirst) PROVE Distinct(stack)'
<1>1. PICK l, o, a, b, v : /\ l = (IF leftFirst THEN BothLoaded(Second.addr, Top.addr) ELSE BothLoaded(Top.addr, Second.addr))
                           /\ o = Computed(l.o, NewTemp, op, a, b) /\ Reduced(2, o, Node(Int4, None, v, Last(o))) /\ Len(stack) >= 2
  BY DEF Operator, Reduces, Waits
<1>2. PICK x, y : l = BothLoaded(x, y)
  BY <1>1
<1>3. PICK f, s, fo, d : f = Loaded(Out, x) /\ fo = f.o /\ s = Loaded(fo, y) /\ d = s.o /\ d = l.o
  BY <1>2 DEF BothLoaded
<1>4. Wide(Out, fo)
  BY <1>3, WideOut, WideLoaded
<1>5. Wide(Out, d)
  BY <1>3, <1>4, WideLoaded
<1>6. o = Computed(d, NewTemp, op, a, b)
  BY <1>1, <1>3
<1>7. Wide(Out, o) /\ Last(o) > Len(Out.heap)
  BY <1>5, <1>6, WideComputed
<1>8. QED BY <1>1, <1>7, NewDistinct, NodeAddr

LEMMA WideScaled == ASSUME NEW o, NEW d, Wide(o, d), NEW a, NEW e, e = Scaled(d, a) PROVE Wide(o, e)
<1>1. CASE d.heap[a].kind = "CON"
  <2>1. PICK x : x = New3Const(Word * d.heap[a].val)
    OBVIOUS
  <2>2. e = With(d, x)
    BY <1>1, <2>1 DEF Scaled
  <2>3. QED BY <2>2, WideWith
<1>2. CASE d.heap[a].kind # "CON"
  <2>1. PICK x, c : x = New3Const(Word) /\ c = With(d, x)
    OBVIOUS
  <2>2. Wide(o, c)
    BY <2>1, WideWith
  <2>3. e = Computed(c, NewTemp, "*", a, Last(c))
    BY <1>2, <2>1 DEF Scaled
  <2>4. QED BY <2>2, <2>3, WideComputed
<1>3. QED BY <1>1, <1>2

LEMMA IndexDistinct == ASSUME IInv, Distinct(stack), Index PROVE Distinct(stack)'
<1>1. PICK t1, base, o, node : 
        /\ t1 = Scaled(Out, Top.addr)
        /\ base = (IF IsArray(Second.type) \/ ~IsMem(Out, Second.addr) THEN [o |-> t1, at |-> Second.addr]
                   ELSE LET t2 == Computed(t1, NewMem, "()", Second.addr, None) IN [o |-> t2, at |-> Last(t2)])
        /\ o = Computed(base.o, NewMem, "+", base.at, Last(t1)) /\ Reduced(2, o, node) /\ Len(stack) >= 2
        /\ node = Lvalue(Pointed(Second.type), Value(Second) + Word * Value(Top), Last(o))
  BY DEF Index, Reduces, Waits
<1>2. Wide(Out, t1)
  BY <1>1, WideOut, WideScaled
<1>3. PICK t2, d : t2 = Computed(t1, NewMem, "()", Second.addr, None) /\ d = base.o
  OBVIOUS
<1>4. Wide(Out, t2)
  BY <1>2, <1>3, WideComputed
<1>5. d = t1 \/ d = t2
  BY <1>1, <1>3
<1>6. Wide(Out, d) /\ o = Computed(d, NewMem, "+", base.at, Last(t1))
  BY <1>1, <1>2, <1>3, <1>4, <1>5
<1>7. Wide(Out, o) /\ Last(o) > Len(Out.heap)
  BY <1>6, WideComputed
<1>8. node.addr = Last(o)
  BY <1>1, NodeAddr
<1>9. QED BY <1>1, <1>7, <1>8, NewDistinct

LEMMA PointerPlusDistinct == ASSUME IInv, Distinct(stack), PointerPlus PROVE Distinct(stack)'
<1>1. PICK l, x, w, t2, o, a, b, c, t, v, node :
        /\ l = Loaded(Out, a) /\ x = New3Const(Word) /\ w = With(l.o, x) /\ t2 = Computed(w, NewTemp, "*", l.at, Last(w))
        /\ o = Computed(t2, NewMem, "+", b, c) /\ Reduced(2, o, node) /\ Len(stack) >= 2
        /\ node = [Node(t, None, v, Last(o)) EXCEPT !.bad = "pointer"]
  BY DEF PointerPlus, Reduces, Waits
<1>2. PICK d : d = l.o
  OBVIOUS
<1>3. Wide(Out, d)
  BY <1>1, <1>2, WideOut, WideLoaded
<1>4. Wide(Out, w)
  BY <1>1, <1>2, <1>3, WideWith
<1>5. Wide(Out, t2)
  BY <1>1, <1>4, WideComputed
<1>6. Wide(Out, o) /\ Last(o) > Len(Out.heap)
  BY <1>1, <1>5, WideComputed
<1>7. node.addr = Last(o)
  BY <1>1, NodeAddr
<1>8. Reduced(2, o, node) /\ Len(stack) >= 2
  BY <1>1
<1>9. QED BY <1>6, <1>7, <1>8, NewDistinct

LEMMA TopDistinct ==
    ASSUME IInv, Distinct(stack), NEW n \in 1 .. 3, Len(stack) >= n, NEW o, NEW node, Reduced(n, o, node),
           node.addr = Top.addr \/ (n >= 2 /\ node.addr = Second.addr) \/ node.addr = None
    PROVE  Distinct(stack)'
<1>1. stack \in Seq(Nodes)
  BY DEF IInv, Structure, Standing
<1>2. PICK s : s = Len(stack)
  OBVIOUS
<1>3. s \in Nat /\ s >= n /\ s \in s - n + 1 .. s /\ (n >= 2 => s - 1 \in s - n + 1 .. s)
  BY <1>1, <1>2
<1>4. Top = stack[s] /\ Second = stack[s - 1]
  BY <1>2 DEF Top, Second
<1>5. node.addr = None \/ \E k \in s - n + 1 .. s : node.addr = stack[k].addr
  BY <1>3, <1>4
<1>6. node.addr = None \/ node.addr > Len(heap) \/ \E k \in Len(stack) - n + 1 .. Len(stack) : node.addr = stack[k].addr
  BY <1>2, <1>5
<1>7. n \in 0 .. 3
  OBVIOUS
<1>8. QED BY <1>6, <1>7, ReducedDistinct

LEMMA PostIncrementDistinct == ASSUME IInv, Distinct(stack), PostIncrement PROVE Distinct(stack)'
<1>1. PICK i, inc, x, res, o, node :
        /\ i = New3Const(Increment(Top)) /\ inc = With(Out, i) /\ x = (IF IsPointer(Top.type) THEN NewMem ELSE NewTemp)
        /\ res = With(inc, x) /\ Reduced(1, o, node) /\ Len(stack) >= 1
        /\ node = [Node(Top.type, None, Value(Top), Last(res)) EXCEPT !.bad = PointerBad(Top.type)]
  BY DEF PostIncrement, Reduces, Waits
<1>2. Wide(Out, inc) /\ Last(inc) > Len(Out.heap)
  BY <1>1, WideOut, WideWith
<1>3. Wide(Out, res) /\ Last(res) > Len(Out.heap)
  BY <1>1, <1>2, WideWith
<1>4. node.addr = Last(res)
  BY <1>1, NodeAddr
<1>5. Reduced(1, o, node) /\ Len(stack) >= 1
  BY <1>1
<1>6. QED BY <1>3, <1>4, <1>5, NewDistinct

LEMMA PreIncrementDistinct == ASSUME IInv, Distinct(stack), PreIncrement PROVE Distinct(stack)'
<1>1. PICK i, inc, x, res :
        /\ i = New3Const(Increment(Top)) /\ inc = With(Out, i) /\ x = (IF IsPointer(Top.type) THEN NewMem ELSE NewTemp)
        /\ res = With(inc, x) /\ Len(stack) >= 1
        /\ IF IsMem(Out, Top.addr)
           THEN \E o : Reduced(1, o, [Node(Top.type, None, Value(Top) + Increment(Top), Last(res)) EXCEPT !.bad = PointerBad(Top.type)])
           ELSE \E o : Reduced(1, o, [Node(Top.type, Top.cell, 0, Top.addr) EXCEPT !.unread = TRUE])
  BY DEF PreIncrement, Reduces, Waits
<1>2. Wide(Out, inc) /\ Last(inc) > Len(Out.heap)
  BY <1>1, WideOut, WideWith
<1>3. Wide(Out, res) /\ Last(res) > Len(Out.heap)
  BY <1>1, <1>2, WideWith
<1>4. CASE IsMem(Out, Top.addr)
  <2>1. PICK o, node : Reduced(1, o, node) /\ node = [Node(Top.type, None, Value(Top) + Increment(Top), Last(res)) EXCEPT !.bad = PointerBad(Top.type)]
    BY <1>1, <1>4
  <2>2. node.addr = Last(res)
    BY <2>1, NodeAddr
<2>3. Reduced(1, o, node) /\ Len(stack) >= 1
    BY <1>1, <2>1
  <2>4. QED BY <1>3, <2>2, <2>3, NewDistinct
<1>5. CASE ~IsMem(Out, Top.addr)
  <2>1. PICK o, node : Reduced(1, o, node) /\ node = [Node(Top.type, Top.cell, 0, Top.addr) EXCEPT !.unread = TRUE]
    BY <1>1, <1>5
  <2>2. node.addr = Top.addr
    BY <2>1, NodeAddr
<2>3. Reduced(1, o, node) /\ Len(stack) >= 1
    BY <1>1, <2>1
  <2>4. QED BY <2>2, <2>3, TopDistinct
<1>6. QED BY <1>4, <1>5

LEMMA AssignDistinct == ASSUME IInv, Distinct(stack), Assign PROVE Distinct(stack)'
<1>1. PICK o, b, node : Reduced(2, o, node) /\ node = [Node(Second.type, Second.cell, 0, Second.addr) EXCEPT !.bad = b] /\ Len(stack) >= 2
  BY DEF Assign, Reduces, Waits
<1>2. node.addr = Second.addr
  BY <1>1, NodeAddr
<1>3. Reduced(2, o, node) /\ Len(stack) >= 2
  BY <1>1
<1>4. QED BY <1>2, <1>3, TopDistinct

LEMMA CompoundDistinct == ASSUME IInv, Distinct(stack), NEW production, NEW op, CompoundAssign(production, op) PROVE Distinct(stack)'
<1>1. PICK v : /\ Len(stack) >= 2
               /\ IF IsMem(Out, Second.addr)
                  THEN \E o : Reduced(2, o, Node(Second.type, None, v, Last(Computed(Out, NewTemp, "()", Second.addr, None))))
                  ELSE \E o : Reduced(2, o, Node(Second.type, Second.cell, 0, Second.addr))
  BY DEF CompoundAssign, Reduces, Waits
<1>2. CASE IsMem(Out, Second.addr)
  <2>1. PICK o, t, node : /\ t = Computed(Out, NewTemp, "()", Second.addr, None) /\ Reduced(2, o, node)
                          /\ node = Node(Second.type, None, v, Last(t))
    BY <1>1, <1>2
  <2>2. Wide(Out, t) /\ Last(t) > Len(Out.heap) /\ node.addr = Last(t)
    BY <2>1, WideOut, WideComputed, NodeAddr
  <2>3. QED BY <1>1, <2>1, <2>2, NewDistinct
<1>3. CASE ~IsMem(Out, Second.addr)
  <2>1. PICK o, node : Reduced(2, o, node) /\ node = Node(Second.type, Second.cell, 0, Second.addr)
    BY <1>1, <1>3
  <2>2. QED BY <1>1, <2>1, TopDistinct, NodeAddr
<1>4. QED BY <1>2, <1>3

LEMMA AssignModDistinct == ASSUME IInv, Distinct(stack), AssignMod PROVE Distinct(stack)'
<1>1. PICK o, node : Reduced(2, o, node) /\ node = Node(Int4, Second.cell, 0, Second.addr) /\ Len(stack) >= 2
  BY DEF AssignMod, Reduces, Waits
<1>2. QED BY <1>1, TopDistinct, NodeAddr

\* A result without an address.
LEMMA NothingDistinct ==
    ASSUME IInv, Distinct(stack), NEW n \in 1 .. 3, Waits(n), NEW o, NEW node, Reduced(n, o, node), node.addr = None
    PROVE  Distinct(stack)'
<1>1. Len(stack) >= n
  BY DEF Waits
<1>2. QED BY <1>1, TopDistinct

LEMMA CommaDistinct == ASSUME IInv, Distinct(stack), Comma PROVE Distinct(stack)'
<1>1. PICK v, node : Waits(2) /\ Reduced(2, Out, node) /\ node = [NoValue EXCEPT !.val = v]
  BY DEF Comma
<1>2. node.addr = None
  <2>1. NoValue.addr = None /\ node.addr = NoValue.addr
    BY <1>1 DEF NoValue, Node
  <2>2. QED BY <2>1
<1>3. PICK n \in 1 .. 3 : n = 2
  OBVIOUS
<1>4. Waits(n) /\ Reduced(n, Out, node)
  BY <1>1, <1>3
<1>5. QED BY <1>2, <1>4, NothingDistinct

LEMMA ConditionalDistinct == ASSUME IInv, Distinct(stack), Conditional PROVE Distinct(stack)'
<1>1. PICK node : Waits(3) /\ Reduced(3, Out, node) /\ (node = NoValue \/ node = [Node(Top.type, None, 0, None) EXCEPT !.bad = "conditional"])
  BY DEF Conditional
<1>2. node.addr = None
  <2>1. CASE node = NoValue
    BY <2>1 DEF NoValue, Node
  <2>2. CASE node = [Node(Top.type, None, 0, None) EXCEPT !.bad = "conditional"]
    BY <2>2 DEF Node
  <2>3. QED BY <1>1, <2>1, <2>2
<1>3. QED BY <1>1, <1>2, NothingDistinct

LEMMA InvalidOperandDistinct == ASSUME IInv, Distinct(stack), InvalidOperand PROVE Distinct(stack)'
<1>1. PICK n \in 1 .. 3 : Waits(n) /\ Reduced(n, Out, NoValue)
  BY DEF InvalidOperand
<1>2. NoValue.addr = None
  BY NodeAddr DEF NoValue
<1>3. QED BY <1>1, <1>2, NothingDistinct

LEMMA ReduceLogicalDistinct == ASSUME IInv, Distinct(stack), ReduceLogical PROVE Distinct(stack)'
<1>1. PICK v, a : Reduced(2, Out, [Node(Int4, None, Truth(v), a) EXCEPT
                              !.true = Joined(Second, Top).true, !.false = Joined(Second, Top).false,
                              !.known = Second.known, !.unread = Top.unread, !.bad = JoinedBad(Second, Top)]) /\ Len(stack) > 1
                  /\ a \in {None, Top.addr}
  BY DEF ReduceLogical
<1>2. Len(stack) >= 2
  <2>1. stack \in Seq(Nodes)
    BY DEF IInv, Structure, Standing
  <2>2. QED BY <1>1, <2>1
<1>3. PICK y, z, k, u, t, b : /\ y = Joined(Second, Top).true /\ z = Joined(Second, Top).false /\ k = Second.known /\ u = Top.unread
                             /\ t = Truth(v) /\ b = JoinedBad(Second, Top)
  OBVIOUS
<1>4. PICK x, node : x = Node(Int4, None, t, a) /\ node = [x EXCEPT !.true = y, !.false = z, !.known = k, !.unread = u, !.bad = b]
  OBVIOUS
<1>5. Reduced(2, Out, node)
  BY <1>1, <1>3, <1>4
<1>6. node.addr = a
  BY <1>4, NodeAddr DEF Node
<1>7. QED BY <1>1, <1>2, <1>5, <1>6, TopDistinct

LEMMA LeftOperandDistinct == ASSUME IInv, Distinct(stack), NEW op, NEW when, LeftOperand(op, when) PROVE Distinct(stack)'
<1>1. PICK v, c, t, f, s, node :
        /\ node = [Top EXCEPT !.mid = op, !.saved = s, !.val = v, !.cell = None, !.true = t, !.false = f]
        /\ stack' = Append(Popped(1), node) /\ Len(stack) >= 1
  BY DEF LeftOperand, Waits
<1>2. node.addr = Top.addr
  <2>1. stack \in Seq(Nodes)
    BY DEF IInv, Structure, Standing
  <2>2. Top \in Nodes
    BY <1>1, <2>1 DEF Top
  <2>3. QED BY <1>1, <2>2 DEF Nodes
<1>3. Fresh(1, node)
  <2>1. PICK s0 : s0 = Len(stack) /\ s0 \in s0 - 1 + 1 .. s0
    BY <1>1, Tops
  <2>2. QED BY <1>2, <2>1 DEF Fresh, Top
<1>4. Replaces(1, node)
  BY <1>1, <1>3 DEF Replaces
<1>5. QED BY <1>4, DistinctOn

(***************************************************************************)
(* The inductive invariant.                                                *)
(***************************************************************************)
Inv == IInv /\ Distinct(stack)

LEMMA MemoryIs == Memory \subseteq Memories
BY DEF Memory, Memories, Cells

LEMMA InitInv == ASSUME Init PROVE Inv
<1>1. /\ heap = <<>> /\ ta_code = <<>> /\ stack = <<>> /\ start \in Memory /\ text = start /\ active = TRUE
      /\ phase = "expression" /\ fault = "none"
  BY DEF Init
<1>2. PICK w, st : w = Out /\ st = stack
  OBVIOUS
<1>3. w = [heap |-> <<>>, code |-> <<>>] /\ w.heap = <<>> /\ w.code = <<>> /\ st = <<>>
  BY <1>1, <1>2 DEF Out
<1>4. Places(<<>>) = {} /\ Len(<<>>) = 0
  BY DEF Places
<1>5. w \in Outs /\ <<>> \in Seq(Nodes)
  BY <1>3 DEF Outs
<1>6. Good(w)
  BY <1>3, <1>4, <1>5 DEF Good, Linear
<1>7. Lost(w) = {}
  BY <1>3, <1>4 DEF Lost
<1>8. Sound(w) /\ Standing(w, st)
  BY <1>3, <1>4, <1>5, <1>6, <1>7 DEF Sound, Standing
<1>9. Structure
  BY <1>1, <1>2, <1>8, MemoryIs DEF Structure, Faults
<1>10. Parsed /\ Distinct(stack)
  BY <1>1, <1>4 DEF Parsed, Ordered, Distinct
<1>11. Tidy(w, st)
  BY <1>3, <1>4, <1>7 DEF Tidy
<1>12. Final(start, w).mem = start /\ Final(start, w).skip = None
  <2>1. start \in Memories
    BY <1>1, MemoryIs
  <2>2. Run(start, w, TRUE)[0] = Before(start, w)
    BY <1>6, <2>1, RunIs
  <2>3. Final(start, w) = Before(start, w)
    BY <1>3, <1>4, <2>2 DEF Final, Executed
  <2>4. QED BY <2>3 DEF Before
<1>13. Running(w, st, text, active, Final(start, w))
  <2>1. PICK m : m = Final(start, w)
    OBVIOUS
  <2>2. m.mem = text /\ m.skip = None /\ None # Left /\ ~Logical(st)
    BY <1>1, <1>3, <1>12, <2>1 DEF None, Left, Logical
  <2>3. Running(w, st, text, active, m)
    BY <1>1, <1>3, <1>4, <2>2 DEF Running
  <2>4. QED BY <2>1, <2>3
<1>14. Going /\ Ended
  BY <1>1, <1>2, <1>11, <1>13 DEF Going, Ended
<1>15. QED BY <1>9, <1>10, <1>14 DEF Inv, IInv

LEMMA StutterInv == ASSUME Inv, UNCHANGED vars PROVE Inv'
<1>1. /\ heap' = heap /\ ta_code' = ta_code /\ stack' = stack /\ start' = start /\ text' = text /\ active' = active
      /\ truth' = truth /\ phase' = phase /\ fault' = fault
  BY DEF vars, given
<1>2. Out' = Out
  BY <1>1 DEF Out
<1>3. Structure' /\ Parsed' /\ Going' /\ Distinct(stack)'
  BY <1>1, <1>2 DEF Inv, IInv, Structure, Parsed, Going, Distinct
<1>4. Decided(stack, Final(start, Out)) <=> Decided(stack, Final(start, Out))'
  BY <1>1, <1>2 DEF Decided
<1>5. Ended'
  BY <1>1, <1>2, <1>4 DEF Inv, IInv, Ended
<1>6. QED BY <1>3, <1>5 DEF Inv, IInv

LEMMA OneDistinct == ASSUME IInv', Len(stack') = 1 PROVE Distinct(stack)'
<1>1. PICK s : s = stack'
  OBVIOUS
<1>2. Places(s) = {1}
  BY <1>1 DEF Places
<1>3. Distinct(s)
  BY <1>2 DEF Distinct
<1>4. QED BY <1>1, <1>3

LEMMA NextInv == ASSUME Inv, Next PROVE Inv'
<1> USE DEF Inv
<1>1. CASE Identifier
  BY <1>1, IdentifierKeeps, IdentifierDistinct
<1>2. CASE Literal
  BY <1>2, LiteralKeeps, LiteralDistinct
<1>3. CASE Index
  BY <1>3, IndexKeeps, IndexDistinct
<1>4. CASE Member
  BY <1>4, MemberKeeps, MemberDistinct
<1>5. CASE Arrow
  BY <1>5, ArrowKeeps, ArrowDistinct
<1>6. CASE PostIncrement
  BY <1>6, PostIncrementKeeps, PostIncrementDistinct
<1>7. CASE PreIncrement
  BY <1>7, PreIncrementKeeps, PreIncrementDistinct
<1>8. CASE LogicalNot
  BY <1>8, LogicalNotKeeps, LogicalNotDistinct
<1>9. CASE AddressOf
  BY <1>9, AddressOfKeeps, AddressOfDistinct
<1>10. CASE Dereference
  BY <1>10, DereferenceKeeps, DereferenceDistinct
<1>11. CASE Sign
  BY <1>11, SignKeeps, SignDistinct
<1>12. CASE Cast
  BY <1>12, CastKeeps, CastDistinct
<1>13. ASSUME NEW op \in Binaries, NEW leftFirst \in BOOLEAN, Ints \/ (Ptrs /\ op = "=="), Operator(op, leftFirst) PROVE Inv'
  <2>a. ~IsStruct(Top.type) /\ ~IsStruct(Second.type)
    BY <1>13 DEF Ints, Ptrs, IsStruct, IsPointer, Int4, Type
  <2>1. IInv'
    BY <1>13, <2>a, OperatorKeeps
  <2>2. Distinct(stack)'
    BY <1>13, OperatorDistinct
  <2>3. QED BY <2>1, <2>2
<1>14. CASE Multiplicative \/ Additive \/ Shift \/ Relational \/ Equality \/ BitAnd \/ ExclusiveOr \/ InclusiveOr
  BY <1>13, <1>14 DEF Multiplicative, Additive, Shift, Relational, Equality, BitAnd, ExclusiveOr, InclusiveOr, Binaries
<1>15. CASE PointerPlus
  BY <1>15, PointerPlusKeeps, PointerPlusDistinct
<1>16. CASE AndOp
  BY <1>16, LeftOperandKeeps, LeftOperandDistinct DEF AndOp
<1>17. CASE OrOp
  BY <1>17, LeftOperandKeeps, LeftOperandDistinct DEF OrOp
<1>18. CASE ReduceLogical
  BY <1>18, ReduceLogicalKeeps, ReduceLogicalDistinct
<1>19. CASE Conditional
  BY <1>19, ConditionalKeeps, ConditionalDistinct
<1>20. CASE Assign
  BY <1>20, AssignKeeps, AssignDistinct
<1>21. ASSUME NEW production, NEW op \in Binaries, CompoundAssign(production, op) PROVE Inv'
  BY <1>21, CompoundKeeps, CompoundDistinct
<1>22. CASE AssignBits \/ AssignSum \/ AssignShift \/ AssignProduct
  BY <1>21, <1>22 DEF AssignBits, AssignSum, AssignShift, AssignProduct, Binaries
<1>23. CASE AssignMod
  BY <1>23, AssignModKeeps, AssignModDistinct
<1>24. CASE Comma
  BY <1>24, CommaKeeps, CommaDistinct
<1>i. CASE InvalidOperand
  BY <1>i, InvalidOperandKeeps, InvalidOperandDistinct
<1>25. CASE NoAddress
  <2>1. IInv' /\ stack' = stack
    BY <1>25, NoAddressKeeps DEF NoAddress
  <2>2. QED BY <2>1 DEF Distinct
<1>26. CASE ExpressionStatement
  <2>1. IInv' /\ stack' = stack
    BY <1>26, ExpressionStatementKeeps DEF ExpressionStatement
  <2>2. QED BY <2>1 DEF Distinct
<1>27. CASE Condition
  <2>1. IInv'
    BY <1>27, ConditionKeeps
  <2>2. Len(stack') = 1
    BY <1>27 DEF Condition
  <2>3. QED BY <2>1, <2>2, OneDistinct
<1>28. QED
  BY <1>1, <1>2, <1>3, <1>4, <1>5, <1>6, <1>7, <1>8, <1>9, <1>10, <1>11, <1>12, <1>14, <1>15, <1>16, <1>17, <1>18, <1>19,
     <1>20, <1>22, <1>23, <1>24, <1>i, <1>25, <1>26, <1>27 DEF Next

\* After any number of reductions the output is good, and as long as nothing
\* went wrong the code that expression.cpp has emitted runs as the text does.
THEOREM Invariant == Spec => []Inv
<1>1. Init => Inv
  BY InitInv
<1>2. Inv /\ [Next]_vars => Inv'
  BY NextInv, StutterInv
<1>3. QED BY <1>1, <1>2, PTL DEF Spec

(***************************************************************************)
(* What stays alive does what all of the code does, when no quad that      *)
(* assigns a variable is dead.                                             *)
(***************************************************************************)

\* Only the last quad that computes a temporary is dead.
LEMMA LiveBefore ==
    ASSUME NEW o, Good(o), NEW a, Temp(o.heap, a), NEW i \in Places(o.code), NEW k \in Places(o.code), i < k,
           Writes(o.code[i], a), Writes(o.code[k], a)
    PROVE  ~o.code[i].dead
<1>1. Len(o.code) \in Nat
  BY DEF Good, Outs
<1> DEFINE S == {j \in i + 1 .. k : Writes(o.code[j], a)}
<1>2. k \in S /\ S \in SUBSET Nat
  BY <1>1 DEF Places
<1>3. PICK j \in S : \A l \in S : j <= l
  <2> HIDE DEF S
  <2>1. QED BY <1>2, LeastNumber
<1>4. j \in Places(o.code) /\ i < j /\ Writes(o.code[j], a) /\ j <= k
  BY <1>1 DEF Places
<1>5. Rewritten(o, j) /\ Fed(o, j)
  BY <1>4 DEF Good, Linear
<1>6. o.code[j].result = a /\ i \in 1 .. j - 1
  BY <1>1, <1>4 DEF Writes, Places
<1>7. a \in Reads(o.code[j])
  BY <1>4, <1>5, <1>6 DEF Rewritten
<1>8. PICK l \in Places(o.code) : Latest(o.code, a, l, j) /\ ~o.code[l].dead
  BY <1>5, <1>7 DEF Fed
<1>9. l = i
  <2>1. l \in 1 .. j - 1 /\ Writes(o.code[l], a) /\ ~(i \in l + 1 .. j - 1)
    BY <1>8 DEF Latest
  <2>2. l \in Nat /\ i \in Nat /\ j \in Nat /\ k \in Nat /\ l < j
    BY <1>1, <1>4, <2>1 DEF Places
  <2>3. ~(l > i)
    <3> SUFFICES ASSUME l > i PROVE FALSE
      OBVIOUS
    <3>1. l \in S
      BY <1>4, <2>1, <2>2
    <3>2. QED BY <1>3, <2>2, <3>1
  <2>4. QED BY <1>6, <2>1, <2>2, <2>3
<1>10. QED BY <1>8, <1>9

\* Every quad that computed what is read was alive.
LEMMA LiveReads ==
    ASSUME NEW o, Good(o), NEW k \in Places(o.code), NEW a \in Reads(o.code[k]), Temp(o.heap, a), NEW i \in 1 .. k - 1, Writes(o.code[i], a)
    PROVE  ~o.code[i].dead
<1>1. PICK j \in Places(o.code) : Latest(o.code, a, j, k) /\ ~o.code[j].dead
  BY DEF Good, Fed
<1>2. Len(o.code) \in Nat /\ j \in 1 .. k - 1 /\ Writes(o.code[j], a) /\ ~(i \in j + 1 .. k - 1) /\ i \in Places(o.code)
  BY <1>1 DEF Good, Outs, Latest, Places
<1>3. i = j \/ i < j
  BY <1>2 DEF Places
<1>4. QED BY <1>1, <1>2, <1>3, LiveBefore

\* Two machines that differ in temporaries.
Alongside(m, m2) == m2.mem = m.mem /\ m2.skip = m.skip /\ m2.from = m.from

LEMMA DenotedBoth ==
    ASSUME NEW h, NEW m, NEW m2, Alongside(m, m2), NEW a, Temp(h, a) => m2.temps[a] = m.temps[a]
    PROVE  Denoted(h, m2, a) = Denoted(h, m, a)
BY DEF Alongside, Temp, Denoted

LEMMA ResultBoth ==
    ASSUME NEW h, NEW m, NEW m2, Alongside(m, m2), NEW q \in Quads, Formed(h, q), q.op \notin {"goto", "label"},
           \A a \in Reads(q) : Temp(h, a) => m2.temps[a] = m.temps[a]
    PROVE  Result(h, m2, q) = Result(h, m, q)
<1>1. q.arg1 \in Places(h) /\ (q.op \in Binaries => q.arg2 \in Places(h)) /\ q.op \in Binaries \cup Copies \cup {"()s"}
  BY DEF Formed, Quads, Ops
<1>2. q.arg1 \in Reads(q) /\ (q.op \in Binaries => q.arg2 \in Reads(q))
  BY <1>1 DEF Reads, Places, None
<1>3. /\ Denoted(h, m2, q.arg1) = Denoted(h, m, q.arg1)
      /\ (q.op \in Binaries => Denoted(h, m2, q.arg2) = Denoted(h, m, q.arg2))
  BY <1>2, DenotedBoth
<1>4. m2.mem = m.mem
  BY DEF Alongside
<1>5. CASE q.op \in Binaries
  <2>1. \A x : Result(h, x, q) = Meaning(q.op, Denoted(h, x, q.arg1), Denoted(h, x, q.arg2))
    BY <1>5 DEF Result, Binaries
  <2>2. QED BY <1>3, <1>5, <2>1
<1>6. CASE q.op \in Copies \cup {"()s"}
  BY <1>3, <1>4, <1>6 DEF Result, Copies
<1>7. QED BY <1>1, <1>5, <1>6

LEMMA StoredBoth ==
    ASSUME NEW h, NEW m \in Machines(h), NEW m2 \in Machines(h), Alongside(m, m2), NEW c, NEW v
    PROVE  Alongside(Stored(m, c, v), Stored(m2, c, v))
<1>1. /\ Stored(m, c, v).skip = m.skip /\ Stored(m, c, v).from = m.from
      /\ Stored(m, c, v).mem = IF c \in Cells THEN [m.mem EXCEPT ![c] = v] ELSE m.mem
  BY ONLY m \in Machines(h), StoredParts
<1>2. /\ Stored(m2, c, v).skip = m2.skip /\ Stored(m2, c, v).from = m2.from
      /\ Stored(m2, c, v).mem = IF c \in Cells THEN [m2.mem EXCEPT ![c] = v] ELSE m2.mem
  BY ONLY m2 \in Machines(h), StoredParts
<1>3. QED BY <1>1, <1>2 DEF Alongside

\* A quad that runs in both does the same in both.
LEMMA SteppedBoth ==
    ASSUME NEW h, NEW m \in Machines(h), NEW m2 \in Machines(h), Alongside(m, m2), NEW q \in Quads, Formed(h, q), q.op # "label", NEW k \in Nat,
           \A a \in Reads(q) : Temp(h, a) => m2.temps[a] = m.temps[a],
           NEW s, s = Stepped(h, m, q, k), NEW s2, s2 = Stepped(h, m2, q, k)
    PROVE  /\ Alongside(s, s2)
           /\ \A b \in Places(h) : Temp(h, b) /\ m2.temps[b] = m.temps[b] => s2.temps[b] = s.temps[b]
           /\ \A b \in Places(h) : Temp(h, b) /\ Writes(q, b) => s2.temps[b] = s.temps[b]
<1>1. CASE q.op = "goto"
  <2>1. q.arg1 # None => q.arg1 \in Reads(q)
    BY <1>1 DEF Formed, Reads, Places, None
  <2>2. q.arg1 # None => Denoted(h, m2, q.arg1) = Denoted(h, m, q.arg1)
    BY <2>1, DenotedBoth
  <2>3. Taken(h, m2, q) <=> Taken(h, m, q)
    BY <2>2 DEF Taken
  <2>4. PICK t : t = IF q.to = None THEN Left ELSE q.to
    OBVIOUS
  <2>5. CASE Taken(h, m, q)
    <3>1. s = [m EXCEPT !.skip = t, !.from = k] /\ s2 = [m2 EXCEPT !.skip = t, !.from = k]
      BY <1>1, <2>3, <2>4, <2>5 DEF Stepped
    <3>2. s.mem = m.mem /\ s.skip = t /\ s.from = k /\ s.temps = m.temps /\ s2.mem = m2.mem /\ s2.skip = t /\ s2.from = k /\ s2.temps = m2.temps
      BY <3>1 DEF Machines
    <3>3. QED BY <1>1, <3>2 DEF Alongside, Writes
  <2>6. CASE ~Taken(h, m, q)
    <3>1. s = m /\ s2 = m2
      BY <1>1, <2>3, <2>6 DEF Stepped
    <3>2. QED BY <1>1, <3>1 DEF Writes
  <2>7. QED BY <2>5, <2>6
<1>2. CASE q.op # "goto"
  <2>1. PICK v : v = Result(h, m, q) /\ v = Result(h, m2, q)
    BY <1>2, ResultBoth
  <2>2. q.result \in Places(h)
    BY <1>2 DEF Formed, Quads, Ops
  <2>3. CASE q.op = "()s"
    <3>1. q.result \in Reads(q)
      BY <2>2, <2>3 DEF Reads, Places, None
    <3>2. PICK c : c = Denoted(h, m, q.result) /\ c = Denoted(h, m2, q.result)
      BY <3>1, DenotedBoth
    <3>3. s = Stored(m, c, v) /\ s2 = Stored(m2, c, v)
      BY <2>1, <2>3, <3>2 DEF Stepped
    <3>a. \A x \in Machines(h) : Stored(x, c, v).temps = x.temps
      <4>1. TAKE x \in Machines(h)
      <4>2. QED BY ONLY x \in Machines(h), StoredParts
    <3>4. s.temps = m.temps /\ s2.temps = m2.temps
      BY <3>3, <3>a
    <3>5. Alongside(s, s2)
      BY <3>3, StoredBoth
    <3>6. QED BY <2>3, <3>4, <3>5 DEF Writes
  <2>4. CASE q.op # "()s" /\ h[q.result].var # None
    <3>1. s = Stored(m, h[q.result].var, v) /\ s2 = Stored(m2, h[q.result].var, v)
      BY <1>2, <2>1, <2>4 DEF Stepped
    <3>a. \A x \in Machines(h) : \A c : Stored(x, c, v).temps = x.temps
      <4>1. TAKE x \in Machines(h)
      <4>2. TAKE c
      <4>3. QED BY ONLY x \in Machines(h), StoredParts
    <3>2. s.temps = m.temps /\ s2.temps = m2.temps
      BY <3>1, <3>a
    <3>3. Alongside(s, s2)
      BY <3>1, StoredBoth
    <3>4. \A b : Temp(h, b) => ~Writes(q, b)
      BY <2>4 DEF Temp, Writes
    <3>5. QED BY <3>2, <3>3, <3>4
  <2>5. CASE q.op # "()s" /\ h[q.result].var = None
    <3>0. PICK r \in Places(h) : r = q.result
      BY <2>2
    <3>1. s = [m EXCEPT !.temps[r] = v] /\ s2 = [m2 EXCEPT !.temps[r] = v]
      BY <1>2, <2>1, <2>5, <3>0 DEF Stepped
    <3>2. /\ s.mem = m.mem /\ s.skip = m.skip /\ s.from = m.from /\ s.temps[r] = v
          /\ \A b \in Places(h) : b # r => s.temps[b] = m.temps[b]
      BY <3>1 DEF Machines
    <3>3. /\ s2.mem = m2.mem /\ s2.skip = m2.skip /\ s2.from = m2.from /\ s2.temps[r] = v
          /\ \A b \in Places(h) : b # r => s2.temps[b] = m2.temps[b]
      BY <3>1 DEF Machines
    <3>4. QED BY <3>0, <3>2, <3>3 DEF Alongside, Writes
  <2>6. QED BY <2>3, <2>4, <2>5
<1>3. QED BY <1>1, <1>2

\* Both runs before the quads after k: a temporary differs only if a dead quad computed it.
Agrees(o, m, m2, k) ==
    /\ Alongside(m, m2)
    /\ \A a \in Places(o.heap) :
          Temp(o.heap, a) /\ (\A j \in 1 .. k : Writes(o.code[j], a) => ~o.code[j].dead) => m2.temps[a] = m.temps[a]

LEMMA DeadSteps ==
    ASSUME NEW o, Good(o), Lost(o) = {}, NEW k \in Places(o.code), o.code[k].dead, NEW m \in Machines(o.heap),
           NEW s, s = Stepped(o.heap, m, o.code[k], k)
    PROVE  /\ s.mem = m.mem /\ s.skip = m.skip /\ s.from = m.from /\ Writes(o.code[k], o.code[k].result)
           /\ \A b \in Places(o.heap) : ~Writes(o.code[k], b) => s.temps[b] = m.temps[b]
<1>1. PICK q, h : q = o.code[k] /\ h = o.heap
  OBVIOUS
<1>2. Formed(h, q) /\ q \in Quads /\ q.dead
  BY <1>1 DEF Good, Outs, Places
<1>3. q.op \in Copies \cup Binaries /\ q.op \notin {"goto", "label", "()s"} /\ q.result \in Places(h)
  BY <1>2 DEF Formed, Copies, Binaries
<1>4. h[q.result].var = None
  BY <1>1 DEF Lost, Loses
<1>5. PICK v, r : v = Result(h, m, q) /\ r = q.result
  OBVIOUS
<1>6. s = [m EXCEPT !.temps[r] = v]
  BY <1>1, <1>3, <1>4, <1>5 DEF Stepped
<1>7. /\ s.mem = m.mem /\ s.skip = m.skip /\ s.from = m.from
      /\ \A b \in Places(h) : b # r => s.temps[b] = m.temps[b]
  BY <1>1, <1>6 DEF Machines
<1>8. QED BY <1>1, <1>3, <1>5, <1>7 DEF Writes

LEMMA AgreesStep ==
    ASSUME NEW o, Good(o), Lost(o) = {}, NEW k \in Places(o.code), NEW m \in Machines(o.heap), NEW m2 \in Machines(o.heap),
           Agrees(o, m, m2, k - 1), NEW e, e = After(o, TRUE, m, k), NEW e2, e2 = After(o, FALSE, m2, k)
    PROVE  Agrees(o, e, e2, k)
<1>1. PICK q, h : q = o.code[k] /\ h = o.heap
  OBVIOUS
<1>2. Formed(h, q) /\ q \in Quads /\ k \in Nat /\ Len(o.code) \in Nat /\ k >= 1
  BY <1>1 DEF Good, Outs, Places
<1>3. \A j \in 1 .. k - 1 : j \in 1 .. k
  BY <1>2
<1>4. k \in 1 .. k
  BY <1>2
<1>5. /\ Alongside(m, m2)
      /\ \A a \in Places(h) :
            Temp(h, a) /\ (\A j \in 1 .. k - 1 : Writes(o.code[j], a) => ~o.code[j].dead) => m2.temps[a] = m.temps[a]
  BY <1>1 DEF Agrees
<1>6. ASSUME NEW a \in Places(h), Temp(h, a), \A j \in 1 .. k : Writes(o.code[j], a) => ~o.code[j].dead PROVE m2.temps[a] = m.temps[a]
  BY <1>3, <1>5, <1>6
<1>7. CASE m.skip = k
  <2>1. e = [m EXCEPT !.skip = None] /\ e2 = [m2 EXCEPT !.skip = None]
    BY <1>5, <1>7 DEF After, Alongside
  <2>2. e.mem = m.mem /\ e.from = m.from /\ e.temps = m.temps /\ e.skip = None
        /\ e2.mem = m2.mem /\ e2.from = m2.from /\ e2.temps = m2.temps /\ e2.skip = None
    BY <2>1 DEF Machines
  <2>3. QED BY <1>1, <1>5, <1>6, <2>2 DEF Agrees, Alongside
<1>8. CASE m.skip # k /\ (m.skip # None \/ q.op = "label")
  <2>1. e = m /\ e2 = m2
    BY <1>1, <1>5, <1>8 DEF After, Alongside
  <2>2. QED BY <1>1, <1>5, <1>6, <2>1 DEF Agrees
<1>9. CASE m.skip # k /\ m.skip = None /\ q.op # "label" /\ q.dead
  <2>1. e = Stepped(h, m, q, k) /\ e2 = m2
    BY <1>1, <1>5, <1>9 DEF After, Alongside
  <2>2. /\ e.mem = m.mem /\ e.skip = m.skip /\ e.from = m.from
        /\ \A b \in Places(h) : ~Writes(q, b) => e.temps[b] = m.temps[b]
    <3>1. Good(o) /\ Lost(o) = {} /\ k \in Places(o.code) /\ o.code[k].dead /\ m \in Machines(o.heap) /\ e = Stepped(o.heap, m, o.code[k], k)
      BY <1>1, <1>9, <2>1
    <3>2. /\ e.mem = m.mem /\ e.skip = m.skip /\ e.from = m.from
          /\ \A b \in Places(o.heap) : ~Writes(o.code[k], b) => e.temps[b] = m.temps[b]
      BY ONLY <3>1, DeadSteps
    <3>3. QED BY <1>1, <3>2
  <2>3. ASSUME NEW a \in Places(h), Temp(h, a), \A j \in 1 .. k : Writes(o.code[j], a) => ~o.code[j].dead
        PROVE  e2.temps[a] = e.temps[a]
    <3>1. ~Writes(q, a)
      BY <1>1, <1>4, <1>9, <2>3
    <3>2. m2.temps[a] = m.temps[a]
      BY <1>6, <2>3
    <3>3. QED BY <2>1, <2>2, <3>1, <3>2
  <2>4. QED BY <1>1, <1>5, <2>1, <2>2, <2>3 DEF Agrees, Alongside
<1>10. CASE m.skip # k /\ m.skip = None /\ q.op # "label" /\ ~q.dead
  <2>1. e = Stepped(h, m, q, k) /\ e2 = Stepped(h, m2, q, k)
    BY <1>1, <1>5, <1>10 DEF After, Alongside
  <2>2. ASSUME NEW a \in Reads(q), Temp(h, a) PROVE m2.temps[a] = m.temps[a]
    <3>1. a \in Places(h)
      BY <1>2, <2>2 DEF Formed, Reads, Quads, Ops
    <3>2. \A j \in 1 .. k - 1 : Writes(o.code[j], a) => ~o.code[j].dead
      BY <1>1, <2>2, LiveReads
    <3>3. QED BY <1>5, <2>2, <3>1, <3>2
  <2>3. /\ Alongside(e, e2)
        /\ \A b \in Places(h) : Temp(h, b) /\ m2.temps[b] = m.temps[b] => e2.temps[b] = e.temps[b]
    <3>1. m \in Machines(h) /\ m2 \in Machines(h) /\ Alongside(m, m2) /\ q \in Quads /\ Formed(h, q) /\ q.op # "label" /\ k \in Nat
          /\ \A a \in Reads(q) : Temp(h, a) => m2.temps[a] = m.temps[a]
      BY <1>1, <1>2, <1>5, <1>10, <2>2
    <3>2. QED BY ONLY <2>1, <3>1, SteppedBoth
  <2>4. QED BY <1>1, <1>6, <2>3 DEF Agrees
<1>11. QED BY <1>7, <1>8, <1>9, <1>10

LEMMA LiveRuns ==
    ASSUME NEW o, Good(o), Lost(o) = {}, NEW mem \in Memories
    PROVE  Alongside(Executed(mem, o, TRUE), Executed(mem, o, FALSE))
<1>1. PICK r, r2, n : r = Run(mem, o, TRUE) /\ r2 = Run(mem, o, FALSE) /\ n = Len(o.code)
  OBVIOUS
<1>2. n \in Nat /\ Places(o.code) = 1 .. n
  BY <1>1 DEF Good, Outs, Places
<1>3. /\ r \in [0 .. n -> Machines(o.heap)] /\ r[0] = Before(mem, o)
      /\ \A j \in 1 .. n : r[j] = After(o, TRUE, r[j - 1], j)
  <2>1. /\ Run(mem, o, TRUE) \in [0 .. Len(o.code) -> Machines(o.heap)] /\ Run(mem, o, TRUE)[0] = Before(mem, o)
        /\ \A j \in Places(o.code) : Run(mem, o, TRUE)[j] = After(o, TRUE, Run(mem, o, TRUE)[j - 1], j)
    BY ONLY Good(o), mem \in Memories, RunIs
  <2>2. QED BY <1>1, <1>2, <2>1
<1>4. /\ r2 \in [0 .. n -> Machines(o.heap)] /\ r2[0] = Before(mem, o)
      /\ \A j \in 1 .. n : r2[j] = After(o, FALSE, r2[j - 1], j)
  <2>1. /\ Run(mem, o, FALSE) \in [0 .. Len(o.code) -> Machines(o.heap)] /\ Run(mem, o, FALSE)[0] = Before(mem, o)
        /\ \A j \in Places(o.code) : Run(mem, o, FALSE)[j] = After(o, FALSE, Run(mem, o, FALSE)[j - 1], j)
    BY ONLY Good(o), mem \in Memories, RunIs
  <2>2. QED BY <1>1, <1>2, <2>1
<1> DEFINE P == {j \in 0 .. n : Agrees(o, r[j], r2[j], j)}
<1>5. 0 \in P
  BY <1>2, <1>3, <1>4 DEF Agrees, Alongside
<1>6. ASSUME NEW j \in 1 .. n, j - 1 \in P PROVE j \in P
  <2>1. PICK m, m2, e, e2 : m = r[j - 1] /\ m2 = r2[j - 1] /\ e = r[j] /\ e2 = r2[j]
    OBVIOUS
  <2>2. j - 1 \in 0 .. n /\ j \in 0 .. n /\ j \in Places(o.code)
    BY <1>2
  <2>3. m \in Machines(o.heap) /\ m2 \in Machines(o.heap) /\ e = After(o, TRUE, m, j) /\ e2 = After(o, FALSE, m2, j)
    BY <1>3, <1>4, <2>1, <2>2
  <2>4. Agrees(o, m, m2, j - 1)
    BY <1>6, <2>1
  <2>5. Agrees(o, e, e2, j)
    BY <2>2, <2>3, <2>4, AgreesStep
  <2>6. QED BY <2>1, <2>2, <2>5
<1>7. n \in P
  <2> HIDE DEF P
  <2>1. 0 .. n \subseteq P
    BY <1>2, <1>5, <1>6, Upwards
  <2>2. n \in 0 .. n
    BY <1>2
  <2>3. QED BY <2>1, <2>2
<1>8. QED BY <1>1, <1>7 DEF Agrees, Executed

(***************************************************************************)
(* The properties.                                                         *)
(***************************************************************************)
LEMMA TypeFollows == ASSUME Inv PROVE TypeOK
<1>1. Good(Out) /\ Standing(Out, stack) /\ phase \in {"expression", "end", "crashed"} /\ fault \in Faults
  BY DEF Inv, IInv, Structure, Sound
<1>2. PICK w, h, c, st : w = Out /\ h = heap /\ c = ta_code /\ st = stack
  OBVIOUS
<1>3. w.heap = h /\ w.code = c
  BY <1>2 DEF Out
<1>4. h \in Seq(Addresses) /\ c \in Seq(Quads) /\ st \in Seq(Nodes) /\ Len(h) \in Nat /\ Len(c) \in Nat
      /\ DOMAIN h = Places(h) /\ DOMAIN c = Places(c) /\ DOMAIN st = Places(st)
  BY <1>1, <1>2, <1>3 DEF Good, Outs, Standing, Places
<1>5. \A a \in DOMAIN h : h[a].kind \in {"ID3", "CON", "TEMP", "MEM"} /\ h[a].instr \in 0 .. Len(c)
  <2>1. TAKE a \in DOMAIN h
  <2>2. h[a] \in Addresses /\ h[a].instr <= Len(c)
    BY <1>1, <1>2, <1>3, <1>4 DEF Good, Places
  <2>3. QED BY <1>4, <2>2 DEF Addresses, Kinds
<1>6. \A k \in DOMAIN st : st[k].addr \in 0 .. Len(h)
  <2>1. TAKE k \in DOMAIN st
  <2>2. Stands(w, st[k])
    BY <1>1, <1>2, <1>4 DEF Standing
  <2>3. QED BY <1>3, <1>4, <2>2 DEF Stands, Ready, Places, None
<1>7. \A k \in DOMAIN c : c[k].to = None \/ (c[k].to \in DOMAIN c /\ c[c[k].to].op = "label")
  <2>1. TAKE k \in DOMAIN c
  <2>2. Patched(c, k)
    BY <1>1, <1>2, <1>3, <1>4 DEF Good
  <2>3. QED BY <1>4, <2>2 DEF Patched, Places
<1>8. QED BY <1>1, <1>2, <1>5, <1>6, <1>7 DEF TypeOK, Faults

LEMMA ValuesFollow == ASSUME Inv PROVE ValuesRight
<1> SUFFICES ASSUME phase = "expression", active, fault = "none", NEW m, m = Executed(start, Out, TRUE), m.skip = None,
                    NEW k \in DOMAIN stack, stack[k].known, Plain(stack[k]), stack[k].addr # None
             PROVE  IF IsMem(Out, stack[k].addr) THEN m.temps[stack[k].addr] = stack[k].cell
                                                 ELSE Denoted(heap, m, stack[k].addr) = Value(stack[k])
  BY DEF ValuesRight, Plain
<1>1. ~Stuck(stack, m) /\ m = Final(start, Out)
  <2>0. None # Left
    BY DEF None, Left
  <2>1. m.skip # Left
    BY <2>0
  <2>2. QED BY <2>1 DEF Stuck, Final
<1>2. Running(Out, stack, text, active, m)
  BY <1>1 DEF Inv, IInv, Going
<1>3. k \in Places(stack)
  <2>1. stack \in Seq(Nodes)
    BY DEF Inv, IInv, Structure, Standing
  <2>2. QED BY <2>1 DEF Places
<1>4. Holds(Out, m, text, stack[k])
  BY <1>2, <1>3 DEF Running
<1>5. Out.heap = heap
  BY DEF Out
<1>6. QED BY <1>4, <1>5 DEF Holds, Value

LEMMA EndsAlike ==
    ASSUME Inv, phase = "end", fault = "none"
    PROVE  LET m == Executed(start, Out, FALSE) IN m.mem = text /\ Decided(stack, m)
<1>1. Good(Out) /\ start \in Memories /\ Lost(Out) = {} /\ Final(start, Out).mem = text /\ Decided(stack, Final(start, Out))
  BY DEF Inv, IInv, Structure, Sound, Ended
<1>2. PICK m, e : m = Executed(start, Out, TRUE) /\ e = Executed(start, Out, FALSE)
  OBVIOUS
<1>3. Alongside(m, e)
  BY <1>1, <1>2, LiveRuns
<1>4. m.mem = text /\ Decided(stack, m)
  BY <1>1, <1>2 DEF Final
<1>5. e.mem = text /\ Decided(stack, e)
  BY <1>3, <1>4 DEF Alongside, Decided
<1>6. QED BY <1>2, <1>5

LEMMA EffectsFollow == ASSUME Inv PROVE EffectsKept
BY EndsAlike DEF EffectsKept

LEMMA ConditionFollows == ASSUME Inv PROVE ConditionRight
<1> SUFFICES ASSUME phase = "end", fault = "none", Top.mid = "if", NEW m, m = Executed(start, Out, FALSE)
             PROVE  IF truth THEN m.skip = None \/ (m.skip = Left /\ m.from \in Top.true) ELSE m.skip = Left /\ m.from \in Top.false
  BY DEF ConditionRight
<1>1. Decided(stack, m)
  BY EndsAlike
<1>2. Uppermost(stack) = Top
  BY DEF Uppermost, Top
<1>3. QED BY <1>1, <1>2 DEF Decided

LEMMA LiveFollows == ASSUME Inv PROVE LiveReadsLive
<1>1. Good(Out)
  BY DEF Inv, IInv, Structure, Sound
<1>2. PICK w, h, c : w = Out /\ h = heap /\ c = ta_code
  OBVIOUS
<1>3. w.heap = h /\ w.code = c /\ Good(w) /\ DOMAIN c = Places(c)
  <2>1. w.heap = h /\ w.code = c /\ Good(w)
    BY <1>1, <1>2 DEF Out
  <2>2. QED BY <2>1 DEF Good, Outs, Places
<1>4. ASSUME NEW k \in DOMAIN c, NEW a \in Reads(c[k]), Temp(h, a)
      PROVE  \E j \in 1 .. k - 1 : ~c[j].dead /\ c[j].result = a /\ c[j].op # "()s"
  <2>1. Fed(w, k)
    BY <1>3 DEF Good
  <2>2. PICK j \in Places(c) : Latest(c, a, j, k) /\ ~c[j].dead
    BY <1>3, <1>4, <2>1 DEF Fed
  <2>3. QED BY <2>2 DEF Latest, Writes
<1>5. QED BY <1>2, <1>4 DEF LiveReadsLive, Reads, Temp

\* In an expression of any length every address, instruction and label that
\* new_temp, emit and backpatch hand out is one of the code's.
THEOREM TypesKept == Spec => []TypeOK
<1>1. Inv => TypeOK
  BY TypeFollows
<1>2. QED BY <1>1, Invariant, PTL

\* However reductions follow each other, the address of an operand that waits
\* on the parser's stack gives what C says of it, whatever later operands did.
THEOREM ValuesAreRight == Spec => []ValuesRight
<1>1. Inv => ValuesRight
  BY ValuesFollow
<1>2. QED BY <1>1, Invariant, PTL

\* Without the quads that emit leaves dead, an expression of any length does
\* to the variables what C says, up to the faults.
THEOREM EffectsAreKept == Spec => []EffectsKept
<1>1. Inv => EffectsKept
  BY EffectsFollow
<1>2. QED BY <1>1, Invariant, PTL

\* The jumps of &&, || and ! and the one that create_selection_statement_if
\* patches leave a condition of any shape by the list that its value asks for.
THEOREM ConditionsAreRight == Spec => []ConditionRight
<1>1. Inv => ConditionRight
  BY ConditionFollows
<1>2. QED BY <1>1, Invariant, PTL

\* Whatever went wrong, a quad that emit has marked alive reads no temporary
\* that only a dead quad computes.
THEOREM LiveQuadsReadLive == Spec => []LiveReadsLive
<1>1. Inv => LiveReadsLive
  BY LiveFollows
<1>2. QED BY <1>1, Invariant, PTL
=============================================================================
