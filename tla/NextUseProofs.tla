---------------------------- MODULE NextUseProofs ----------------------------
(***************************************************************************)
(* Basic blocks and next-use information for functions of any length: the  *)
(* blocks are straight-line, every operand's pair is right, and what the   *)
(* generator is handed keeps the promises of UseContract.                  *)
(***************************************************************************)
EXTENDS NextUse, WellFoundedInduction, TLAPS

(***************************************************************************)
(* A set of numbers that has 0, and k if it has k - 1, has all; and what   *)
(* is defined for 0, and for k from k - 1, is defined for all.             *)
(***************************************************************************)
LEMMA LeastNumber ==
    ASSUME NEW S \in SUBSET Nat, S # {}
    PROVE  \E n \in S : \A k \in S : n <= k
<1>1. PICK n \in S : \A k \in S : ~(<<k, n>> \in OpToRel(<, Nat))
  BY NatLessThanWellFounded, WFMin
<1>2. \A j, k \in Nat : j < k => <<j, k>> \in OpToRel(<, Nat)
  BY DEF OpToRel
<1>3. \A k \in S : ~(k < n)
  BY <1>1, <1>2
<1>4. QED BY <1>3

LEMMA Upwards ==
    ASSUME NEW n \in Nat, NEW P, 0 \in P, \A k \in 1 .. n : k - 1 \in P => k \in P
    PROVE  0 .. n \subseteq P
<1> DEFINE Bad == (0 .. n) \ P
<1>1. SUFFICES ASSUME Bad # {} PROVE FALSE
  OBVIOUS
<1>2. PICK k \in Bad : \A m \in Bad : k <= m
  <2>1. Bad \in SUBSET Nat
    OBVIOUS
  <2> HIDE DEF Bad
  <2>2. QED BY <1>1, <2>1, LeastNumber
<1>3. k \in 1 .. n
  OBVIOUS
<1>4. k - 1 \in 0 .. n /\ k - 1 \notin Bad
  BY <1>2, <1>3
<1>5. QED BY <1>3, <1>4

Follows(g, c, D, k) ==
    g[0] = c /\ \A j \in 1 .. k : g[j] = D[j][g[j - 1]]

LEMMA Recursion ==
    ASSUME NEW n \in Nat, NEW S, NEW c \in S, NEW D \in [1 .. n -> [S -> S]]
    PROVE  \E g \in [0 .. n -> S] : Follows(g, c, D, n)
<1> DEFINE P == {k \in 0 .. n : \E g \in [0 .. k -> S] : Follows(g, c, D, k)}
<1>1. 0 \in P
  <2>1. [k \in 0 .. 0 |-> c] \in [0 .. 0 -> S] /\ Follows([k \in 0 .. 0 |-> c], c, D, 0)
    BY DEF Follows
  <2>2. QED BY <2>1
<1>2. ASSUME NEW k \in 1 .. n, k - 1 \in P PROVE k \in P
  <2>1. PICK g \in [0 .. k - 1 -> S] : Follows(g, c, D, k - 1)
    BY <1>2
  <2>2. g[k - 1] \in S /\ D[k][g[k - 1]] \in S
    OBVIOUS
  <2> DEFINE h == [j \in 0 .. k |-> IF j = k THEN D[k][g[k - 1]] ELSE g[j]]
  <2>3. h \in [0 .. k -> S]
    BY <2>2
  <2>4. h[0] = c /\ h[k] = D[k][g[k - 1]] /\ h[k - 1] = g[k - 1]
    BY <2>1 DEF Follows
  <2>5. \A j \in 1 .. k : h[j] = D[j][h[j - 1]]
    <3> TAKE j \in 1 .. k
    <3>1. CASE j = k
      BY <2>4, <3>1
    <3>2. CASE j # k
      <4>1. j \in 1 .. k - 1 /\ h[j] = g[j] /\ h[j - 1] = g[j - 1]
        BY <3>2
      <4>2. QED BY <2>1, <4>1 DEF Follows
    <3>3. QED BY <3>1, <3>2
  <2> HIDE DEF h
  <2>6. Follows(h, c, D, k)
    BY <2>4, <2>5 DEF Follows
  <2>7. QED BY <2>3, <2>6
<1>3. n \in P
  <2> HIDE DEF P
  <2>1. 0 .. n \subseteq P
    BY <1>1, <1>2, Upwards
  <2>2. n \in 0 .. n
    OBVIOUS
  <2>3. QED BY <2>1, <2>2
<1>4. QED BY <1>3

(***************************************************************************)
(* create_basic_blocks.  BlockStep is one turn of its loop, and Blocks is  *)
(* what the loop computes.                                                 *)
(***************************************************************************)

BlockStates == [blks : Nat, incremented : BOOLEAN, bb_no : Nat]

BlockStep(i, b) ==
    IF i.dead THEN [b EXCEPT !.bb_no = 0]
    ELSE IF i.kind = "label" /\ ~b.incremented
         THEN [b EXCEPT !.blks = @ + 1, !.bb_no = b.blks + 1]
    ELSE [blks |-> IF EndsBlock(i) THEN b.blks + 1 ELSE b.blks,
          incremented |-> EndsBlock(i),
          bb_no |-> b.blks]

FirstBlock == [blks |-> 1, incremented |-> TRUE, bb_no |-> 0]

\* Every turn, in terms of the one before.
LEMMA BlockStepIs ==
    ASSUME NEW i, NEW b \in BlockStates, NEW c, c = BlockStep(i, b)
    PROVE  /\ c \in BlockStates
           /\ i.dead => c.blks = b.blks /\ c.incremented = b.incremented /\ c.bb_no = 0
           /\ ~i.dead /\ i.kind = "label" /\ ~b.incremented =>
                 c.blks = b.blks + 1 /\ c.bb_no = b.blks + 1 /\ ~c.incremented
           /\ ~i.dead /\ (i.kind # "label" \/ b.incremented) =>
                 /\ c.bb_no = b.blks /\ (c.incremented <=> EndsBlock(i))
                 /\ c.blks = IF EndsBlock(i) THEN b.blks + 1 ELSE b.blks
<1>1. EndsBlock(i) \in BOOLEAN
  BY DEF EndsBlock
<1>2. CASE i.dead
  BY <1>2 DEF BlockStep, BlockStates
<1>3. CASE ~i.dead /\ i.kind = "label" /\ ~b.incremented
  <2>1. c = [b EXCEPT !.blks = b.blks + 1, !.bb_no = b.blks + 1]
    BY <1>3, Zenon DEF BlockStep
  <2>2. b.blks + 1 \in Nat
    BY DEF BlockStates
  <2>3. QED BY <1>3, <2>1, <2>2 DEF BlockStates
<1>4. CASE ~i.dead /\ (i.kind # "label" \/ b.incremented)
  BY <1>1, <1>4 DEF BlockStep, BlockStates
<1>5. QED BY <1>2, <1>3, <1>4

LEMMA BlocksAre ==
    ASSUME Len(ta_code) \in Nat
    PROVE  /\ Blocks \in [0 .. Len(ta_code) -> BlockStates]
           /\ Blocks[0] = FirstBlock
           /\ \A k \in 1 .. Len(ta_code) : Blocks[k] = BlockStep(ta_code[k], Blocks[k - 1])
<1> DEFINE n == Len(ta_code)
           D == [k \in 1 .. n |-> [b \in BlockStates |-> BlockStep(ta_code[k], b)]]
<1>1. D \in [1 .. n -> [BlockStates -> BlockStates]]
  BY BlockStepIs
<1>2. FirstBlock \in BlockStates
  BY DEF FirstBlock, BlockStates
<1>3. PICK g \in [0 .. n -> BlockStates] : Follows(g, FirstBlock, D, n)
  <2> HIDE DEF D
  <2>1. QED BY <1>1, <1>2, Recursion
<1>4. ASSUME NEW k \in 1 .. n PROVE k - 1 \in 0 .. n /\ g[k] = BlockStep(ta_code[k], g[k - 1])
  <2>1. k - 1 \in 0 .. n /\ g[k - 1] \in BlockStates
    OBVIOUS
  <2>2. g[k] = D[k][g[k - 1]]
    BY <1>3 DEF Follows
  <2>3. QED BY <2>1, <2>2
<1>5. g = [k \in 0 .. n |-> IF k = 0 THEN FirstBlock ELSE BlockStep(ta_code[k], g[k - 1])]
  BY <1>3, <1>4 DEF Follows
<1> HIDE DEF D
<1>6. Blocks = [k \in 0 .. n |-> IF k = 0 THEN FirstBlock ELSE BlockStep(ta_code[k], Blocks[k - 1])]
  BY <1>5, Zenon DEF Blocks, FirstBlock, BlockStep
<1>7. QED OBVIOUS

Live(k) == ~ta_code[k].dead

\* Between two instructions the number only grows, and only at a live
\* instruction that ends a block or is a label.
LEMMA BlocksGrow ==
    ASSUME Len(ta_code) \in Nat, NEW j \in 0 .. Len(ta_code), NEW k \in j .. Len(ta_code)
    PROVE  Blocks[j].blks <= Blocks[k].blks
<1> DEFINE n == Len(ta_code)
           P == {d \in 0 .. k - j : Blocks[j].blks <= Blocks[j + d].blks}
<1>0. \A l \in 0 .. n : Blocks[l].blks \in Nat /\ Blocks[l] \in BlockStates
  BY BlocksAre DEF BlockStates
<1>1. 0 \in P
  BY <1>0
<1>2. ASSUME NEW d \in 1 .. k - j, d - 1 \in P PROVE d \in P
  <2>1. j + d \in 1 .. n /\ j + d - 1 = j + (d - 1) /\ j + d - 1 \in 0 .. n
    OBVIOUS
  <2>2. PICK i : i = ta_code[j + d]
    OBVIOUS
  <2>3. Blocks[j + d] = BlockStep(i, Blocks[j + d - 1])
    BY <2>1, <2>2, BlocksAre
  <2>4. Blocks[j + d - 1].blks <= Blocks[j + d].blks
    BY <1>0, <2>1, <2>3, BlockStepIs
  <2>5. Blocks[j].blks <= Blocks[j + d - 1].blks
    BY <1>2, <2>1
  <2>6. QED BY <1>0, <2>1, <2>4, <2>5
<1>3. 0 .. k - j \subseteq P
  <2> HIDE DEF P
  <2>1. k - j \in Nat
    OBVIOUS
  <2>2. QED BY <1>1, <1>2, <2>1, Upwards
<1>4. k - j \in P
  <2>1. k - j \in 0 .. k - j
    OBVIOUS
  <2> HIDE DEF P
  <2>2. QED BY <1>3, <2>1
<1>5. j + (k - j) = k
  OBVIOUS
<1>6. QED BY <1>4, <1>5

LEMMA BlocksStay ==
    ASSUME Len(ta_code) \in Nat, NEW j \in 0 .. Len(ta_code), NEW k \in j .. Len(ta_code),
           \A l \in j + 1 .. k : Live(l) => ~EndsBlock(ta_code[l]) /\ ta_code[l].kind # "label"
    PROVE  Blocks[j].blks = Blocks[k].blks
<1> DEFINE n == Len(ta_code)
           P == {d \in 0 .. k - j : Blocks[j].blks = Blocks[j + d].blks}
<1>0. \A l \in 0 .. n : Blocks[l].blks \in Nat /\ Blocks[l] \in BlockStates
  BY BlocksAre DEF BlockStates
<1>1. 0 \in P
  BY <1>0
<1>2. ASSUME NEW d \in 1 .. k - j, d - 1 \in P PROVE d \in P
  <2>1. j + d \in 1 .. n /\ j + d - 1 = j + (d - 1) /\ j + d - 1 \in 0 .. n /\ j + d \in j + 1 .. k
    OBVIOUS
  <2>2. PICK i : i = ta_code[j + d]
    OBVIOUS
  <2>3. Blocks[j + d] = BlockStep(i, Blocks[j + d - 1])
    BY <2>1, <2>2, BlocksAre
  <2>4. i.dead \/ (~EndsBlock(i) /\ i.kind # "label")
    BY <2>1, <2>2 DEF Live
  <2>5. Blocks[j + d - 1].blks = Blocks[j + d].blks
    BY <1>0, <2>1, <2>3, <2>4, BlockStepIs
  <2>6. QED BY <1>2, <2>1, <2>5
<1>3. 0 .. k - j \subseteq P
  <2> HIDE DEF P
  <2>1. k - j \in Nat
    OBVIOUS
  <2>2. QED BY <1>1, <1>2, <2>1, Upwards
<1>4. k - j \in P
  <2>1. k - j \in 0 .. k - j
    OBVIOUS
  <2> HIDE DEF P
  <2>2. QED BY <1>3, <2>1
<1>5. j + (k - j) = k
  OBVIOUS
<1>6. QED BY <1>4, <1>5

\* Dead instructions change nothing.
LEMMA DeadStay ==
    ASSUME Len(ta_code) \in Nat, NEW j \in 0 .. Len(ta_code), NEW k \in j .. Len(ta_code),
           \A l \in j + 1 .. k : ta_code[l].dead
    PROVE  Blocks[j].incremented <=> Blocks[k].incremented
<1> DEFINE n == Len(ta_code)
           P == {d \in 0 .. k - j : Blocks[j].incremented <=> Blocks[j + d].incremented}
<1>0. \A l \in 0 .. n : Blocks[l] \in BlockStates
  BY BlocksAre DEF BlockStates
<1>1. 0 \in P
  BY <1>0
<1>2. ASSUME NEW d \in 1 .. k - j, d - 1 \in P PROVE d \in P
  <2>1. j + d \in 1 .. n /\ j + d - 1 = j + (d - 1) /\ j + d - 1 \in 0 .. n /\ j + d \in j + 1 .. k
    OBVIOUS
  <2>2. PICK i : i = ta_code[j + d]
    OBVIOUS
  <2>3. Blocks[j + d] = BlockStep(i, Blocks[j + d - 1])
    BY <2>1, <2>2, BlocksAre
  <2>4. i.dead
    BY <2>1, <2>2
  <2>5. Blocks[j + d - 1].incremented <=> Blocks[j + d].incremented
    BY <1>0, <2>1, <2>3, <2>4, BlockStepIs
  <2>6. QED BY <1>2, <2>1, <2>5
<1>3. 0 .. k - j \subseteq P
  <2> HIDE DEF P
  <2>1. k - j \in Nat
    OBVIOUS
  <2>2. QED BY <1>1, <1>2, <2>1, Upwards
<1>4. k - j \in P
  <2>1. k - j \in 0 .. k - j
    OBVIOUS
  <2> HIDE DEF P
  <2>2. QED BY <1>3, <2>1
<1>5. j + (k - j) = k
  OBVIOUS
<1>6. QED BY <1>4, <1>5

LEMMA BlocksBound ==
    ASSUME Len(ta_code) \in Nat
    PROVE  \A k \in 0 .. Len(ta_code) : Blocks[k].blks <= k + 1
<1> DEFINE n == Len(ta_code)
           P == {k \in 0 .. n : Blocks[k].blks <= k + 1}
<1>0. \A l \in 0 .. n : Blocks[l].blks \in Nat /\ Blocks[l] \in BlockStates
  BY BlocksAre DEF BlockStates
<1>1. 0 \in P
  BY BlocksAre DEF FirstBlock
<1>2. ASSUME NEW k \in 1 .. n, k - 1 \in P PROVE k \in P
  <2>1. k - 1 \in 0 .. n /\ k \in 0 .. n
    OBVIOUS
  <2>2. PICK i : i = ta_code[k]
    OBVIOUS
  <2>3. Blocks[k] = BlockStep(i, Blocks[k - 1])
    BY <2>2, BlocksAre
  <2>4. Blocks[k].blks <= Blocks[k - 1].blks + 1
    BY <1>0, <2>1, <2>3, BlockStepIs
  <2>5. QED BY <1>0, <1>2, <2>1, <2>4
<1>3. 0 .. n \subseteq P
  <2> HIDE DEF P
  <2>1. QED BY <1>1, <1>2, Upwards
<1>4. QED BY <1>3

\* What a live instruction's number is, by the turns around it.
LEMMA LiveNumber ==
    ASSUME Len(ta_code) \in Nat, NEW k \in 1 .. Len(ta_code), Live(k)
    PROVE  /\ Blocks[k].bb_no \in Nat /\ Blocks[k].blks \in Nat /\ Blocks[k - 1].blks \in Nat
           /\ Blocks[k - 1].blks <= Blocks[k].bb_no /\ Blocks[k].bb_no <= Blocks[k].blks
           /\ EndsBlock(ta_code[k]) => Blocks[k].bb_no = Blocks[k].blks - 1
           /\ ~EndsBlock(ta_code[k]) => Blocks[k].bb_no = Blocks[k].blks
           /\ Blocks[k].incremented <=> EndsBlock(ta_code[k])
           /\ ta_code[k].kind # "label" => Blocks[k].bb_no = Blocks[k - 1].blks
           /\ ta_code[k].kind = "label" /\ ~Blocks[k - 1].incremented
              => Blocks[k].bb_no = Blocks[k - 1].blks + 1
<1>1. k - 1 \in 0 .. Len(ta_code) /\ k \in 0 .. Len(ta_code)
  OBVIOUS
<1>2. Blocks[k - 1] \in BlockStates /\ Blocks[k] \in BlockStates
  BY <1>1, BlocksAre
<1>3. Blocks[k].bb_no \in Nat /\ Blocks[k].blks \in Nat /\ Blocks[k - 1].blks \in Nat
  BY <1>2 DEF BlockStates
<1>4. PICK i : i = ta_code[k]
  OBVIOUS
<1>5. Blocks[k] = BlockStep(i, Blocks[k - 1]) /\ ~i.dead
  BY <1>4, BlocksAre DEF Live
<1>6. i.kind = "label" => ~EndsBlock(i)
  BY DEF EndsBlock
<1>7. CASE i.kind = "label" /\ ~Blocks[k - 1].incremented
  <2>1. /\ Blocks[k].blks = Blocks[k - 1].blks + 1 /\ ~Blocks[k].incremented
        /\ Blocks[k].bb_no = Blocks[k - 1].blks + 1
    BY <1>2, <1>5, <1>7, BlockStepIs
  <2>2. QED BY <1>3, <1>4, <1>6, <1>7, <2>1
<1>8. CASE i.kind # "label" \/ Blocks[k - 1].incremented
  <2>1. /\ Blocks[k].bb_no = Blocks[k - 1].blks /\ (Blocks[k].incremented <=> EndsBlock(i))
        /\ Blocks[k].blks = IF EndsBlock(i) THEN Blocks[k - 1].blks + 1 ELSE Blocks[k - 1].blks
    BY <1>2, <1>5, <1>8, BlockStepIs
  <2>2. QED BY <1>3, <1>4, <1>8, <2>1
<1>9. QED BY <1>7, <1>8

\* The numbers of live instructions never fall; what ends a block is the last
\* of it; and what control can only fall through is one block.
InOrder(b) ==
    \A k, m \in 1 .. Len(ta_code) :
        k < m /\ Live(k) /\ Live(m) =>
            b[k] <= b[m] /\ (EndsBlock(ta_code[k]) => b[k] < b[m])

Joined(b) ==
    \A k, m \in 1 .. Len(ta_code) :
        /\ k < m /\ Live(k) /\ Live(m)
        /\ \A l \in k .. m - 1 : Live(l) => ~EndsBlock(ta_code[l])
        /\ \A l \in k + 1 .. m : Live(l) => ta_code[l].kind # "label"
        => b[k] = b[m]

Straight(b) ==
    \A k, m \in 1 .. Len(ta_code) :
        (k < m /\ Live(k) /\ Live(m) /\ \A j \in k + 1 .. m - 1 : ta_code[j].dead)
        => (b[k] = b[m] <=> ~EndsBlock(ta_code[k]) /\ ta_code[m].kind # "label")

Numbers == [k \in 1 .. Len(ta_code) |-> Blocks[k].bb_no]

LEMMA NumbersInOrder == ASSUME Len(ta_code) \in Nat PROVE InOrder(Numbers)
<1> SUFFICES ASSUME NEW k \in 1 .. Len(ta_code), NEW m \in 1 .. Len(ta_code),
                    k < m, Live(k), Live(m)
             PROVE  /\ Numbers[k] <= Numbers[m]
                    /\ EndsBlock(ta_code[k]) => Numbers[k] < Numbers[m]
  BY DEF InOrder
<1>1. k \in 0 .. Len(ta_code) /\ m - 1 \in k .. Len(ta_code)
  OBVIOUS
<1>2. Blocks[k].blks <= Blocks[m - 1].blks
  BY <1>1, BlocksGrow
<1>3. Numbers[k] = Blocks[k].bb_no /\ Numbers[m] = Blocks[m].bb_no
  BY DEF Numbers
<1>4. QED BY SMTT(30), <1>2, <1>3, LiveNumber

LEMMA NumbersJoined == ASSUME Len(ta_code) \in Nat PROVE Joined(Numbers)
<1> SUFFICES ASSUME NEW k \in 1 .. Len(ta_code), NEW m \in 1 .. Len(ta_code),
                    k < m, Live(k), Live(m),
                    \A l \in k .. m - 1 : Live(l) => ~EndsBlock(ta_code[l]),
                    \A l \in k + 1 .. m : Live(l) => ta_code[l].kind # "label"
             PROVE  Numbers[k] = Numbers[m]
  BY DEF Joined
<1>1. k \in 0 .. Len(ta_code) /\ m - 1 \in k .. Len(ta_code)
  OBVIOUS
<1>2. \A l \in k + 1 .. m - 1 : Live(l) => ~EndsBlock(ta_code[l]) /\ ta_code[l].kind # "label"
  OBVIOUS
<1>3. Blocks[k].blks = Blocks[m - 1].blks
  BY <1>1, <1>2, BlocksStay
<1>4. ~EndsBlock(ta_code[k]) /\ ta_code[m].kind # "label"
  <2>1. k \in k .. m - 1 /\ m \in k + 1 .. m
    OBVIOUS
  <2>2. QED BY <2>1
<1>5. Numbers[k] = Blocks[k].bb_no /\ Numbers[m] = Blocks[m].bb_no
  BY DEF Numbers
<1>6. QED BY <1>3, <1>4, <1>5, LiveNumber

LEMMA NumbersStraight == ASSUME Len(ta_code) \in Nat PROVE Straight(Numbers)
<1> SUFFICES ASSUME NEW k \in 1 .. Len(ta_code), NEW m \in 1 .. Len(ta_code),
                    k < m, Live(k), Live(m), \A j \in k + 1 .. m - 1 : ta_code[j].dead
             PROVE  Numbers[k] = Numbers[m]
                    <=> ~EndsBlock(ta_code[k]) /\ ta_code[m].kind # "label"
  BY DEF Straight
<1>1. k \in 0 .. Len(ta_code) /\ m - 1 \in k .. Len(ta_code)
  OBVIOUS
<1>2. Numbers[k] = Blocks[k].bb_no /\ Numbers[m] = Blocks[m].bb_no
  BY DEF Numbers
<1>3. Blocks[k].blks = Blocks[m - 1].blks
  BY <1>1, BlocksStay DEF Live
<1>4. Blocks[k].incremented <=> Blocks[m - 1].incremented
  BY <1>1, DeadStay
<1>5. QED BY <1>2, <1>3, <1>4, LiveNumber

LEMMA NumbersType ==
    ASSUME ta_code \in Seq(Instr), Len(ta_code) <= MaxCode
    PROVE  Numbers \in Seq(0 .. MaxCode + 1)
<1>1. Len(ta_code) \in Nat /\ MaxCode \in Nat
  BY NextUseAssumption
<1>2. ASSUME NEW k \in 1 .. Len(ta_code) PROVE Blocks[k].bb_no \in 0 .. MaxCode + 1
  <2>1. k \in 0 .. Len(ta_code)
    BY <1>1
  <2>2. Blocks[k] \in BlockStates /\ Blocks[k].blks <= k + 1
    BY <1>1, <2>1, BlocksAre, BlocksBound
  <2>3. CASE Live(k)
    BY <1>1, <2>2, <2>3, LiveNumber
  <2>4. CASE ~Live(k)
    <3>1. PICK i : i = ta_code[k] /\ i.dead
      BY <2>4 DEF Live
    <3>2. k - 1 \in 0 .. Len(ta_code)
      BY <1>1
    <3>3. Blocks[k] = BlockStep(i, Blocks[k - 1]) /\ Blocks[k - 1] \in BlockStates
      BY <1>1, <3>1, <3>2, BlocksAre
    <3>4. Blocks[k].bb_no = 0
      BY <3>1, <3>3, BlockStepIs
    <3>5. QED BY <1>1, <3>4
  <2>5. QED BY <2>3, <2>4
<1>3. Numbers \in [1 .. Len(ta_code) -> 0 .. MaxCode + 1]
  BY <1>2 DEF Numbers
<1>4. QED BY <1>1, <1>3

(***************************************************************************)
(* Temporaries.  A live instruction reads one only after another has       *)
(* written it, with no boundary of a block between the two.                *)
(***************************************************************************)

Boundary(i) == EndsBlock(i) \/ i.kind = "label"

Writer(c, n, k) ==
    \E j \in 1 .. k : /\ ~c[j].dead /\ n \in Writes(c[j])
                      /\ \A l \in j .. k : ~c[l].dead => ~Boundary(c[l])

Defined(c) ==
    \A k \in 1 .. Len(c) : ~c[k].dead =>
        \A n \in Reads(c[k]) \cap Temps : Writer(c, n, k - 1)

WrittenStep(i, w) ==
    IF i.dead THEN w
    ELSE IF EndsBlock(i) \/ i.kind = "label" THEN {}
    ELSE w \cup (Writes(i) \cap Temps)

LEMMA WrittenIs ==
    ASSUME Len(ta_code) \in Nat
    PROVE  /\ Written[0] = {}
           /\ \A k \in 1 .. Len(ta_code) : Written[k] = WrittenStep(ta_code[k], Written[k - 1])
<1> DEFINE n == Len(ta_code)
           S == SUBSET Temps
           D == [k \in 1 .. n |-> [w \in S |-> WrittenStep(ta_code[k], w)]]
<1>1. D \in [1 .. n -> [S -> S]]
  BY DEF WrittenStep
<1>2. {} \in S
  OBVIOUS
<1>3. PICK g \in [0 .. n -> S] : Follows(g, {}, D, n)
  <2> HIDE DEF D, S
  <2>1. QED BY <1>1, <1>2, Recursion
<1>4. ASSUME NEW k \in 1 .. n PROVE k - 1 \in 0 .. n /\ g[k] = WrittenStep(ta_code[k], g[k - 1])
  <2>1. k - 1 \in 0 .. n /\ g[k - 1] \in S
    OBVIOUS
  <2>2. g[k] = D[k][g[k - 1]]
    BY <1>3 DEF Follows
  <2>3. QED BY <2>1, <2>2
<1>5. g = [k \in 0 .. n |-> IF k = 0 THEN {} ELSE WrittenStep(ta_code[k], g[k - 1])]
  BY <1>3, <1>4 DEF Follows
<1> HIDE DEF D
<1>6. Written = [k \in 0 .. n |-> IF k = 0 THEN {} ELSE WrittenStep(ta_code[k], Written[k - 1])]
  BY <1>5, Zenon DEF Written, WrittenStep
<1>7. 0 \in 0 .. n /\ \A k \in 1 .. n : k \in 0 .. n /\ k # 0
  OBVIOUS
<1> HIDE DEF S, n
<1>8. Written[0] = {} /\ \A k \in 1 .. n : Written[k] = WrittenStep(ta_code[k], Written[k - 1])
  BY <1>6, <1>7
<1>9. QED BY <1>8 DEF n

LEMMA WrittenHasWriter ==
    ASSUME Len(ta_code) \in Nat, NEW n \in Written[Len(ta_code)]
    PROVE  Writer(ta_code, n, Len(ta_code))
<1> DEFINE P == {k \in 0 .. Len(ta_code) : n \in Written[k] => Writer(ta_code, n, k)}
<1>1. 0 \in P
  BY WrittenIs
<1>2. ASSUME NEW k \in 1 .. Len(ta_code), k - 1 \in P PROVE k \in P
  <2>1. SUFFICES ASSUME n \in Written[k] PROVE Writer(ta_code, n, k)
    OBVIOUS
  <2>2. PICK i : i = ta_code[k]
    OBVIOUS
  <2>3. n \in WrittenStep(i, Written[k - 1])
    BY <2>1, <2>2, WrittenIs
  <2>4. i.dead \/ ~Boundary(i)
    BY <2>3 DEF WrittenStep, Boundary
  <2>5. CASE n \in Written[k - 1]
    <3>1. PICK j \in 1 .. k - 1 :
             /\ ~ta_code[j].dead /\ n \in Writes(ta_code[j])
             /\ \A l \in j .. k - 1 : ~ta_code[l].dead => ~Boundary(ta_code[l])
      BY <1>2, <2>5 DEF Writer
    <3>2. \A l \in j .. k : ~ta_code[l].dead => ~Boundary(ta_code[l])
      BY <2>2, <2>4, <3>1
    <3>3. j \in 1 .. k
      OBVIOUS
    <3>4. QED BY <3>1, <3>2, <3>3 DEF Writer
  <2>6. CASE n \notin Written[k - 1]
    <3>1. ~i.dead /\ n \in Writes(i)
      BY <2>3, <2>6 DEF WrittenStep
    <3>2. \A l \in k .. k : ~ta_code[l].dead => ~Boundary(ta_code[l])
      BY <2>2, <2>4, <3>1
    <3>3. k \in 1 .. k
      OBVIOUS
    <3>4. QED BY <2>2, <3>1, <3>2, <3>3 DEF Writer
  <2>7. QED BY <2>5, <2>6
<1>3. 0 .. Len(ta_code) \subseteq P
  <2> HIDE DEF P
  <2>1. QED BY <1>1, <1>2, Upwards
<1>4. Len(ta_code) \in P
  <2>1. Len(ta_code) \in 0 .. Len(ta_code)
    OBVIOUS
  <2> HIDE DEF P
  <2>2. QED BY <1>3, <2>1
<1>5. QED BY <1>4

\* Emit appends an instruction that reads what has been written.
LEMMA DefinedMore ==
    ASSUME ta_code \in Seq(Instr), Defined(ta_code), NEW i \in Instr,
           ~i.dead => Reads(i) \cap Temps \subseteq Written[Len(ta_code)],
           NEW c, c = Append(ta_code, i)
    PROVE  Defined(c)
<1>1. /\ Len(ta_code) \in Nat /\ Len(c) = Len(ta_code) + 1 /\ c[Len(ta_code) + 1] = i
      /\ \A k \in 1 .. Len(ta_code) : c[k] = ta_code[k]
  OBVIOUS
<1>2. ASSUME NEW n, NEW k \in 0 .. Len(ta_code), Writer(ta_code, n, k) PROVE Writer(c, n, k)
  <2>1. PICK j \in 1 .. k : /\ ~ta_code[j].dead /\ n \in Writes(ta_code[j])
                            /\ \A l \in j .. k : ~ta_code[l].dead => ~Boundary(ta_code[l])
    BY <1>2 DEF Writer
  <2>2. \A l \in j .. k : c[l] = ta_code[l]
    BY <1>1
  <2>3. c[j] = ta_code[j]
    BY <1>1
  <2>4. QED BY <2>1, <2>2, <2>3 DEF Writer
<1>3. ASSUME NEW k \in 1 .. Len(c), ~c[k].dead, NEW n \in Reads(c[k]) \cap Temps
      PROVE  Writer(c, n, k - 1)
  <2>1. k - 1 \in 0 .. Len(ta_code)
    BY <1>1
  <2>2. CASE k = Len(ta_code) + 1
    <3>1. c[k] = i /\ k - 1 = Len(ta_code)
      BY <1>1, <2>2
    <3>2. n \in Written[Len(ta_code)]
      BY <1>3, <3>1
    <3>3. Writer(ta_code, n, k - 1)
      BY <1>1, <3>1, <3>2, WrittenHasWriter
    <3>4. QED BY <1>2, <2>1, <3>3
  <2>3. CASE k # Len(ta_code) + 1
    <3>1. k \in 1 .. Len(ta_code) /\ c[k] = ta_code[k]
      BY <1>1, <2>3
    <3>2. Writer(ta_code, n, k - 1)
      BY <1>3, <3>1 DEF Defined
    <3>3. QED BY <1>2, <2>1, <3>2
  <2>4. QED BY <2>2, <2>3
<1>4. QED BY <1>3 DEF Defined

(***************************************************************************)
(* Accesses and their times.                                               *)
(***************************************************************************)

Formed == \A k \in 1 .. Len(ta_code) : WellFormed(ta_code[k])

LEMMA Times ==
    ASSUME NEW k \in Int
    PROVE  Time(<<k, "arg2">>) = 3 * k /\ Time(<<k, "arg1">>) = 3 * k + 1 /\ Time(<<k, "result">>) = 3 * k + 2
BY DEF Time

LEMMA TimesOrdered ==
    ASSUME NEW p \in Int \X Slots, NEW q \in Int \X Slots
    PROVE  /\ Time(p) \in Int /\ Time(q) \in Int
           /\ 3 * p[1] <= Time(p) /\ Time(p) < 3 * p[1] + 3
           /\ p[1] < q[1] => Time(p) < Time(q)
           /\ Time(p) < Time(q) => p[1] <= q[1]
           /\ Time(p) = Time(q) => p = q
<1>1. ASSUME NEW o \in Int \X Slots
      PROVE  /\ o = <<o[1], o[2]>> /\ o[1] \in Int
             /\ \/ o[2] = "arg2" /\ Time(o) = 3 * o[1]
                \/ o[2] = "arg1" /\ Time(o) = 3 * o[1] + 1
                \/ o[2] = "result" /\ Time(o) = 3 * o[1] + 2
  BY DEF Time, Slots
<1>2. p[1] \in Int /\ q[1] \in Int
  OBVIOUS
<1>3. Time(p) = Time(q) => p[1] = q[1] /\ p[2] = q[2]
  BY <1>1, <1>2
<1>4. QED BY <1>1, <1>2, <1>3

\* An access of id in block b, no earlier than time t.
Accesses(id, b, t) == {p \in AccessesOf(id) : bb_no[p[1]] = b /\ t <= Time(p)}

LEMMA AccessIs ==
    ASSUME ta_code \in Seq(Instr), NEW id, NEW p \in AccessesOf(id)
    PROVE  /\ p \in Int \X Slots /\ p[1] \in 1 .. Len(ta_code) /\ p[2] \in Slots /\ p = <<p[1], p[2]>>
           /\ Live(p[1]) /\ ta_code[p[1]][p[2]] = id
           /\ Time(p) \in Int
<1>1. DOMAIN ta_code = 1 .. Len(ta_code) /\ Len(ta_code) \in Nat
  OBVIOUS
<1>2. p \in (1 .. Len(ta_code)) \X Slots /\ ~ta_code[p[1]].dead /\ ta_code[p[1]][p[2]] = id
  BY <1>1 DEF AccessesOf
<1>3. p \in Int \X Slots /\ p[1] \in 1 .. Len(ta_code) /\ p[2] \in Slots /\ p = <<p[1], p[2]>>
  BY <1>1, <1>2
<1>4. QED BY <1>2, <1>3, TimesOrdered DEF Live

LEMMA IsAccess ==
    ASSUME ta_code \in Seq(Instr), NEW k \in 1 .. Len(ta_code), NEW s \in Slots, Live(k)
    PROVE  <<k, s>> \in AccessesOf(ta_code[k][s])
<1>1. DOMAIN ta_code = 1 .. Len(ta_code)
  OBVIOUS
<1>2. QED BY <1>1 DEF AccessesOf, Live

\* What an entry of the table, or a pair, says of id's accesses from time t on.
First(id, b, t, q) == q \in Accesses(id, b, t) /\ \A o \in Accesses(id, b, t) : Time(q) <= Time(o)

Says(info, id, b, t) ==
    \/ /\ Accesses(id, b, t) = {}
       /\ info = [alive |-> id \in Vars, next_use |-> Null]
    \/ \E q \in Accesses(id, b, t) :
              /\ First(id, b, t, q)
              /\ info = IF IsRead(q) THEN [alive |-> TRUE, next_use |-> q]
                                     ELSE [alive |-> FALSE, next_use |-> Null]

Describes(table, b, t) == \A id \in Ids : Says(table[id], id, b, t)

PairRight(info, k, s) ==
    \E raw \in Info :
             /\ Says(raw, ta_code[k][s], bb_no[k], Time(<<k, s>>) + 1)
             /\ info = IF ta_code[k].kind = "return" THEN [raw EXCEPT !.alive = TRUE] ELSE raw

LEMMA IdsAreNot == NoAddr \notin Ids /\ (\A n \in Ids : n \notin Temps <=> n \in Vars)
BY NextUseAssumption DEF Ids

\* Only a result that is not a store's pointer is written.
LEMMA ReadOrWritten ==
    ASSUME ta_code \in Seq(Instr), Formed, NEW k \in 1 .. Len(ta_code), NEW s \in Slots,
           ta_code[k][s] # NoAddr
    PROVE  IsRead(<<k, s>>) <=> ~(s = "result" /\ ta_code[k].kind # "()s")
<1>1. PICK i \in Instr : i = ta_code[k] /\ WellFormed(i)
  BY DEF Formed
<1>2. CASE s # "result"
  BY <1>2 DEF IsRead
<1>3. CASE s = "result"
  <2>1. i.result # NoAddr
    BY <1>1, <1>3
  <2>2. i.kind \in {"quad", "()s", "call"}
    BY <1>1, <2>1 DEF WellFormed, Instr, Kinds
  <2>3. IsRead(<<k, s>>) <=> Writes(i) = {}
    BY <1>1, <1>3 DEF IsRead
  <2>4. Writes(i) = {} <=> i.kind = "()s"
    BY <2>1, <2>2 DEF Writes
  <2>5. QED BY <1>1, <1>3, <2>3, <2>4
<1>4. QED BY <1>2, <1>3

(***************************************************************************)
(* One operand of create_next_use_info.                                    *)
(***************************************************************************)

VisitStates == [table : [Ids -> Info], pairs : [Slots -> Info]]

\* The operand's own access is the only one of its time.
LEMMA OneMore ==
    ASSUME ta_code \in Seq(Instr), NEW k \in 1 .. Len(ta_code), NEW s \in Slots, Live(k),
           NEW n, NEW b, NEW t, t = Time(<<k, s>>)
    PROVE  /\ n # ta_code[k][s] => Accesses(n, b, t) = Accesses(n, b, t + 1)
           /\ n = ta_code[k][s] /\ b = bb_no[k]
              => Accesses(n, b, t) = Accesses(n, b, t + 1) \cup {<<k, s>>}
<1> DEFINE p == <<k, s>>
<1>1. p \in Int \X Slots /\ p[1] = k /\ p[2] = s
  OBVIOUS
<1>2. t \in Int
  BY <1>1, TimesOrdered
<1>3. \A o \in AccessesOf(n) : /\ Time(o) \in Int /\ (Time(o) = t => o = p)
                               /\ ta_code[o[1]][o[2]] = n
  <2> TAKE o \in AccessesOf(n)
  <2>1. o \in Int \X Slots /\ Time(o) \in Int /\ ta_code[o[1]][o[2]] = n
    BY AccessIs
  <2> HIDE DEF p
  <2>2. QED BY <1>1, <2>1, TimesOrdered DEF p
<1>4. \A o \in AccessesOf(n) : t <= Time(o) <=> (t + 1 <= Time(o) \/ o = p)
  BY <1>2, <1>3
<1>5. n # ta_code[k][s] => p \notin AccessesOf(n)
  BY <1>1, <1>3
<1>6. n = ta_code[k][s] => p \in AccessesOf(n)
  BY IsAccess
<1> HIDE DEF p
<1>7. n # ta_code[k][s] => Accesses(n, b, t) = Accesses(n, b, t + 1)
  BY <1>4, <1>5 DEF Accesses
<1>8. n = ta_code[k][s] /\ b = bb_no[k] => Accesses(n, b, t) = Accesses(n, b, t + 1) \cup {p}
  BY <1>1, <1>4, <1>6 DEF Accesses
<1>9. QED BY <1>7, <1>8 DEF p

LEMMA SaysSame ==
    ASSUME NEW info, NEW n, NEW b, NEW t, NEW u, Says(info, n, b, t),
           Accesses(n, b, u) = Accesses(n, b, t)
    PROVE  Says(info, n, b, u)
BY Zenon DEF Says, First

LEMMA VisitRight ==
    ASSUME ta_code \in Seq(Instr), Len(ta_code) <= MaxCode, Formed,
           NEW k \in 1 .. Len(ta_code), NEW s \in Slots, Live(k), NEW t, t = Time(<<k, s>>),
           NEW st \in VisitStates, Describes(st.table, bb_no[k], t + 1), NEW v, v = Visit(st, k, s)
    PROVE  /\ v \in VisitStates
           /\ Describes(v.table, bb_no[k], t)
           /\ ta_code[k][s] # NoAddr => PairRight(v.pairs[s], k, s)
           /\ \A r \in Slots \ {s} : v.pairs[r] = st.pairs[r]
<1> DEFINE id == ta_code[k][s]
           b == bb_no[k]
           p == <<k, s>>
<1>1. CASE id = NoAddr
  <2>1. v = st
    BY <1>1 DEF Visit
  <2>2. ASSUME NEW n \in Ids PROVE Says(st.table[n], n, b, t)
    <3>1. Says(st.table[n], n, b, t + 1)
      BY DEF Describes
    <3>2. Accesses(n, b, t) = Accesses(n, b, t + 1)
      BY <1>1, IdsAreNot, OneMore
    <3>3. QED BY <3>1, <3>2, SaysSame
  <2>3. QED BY <1>1, <2>1, <2>2 DEF Describes
<1>2. CASE id # NoAddr
  <2> DEFINE e == IF s = "result" /\ ta_code[k].kind # "()s"
                  THEN [alive |-> FALSE, next_use |-> Null]
                  ELSE [alive |-> TRUE, next_use |-> p]
             pair == IF ta_code[k].kind = "return" THEN [st.table[id] EXCEPT !.alive = TRUE]
                     ELSE st.table[id]
  <2>1. id \in Ids
    <3>1. ta_code[k] \in Instr
      OBVIOUS
    <3>2. QED BY <1>2, <3>1 DEF Instr, Slots, Operand
  <2>2. p \in Position
    BY NextUseAssumption DEF Position
  <2>3. e \in Info
    BY <2>2 DEF Info
  <2>4. st.table \in [Ids -> Info] /\ st.pairs \in [Slots -> Info]
    BY DEF VisitStates
  <2>5. pair \in Info
    BY <2>1, <2>4 DEF Info
  <2>6. v = [table |-> [st.table EXCEPT ![id] = e], pairs |-> [st.pairs EXCEPT ![s] = pair]]
    BY <1>2 DEF Visit
  <2>7. e = IF IsRead(p) THEN [alive |-> TRUE, next_use |-> p]
            ELSE [alive |-> FALSE, next_use |-> Null]
    BY <1>2, ReadOrWritten
  <2>8. PairRight(pair, k, s)
    BY <2>1, <2>4 DEF PairRight, Describes
  <2> HIDE DEF e, pair
  <2>9. v \in VisitStates /\ v.table = [st.table EXCEPT ![id] = e] /\ v.pairs = [st.pairs EXCEPT ![s] = pair]
    <3> DEFINE tb == [st.table EXCEPT ![id] = e]
               pr == [st.pairs EXCEPT ![s] = pair]
    <3>1. tb \in [Ids -> Info] /\ pr \in [Slots -> Info]
      BY <2>3, <2>4, <2>5
    <3>2. v = [table |-> tb, pairs |-> pr]
      BY <2>6
    <3> HIDE DEF tb, pr
    <3>3. v \in VisitStates /\ v.table = tb /\ v.pairs = pr
      BY <3>1, <3>2 DEF VisitStates
    <3>4. QED BY <3>3 DEF tb, pr
  <2>10. v.pairs[s] = pair /\ (\A r \in Slots \ {s} : v.pairs[r] = st.pairs[r])
    BY <2>4, <2>9
  <2>11. v.table[id] = e /\ (\A n \in Ids \ {id} : v.table[n] = st.table[n])
    BY <2>1, <2>4, <2>9
  <2>12. Says(e, id, b, t)
    <3>1. Accesses(id, b, t) = Accesses(id, b, t + 1) \cup {p}
      BY OneMore
    <3>2. t \in Int /\ Time(p) = t
      <4>1. p \in Int \X Slots
        OBVIOUS
      <4>2. QED BY <4>1, TimesOrdered
    <3>3. \A o \in Accesses(id, b, t + 1) : Time(p) <= Time(o)
      BY <3>2, AccessIs DEF Accesses
    <3> HIDE DEF id, b, p
    <3>4. First(id, b, t, p)
      BY <3>1, <3>2, <3>3 DEF First
    <3>5. QED BY <2>7, <3>4, Zenon DEF Says, First
  <2>13. ASSUME NEW n \in Ids PROVE Says(v.table[n], n, b, t)
    <3>1. CASE n = id
      BY <2>11, <2>12, <3>1
    <3>2. CASE n # id
      <4>1. Says(st.table[n], n, b, t + 1)
        BY DEF Describes
      <4>2. Accesses(n, b, t) = Accesses(n, b, t + 1)
        BY <3>2, OneMore
      <4>3. Says(st.table[n], n, b, t)
        BY <4>1, <4>2, SaysSame
      <4>4. QED BY <2>11, <3>2, <4>3
    <3>3. QED BY <3>1, <3>2
  <2>14. QED BY <2>8, <2>9, <2>10, <2>13 DEF Describes
<1>3. QED BY <1>1, <1>2

\* The three operands of one instruction.
LEMMA VisitsRight ==
    ASSUME ta_code \in Seq(Instr), Len(ta_code) <= MaxCode, Formed,
           NEW k \in 1 .. Len(ta_code), Live(k),
           NEW st \in VisitStates, Describes(st.table, bb_no[k], 3 * (k + 1)),
           NEW v, v = Visit(Visit(Visit(st, k, "result"), k, "arg1"), k, "arg2")
    PROVE  /\ v \in VisitStates
           /\ Describes(v.table, bb_no[k], 3 * k)
           /\ \A s \in Slots : ta_code[k][s] # NoAddr => PairRight(v.pairs[s], k, s)
<1>1. /\ Time(<<k, "result">>) = 3 * k + 2 /\ Time(<<k, "arg1">>) = 3 * k + 1
      /\ Time(<<k, "arg2">>) = 3 * k
  BY Times
<1>2. 3 * (k + 1) = (3 * k + 2) + 1 /\ 3 * k + 2 = (3 * k + 1) + 1
  OBVIOUS
<1>3. "result" \in Slots /\ "arg1" \in Slots /\ "arg2" \in Slots
  BY DEF Slots
<1>4. PICK u : u = Visit(st, k, "result")
  OBVIOUS
<1>5. PICK w : w = Visit(u, k, "arg1")
  OBVIOUS
<1>6. /\ u \in VisitStates /\ Describes(u.table, bb_no[k], 3 * k + 2)
      /\ ta_code[k]["result"] # NoAddr => PairRight(u.pairs["result"], k, "result")
  BY <1>1, <1>2, <1>3, <1>4, VisitRight
<1>7. /\ w \in VisitStates /\ Describes(w.table, bb_no[k], 3 * k + 1)
      /\ ta_code[k]["arg1"] # NoAddr => PairRight(w.pairs["arg1"], k, "arg1")
      /\ \A r \in Slots \ {"arg1"} : w.pairs[r] = u.pairs[r]
  BY <1>1, <1>2, <1>3, <1>5, <1>6, VisitRight
<1>8. v = Visit(w, k, "arg2")
  BY <1>4, <1>5
<1>9. /\ v \in VisitStates /\ Describes(v.table, bb_no[k], 3 * k)
      /\ ta_code[k]["arg2"] # NoAddr => PairRight(v.pairs["arg2"], k, "arg2")
      /\ \A r \in Slots \ {"arg2"} : v.pairs[r] = w.pairs[r]
  <2>1. PICK t : t = Time(<<k, "arg2">>)
    OBVIOUS
  <2>0. t = 3 * k
    BY <1>1, <2>1
  <2>2. Describes(w.table, bb_no[k], t + 1)
    BY <1>7, <2>0
  <2>3. w \in VisitStates /\ "arg2" \in Slots
    BY <1>3, <1>7
  <2>4. /\ v \in VisitStates /\ Describes(v.table, bb_no[k], t)
        /\ ta_code[k]["arg2"] # NoAddr => PairRight(v.pairs["arg2"], k, "arg2")
        /\ \A r \in Slots \ {"arg2"} : v.pairs[r] = w.pairs[r]
    BY <1>8, <2>1, <2>2, <2>3, VisitRight
  <2>5. QED BY <2>0, <2>4
<1>10. /\ v.pairs["arg1"] = w.pairs["arg1"]
       /\ v.pairs["result"] = u.pairs["result"]
  BY <1>3, <1>7, <1>9
<1>11. QED BY <1>6, <1>7, <1>9, <1>10 DEF Slots

\* A block that has no later instruction is described by the initial table.
LEMMA ResetRight ==
    ASSUME ta_code \in Seq(Instr), NEW k \in Nat, NEW b,
           \A m \in k + 1 .. Len(ta_code) : Live(m) => bb_no[m] # b
    PROVE  Describes(InitInfo, b, 3 * (k + 1))
<1> SUFFICES ASSUME NEW n \in Ids PROVE Says(InitInfo[n], n, b, 3 * (k + 1))
  BY DEF Describes
<1>1. ASSUME NEW o \in Accesses(n, b, 3 * (k + 1)) PROVE FALSE
  <2>1. o \in AccessesOf(n) /\ bb_no[o[1]] = b /\ 3 * (k + 1) <= Time(o)
    BY DEF Accesses
  <2>2. /\ o \in Int \X Slots /\ o[1] \in 1 .. Len(ta_code) /\ Live(o[1])
        /\ Time(o) \in Int /\ Time(o) < 3 * o[1] + 3
    BY <2>1, AccessIs, TimesOrdered
  <2>3. o[1] \in k + 1 .. Len(ta_code)
    BY <2>1, <2>2
  <2>4. QED BY <2>1, <2>2, <2>3
<1>2. Accesses(n, b, 3 * (k + 1)) = {}
  BY <1>1
<1>3. InitInfo[n] = [alive |-> n \in Vars, next_use |-> Null]
  BY DEF InitInfo
<1>4. QED BY <1>2, <1>3 DEF Says

\* A dead instruction accesses nothing.
LEMMA SkipRight ==
    ASSUME ta_code \in Seq(Instr), NEW k \in 1 .. Len(ta_code), ~Live(k),
           NEW table, NEW b, Describes(table, b, 3 * (k + 1))
    PROVE  Describes(table, b, 3 * k)
<1> SUFFICES ASSUME NEW n \in Ids PROVE Says(table[n], n, b, 3 * k)
  BY DEF Describes
<1>1. ASSUME NEW o \in AccessesOf(n) PROVE 3 * k <= Time(o) <=> 3 * (k + 1) <= Time(o)
  <2>1. /\ o \in Int \X Slots /\ o[1] \in 1 .. Len(ta_code) /\ Live(o[1])
        /\ Time(o) \in Int /\ 3 * o[1] <= Time(o) /\ Time(o) < 3 * o[1] + 3
    BY AccessIs, TimesOrdered
  <2>2. o[1] # k
    BY <2>1
  <2>3. QED BY <2>1, <2>2
<1>2. Accesses(n, b, 3 * k) = Accesses(n, b, 3 * (k + 1))
  BY <1>1 DEF Accesses
<1>3. QED BY <1>2, SaysSame DEF Describes

\* What is said of accesses depends on the code and its numbers only.
LEMMA SameAccesses ==
    ASSUME UNCHANGED <<ta_code, bb_no>>, NEW n
    PROVE  /\ AccessesOf(n)' = AccessesOf(n)
           /\ \A b, t : Accesses(n, b, t)' = Accesses(n, b, t)
           /\ \A q : IsRead(q)' <=> IsRead(q)
<1>1. AccessesOf(n)' = AccessesOf(n)
  BY DEF AccessesOf
<1>2. \A b, t : Accesses(n, b, t)' = Accesses(n, b, t)
  BY <1>1 DEF Accesses
<1>3. \A q : IsRead(q)' <=> IsRead(q)
  BY DEF IsRead
<1>4. QED BY <1>1, <1>2, <1>3

LEMMA SameSays ==
    ASSUME UNCHANGED <<ta_code, bb_no>>, NEW n, NEW info, NEW b, NEW t
    PROVE  Says(info, n, b, t)' <=> Says(info, n, b, t)
<1>1. \A q : First(n, b, t, q)' <=> First(n, b, t, q)
  BY SameAccesses DEF First
<1>2. QED BY <1>1, SameAccesses DEF Says

LEMMA SamePair ==
    ASSUME UNCHANGED <<ta_code, bb_no>>, NEW info, NEW k, NEW s
    PROVE  PairRight(info, k, s)' <=> PairRight(info, k, s)
<1>1. \A raw, t : Says(raw, ta_code[k][s], bb_no[k], t)' <=> Says(raw, ta_code[k][s], bb_no[k], t)
  BY SameSays
<1>2. QED BY <1>1 DEF PairRight

(***************************************************************************)
(* The generator.  Now is its place among the times, Passed are the        *)
(* accesses it has been handed, and a block is open while instructions of  *)
(* it are left.                                                            *)
(***************************************************************************)

Now == 3 * at + [arg2 |-> 0, arg1 |-> 1, result |-> 2, end |-> 3][slot]

Passed(n) == {p \in AccessesOf(n) : Time(p) < Now}

Open(p) == \E m \in at .. Len(ta_code) : Live(m) /\ bb_no[m] = bb_no[p[1]]

Latest(n, p) == p \in Passed(n) /\ \A o \in Passed(n) : Time(o) <= Time(p)

\* fate is the flag of the id's last access in the open block.
Promised(n) ==
    \/ fate[n] = BlockStart[n] /\ \A p \in Passed(n) : ~Open(p)
    \/ \E p \in Passed(n) : Latest(n, p) /\ Open(p) /\ fate[n] = Flag(operands[p[1]][p[2]])

\* The operand of a return has been handed over, and the block closed with it.
Returned ==
    /\ at <= Len(ta_code) /\ Live(at) /\ ta_code[at].kind = "return"
    /\ ta_code[at].arg1 # NoAddr /\ slot \in {"result", "end"}

Handed == IF Returned THEN fate = BlockStart ELSE \A n \in Ids : Promised(n)

(***************************************************************************)
(* The inductive invariant, by phases.                                     *)
(***************************************************************************)

Numbered == Len(bb_no) = Len(ta_code) /\ InOrder(bb_no) /\ Joined(bb_no) /\ Straight(bb_no)

PairsDone(from) ==
    \A k \in from .. Len(ta_code) : Live(k) =>
        \A s \in Slots : ta_code[k][s] # NoAddr => PairRight(operands[k][s], k, s)

\* The table describes what follows in basic_blk, and no other block continues.
Walked ==
    /\ Describes(tac_info_table, basic_blk, 3 * (at + 1))
    /\ \A k \in 1 .. at, m \in at + 1 .. Len(ta_code) :
          Live(k) /\ Live(m) /\ bb_no[k] = bb_no[m] => bb_no[k] = basic_blk

IInv ==
    /\ TypeOK /\ Formed /\ Defined(ta_code)
    /\ phase # "gen" => fate = BlockStart /\ slot = "arg2"
    /\ phase = "emit" => tac_info_table = InitInfo
    /\ phase # "emit" => Numbered
    /\ phase = "uses" => at <= Len(ta_code) /\ PairsDone(at + 1) /\ Walked
    /\ phase = "gen" => at \in 1 .. Len(ta_code) + 1 /\ PairsDone(1) /\ Handed

LEMMA InitIInv == Init => IInv
<1> SUFFICES ASSUME Init PROVE IInv
  OBVIOUS
<1>1. /\ ta_code = <<>> /\ bb_no = <<>> /\ operands = <<>> /\ tac_info_table = InitInfo
      /\ basic_blk = 0 /\ phase = "emit" /\ at = 0 /\ slot = "arg2" /\ fate = BlockStart
  BY DEF Init
<1>2. Len(ta_code) = 0 /\ MaxCode \in Nat
  BY <1>1, NextUseAssumption
<1>3. InitInfo \in [Ids -> Info]
  BY DEF InitInfo, Info
<1>4. BlockStart \in [Ids -> {"in", "next", "out", "dead"}]
  BY DEF BlockStart
<1>5. ta_code \in Seq(Instr) /\ bb_no \in Seq(0 .. MaxCode + 1) /\ operands \in Seq([Slots -> Info])
  BY <1>1
<1>6. TypeOK
  BY <1>1, <1>2, <1>3, <1>4, <1>5 DEF TypeOK, Slots
<1>7. Formed /\ Defined(ta_code)
  BY <1>2 DEF Formed, Defined
<1>8. QED BY <1>1, <1>6, <1>7 DEF IInv

LEMMA EmitIInv == ASSUME IInv, NEW i \in Instr, Emit(i) PROVE IInv'
<1>1. /\ phase = "emit" /\ Len(ta_code) < MaxCode /\ WellFormed(i)
      /\ ~i.dead => Reads(i) \cap Temps \subseteq Written[Len(ta_code)]
      /\ ta_code' = Append(ta_code, i) /\ operands' = Append(operands, NoOperands)
      /\ UNCHANGED <<bb_no, tac_info_table, basic_blk, phase, at, slot, fate>>
  BY DEF Emit
<1>2. /\ TypeOK /\ Formed /\ Defined(ta_code) /\ fate = BlockStart /\ slot = "arg2"
      /\ tac_info_table = InitInfo
  BY <1>1 DEF IInv
<1>3. ta_code \in Seq(Instr) /\ operands \in Seq([Slots -> Info]) /\ Len(operands) = Len(ta_code)
  BY <1>2 DEF TypeOK
<1>4. NoOperands \in [Slots -> Info]
  BY DEF NoOperands, Info
<1>5. /\ ta_code' \in Seq(Instr) /\ Len(ta_code') = Len(ta_code) + 1
      /\ ta_code'[Len(ta_code) + 1] = i /\ \A k \in 1 .. Len(ta_code) : ta_code'[k] = ta_code[k]
      /\ operands' \in Seq([Slots -> Info]) /\ Len(operands') = Len(operands) + 1
  BY <1>1, <1>3, <1>4
<1>6. TypeOK'
  BY <1>1, <1>2, <1>3, <1>5, NextUseAssumption DEF TypeOK
<1>7. Formed'
  <2>1. ASSUME NEW k \in 1 .. Len(ta_code') PROVE WellFormed(ta_code'[k])
    BY <1>1, <1>2, <1>3, <1>5 DEF Formed
  <2>2. QED BY <2>1 DEF Formed
<1>8. Defined(ta_code')
  BY <1>1, <1>2, <1>3, DefinedMore
<1>9. (fate = BlockStart)' /\ (slot = "arg2")' /\ (tac_info_table = InitInfo)' /\ phase' = "emit"
  BY <1>1, <1>2
<1>10. QED BY <1>6, <1>7, <1>8, <1>9 DEF IInv, Defined, Writer

LEMMA CreateBasicBlocksIInv == ASSUME IInv, CreateBasicBlocks PROVE IInv'
<1>1. /\ phase = "emit" /\ ta_code # <<>> /\ bb_no' = Numbers /\ phase' = "uses"
      /\ at' = Len(ta_code) /\ basic_blk' \in StartBlock(bb_no')
      /\ UNCHANGED <<ta_code, tac_info_table, operands, slot, fate>>
  BY DEF CreateBasicBlocks, Numbers
<1>2. /\ TypeOK /\ Formed /\ Defined(ta_code) /\ fate = BlockStart /\ slot = "arg2"
      /\ tac_info_table = InitInfo
  BY <1>1 DEF IInv
<1>3. /\ ta_code \in Seq(Instr) /\ Len(ta_code) <= MaxCode /\ Len(ta_code) \in Nat
      /\ Len(ta_code) # 0 /\ MaxCode \in Nat
  BY <1>1, <1>2, NextUseAssumption DEF TypeOK
<1>4. Numbers \in Seq(0 .. MaxCode + 1) /\ Len(Numbers) = Len(ta_code)
  <2>1. Numbers \in Seq(0 .. MaxCode + 1)
    BY <1>3, NumbersType
  <2>2. QED BY <1>3, <2>1 DEF Numbers
<1>5. basic_blk' \in 0 .. MaxCode + 1
  <2>1. Numbers[Len(ta_code)] \in 0 .. MaxCode + 1
    BY <1>3, <1>4
  <2>2. QED BY <1>1, <2>1 DEF StartBlock
<1>6. TypeOK'
  BY <1>1, <1>2, <1>3, <1>4, <1>5 DEF TypeOK
<1>7. Formed' /\ Defined(ta_code)'
  BY <1>1, <1>2 DEF Formed, Defined, Writer
<1>8. Numbered'
  <2>1. InOrder(Numbers) /\ Joined(Numbers) /\ Straight(Numbers)
    BY <1>3, NumbersInOrder, NumbersJoined, NumbersStraight
  <2>2. PICK b : b = Numbers
    OBVIOUS
  <2>3. (InOrder(bb_no) /\ Joined(bb_no) /\ Straight(bb_no))'
    BY <1>1, <2>1, <2>2 DEF InOrder, Joined, Straight, Live
  <2>4. QED BY <1>1, <1>4, <2>3 DEF Numbered
<1>9. Walked'
  <2>1. ASSUME NEW n \in Ids PROVE Says(tac_info_table[n], n, basic_blk, 3 * (at + 1))'
    <3>1. AccessesOf(n)' = AccessesOf(n)
      BY <1>1 DEF AccessesOf
    <3>2. ASSUME NEW o \in AccessesOf(n) PROVE ~(3 * (at + 1) <= Time(o))'
      <4>1. /\ o \in Int \X Slots /\ o[1] \in 1 .. Len(ta_code)
            /\ Time(o) \in Int /\ Time(o) < 3 * o[1] + 3
        BY <1>3, AccessIs, TimesOrdered
      <4>2. QED BY <1>1, <1>3, <4>1
    <3>3. Accesses(n, basic_blk, 3 * (at + 1))' = {}
      BY <3>1, <3>2 DEF Accesses
    <3>4. tac_info_table'[n] = [alive |-> n \in Vars, next_use |-> Null]
      BY <1>1, <1>2 DEF InitInfo
    <3>5. QED BY <3>3, <3>4 DEF Says
  <2>2. \A m \in at' + 1 .. Len(ta_code') : FALSE
    BY <1>1, <1>3
  <2>3. QED BY <2>1, <2>2 DEF Walked, Describes
<1>10. QED BY <1>1, <1>2, <1>6, <1>7, <1>8, <1>9 DEF IInv, PairsDone, BlockStart, InitInfo

\* What was shown of an instruction stays as long as its pairs do.
LEMMA PairsKept ==
    ASSUME UNCHANGED <<ta_code, bb_no>>, NEW from, PairsDone(from),
           \A k \in from .. Len(ta_code) : operands'[k] = operands[k]
    PROVE  PairsDone(from)'
<1>1. ASSUME NEW k \in from .. Len(ta_code), Live(k), NEW s \in Slots, ta_code[k][s] # NoAddr
      PROVE  PairRight(operands[k][s], k, s)'
  <2>1. PICK info : info = operands[k][s]
    OBVIOUS
  <2>2. PairRight(info, k, s) /\ operands'[k][s] = info
    BY <1>1, <2>1 DEF PairsDone
  <2>3. PairRight(info, k, s)'
    BY <2>2, SamePair
  <2>4. QED BY <2>2, <2>3 DEF PairRight
<1>2. QED BY <1>1 DEF PairsDone, Live

LEMMA NumbersKept == ASSUME UNCHANGED <<ta_code, bb_no>>, Numbered PROVE Numbered'
BY DEF Numbered, InOrder, Joined, Straight, Live

LEMMA CodeKept ==
    ASSUME UNCHANGED ta_code, Formed, Defined(ta_code) PROVE Formed' /\ Defined(ta_code)'
BY DEF Formed, Defined, Writer

LEMMA DescribesKept ==
    ASSUME UNCHANGED <<ta_code, bb_no>>, NEW table, NEW b, NEW t, Describes(table, b, t)
    PROVE  Describes(table, b, t)'
BY SameSays DEF Describes

LEMMA SkipIInv ==
    ASSUME IInv, CreateNextUseInfo, ~Live(at) PROVE IInv'
<1>1. /\ phase = "uses" /\ at > 0 /\ at' = at - 1
      /\ UNCHANGED <<tac_info_table, basic_blk, operands, ta_code, bb_no, phase, slot, fate>>
  BY DEF CreateNextUseInfo, Live
<1>2. /\ TypeOK /\ Formed /\ Defined(ta_code) /\ fate = BlockStart /\ slot = "arg2"
      /\ Numbered /\ at <= Len(ta_code) /\ PairsDone(at + 1) /\ Walked
  BY <1>1 DEF IInv
<1>3. /\ ta_code \in Seq(Instr) /\ Len(ta_code) \in Nat /\ at \in 1 .. Len(ta_code)
      /\ at \in 0 .. MaxCode + 1 /\ MaxCode \in Nat
  BY <1>1, <1>2, NextUseAssumption DEF TypeOK
<1>4. TypeOK'
  BY <1>1, <1>2, <1>3 DEF TypeOK
<1>5. PairsDone(at)
  BY <1>2, <1>3 DEF PairsDone
<1>6. PairsDone(at + 1)'
  <2>1. PICK k : k = at
    OBVIOUS
  <2>2. PairsDone(k)'
    BY <1>1, <1>5, <2>1, PairsKept
  <2>3. at' + 1 = k
    BY <1>1, <1>3, <2>1
  <2>4. QED BY <2>2, <2>3
<1>7. Walked'
  <2>1. PICK table, b, k : table = tac_info_table /\ b = basic_blk /\ k = at
    OBVIOUS
  <2>2. Describes(table, b, 3 * k)
    BY <1>2, <1>3, <2>1, SkipRight DEF Walked
  <2>3. Describes(table, b, 3 * k)'
    BY <1>1, <2>2, DescribesKept
  <2>4. tac_info_table' = table /\ basic_blk' = b /\ at' + 1 = k
    BY <1>1, <1>3, <2>1
  <2>5. ASSUME NEW j \in 1 .. k - 1, NEW m \in k .. Len(ta_code),
               Live(j), Live(m), bb_no[j] = bb_no[m]
        PROVE  bb_no[j] = b
    <3>1. m # k /\ j \in 1 .. at /\ m \in at + 1 .. Len(ta_code)
      BY <1>3, <2>1, <2>5
    <3>2. QED BY <1>2, <2>1, <2>5, <3>1 DEF Walked
  <2>6. k = at' + 1 /\ at' = k - 1
    BY <1>1, <1>3, <2>1
  <2>7. Describes(tac_info_table, basic_blk, 3 * (at + 1))'
    BY <2>3, <2>4
  <2>8. QED BY <1>1, <2>4, <2>5, <2>6, <2>7 DEF Walked, Live
<1>8. QED BY <1>1, <1>2, <1>3, <1>4, <1>6, <1>7, NumbersKept, CodeKept DEF IInv, BlockStart

LEMMA WalkIInv ==
    ASSUME IInv, CreateNextUseInfo, Live(at) PROVE IInv'
<1>1. /\ phase = "uses" /\ at > 0 /\ at' = at - 1
      /\ UNCHANGED <<ta_code, bb_no, phase, slot, fate>>
  BY DEF CreateNextUseInfo
<1>2. /\ TypeOK /\ Formed /\ Defined(ta_code) /\ fate = BlockStart /\ slot = "arg2"
      /\ Numbered /\ at <= Len(ta_code) /\ PairsDone(at + 1) /\ Walked
  BY <1>1 DEF IInv
<1>3. /\ ta_code \in Seq(Instr) /\ Len(ta_code) \in Nat /\ at \in 1 .. Len(ta_code)
      /\ at \in 0 .. MaxCode + 1 /\ MaxCode \in Nat /\ Len(ta_code) <= MaxCode
      /\ operands \in Seq([Slots -> Info]) /\ Len(operands) = Len(ta_code)
      /\ tac_info_table \in [Ids -> Info]
  BY <1>1, <1>2, NextUseAssumption DEF TypeOK
<1>4. PICK k : k = at
  OBVIOUS
<1>5. k \in 1 .. Len(ta_code) /\ Live(k) /\ at' + 1 = k
  BY <1>1, <1>3, <1>4
<1>6. PICK b : b = bb_no[k]
  OBVIOUS
<1> DEFINE t == IF b # basic_blk THEN InitInfo ELSE tac_info_table
           st == [table |-> t, pairs |-> operands[k]]
<1>7. PICK v : v = Visit(Visit(Visit(st, k, "result"), k, "arg1"), k, "arg2")
  OBVIOUS
<1>8. tac_info_table' = v.table /\ basic_blk' = b /\ operands' = [operands EXCEPT ![k] = v.pairs]
  BY <1>4, <1>5, <1>6, <1>7 DEF CreateNextUseInfo, Live
<1>9. t \in [Ids -> Info]
  <2>1. InitInfo \in [Ids -> Info]
    BY DEF InitInfo, Info
  <2>2. QED BY <1>3, <2>1
<1>10. st \in VisitStates
  BY <1>3, <1>5, <1>9 DEF VisitStates
<1>11. Describes(t, b, 3 * (k + 1))
  <2>1. CASE b # basic_blk
    <3>1. ASSUME NEW m \in k + 1 .. Len(ta_code), Live(m) PROVE bb_no[m] # b
      <4>1. k \in 1 .. at /\ m \in at + 1 .. Len(ta_code)
        BY <1>3, <1>4
      <4>2. QED BY <1>2, <1>5, <1>6, <2>1, <3>1, <4>1 DEF Walked
    <3>2. k \in Nat
      BY <1>5
    <3>3. QED BY <1>3, <2>1, <3>1, <3>2, ResetRight
  <2>2. CASE b = basic_blk
    BY <1>2, <1>4, <2>2 DEF Walked
  <2>3. QED BY <2>1, <2>2
<1> HIDE DEF t
<1>12. st.table = t
  OBVIOUS
<1> HIDE DEF st
<1>13. /\ v \in VisitStates /\ Describes(v.table, b, 3 * k)
       /\ \A s \in Slots : ta_code[k][s] # NoAddr => PairRight(v.pairs[s], k, s)
  BY <1>2, <1>3, <1>5, <1>6, <1>7, <1>10, <1>11, <1>12, VisitsRight
<1>14. v.table \in [Ids -> Info] /\ v.pairs \in [Slots -> Info]
  BY <1>13 DEF VisitStates
<1>15. /\ operands' \in Seq([Slots -> Info]) /\ Len(operands') = Len(operands)
       /\ operands'[k] = v.pairs /\ \A j \in k + 1 .. Len(ta_code) : operands'[j] = operands[j]
  BY <1>3, <1>5, <1>8, <1>14
<1>16. /\ \A j \in 1 .. Len(ta_code) : bb_no[j] \in 0 .. MaxCode + 1
       /\ b \in 0 .. MaxCode + 1
  <2>1. bb_no \in Seq(0 .. MaxCode + 1) /\ Len(bb_no) = Len(ta_code)
    BY <1>2 DEF TypeOK, Numbered
  <2>2. PICK N : N = 0 .. MaxCode + 1
    OBVIOUS
  <2>3. \A j \in 1 .. Len(ta_code) : bb_no[j] \in N
    BY <1>3, <2>1, <2>2
  <2>4. QED BY <1>5, <1>6, <2>2, <2>3
<1>17. TypeOK'
  BY <1>1, <1>2, <1>3, <1>8, <1>14, <1>15, <1>16 DEF TypeOK
<1>18. PairsDone(at + 1)'
  <2>1. PairsDone(k + 1)'
    BY <1>1, <1>2, <1>4, <1>15, PairsKept
  <2>2. ASSUME NEW s \in Slots, ta_code[k][s] # NoAddr PROVE PairRight(operands[k][s], k, s)'
    <3>1. PICK info : info = v.pairs[s]
      OBVIOUS
    <3>2. PairRight(info, k, s)'
      BY <1>1, <1>13, <2>2, <3>1, SamePair
    <3>3. operands'[k][s] = info
      BY <1>15, <3>1
    <3>4. QED BY <3>2, <3>3 DEF PairRight
  <2>3. \A j \in k .. Len(ta_code) : j = k \/ j \in k + 1 .. Len(ta_code)
    BY <1>5
  <2>4. PairsDone(k)'
    BY <1>1, <2>1, <2>2, <2>3 DEF PairsDone
  <2>5. QED BY <1>5, <2>4 DEF PairsDone
<1>19. Walked'
  <2>1. PICK table : table = v.table
    OBVIOUS
  <2>2. Describes(table, b, 3 * k)'
    BY <1>1, <1>13, <2>1, DescribesKept
  <2>3. tac_info_table' = table /\ basic_blk' = b /\ at' + 1 = k
    BY <1>5, <1>8, <2>1
  <2>4. ASSUME NEW j \in 1 .. k - 1, NEW m \in k .. Len(ta_code),
               Live(j), Live(m), bb_no[j] = bb_no[m]
        PROVE  bb_no[j] = b
    <3>1. j \in 1 .. Len(ta_code) /\ m \in 1 .. Len(ta_code) /\ j < k /\ (m = k \/ k < m)
      BY <1>5
    <3>2. bb_no[j] <= bb_no[k] /\ (m = k \/ bb_no[k] <= bb_no[m])
      BY <1>2, <1>5, <2>4, <3>1 DEF Numbered, InOrder
    <3>3. bb_no[j] \in Int /\ bb_no[k] \in Int
      BY <1>5, <1>16, <3>1
    <3>4. QED BY <1>6, <2>4, <3>2, <3>3
  <2>5. k = at' + 1 /\ at' = k - 1
    BY <1>1, <1>3, <1>4
  <2>6. Describes(tac_info_table, basic_blk, 3 * (at + 1))'
    BY <2>2, <2>3
  <2>7. QED BY <1>1, <2>3, <2>4, <2>5, <2>6 DEF Walked, Live
<1>20. QED BY <1>1, <1>2, <1>3, <1>17, <1>18, <1>19, NumbersKept, CodeKept DEF IInv, BlockStart

(***************************************************************************)
(* The promises made by the pairs, once the blocks are known.              *)
(***************************************************************************)

\* What holds while the generator runs.
Generating ==
    /\ phase = "gen" /\ TypeOK /\ Formed /\ Defined(ta_code) /\ Numbered
    /\ at \in 1 .. Len(ta_code) + 1 /\ PairsDone(1) /\ Handed

LEMMA CodeTypes ==
    ASSUME Generating
    PROVE  /\ ta_code \in Seq(Instr) /\ Len(ta_code) \in Nat /\ at \in Nat
           /\ \A k \in 1 .. Len(ta_code) : bb_no[k] \in Nat /\ ta_code[k] \in Instr
<1>1. PICK N : N = 0 .. MaxCode + 1
  OBVIOUS
<1>2. bb_no \in Seq(N) /\ Len(bb_no) = Len(ta_code) /\ ta_code \in Seq(Instr)
  BY <1>1 DEF Generating, TypeOK, Numbered
<1>3. \A k \in 1 .. Len(ta_code) : bb_no[k] \in N
  BY <1>2
<1>4. QED BY <1>1, <1>2, <1>3 DEF Generating

LEMMA Nows ==
    ASSUME Generating, slot \in Slots \cup {"end"}
    PROVE  /\ Now \in Int /\ 3 * at <= Now /\ Now <= 3 * at + 3
           /\ slot = "arg2" => Now = 3 * at
           /\ slot = "end" => Now = 3 * at + 3
           /\ slot \in Slots => Now = Time(<<at, slot>>)
<1>1. at \in Int
  BY CodeTypes
<1>2. \/ slot = "arg2" /\ Now = 3 * at
      \/ slot = "arg1" /\ Now = 3 * at + 1
      \/ slot = "result" /\ Now = 3 * at + 2
      \/ slot = "end" /\ Now = 3 * at + 3
  <2>1. slot = "arg2" => Now = 3 * at
    BY <1>1 DEF Now
  <2>2. slot = "arg1" => Now = 3 * at + 1
    BY <1>1 DEF Now
  <2>3. slot = "result" => Now = 3 * at + 2
    BY <1>1 DEF Now
  <2>4. slot = "end" => Now = 3 * at + 3
    BY <1>1 DEF Now
  <2>5. QED BY <2>1, <2>2, <2>3, <2>4 DEF Slots
<1>3. Now \in Int /\ 3 * at <= Now /\ Now <= 3 * at + 3
  BY <1>1, <1>2
<1>4. slot \in Slots => Now = Time(<<at, slot>>)
  BY <1>1, <1>2, Times DEF Slots
<1>5. (slot = "arg2" => Now = 3 * at) /\ (slot = "end" => Now = 3 * at + 3)
  BY <1>2
<1>6. QED BY <1>3, <1>4, <1>5

\* The flag of a pair, by what comes after its operand.
LEMMA FlagIs ==
    ASSUME ta_code \in Seq(Instr), Len(ta_code) <= MaxCode,
           NEW info, NEW k, NEW s, PairRight(info, k, s), ta_code[k].kind # "return",
           NEW n, n = ta_code[k][s], n \in Ids, NEW b, b = bb_no[k],
           NEW t, t = Time(<<k, s>>) + 1
    PROVE  /\ Accesses(n, b, t) = {} => Flag(info) = IF n \in Vars THEN "out" ELSE "dead"
           /\ \A q \in AccessesOf(n) :
                 First(n, b, t, q) => Flag(info) = IF IsRead(q) THEN "next" ELSE "dead"
<1>1. Says(info, n, b, t)
  BY DEF PairRight
<1>2. ASSUME Accesses(n, b, t) = {} PROVE Flag(info) = IF n \in Vars THEN "out" ELSE "dead"
  <2>1. info = [alive |-> n \in Vars, next_use |-> Null]
    BY <1>1, <1>2 DEF Says
  <2>2. (info.alive <=> n \in Vars) /\ info.next_use = Null
    BY <2>1
  <2>3. QED BY <2>2 DEF Flag
<1>3. ASSUME NEW q \in AccessesOf(n), First(n, b, t, q)
      PROVE  Flag(info) = IF IsRead(q) THEN "next" ELSE "dead"
  <2>1. q \in Accesses(n, b, t)
    BY <1>3 DEF First
  <2>2. PICK r \in Accesses(n, b, t) :
             /\ First(n, b, t, r)
             /\ info = IF IsRead(r) THEN [alive |-> TRUE, next_use |-> r]
                                    ELSE [alive |-> FALSE, next_use |-> Null]
    BY <1>1, <2>1 DEF Says
  <2>3. r \in AccessesOf(n) /\ Time(q) <= Time(r) /\ Time(r) <= Time(q)
    BY <1>3, <2>1, <2>2 DEF First, Accesses
  <2>4. r = q
    <3>1. /\ q \in Int \X Slots /\ r \in Int \X Slots
          /\ Time(q) \in Int /\ Time(r) \in Int
      BY <2>3, AccessIs
    <3>2. Time(q) = Time(r)
      BY <2>3, <3>1
    <3>3. QED BY <3>1, <3>2, TimesOrdered
  <2>5. q # Null
    <3>1. q[1] \in 1 .. Len(ta_code) /\ q[2] \in Slots /\ q = <<q[1], q[2]>>
      BY AccessIs
    <3>2. q \in Position
      BY <3>1, NextUseAssumption DEF Position
    <3>3. QED BY <3>2, NextUseAssumption
  <2>6. CASE IsRead(q)
    <3>1. info = [alive |-> TRUE, next_use |-> q]
      BY <2>2, <2>4, <2>6
    <3>2. QED BY <2>5, <2>6, <3>1 DEF Flag
  <2>7. CASE ~IsRead(q)
    <3>1. info = [alive |-> FALSE, next_use |-> Null]
      BY <2>2, <2>4, <2>7
    <3>2. QED BY <2>7, <3>1 DEF Flag
  <2>8. QED BY <2>6, <2>7
<1>4. QED BY <1>2, <1>3

\* The operands of a return are its first argument alone.
LEMMA ReturnsOperand ==
    ASSUME Generating, NEW k \in 1 .. Len(ta_code), ta_code[k].kind = "return",
           NEW s \in Slots, ta_code[k][s] # NoAddr
    PROVE  s = "arg1"
<1>1. PICK i \in Instr : i = ta_code[k] /\ WellFormed(i)
  BY CodeTypes DEF Generating, Formed
<1>2. i.result = NoAddr /\ i.arg2 = NoAddr
  BY <1>1 DEF WellFormed
<1>3. QED BY <1>1, <1>2 DEF Slots

\* A handed-over access whose block is open is in the block of the
\* instruction at hand.
LEMMA OpenBlock ==
    ASSUME Generating, at <= Len(ta_code), Live(at), NEW n, NEW p \in Passed(n), Open(p)
    PROVE  /\ bb_no[p[1]] = bb_no[at] /\ p[1] \in 1 .. at
           /\ p[1] # at => ta_code[p[1]].kind # "return"
<1>1. /\ p \in Int \X Slots /\ p[1] \in 1 .. Len(ta_code) /\ Live(p[1])
      /\ Time(p) < Now /\ Time(p) \in Int /\ 3 * p[1] <= Time(p)
  BY CodeTypes, AccessIs, TimesOrdered DEF Passed
<1>2. at \in 1 .. Len(ta_code) /\ Now \in Int /\ Now <= 3 * at + 3
  BY Nows, CodeTypes DEF Generating, TypeOK
<1>3. p[1] <= at
  BY <1>1, <1>2
<1>4. PICK m \in at .. Len(ta_code) : Live(m) /\ bb_no[m] = bb_no[p[1]]
  BY DEF Open
<1>5. m \in 1 .. Len(ta_code) /\ p[1] \in 1 .. at
  BY <1>1, <1>2, <1>3
<1>6. /\ bb_no[m] \in Nat /\ bb_no[at] \in Nat /\ bb_no[p[1]] \in Nat
  BY <1>1, <1>2, <1>5, CodeTypes
<1>7. at = m \/ bb_no[at] <= bb_no[m]
  BY <1>2, <1>4, <1>5 DEF Generating, Numbered, InOrder
<1>8. CASE p[1] = at
  BY <1>5, <1>8
<1>9. CASE p[1] # at
  <2>1. /\ bb_no[p[1]] <= bb_no[at]
        /\ EndsBlock(ta_code[p[1]]) => bb_no[p[1]] < bb_no[at]
    BY <1>1, <1>2, <1>3, <1>9 DEF Generating, Numbered, InOrder
  <2>2. bb_no[p[1]] = bb_no[at]
    BY <1>4, <1>6, <1>7, <2>1
  <2>3. ~EndsBlock(ta_code[p[1]])
    BY <1>6, <2>1, <2>2
  <2>4. QED BY <1>5, <2>2, <2>3 DEF EndsBlock
<1>10. QED BY <1>8, <1>9

\* What the id's last access has promised, by what is left of the block.
LEMMA LatestFlag ==
    ASSUME Generating, ~Returned, at <= Len(ta_code), Live(at),
           NEW n \in Ids, NEW p \in Passed(n), Latest(n, p), Open(p),
           NEW flag, flag = Flag(operands[p[1]][p[2]]),
           NEW rest, rest = Accesses(n, bb_no[at], Now)
    PROVE  /\ rest = {} => flag = IF n \in Vars THEN "out" ELSE "dead"
           /\ \A q \in rest : (\A o \in rest : Time(q) <= Time(o))
                              => flag = IF IsRead(q) THEN "next" ELSE "dead"
<1>1. /\ p \in Int \X Slots /\ p[1] \in 1 .. Len(ta_code) /\ p[2] \in Slots /\ p = <<p[1], p[2]>>
      /\ Live(p[1]) /\ ta_code[p[1]][p[2]] = n
      /\ p \in AccessesOf(n) /\ Time(p) < Now /\ Time(p) \in Int
  BY CodeTypes, AccessIs DEF Passed
<1>2. bb_no[p[1]] = bb_no[at] /\ p[1] \in 1 .. at /\ (p[1] # at => ta_code[p[1]].kind # "return")
  BY OpenBlock
<1>3. Now \in Int /\ at \in 1 .. Len(ta_code) /\ (slot = "arg2" => Now = 3 * at)
      /\ (slot \in Slots => Now = Time(<<at, slot>>)) /\ slot \in Slots \cup {"end"}
  BY Nows, CodeTypes DEF Generating, TypeOK
<1>4. n # NoAddr
  BY IdsAreNot
<1>5. ta_code[p[1]].kind # "return"
  <2>1. SUFFICES ASSUME p[1] = at, ta_code[at].kind = "return" PROVE FALSE
    BY <1>2
  <2>2. p[2] = "arg1" /\ ta_code[at].arg1 # NoAddr
    <3>1. p[2] = "arg1"
      BY <1>1, <1>3, <1>4, <2>1, ReturnsOperand
    <3>2. QED BY <1>1, <1>4, <2>1, <3>1
  <2>3. Time(p) = 3 * at + 1
    BY <1>1, <1>3, <2>1, <2>2, Times
  <2>4. slot # "arg2" /\ slot # "arg1"
    <3>1. at \in Int /\ 3 * at + 1 < Now
      BY <1>1, <1>3, <2>3
    <3>2. slot # "arg2"
      BY <1>3, <3>1
    <3>3. ASSUME slot = "arg1" PROVE FALSE
      <4>1. Now = Time(<<at, "arg1">>)
        BY <1>3, <3>3 DEF Slots
      <4>2. Time(<<at, "arg1">>) = 3 * at + 1
        BY <3>1, Times
      <4>3. QED BY <3>1, <4>1, <4>2
    <3>4. QED BY <3>2, <3>3
  <2>5. Returned
    BY <1>3, <2>1, <2>2, <2>4 DEF Returned, Slots
  <2>6. QED BY <2>5
<1>6. PairRight(operands[p[1]][p[2]], p[1], p[2])
  BY <1>1, <1>4 DEF Generating, PairsDone
<1>7. \A o \in AccessesOf(n) : Time(o) \in Int /\ (Time(p) + 1 <= Time(o) <=> Now <= Time(o))
  <2> TAKE o \in AccessesOf(n)
  <2>1. Time(o) \in Int
    BY CodeTypes, AccessIs
  <2>2. Time(o) < Now => Time(o) <= Time(p)
    BY DEF Latest, Passed
  <2>3. QED BY <1>1, <1>3, <2>1, <2>2
<1>8. PICK b, t : b = bb_no[p[1]] /\ t = Time(<<p[1], p[2]>>) + 1
  OBVIOUS
<1>9. Accesses(n, b, t) = rest
  BY <1>1, <1>2, <1>7, <1>8 DEF Accesses
<1>10. \A q \in rest : (\A o \in rest : Time(q) <= Time(o)) => First(n, b, t, q) /\ q \in AccessesOf(n)
  BY <1>9 DEF First, Accesses
<1>11. PICK info, k, s : info = operands[p[1]][p[2]] /\ k = p[1] /\ s = p[2]
  OBVIOUS
<1>12. /\ Accesses(n, b, t) = {} => Flag(info) = IF n \in Vars THEN "out" ELSE "dead"
       /\ \A q \in AccessesOf(n) :
             First(n, b, t, q) => Flag(info) = IF IsRead(q) THEN "next" ELSE "dead"
  <2>1. ta_code \in Seq(Instr) /\ Len(ta_code) <= MaxCode
    BY DEF Generating, TypeOK
  <2>2. PairRight(info, k, s) /\ ta_code[k].kind # "return" /\ n = ta_code[k][s]
        /\ b = bb_no[k] /\ t = Time(<<k, s>>) + 1
    BY <1>1, <1>5, <1>6, <1>8, <1>11
  <2>3. QED BY <2>1, <2>2, FlagIs
<1>13. QED BY <1>9, <1>10, <1>11, <1>12

\* The operand at hand is the next access of its id.
LEMMA AtHand ==
    ASSUME Generating, at <= Len(ta_code), Live(at), slot \in Slots,
           NEW n, n = ta_code[at][slot], n \in Ids, NEW q, q = <<at, slot>>
    PROVE  /\ q \in Accesses(n, bb_no[at], Now)
           /\ \A o \in Accesses(n, bb_no[at], Now) : Time(q) <= Time(o)
           /\ Time(q) = Now
<1>1. at \in 1 .. Len(ta_code) /\ ta_code \in Seq(Instr) /\ Now = Time(q) /\ Now \in Int
  BY CodeTypes, Nows DEF Generating
<1>2. q \in AccessesOf(n) /\ q[1] = at
  BY <1>1, IsAccess
<1>3. QED BY <1>1, <1>2 DEF Accesses

\* A value that is read has been promised: it is in the block's first access
\* or announced by the access before.
LEMMA MayAccess ==
    ASSUME Generating, ~Returned, at <= Len(ta_code), Live(at), slot \in Slots,
           NEW n, n = ta_code[at][slot], n \in Ids
    PROVE  /\ IsRead(<<at, slot>>) => fate[n] \in {"in", "next"}
           /\ ~IsRead(<<at, slot>>) => fate[n] \in {"in", "dead"}
<1>1. Promised(n)
  BY DEF Generating, Handed
<1>2. PICK q : q = <<at, slot>>
  OBVIOUS
<1>3. /\ q \in Accesses(n, bb_no[at], Now)
      /\ \A o \in Accesses(n, bb_no[at], Now) : Time(q) <= Time(o)
      /\ Time(q) = Now
  BY <1>2, AtHand
<1>4. ASSUME NEW p \in Passed(n), Latest(n, p), Open(p), fate[n] = Flag(operands[p[1]][p[2]])
      PROVE  fate[n] = IF IsRead(q) THEN "next" ELSE "dead"
  BY <1>3, <1>4, LatestFlag
<1>5. ASSUME fate[n] = BlockStart[n], \A p \in Passed(n) : ~Open(p)
      PROVE  fate[n] = "in" \/ (~IsRead(q) /\ fate[n] = "dead")
  <2>1. CASE n \in Vars
    BY <1>5, <2>1 DEF BlockStart
  <2>2. CASE n \notin Vars
    <3>1. fate[n] = "dead" /\ n \in Temps
      BY <1>5, <2>2 DEF BlockStart, Ids
    <3>2. SUFFICES ASSUME IsRead(q) PROVE FALSE
      BY <3>1
    <3>3. PICK i \in Instr : i = ta_code[at] /\ WellFormed(i) /\ at \in 1 .. Len(ta_code)
      BY CodeTypes DEF Generating, Formed
    <3>4. n # NoAddr /\ n = i[slot]
      BY <3>3, IdsAreNot
    <3>5. slot # "result" \/ i.kind = "()s"
      <4>1. ta_code \in Seq(Instr) /\ Formed
        BY CodeTypes DEF Generating
      <4>2. QED BY <1>2, <3>2, <3>3, <3>4, <4>1, ReadOrWritten
    <3>6. n \in Reads(i)
      BY <3>4, <3>5 DEF Reads, Slots
    <3>7. PICK j \in 1 .. at - 1 :
             /\ ~ta_code[j].dead /\ n \in Writes(ta_code[j])
             /\ \A l \in j .. at - 1 : ~ta_code[l].dead => ~Boundary(ta_code[l])
      BY <3>1, <3>3, <3>6 DEF Generating, Defined, Writer, Live
    <3>8. j \in 1 .. Len(ta_code) /\ j < at
      BY <3>3
    <3>9. PICK p : p = <<j, "result">>
      OBVIOUS
    <3>10. p \in AccessesOf(n)
      <4>1. ta_code[j]["result"] = n
        BY <3>7 DEF Writes
      <4>2. "result" \in Slots /\ Live(j) /\ ta_code \in Seq(Instr)
        BY <3>7, CodeTypes DEF Slots, Live
      <4>3. QED BY <3>8, <3>9, <4>1, <4>2, IsAccess
    <3>11. p[1] = j /\ Time(p) < Now
      <4>1. p[1] = j /\ Time(p) = 3 * j + 2
        <5>1. j \in Int
          OBVIOUS
        <5>2. Time(<<j, "result">>) = 3 * j + 2
          BY <5>1, Times
        <5>3. QED BY <3>9, <5>2
      <4>2. Now \in Int /\ 3 * at <= Now /\ at \in Int
        <5>1. slot \in Slots \cup {"end"}
          OBVIOUS
        <5>2. QED BY <5>1, CodeTypes, Nows
      <4>3. QED BY <3>8, <4>1, <4>2
    <3>12. i.kind # "label"
      BY <3>4, <3>3 DEF WellFormed, Slots
    <3>13. bb_no[at] = bb_no[j]
      <4>1. \A l \in j .. at - 1 : Live(l) => ~EndsBlock(ta_code[l])
        BY <3>7 DEF Boundary, Live
      <4>2. \A l \in j + 1 .. at : Live(l) => ta_code[l].kind # "label"
        <5> TAKE l \in j + 1 .. at
        <5>1. l = at \/ l \in j .. at - 1
          BY <3>3, <3>8
        <5>2. QED BY <3>3, <3>7, <3>12, <5>1 DEF Boundary, Live
      <4>3. Live(j)
        BY <3>7 DEF Live
      <4>4. QED BY <3>3, <3>8, <4>1, <4>2, <4>3 DEF Generating, Numbered, Joined
    <3>14. Open(p)
      <4>1. at \in at .. Len(ta_code)
        BY <3>3
      <4>2. QED BY <3>11, <3>13, <4>1 DEF Open
    <3>15. QED BY <1>5, <3>10, <3>11, <3>14 DEF Passed
  <2>3. QED BY <2>1, <2>2
<1>6. QED BY <1>1, <1>2, <1>4, <1>5 DEF Promised

\* Where no access of the id is left in the block, nothing promised is open.
LEMMA NothingPending ==
    ASSUME Generating, ~Returned, at <= Len(ta_code), Live(at), NEW n \in Ids,
           Accesses(n, bb_no[at], Now) = {}
    PROVE  fate[n] # "next" /\ (n \in Vars => fate[n] # "dead")
<1>1. Promised(n)
  BY DEF Generating, Handed
<1>2. ASSUME NEW p \in Passed(n), Latest(n, p), Open(p), fate[n] = Flag(operands[p[1]][p[2]])
      PROVE  fate[n] = IF n \in Vars THEN "out" ELSE "dead"
  BY <1>2, LatestFlag
<1>3. ASSUME fate[n] = BlockStart[n] PROVE fate[n] = IF n \in Vars THEN "in" ELSE "dead"
  BY <1>3 DEF BlockStart
<1>4. QED BY <1>1, <1>2, <1>3 DEF Promised

LEMMA IInvGenerating == ASSUME IInv, phase = "gen" PROVE Generating
BY DEF IInv, Generating

LEMMA GeneratingIInv ==
    ASSUME Generating, UNCHANGED <<ta_code, bb_no, operands, phase>>, TypeOK',
           at' \in 1 .. Len(ta_code) + 1, Handed'
    PROVE  IInv'
<1>1. Formed' /\ Defined(ta_code)'
  BY CodeKept DEF Generating
<1>2. Numbered'
  BY NumbersKept DEF Generating
<1>3. PairsDone(1)'
  BY PairsKept DEF Generating
<1>4. phase' = "gen" /\ at' \in 1 .. Len(ta_code') + 1
  BY DEF Generating
<1>5. QED BY <1>1, <1>2, <1>3, <1>4 DEF IInv

\* An id of which nothing new was handed over keeps its promise.
LEMMA PromiseKept ==
    ASSUME UNCHANGED operands, NEW n, Promised(n), Passed(n)' = Passed(n), fate'[n] = fate[n],
           \A p \in Passed(n) : Open(p)' <=> Open(p)
    PROVE  Promised(n)'
<1>1. ASSUME fate[n] = BlockStart[n], \A p \in Passed(n) : ~Open(p) PROVE Promised(n)'
  BY <1>1 DEF Promised, BlockStart
<1>2. ASSUME NEW p \in Passed(n), Latest(n, p), Open(p), fate[n] = Flag(operands[p[1]][p[2]])
      PROVE  Promised(n)'
  <2>1. Latest(n, p)' /\ Open(p)' /\ p \in Passed(n)'
    BY <1>2 DEF Latest
  <2>2. (fate[n] = Flag(operands[p[1]][p[2]]))'
    BY <1>2
  <2>3. QED BY <2>1, <2>2 DEF Promised
<1>3. QED BY <1>1, <1>2 DEF Promised

LEMMA PassedMore ==
    ASSUME Generating, UNCHANGED <<ta_code, bb_no>>, at <= Len(ta_code), Live(at), slot \in Slots,
           Now' = Now + 1, NEW n, NEW q, q = <<at, slot>>
    PROVE  /\ n # ta_code[at][slot] => Passed(n)' = Passed(n)
           /\ n = ta_code[at][slot] =>
                 /\ Passed(n)' = Passed(n) \cup {q}
                 /\ \A o \in Passed(n) : Time(o) <= Time(q)
<1>1. /\ at \in 1 .. Len(ta_code) /\ ta_code \in Seq(Instr) /\ Now = Time(q) /\ Now \in Int
      /\ q \in Int \X Slots /\ q[1] = at /\ q[2] = slot
  BY CodeTypes, Nows DEF Generating
<1>2. AccessesOf(n)' = AccessesOf(n)
  BY SameAccesses
<1>3. \A o \in AccessesOf(n) : Time(o) \in Int /\ (Time(o) = Now => o = q) /\ ta_code[o[1]][o[2]] = n
  <2> TAKE o \in AccessesOf(n)
  <2>1. o \in Int \X Slots /\ Time(o) \in Int /\ ta_code[o[1]][o[2]] = n
    BY <1>1, AccessIs
  <2>2. QED BY <1>1, <2>1, TimesOrdered
<1>4. Passed(n)' = {o \in AccessesOf(n) : Time(o) < Now \/ o = q}
  <2>1. Passed(n)' = {o \in AccessesOf(n) : Time(o) < Now + 1}
    BY <1>2 DEF Passed
  <2>2. \A o \in AccessesOf(n) : Time(o) < Now + 1 <=> (Time(o) < Now \/ o = q)
    BY <1>1, <1>3
  <2>3. QED BY <2>1, <2>2
<1>5. n = ta_code[at][slot] => q \in AccessesOf(n)
  BY <1>1, IsAccess
<1>6. n # ta_code[at][slot] => q \notin AccessesOf(n)
  BY <1>1, <1>3
<1>7. QED BY SMTT(30), <1>1, <1>3, <1>4, <1>5, <1>6 DEF Passed

LEMMA NextSlots ==
    ASSUME NEW s \in Slots
    PROVE  /\ NextSlot[s] \in Slots \cup {"end"} /\ NextSlot[s] # "arg2"
           /\ NextSlot[s] = "arg1" <=> s = "arg2"
           /\ NextSlot[s] \in {"result", "end"} <=> s # "arg2"
<1>1. NextSlot["arg2"] = "arg1" /\ NextSlot["arg1"] = "result" /\ NextSlot["result"] = "end"
  BY DEF NextSlot
<1>2. QED BY <1>1 DEF Slots

LEMMA NowMoves ==
    ASSUME at \in Nat, slot \in Slots, at' = at, slot' = NextSlot[slot]
    PROVE  Now' = Now + 1
<1>1. CASE slot = "arg2"
  <2>1. slot' = "arg1"
    BY <1>1 DEF NextSlot
  <2>2. Now = 3 * at /\ Now' = 3 * at + 1
    BY <1>1, <2>1 DEF Now
  <2>3. QED BY <2>2
<1>2. CASE slot = "arg1"
  <2>1. slot' = "result"
    BY <1>2 DEF NextSlot
  <2>2. Now = 3 * at + 1 /\ Now' = 3 * at + 2
    BY <1>2, <2>1 DEF Now
  <2>3. QED BY <2>2
<1>3. CASE slot = "result"
  <2>1. slot' = "end"
    BY <1>3 DEF NextSlot
  <2>2. Now = 3 * at + 2 /\ Now' = 3 * at + 3
    BY <1>3, <2>1 DEF Now
  <2>3. QED BY <2>2
<1>4. QED BY <1>1, <1>2, <1>3 DEF Slots

LEMMA HandOverIs ==
    ASSUME Generating, HandOver
    PROVE  /\ at \in 1 .. Len(ta_code) /\ at <= Len(ta_code) /\ Live(at) /\ slot \in Slots
           /\ slot' = NextSlot[slot] /\ Now' = Now + 1 /\ at' = at
           /\ UNCHANGED <<ta_code, bb_no, tac_info_table, basic_blk, operands, phase>>
           /\ fate \in [Ids -> {"in", "next", "out", "dead"}]
           /\ ta_code[at][slot] \in Ids \cup {NoAddr}
<1>1. /\ at <= Len(ta_code) /\ ~ta_code[at].dead /\ slot # "end" /\ slot' = NextSlot[slot]
      /\ UNCHANGED <<ta_code, bb_no, tac_info_table, basic_blk, operands, phase, at>>
  BY DEF HandOver
<1>2. at \in 1 .. Len(ta_code) /\ slot \in Slots /\ fate \in [Ids -> {"in", "next", "out", "dead"}]
  BY <1>1, CodeTypes DEF Generating, TypeOK
<1>3. Now' = Now + 1
  BY <1>1, <1>2, NowMoves
<1>4. ta_code[at] \in Instr
  BY <1>2, CodeTypes
<1>5. ta_code[at][slot] \in Ids \cup {NoAddr}
  BY <1>2, <1>4 DEF Instr, Slots, Operand
<1>6. QED BY <1>1, <1>2, <1>3, <1>5 DEF Live

\* The three ways an operand is handed over.
LEMMA HandOverCases ==
    ASSUME Generating, HandOver, NEW id, id = ta_code[at][slot]
    PROVE  \/ id = NoAddr /\ fate' = fate
           \/ id \in Ids /\ ta_code[at].kind = "return" /\ fate' = BlockStart /\ slot = "arg1" /\ ~Returned
           \/ /\ id \in Ids /\ ta_code[at].kind # "return" /\ ~Returned
              /\ fate' = [fate EXCEPT ![id] = Flag(operands[at][slot])]
<1>1. CASE id = NoAddr
  BY <1>1 DEF HandOver
<1>2. CASE id # NoAddr /\ ta_code[at].kind = "return"
  <2>1. fate' = BlockStart
    BY <1>2 DEF HandOver
  <2>2. slot = "arg1"
    BY <1>2, HandOverIs, ReturnsOperand
  <2>3. QED BY <1>2, <2>1, <2>2, HandOverIs DEF Returned
<1>3. CASE id # NoAddr /\ ta_code[at].kind # "return"
  <2>1. fate' = [fate EXCEPT ![id] = Flag(operands[at][slot])]
    BY <1>3 DEF HandOver
  <2>2. QED BY <1>3, <2>1, HandOverIs DEF Returned
<1>4. QED BY <1>1, <1>2, <1>3

LEMMA HandOverHanded == ASSUME Generating, HandOver PROVE Handed'
<1>1. /\ at \in 1 .. Len(ta_code) /\ at <= Len(ta_code) /\ Live(at) /\ slot \in Slots
      /\ slot' = NextSlot[slot] /\ Now' = Now + 1 /\ at' = at
      /\ UNCHANGED <<ta_code, bb_no, operands>>
      /\ fate \in [Ids -> {"in", "next", "out", "dead"}]
  BY HandOverIs
<1>2. PICK id : id = ta_code[at][slot]
  OBVIOUS
<1>3. PICK q : q = <<at, slot>>
  OBVIOUS
<1>4. \A n : /\ n # id => Passed(n)' = Passed(n)
             /\ n = id => Passed(n)' = Passed(n) \cup {q} /\ \A o \in Passed(n) : Time(o) <= Time(q)
  BY <1>1, <1>2, <1>3, PassedMore
<1>5. \A p : Open(p)' <=> Open(p)
  BY <1>1 DEF Open, Live
<1>6. ASSUME NEW n \in Ids, n # id, Promised(n), fate'[n] = fate[n] PROVE Promised(n)'
  BY <1>1, <1>4, <1>5, <1>6, PromiseKept
<1>7. CASE id = NoAddr /\ fate' = fate
  <2>1. CASE Returned
    <3>1. fate' = BlockStart
      BY <1>7, <2>1 DEF Generating, Handed
    <3>2. Returned'
      BY <1>1, <2>1, NextSlots DEF Returned, Live, Slots
    <3>3. QED BY <3>1, <3>2 DEF Handed, BlockStart
  <2>2. CASE ~Returned
    <3>1. ~Returned'
      <4>1. SUFFICES ASSUME Returned' PROVE FALSE
        OBVIOUS
      <4>2. ta_code[at].kind = "return" /\ ta_code[at].arg1 # NoAddr /\ slot # "arg2"
        BY <1>1, <4>1, NextSlots DEF Returned
      <4>3. slot = "arg1"
        BY <1>1, <2>2, <4>2 DEF Returned, Slots
      <4>4. QED BY <1>2, <1>7, <4>2, <4>3
    <3>2. \A n \in Ids : Promised(n)'
      <4> TAKE n \in Ids
      <4>1. n # id /\ Promised(n) /\ fate'[n] = fate[n]
        BY <1>7, <2>2, IdsAreNot DEF Generating, Handed
      <4>2. QED BY <1>6, <4>1
    <3>3. QED BY <3>1, <3>2 DEF Handed
  <2>3. QED BY <2>1, <2>2
<1>8. CASE id \in Ids /\ ta_code[at].kind = "return" /\ fate' = BlockStart /\ slot = "arg1"
  <2>1. slot' = "result" /\ ta_code[at].arg1 # NoAddr
    BY <1>1, <1>2, <1>8, IdsAreNot DEF NextSlot
  <2>2. Returned'
    BY <1>1, <1>8, <2>1 DEF Returned, Live
  <2>3. QED BY <1>8, <2>2 DEF Handed, BlockStart
<1>9. CASE /\ id \in Ids /\ ta_code[at].kind # "return" /\ ~Returned
           /\ fate' = [fate EXCEPT ![id] = Flag(operands[at][slot])]
  <2>1. ~Returned'
    BY <1>1, <1>9 DEF Returned
  <2>2. ASSUME NEW n \in Ids PROVE Promised(n)'
    <3>1. CASE n # id
      <4>1. Promised(n) /\ fate'[n] = fate[n]
        BY <1>1, <1>9, <3>1 DEF Generating, Handed
      <4>2. QED BY <1>6, <3>1, <4>1
    <3>2. CASE n = id
      <4>1. fate'[n] = Flag(operands'[q[1]][q[2]])
        BY <1>1, <1>3, <1>9, <3>2
      <4>2. Passed(n)' = Passed(n) \cup {q} /\ \A o \in Passed(n) : Time(o) <= Time(q)
        BY <1>4, <3>2
      <4>3. Time(q) <= Time(q)
        <5>1. q \in Int \X Slots
          BY <1>1, <1>3
        <5>2. Time(q) \in Int
          BY <5>1, TimesOrdered
        <5>3. QED BY <5>2
      <4>4. Latest(n, q)' /\ q \in Passed(n)'
        BY <4>2, <4>3 DEF Latest
      <4>5. Open(q)
        <5>1. at \in at .. Len(ta_code) /\ q[1] = at
          BY <1>1, <1>3
        <5>2. QED BY <1>1, <5>1 DEF Open
      <4>6. QED BY <1>5, <4>1, <4>4, <4>5 DEF Promised
    <3>3. QED BY <3>1, <3>2
  <2>3. QED BY <2>1, <2>2 DEF Handed
<1>10. QED BY <1>2, <1>7, <1>8, <1>9, HandOverCases

LEMMA HandOverIInv == ASSUME IInv, HandOver PROVE IInv'
<1>1. Generating
  BY IInvGenerating DEF HandOver
<1>2. /\ at \in 1 .. Len(ta_code) /\ slot \in Slots /\ slot' = NextSlot[slot] /\ at' = at
      /\ UNCHANGED <<ta_code, bb_no, tac_info_table, basic_blk, operands, phase>>
      /\ fate \in [Ids -> {"in", "next", "out", "dead"}]
  BY <1>1, HandOverIs
<1>3. slot' \in Slots \cup {"end"}
  BY <1>2, NextSlots
<1>4. fate' \in [Ids -> {"in", "next", "out", "dead"}]
  <2>1. BlockStart \in [Ids -> {"in", "next", "out", "dead"}]
    BY DEF BlockStart
  <2>2. PICK id, flag : id = ta_code[at][slot] /\ flag = Flag(operands[at][slot])
    OBVIOUS
  <2>3. flag \in {"in", "next", "out", "dead"}
    BY <2>2 DEF Flag
  <2>4. fate' = fate \/ fate' = BlockStart \/ fate' = [fate EXCEPT ![id] = flag]
    BY <1>1, <2>2, HandOverCases
  <2>5. QED BY <1>2, <2>1, <2>3, <2>4
<1>5. TypeOK'
  BY <1>1, <1>2, <1>3, <1>4 DEF Generating, TypeOK
<1>6. Handed'
  BY <1>1, HandOverHanded
<1>7. at' \in 1 .. Len(ta_code) + 1
  BY <1>2
<1>8. QED BY <1>1, <1>2, <1>5, <1>6, <1>7, GeneratingIInv

\* After the last live instruction of a block no access in it is open.
LEMMA LastCloses ==
    ASSUME Generating, at <= Len(ta_code), Live(at), LastOfBlock(at),
           NEW k \in 1 .. at, Live(k), NEW m \in at + 1 .. Len(ta_code), Live(m)
    PROVE  bb_no[m] # bb_no[k]
<1>1. at \in 1 .. Len(ta_code) /\ m \in 1 .. Len(ta_code) /\ k \in 1 .. Len(ta_code)
  BY CodeTypes DEF Generating
<1>2. bb_no[m] \in Nat /\ bb_no[at] \in Nat /\ bb_no[k] \in Nat
  BY <1>1, CodeTypes
<1>3. bb_no[m] # bb_no[at]
  BY DEF LastOfBlock, Live
<1>4. bb_no[at] <= bb_no[m]
  BY <1>1 DEF Generating, Numbered, InOrder
<1>5. k = at \/ bb_no[k] <= bb_no[at]
  BY <1>1 DEF Generating, Numbered, InOrder
<1>6. QED BY <1>2, <1>3, <1>4, <1>5

\* What ends a block is the last of it.
LEMMA EndIsLast ==
    ASSUME Generating, at <= Len(ta_code), Live(at), EndsBlock(ta_code[at])
    PROVE  LastOfBlock(at)
<1>1. SUFFICES ASSUME NEW m \in at + 1 .. Len(ta_code), Live(m) PROVE bb_no[m] # bb_no[at]
  BY DEF LastOfBlock, Live
<1>2. at \in 1 .. Len(ta_code) /\ m \in 1 .. Len(ta_code) /\ at < m
  BY CodeTypes DEF Generating
<1>3. bb_no[at] < bb_no[m]
  BY <1>1, <1>2 DEF Generating, Numbered, InOrder
<1>4. QED BY <1>2, <1>3, CodeTypes

LEMMA NextInstructionIs ==
    ASSUME Generating, NextInstruction
    PROVE  /\ at \in 1 .. Len(ta_code) /\ at <= Len(ta_code) /\ (Live(at) => slot = "end")
           /\ at' = at + 1 /\ slot' = "arg2"
           /\ fate' = IF Live(at) /\ LastOfBlock(at) THEN BlockStart ELSE fate
           /\ UNCHANGED <<ta_code, bb_no, tac_info_table, basic_blk, operands, phase>>
<1>1. /\ at <= Len(ta_code) /\ (Live(at) => slot = "end") /\ at' = at + 1 /\ slot' = "arg2"
      /\ fate' = IF Live(at) /\ LastOfBlock(at) THEN BlockStart ELSE fate
      /\ UNCHANGED <<ta_code, bb_no, tac_info_table, basic_blk, operands, phase>>
  BY DEF NextInstruction, Live
<1>2. at \in 1 .. Len(ta_code)
  BY <1>1, CodeTypes DEF Generating
<1>3. QED BY <1>1, <1>2

LEMMA NextInstructionPassed ==
    ASSUME Generating, NextInstruction, NEW n PROVE Passed(n)' = Passed(n)
<1>1. /\ at \in 1 .. Len(ta_code) /\ (Live(at) => slot = "end") /\ at' = at + 1 /\ slot' = "arg2"
      /\ UNCHANGED <<ta_code, bb_no>>
  BY NextInstructionIs
<1>2. Now' = 3 * at + 3
  BY <1>1 DEF Now
<1>3. Now \in Int /\ 3 * at <= Now /\ Now <= 3 * at + 3 /\ (Live(at) => Now = 3 * at + 3)
  BY <1>1, Nows DEF Generating, TypeOK
<1>4. ASSUME NEW o \in AccessesOf(n) PROVE Time(o) < 3 * at + 3 <=> Time(o) < Now
  <2>1. /\ o \in Int \X Slots /\ o[1] \in Int /\ Live(o[1]) /\ Time(o) \in Int
        /\ 3 * o[1] <= Time(o) /\ Time(o) < 3 * o[1] + 3
    BY CodeTypes, AccessIs, TimesOrdered
  <2>2. o[1] = at => Now = 3 * at + 3
    BY <1>3, <2>1
  <2>3. QED BY <1>1, <1>3, <2>1, <2>2
<1>5. AccessesOf(n)' = AccessesOf(n)
  BY <1>1, SameAccesses
<1>6. QED BY <1>2, <1>4, <1>5 DEF Passed

LEMMA NextInstructionHanded == ASSUME Generating, NextInstruction PROVE Handed'
<1>1. /\ at \in 1 .. Len(ta_code) /\ at <= Len(ta_code) /\ (Live(at) => slot = "end")
      /\ at' = at + 1 /\ slot' = "arg2"
      /\ fate' = IF Live(at) /\ LastOfBlock(at) THEN BlockStart ELSE fate
      /\ UNCHANGED <<ta_code, bb_no, operands>>
  BY NextInstructionIs
<1>2. ~Returned'
  BY <1>1 DEF Returned
<1>3. ASSUME NEW n \in Ids PROVE Promised(n)'
  <2>1. Passed(n)' = Passed(n)
    BY NextInstructionPassed
  <2>2. CASE Live(at) /\ LastOfBlock(at)
    <3>1. ASSUME NEW p \in Passed(n), Open(p)' PROVE FALSE
      <4>1. PICK m \in at + 1 .. Len(ta_code) : Live(m) /\ bb_no[m] = bb_no[p[1]]
        BY <1>1, <3>1 DEF Open, Live
      <4>2. p[1] \in 1 .. Len(ta_code) /\ Live(p[1]) /\ Time(p) < Now /\ p \in Int \X Slots
        BY CodeTypes, AccessIs DEF Passed
      <4>3. p[1] \in 1 .. at
        <5>1. Now \in Int /\ Now <= 3 * at + 3
          BY Nows DEF Generating, TypeOK
        <5>2. 3 * p[1] <= Time(p) /\ Time(p) \in Int
          BY <4>2, TimesOrdered
        <5>3. QED BY <1>1, <4>2, <5>1, <5>2
      <4>4. QED BY <1>1, <2>2, <4>1, <4>2, <4>3, LastCloses
    <3>2. fate'[n] = BlockStart[n]
      BY <1>1, <2>2
    <3>3. QED BY <2>1, <3>1, <3>2 DEF Promised, BlockStart
  <2>3. CASE ~(Live(at) /\ LastOfBlock(at))
    <3>1. fate' = fate
      BY <1>1, <2>3
    <3>2. ~Returned
      <4>1. Returned => Live(at) /\ EndsBlock(ta_code[at])
        BY DEF Returned, EndsBlock
      <4>2. QED BY <1>1, <2>3, <4>1, EndIsLast
    <3>3. ASSUME NEW p PROVE Open(p)' <=> Open(p)
      <4>1. Open(p)' <=> \E m \in at + 1 .. Len(ta_code) : Live(m) /\ bb_no[m] = bb_no[p[1]]
        BY <1>1 DEF Open, Live
      <4>2. ASSUME Live(at), bb_no[at] = bb_no[p[1]]
            PROVE  \E m \in at + 1 .. Len(ta_code) : Live(m) /\ bb_no[m] = bb_no[p[1]]
        BY <2>3, <4>2 DEF LastOfBlock, Live
      <4>3. \A m \in at .. Len(ta_code) : m = at \/ m \in at + 1 .. Len(ta_code)
        BY <1>1
      <4>4. \A m \in at + 1 .. Len(ta_code) : m \in at .. Len(ta_code)
        BY <1>1
      <4>5. QED BY <4>1, <4>2, <4>3, <4>4 DEF Open
    <3>4. Promised(n)
      BY <3>2 DEF Generating, Handed
    <3>5. QED BY <1>1, <2>1, <3>1, <3>3, <3>4, PromiseKept
  <2>4. QED BY <2>2, <2>3
<1>4. QED BY <1>2, <1>3 DEF Handed

LEMMA NextInstructionIInv == ASSUME IInv, NextInstruction PROVE IInv'
<1>1. Generating
  BY IInvGenerating DEF NextInstruction
<1>2. /\ at \in 1 .. Len(ta_code) /\ at' = at + 1 /\ slot' = "arg2"
      /\ fate' = IF Live(at) /\ LastOfBlock(at) THEN BlockStart ELSE fate
      /\ UNCHANGED <<ta_code, bb_no, tac_info_table, basic_blk, operands, phase>>
  BY <1>1, NextInstructionIs
<1>3. fate' \in [Ids -> {"in", "next", "out", "dead"}]
  <2>1. BlockStart \in [Ids -> {"in", "next", "out", "dead"}]
    BY DEF BlockStart
  <2>2. fate \in [Ids -> {"in", "next", "out", "dead"}]
    BY <1>1 DEF Generating, TypeOK
  <2>3. QED BY <1>2, <2>1, <2>2
<1>4. at' \in 1 .. Len(ta_code) + 1 /\ at' \in 0 .. MaxCode + 1
  <2>1. Len(ta_code) <= MaxCode /\ Len(ta_code) \in Nat /\ MaxCode \in Nat
    BY <1>1, CodeTypes, NextUseAssumption DEF Generating, TypeOK
  <2>2. QED BY <1>2, <2>1
<1>5. TypeOK'
  BY <1>1, <1>2, <1>3, <1>4 DEF Generating, TypeOK, Slots
<1>6. Handed'
  BY <1>1, NextInstructionHanded
<1>7. QED BY <1>1, <1>2, <1>4, <1>5, <1>6, GeneratingIInv

LEMMA StartGeneratorIInv == ASSUME IInv, StartGenerator PROVE IInv'
<1>1. /\ phase = "uses" /\ at = 0 /\ phase' = "gen" /\ at' = 1
      /\ UNCHANGED <<ta_code, bb_no, tac_info_table, basic_blk, operands, slot, fate>>
  BY DEF StartGenerator
<1>2. /\ TypeOK /\ Formed /\ Defined(ta_code) /\ fate = BlockStart /\ slot = "arg2"
      /\ Numbered /\ at <= Len(ta_code) /\ PairsDone(at + 1)
  BY <1>1 DEF IInv
<1>3. ta_code \in Seq(Instr) /\ Len(ta_code) \in Nat /\ MaxCode \in Nat
  BY <1>2, NextUseAssumption DEF TypeOK
<1>4. TypeOK'
  BY <1>1, <1>2, <1>3 DEF TypeOK
<1>5. PairsDone(1)'
  <2>1. PairsDone(1)
    BY <1>1, <1>2
  <2>2. QED BY <1>1, <2>1, PairsKept
<1>6. Handed'
  <2>1. ~Returned' /\ Now' = 3
    BY <1>1, <1>2 DEF Returned, Now
  <2>2. ASSUME NEW n \in Ids PROVE Promised(n)'
    <3>1. AccessesOf(n)' = AccessesOf(n)
      BY <1>1, SameAccesses
    <3>2. \A o \in AccessesOf(n) : ~(Time(o) < 3)
      <4> TAKE o \in AccessesOf(n)
      <4>1. o \in Int \X Slots /\ o[1] \in 1 .. Len(ta_code) /\ Time(o) \in Int /\ 3 * o[1] <= Time(o)
        BY <1>3, AccessIs, TimesOrdered
      <4>2. QED BY <4>1
    <3>3. Passed(n)' = {}
      BY <2>1, <3>1, <3>2 DEF Passed
    <3>4. fate'[n] = BlockStart[n]
      BY <1>1, <1>2
    <3>5. QED BY <3>3, <3>4 DEF Promised, BlockStart
  <2>3. QED BY <2>1, <2>2 DEF Handed
<1>7. Formed' /\ Defined(ta_code)' /\ Numbered'
  BY <1>1, <1>2, CodeKept, NumbersKept
<1>8. QED BY <1>1, <1>3, <1>4, <1>5, <1>6, <1>7 DEF IInv

LEMMA ResetIInv == ASSUME IInv, Reset PROVE IInv'
<1>1. /\ phase = "gen" /\ at > Len(ta_code)
      /\ ta_code' = <<>> /\ bb_no' = <<>> /\ operands' = <<>>
      /\ tac_info_table' = InitInfo /\ basic_blk' = 0
      /\ phase' = "emit" /\ at' = 0 /\ slot' = "arg2" /\ fate' = fate
  BY DEF Reset
<1>2. Generating
  BY <1>1, IInvGenerating
<1>3. fate = BlockStart
  <2>1. at \in Int /\ Len(ta_code) \in Int
    BY <1>2, CodeTypes
  <2>2. ~Returned
    BY <1>1, <2>1 DEF Returned
  <2>3. \A m \in at .. Len(ta_code) : FALSE
    BY <1>1, <2>1
  <2>4. ASSUME NEW n \in Ids PROVE fate[n] = BlockStart[n]
    <3>1. Promised(n)
      BY <1>2, <2>2 DEF Generating, Handed
    <3>2. QED BY <2>3, <3>1 DEF Promised, Open
  <2>5. fate \in [Ids -> {"in", "next", "out", "dead"}]
    BY <1>2 DEF Generating, TypeOK
  <2>6. BlockStart \in [Ids -> {"in", "next", "out", "dead"}]
    BY DEF BlockStart
  <2>7. QED BY <2>4, <2>5, <2>6
<1>4. TypeOK'
  <2>1. InitInfo \in [Ids -> Info] /\ MaxCode \in Nat
    BY NextUseAssumption DEF InitInfo, Info
  <2>2. fate \in [Ids -> {"in", "next", "out", "dead"}]
    BY <1>2 DEF Generating, TypeOK
  <2>3. ta_code' \in Seq(Instr) /\ bb_no' \in Seq(0 .. MaxCode + 1) /\ operands' \in Seq([Slots -> Info])
    BY <1>1
  <2>4. Len(ta_code') = 0 /\ Len(operands') = 0
    BY <1>1
  <2>5. QED BY <1>1, <2>1, <2>2, <2>3, <2>4 DEF TypeOK, Slots
<1>5. Formed' /\ Defined(ta_code)'
  <2>1. Len(ta_code') = 0
    BY <1>1
  <2>2. QED BY <2>1 DEF Formed, Defined
<1>6. (fate = BlockStart)' /\ (tac_info_table = InitInfo)'
  BY <1>1, <1>3 DEF BlockStart, InitInfo
<1>7. QED BY <1>1, <1>4, <1>5, <1>6 DEF IInv

LEMMA NextIInv == IInv /\ [Next]_vars => IInv'
<1> SUFFICES ASSUME IInv, [Next]_vars PROVE IInv'
  OBVIOUS
<1>1. ASSUME NEW i \in Instr, Emit(i) PROVE IInv'
  BY <1>1, EmitIInv
<1>2. CASE CreateBasicBlocks
  BY <1>2, CreateBasicBlocksIInv
<1>3. CASE CreateNextUseInfo
  BY <1>3, SkipIInv, WalkIInv
<1>4. CASE StartGenerator
  BY <1>4, StartGeneratorIInv
<1>5. CASE HandOver
  BY <1>5, HandOverIInv
<1>6. CASE NextInstruction
  BY <1>6, NextInstructionIInv
<1>7. CASE Reset
  BY <1>7, ResetIInv
<1>8. CASE UNCHANGED vars
  <2>1. UNCHANGED <<ta_code, bb_no, tac_info_table, basic_blk, operands, phase, at, slot, fate>>
    BY <1>8 DEF vars
  <2>2. TypeOK' /\ Formed' /\ Defined(ta_code)'
    BY <2>1, CodeKept DEF IInv, TypeOK
  <2>3. phase # "emit" => Numbered'
    BY <2>1, NumbersKept DEF IInv
  <2>4. phase = "uses" => PairsDone(at + 1)' /\ Walked'
    <3>1. SUFFICES ASSUME phase = "uses" PROVE PairsDone(at + 1)' /\ Walked'
      OBVIOUS
    <3>2. PICK table, b, k : table = tac_info_table /\ b = basic_blk /\ k = at
      OBVIOUS
    <3>3. PairsDone(k + 1)'
      BY <2>1, <3>1, <3>2, PairsKept DEF IInv
    <3>4. Describes(table, b, 3 * (k + 1))'
      BY <2>1, <3>1, <3>2, DescribesKept DEF IInv, Walked
    <3>5. tac_info_table' = table /\ basic_blk' = b /\ at' = k
      BY <2>1, <3>2
    <3>6. PairsDone(at + 1)' /\ Describes(tac_info_table, basic_blk, 3 * (at + 1))'
      BY <3>3, <3>4, <3>5 DEF PairsDone
    <3>7. QED BY <2>1, <3>1, <3>6 DEF IInv, Walked, Live
  <2>5. phase = "gen" => PairsDone(1)' /\ Handed'
    <3>1. SUFFICES ASSUME phase = "gen" PROVE PairsDone(1)' /\ Handed'
      OBVIOUS
    <3>2. PairsDone(1)'
      BY <2>1, <3>1, PairsKept DEF IInv
    <3>3. \A n : Passed(n)' = Passed(n)
      BY <2>1, SameAccesses DEF Passed, Now
    <3>4. \A p : Open(p)' <=> Open(p)
      BY <2>1 DEF Open, Live
    <3>5. Returned' <=> Returned
      BY <2>1 DEF Returned, Live
    <3>6. \A n \in Ids : Promised(n) => Promised(n)'
      BY <2>1, <3>3, <3>4, PromiseKept
    <3>7. QED BY <2>1, <3>1, <3>2, <3>5, <3>6 DEF IInv, Handed, BlockStart
  <2>6. QED BY <2>1, <2>2, <2>3, <2>4, <2>5 DEF IInv, BlockStart, InitInfo
<1>9. QED BY <1>1, <1>2, <1>3, <1>4, <1>5, <1>6, <1>7, <1>8 DEF Next

LEMMA AlwaysIInv == Spec => []IInv
BY InitIInv, NextIInv, PTL DEF Spec

\* The instructions, numbers, table and pairs keep their types in every phase.
THEOREM NextUseTypeCorrect == Spec => []TypeOK
<1>1. IInv => TypeOK
  BY DEF IInv
<1>2. QED BY <1>1, AlwaysIInv, PTL

\* create_basic_blocks puts two neighbours in one block exactly when control
\* only falls from the first into the second.
THEOREM AlwaysStraightLine == Spec => []BlocksAreStraightLine
<1>1. IInv => BlocksAreStraightLine
  <2> SUFFICES ASSUME IInv, phase # "emit" PROVE Straight(bb_no) => BlocksAreStraightLine
    BY DEF IInv, Numbered, BlocksAreStraightLine
  <2>1. DOMAIN ta_code = 1 .. Len(ta_code)
    BY DEF IInv, TypeOK
  <2>2. QED BY <2>1 DEF Straight, BlocksAreStraightLine, Live
<1>2. QED BY <1>1, AlwaysIInv, PTL

\* The pair of every operand is what the definition over the finished code says:
\* next_use the very next access if that is a read, alive if the value may
\* still be wanted.
THEOREM AlwaysPairsAreRight == Spec => []PairsAreRight
<1>1. IInv => PairsAreRight
  <2> SUFFICES ASSUME IInv, phase = "gen", NEW id \in Ids, NEW p \in AccessesOf(id)
               PROVE  LET info == operands[p[1]][p[2]]
                          read == Later(p) # {} /\ IsRead(Following(p))
                      IN  /\ info.next_use = IF read THEN Following(p) ELSE Null
                          /\ info.alive = (read \/ ta_code[p[1]].kind = "return"
                                                \/ (Later(p) = {} /\ id \in Vars))
    BY DEF PairsAreRight
  <2>1. Generating
    BY IInvGenerating
  <2>2. /\ p[1] \in 1 .. Len(ta_code) /\ p[2] \in Slots /\ p = <<p[1], p[2]>>
        /\ Live(p[1]) /\ ta_code[p[1]][p[2]] = id /\ Time(p) \in Int /\ id # NoAddr
    BY <2>1, CodeTypes, AccessIs, IdsAreNot
  <2>3. PICK k, s, b, t, info : /\ k = p[1] /\ s = p[2] /\ b = bb_no[p[1]] /\ t = Time(p) + 1
                                /\ info = operands[p[1]][p[2]]
    OBVIOUS
  <2>4. PairRight(info, k, s)
    BY <2>1, <2>2, <2>3 DEF Generating, PairsDone
  <2>5. PICK raw \in Info :
           /\ Says(raw, id, b, t)
           /\ info = IF ta_code[k].kind = "return" THEN [raw EXCEPT !.alive = TRUE] ELSE raw
    BY <2>2, <2>3, <2>4 DEF PairRight
  <2>6. /\ info.next_use = raw.next_use
        /\ info.alive \in BOOLEAN /\ raw.alive \in BOOLEAN
        /\ info.alive <=> raw.alive \/ ta_code[k].kind = "return"
    <3>1. CASE ta_code[k].kind = "return"
      <4>1. info = [raw EXCEPT !.alive = TRUE]
        BY <2>5, <3>1
      <4>2. QED BY <3>1, <4>1 DEF Info
    <3>2. CASE ta_code[k].kind # "return"
      <4>1. info = raw
        BY <2>5, <3>2
      <4>2. QED BY <3>2, <4>1 DEF Info
    <3>3. QED BY <3>1, <3>2
  <2>7. \A o \in AccessesOf(id) : Time(o) \in Int
    BY <2>1, CodeTypes, AccessIs
  <2>8. Later(p) = Accesses(id, b, t)
    BY <2>2, <2>3, <2>7 DEF Later, Accesses
  <2>9. CASE Later(p) = {}
    <3>1. raw = [alive |-> id \in Vars, next_use |-> Null]
      BY <2>5, <2>8, <2>9 DEF Says
    <3>2. raw.next_use = Null /\ (raw.alive <=> id \in Vars)
      BY <3>1
    <3>3. info.next_use = Null /\ (info.alive <=> ta_code[p[1]].kind = "return" \/ id \in Vars)
      BY <2>3, <2>6, <3>2
    <3>4. info.alive = (ta_code[p[1]].kind = "return" \/ id \in Vars)
      BY <2>6, <3>3
    <3>5. QED BY <2>3, <2>9, <3>3, <3>4
  <2>10. CASE Later(p) # {}
    <3>1. PICK q \in Later(p) :
             /\ First(id, b, t, q)
             /\ raw = IF IsRead(q) THEN [alive |-> TRUE, next_use |-> q]
                                   ELSE [alive |-> FALSE, next_use |-> Null]
      BY <2>5, <2>8, <2>10 DEF Says
    <3>2. Following(p) = q
      <4>1. \A o \in Later(p) : Time(q) <= Time(o)
        BY <2>8, <3>1 DEF First
      <4>2. Following(p) \in Later(p) /\ \A o \in Later(p) : Time(Following(p)) <= Time(o)
        BY <4>1 DEF Following
      <4>3. PICK r : r = Following(p)
        OBVIOUS
      <4>4. r \in AccessesOf(id) /\ q \in AccessesOf(id) /\ Time(r) <= Time(q) /\ Time(q) <= Time(r)
        BY <2>8, <4>1, <4>2, <4>3 DEF Accesses
      <4>5. r \in Int \X Slots /\ q \in Int \X Slots /\ Time(r) = Time(q)
        BY <2>1, <2>7, <4>4, CodeTypes, AccessIs
      <4>6. QED BY <4>3, <4>5, TimesOrdered
    <3>3. CASE IsRead(q)
      <4>1. raw = [alive |-> TRUE, next_use |-> q]
        BY <3>1, <3>3
      <4>2. info.next_use = q /\ info.alive
        BY <2>6, <4>1
      <4>3. info.alive = TRUE
        BY <2>6, <4>2
      <4>4. QED BY <2>3, <2>10, <3>2, <3>3, <4>2, <4>3
    <3>4. CASE ~IsRead(q)
      <4>1. raw = [alive |-> FALSE, next_use |-> Null]
        BY <3>1, <3>4
      <4>2. info.next_use = Null /\ (info.alive <=> ta_code[k].kind = "return")
        BY <2>6, <4>1
      <4>3. info.alive = (ta_code[k].kind = "return")
        BY <2>6, <4>2
      <4>4. QED BY <2>3, <2>10, <3>2, <3>4, <4>2, <4>3
    <3>5. QED BY <3>3, <3>4
  <2>11. QED BY <2>9, <2>10
<1>2. QED BY <1>1, AlwaysIInv, PTL

(***************************************************************************)
(* UseContract.  A hand-over is a read, a write or the read of a return;   *)
(* the end of a block is its end; no other step is seen.                   *)
(***************************************************************************)

LEMMA ContractStart == Contract!BlockStart = BlockStart
BY DEF Contract!BlockStart, Contract!Names, BlockStart, Ids

LEMMA HandOverContract ==
    ASSUME Generating, HandOver PROVE [Contract!ContractNext]_fate
<1>1. /\ at \in 1 .. Len(ta_code) /\ at <= Len(ta_code) /\ Live(at) /\ slot \in Slots
      /\ fate \in [Ids -> {"in", "next", "out", "dead"}]
  BY HandOverIs
<1>2. PICK id : id = ta_code[at][slot]
  OBVIOUS
<1>3. PICK q : q = <<at, slot>>
  OBVIOUS
<1>4. CASE id = NoAddr /\ fate' = fate
  BY <1>4
<1>5. CASE id \in Ids /\ ta_code[at].kind = "return" /\ fate' = BlockStart /\ slot = "arg1" /\ ~Returned
  <2>1. IsRead(q)
    BY <1>3, <1>5 DEF IsRead
  <2>2. fate[id] \in {"in", "next"}
    BY <1>1, <1>2, <1>3, <1>5, <2>1, MayAccess
  <2>3. LastOfBlock(at)
    BY <1>1, <1>5, EndIsLast DEF EndsBlock
  <2>4. ASSUME NEW n \in Ids \ {id} PROVE fate[n] # "next" /\ (n \in Vars => fate[n] # "dead")
    <3>1. ASSUME NEW o \in Accesses(n, bb_no[at], Now) PROVE FALSE
      <4>1. o \in AccessesOf(n) /\ bb_no[o[1]] = bb_no[at] /\ Now <= Time(o)
        BY DEF Accesses
      <4>2. /\ o \in Int \X Slots /\ o[1] \in 1 .. Len(ta_code) /\ o[2] \in Slots
            /\ Live(o[1]) /\ ta_code[o[1]][o[2]] = n
            /\ Time(o) \in Int /\ Time(o) < 3 * o[1] + 3
        BY <4>1, CodeTypes, AccessIs, TimesOrdered
      <4>3. Now \in Int /\ 3 * at <= Now
        BY <1>1, Nows
      <4>4. at <= o[1]
        BY <1>1, <4>1, <4>2, <4>3
      <4>5. o[1] = at
        <5>1. o[1] \notin at + 1 .. Len(ta_code)
          BY <2>3, <4>1, <4>2 DEF LastOfBlock, Live
        <5>2. QED BY <1>1, <4>2, <4>4, <5>1
      <4>6. n # NoAddr /\ id # NoAddr
        BY <1>5, IdsAreNot
      <4>7. o[2] = "arg1"
        BY <1>1, <1>5, <4>2, <4>5, <4>6, ReturnsOperand
      <4>8. QED BY <1>2, <1>5, <4>2, <4>5, <4>7
    <3>2. Accesses(n, bb_no[at], Now) = {}
      BY <3>1
    <3>3. QED BY <1>1, <1>5, <3>2, NothingPending
  <2>5. Contract!CanEnd(Contract!Promise(fate, id, "out"))
    <3>1. PICK f : f = [fate EXCEPT ![id] = "out"]
      OBVIOUS
    <3>2. f[id] = "out" /\ \A n \in Ids \ {id} : f[n] = fate[n]
      BY <1>1, <1>5, <3>1
    <3>3. \A n \in Ids : f[n] # "next" /\ (n \in Vars => f[n] # "dead")
      BY <2>4, <3>2
    <3>4. QED BY <3>1, <3>3 DEF Contract!CanEnd, Contract!Promise, Contract!Names, Ids
  <2>6. Contract!ReturnRead(id)
    BY <1>5, <2>2, <2>5, ContractStart DEF Contract!ReturnRead, Contract!CanRead
  <2>7. id \in Contract!Names
    BY <1>5 DEF Contract!Names, Ids
  <2>8. QED BY <2>6, <2>7 DEF Contract!ContractNext
<1>6. CASE /\ id \in Ids /\ ta_code[at].kind # "return" /\ ~Returned
           /\ fate' = [fate EXCEPT ![id] = Flag(operands[at][slot])]
  <2>1. PICK flag : flag = Flag(operands[at][slot])
    OBVIOUS
  <2>2. flag \in Contract!FlagsFor(id)
    <3>1. id # NoAddr
      BY <1>6, IdsAreNot
    <3>2. PICK info, b, t : info = operands[at][slot] /\ b = bb_no[at] /\ t = Time(<<at, slot>>) + 1
      OBVIOUS
    <3>3. PairRight(info, at, slot)
      BY <1>1, <1>2, <3>1, <3>2 DEF Generating, PairsDone
    <3>4. Says(info, id, b, t)
      BY <1>2, <1>6, <3>2, <3>3 DEF PairRight
    <3>5. ta_code \in Seq(Instr) /\ Len(ta_code) <= MaxCode
      BY DEF Generating, TypeOK
    <3>6. Accesses(id, b, t) = {} => flag = IF id \in Vars THEN "out" ELSE "dead"
      BY <1>2, <1>6, <2>1, <3>2, <3>3, <3>5, FlagIs
    <3>7. Accesses(id, b, t) # {} => flag \in {"next", "dead"}
      <4>1. SUFFICES ASSUME Accesses(id, b, t) # {} PROVE flag \in {"next", "dead"}
        OBVIOUS
      <4>2. PICK r \in Accesses(id, b, t) : First(id, b, t, r)
        BY <3>4, <4>1 DEF Says
      <4>3. r \in AccessesOf(id)
        BY <4>2 DEF Accesses
      <4>4. flag = IF IsRead(r) THEN "next" ELSE "dead"
        BY <1>2, <1>6, <2>1, <3>2, <3>3, <3>5, <4>2, <4>3, FlagIs
      <4>5. QED BY <4>4
    <3>8. QED BY <3>6, <3>7 DEF Contract!FlagsFor, Contract!Flags
  <2>3. fate' = Contract!Promise(fate, id, flag)
    BY <1>6, <2>1 DEF Contract!Promise
  <2>4. /\ IsRead(q) => fate[id] \in {"in", "next"}
        /\ ~IsRead(q) => fate[id] \in {"in", "dead"}
    BY <1>1, <1>2, <1>3, <1>6, MayAccess
  <2>5. Contract!Read(id, flag) \/ Contract!Write(id, flag)
    BY <2>3, <2>4 DEF Contract!Read, Contract!Write, Contract!CanRead, Contract!CanWrite
  <2>6. id \in Contract!Names
    BY <1>6 DEF Contract!Names, Ids
  <2>7. QED BY <2>2, <2>5, <2>6 DEF Contract!ContractNext
<1>7. QED BY <1>2, <1>4, <1>5, <1>6, HandOverCases

LEMMA NextInstructionContract ==
    ASSUME Generating, NextInstruction PROVE [Contract!ContractNext]_fate
<1>1. /\ at \in 1 .. Len(ta_code) /\ at <= Len(ta_code) /\ (Live(at) => slot = "end")
      /\ fate' = IF Live(at) /\ LastOfBlock(at) THEN BlockStart ELSE fate
  BY NextInstructionIs
<1>2. CASE ~(Live(at) /\ LastOfBlock(at))
  BY <1>1, <1>2
<1>3. CASE Returned
  <2>1. fate = BlockStart
    BY <1>3 DEF Generating, Handed
  <2>2. QED BY <1>1, <2>1
<1>4. CASE Live(at) /\ LastOfBlock(at) /\ ~Returned
  <2>1. ASSUME NEW n \in Ids PROVE fate[n] # "next" /\ (n \in Vars => fate[n] # "dead")
    <3>1. ASSUME NEW o \in Accesses(n, bb_no[at], Now) PROVE FALSE
      <4>1. o \in AccessesOf(n) /\ bb_no[o[1]] = bb_no[at] /\ Now <= Time(o)
        BY DEF Accesses
      <4>2. /\ o \in Int \X Slots /\ o[1] \in 1 .. Len(ta_code) /\ Live(o[1])
            /\ Time(o) \in Int /\ Time(o) < 3 * o[1] + 3
        BY <4>1, CodeTypes, AccessIs, TimesOrdered
      <4>3. Now = 3 * at + 3
        BY <1>1, <1>4, Nows
      <4>4. o[1] \in at + 1 .. Len(ta_code)
        BY <1>1, <4>1, <4>2, <4>3
      <4>5. QED BY <1>4, <4>1, <4>2, <4>4 DEF LastOfBlock, Live
    <3>2. Accesses(n, bb_no[at], Now) = {}
      BY <3>1
    <3>3. QED BY <1>1, <1>4, <3>2, NothingPending
  <2>2. Contract!CanEnd(fate)
    BY <2>1 DEF Contract!CanEnd, Contract!Names, Ids
  <2>3. Contract!EndBlock
    BY <1>1, <1>4, <2>2, ContractStart DEF Contract!EndBlock
  <2>4. QED BY <2>3 DEF Contract!ContractNext
<1>5. QED BY <1>2, <1>3, <1>4

\* Operand by operand, what the generator is handed keeps the contract that
\* CodeGen relies on, for any function that the front end can emit.
THEOREM SpecImplementsContract == Spec => ImplementsContract
<1>1. Init => Contract!ContractInit
  BY ContractStart DEF Init, Contract!ContractInit
<1>2. IInv /\ [Next]_vars => [Contract!ContractNext]_fate
  <2> SUFFICES ASSUME IInv, [Next]_vars PROVE [Contract!ContractNext]_fate
    OBVIOUS
  <2>1. CASE HandOver
    BY <2>1, IInvGenerating, HandOverContract DEF HandOver
  <2>2. CASE NextInstruction
    BY <2>2, IInvGenerating, NextInstructionContract DEF NextInstruction
  <2>3. CASE ~HandOver /\ ~NextInstruction
    <3>1. UNCHANGED fate
      BY <2>3 DEF Next, Emit, CreateBasicBlocks, CreateNextUseInfo, StartGenerator, Reset, vars
    <3>2. QED BY <3>1
  <2>4. QED BY <2>1, <2>2, <2>3
<1>3. QED BY <1>1, <1>2, AlwaysIInv, PTL DEF Spec, ImplementsContract, Contract!ContractSpec
===============================================================================
