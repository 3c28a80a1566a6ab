------------------------------ MODULE Optimise ------------------------------
(***************************************************************************)
(* optimise_pass1 of 3ac.cpp: one walk over a function's code that folds   *)
(* conditions, removes jumps that are never taken, labels nothing jumps to *)
(* and code behind a jump, merges neighbouring labels and renames a label  *)
(* in front of a jump to the jump's target.  The walk changes what it has  *)
(* passed (names), what it stands on and what lies ahead (reference        *)
(* counts) at once.                                                        *)
(*                                                                         *)
(* Instructions keep their places, so that the code before and after can   *)
(* be compared place by place: source is the code as it was.               *)
(***************************************************************************)
EXTENDS Integers, Sequences, FiniteSetsExt

CONSTANT Bounds   \* the kinds of functions to go through

ASSUME OptimiseAssumption ==
    \A b \in Bounds : /\ b.conditions \subseteq {"always", "var", "zero", "one"}
                      /\ b.surplus \subseteq Nat /\ b.code \in Nat

VARIABLES source, ta_code,   \* the code before, and as it is now
          labels,            \* label -> name, reference_count
          at,                \* the iterator
          goto2, label2,     \* the instruction before, if it is a jump, a label
          phase, fault,
          bound              \* the function's bound, chosen once

vars == <<bound, source, ta_code, labels, at, goto2, label2, phase, fault>>

Conditions == bound.conditions   \* bound: what the jumps' conditions may be
Surplus    == bound.surplus      \* bound: how far above the jumps a label's count may be
MaxCode    == bound.code         \* bound: instructions in the function

None == 0

\* An instruction: to is a jump's label or a label's own number.  A jump on
\* "var" is taken when the variable is as when says, one with neg when its
\* negation, which a "!" quad has computed, is.
Quad       == [kind |-> "quad", cond |-> "always", neg |-> FALSE, when |-> TRUE, to |-> None, dead |-> FALSE]
DeadQuad   == [Quad EXCEPT !.dead = TRUE]
LabelOf(n) == [Quad EXCEPT !.kind = "label", !.to = n]
Gotos      == [kind : {"goto"}, cond : Conditions, neg : BOOLEAN, when : BOOLEAN, to : 1 .. MaxCode, dead : {FALSE}]

LabelsIn(code) == {k \in DOMAIN code : code[k].kind = "label"}
JumpsIn(code)  == {k \in DOMAIN code : code[k].kind = "goto"}
Wanted(code)   == Max({0} \cup {code[k].to : k \in JumpsIn(code)})

\* A jump without condition, as create_new_goto makes it, is in one form only.
WellFormed(g) == g.cond = "always" => ~g.neg /\ g.when

Init ==
    /\ source = <<>> /\ ta_code = <<>> /\ labels = <<>>
    /\ at = 1 /\ goto2 = None /\ label2 = None
    /\ phase = "emit" /\ fault = "none"
    /\ bound \in Bounds

\* The code the statements leave, every jump patched to one of its labels.
Emit ==
    /\ phase = "emit" /\ Len(source) < MaxCode
    /\ \E i \in {Quad, DeadQuad, LabelOf(Cardinality(LabelsIn(source)) + 1)} \cup {g \in Gotos : WellFormed(g)} :
          /\ source' = Append(source, i)
          /\ Wanted(source') - Cardinality(LabelsIn(source')) <= MaxCode - Len(source')
    /\ UNCHANGED <<bound, ta_code, labels, at, goto2, label2, phase, fault>>

\* dump_and_reset_3ac: a label's count is the jumps patched to it, and more
\* when a list was patched twice.
Start ==
    /\ phase = "emit" /\ source # <<>>
    /\ Wanted(source) <= Cardinality(LabelsIn(source))
    /\ \E extra \in Surplus :
          labels' = [n \in 1 .. Cardinality(LabelsIn(source)) |->
                        [name |-> n, refs |-> extra + Cardinality({k \in JumpsIn(source) : source[k].to = n})]]
    /\ ta_code' = source /\ phase' = "pass"
    /\ UNCHANGED <<bound, source, at, goto2, label2, fault>>

(***************************************************************************)
(* The loop's body.                                                        *)
(***************************************************************************)
Not(i)   == IF i.neg THEN [i EXCEPT !.neg = FALSE, !.when = ~@] ELSE i
Fixed(i) == i.kind = "goto" /\ i.cond \in {"zero", "one"}

Taken(i) == i.when = (i.cond = "one")

\* The instruction at the iterator with its condition folded.
Current ==
    LET i == Not(ta_code[at])
    IN  IF Fixed(i) /\ Taken(i) THEN [i EXCEPT !.cond = "always", !.when = TRUE] ELSE i

AtALive       == phase = "pass" /\ at <= Len(ta_code) /\ ~ta_code[at].dead
Here(kind)    == AtALive /\ Current.kind = kind

\* Mutant: an instruction that goes takes the iterator past the next one.
AdvanceTwice == at' = at + 2 /\ UNCHANGED <<bound, source, phase>>

Advance       == at' = at + 1 /\ UNCHANGED <<bound, source, phase>>
Kill(i)       == ta_code' = [ta_code EXCEPT ![at] = [i EXCEPT !.dead = TRUE]]
Unreferenced  == labels[Current.to].refs = 0
\* goto2 is the jump before it, and that has no condition any more.
BehindAJump   == goto2 # None /\ ta_code[goto2].cond = "always"

\* Mutant: the iterator is not moved past a dead instruction.
SkipDeadStays ==
    /\ phase = "pass" /\ at <= Len(ta_code) /\ ta_code[at].dead
    /\ UNCHANGED vars

\* An instruction that was dead before, as a temporary nobody reads: the jump
\* or label before it still counts as the one before.
SkipDead ==
    /\ phase = "pass" /\ at <= Len(ta_code) /\ ta_code[at].dead
    /\ Advance /\ UNCHANGED <<ta_code, labels, goto2, label2, fault>>

\* Mutant: a jump behind a jump is taken off its label's count twice.
DropJumpTwice ==
    /\ Here("goto") /\ (Fixed(Current) \/ BehindAJump)
    /\ Kill(Current)
    /\ labels' = [labels EXCEPT ![Current.to].refs = @ - 2]
    /\ Advance /\ UNCHANGED <<goto2, label2, fault>>

\* A jump whose condition never holds, or behind a jump.
DropJump ==
    /\ Here("goto") /\ (Fixed(Current) \/ BehindAJump)
    /\ Kill(Current)
    /\ labels' = [labels EXCEPT ![Current.to].refs = @ - 1]
    /\ Advance /\ UNCHANGED <<goto2, label2, fault>>

\* A label nothing jumps to, or a quad behind a jump.
DropOther ==
    /\ (Here("label") /\ Unreferenced) \/ (Here("quad") /\ BehindAJump)
    /\ Kill(Current)
    /\ Advance /\ UNCHANGED <<labels, goto2, label2, fault>>

\* Mutant: the first of two labels goes, and the second keeps its own name.
MergeLabelBackwards ==
    /\ Here("label") /\ ~Unreferenced /\ label2 # None
    /\ ta_code' = [ta_code EXCEPT ![label2].dead = TRUE]
    /\ label2' = at
    /\ Advance /\ UNCHANGED <<labels, goto2, fault>>

\* The second of two labels becomes a copy of the first.  A label that took
\* its name before keeps it: the name is not printed any more.
MergeLabel ==
    /\ Here("label") /\ ~Unreferenced /\ label2 # None
    /\ LET l1 == Current.to
       IN  /\ labels' = [labels EXCEPT ![l1] = labels[ta_code[label2].to]]
           /\ fault' = IF \E n \in DOMAIN labels \ {l1} : labels[n].name = labels[l1].name THEN "name" ELSE fault
    /\ Kill(Current)
    /\ Advance /\ UNCHANGED <<goto2, label2>>

KeepLabel ==
    /\ Here("label") /\ ~Unreferenced /\ label2 = None
    /\ goto2' = None /\ label2' = at
    /\ Advance /\ UNCHANGED <<ta_code, labels, fault>>

KeepQuad ==
    /\ Here("quad") /\ ~BehindAJump
    /\ goto2' = None /\ label2' = None
    /\ Advance /\ UNCHANGED <<ta_code, labels, fault>>

\* A jump that stays.  The label in front of one without condition takes the
\* name of the jump's label and goes; a label that was merged into it, or took
\* its name, is left with a name that is not printed any more, and so is the
\* jump if it is to that label itself.
KeepJump ==
    /\ Here("goto") /\ ~Fixed(Current) /\ ~BehindAJump
    /\ LET rename == label2 # None /\ Current.cond = "always"
           l2     == ta_code[label2].to
           target == labels[Current.to]
       IN  /\ ta_code' = [[ta_code EXCEPT ![at] = Current] EXCEPT ![IF rename THEN label2 ELSE at].dead = rename]
           /\ labels' = IF ~rename THEN labels
                        ELSE [[labels EXCEPT ![Current.to].refs = @ + labels[l2].refs] EXCEPT ![l2].name = target.name]
           /\ fault' = IF rename /\ \E n \in DOMAIN labels : /\ labels[n].name = labels[l2].name
                                                             /\ n # l2 \/ n = Current.to
                       THEN "name" ELSE fault
    /\ goto2' = at /\ label2' = None
    /\ Advance

Finish ==
    /\ phase = "pass" /\ at > Len(ta_code)
    /\ phase' = "done"
    /\ UNCHANGED <<bound, source, ta_code, labels, at, goto2, label2, fault>>

Done == phase = "done" /\ UNCHANGED vars

Next ==
    \/ Emit \/ Start
    \/ SkipDead \/ DropJump \/ DropOther \/ MergeLabel \/ KeepLabel \/ KeepQuad \/ KeepJump
    \/ Finish \/ Done

Spec == Init /\ [][Next]_vars /\ WF_vars(Next)

(***************************************************************************)
(* What code does: from a place to the next one where something shows.     *)
(***************************************************************************)
End       == MaxCode + 1
Spinning  == MaxCode + 2     \* jumps and labels for ever
Undefined == MaxCode + 3     \* a name no label prints

Shows(i)   == ~i.dead /\ (i.kind = "quad" \/ (i.kind = "goto" /\ i.cond = "var"))
Jumps(i)   == ~i.dead /\ i.kind = "goto" /\ (i.cond = "always" \/ (Fixed(i) /\ ((i.cond = "one") # i.neg) = i.when))

\* The place of every jump's label, by number before the pass and by name after it.
TargetBefore == [j \in JumpsIn(source) |-> CHOOSE k \in LabelsIn(source) : source[k].to = source[j].to]
TargetAfter ==
    [j \in JumpsIn(ta_code) |->
        LET printed == {k \in LabelsIn(ta_code) : ~ta_code[k].dead
                                                  /\ labels[ta_code[k].to].name = labels[ta_code[j].to].name}
        IN  IF printed = {} THEN Undefined ELSE Min(printed)]

\* From every place to the one that comes next while nothing shows.
Moves(code, target) ==
    [p \in 1 .. Undefined |->
        IF p > MaxCode THEN p
        ELSE IF p > Len(code) THEN End
        ELSE IF Shows(code[p]) THEN p
        ELSE IF Jumps(code[p]) THEN target[p]
        ELSE p + 1]

Onward(moves, p) ==
    LET from[n \in 0 .. 2 * MaxCode] == IF n = 0 THEN p ELSE moves[from[n - 1]]
        last == from[2 * MaxCode]
    IN  IF moves[last] = last THEN last ELSE Spinning

\* Where the code goes from a place that shows, with the variable of a jump
\* true or false.
Takes(i, x) == i.kind = "goto" /\ (x # i.neg) = i.when
After(code, target, moves, p, x) == Onward(moves, IF Takes(code[p], x) THEN target[p] ELSE p + 1)

\* The places of r, and those that source goes on to from one of them.
Further(before, r) ==
    r \cup {After(source, TargetBefore, before, p, x) : p \in r \cap (1 .. MaxCode), x \in BOOLEAN}

\* The places that source comes to and that show.
Reached(before) ==
    LET reached[n \in 0 .. MaxCode] == IF n = 0 THEN {Onward(before, 1)} ELSE Further(before, reached[n - 1])
    IN  reached[MaxCode] \cap (1 .. MaxCode)

(***************************************************************************)
(* Properties.                                                             *)
(***************************************************************************)

\* Every label keeps the name of some label, whatever was merged and renamed.
\* (The count of a label already passed may go below zero.)
TypeOK ==
    /\ \A n \in DOMAIN labels : labels[n].name \in DOMAIN labels /\ labels[n].refs \in Int
    /\ at \in 1 .. MaxCode + 1 /\ goto2 \in 0 .. MaxCode /\ label2 \in 0 .. MaxCode
    /\ phase \in {"emit", "pass", "done"} /\ fault \in {"none", "name"}

\* Unless a label's name changed under one that had copied it, the code does
\* after the pass what it did before: it starts at the same place, and every
\* place it reaches that shows is still there and goes on to the same places.
MeaningKept ==
    (phase = "done" /\ fault = "none") =>
        LET before == Moves(source, TargetBefore)
            after  == Moves(ta_code, TargetAfter)
        IN  /\ Onward(after, 1) = Onward(before, 1)
            /\ \A p \in Reached(before) :
                  /\ Shows(ta_code[p])
                  /\ \A x \in BOOLEAN : After(ta_code, TargetAfter, after, p, x)
                                        = After(source, TargetBefore, before, p, x)

\* No jump is left to a label that is not printed.
NamesPrinted ==
    (phase = "done" /\ fault = "none") =>
        \A k \in JumpsIn(ta_code) : ~ta_code[k].dead => TargetAfter[k] # Undefined

\* A label ahead of the walk is counted for every jump that still leads to it:
\* a label whose count reaches zero may go.
CountsCover ==
    phase = "pass" =>
        \A k \in LabelsIn(ta_code) :
            k >= at => labels[ta_code[k].to].refs
                       >= Cardinality({j \in JumpsIn(ta_code) : ~ta_code[j].dead /\ ta_code[j].to = ta_code[k].to})

\* The walk comes to its end whatever it removes.
WalkEnds == <>(phase = "done")
=============================================================================
