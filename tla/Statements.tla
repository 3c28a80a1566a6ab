----------------------------- MODULE Statements -----------------------------
(***************************************************************************)
(* statement.cpp with the mid-rule actions of the grammar and the jump     *)
(* lists of 3ac.cpp: how the parser turns nested statements into labels    *)
(* and jumps, and backpatches the jumps when it learns where they go.      *)
(*                                                                         *)
(* A behaviour is a program text, one grammar action at a time.  stack is  *)
(* the parser's stack of open statements, value the statement it reduced   *)
(* last.  Of the code only positions matter: a label's is the number of    *)
(* instructions before it, and two labels are one place exactly when no    *)
(* instruction lies between.  Every jump carries want, the point of the    *)
(* SOURCE it has to reach, and place records where each of those points    *)
(* came to lie: neither is known to the program.                           *)
(***************************************************************************)
EXTENDS Integers, Sequences, FiniteSetsExt

CONSTANTS Names,    \* label names
          Consts,   \* case constants
          Bounds    \* the kinds of texts to go through

ASSUME StatementsAssumption ==
    /\ Names \subseteq Nat /\ Consts \subseteq Nat \ {0}
    /\ \A b \in Bounds : b.statements \in Nat /\ b.functions \in Nat

VARIABLES ta_code,     \* the function's code: instructions so far, labels, jumps
          stack,       \* open statements, the function's body at the bottom
          value,       \* the statement reduced last, if the parser holds one
          idLabel,     \* name -> its label
          idGoto,      \* name -> jumps waiting for it
          lblSwitch,   \* case constant -> its label
          tmpSwitch,   \* the last default's label
          place,       \* point of the source -> position
          statements, functions, phase, fault,
          bound        \* the text's bound, chosen once

Productions   == bound.productions   \* bound: the constructs the text is made of
MaxStatements == bound.statements    \* bound: statements in one function
MaxFunctions  == bound.functions     \* bound: functions in one program

\* The functions of module TLC, of which a proof can use nothing.
a :> b == [x \in {a} |-> b]
f @@ g == [x \in DOMAIN f \cup DOMAIN g |-> IF x \in DOMAIN f THEN f[x] ELSE g[x]]

globals == <<idLabel, idGoto, lblSwitch, tmpSwitch>>
vars == <<ta_code, stack, value, globals, place, statements, functions, phase, fault, bound>>

Default   == 0                  \* the key "" of lblSwitch
NoLabel   == 0
Elsewhere == -1                 \* a label of an earlier function

Lists     == {"next", "break", "continue", "return"}   \* caselist is never filled
NoLists   == [l \in Lists |-> {}]
Null      == [null |-> TRUE, lists |-> NoLists]
Stmt(ls)  == [null |-> FALSE, lists |-> ls]
NoCode    == [instrs |-> 0, labels |-> <<>>, gotos |-> <<>>]
Exprs     == {"plain"} \cup (Productions \cap {"and", "or"})
Loops     == {"while", "do", "for", "for3"}
Compound  == Loops \cup {"block", "if", "switch", "case", "default", "label"}
Roles     == {"after", "body", "else", "test", "step", "dispatch", "case", "label", "end"}

(***************************************************************************)
(* 3ac.cpp                                                                 *)
(***************************************************************************)
Exec(c)           == [c EXCEPT !.instrs = @ + 1]
NewLabel(c)       == [c EXCEPT !.labels = Append(@, c.instrs)]
\* Mutant: the number of the label that comes next.
NextLabel(c)      == Len(c.labels) + 1
LastLabel(c)      == Len(c.labels)
LastGoto(c)       == Len(c.gotos)
NewJump(c, w, l, cond) ==
    [Exec(c) EXCEPT !.gotos = Append(@, [at |-> c.instrs, cond |-> cond, label |-> l, want |-> w])]
NewGotoTo(c, w, l)  == NewJump(c, w, l, FALSE)
NewGoto(c, w)       == NewJump(c, w, NoLabel, FALSE)
NewGotoCond(c, w)   == NewJump(c, w, NoLabel, TRUE)

\* Mutant: a jump that has a label keeps it.
BackpatchOnce(c, list, l) ==
    IF l = NoLabel THEN c
    ELSE [c EXCEPT !.gotos = [g \in DOMAIN @ |-> IF g \in list /\ @[g].label = NoLabel
                                                  THEN [@[g] EXCEPT !.label = l] ELSE @[g]]]

Backpatch(c, list, l) ==
    IF l = NoLabel THEN c
    ELSE [c EXCEPT !.gotos = [g \in DOMAIN @ |-> IF g \in list THEN [@[g] EXCEPT !.label = l] ELSE @[g]]]

\* The operator whose jump is taken on this outcome of its left operand.
JumpsOn(outcome) == IF outcome THEN "or" ELSE "and"

\* An expression as the statements see it: its code and its two jump lists.
\* a && b jumps past b when a is false, a || b when a is true.
Condition(c, e, whenTrue, whenFalse) ==
    LET jump == NewGotoCond(Exec(c), IF e = "and" THEN whenFalse ELSE whenTrue)
        g    == {LastGoto(jump)}
    IN  IF e = "plain" THEN [c |-> Exec(c), true |-> {}, false |-> {}]
        ELSE [c |-> Exec(NewLabel(jump)),
              true |-> IF e = JumpsOn(TRUE) THEN g ELSE {}, false |-> IF e = JumpsOn(FALSE) THEN g ELSE {}]

(***************************************************************************)
(* The parser's stack.                                                     *)
(***************************************************************************)
Frame(kind, id) ==
    [kind |-> kind, id |-> id, true |-> {}, false |-> {}, l1 |-> NoLabel, l2 |-> NoLabel,
     goto1 |-> 0, goto2 |-> 0, st |-> Null, seen |-> FALSE,
     own |-> [k \in Consts \cup {Default} |-> 0]]

Body   == Frame("block", 0)
Top    == stack[Len(stack)]
Below  == SubSeq(stack, 1, Len(stack) - 1)
Id     == statements + 1

\* The innermost open statement of one of these kinds, 0 if there is none.
Innermost(kinds) == Max({0} \cup {i \in DOMAIN stack : stack[i].kind \in kinds})

Init ==
    /\ ta_code = NoCode /\ stack = <<Body>> /\ value = [ready |-> FALSE, st |-> Null]
    /\ idLabel = [n \in Names |-> NoLabel] /\ idGoto = [n \in Names |-> {}]
    /\ lblSwitch = [k \in Consts \cup {Default} |-> NoLabel] /\ tmpSwitch = NoLabel
    /\ place = <<>>
    /\ statements = 0 /\ functions = 1 /\ phase = "parse" /\ fault = "none"
    /\ bound \in Bounds

\* The text goes on with this construct, which leaves room for the statement
\* inside it.  It ends at its first fault.
Expecting(p) ==
    /\ phase = "parse" /\ ~value.ready /\ fault = "none"
    /\ statements < MaxStatements - (IF p \in Compound THEN 1 ELSE 0) /\ p \in Productions

\* statement_list's mid-rule action: what the list's last statement left
\* open goes to a label in front of the next one.
Opened ==
    IF Top.kind # "block" \/ Top.st.lists["next"] = {} THEN ta_code
    ELSE LET c == NewLabel(ta_code) IN Backpatch(c, Top.st.lists["next"], LastLabel(c))

Blame(f, guilty) == fault' = IF fault = "none" /\ guilty THEN f ELSE fault

\* A statement without parts.
Simple(c, st) ==
    /\ ta_code' = c /\ value' = [ready |-> TRUE, st |-> st]
    /\ place' = place @@ (<<"after", Id>> :> c.instrs)
    /\ statements' = Id
    /\ UNCHANGED <<stack, functions, bound, phase>>

\* The part of a statement before its substatement.
Open(c, frame, points) ==
    /\ ta_code' = c /\ stack' = Append(stack, frame)
    /\ place' = points @@ place
    /\ statements' = Id
    /\ UNCHANGED <<value, functions, bound, phase>>

\* The part after it: the statement becomes the parser's value.
Reduce(c, st, points) ==
    /\ ta_code' = c /\ stack' = Below /\ value' = [ready |-> TRUE, st |-> st]
    /\ place' = points @@ (<<"after", Top.id>> :> c.instrs) @@ place
    /\ UNCHANGED <<statements, functions, bound, phase>>

Reducing(kind) == phase = "parse" /\ value.ready /\ Top.kind = kind

\* A null statement is dereferenced.
Crash == phase' = "crashed" /\ UNCHANGED <<ta_code, stack, value, globals, place, statements, functions, bound, fault>>

(***************************************************************************)
(* Expression statements and blocks.                                       *)
(***************************************************************************)
ExpressionStatement(e) ==
    /\ Expecting("expression")
    /\ LET v == Condition(Opened, e, <<"after", Id>>, <<"after", Id>>)
       IN  Simple(v.c, Stmt([NoLists EXCEPT !["next"] = v.true \cup v.false]))
    /\ UNCHANGED <<globals, fault>>

\* ";" and a block that is empty or only declares have no statement; the
\* declarations' initialisers are code all the same.
NullStatement(initialised) ==
    /\ Expecting(IF initialised THEN "declarations" ELSE "empty")
    /\ Simple(IF initialised THEN Exec(Opened) ELSE Opened, Null)
    /\ UNCHANGED <<globals, fault>>

OpenBlock ==
    /\ Expecting("block")
    /\ Open(Opened, Frame("block", Id), <<>>)
    /\ UNCHANGED <<globals, fault>>

CodeSince(l) == ta_code.labels[l] # ta_code.instrs

\* create_statement_list, add_to_statement_list
AddToStatementList ==
    LET st == value.st
    IN  IF st.null THEN Top.st
        ELSE Stmt([l \in Lists |-> IF l = "next" THEN st.lists[l] ELSE Top.st.lists[l] \cup st.lists[l]])

\* A null statement leaves the list's open jumps where they were, in front of
\* it, to be patched a second time: past its code, if it has any.
NextInList ==
    /\ Reducing("block")
    /\ stack' = Append(Below, [Top EXCEPT !.st = AddToStatementList, !.seen = TRUE])
    /\ value' = [ready |-> FALSE, st |-> Null]
    /\ Blame("declarations", value.st.null /\ \E g \in Top.st.lists["next"] : CodeSince(ta_code.gotos[g].label))
    /\ UNCHANGED <<ta_code, globals, place, statements, functions, bound, phase>>

\* "}".  An empty block is a NullStatement.
CloseBlock ==
    /\ phase = "parse" /\ ~value.ready /\ Top.kind = "block" /\ Len(stack) > 1 /\ Top.seen
    /\ Reduce(ta_code, Top.st, <<>>)
    /\ UNCHANGED <<globals, fault>>

(***************************************************************************)
(* if                                                                      *)
(***************************************************************************)
If(e) ==
    /\ Expecting("if")
    /\ LET v == Condition(Opened, e, <<"body", Id>>, <<"else", Id>>)
           f == NewGotoCond(v.c, <<"else", Id>>)                        \* M_FALSE
           c == NewLabel(f)
       IN  Open(c, [Frame("if", Id) EXCEPT !.true = v.true, !.false = v.false \cup {LastGoto(f)},
                                           !.l1 = LastLabel(c)],
                <<"body", Id>> :> c.instrs)
    /\ UNCHANGED <<globals, fault>>

Else ==
    /\ Reducing("if") /\ "else" \in Productions /\ statements < MaxStatements
    /\ LET g == NewGoto(ta_code, <<"after", Top.id>>)               \* M_GOTO
           c == NewLabel(g)
       IN  /\ ta_code' = c
           /\ stack' = Append(Below, [Top EXCEPT !.kind = "else", !.st = value.st,
                                                 !.goto1 = LastGoto(g), !.l2 = LastLabel(c)])
           /\ place' = place @@ (<<"else", Top.id>> :> c.instrs)
    /\ value' = [ready |-> FALSE, st |-> Null]
    /\ UNCHANGED <<globals, statements, functions, bound, phase, fault>>

With(ls, more) == [l \in Lists |-> ls[l] \cup more[l]]

IfLists(ls, false) == With(ls, [NoLists EXCEPT !["next"] = false])

\* create_selection_statement_if with st2 = nullptr and without l2
ReduceIf ==
    /\ Reducing("if")
    /\ LET c == Backpatch(ta_code, Top.true, Top.l1)
       IN  Reduce(c, Stmt(IfLists(value.st.lists, Top.false)), <<"else", Top.id>> :> c.instrs)
    /\ tmpSwitch' = NoLabel
    /\ UNCHANGED <<idLabel, idGoto, lblSwitch, fault>>

\* The same with both branches; "else ;" has no st2, and the jumps patched to
\* l2 stay in nextlist.
ReduceIfElse ==
    /\ Reducing("else")
    /\ LET c    == Backpatch(Backpatch(ta_code, Top.true, Top.l1), Top.false, Top.l2)
           open == {Top.goto1} \cup IF value.st.null THEN Top.false ELSE {}
       IN  Reduce(c, Stmt(With(With(Top.st.lists, value.st.lists), [NoLists EXCEPT !["next"] = open])), <<>>)
    /\ Blame("declarations", value.st.null /\ CodeSince(Top.l2))
    /\ tmpSwitch' = NoLabel
    /\ UNCHANGED <<idLabel, idGoto, lblSwitch>>

(***************************************************************************)
(* Loops.                                                                  *)
(***************************************************************************)
\* Mutant: returns inside a loop are forgotten.
LoopListsNoReturn(false) == [NoLists EXCEPT !["next"] = false \cup value.st.lists["break"]]

\* What a loop keeps of its condition and its body.
LoopLists(false) ==
    [NoLists EXCEPT !["next"] = false \cup value.st.lists["break"],
                    !["return"] = value.st.lists["return"]]

\* What the body leaves open and its continues go to onward, and the loop's
\* last jump goes back.
LoopReduces(c, true, false, first, onward, back, points) ==
    LET p == Backpatch(Backpatch(Backpatch(c, true, first), value.st.lists["next"], onward),
                       value.st.lists["continue"], onward)
    IN  /\ Reduce(NewGotoTo(p, <<back[1], Top.id>>, back[2]), Stmt(LoopLists(false)), points)
        /\ UNCHANGED <<globals, fault>>

While(e) ==
    /\ Expecting("while")
    /\ LET l1 == NewLabel(Opened)
           v  == Condition(l1, e, <<"body", Id>>, <<"after", Id>>)
           f  == NewGotoCond(v.c, <<"after", Id>>)
           c  == NewLabel(f)
       IN  Open(c, [Frame("while", Id) EXCEPT !.true = v.true, !.false = v.false \cup {LastGoto(f)},
                                              !.l1 = LastLabel(l1), !.l2 = LastLabel(c)],
                (<<"test", Id>> :> l1.instrs) @@ (<<"body", Id>> :> c.instrs))
    /\ UNCHANGED <<globals, fault>>

ReduceWhile ==
    /\ Reducing("while")
    /\ LoopReduces(ta_code, Top.true, Top.false, Top.l2, Top.l1, <<"test", Top.l1>>, <<>>)

Do ==
    /\ Expecting("do")
    /\ LET c == NewLabel(Opened)
       IN  Open(c, [Frame("do", Id) EXCEPT !.l1 = LastLabel(c)], <<"body", Id>> :> c.instrs)
    /\ UNCHANGED <<globals, fault>>

\* The condition follows the body: "test" is reached here.
ReduceDoWhile(e) ==
    /\ Reducing("do")
    /\ LET l2 == NewLabel(ta_code)
           v  == Condition(l2, e, <<"body", Top.id>>, <<"after", Top.id>>)
           f  == NewGotoCond(v.c, <<"after", Top.id>>)
       IN  LoopReduces(f, v.true, v.false \cup {LastGoto(f)}, Top.l1, LastLabel(l2),
                       <<"body", Top.l1>>, <<"test", Top.id>> :> l2.instrs)

\* ex1, the first label, ex2 and the jump on its result.  No list of ex1's is kept.
ForHead(e1, e2) ==
    LET v1 == Condition(Opened, e1, <<"test", Id>>, <<"test", Id>>)
        l1 == NewLabel(v1.c)
        v2 == Condition(l1, e2, <<"body", Id>>, <<"after", Id>>)
        f  == NewGotoCond(v2.c, <<"after", Id>>)
    IN  [c |-> IF e2 = "none" THEN l1 ELSE f, l1 |-> LastLabel(l1),
         true |-> IF e2 = "none" THEN {} ELSE v2.true,
         false |-> IF e2 = "none" THEN {} ELSE v2.false \cup {LastGoto(f)},
         point |-> <<"test", Id>> :> l1.instrs]

For(e1, e2) ==
    /\ Expecting("for")
    /\ LET h == ForHead(e1, e2)
           c == NewLabel(h.c)
       IN  Open(c, [Frame("for", Id) EXCEPT !.true = h.true, !.false = h.false,
                                            !.l1 = h.l1, !.l2 = LastLabel(c)],
                h.point @@ (<<"body", Id>> :> c.instrs))
    /\ Blame("lost", e1 # "plain")
    /\ UNCHANGED globals

\* With ex3: M_GOTO M_LABEL ex3 M_GOTO ')' M_LABEL.
For3(e1, e2, e3) ==
    /\ Expecting("for3")
    /\ LET h  == ForHead(e1, e2)
           g1 == NewGoto(h.c, <<"body", Id>>)
           l2 == NewLabel(g1)
           v3 == Condition(l2, e3, <<"test", Id>>, <<"test", Id>>)
           g2 == NewGoto(v3.c, <<"test", Id>>)
           c  == NewLabel(g2)
           b  == Backpatch(Backpatch(Backpatch(c, h.true, LastLabel(c)), {LastGoto(g1)}, LastLabel(c)),
                           {LastGoto(g2)}, h.l1)
       IN  Open(b, [Frame("for3", Id) EXCEPT !.false = h.false, !.l1 = LastLabel(l2)],
                h.point @@ (<<"step", Id>> :> l2.instrs) @@ (<<"body", Id>> :> c.instrs))
    /\ Blame("lost", e1 # "plain" \/ e3 # "plain")
    /\ UNCHANGED globals

ReduceFor ==
    \/ /\ Reducing("for")
       /\ LoopReduces(ta_code, Top.true, Top.false, Top.l2, Top.l1, <<"test", Top.l1>>, <<>>)
    \/ /\ Reducing("for3")
       /\ LoopReduces(ta_code, {}, Top.false, Top.l2, Top.l1, <<"step", Top.l1>>, <<>>)

(***************************************************************************)
(* switch                                                                  *)
(***************************************************************************)
\* The value is stored in a variable of its own (create_switch), and M_GOTO
\* jumps to the tests, which come after the body.  A switch that opens in one
\* that has cases already shares lblSwitch with it.
Switch(e) ==
    /\ Expecting("switch")
    /\ LET v == Condition(Opened, e, <<"dispatch", Id>>, <<"dispatch", Id>>)
           c == NewGoto(Exec(v.c), <<"dispatch", Id>>)
       IN  Open(c, [Frame("switch", Id) EXCEPT !.goto1 = LastGoto(c)], <<>>)
    /\ Blame(IF e = "plain" THEN "nested" ELSE "lost",
             e # "plain" \/ \E i \in DOMAIN stack : \E k \in DOMAIN stack[i].own : stack[i].own[k] # 0)
    /\ UNCHANGED globals

\* The test of one case: its label, and the case of this switch it stands for.
Test(c, k) ==
    NewJump(IF k = Default THEN c ELSE Exec(c), <<"case", Top.own[k]>>, lblSwitch[k], k # Default)

\* Mutant: the default label is not jumped to.
TestsNoDefault(c) ==
    FoldSet(LAMBDA k, acc : Test(acc, k), c, {k \in Consts : lblSwitch[k] # NoLabel})

Tests(c) ==
    LET cases == {k \in Consts : lblSwitch[k] # NoLabel}
        t     == FoldSet(LAMBDA k, acc : Test(acc, k), c, cases)
    IN  IF lblSwitch[Default] = NoLabel THEN t ELSE Test(t, Default)

SwitchLists(ls, g) == [ls EXCEPT !["next"] = {g} \cup ls["break"] \cup @, !["break"] = {}]

ReduceSwitch ==
    /\ Reducing("switch") /\ ~value.st.null
    /\ LET next == NewGoto(ta_code, <<"after", Top.id>>)             \* M_GOTO
           l    == NewLabel(next)
           c    == Tests(Backpatch(l, {Top.goto1}, LastLabel(l)))
       IN  Reduce(c, Stmt(SwitchLists(value.st.lists, LastGoto(next))), <<"dispatch", Top.id>> :> l.instrs)
    /\ lblSwitch' = [k \in DOMAIN lblSwitch |-> NoLabel]
    /\ tmpSwitch' = NoLabel
    /\ UNCHANGED <<idLabel, idGoto, fault>>

\* case k: and default:, in the innermost switch.
CaseLabel(kind, k) ==
    LET s == Innermost({"switch"})
        c == NewLabel(Opened)
    IN  /\ Expecting(kind) /\ s # 0 /\ stack[s].own[k] = 0
        /\ ta_code' = c
        /\ stack' = Append([stack EXCEPT ![s].own[k] = Id],
                           [Frame(kind, Id) EXCEPT !.l1 = LastLabel(c), !.l2 = k])
        /\ place' = place @@ (<<"case", Id>> :> c.instrs)
        /\ statements' = Id
        /\ UNCHANGED <<value, functions, bound, phase, globals, fault>>

\* The continue list of the statement is dropped.  A constant that lblSwitch
\* has already is an error.
ReduceCase ==
    /\ Reducing("case") /\ ~value.st.null
    /\ Reduce(ta_code, Stmt([value.st.lists EXCEPT !["continue"] = {}]), <<>>)
    /\ lblSwitch' = [lblSwitch EXCEPT ![Top.l2] = IF @ = NoLabel THEN Top.l1 ELSE @]
    /\ Blame("lost", value.st.lists["continue"] # {})
    /\ UNCHANGED <<idLabel, idGoto, tmpSwitch>>

\* The breaks go to nextlist as well, and what is still open is patched to
\* the default label before it.
ReduceDefault ==
    /\ Reducing("default") /\ ~value.st.null
    /\ LET ls == value.st.lists
       IN  /\ Reduce(Backpatch(ta_code, ls["next"], tmpSwitch),
                     Stmt([ls EXCEPT !["next"] = @ \cup ls["break"], !["continue"] = {}]), <<>>)
           /\ Blame("lost", ls["continue"] # {})
    /\ lblSwitch' = [lblSwitch EXCEPT ![Default] = IF @ = NoLabel THEN Top.l1 ELSE @]
    /\ tmpSwitch' = Top.l1
    /\ UNCHANGED <<idLabel, idGoto>>

\* "switch (x) ;", "case 1: ;" and "default: ;"
NullSubstatement ==
    /\ phase = "parse" /\ value.ready /\ value.st.null /\ Top.kind \in {"switch", "case", "default"}
    /\ Crash

(***************************************************************************)
(* Labels and jumps.                                                       *)
(***************************************************************************)
LabelStatement(n) ==
    LET c == NewLabel(Opened)
    IN  /\ Expecting("label") /\ <<"label", n>> \notin DOMAIN place
        /\ Open(c, [Frame("label", Id) EXCEPT !.l1 = LastLabel(c), !.l2 = n], <<"label", n>> :> c.instrs)
        /\ UNCHANGED <<globals, fault>>

Resolve(n, l) == Backpatch(ta_code, idGoto[n], l)

\* A name that is in idLabel already, be it from an earlier function, is an
\* error.  The lists of the labelled statement are dropped in any case.
ReduceLabel ==
    /\ Reducing("label")
    /\ LET n == Top.l2
           fresh == idLabel[n] = NoLabel
       IN  /\ Reduce(IF fresh THEN Resolve(n, Top.l1) ELSE ta_code, Stmt(NoLists), <<>>)
           /\ idLabel' = [idLabel EXCEPT ![n] = IF fresh THEN Top.l1 ELSE @]
           /\ idGoto' = [idGoto EXCEPT ![n] = IF fresh THEN {} ELSE @]
           /\ Blame(IF fresh THEN "lost" ELSE "stale", ~fresh \/ value.st.lists # NoLists)
    /\ UNCHANGED <<lblSwitch, tmpSwitch>>

\* create_jump_statement_go_to: a known label is the target, else the jump waits.
GotoStatement(n) ==
    /\ Expecting("goto")
    /\ LET c == NewGotoTo(Opened, <<"label", n>>, idLabel[n])
       IN  /\ Simple(c, Stmt(NoLists))
           /\ idGoto' = [idGoto EXCEPT ![n] = IF idLabel[n] = NoLabel THEN @ \cup {LastGoto(c)} ELSE @]
    /\ Blame("stale", idLabel[n] = Elsewhere)
    /\ UNCHANGED <<idLabel, lblSwitch, tmpSwitch>>

Jump(list, want) ==
    LET c == NewGoto(Opened, want)
    IN  Simple(c, Stmt([NoLists EXCEPT ![list] = {LastGoto(c)}])) /\ UNCHANGED <<globals, fault>>

Break ==
    LET i == Innermost(Loops \cup {"switch"})
    IN  Expecting("break") /\ i # 0 /\ Jump("break", <<"after", stack[i].id>>)

Continue ==
    LET i == Innermost(Loops)
    IN  /\ Expecting("continue") /\ i # 0
        /\ Jump("continue", <<IF stack[i].kind = "for3" THEN "step" ELSE "test", stack[i].id>>)

\* create_new_return moves the value to $v0; the jump to the end follows.  The
\* lists of the value are not kept.
Return(e) ==
    /\ Expecting("return")
    /\ LET v == Condition(Opened, e, <<"after", Id>>, <<"after", Id>>)
           c == NewGoto(Exec(v.c), <<"end", 0>>)
       IN  Simple(c, Stmt([NoLists EXCEPT !["return"] = {LastGoto(c)}]))
    /\ Blame("lost", e # "plain")
    /\ UNCHANGED globals

(***************************************************************************)
(* Functions.                                                              *)
(***************************************************************************)
BodyEnds == phase = "parse" /\ ~value.ready /\ Len(stack) = 1

\* add_stmt_to_function_definition and backpatch_fn.  A goto whose label the
\* text does not have is the text's fault.
EndFunction ==
    /\ BodyEnds /\ ~Top.st.null
    /\ LET l == NewLabel(ta_code)
           c == Backpatch(Backpatch(l, Top.st.lists["return"], LastLabel(l)), Top.st.lists["next"], LastLabel(l))
       IN  /\ ta_code' = c
           /\ place' = place @@ (<<"end", 0>> :> c.instrs) @@ (<<"after", 0>> :> c.instrs)
    /\ stack' = <<>>
    /\ phase' = "end"
    /\ Blame("undefined label", \E n \in Names : idGoto[n] # {} /\ <<"label", n>> \notin DOMAIN place)
    /\ UNCHANGED <<value, globals, statements, functions, bound>>

\* A body without a statement is dereferenced.
EndEmptyFunction == BodyEnds /\ Top.st.null /\ Crash

\* dump_and_reset_3ac.  idLabel and idGoto keep what they have.
NextFunction ==
    /\ phase = "end" /\ functions < MaxFunctions
    /\ ta_code' = NoCode /\ stack' = <<Body>> /\ place' = <<>>
    /\ idLabel' = [n \in Names |-> IF idLabel[n] = NoLabel THEN NoLabel ELSE Elsewhere]
    /\ idGoto' = [n \in Names |-> {}]
    /\ phase' = "parse" /\ statements' = 0 /\ functions' = functions + 1
    /\ UNCHANGED <<value, lblSwitch, tmpSwitch, fault, bound>>

\* The text is over: at its bound, or at its first fault.
Done ==
    /\ fault # "none" \/ phase = "crashed" \/ (phase = "end" /\ functions = MaxFunctions)
    /\ UNCHANGED vars

Next ==
    \/ \E e \in Exprs : ExpressionStatement(e) \/ If(e) \/ While(e) \/ ReduceDoWhile(e) \/ Switch(e) \/ Return(e)
    \/ \E i \in BOOLEAN : NullStatement(i)
    \/ OpenBlock \/ NextInList \/ CloseBlock
    \/ Else \/ ReduceIf \/ ReduceIfElse
    \/ ReduceWhile \/ Do
    \/ \E e1 \in Exprs, e2 \in Exprs \cup {"none"} : For(e1, e2)
    \/ \E e1, e3 \in Exprs, e2 \in Exprs \cup {"none"} : For3(e1, e2, e3)
    \/ ReduceFor
    \/ ReduceSwitch \/ ReduceCase \/ ReduceDefault \/ NullSubstatement
    \/ \E k \in Consts : CaseLabel("case", k)
    \/ CaseLabel("default", Default)
    \/ \E n \in Names : LabelStatement(n) \/ GotoStatement(n)
    \/ ReduceLabel
    \/ Break \/ Continue
    \/ EndFunction \/ EndEmptyFunction \/ NextFunction
    \/ Done

Spec == Init /\ [][Next]_vars

(***************************************************************************)
(* Properties.                                                             *)
(***************************************************************************)
Jumps  == DOMAIN ta_code.gotos
Labels == DOMAIN ta_code.labels

FrameOK(f) ==
    /\ f.kind \in Compound \cup {"else"}
    /\ f.id \in 0 .. MaxStatements
    /\ f.true \cup f.false \cup UNION {f.st.lists[l] : l \in Lists} \subseteq Jumps
    /\ {f.goto1, f.goto2} \subseteq Jumps \cup {0}
    /\ f.l1 \in Labels \cup {NoLabel}

\* Lists hold jumps of this function, and a jump's label is one of its labels
\* or an earlier function's.
TypeOK ==
    /\ \A g \in Jumps : ta_code.gotos[g].label \in Labels \cup {NoLabel, Elsewhere}
                        /\ ta_code.gotos[g].want \in Roles \X Nat
    /\ \A i \in DOMAIN stack : FrameOK(stack[i])
    /\ \A l \in Lists : value.st.lists[l] \subseteq Jumps
    /\ \A n \in Names : idLabel[n] \in Labels \cup {NoLabel, Elsewhere} /\ idGoto[n] \subseteq Jumps
    /\ \A p \in DOMAIN place : p \in Roles \X Nat /\ place[p] \in 0 .. ta_code.instrs
    /\ phase \in {"parse", "end", "crashed"}

\* The jumps some list or semantic value still holds.
HeldBy(f) == f.true \cup f.false \cup {f.goto1, f.goto2} \cup UNION {f.st.lists[l] : l \in Lists}
Held == (UNION {HeldBy(stack[i]) : i \in DOMAIN stack})
        \cup (UNION {value.st.lists[l] : l \in Lists})
        \cup (UNION {idGoto[n] : n \in Names})

\* No jump is forgotten: one without a label is still in a list that will be
\* patched, and a finished function has none.
NoJumpForgotten ==
    fault = "none" =>
        \A g \in Jumps : ta_code.gotos[g].label = NoLabel => phase # "end" /\ g \in Held

\* Control that has come to p is at q before any other instruction: q is p, or
\* where an unconditional jump at p leads.
Through(p, q) ==
    \/ p = q
    \/ \E g \in Jumps :
          LET j == ta_code.gotos[g]
          IN  j.at = p /\ ~j.cond /\ j.label \in Labels /\ ta_code.labels[j.label] = q

\* A jump that no list holds any more leads to the point of the source it
\* stands for, which has its place by then, or to where an unconditional jump
\* at that point leads.
JumpsLand ==
    fault = "none" =>
        \A g \in Jumps \ Held :
            LET j == ta_code.gotos[g]
            IN  /\ j.want \in DOMAIN place /\ j.label \in Labels
                /\ Through(place[j.want], ta_code.labels[j.label])

\* Every case of a finished switch is tested for in that switch.
CasesDispatched ==
    (fault = "none" /\ phase = "end") =>
        \A p \in DOMAIN place : p[1] = "case" => \E g \in Jumps : ta_code.gotos[g].want = p
=============================================================================
