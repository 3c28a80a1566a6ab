------------------------------ MODULE Lexical ------------------------------
(***************************************************************************)
(* What a symbol table promises: the block structure of C.  A function is  *)
(* a stack of scopes, a name means the innermost binding of it, a block's  *)
(* bindings end with the block, and a name is bound once in a block.  The  *)
(* parameters are bound in the scope of the function's outermost block.    *)
(* Bindings are numbered in the order they are made.                       *)
(***************************************************************************)
EXTENDS Naturals, Sequences

CONSTANTS Names, None

VARIABLES scopes,    \* the open scopes, innermost last
          next,      \* the number of the next binding
          found,     \* what the last name used meant
          rejected   \* has a second binding in one scope been refused?

vars == <<scopes, next, found, rejected>>

Empty == [n \in Names |-> None]

Bound(n) == {i \in DOMAIN scopes : scopes[i][n] # None}

Meaning(n) ==
    IF Bound(n) = {} THEN None
    ELSE LET i == CHOOSE i \in Bound(n) : \A j \in Bound(n) : j <= i IN scopes[i][n]

Init == scopes = <<>> /\ next = 0 /\ found = None /\ rejected = FALSE

Function ==
    /\ scopes = <<>>
    /\ scopes' = <<Empty>> /\ next' = 0
    /\ UNCHANGED <<found, rejected>>

Open ==
    /\ scopes # <<>>
    /\ scopes' = Append(scopes, Empty)
    /\ UNCHANGED <<next, found, rejected>>

Close ==
    /\ scopes # <<>>
    /\ scopes' = SubSeq(scopes, 1, Len(scopes) - 1)
    /\ UNCHANGED <<next, found, rejected>>

Bind(n) ==
    /\ scopes # <<>> /\ scopes[Len(scopes)][n] = None
    /\ scopes' = [scopes EXCEPT ![Len(scopes)][n] = next]
    /\ next' = next + 1
    /\ UNCHANGED <<found, rejected>>

Refuse(n) ==
    /\ scopes # <<>> /\ scopes[Len(scopes)][n] # None
    /\ rejected' = TRUE
    /\ UNCHANGED <<scopes, next, found>>

Use(n) == found' = Meaning(n) /\ UNCHANGED <<scopes, next, rejected>>

Next == Function \/ Open \/ Close \/ \E n \in Names : Bind(n) \/ Refuse(n) \/ Use(n)

Spec == Init /\ [][Next]_vars
=============================================================================
