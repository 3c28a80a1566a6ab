---------------------------- MODULE MCStatements ----------------------------
(***************************************************************************)
(* TLC instances of Statements: loops, conditions, switches and jumps with *)
(* labels, each with the constructs that interact with them.               *)
(***************************************************************************)
EXTENDS Statements

Text(productions, statements_, functions_) ==
    [productions |-> productions, statements |-> statements_, functions |-> functions_]

Texts ==
    {Text({"expression", "block", "if", "else", "while", "do", "for", "for3", "break", "continue", "return"}, 5, 1),
     Text({"expression", "and", "or", "block", "if", "else", "while", "do", "for", "for3", "return",
           "declarations", "empty"}, 4, 1),
     Text({"expression", "block", "switch", "case", "default", "break", "while", "continue", "empty", "return"}, 6, 1),
     Text({"expression", "block", "label", "goto", "while", "break", "declarations", "empty"}, 6, 2)}
=============================================================================
