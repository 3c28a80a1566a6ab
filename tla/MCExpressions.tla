---------------------------- MODULE MCExpressions ----------------------------
(***************************************************************************)
(* TLC instances of Expressions: integers with side effects, pointers and  *)
(* structs, every binary operator and assignment, and conditions.          *)
(***************************************************************************)
EXTENDS Expressions

Texts ==
    {[productions |-> {"identifier", "constant", "x", "a", "post", "pre", "not", "sign", "cast", "+", "==", "<", "=",
                       "+=", "%=", "index"}, steps |-> 6, stack |-> 3],
     [productions |-> {"identifier", "constant", "p", "pp", "a", "s", "sp", "index", "member", "arrow", "address",
                       "star", "+", "post", "pre", "=", "+=", "=="}, steps |-> 7, stack |-> 2],
     [productions |-> {"identifier", "constant", "x", "a", "index", "*", "/", "%", "-", "<<", "&", "^", "|",
                       "&=", "|=", "^=", "-=", "<<=", "*=", "/="}, steps |-> 6, stack |-> 3],
     [productions |-> {"identifier", "constant", "x", "post", "pre", "not", "=", "and", "or", "conditional", "comma"},
      steps |-> 7, stack |-> 3]}
=============================================================================
