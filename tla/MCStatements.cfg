SPECIFICATION Spec
CONSTANTS
    Names = {1}
    Consts = {1, 2}
    Bounds <- Texts
INVARIANTS
    TypeOK
    NoJumpForgotten
    JumpsLand
    CasesDispatched
