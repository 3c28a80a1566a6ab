SPECIFICATION Spec
CONSTANTS
    None = None
    Vars = {x}
    Args = {0}
    Temps = {t, u}
    NumTempRegs = 2
    NumRegArgs = 1
SYMMETRY Interchangeable
CHECK_DEADLOCK FALSE
INVARIANT
    StoreHasHome
