SPECIFICATION Spec
CONSTANTS
    None = None
    Vars = {x, y}
    Args = {}
    Temps = {t}
    NumTempRegs = 2
    NumRegArgs = 1
CHECK_DEADLOCK FALSE
INVARIANT
    EmptyRegAlwaysFound
