SPECIFICATION Spec
CONSTANTS
    Ident = {x, y}
    Lines = {}
    Sizes = {4}
    NumRegArgs = 1
    MaxLevel = 1
    MaxIds = 3
    MaxOffset = 12
    None = None
INVARIANT ParametersArrive
CHECK_DEADLOCK FALSE
