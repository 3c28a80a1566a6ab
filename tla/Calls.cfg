SPECIFICATION CallSpec
CONSTANTS
    None = None
    Vars = {x}
    Args = {0}
    Temps = {t, u}
    NumTempRegs = 2
    NumRegArgs = 2
    MaxStackArgs = 2
INVARIANTS CallTypeOK ArgumentsArrive CallsKeepValues StackMirrored CallTablesAgree
CHECK_DEADLOCK FALSE
