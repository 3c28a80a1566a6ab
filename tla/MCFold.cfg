SPECIFICATION Spec
CONSTANTS
    Vars = {1, 2}
    Bounds <- Blocks
INVARIANTS
    TypeOK
    MeaningKept
    
