SPECIFICATION Spec
CONSTANT Bounds <- Functions
INVARIANTS
    TypeOK
    MeaningKept
    NamesPrinted
    CountsCover
PROPERTIES
    WalkEnds
