SPECIFICATION Spec
CONSTANTS
    Vars = {x}
    Temps = {t}
    NoAddr = NoAddr
    Null = Null
    MaxCode = 3
INVARIANTS
    TypeOK
    BlocksAreStraightLine
    PairsAreRight
PROPERTY
    ImplementsContract
