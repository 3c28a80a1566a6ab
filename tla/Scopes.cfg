SPECIFICATION Spec
CONSTANTS
    Ident = {x, y}
    Lines = {line}
    Sizes = {1, 4}
    NumRegArgs = 1
    MaxLevel = 3
    MaxIds = 3
    MaxOffset = 8
    None = None
INVARIANTS TypeOK FrameHolds NoOverlap WordsAligned IdsDistinct
PROPERTIES ImplementsScopes BlocksShareSpace
CHECK_DEADLOCK FALSE
