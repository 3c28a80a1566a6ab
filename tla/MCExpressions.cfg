SPECIFICATION Spec
CONSTANT Bounds <- Texts
INVARIANTS
    TypeOK
    ValuesRight
    EffectsKept
    LiveReadsLive
    ConditionRight
CHECK_DEADLOCK FALSE
