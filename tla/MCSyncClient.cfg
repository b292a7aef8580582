SPECIFICATION FairSpec
CONSTANT MaxCalls = 3
INVARIANTS
    Inv
    OwnResult
    ToldBeforeReturn
PROPERTY
    EveryCallReturns
CHECK_DEADLOCK FALSE
