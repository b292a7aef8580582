SPECIFICATION Spec
CONSTANTS
    OutSize <- MCOutSize
    TxBufSize = 2
    MaxOut = 5
INVARIANTS
    Inv
    DamageIsConfined
PROPERTY HandlersAreAtomic
CHECK_DEADLOCK FALSE
