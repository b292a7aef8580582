SPECIFICATION FairSpec
CONSTANTS
    OutSize <- MCOutSize
    TxBufSize = 5
INVARIANTS
    Inv
    WholeFrames
PROPERTIES
    SendingEnds
CHECK_DEADLOCK FALSE
