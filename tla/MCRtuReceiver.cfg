SPECIFICATION RxSpec
CONSTANTS
    InSize <- MCInSize
    RxBufSize = 5
    MaxData = {0, 1}
    NoPdu = NoPdu
    MaxNoise = 1
INVARIANTS
    RxInv
    Intact
    AllReceived
CHECK_DEADLOCK FALSE
