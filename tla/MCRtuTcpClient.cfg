SPECIFICATION FairSpec
CONSTANTS
    Fd = {1, 2}
    MaxBreaks = 2
    MaxStops = 1
    OutSize <- MCOutSize
    InSize <- MCInSize
    RxBufSize = 3
INVARIANTS
    Inv
    ServedOnce
PROPERTIES
    OthersKept
    GivenUpForAReason
    LeavesInTheEnd
