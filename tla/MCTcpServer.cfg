SPECIFICATION FairSpec
CONSTANTS
    Conn = {c1, c2}
    NoConn = NoConn
    RequestSize <- MCRequestSize
    HeaderSize = 2
    RxBufSize = 4
    GarbageSizes = {2, 4, 9}
    Limits = {0, 1}
INVARIANTS
    Inv
    OwnConnection
    WholeRequests
PROPERTIES
    Answered
CHECK_DEADLOCK FALSE
