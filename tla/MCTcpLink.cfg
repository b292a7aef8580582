SPECIFICATION FairSpec
CONSTANTS
    AnswerSize <- MCAnswerSize
    PduRoom <- MCPduRoom
    RequestSize = 2
    HeaderSize = 2
    RxBufSize = 4
    GarbageSizes = {2, 4, 9}
    IdMod = 2
    MaxBreaks = 2
INVARIANTS
    Inv
    OwnAnswer
PROPERTIES
    ArrivalsAreRead
    Reconnects
CHECK_DEADLOCK FALSE
