SPECIFICATION Spec
CONSTANTS
    Areas <- MCAreas
    Files <- MCFiles
    FileNumbers <- MCFileNumbers
    Kinds <- MCKinds
    Tables <- MCTables
    Slaves <- MCSlaves
    Broadcast <- MCBroadcast
    TxSizes <- MCTxSizes
    FifoSize = 2
    Requests <- MCRequests
INVARIANTS
    Inv
PROPERTY WholeOrNothing
