SPECIFICATION SessionSpec
CONSTANTS
    Areas <- MCAreas
    Files <- MCFiles
    FileNumbers <- MCFileNumbers
    Kinds <- MCKinds
    Tables <- MCTables
    Slaves <- MCSlaves
    Broadcast <- MCBroadcast
    TxSizes <- MCTxSizes
    FifoSize = 2
    Requests = {}
    Menus <- MCMenus
    TxRoom = 252
INVARIANTS
    SessionInv
PROPERTIES
    CallsAreKept
    OnlyIllegalSpoils
