SPECIFICATION FairSpec
CONSTANTS
    t1 = t1
    t2 = t2
    f1 = f1
    f2 = f2
    Txn = {t1, t2}
    Addr = {1, 2}
    Func = {f1, f2}
    FuncOf <- MCFuncOf
    Transport = {u1, u2}
    NoTxn = NoTxn
    NoAddr = 0
    MaxCalls = 2
INVARIANTS
    Inv
    EachCallAccounted
    GenuineAnswer
    ReportsRight
PROPERTIES
    EveryCallReported
    KeepsPromise
CHECK_DEADLOCK FALSE
