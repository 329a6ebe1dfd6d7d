SPECIFICATION Spec
CONSTANTS
    ClientCnt = 2
    VersionNum = 2
    TimestampRange = 8
    Stocks = {s1, s2}
    Refs = {}
    OrderBuffer = 2
    CommandSize = 3
    MaxEpoch <- Epochs
SYMMETRY StockSymmetry
VIEW LiveState
CHECK_DEADLOCK FALSE
INVARIANTS
    TypeOK
    LockOwnership
    LockedVersionIsRead
    AnnouncedOrdersInstalled
    ReadsAreAtomic
    SnapshotIsRead
    PointerListNamesRing
    IndexNamesInstalledRows
    UniqueOrderIDs
    LogBeforeInstall
PROPERTY
    OrdersNeverLost
    ImplementsStockLedger
