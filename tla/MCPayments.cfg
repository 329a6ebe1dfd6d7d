SPECIFICATION PaySpec
CONSTANTS
    ClientCnt = 2
    VersionNum = 2
    TimestampRange = 5
    near = near
    far = far
    Stocks = {}
    Refs = {w, di, cu}
    Warehouse = w
    District = di
    Customer = cu
    Servers = {near}
    HistoryServers = {near}
    ServerOf <- OneServer
    OrderBuffer = 1
    CommandSize = 3
    MaxEpoch <- OneEpoch
    MayPay = {0, 1}
    MayOrder = {}
VIEW LiveState
CHECK_DEADLOCK FALSE
INVARIANTS
    PaymentLockOwnership
    ReceivedVersionsAreConsistent
    AnnouncedPaymentsInstalled
    UnannouncedIsExclusive
PROPERTIES
    PaymentsNeverLost
    ImplementsTransactionLedger
