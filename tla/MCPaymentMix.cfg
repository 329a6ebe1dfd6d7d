SPECIFICATION PaySpec
CONSTANTS
    ClientCnt = 2
    VersionNum = 2
    TimestampRange = 5
    near = near
    far = far
    Stocks = {s1}
    Refs = {w, di, cu}
    Warehouse = w
    District = di
    Customer = cu
    Servers = {near}
    HistoryServers = {near}
    ServerOf <- OneServer
    OrderBuffer = 1
    CommandSize = 3
    MaxEpoch <- OneEpoch
    MayPay = {0}
    MayOrder = {1}
VIEW LiveState
CHECK_DEADLOCK FALSE
INVARIANTS
    PayTypeOK
    PaymentLogBeforeInstall
PROPERTY
    ImplementsTransactionLedger
