SPECIFICATION Spec
CONSTANTS
    ClientCnt = 2
    VersionNum = 2
    TimestampRange = 64
    Stocks = {s1, s2}
    Refs = {}
    OrderBuffer = 2
    CommandSize = 3
    MaxEpoch <- Epochs
SYMMETRY StockSymmetry
VIEW LiveState
CHECK_DEADLOCK FALSE
INVARIANT
    CommandIsLogged
