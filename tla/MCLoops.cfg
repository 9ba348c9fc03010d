SPECIFICATION Spec
CONSTANTS
    Symbols = {btc, eth}
    btc = btc
    eth = eth
    SymbolSeq <- MCSeq2
    Runs = {r1, r2}
    DeployNum = 3
    DeployDen = 4
    MinCash = 0
    MaxBuy = 3
    Dust = 0
    MaxLosses = 2
    InitQty <- Held4
    InitCash = 4
    Features = {}
    MaxOrders = 2
INVARIANTS
    BooksBalance
    SnapshotFollows
    SellsCovered
PROPERTIES
    EveryRunEnds
    HaltDrains
