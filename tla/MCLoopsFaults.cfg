SPECIFICATION Spec
CONSTANTS
    Symbols = {btc, eth}
    btc = btc
    eth = eth
    SymbolSeq <- MCSeq2
    Runs = {r1, r2}
    DeployNum = 3
    DeployDen = 5
    MinCash = 1
    MaxBuy = 1
    Dust = 1
    MaxLosses = 1
    InitQty <- Held
    InitCash = 3
    Features = {"stopHit", "partial", "late", "timeout", "resync"}
    MaxOrders = 2
PROPERTIES
    HeldStaysReserved
SYMMETRY RunSymmetry
