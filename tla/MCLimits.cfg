SPECIFICATION Spec
CONSTANTS
    btc = btc
    eth = eth
    sol = sol
    Symbols = {btc, eth, sol}
    Runs = {r1, r2}
    Price <- MCPrice
    MaxPosition = 3
    FloorUsd = 2
    MaxOpen = 1
    MaxDailyLoss = 2
    DeployNum = 1
    DeployDen = 1
    Reserve = 1
    MinNotional = 1
    InitCash = 8
    MaxOrders = 4
INVARIANTS
    OpenPositionsBound
    ExposureBound
    AgeIsOfThisPosition
SYMMETRY MCSymmetry
