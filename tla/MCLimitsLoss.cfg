SPECIFICATION Spec
CONSTANTS
    btc = btc
    eth = eth
    sol = sol
    Symbols = {btc}
    Runs = {r1}
    Price <- MCPrice
    MaxPosition = 4
    FloorUsd = 1
    MaxOpen = 1
    MaxDailyLoss = 2
    DeployNum = 1
    DeployDen = 1
    Reserve = 1
    MinNotional = 1
    InitCash = 6
    MaxOrders = 5
PROPERTY LossLimitStops
