SPECIFICATION Spec
CONSTANTS
    Symbols = {btc}
    Dust = 1
    Lots = {0, 1, 2}
    Prices = {1}
    Fees = {0, 1}
    Cash = {0, 1}
    MaxHolding = 3
    MaxCash = 2
INVARIANTS
    GuardsAgree
PROPERTY
    ImplementsLedger
