SPECIFICATION Spec
CONSTANTS
    o1 = o1
    o2 = o2
    Orders = {o1}
    symbolOf <- MCSymbolOf
    SymbolSeq <- MCSeq
    Runs = {r1, r2}
    Quantity = 2
    Ends = {"filled", "canceled"}
    MaxRestarts = 1
INVARIANTS
    ClosedIsFinal
PROPERTIES
    Converges
