SPECIFICATION Spec
CONSTANTS
    MaxConsecutiveLosses = 2
    SpreadLimit = 2
    SpreadWindow = 2
    Reasons <- MCReasons
    MaxTime = 4
    LossBound = 4
    ViolationBound = 3
INVARIANTS
    RowIsState
    LimitsTrip
PROPERTY
    HaltUntilReset
