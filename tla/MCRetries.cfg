SPECIFICATION CallsSpec
CONSTANTS
    Calls = {c1}
    MaxAttempts = 2
    HttpTries = 2
    ResetAfter = 1
    Dedup = TRUE
INVARIANTS
    AtMostOneOrder
PROPERTIES
    ImplementsPlacing
    CallsEnd
    BreakerCloses
