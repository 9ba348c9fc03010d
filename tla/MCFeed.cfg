SPECIFICATION Spec
CONSTANTS
    Clients = {c1, c2}
    Channels = {alerts}
    Alerts = alerts
    MaxSize = 2
    MaxAlerts = 3
INVARIANTS
    HandlersOwned
    EachAlertOnce
PROPERTIES
    SilentGivenUp
    ShutdownEnds
CHECK_DEADLOCK FALSE
