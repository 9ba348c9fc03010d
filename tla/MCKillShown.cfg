SPECIFICATION Spec
CONSTANTS
    KillFlag = FALSE
    KeySet = FALSE
    Intervals = {1}
    Limits = {1}
    Strategies = {"regime"}
    Initial <- MCInitial
    MaxChanges = 2
    MaxFetches = 1
INVARIANT KillShown
