\* Some of the parts end with their bounds.
SPECIFICATION Spec
CHECK_DEADLOCK FALSE
CONSTANTS
    Markets <- MCMarkets
    Speakers = 2
    Oscillators <- MCOscillators
    MaxPosition = 1000
    FeeRate = 0
    Troubles = 3
    Cases <- MCCases
    Cap = 3
    Keep = 2
    MaxCycles = 4
    MaxChanges = 3
    Bases <- MCBases
    Moves = 2
    Symbols = {"BTC", "ETH"}
    GridLevels = 1
    BaseInterval = 2
    SignalTime = 5
    Windows = 2
    TrainBars = 3
    TestBars = 4
    Lookback = 1
    MaxHeld = 2
    StopDistance = 1
    TargetDistance = 2
    Slippage = 1
    CommissionPct = 1
    InitialCapital = 1000
    Prices = {4, 5, 7}
    Interval = 3
    Limit = 2
    FakeFallback = TRUE
    History = {0, 1, 2, 5, 6, 8}
    BatchSize = 2
    Step = 1
    FeedTime = 8
    Period = 3
    Ttl = 1
    Timeout = 1
    MoodTime = 12
    PaperSymbols = {"BTC"}
    Orders = {1, 2, 3}
    PaperPrices = {10, 12}
    Slip = 1
    FillPage = 2
    JournalPage = 1
    Results <- MCResults
    Days = 1
    MaxOrders = 2
    MaxDay = 2
    MaxPasses = 1
    KillFlag = FALSE
    KeySet = FALSE
    Intervals = {0, 1, 2}
    PollLimits = {1, 2}
    Strategies = {"regime", "grid"}
    Initial <- MCInitial
    PanelChanges = 2
    MaxFetches = 2
    Channels = {"console", "telegram"}
    Events = {"orderFilled"}
    Pages = {1, 2}
    DefaultPrefs <- MCDefaults
    Services = {"console", "telegram"}
    AlertSize = 1
    MaxEdits = 2
    MaxAlerts = 2
    Envs <- MCEnvs
    MaxStarts = 2
    MaxSent = 1
    Volumes = {1, 2}
    Ranges = {1, 2}
    CandleIntervals = {2}
    Traded = {1, 2, 6, 11}
    Ranged = {1, 3, 6}
    Gaps = {0, 30, 60}
    Closes <- MCCloses
    Ages = {0, 8, 12}
    Processes = {1, 2}
    Keys <- MCKeys
    Values <- MCValues
    Sharpes = {0, 1}
    Limits = {1, 2}
    RingSize = 2
    HistoryTime = 2
    MaxRows = 3
    Users = {1, 2}
    Texts <- MCTexts
    Ether = 1
    MaxUpdates = 5
    StopPrices = {8, 9, 10, 11, 12, 13, 14}
    ATRs = {0, 1, 2}
    Activation = 10
    Trail = 15
    Multiplier = 1
INVARIANTS
    VotesFair
    HistoryComplete
    TestSound
    FakeGivesWay
    MoodFresh
    OnePosition
    BotSound
    HighIsPeak
    SignalsSpaced
PROPERTIES
    TroubleNeverRisksMore
    BullishNeverTurnsAway
    BooksTold
    PanelSound
    PrefsKept
    OrdersCleared
    StopRisesPerEntry
