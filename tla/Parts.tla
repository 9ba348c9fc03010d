------------------------------- MODULE Parts --------------------------------
(***************************************************************************)
(* Parts of the program that share no state with each other, in one        *)
(* specification: each behaviour is one of one part, the others keep       *)
(* still.  The constants are described in the modules of the parts.        *)
(***************************************************************************)
EXTENDS Integers, Sequences, FiniteSets

CONSTANTS
    Markets, Speakers, Oscillators,                        \* alpha
    MaxPosition, FeeRate, Troubles,                        \* planning, and engine
    Cases, Cap, Keep, MaxCycles, MaxChanges,               \* engine
    Bases, Moves,                                          \* composite
    Symbols, GridLevels, BaseInterval, SignalTime,         \* stepped
    Windows, TrainBars, TestBars, Lookback, MaxHeld, StopDistance, TargetDistance, Slippage,
        CommissionPct, InitialCapital, Prices,             \* backtest
    Interval, Limit, FakeFallback, History, BatchSize, Step, FeedTime,    \* feed
    Period, Ttl, Timeout, MoodTime,                        \* mood
    PaperSymbols, Orders, PaperPrices, Slip,               \* paper
    FillPage, JournalPage, Results, Days, MaxOrders, MaxDay, MaxPasses,   \* books
    KillFlag, KeySet, Intervals, PollLimits, Strategies, Initial, PanelChanges, MaxFetches,   \* panel
    Channels, Events, Pages, DefaultPrefs, Services, AlertSize, MaxEdits, MaxAlerts,          \* prefs
    Envs, MaxStarts, MaxSent,                              \* startup
    Volumes, Ranges, CandleIntervals, Traded, Ranged, Gaps, Closes, Ages,  \* guards
    Processes, Keys, Values, Sharpes,                      \* archive
    Limits, RingSize, HistoryTime, MaxRows,                \* history
    Users, Texts, Ether, MaxUpdates,                       \* bot
    StopPrices, ATRs, Activation, Trail, Multiplier        \* trailing

(* Prices are positive, in ticks, and a stop trails by a percentage.       *)
ASSUME TrailingAssumption ==
    /\ StopPrices \subseteq Nat \ {0}
    /\ ATRs \subseteq Nat
    /\ Activation \in Nat
    /\ Trail \in 1..100
    /\ Multiplier \in Nat

(* A cached value is valid for some time.                                  *)
ASSUME MoodAssumption == Period \in Nat /\ Ttl \in Nat \ {0} /\ Timeout \in Nat

(* DEFAULT_PREFS has an entry for each channel, with its overrides.        *)
ASSUME PrefsAssumption ==
    /\ DefaultPrefs = [c \in Channels |-> DefaultPrefs[c]]
    /\ \A c \in Channels :
          /\ DefaultPrefs[c] = [x \in DOMAIN DefaultPrefs[c] |-> DefaultPrefs[c][x]]
          /\ "overrides" \in DOMAIN DefaultPrefs[c]
          /\ LET overrides == DefaultPrefs[c].overrides
             IN  overrides = [e \in DOMAIN overrides |-> overrides[e]]

ASSUME PanelAssumption == "strategyIntervalMs" \in DOMAIN Initial

(* Levels on each side of the middle, hours between two buys.              *)
ASSUME SteppedAssumption ==
    /\ GridLevels \in Nat
    /\ BaseInterval \in Nat \ {0}
    /\ SignalTime \in Nat
    /\ "none" \notin Symbols

(* A page has more than one candle, and the candles of a timeframe are no  *)
(* closer than the step from one page to the next.                         *)
ASSUME FeedAssumption ==
    /\ Interval \in Nat \ {0} /\ Limit \in Nat \ {0}
    /\ History \in SUBSET Nat /\ IsFiniteSet(History)
    /\ BatchSize \in Nat \ {0, 1} /\ Step \in Nat \ {0} /\ FeedTime \in Nat
    /\ \A t, u \in History : t < u => u - t >= Step

(* What is kept of the decisions when they are trimmed.                    *)
ASSUME EngineAssumption == Keep \in Nat /\ Cap \in Nat /\ Keep <= Cap

(* A fee and the largest position are amounts.                             *)
ASSUME PlanningAssumption == MaxPosition \in Nat /\ FeeRate \in Nat

(* What is measured of candles is not negative.                            *)
ASSUME GuardsAssumption ==
    /\ Volumes \subseteq Nat /\ Ranges \subseteq Nat /\ CandleIntervals \subseteq Nat
    /\ Traded \in SUBSET Nat /\ Traded # {} /\ Ranged \in SUBSET Nat /\ Ranged # {}
    /\ Gaps \subseteq Nat /\ Closes \subseteq Int /\ Ages \subseteq Nat

(* A verdict of an oscillator is for a side, or for none.                  *)
ASSUME AlphaAssumption == Oscillators \subseteq -1..1

(* What the backtester is told of costs and distances are amounts, and a   *)
(* position is held for some bars; slippage is a small part of a price.    *)
ASSUME BacktestAssumption ==
    /\ Prices \subseteq Nat
    /\ StopDistance \in Nat /\ TargetDistance \in Nat /\ Slippage \in Nat
    /\ \A p \in Prices : p > Slippage
    /\ Lookback \in Nat /\ TrainBars \in Nat /\ TestBars \in Nat /\ MaxHeld \in Nat \ {0}
    /\ CommissionPct \in Nat /\ InitialCapital \in Nat

(* There is a day to begin with, and a page of the exchange or the journal *)
(* has some length.                                                        *)
ASSUME BooksAssumption ==
    /\ MaxDay \in Nat \ {0} /\ Days \in Nat
    /\ FillPage \in Nat /\ JournalPage \in Nat
    /\ Results \subseteq Int

(* A client asks for some number of events.                                *)
ASSUME HistoryAssumption == Limits \subseteq Nat

(* A sweep is over some of the parameters, each with some values to try.   *)
ASSUME ArchiveAssumption ==
    /\ Keys \in Seq(DOMAIN Values)
    /\ Values \in [DOMAIN Values -> Seq(Int) \ {<< >>}]
    /\ Sharpes \subseteq Nat

VARIABLES
    part, market, votes, seen, conditions, config, changeLog, recentDecisions, cycleCount, setup,
    candles, lastGridIndex, lastBuyTime, signalled, bought, window, phase, bar, capital, position,
    trades, equityCurve, runningCapital, allTestTrades, allTestEquity, now, exchange, rows,
    lastCandle, cursor, saved, clock, nextRun, cache, since, got, latest, positions, inFlight, done,
    today, fills, open, trade_journal, counters, lastResetDate, result, passes, told, panel,
    routeTimers, running, halted, changes, data, fetches, form, formFetches, post, row, prefs,
    shown, edits, buffer, nextId, delivered, env, stage, settings, cached, adapter, held,
    coinbaseAuth, runtimeBlock, sentiment, killRow, tripped, killFile, timers, busy, starts, sent,
    recent, volumes, ranges, shape, interval, age, watched, sharpe, step, work, loaded, snapshots,
    index, time, trade_rows, signal_log, ring, nextAlert, userStates, file, _data, created, funds,
    moved, toldOf, inFlow, muddled, cut, updates, tracked, trailed, entryTime, shouldExit, price,
    peak

alphaVars == <<market, votes, seen>>
planningVars == <<conditions>>
engineVars == <<config, changeLog, recentDecisions, cycleCount>>
compositeVars == <<setup>>
steppedVars == <<candles, lastGridIndex, lastBuyTime, signalled, bought>>
backtestVars == <<window, phase, bar, capital, position, trades, equityCurve, runningCapital,
    allTestTrades, allTestEquity>>
feedVars == <<now, exchange, rows, lastCandle, cursor, saved>>
moodVars == <<clock, nextRun, cache, since, got, latest>>
paperVars == <<positions, inFlight, done>>
booksVars == <<today, fills, open, trade_journal, counters, lastResetDate, result, passes, told>>
panelVars == <<panel, routeTimers, running, halted, changes, data, fetches, form, formFetches, post>>
prefsVars == <<row, prefs, shown, edits, buffer, nextId, delivered>>
startupVars == <<env, stage, settings, cached, adapter, held, coinbaseAuth, runtimeBlock, sentiment,
    killRow, tripped, killFile, timers, busy, starts, sent>>
guardVars == <<recent, volumes, ranges, shape, interval, age, watched>>
archiveVars == <<sharpe, step, work, loaded, snapshots, index>>
historyVars == <<time, trade_rows, signal_log, ring, nextAlert>>
botVars == <<userStates, file, _data, created, funds, moved, toldOf, inFlow, muddled, cut, updates>>
trailingVars == <<tracked, trailed, entryTime, shouldExit, price, peak>>
vars == <<part, alphaVars, planningVars, engineVars, compositeVars, steppedVars, backtestVars, feedVars,
          moodVars, paperVars, booksVars, panelVars, prefsVars, startupVars, guardVars,
          archiveVars, historyVars, botVars, trailingVars>>

A == INSTANCE AlphaEnsemble
P == INSTANCE TradePlanning
E == INSTANCE StrategyEngine
C == INSTANCE CompositeSignals
S == INSTANCE SteppedSignals WITH MaxTime <- SignalTime
B == INSTANCE Backtest
F == INSTANCE MarketFeed WITH MaxTime <- FeedTime
M == INSTANCE MoodFeed WITH now <- clock, MaxTime <- MoodTime
T == INSTANCE PaperTrading WITH Symbols <- PaperSymbols, Prices <- PaperPrices
J == INSTANCE TradeBooks
D == INSTANCE Dashboard WITH config <- panel, timers <- routeTimers, triggered <- halted,
                             Limits <- PollLimits, MaxChanges <- PanelChanges
N == INSTANCE AlertPrefs WITH cache <- prefs, MaxSize <- AlertSize
U == INSTANCE Startup WITH phase <- stage, config <- settings, triggered <- tripped, MaxOrders <- MaxSent
G == INSTANCE MarketGuards WITH Intervals <- CandleIntervals
R == INSTANCE RunArchive
H == INSTANCE EventHistory WITH MaxSize <- RingSize, MaxTime <- HistoryTime
L == INSTANCE LiveBot
K == INSTANCE TrailingStop WITH position <- trailed, Prices <- StopPrices

(* A setup has a value of each reading, one of those considered.           *)
ASSUME CompositeAssumption ==
    \A b \in Bases :
        /\ b = [f \in DOMAIN C!Readings |-> b[f]]
        /\ \A f \in DOMAIN C!Readings : b[f] \in C!Readings[f]

(* What the variables of the other parts hold.                             *)
Idle == 0

Init ==
    /\ part \in {"alpha", "planning", "engine", "composite", "stepped", "backtest", "feed", "mood",
                 "paper", "books", "panel", "prefs", "startup", "guards", "archive",
                 "history", "bot", "trailing"}
    /\ IF part = "alpha" THEN A!Init
       ELSE /\ market = Idle /\ votes = Idle /\ seen = Idle
    /\ IF part = "planning" THEN P!Init
       ELSE /\ conditions = Idle
    /\ IF part = "engine" THEN E!Init
       ELSE /\ config = Idle /\ changeLog = Idle /\ recentDecisions = Idle /\ cycleCount = Idle
    /\ IF part = "composite" THEN C!Init
       ELSE /\ setup = Idle
    /\ IF part = "stepped" THEN S!Init
       ELSE /\ candles = Idle /\ lastGridIndex = Idle /\ lastBuyTime = Idle /\ signalled = Idle
            /\ bought = Idle
    /\ IF part = "backtest" THEN B!Init
       ELSE /\ window = Idle /\ phase = Idle /\ bar = Idle /\ capital = Idle /\ position = Idle
            /\ trades = Idle /\ equityCurve = Idle /\ runningCapital = Idle
            /\ allTestTrades = Idle /\ allTestEquity = Idle
    /\ IF part = "feed" THEN F!Init
       ELSE /\ now = Idle /\ exchange = Idle /\ rows = Idle /\ lastCandle = Idle /\ cursor = Idle
            /\ saved = Idle
    /\ IF part = "mood" THEN M!Init
       ELSE /\ clock = Idle /\ nextRun = Idle /\ cache = Idle /\ since = Idle /\ got = Idle
            /\ latest = Idle
    /\ IF part = "paper" THEN T!Init
       ELSE /\ positions = Idle /\ inFlight = Idle /\ done = Idle
    /\ IF part = "books" THEN J!Init
       ELSE /\ today = Idle /\ fills = Idle /\ open = Idle /\ trade_journal = Idle
            /\ counters = Idle /\ lastResetDate = Idle /\ result = Idle /\ passes = Idle
            /\ told = Idle
    /\ IF part = "panel" THEN D!Init
       ELSE /\ panel = Idle /\ routeTimers = Idle /\ running = Idle /\ halted = Idle
            /\ changes = Idle /\ data = Idle /\ fetches = Idle /\ form = Idle
            /\ formFetches = Idle /\ post = Idle
    /\ IF part = "prefs" THEN N!Init
       ELSE /\ row = Idle /\ prefs = Idle /\ shown = Idle /\ edits = Idle /\ buffer = Idle
            /\ nextId = Idle /\ delivered = Idle
    /\ IF part = "startup" THEN U!Init
       ELSE /\ env = Idle /\ stage = Idle /\ settings = Idle /\ cached = Idle /\ adapter = Idle
            /\ held = Idle /\ coinbaseAuth = Idle /\ runtimeBlock = Idle /\ sentiment = Idle
            /\ killRow = Idle /\ tripped = Idle /\ killFile = Idle /\ timers = Idle
            /\ busy = Idle /\ starts = Idle /\ sent = Idle
    /\ IF part = "guards" THEN G!Init
       ELSE /\ recent = Idle /\ volumes = Idle /\ ranges = Idle /\ shape = Idle
            /\ interval = Idle /\ age = Idle /\ watched = Idle
    /\ IF part = "archive" THEN R!Init
       ELSE /\ sharpe = Idle /\ step = Idle /\ work = Idle /\ loaded = Idle /\ snapshots = Idle
            /\ index = Idle
    /\ IF part = "history" THEN H!Init
       ELSE /\ time = Idle /\ trade_rows = Idle /\ signal_log = Idle /\ ring = Idle
            /\ nextAlert = Idle
    /\ IF part = "bot" THEN L!Init
       ELSE /\ userStates = Idle /\ file = Idle /\ _data = Idle /\ created = Idle /\ funds = Idle
            /\ moved = Idle /\ toldOf = Idle /\ inFlow = Idle /\ muddled = Idle /\ cut = Idle
            /\ updates = Idle
    /\ IF part = "trailing" THEN K!Init
       ELSE /\ tracked = Idle /\ trailed = Idle /\ entryTime = Idle /\ shouldExit = Idle
            /\ price = Idle /\ peak = Idle

Next ==
    \/ /\ part = "alpha" /\ A!Next
       /\ UNCHANGED <<part, planningVars, engineVars, compositeVars, steppedVars, backtestVars,
                      feedVars, moodVars, paperVars, booksVars, panelVars,
                      prefsVars, startupVars, guardVars, archiveVars,
                      historyVars, botVars, trailingVars>>
    \/ /\ part = "planning" /\ P!Next
       /\ UNCHANGED <<part, alphaVars, engineVars, compositeVars, steppedVars, backtestVars, feedVars,
                      moodVars, paperVars, booksVars, panelVars, prefsVars,
                      startupVars, guardVars, archiveVars, historyVars, botVars,
                      trailingVars>>
    \/ /\ part = "engine" /\ E!Next
       /\ UNCHANGED <<part, alphaVars, planningVars, compositeVars, steppedVars, backtestVars,
                      feedVars, moodVars, paperVars, booksVars, panelVars,
                      prefsVars, startupVars, guardVars, archiveVars,
                      historyVars, botVars, trailingVars>>
    \/ /\ part = "composite" /\ C!Next
       /\ UNCHANGED <<part, alphaVars, planningVars, engineVars, steppedVars, backtestVars, feedVars,
                      moodVars, paperVars, booksVars, panelVars, prefsVars,
                      startupVars, guardVars, archiveVars, historyVars, botVars,
                      trailingVars>>
    \/ /\ part = "stepped" /\ S!Next
       /\ UNCHANGED <<part, alphaVars, planningVars, engineVars, compositeVars, backtestVars,
                      feedVars, moodVars, paperVars, booksVars, panelVars,
                      prefsVars, startupVars, guardVars, archiveVars,
                      historyVars, botVars, trailingVars>>
    \/ /\ part = "backtest" /\ B!Next
       /\ UNCHANGED <<part, alphaVars, planningVars, engineVars, compositeVars, steppedVars, feedVars,
                      moodVars, paperVars, booksVars, panelVars, prefsVars,
                      startupVars, guardVars, archiveVars, historyVars, botVars,
                      trailingVars>>
    \/ /\ part = "feed" /\ F!Next
       /\ UNCHANGED <<part, alphaVars, planningVars, engineVars, compositeVars, steppedVars,
                      backtestVars, moodVars, paperVars, booksVars, panelVars,
                      prefsVars, startupVars, guardVars, archiveVars,
                      historyVars, botVars, trailingVars>>
    \/ /\ part = "mood" /\ M!Next
       /\ UNCHANGED <<part, alphaVars, planningVars, engineVars, compositeVars, steppedVars,
                      backtestVars, feedVars, paperVars, booksVars, panelVars,
                      prefsVars, startupVars, guardVars, archiveVars,
                      historyVars, botVars, trailingVars>>
    \/ /\ part = "paper" /\ T!Next
       /\ UNCHANGED <<part, alphaVars, planningVars, engineVars, compositeVars, steppedVars,
                      backtestVars, feedVars, moodVars, booksVars, panelVars,
                      prefsVars, startupVars, guardVars, archiveVars,
                      historyVars, botVars, trailingVars>>
    \/ /\ part = "books" /\ J!Next
       /\ UNCHANGED <<part, alphaVars, planningVars, engineVars, compositeVars, steppedVars,
                      backtestVars, feedVars, moodVars, paperVars, panelVars,
                      prefsVars, startupVars, guardVars, archiveVars,
                      historyVars, botVars, trailingVars>>
    \/ /\ part = "panel" /\ D!Next
       /\ UNCHANGED <<part, alphaVars, planningVars, engineVars, compositeVars, steppedVars,
                      backtestVars, feedVars, moodVars, paperVars, booksVars,
                      prefsVars, startupVars, guardVars, archiveVars,
                      historyVars, botVars, trailingVars>>
    \/ /\ part = "prefs" /\ N!Next
       /\ UNCHANGED <<part, alphaVars, planningVars, engineVars, compositeVars, steppedVars,
                      backtestVars, feedVars, moodVars, paperVars, booksVars,
                      panelVars, startupVars, guardVars, archiveVars,
                      historyVars, botVars, trailingVars>>
    \/ /\ part = "startup" /\ U!Next
       /\ UNCHANGED <<part, alphaVars, planningVars, engineVars, compositeVars, steppedVars,
                      backtestVars, feedVars, moodVars, paperVars, booksVars,
                      panelVars, prefsVars, guardVars, archiveVars, historyVars,
                      botVars, trailingVars>>
    \/ /\ part = "guards" /\ G!Next
       /\ UNCHANGED <<part, alphaVars, planningVars, engineVars, compositeVars, steppedVars,
                      backtestVars, feedVars, moodVars, paperVars, booksVars,
                      panelVars, prefsVars, startupVars, archiveVars,
                      historyVars, botVars, trailingVars>>
    \/ /\ part = "archive" /\ R!Next
       /\ UNCHANGED <<part, alphaVars, planningVars, engineVars, compositeVars, steppedVars,
                      backtestVars, feedVars, moodVars, paperVars, booksVars,
                      panelVars, prefsVars, startupVars, guardVars, historyVars,
                      botVars, trailingVars>>
    \/ /\ part = "history" /\ H!Next
       /\ UNCHANGED <<part, alphaVars, planningVars, engineVars, compositeVars, steppedVars,
                      backtestVars, feedVars, moodVars, paperVars, booksVars,
                      panelVars, prefsVars, startupVars, guardVars, archiveVars,
                      botVars, trailingVars>>
    \/ /\ part = "bot" /\ L!Next
       /\ UNCHANGED <<part, alphaVars, planningVars, engineVars, compositeVars, steppedVars,
                      backtestVars, feedVars, moodVars, paperVars, booksVars,
                      panelVars, prefsVars, startupVars, guardVars, archiveVars,
                      historyVars, trailingVars>>
    \/ /\ part = "trailing" /\ K!Next
       /\ UNCHANGED <<part, alphaVars, planningVars, engineVars, compositeVars, steppedVars,
                      backtestVars, feedVars, moodVars, paperVars, booksVars,
                      panelVars, prefsVars, startupVars, guardVars, archiveVars,
                      historyVars, botVars>>

Spec == Init /\ [][Next]_vars

(* See AlphaEnsemble: both sides are signalled alike, sentiment only tilts.   *)
VotesFair == part = "alpha" => A!SidesAlike /\ A!SentimentOnlyTilts
(* See TradePlanning and MarketGuards: no trouble makes a plan risk more   *)
(* or relaxes the mode, nor does a growing candle that stopped a signal    *)
(* let it through, except by its body.                                     *)
TroubleNeverRisksMore ==
    [][(part = "planning" => P!RisksNoMore) /\ (part = "guards" => G!StaysStopped)]_vars
(* See StrategyEngine: what was decided, and under what, can be told.      *)
HistoryComplete == part = "engine" => E!HistoryComplete
(* See CompositeSignals: a more bullish reading drops no buy.              *)
BullishNeverTurnsAway == [][part = "composite" => C!NoBuyDropped]_vars
(* See SteppedSignals: signals follow moves and buys an interval.          *)
SignalsSpaced == part = "stepped" => S!SignalsSpaced
(* See Backtest and RunArchive: what a test reports is what its trades     *)
(* did, and what is kept of it is what was tested.                         *)
TestSound == (part = "backtest" => B!TestSound) /\ (part = "archive" => R!ArchiveSound)
(* See MarketFeed: no fake candle stays where a real one is known.         *)
FakeGivesWay == part = "feed" => F!FakeGivesWay
(* See MoodFeed: the mood acted on is one that was true lately.            *)
MoodFresh == part = "mood" => M!MoodFresh
(* See PaperTrading: a symbol has one position, and its orders fill it.    *)
OnePosition == part = "paper" => T!OnePosition
(* See TradeBooks and EventHistory: the counts told are of the last day    *)
(* with any, what the books tell of results and of the exchange is so, and *)
(* what the time line leaves out is not newer than what it shows.          *)
BooksTold ==
    /\ []((part = "books" => J!DayTold) /\ (part = "history" => H!TimelineComplete))
    /\ [][part = "books" => J!PassTells]_vars
(* See Dashboard: the page never goes back, the timers are as configured.  *)
PanelSound == [](part = "panel" => D!TimerFollows) /\ [][part = "panel" => D!NeverGoesBack]_vars
(* See AlertPrefs: preferences survive, a page undoes nothing of another.  *)
PrefsKept == [](part = "prefs" => N!CacheIsRow) /\ [][part = "prefs" => N!OthersStay]_vars
(* See Startup: no order leaves a process that was not cleared for it.     *)
OrdersCleared == [][part = "startup" => U!Cleared]_vars
(* See LiveBot: wallets are kept, and money moves as its owner was asked.  *)
BotSound == part = "bot" => L!WalletKept /\ L!MovedAsAsked
(* See TrailingStop: the tracked high is the peak since the entry, and the *)
(* stop of an entry never falls.                                           *)
HighIsPeak == part = "trailing" => K!HighIsPeak
StopRisesPerEntry == [][part = "trailing" => K!StopRises]_vars
=============================================================================
