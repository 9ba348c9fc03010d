------------------------------- MODULE Backtest -------------------------------
(***************************************************************************)
(* The backtester: the engine's pass over a window of candles, walk-       *)
(* forward testing over several windows, and the metrics of what they      *)
(* leave behind.  A bar's indicators are abstracted to the signal they     *)
(* give and to the distances an entry's stop and target are put at.        *)
(***************************************************************************)
EXTENDS Integers, Sequences, SequencesExt, FiniteSetsExt, Sums

CONSTANTS
    Windows,           \* of the walk-forward test
    TrainBars, TestBars,
    Lookback,          \* bars of a window before the first that is traded
    MaxHeld,           \* bars after which a position is closed
    StopDistance, TargetDistance, Slippage,   \* in the unit of the price
    CommissionPct,
    InitialCapital,
    Prices             \* a candle may reach

VARIABLES
    window, phase, bar,   \* where the walk-forward test is
    capital, position,    \* of the engine's pass
    trades, equityCurve,  \* of the pass
    runningCapital, allTestTrades, allTestEquity

progress == <<window, phase, bar>>
books == <<runningCapital, allTestTrades, allTestEquity>>
vars == <<progress, capital, position, trades, equityCurve, books>>

NoPosition == [side |-> "none"]
applySlippage(price, buys) == IF buys THEN price + Slippage ELSE price - Slippage

Candle == {c \in [low : Prices, high : Prices, close : Prices] : c.low <= c.close /\ c.close <= c.high}

enter(side, price) ==
    LET long == side = "long"
        fill == applySlippage(price, long)
        sign == IF long THEN 1 ELSE -1
        commission == (capital * CommissionPct) \div 100
    IN  [side |-> side, entry |-> fill, size |-> capital - commission, commission |-> commission,
         stop |-> fill - sign * StopDistance, target |-> fill + sign * TargetDistance, opened |-> bar]

stopped(c) == IF position.side = "long" THEN c.low <= position.stop ELSE c.high >= position.stop
reached(c) == IF position.side = "long" THEN c.high >= position.target ELSE c.low <= position.target
turned(signal) == signal = (IF position.side = "long" THEN "SELL" ELSE "BUY")

exitReason_SignalFirst(c, signal) ==                        \* mutant
    CASE turned(signal) -> "signal"
      [] ~turned(signal) /\ stopped(c) -> "stop_loss"
      [] OTHER -> IF bar - position.opened >= MaxHeld THEN "timeout" ELSE "none"
exitReason(c, signal) ==
    CASE stopped(c) -> "stop_loss"
      [] ~stopped(c) /\ reached(c) -> "take_profit"
      [] ~stopped(c) /\ ~reached(c) /\ turned(signal) -> "signal"
      [] OTHER -> IF bar - position.opened >= MaxHeld THEN "timeout" ELSE "none"

gain(price) ==
    (position.size * (IF position.side = "long" THEN price - position.entry ELSE position.entry - price))
        \div position.entry

closed(c, reason) ==
    LET exit == applySlippage(CASE reason = "stop_loss" -> position.stop
                                [] reason = "take_profit" -> position.target
                                [] OTHER -> c.close, position.side = "short")
    IN  [side |-> position.side, entry |-> position.entry, exit |-> exit, reason |-> reason,
         pnl |-> gain(exit) - position.commission - (position.size * CommissionPct) \div 100,
         barsHeld |-> bar - position.opened]

bars == IF phase = "train" THEN TrainBars ELSE TestBars

-----------------------------------------------------------------------------
Start(p, funds) ==
    /\ phase' = p
    /\ bar' = Lookback
    /\ capital' = funds
    /\ position' = NoPosition
    /\ trades' = << >>
    /\ equityCurve' = << >>

Init ==
    /\ window = 1 /\ phase = "train" /\ bar = Lookback
    /\ capital = InitialCapital /\ position = NoPosition
    /\ trades = << >> /\ equityCurve = << >>
    /\ runningCapital = InitialCapital /\ allTestTrades = << >> /\ allTestEquity = << >>

(* One turn of runOnCandles: an entry at the close, or the exit of what is *)
(* open, never both; then the equity, with what is open at the close.      *)
Bar(c, signal) ==
    /\ bar < bars
    /\ IF position = NoPosition
       THEN /\ position' = CASE signal = "BUY" -> enter("long", c.close)
                             [] signal = "SELL" -> enter("short", c.close)
                             [] OTHER -> NoPosition
            /\ UNCHANGED <<capital, trades>>
       ELSE LET reason == exitReason(c, signal)
            IN  IF reason = "none" THEN UNCHANGED <<position, capital, trades>>
                ELSE /\ position' = NoPosition
                     /\ capital' = capital + closed(c, reason).pnl
                     /\ trades' = Append(trades, closed(c, reason))
    /\ equityCurve' = Append(equityCurve,
                        capital' + IF position' = NoPosition THEN 0
                                   ELSE (position'.size * (IF position'.side = "long"
                                            THEN c.close - position'.entry
                                            ELSE position'.entry - c.close)) \div position'.entry)
    /\ bar' = bar + 1
    /\ UNCHANGED <<window, phase, books>>

(* The window's test follows its training, with the capital carried over.  *)
(* (The pass throws for fewer than 50 candles, of which runWalkForward()   *)
(* lets windows of 10 on be tested: such a test reports nothing at all, so *)
(* that the windows here are those long enough.)                           *)
Test ==
    /\ phase = "train" /\ bar = TrainBars
    /\ Start("test", runningCapital)
    /\ UNCHANGED <<window, books>>

(* What a window carries over is its last equity: a position that is still *)
(* open then is dropped, with its gain so far and no commission.           *)
NextWindow ==
    /\ phase = "test" /\ bar = TestBars
    /\ runningCapital' = IF equityCurve = << >> THEN runningCapital ELSE Last(equityCurve)
    /\ allTestTrades' = allTestTrades \o trades
    /\ allTestEquity' = allTestEquity \o equityCurve
    /\ IF window < Windows
       THEN window' = window + 1 /\ Start("train", InitialCapital)
       ELSE /\ phase' = "done"
            /\ UNCHANGED <<window, bar, capital, position, trades, equityCurve>>

Next == (\E c \in Candle, signal \in {"BUY", "SELL", "HOLD"} : Bar(c, signal)) \/ Test \/ NextWindow

Spec == Init /\ [][Next]_vars

-----------------------------------------------------------------------------
(* computeMetrics, of the curve: the deepest drawdown in percent, and how  *)
(* long after its peak it was; of the trades: the longest row of wins, and *)
(* the bars they were held.                                                *)
fallen(acc, curve, i) ==
    LET e == curve[i]
        peak == IF e > acc.peak THEN e ELSE acc.peak
        start == IF e > acc.peak THEN i ELSE acc.start
        dd == (100 * (peak - e)) \div peak
    IN  [peak |-> peak, start |-> start, max |-> IF dd > acc.max THEN dd ELSE acc.max,
         duration |-> IF dd > acc.max THEN i - start ELSE acc.duration]
drawdowns(curve) ==
    LET upTo[i \in 0..Len(curve)] ==
            IF i = 0 THEN [peak |-> curve[1], start |-> 1, max |-> 0, duration |-> 0]
            ELSE fallen(upTo[i - 1], curve, i)
    IN  upTo
drawdown(curve) == drawdowns(curve)[Len(curve)]

won(acc, t) ==
    LET row == IF t.pnl > 0 THEN acc.row + 1 ELSE 0
    IN  [row |-> row, max |-> IF row > acc.max THEN row ELSE acc.max]
streaks(results) ==
    LET upTo[i \in 0..Len(results)] ==
            IF i = 0 THEN [row |-> 0, max |-> 0] ELSE won(upTo[i - 1], results[i])
    IN  upTo
streak_Current(results) == streaks(results)[Len(results)].row        \* mutant
streak(results) == streaks(results)[Len(results)].max

barsInMarket(results) == SumTo([i \in DOMAIN results |-> results[i].barsHeld], Len(results))

(* The metrics, of a pass and of all tests, agree with what they are said  *)
(* to measure: no fall between two points of a curve that begins above     *)
(* zero, and never gets below it, is deeper, no longer row of trades all   *)
(* wins, and no more bars are spent in the market than there are.          *)
DrawdownMatches(curve) ==
    LET falls == {f \in (DOMAIN curve) \X (DOMAIN curve) : f[1] <= f[2] /\ curve[f[1]] > 0}
    IN  (Len(curve) >= 2 /\ curve[1] > 0 /\ \A i \in DOMAIN curve : curve[i] >= 0) =>
            drawdown(curve).max =
                Max({0} \union {(100 * (curve[f[1]] - curve[f[2]])) \div curve[f[1]] : f \in falls})
StreakMatches(results) ==
    LET rows == {r \in (DOMAIN results) \X (DOMAIN results) :
                    r[1] <= r[2] /\ \A k \in r[1]..r[2] : results[k].pnl > 0}
    IN  streak(results) = Max({0} \union {r[2] - r[1] + 1 : r \in rows})
MetricsMatch ==
    \A pass \in {<<equityCurve, trades>>, <<allTestEquity, allTestTrades>>} :
        /\ DrawdownMatches(pass[1])
        /\ StreakMatches(pass[2])
        /\ barsInMarket(pass[2]) <= Len(pass[1])

(* No trade is held past its time, ends in the bar it began in, or loses   *)
(* more than the stop it was given and the slippage of its exit: the stop  *)
(* is looked at before what closes at the bar's close.  (It holds of gaps  *)
(* as well, which the engine fills at the stop, as no market would.)       *)
TradesBounded ==
    \A i \in DOMAIN trades :
        LET t == trades[i]
        IN  /\ t.barsHeld \in 1..MaxHeld
            /\ (IF t.side = "long" THEN t.entry - t.exit ELSE t.exit - t.entry) <= StopDistance + Slippage
(* Of a test: the metrics are those of what happened, and no trade costs  *)
(* more than its stop.                                                     *)
TestSound == MetricsMatch /\ TradesBounded
=============================================================================
