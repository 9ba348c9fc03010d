---------------------------- MODULE SteppedSignals ----------------------------
(***************************************************************************)
(* The two strategies that remember: the grid, which answers when the      *)
(* price comes nearest to another level than before, and the smart DCA,    *)
(* which buys once an interval.  One instance of either judges the candles *)
(* of every symbol, and judges the last candle again at each run of the    *)
(* strategy loop.  Levels are counted from the middle of the Bollinger     *)
(* bands, which moves; times are in hours.                                 *)
(***************************************************************************)
EXTENDS Integers, FiniteSetsExt

CONSTANTS
    Symbols,
    GridLevels,     \* levels on each side of the centre
    BaseInterval,   \* hours between two buys
    MaxTime         \* bound: time of the last candle

VARIABLES
    candles,         \* last candle of each symbol: its time, and its close counted from the middle
    lastGridIndex,   \* nearest level at the last candle judged, or Unset
    lastBuyTime,     \* of the last buy of the DCA, or 0
    signalled,       \* history: the last two signals of the grid, with the level of each
    bought           \* history: times of the last two buys of the DCA

vars == <<candles, lastGridIndex, lastBuyTime, signalled, bought>>

Trending == GridLevels + 2     \* as a close: the ADX is above 25
Unset == -GridLevels - 1
NoSignal == [side |-> 0, level |-> 0]
Candle == [time : 1..MaxTime, close : -(GridLevels + 1)..Trending]

(* A price beyond the grid is nearest to its edge.                         *)
findGridIndex(c) == Max({-GridLevels, Min({GridLevels, c.close})})

gridSignal(c) ==
    IF c.close = Trending \/ lastGridIndex = Unset THEN 0
    ELSE IF findGridIndex(c) < lastGridIndex THEN 1
    ELSE IF findGridIndex(c) > lastGridIndex THEN -1
    ELSE 0

nextGridIndex_Signalled(c) ==                               \* mutant
    IF c.close = Trending \/ gridSignal(c) # 0 THEN lastGridIndex ELSE findGridIndex(c)
nextGridIndex(c) == IF c.close = Trending THEN lastGridIndex ELSE findGridIndex(c)

(* SmartDCAStrategy: the first candle only starts the interval, and        *)
(* extreme greed puts a buy off without starting another.                  *)
dcaBuys(c, fearGreed) ==
    lastBuyTime # 0 /\ c.time - lastBuyTime >= BaseInterval /\ fearGreed < 75

nextBuyTime_Scheduled(c, fearGreed) ==                      \* mutant
    IF lastBuyTime = 0 THEN c.time
    ELSE IF dcaBuys(c, fearGreed) THEN lastBuyTime + BaseInterval ELSE lastBuyTime
nextBuyTime(c, fearGreed) ==
    IF lastBuyTime = 0 \/ dcaBuys(c, fearGreed) THEN c.time ELSE lastBuyTime

-----------------------------------------------------------------------------
Init ==
    /\ candles = [s \in Symbols |-> [time |-> 1, close |-> 0]]
    /\ lastGridIndex = Unset
    /\ lastBuyTime = 0
    /\ signalled = <<NoSignal, NoSignal>>
    /\ bought = <<0, 0>>

NewCandle(s) ==
    /\ \E c \in Candle : c.time > candles[s].time /\ candles' = [candles EXCEPT ![s] = c]
    /\ UNCHANGED <<lastGridIndex, lastBuyTime, signalled, bought>>

(* Either strategy judges the last candle of a symbol.                     *)
OnCandle(s, fearGreed) ==
    LET c == candles[s]
        signal == [side |-> gridSignal(c), level |-> findGridIndex(c)]
        buys == dcaBuys(c, fearGreed)
    IN  /\ lastGridIndex' = nextGridIndex(c)
        /\ lastBuyTime' = nextBuyTime(c, fearGreed)
        /\ signalled' = IF signal.side # 0 THEN <<signalled[2], signal>> ELSE signalled
        /\ bought' = IF buys THEN <<bought[2], c.time>> ELSE bought
        /\ UNCHANGED candles

Next == \E s \in Symbols : NewCandle(s) \/ \E fearGreed \in {50, 80} : OnCandle(s, fearGreed)

Spec == Init /\ [][Next]_vars

-----------------------------------------------------------------------------
(* Whatever the order in which the symbols' candles come and are judged,   *)
(* again or not, and whether trends come between: a signal of the grid is  *)
(* for a move away from the level of the signal before it, to buy below    *)
(* and to sell above, so that what was bought at a level is not bought     *)
(* there again before a sell.  (The levels are those of all symbols: the   *)
(* same two candles, one at each of two levels, are sold and bought again  *)
(* each time they are judged.)  And however late a candle is, two buys of  *)
(* the DCA are at least an interval apart (gridTrading.ts:85-108,          *)
(* smartDCA.ts).                                                           *)
SignalsSpaced ==
    /\ signalled[1].side # 0 => signalled[2].side * (signalled[1].level - signalled[2].level) > 0
    /\ bought[1] # 0 => bought[2] - bought[1] >= BaseInterval
=============================================================================
