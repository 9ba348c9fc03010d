--------------------------- MODULE CompositeSignals ---------------------------
(***************************************************************************)
(* The strategies that judge a candle by indicators alone and keep no      *)
(* state: RSI mean reversion, EMA crossover, their composite, the advanced *)
(* composite with its score of thirteen indicators, and the regime-aware   *)
(* one that is used when nothing else is configured.  `setup' holds what   *)
(* the indicators read; scores are in hundredths.                          *)
(***************************************************************************)
EXTENDS Integers, FiniteSetsExt

CONSTANTS
    Bases,   \* the setups to start from
    Moves    \* bound: readings that differ from those of a base

VARIABLE setup

Absent == -1      \* no fear-and-greed index

(* What computeIndicators reads, the analysis of the other timeframes and  *)
(* the mood.  The two lines of the StochRSI are on the same side of every  *)
(* limit; 2 as `frames' is a daily trend against the two shorter ones.     *)
Readings ==
    [candles |-> {90, 150, 300},
     stack |-> -1..1, ema200 |-> {-1, 1}, cross |-> -1..1, slope |-> -1..1, macd |-> -1..1,
     adx |-> {15, 24, 27, 35}, di |-> {-1, 1}, band |-> {5, 20, 50, 80, 95}, spike |-> 0..1,
     rsi |-> {10, 28, 38, 50, 62, 72, 90}, stoch |-> {5, 15, 25, 50, 75, 85, 95},
     mfi |-> {10, 18, 25, 50, 75, 82, 90}, cci |-> {-350, -150, -70, 0, 70, 150, 350},
     vwap |-> -1..1, obv |-> -1..1, williams |-> -1..1, frames |-> -1..2,
     greed |-> {Absent, 5, 12, 22, 50, 78, 81, 89, 100},
     atrSpike |-> 0..1, squeeze |-> 0..1]

sign(n) == IF n > 0 THEN 1 ELSE IF n < 0 THEN -1 ELSE 0
oversold(v, low, high) == IF v <= low THEN 1 ELSE IF v >= high THEN -1 ELSE 0

(* The trend of one timeframe, and what those of the day and of shorter    *)
(* frames (4h, 1h) together say, as `frames' has it.                       *)
analyzeTrend(length, stack, aboveEma200) ==
    IF length < 200 THEN 0 ELSE IF stack # 0 THEN stack ELSE IF aboveEma200 THEN 1 ELSE -1
Trends == {analyzeTrend(n, stack, above) : n \in {150, 300}, stack \in -1..1, above \in BOOLEAN}

analyze(day, shorter) ==
    IF day # 0 /\ \A t \in shorter : t = day THEN day
    ELSE IF \E t \in shorter : shorter = {t} /\ t = -day /\ t # 0 THEN 2
    ELSE 0

trendScore(s) ==
    200 * s.stack + 100 * s.ema200 + 100 * oversold(s.rsi, 40, 60) + 150 * oversold(s.rsi, 30, 70)
      + 200 * s.macd + (IF s.adx > 25 THEN 150 * s.di ELSE 0) + 150 * oversold(s.band, 10, 90)

indicatorScore(s) ==
    LET trend == trendScore(s)
    IN  trend + 100 * s.spike * sign(trend)
          + 100 * (oversold(s.stoch, 19, 81) + oversold(s.mfi, 19, 81) + oversold(s.cci, -101, 101) + s.vwap)
          + 50 * (s.obv + s.williams)

(* The boost of agreeing timeframes goes to a score on their side; what    *)
(* disagreeing ones take is taken of either side's.                        *)
framedScore(s) ==
    LET own == indicatorScore(s)
    IN  own + (IF s.frames = 2 THEN -100 ELSE IF s.frames = sign(own) THEN 150 * s.frames ELSE 0)

oscillators(s) ==
    <<oversold(s.rsi, 30, 70), oversold(s.mfi, 19, 81), oversold(s.cci, -101, 101),
      oversold(s.stoch, 19, 81), s.williams>>
consensus(s) ==
    LET verdicts == oscillators(s)
        count(side) == Cardinality({i \in 1..5 : verdicts[i] = side})
    IN  (IF count(1) >= 3 THEN 150 ELSE 0) - (IF count(-1) >= 3 THEN 150 ELSE 0)

vetoed(s) ==
    LET score == framedScore(s) + consensus(s)
    IN  IF s.rsi > 85 /\ s.mfi > 85 /\ s.cci > 300 /\ s.stoch > 90 THEN Min({score, 150})
        ELSE IF s.rsi < 15 /\ s.mfi < 15 /\ s.cci < -300 /\ s.stoch < 10 THEN Max({score, -150})
        ELSE score

agreeing_Momentum(s, side) ==                               \* mutant
    Cardinality({i \in 1..10 :
        side = <<s.stack, s.ema200, -oversold(s.rsi, 40, 60), s.macd, IF s.adx > 25 THEN s.di ELSE 0,
                 -oversold(s.band, 30, 70), -oversold(s.stoch, 29, 71), -oversold(s.mfi, 29, 71),
                 -oversold(s.cci, -51, 51), s.vwap>>[i]})
agreeing(s, side) ==
    Cardinality({i \in 1..10 :
        side = <<s.stack, s.ema200, oversold(s.rsi, 40, 60), s.macd, IF s.adx > 25 THEN s.di ELSE 0,
                 oversold(s.band, 30, 70), oversold(s.stoch, 29, 71), oversold(s.mfi, 29, 71),
                 oversold(s.cci, -51, 51), s.vwap>>[i]})

(* scoreSetup: with fewer than four indicators behind it a score is small. *)
score(s) ==
    LET sum == vetoed(s)
    IN  IF sum # 0 /\ agreeing(s, sign(sum)) < 4 THEN Max({-150, Min({150, sum})}) ELSE sum

(* The mood: strong greed takes from a score to buy, strong fear from one  *)
(* to sell, the rest of either zone shifts any score.  Rounded to tenths,  *)
(* a half up.                                                              *)
moodScore(s) ==
    LET raw == score(s)
        moved ==
          CASE s.greed = Absent -> raw
            [] s.greed > 80 /\ raw > 0 -> Max({0, raw - ((s.greed - 80) * 15) \div 2})
            [] s.greed \in 0..19 /\ raw < 0 -> Min({0, raw + ((20 - s.greed) * 15) \div 2})
            [] s.greed \in 0..25 /\ ~(s.greed < 20 /\ raw < 0) -> raw + 50
            [] s.greed >= 75 /\ ~(s.greed > 80 /\ raw > 0) -> raw - 50
            [] OTHER -> raw
    IN  10 * ((moved + 5) \div 10)

-----------------------------------------------------------------------------
(* What a strategy answers: 1 to buy, -1 to sell, 0 to hold.               *)
advanced(s, threshold) ==
    LET total == moodScore(s)
    IN  IF s.candles < 210 \/ Max({total, -total}) < threshold THEN 0 ELSE sign(total)

rsiMeanReversion(s) == oversold(s.rsi, 30, 70)

emaCrossover(s) == s.cross

compositeExample(s) == IF emaCrossover(s) = rsiMeanReversion(s) THEN emaCrossover(s) ELSE 0

detect(s) ==
    CASE s.atrSpike = 1 -> "high_volatility"
      [] s.atrSpike = 0 /\ s.squeeze = 1 /\ s.adx < 22 -> "breakout"
      [] s.atrSpike = 0 /\ s.adx > 22 /\ s.slope = 1 /\ s.rsi > 42 -> "trending_up"
      [] s.atrSpike = 0 /\ s.adx > 22 /\ s.slope = -1 /\ s.rsi < 58 -> "trending_down"
      [] OTHER -> "ranging"

regimeAware(s) ==
    CASE s.candles < 100 \/ detect(s) = "high_volatility" -> 0
      [] s.candles >= 100 /\ detect(s) = "breakout" -> advanced(s, 150)
      [] s.candles >= 100 /\ detect(s) = "ranging" -> advanced(s, 80)
      [] OTHER -> advanced(s, IF s.adx > 28 THEN 100 ELSE 80)

LegacyStrategies == {"rsi_mean_reversion", "ema_crossover", "composite", "advanced_composite", "regime_aware"}
createStrategy(name, s) ==
    CASE name = "rsi_mean_reversion" -> rsiMeanReversion(s)
      [] name = "ema_crossover" -> emaCrossover(s)
      [] name = "composite" -> compositeExample(s)
      [] name = "advanced_composite" -> advanced(s, 200)
      [] OTHER -> regimeAware(s)

-----------------------------------------------------------------------------
Init == setup \in Bases

Read(f, v) ==
    /\ setup' = [setup EXCEPT ![f] = v]
    /\ \E b \in Bases : Cardinality({g \in DOMAIN Readings : setup'[g] # b[g]}) <= Moves

(* The shorter frames turn: analyze decides what that says with the day's. *)
TurnFrames(day, shorter) == Read("frames", analyze(day, shorter))

Next ==
    \/ \E f \in DOMAIN Readings \ {"frames"} : \E v \in Readings[f] : Read(f, v)
    \/ \E day \in Trends : \E shorter \in SUBSET Trends \ {{}} : TurnFrames(day, shorter)

Spec == Init /\ [][Next]_setup

-----------------------------------------------------------------------------
Rising == {"stack", "ema200", "cross", "macd", "di", "vwap", "obv", "williams"}
Falling == {"rsi", "band", "stoch", "mfi", "cci"}
moreBullish(f, s, t) ==
    \/ f \in Rising /\ t[f] > s[f]
    \/ f \in Falling /\ t[f] < s[f]
    \/ f = "frames" /\ {s.frames, t.frames} \subseteq -1..1 /\ t.frames > s.frames

(* An indicator that turns in favour of buying, by the reading the score   *)
(* gives it, never makes any of the strategies drop a buy, nor begin to    *)
(* sell: not through the volume that sides with what is ahead, the         *)
(* consensus, the vetoes, the count of agreeing indicators, or the mood.   *)
(* Only where an RSI changes the regime, and the regime the score that is  *)
(* asked for, a signal may begin or end; even then none turns round.       *)
NoBuyDropped ==
    \A f \in Rising \union Falling \union {"frames"} :
        moreBullish(f, setup, setup') =>
            \A name \in LegacyStrategies :
                LET before == createStrategy(name, setup)
                    after == createStrategy(name, setup')
                IN  \/ after >= before
                    \/ name = "regime_aware" /\ detect(setup') # detect(setup) /\ after >= before - 1
BullishNeverTurnsAway == [][NoBuyDropped]_setup

(* "strong trend needs less confirmation" (regimeAwareComposite.ts:28):    *)
(* what is bought or sold in a trend still is once the trend is strong.    *)
SignalInStrongTrendStays ==
    setup.adx \in 26..28 /\ setup'.adx > 28 /\ regimeAware(setup) # 0 =>
        regimeAware(setup') = regimeAware(setup)
StrongTrendNeedsLess == [][SignalInStrongTrendStays]_setup
=============================================================================
