---------------------------- MODULE AlphaEnsemble ----------------------------
(***************************************************************************)
(* The five alpha models of the strategy engine and the ensemble that      *)
(* weighs their votes, once there are the 100 candles they ask for.        *)
(* A model sees the verdicts of its indicators (which side they are on,    *)
(* and how far), not their values: every number the models compare with a  *)
(* threshold is on one side of it or the other.                            *)
(* A score is in hundredths, a confidence in 1/12000, a weight in          *)
(* hundredths, so that all of them are exact.                              *)
(***************************************************************************)
EXTENDS Integers, Sequences, FiniteSetsExt

CONSTANTS
    Markets,       \* bound: the markets considered
    Speakers,      \* bound: models that vote for a side in one cycle
    Oscillators    \* bound: verdicts considered of StochRSI, MFI and CCI

VARIABLES
    market,    \* what MarketStateEngine has measured
    votes,     \* of the models asked so far, in their order
    seen       \* what the next one sees, or << >> before it looks

vars == <<market, votes, seen>>

Models == <<"trend_continuation", "mean_reversion", "volatility_breakout",
            "momentum_divergence", "sentiment_tilt">>

Sides == -1..1

(* volatile: an ATR above 3% or in its top tenth; dry: a volume ratio      *)
(* below 0.3 and a spread above 0.1%; squeezed: narrow bands and no trend; *)
(* trending: an ADX above 22; drift: the sign of the slope.                *)
classifyRegime(m) ==
    CASE m.volatile -> "high_vol"
      [] ~m.volatile /\ (m.liquidity = "extreme" \/ m.dry) -> "low_liquidity"
      [] ~m.volatile /\ m.liquidity # "extreme" /\ ~m.dry ->
            CASE m.squeezed -> "breakout"
              [] ~m.squeezed /\ m.trending /\ m.drift = 1 -> "trending_up"
              [] ~m.squeezed /\ m.trending /\ m.drift = -1 -> "trending_down"
              [] OTHER -> "mean_revert"
regime == classifyRegime(market)

NoData == 9
sign(x) == IF x > 0 THEN 1 ELSE IF x < 0 THEN -1 ELSE 0
beyond(score, limit) == IF score > limit THEN 1 ELSE IF score < -limit THEN -1 ELSE 0

(* What each model can see.  A positive verdict speaks for buying.         *)
Verdicts(m) ==
    CASE m = "trend_continuation" ->
           [stack : Sides, adx : Sides, pullback : BOOLEAN, macd : Sides]
      [] m = "mean_reversion" ->
           [rsi : -2..2, band : -2..2, stoch : Oscillators, mfi : Oscillators, cci : Oscillators]
      [] m = "volatility_breakout" ->
           [squeeze : BOOLEAN, breaking : BOOLEAN, place : {-2, -1, 1, 2},
            volume : {"high", "normal", "low"}, ema : Sides]
      [] m = "momentum_divergence" ->
           [rsiBull : BOOLEAN, rsiBear : BOOLEAN, macdBull : BOOLEAN, macdBear : BOOLEAN]
      [] m = "sentiment_tilt" ->
           [fear : (-2..2) \union {NoData}, news : Sides \union {NoData}]

toInt(b) == IF b THEN 1 ELSE 0

trendScore_AnyMacd(v) ==                                    \* mutant
    200 * v.stack + 150 * v.adx + (IF v.pullback THEN 150 * v.stack ELSE 0) + 150 * v.macd * v.macd
trendScore(v) ==
    LET score == 200 * v.stack + 150 * v.adx + (IF v.pullback THEN 150 * v.stack ELSE 0)
    IN  score + (IF v.macd = sign(score) THEN 50 * v.macd ELSE 0)

reversionScore(v) ==
    LET points(level, one, two) == sign(level) * (IF level \in {-2, 2} THEN two ELSE IF level = 0 THEN 0 ELSE one)
        score == points(v.rsi, 150, 300) + points(v.band, 100, 200)
                 + 100 * v.stoch + 50 * v.mfi + 100 * v.cci
    IN  IF market.liquidity \in {"high", "extreme"} THEN (score * 3) \div 10 ELSE score

(* A squeeze speaks for buying whatever side it breaks to.                 *)
breakoutScore(v) ==
    LET score == (IF v.squeeze THEN 50 ELSE 0)
                 + (IF v.breaking THEN sign(v.place) * (IF v.place \in {-2, 2} THEN 300 ELSE 150) ELSE 0)
        confirmed == CASE v.volume = "high" /\ beyond(score, 100) # 0 -> (score * 13) \div 10
                       [] v.volume = "low" /\ beyond(score, 100) # 0 -> score \div 2
                       [] OTHER -> score
    IN  confirmed + (IF v.ema = sign(confirmed) THEN 50 * v.ema ELSE 0)

divergenceScore(v) ==
    250 * (toInt(v.rsiBull) - toInt(v.rsiBear)) + 150 * (toInt(v.macdBull) - toInt(v.macdBear))

sentimentScore(v) ==
    (IF v.fear = NoData THEN 0 ELSE 100 * v.fear) + (IF v.news = NoData THEN 0 ELSE 50 * v.news)

supported(m) ==
    CASE m = "trend_continuation" -> regime \in {"trending_up", "trending_down", "breakout"}
      [] m = "mean_reversion" -> regime = "mean_revert"
      [] m = "volatility_breakout" -> regime \in {"breakout", "mean_revert"}
      [] m = "momentum_divergence" -> regime \in {"trending_up", "trending_down", "mean_revert"}
      [] m = "sentiment_tilt" -> TRUE

(* A model votes from a score beyond `limit' on, with full confidence from *)
(* 12000 / scale, and with one of two weights, in and out of its regimes.  *)
(* The confidence of a neutral vote, which weighs nothing, is left out.    *)
cast(m, score, limit, scale, full, low) ==
    [direction |-> beyond(score, limit),
     confidence |-> Min({12000, scale * score * beyond(score, limit)}),
     weight |-> IF supported(m) THEN full ELSE low]

trendVote(v) == cast("trend_continuation", trendScore(v), 100, 20, 100, 20)
reversionVote(v) == cast("mean_reversion", reversionScore(v), 150, 15, 100, 15)
breakoutVote(v) == cast("volatility_breakout", breakoutScore(v), 100, 24, 100, 10)
divergenceVote(v) == cast("momentum_divergence", divergenceScore(v), 100, 24, 80, 20)
sentimentVote(v) ==
    IF v.fear = NoData /\ v.news = NoData THEN [direction |-> 0, confidence |-> 0, weight |-> 0]
    ELSE cast("sentiment_tilt", sentimentScore(v), 50, 40, 30, 30)

vote(m, v) ==
    CASE m = "trend_continuation" -> trendVote(v)
      [] m = "mean_reversion" -> reversionVote(v)
      [] m = "volatility_breakout" -> breakoutVote(v)
      [] m = "momentum_divergence" -> divergenceVote(v)
      [] m = "sentiment_tilt" -> sentimentVote(v)

effective_Unweighted(b) == b.confidence * 30                \* mutant
effective(b) == b.weight * b.confidence

(* What the ballots for d weigh, at most five of them.                     *)
share(ballots, d, i) == IF i \in DOMAIN ballots /\ ballots[i].direction = d THEN effective(ballots[i]) ELSE 0
weightOf(ballots, d) ==
    share(ballots, d, 1) + share(ballots, d, 2) + share(ballots, d, 3) + share(ballots, d, 4) + share(ballots, d, 5)

evaluate(ballots) ==
    LET up == weightOf(ballots, 1)
        down == weightOf(ballots, -1)
    IN  IF up + down = 0 THEN 0 ELSE beyond(100 * (up - down), 15 * (up + down))

-----------------------------------------------------------------------------
Init ==
    /\ market \in Markets /\ votes = << >> /\ seen = << >>

(* A model's turn, which the code takes without a pause.                   *)
next == Models[Len(votes) + 1]
Look ==
    /\ Len(votes) < Len(Models) /\ seen = << >>
    /\ seen' \in Verdicts(next)
    /\ UNCHANGED <<market, votes>>

Vote ==
    /\ seen # << >>
    /\ votes' = Append(votes, vote(next, seen)) /\ seen' = << >>
    /\ Len(SelectSeq(votes', LAMBDA b : b.direction # 0)) <= Speakers
    /\ UNCHANGED market

(* The next cycle asks all of them again.                                  *)
NextCycle ==
    /\ Len(votes) = Len(Models)
    /\ market' \in Markets /\ votes' = << >> /\ UNCHANGED seen

Next == Look \/ Vote \/ NextCycle

Spec == Init /\ [][Next]_vars

-----------------------------------------------------------------------------
mirror(m, v) ==
    IF m = "momentum_divergence"
    THEN [rsiBull |-> v.rsiBear, rsiBear |-> v.rsiBull, macdBull |-> v.macdBear, macdBear |-> v.macdBull]
    ELSE [f \in DOMAIN v |->
            IF f \in {"pullback", "squeeze", "breaking", "volume"} THEN v[f]
            ELSE IF v[f] = NoData THEN NoData ELSE -v[f]]

(* A market upside down makes a model vote the other way.  The breakout    *)
(* model leans to one side (volatilityBreakout.ts:61), but never votes the *)
(* same way on both.                                                       *)
SidesAlike ==
    seen # << >> =>
        LET m == next
            d == vote(m, seen).direction
            e == vote(m, mirror(m, seen)).direction
        IN  IF m = "volatility_breakout" THEN d # 0 => e # d ELSE e = -d

(* "Extreme sentiment conditions tilt the ensemble" (sentimentTilt.ts:5):  *)
(* what a model in a regime of its own and no other model speaks against   *)
(* is never turned round by them.                                          *)
SentimentOnlyTilts ==
    Len(votes) = Len(Models) =>
        LET technical == SubSeq(votes, 1, 4)
            d == evaluate(technical)
        IN  /\ d # 0
            /\ \A i \in 1..4 : technical[i].direction # -d
            /\ \E i \in 1..4 : supported(Models[i]) /\ technical[i].direction = d
            => evaluate(votes) # -d
=============================================================================
