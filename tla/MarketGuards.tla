----------------------------- MODULE MarketGuards -----------------------------
(***************************************************************************)
(* The checks of RiskEngine.evaluate() that look at the candles: the       *)
(* VolatilityGuard and the AnomalyDetector, while the newest candle grows  *)
(* and ages.  Gaps are in tenths of a percent, the interval and the age in *)
(* the same unit of time.                                                  *)
(***************************************************************************)
EXTENDS Integers, Sequences, FiniteSetsExt

CONSTANTS
    Volumes, Ranges,      \* of older candles: what traded, the ATR after each
    Intervals,            \* between the last two candles
    Traded, Ranged, Gaps, Closes, Ages  \* of the newest candle; closes from its open on

VARIABLES
    recent,    \* whether there are candles for: the anomalies, the volatility too
    volumes,   \* the last ones, the newest candle's at the end
    ranges,    \* the ATR, likewise
    shape,     \* of the newest candle: gap to the one before; high, low and close from its open on
    interval, age,
    watched    \* lastCandleTime > 0: some candles were checked since the start

market == <<recent, volumes, ranges, shape, interval>>
guardVars == <<market, age, watched>>

newest(s) == s[Len(s)]

(* The value in the middle of the sorted ones: no more than half are less, *)
(* and more than that are not greater.                                     *)
inMiddle(x, s) ==
    /\ Cardinality({i \in DOMAIN s : s[i] < x}) <= Len(s) \div 2
    /\ Len(s) \div 2 < Cardinality({i \in DOMAIN s : s[i] <= x})
median(s) == CHOOSE x \in {s[i] : i \in DOMAIN s} : inMiddle(x, s)

(* VolatilityGuard.check(): more than 2.5 times the median.                *)
volatile ==
    /\ "volatility" \in recent
    /\ median(ranges) > 0
    /\ 2 * newest(ranges) > 5 * median(ranges)

severity_Swapped(value, flagged, high) ==                   \* mutant
    IF value > high THEN "medium" ELSE IF value > flagged THEN "high" ELSE "none"
severity(value, flagged, high) ==
    IF value <= flagged THEN "none" ELSE IF value > high THEN "high" ELSE "medium"

(* AnomalyDetector.checkCandles().  A candle without a body has no ratio;  *)
(* nothing is stale at the first check.                                    *)
volumeSpike ==
    IF median(volumes) = 0 THEN "none" ELSE severity(newest(volumes), 3 * median(volumes), 5 * median(volumes))
priceGap == severity(shape.gap, 20, 50)
body == IF shape.close < 0 THEN -shape.close ELSE shape.close
wicks == shape.high - shape.low - body
wickAnomaly == IF body = 0 THEN "none" ELSE severity(wicks, 5 * body, 25 * body)
staleData == IF ~watched THEN "none" ELSE severity(age, 3 * interval, 5 * interval)
lasting == "high" \in {volumeSpike, priceGap, staleData}
anomalous == "anomalies" \in recent /\ (lasting \/ wickAnomaly = "high")

stops == volatile \/ anomalous

-----------------------------------------------------------------------------
Init ==
    /\ recent \in {{}, {"anomalies"}, {"anomalies", "volatility"}}
    /\ \E v, w \in Volumes : v <= w /\ volumes = <<v, w, Min(Traded)>>
    /\ \E r, q \in Ranges : r <= q /\ ranges = <<r, q, Min(Ranged)>>
    /\ shape \in [gap : Gaps, high : {0}, low : {0}, close : {0}]
    /\ interval \in Intervals /\ age = 0 /\ watched = FALSE

raised(s, v) == [s EXCEPT ![Len(s)] = v]

(* The newest candle has more trades, the last of them at a price: the ATR *)
(* changes only with what its high and its low span.                       *)
Trade(v, p, r) ==
    /\ v >= newest(volumes) /\ volumes' = raised(volumes, v)
    /\ shape' = [shape EXCEPT !.close = p, !.high = Max({@, p}), !.low = Min({@, p})]
    /\ r >= newest(ranges) /\ ranges' = raised(ranges, r)
    /\ p \in shape.low..shape.high => r = newest(ranges)
    /\ UNCHANGED <<recent, interval, age, watched>>
Wait(t) ==
    /\ t > age /\ age' = t
    /\ UNCHANGED <<market, watched>>

(* The anomalies are looked at only if the volatility is no reason.        *)
evaluate ==
    /\ watched' = (watched \/ ("anomalies" \in recent /\ ~volatile))
    /\ UNCHANGED <<market, age>>

Next ==
    \/ evaluate
    \/ \E v \in Traded, p \in Closes, r \in Ranged : Trade(v, p, r)
    \/ \E t \in Ages : Wait(t)

Spec == Init /\ [][Next]_guardVars

-----------------------------------------------------------------------------
(* While a candle is the newest, what stops a signal for its volume, its   *)
(* gap, its age or the volatility does so until there is a newer one: more *)
(* volume and a wider range are also in the median they are compared with, *)
(* and either of the two guards may speak first.  A stop for its wicks     *)
(* ends before only because the close has moved away from the open, or is  *)
(* back at it: a candle all of wicks passes (anomalyDetector.ts:59-136,    *)
(* volatilityGuard.ts:35-76).                                              *)
StaysStopped ==
    /\ volatile => volatile'
    /\ lasting => lasting'
    /\ stops => stops' \/ body' > body \/ body' = 0
=============================================================================
