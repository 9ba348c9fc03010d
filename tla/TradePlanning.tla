---------------------------- MODULE TradePlanning ----------------------------
(***************************************************************************)
(* What the strategy engine makes of a market that has a direction: the    *)
(* state of the market, the forecast of the edge, the risk overlay and the *)
(* plan of the trade.  `conditions' holds, by name, what they depend on;   *)
(* one of them at a time gets better or worse.  Sizes are in cents,        *)
(* distances in basis points, ratios in tenths or hundredths as named.     *)
(***************************************************************************)
EXTENDS Integers, FiniteSetsExt

CONSTANTS
    MaxPosition,   \* largest position and exposure, in dollars
    FeeRate,       \* of the exchange, in basis points
    Troubles       \* bound: conditions that are not calm at a time

VARIABLE conditions

(* The values considered of each condition, on both sides of every limit   *)
(* the code compares it with; 0 and 1 stand for FALSE and TRUE.            *)
Levels ==
    [drawdown |-> 0..3,                   \* none, 3%, 5%, 8%
     concentrated |-> 0..1, volShift |-> 0..1, correlated |-> 0..1, event |-> 0..1,
     apiErrors |-> 0..1, drift |-> 0..1, backlog |-> 0..1,
     spread |-> {0, 10, 20, 40},          \* hundredths of a percent
     shrinkage |-> {0, 30, 60, 90},       \* of the volume below its average, in percent
     atr |-> {3, 10, 18, 35},             \* tenths of a percent
     percentile |-> {5, 8, 9, 10},        \* of the ATR, in tenths
     exposure |-> {0, MaxPosition - 100, MaxPosition + 500},
     equity |-> {300, 1000},
     direction |-> -1..1, confidence |-> {20, 80},
     move |-> {5, 30, 200}, odds |-> {40, 60},
     returns |-> {0, 58, 80, 247}]        \* 0: under 60 candles; 97 of them are 100 candles

Calm == [f \in DOMAIN Levels |->
            CASE f = "atr" -> 10 [] f = "percentile" -> 5 [] f = "equity" -> 1000
              [] f = "direction" -> 1 [] f = "confidence" -> 20 [] f = "move" -> 200
              [] f = "odds" -> 60 [] f = "returns" -> 247 [] OTHER -> 0]

slippageRisk(c) ==
    IF c.spread > 30 \/ c.shrinkage > 80 THEN "extreme"
    ELSE IF c.spread > 15 \/ c.shrinkage > 50 THEN "high"
    ELSE IF 2 * c.spread > 15 \/ c.shrinkage > 20 THEN "medium"
    ELSE "low"

(* MarketStateEngine.compute, or its fallback when there are few candles.  *)
compute(c) ==
    IF c.returns < 97 THEN [slippage |-> "medium", percentile |-> 5, atr |-> 0, highVol |-> FALSE]
    ELSE [slippage |-> slippageRisk(c), percentile |-> c.percentile, atr |-> c.atr,
          highVol |-> c.percentile > 9 \/ c.atr > 30]

score(c) ==
    LET cost == 2 * FeeRate + 3
        boost == IF c.direction # 0 /\ c.confidence > 30 THEN (15 * c.confidence) \div 100 ELSE 0
        edge == IF c.direction = 0 THEN -cost
                ELSE (c.move * Min({95, c.odds + boost}) + 50) \div 100 - cost
        slippage == CASE compute(c).slippage = "high" -> 15
                      [] compute(c).slippage = "extreme" -> 40
                      [] OTHER -> 0
    IN  IF c.returns = 0 THEN [edge |-> 0, exceedsCosts |-> FALSE, calibration |-> 0]
        ELSE [edge |-> edge, exceedsCosts |-> edge > cost + slippage,
              calibration |-> Min({70, c.returns \div 2})]

(* RiskOverlay.evaluate.  Errors of the API soften the mode of the deepest *)
(* drawdown, and nothing else does.                                        *)
mode(c) ==
    IF c.apiErrors = 1 THEN "no_new_entries"
    ELSE CASE c.drawdown = 3 -> "flatten_only"
           [] c.drawdown = 2 \/ (c.drift = 1 /\ c.drawdown < 2) -> "no_new_entries"
           [] OTHER ->
                IF c.drawdown = 1 \/ 1 \in {c.concentrated, c.volShift, c.correlated, c.event, c.backlog}
                THEN "reduced" ELSE "normal"

sizeMultiplier_Last(c) ==                                   \* mutant
    IF c.backlog = 1 THEN 3 ELSE IF c.event = 1 THEN 3 ELSE IF c.correlated = 1 THEN 5
    ELSE IF c.volShift = 1 THEN 6 ELSE IF c.drawdown = 1 THEN 5 ELSE IF c.drawdown > 1 THEN 0 ELSE 10
sizeMultiplier(c) ==
    Min({10}
        \union (IF c.drawdown > 1 \/ 1 \in {c.apiErrors, c.drift} THEN {0} ELSE {})
        \union (IF c.drawdown = 1 \/ 1 \in {c.concentrated, c.correlated} THEN {5} ELSE {})
        \union (IF c.volShift = 1 THEN {6} ELSE {})
        \union (IF compute(c).highVol \/ compute(c).slippage \in {"high", "extreme"} THEN {4} ELSE {})
        \union (IF 1 \in {c.event, c.backlog} THEN {3} ELSE {}))

stopTighten(c) ==
    Max({0}
        \union (IF c.drawdown = 1 THEN {30} ELSE {})
        \union (IF c.volShift = 1 THEN {20} ELSE {})
        \union (IF compute(c).highVol THEN {40} ELSE {})
        \union (IF c.event = 1 THEN {50} ELSE {}))

(* TradeConstructionEngine.buildExit, with 10 tenths of a percent of ATR   *)
(* as the normal volatility, and buildSizing.                              *)
stopLoss(c) ==
    Max({50, (150 * Max({5, Min({20, compute(c).atr})}) + 5) \div 10 - stopTighten(c)})

size(c) ==
    LET risked == Min({100 * Min({500, MaxPosition}), (20000 * c.equity) \div stopLoss(c)})
        steady == (risked * (13 - Max({7, compute(c).percentile}))) \div 6
        liquid == (steady * (CASE compute(c).slippage = "high" -> 6
                               [] compute(c).slippage = "extreme" -> 3
                               [] OTHER -> 10)) \div 10
        allowed == (liquid * sizeMultiplier(c)) \div 10
        worthwhile == IF score(c).exceedsCosts THEN allowed ELSE allowed \div 2
        capped == Min({worthwhile, Max({0, 100 * (MaxPosition - c.exposure)}), 100 * MaxPosition})
    IN  Max({5000, Min({100 * MaxPosition, capped})})

construct(c) ==
    LET f == score(c)
    IN  IF \/ mode(c) \in {"no_new_entries", "flatten_only"}
           \/ c.direction = 0
           \/ f.calibration > 30 /\ (~f.exceedsCosts \/ f.edge < 5)
        THEN [side |-> "none", size |-> 0, stop |-> 0]
        ELSE [side |-> IF c.direction = 1 THEN "buy" ELSE "sell", size |-> size(c), stop |-> stopLoss(c)]

-----------------------------------------------------------------------------
unrest(c) == { f \in DOMAIN Levels : c[f] # Calm[f] }

Init == conditions = Calm

Shift(f, v) ==
    /\ conditions' = [conditions EXCEPT ![f] = v]
    /\ Cardinality(unrest(conditions')) <= Troubles

Next == \E f \in DOMAIN Levels : \E v \in Levels[f] : Shift(f, v)

Spec == Init /\ [][Next]_conditions

-----------------------------------------------------------------------------
atRisk(plan) == plan.size * plan.stop

Threats == {"drawdown", "concentrated", "volShift", "correlated", "event", "apiErrors", "drift",
            "backlog", "spread", "shrinkage", "percentile", "exposure"}

strictness(m) ==
    CASE m = "normal" -> 0 [] m = "reduced" -> 1 [] m = "no_new_entries" -> 2 [] m = "flatten_only" -> 3

(* Whatever the overlay and the sizing react to, more of it never makes    *)
(* the engine plan a trade that can lose more: not even where tighter      *)
(* stops allow a larger position.  (A wider ATR may: it moves the stop.)   *)
(* Each of the five roundings may take a cent off the size.  Nor does it   *)
(* relax the mode, though eight troubles set it one after the other        *)
(* (riskOverlay.ts:66-157), errors of the API excepted: they turn          *)
(* flatten_only into no_new_entries (line 134).                            *)
RisksNoMore ==
    \A f \in Threats : conditions'[f] > conditions[f] =>
        LET plan == construct(conditions)
            next == construct(conditions')
        IN  /\ atRisk(next) <= atRisk(plan) + 5 * plan.stop
            /\ f # "apiErrors" => strictness(mode(conditions)) <= strictness(mode(conditions'))
TroubleNeverRisksMore == [][RisksNoMore]_conditions
=============================================================================
