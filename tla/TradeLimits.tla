------------------------------ MODULE TradeLimits ------------------------------
(***************************************************************************)
(* What the limits of the RiskEngine, the TradeGatekeeper and the sizing   *)
(* in OrderManager come to when runs of strategyLoop() overlap: a decision *)
(* reads the snapshot, the order is away for a while, and what it filled   *)
(* is applied to a snapshot that other runs have changed.                  *)
(*                                                                         *)
(* Guards that only read the market (volume, spread, slippage, volatility, *)
(* events, anomalies, oversold, edge) are free: a signal they stop changes *)
(* nothing, like the inventory's (see TradingLoops).  Prices stay what     *)
(* they are and fees are 0; cool-downs end at any time.  The bot starts    *)
(* flat, the inventory's cash is taken to be the snapshot's, and the wait  *)
(* for a fill's fees belongs to the order's.                               *)
(***************************************************************************)
EXTENDS Integers, FiniteSetsExt, Sums

CONSTANTS
    Symbols, Runs,
    Price,                  \* [Symbols -> price of a lot]
    MaxPosition,            \* config.risk.maxPositionUsd
    FloorUsd,               \* floorUsd of computePositionUsd()
    MaxOpen,                \* config.risk.maxOpenPositions
    MaxDailyLoss,           \* config.risk.maxDailyLossUsd
    DeployNum, DeployDen,   \* config.risk.deployPercent
    Reserve,                \* minCashReserveUsd
    MinNotional,            \* the gatekeeper's minNotionalUsd
    InitCash,
    MaxOrders               \* bound: orders placed in a behaviour

ASSUME LimitsAssumption ==
    /\ Price \in [Symbols -> Nat \ {0}]
    /\ {MaxOpen, MaxDailyLoss, MaxPosition, FloorUsd, DeployDen} \subseteq Nat \ {0}
    /\ {DeployNum, Reserve, MinNotional, InitCash, MaxOrders} \subseteq Nat
    /\ DeployNum <= DeployDen
    /\ IsFiniteSet(Symbols) /\ IsFiniteSet(Runs)

VARIABLES
    run,        \* [Runs -> the order a run waits for]
    position,   \* snapshot.openPositions, by symbol
    cash,       \* snapshot.cashUsd, and the inventory's
    realized,   \* snapshot.realizedPnlUsd, which may become NaN
    openTimes,  \* positionOpenTimes: the position each entry was made for
    cooling,    \* lastSignalTime entries in force
    stopped,    \* lastStopOutAtBySymbol entries in force
    soldInChop, \* the gatekeeper's lastSells in force
    placed,     \* orders placed: also identifies the position each opens
    result      \* what the sells have really gained or lost

books == <<position, cash, realized, openTimes, stopped, result>>
guards == <<cooling, soldInChop>>
vars == <<run, books, guards, placed>>

Idle == [side |-> "none"]
has(s) == s \in DOMAIN position
holds(s) == has(s) /\ position[s].qty > 0

-----------------------------------------------------------------------------
(* RiskEngine.evaluate().  The unrealized result it adds is never set, and *)
(* a comparison with NaN is false.                                         *)
exceedsMaxDailyLoss == ~realized.nan /\ realized.usd <= -MaxDailyLoss

hasSlot_OneTooMany(s) == has(s) \/ Cardinality(DOMAIN position) <= MaxOpen  \* mutant
hasSlot(s) == has(s) \/ Cardinality(DOMAIN position) < MaxOpen

existingNotional(s) == IF has(s) THEN position[s].qty * Price[s] ELSE 0

(* All positions are valued at the price of the symbol in question.        *)
totalNotional(s) == MapThenSumSet(LAMBDA x : position[x].qty * Price[s], DOMAIN position)

hasCapacity_DeploymentOnly(s) ==                            \* mutant
    (cash + totalNotional(s)) * DeployNum > totalNotional(s) * DeployDen
hasCapacity(s) ==
    /\ existingNotional(s) < MaxPosition
    /\ (cash + totalNotional(s)) * DeployNum > totalNotional(s) * DeployDen

riskAllows(s, side) ==
    /\ side = "sell" => holds(s)
    /\ ~exceedsMaxDailyLoss
    /\ hasSlot(s)
    /\ side = "buy" => hasCapacity(s)
    /\ s \notin stopped

(* TradeGatekeeper.evaluate(), which passes buys.  A strong trend lifts    *)
(* the chop guard.                                                         *)
gateAllows(s, trending) ==
    /\ s \notin soldInChop \/ trending
    /\ position[s].qty * Price[s] >= MinNotional

(* submitSignal(): strategyLoop() does not hand it the risk engine's size, *)
(* so that a buy is sized by the confidence alone, from FloorUsd, which    *)
(* may be more than the limit, up to MaxPosition; it is as many lots as    *)
(* that pays for and as are affordable.                                    *)
MaxOrder == IF FloorUsd > MaxPosition THEN FloorUsd ELSE MaxPosition
usable == ((cash - Reserve) * DeployNum) \div DeployDen
affordable(q, s) == cash < 0 \/ q * Price[s] <= usable

BuySizes(s) ==
    {q \in 1..MaxOrder : \E usd \in FloorUsd..MaxOrder :
        /\ q * Price[s] <= usd /\ affordable(q, s)
        /\ (q + 1) * Price[s] <= usd => ~affordable(q + 1, s)}
SellSize(s) == (position[s].qty * DeployNum) \div DeployDen

-----------------------------------------------------------------------------
Submit(r, s, side, qty, trail) ==
    /\ placed < MaxOrders
    /\ placed' = placed + 1
    /\ run' = [run EXCEPT ![r] = [sym |-> s, side |-> side, qty |-> qty,
                                  trail |-> trail, id |-> placed + 1]]

(* The first look at a held position, unless the strategy itself sells.    *)
noteOpen(s) ==
    openTimes' = IF holds(s) /\ s \notin DOMAIN openTimes
                 THEN [x \in DOMAIN openTimes \union {s} |->
                         IF x = s THEN position[s].id ELSE openTimes[x]]
                 ELSE openTimes

(* A run that holds, or is stopped by some check.                          *)
Look(s) ==
    /\ noteOpen(s)
    /\ UNCHANGED <<run, position, cash, realized, stopped, result, guards, placed>>

Buy(r, s) ==
    /\ run[r] = Idle
    /\ riskAllows(s, "buy")
    /\ <<s, "buy">> \notin cooling
    /\ \E q \in BuySizes(s) : Submit(r, s, "buy", q, FALSE)
    /\ noteOpen(s)
    /\ UNCHANGED <<position, cash, realized, stopped, result, guards>>

(* A sell of the strategy, or an exit by profit, loss or age.              *)
Sell(r, s) ==
    /\ run[r] = Idle
    /\ riskAllows(s, "sell")
    /\ <<s, "sell">> \notin cooling
    /\ \E trending \in BOOLEAN : gateAllows(s, trending)
    /\ SellSize(s) > 0
    /\ Submit(r, s, "sell", SellSize(s), FALSE)
    /\ noteOpen(s) \/ UNCHANGED openTimes
    /\ UNCHANGED <<position, cash, realized, stopped, result, guards>>

(* A trailing stop asks only the risk engine.                              *)
TrailSell(r, s) ==
    /\ run[r] = Idle
    /\ riskAllows(s, "sell")
    /\ SellSize(s) > 0
    /\ Submit(r, s, "sell", SellSize(s), TRUE)
    /\ UNCHANGED <<books, guards>>

-----------------------------------------------------------------------------
(* applyOrderToSnapshot().  The average of nothing and nothing is NaN, and *)
(* stays NaN whatever is bought later.                                     *)
bought(s, q, id) ==
    /\ position' = [x \in DOMAIN position \union {s} |->
         IF x # s THEN position[x]
         ELSE IF has(s) THEN [position[s] EXCEPT !.qty = @ + q,
                                                 !.nan = @ \/ position[s].qty + q = 0]
         ELSE [qty |-> q, nan |-> FALSE, id |-> id]]
    /\ cash' = cash - q * Price[s]
    /\ UNCHANGED <<realized, openTimes, stopped, result>>

without(f, s) == [x \in DOMAIN f \ {s} |-> f[x]]

forget_Never(s) == UNCHANGED openTimes                      \* mutant
forget(s) == openTimes' = without(openTimes, s)

closed(s, q) == IF q < position[s].qty THEN q ELSE position[s].qty

sold(s, q) ==
    IF ~has(s) THEN UNCHANGED books
    ELSE \E gain \in {-closed(s, q), closed(s, q)} :
        LET left == position[s].qty - closed(s, q)
            nan == position[s].nan
        IN  /\ cash' = cash + closed(s, q) * Price[s] + gain
            /\ realized' = [usd |-> realized.usd + gain, nan |-> realized.nan \/ nan]
            /\ result' = result + gain
            /\ IF left = 0
               THEN /\ position' = without(position, s)
                    /\ forget(s)
                    /\ stopped' = IF gain < 0 /\ ~nan THEN stopped \union {s} ELSE stopped
               ELSE /\ position' = [position EXCEPT ![s].qty = left]
                    /\ UNCHANGED <<openTimes, stopped>>

(* The order comes back with what it filled; the cool-downs start.         *)
Returned(r) ==
    LET o == run[r]
    IN  /\ o # Idle
        /\ \E k \in 0..o.qty : IF o.side = "buy" THEN bought(o.sym, k, o.id) ELSE sold(o.sym, k)
        /\ IF o.trail THEN UNCHANGED guards
           ELSE /\ cooling' = cooling \union {<<o.sym, o.side>>}
                /\ soldInChop' = IF o.side = "sell" THEN soldInChop \union {o.sym}
                                                    ELSE soldInChop
        /\ run' = [run EXCEPT ![r] = Idle]
        /\ UNCHANGED placed

Failed(r) ==
    /\ run[r] # Idle
    /\ run' = [run EXCEPT ![r] = Idle]
    /\ UNCHANGED <<books, guards, placed>>

(* Time passes.                                                            *)
CooldownEnds ==
    /\ \E c \in cooling : cooling' = cooling \ {c}
    /\ UNCHANGED <<run, books, soldInChop, placed>>

ChopGuardEnds ==
    /\ \E s \in soldInChop : soldInChop' = soldInChop \ {s}
    /\ UNCHANGED <<run, books, cooling, placed>>

StopOutEnds ==
    /\ \E s \in stopped : stopped' = stopped \ {s}
    /\ UNCHANGED <<run, position, cash, realized, openTimes, result, guards, placed>>

Init ==
    /\ run = [r \in Runs |-> Idle]
    /\ position = << >>
    /\ cash = InitCash
    /\ realized = [usd |-> 0, nan |-> FALSE]
    /\ openTimes = << >>
    /\ cooling = {} /\ stopped = {} /\ soldInChop = {}
    /\ placed = 0
    /\ result = 0

Next ==
    \/ \E s \in Symbols : Look(s)
    \/ \E r \in Runs, s \in Symbols : Buy(r, s) \/ Sell(r, s) \/ TrailSell(r, s)
    \/ \E r \in Runs : Returned(r) \/ Failed(r)
    \/ CooldownEnds
    \/ ChopGuardEnds
    \/ StopOutEnds

Spec == Init /\ [][Next]_vars

-----------------------------------------------------------------------------
InFlight(side) == {r \in Runs : run[r].side = side}
BuyingOf(s) == {r \in InFlight("buy") : run[r].sym = s}
ordered(s) == Total(BuyingOf(s), [r \in BuyingOf(s) |-> run[r].qty * Price[s]])

(* What maxOpenPositions comes to: the limit is tested against what has    *)
(* been filled, so that each run in progress may add one, and no more.     *)
OpenPositionsBound ==
    Cardinality(DOMAIN position \union {run[r].sym : r \in InFlight("buy")})
        <= MaxOpen - 1 + Cardinality(Runs)

(* What maxPositionUsd comes to: it is tested against what has been filled *)
(* and not against the order, so that a holding may exceed it by an order  *)
(* of every run in progress, of the limit or the least size, and no more.  *)
ExposureBound ==
    \A s \in Symbols :
        existingNotional(s) + ordered(s) < MaxPosition + Cardinality(Runs) * MaxOrder

(* The age of a position is counted from when this position was seen, and  *)
(* not from one that was sold before: else it would be sold for its age at *)
(* once (loops.ts:493-504, 1104).                                          *)
AgeIsOfThisPosition ==
    \A s \in DOMAIN openTimes : has(s) /\ openTimes[s] = position[s].id

(* "Stop trading if daily loss exceeds" (README.md:90): no order is placed *)
(* after the sells have lost that much.                                    *)
LossLimitStops == [][placed' > placed => result > -MaxDailyLoss]_vars
=============================================================================
