----------------------------- MODULE TrailingStop -----------------------------
(***************************************************************************)
(* TrailingStopManager (src/src/execution/trailingStop.ts) for one symbol, *)
(* as strategyLoop() and processTrailingStops() drive it: a filled buy     *)
(* opens a position, whether or not one is tracked; every run of the loop  *)
(* updates it with the ticker's price; a filled sell closes it.            *)
(*                                                                         *)
(* Prices are whole ticks and stops hundredths of a tick, which keeps      *)
(* percentages exact.  An ATR of 0 stands for none: the code falls back to *)
(* the percentage when the ATR is missing or zero.                         *)
(***************************************************************************)
EXTENDS Integers

CONSTANTS
    Prices,         \* prices a ticker or a fill may show
    ATRs,           \* average true ranges, 0 when there is none
    Activation,     \* activationProfitPercent
    Trail,          \* trailPercent
    Multiplier      \* atrMultiplier

VARIABLES
    tracked,        \* is the symbol in `positions`?
    position,       \* the TrackedPosition; the last one when not tracked
    entryTime,      \* alternates, which tells an entry from the next
    shouldExit,     \* what the last update() answered
    price,          \* the price it was given
    peak            \* history: the highest price since the entry

vars == <<tracked, position, entryTime, shouldExit, price, peak>>

Opened(p) ==
    [entryPrice |-> p, highestPrice |-> p, currentStopPrice |-> 0, activated |-> FALSE]

higher(a, b) == IF a > b THEN a ELSE b

stopFor(p, atr) ==
    IF atr > 0 /\ Multiplier > 0
    THEN 100 * (p - atr * Multiplier)
    ELSE p * (100 - Trail)

-----------------------------------------------------------------------------
openPosition(p) ==
    /\ entryTime' = 1 - entryTime
    /\ tracked' = TRUE
    /\ position' = Opened(p)
    /\ shouldExit' = FALSE
    /\ price' = p
    /\ peak' = p

profitable(p) ==
    100 * (p - position.entryPrice) >= Activation * position.entryPrice

(* The first profitable price sets the stop, whatever it was before.       *)
activate_KeepsHigh(p, atr) ==                               \* mutant
    position' = [position EXCEPT !.activated = TRUE, !.currentStopPrice = stopFor(p, atr)]
activate(p, atr) ==
    position' = [position EXCEPT !.activated = TRUE, !.highestPrice = p,
                                 !.currentStopPrice = stopFor(p, atr)]

raise_Overwrites(p, atr) == stopFor(p, atr)                 \* mutant
raise(p, atr) == higher(position.currentStopPrice, stopFor(p, atr))

(* A later price moves the stop only when it is a new high.                *)
follow(p, atr) ==
    position' =
        IF p > position.highestPrice
        THEN [position EXCEPT !.highestPrice = p, !.currentStopPrice = raise(p, atr)]
        ELSE position

exitAt(p) == 100 * p <= position'.currentStopPrice

update(p, atr) ==
    /\ tracked
    /\ \/ /\ ~position.activated /\ profitable(p)
          /\ activate(p, atr)
          /\ shouldExit' = FALSE
       \/ /\ ~position.activated /\ ~profitable(p)
          /\ UNCHANGED position
          /\ shouldExit' = FALSE
       \/ /\ position.activated
          /\ follow(p, atr)
          /\ shouldExit' = exitAt(p)
    /\ price' = p
    /\ peak' = higher(peak, p)
    /\ UNCHANGED <<tracked, entryTime>>

(* A sell: the strategy's own, or the trailing stop's once the risk engine *)
(* lets it through.  One that is blocked leaves everything as it is.       *)
closePosition ==
    /\ tracked
    /\ tracked' = FALSE
    /\ shouldExit' = FALSE
    /\ UNCHANGED <<position, entryTime, price, peak>>

Init ==
    /\ tracked = FALSE
    /\ entryTime = 0
    /\ shouldExit = FALSE
    /\ \E p \in Prices : position = Opened(p) /\ price = p /\ peak = p

Next ==
    \/ \E p \in Prices : openPosition(p)
    \/ \E p \in Prices, atr \in ATRs : update(p, atr)
    \/ closePosition

Spec == Init /\ [][Next]_vars

-----------------------------------------------------------------------------
TypeOK ==
    /\ tracked \in BOOLEAN /\ shouldExit \in BOOLEAN
    /\ entryTime \in {0, 1}
    /\ price \in Nat \ {0} /\ peak \in Nat \ {0}
    /\ position.entryPrice \in Nat \ {0}
    /\ position.highestPrice \in Nat \ {0}
    /\ position.currentStopPrice \in Int
    /\ position.activated \in BOOLEAN

(* highestPrice is measured from the activation only, yet it is the        *)
(* highest price since the entry: no earlier price was above the one that  *)
(* activates the stop (trailingStop.ts:32-34).                             *)
HighIsPeak == position.activated => position.highestPrice = peak

(* An exit is only asked for below the highest price since the entry, with *)
(* ATRs and percentages mixed from one update to the next.                 *)
NoExitAtPeak == shouldExit => price < peak

(* "Only move stop up, never down" (trailingStop.ts:60): while one entry   *)
(* is tracked its stop never falls, once it is set, although the ATR may   *)
(* grow or come and go from one update to the next.                        *)
StopRises ==
    position.activated /\ entryTime' = entryTime =>
        position'.currentStopPrice >= position.currentStopPrice
StopRisesPerEntry == [][StopRises]_vars
=============================================================================
