----------------------------- MODULE TradingLoops -----------------------------
(***************************************************************************)
(* src/src/jobs/loops.ts in live mode: runs of strategyLoop() that may     *)
(* overlap (the Scheduler's timer does not wait for the last run), the     *)
(* trailing stops, OrderManager.submitSignal(), the InventoryManager and   *)
(* the KillSwitch they share, and the exchange.                            *)
(*                                                                         *)
(* The program is single-threaded: what runs between two awaits is one     *)
(* action.  Prices are 1 and fees 0, so that cash is counted in lots; what *)
(* a strategy, the risk engine or the gatekeeper decides is free here.  A  *)
(* position of quantity zero counts as none.                               *)
(***************************************************************************)
EXTENDS Integers, Sequences, Sums

CONSTANTS
    Symbols, SymbolSeq,     \* config.symbols, as a set and in its order
    Runs,                   \* slots for runs of strategyLoop in progress
    DeployNum, DeployDen,   \* config.risk.deployPercent, as a fraction
    MinCash,                \* minCashReserveUsd
    MaxBuy,                 \* config.risk.maxPositionUsd, in lots
    Dust,                   \* BTC_DUST_BUFFER, in lots
    MaxLosses,              \* config.maxConsecutiveLosses
    InitQty, InitCash,      \* the account at start-up
    Features,               \* what may happen: see below
    MaxOrders               \* bound: orders placed in a behaviour

(* "stopHit": a trailing stop is reached.  "partial": an order is canceled *)
(* after a partial fill.  "late": the adapter gives up polling and returns *)
(* an order still open.  "timeout": a call fails although the order lives. *)
(* "resync": the health report or the fill reconciler re-syncs.            *)
ASSUME LoopsAssumption ==
    /\ Features \subseteq {"stopHit", "partial", "late", "timeout", "resync"}
    /\ SymbolSeq \in Seq(Symbols) /\ SymbolSeq # << >>
    /\ {DeployNum, DeployDen, MinCash, MaxBuy, Dust, MaxLosses, InitCash, MaxOrders} \subseteq Nat
    /\ DeployNum <= DeployDen /\ DeployDen > 0
    /\ InitQty \in [Symbols -> Nat]
    /\ IsFiniteSet(Runs)

VARIABLES
    run,                            \* [Runs -> where the run is]
    available, reserved, cashUsd,   \* InventoryManager.state
    position,                       \* snapshot.openPositions: quantities
    shared,                         \* positions that are the inventory's own objects
    trailing,                       \* symbols the TrailingStopManager tracks
    cooling,                        \* lastSignalTime entries still in force
    kill,                           \* KillSwitch.state
    orders,                         \* the exchange's orders, in order of placing
    account,                        \* the exchange's balances
    read                            \* a pending re-sync's balances

inventory == <<available, reserved, cashUsd>>
snapshot == <<position, shared, trailing>>
exchange == <<orders, account>>
vars == <<run, inventory, snapshot, cooling, kill, exchange, read>>

INV == INSTANCE InventoryManager WITH
    Lots <- Nat, Prices <- {1}, Fees <- {0}, Cash <- Int, MaxHolding <- 0, MaxCash <- 0,
    positions <- << >>, hydrated <- << >>

KS == INSTANCE KillSwitch WITH
    MaxConsecutiveLosses <- MaxLosses, SpreadLimit <- 1, SpreadWindow <- 1,
    Reasons <- {"losses", "drawdown", "spread", "api", "operator"},
    MaxTime <- 0, LossBound <- 0, ViolationBound <- 0,
    state <- kill, row <- kill, up <- TRUE, now <- 0

Idle == [pc |-> "idle", todo |-> << >>, ord |-> 0, held |-> 0]
sym(r) == Head(run[r].todo)
ord(r) == orders[run[r].ord]

-----------------------------------------------------------------------------
(* Moving a run on: to another await, or to the next symbol.               *)
At(r, pc) == run[r].pc = pc
Goto(r, pc) == run' = [run EXCEPT ![r].pc = pc]

(* `continue', or the end of the loop's body.                              *)
NextSymbol(r) ==
    LET rest == Tail(run[r].todo)
    IN  run' = [run EXCEPT ![r] = IF rest = << >> THEN Idle
                                  ELSE [Idle EXCEPT !.pc = "fetch", !.todo = rest]]

(* submitSignal() up to the network call: kill switch, size, request.      *)
Place(r, side, q, held, pc) ==
    /\ ~kill.triggered
    /\ Len(orders) < MaxOrders
    /\ orders' = Append(orders, [sym |-> sym(r), side |-> side, qty |-> q,
                                 filled |-> 0, st |-> "new"])
    /\ run' = [run EXCEPT ![r].pc = pc, ![r].ord = Len(orders) + 1, ![r].held = held]

(* A sell is sized from the snapshot; parts of a lot are not modelled.     *)
SellQty(s) == (position[s] * DeployNum) \div DeployDen

(* A buy is capped by the deployable cash, unless that cash is negative.   *)
BuyCap ==
    IF cashUsd < 0 THEN MaxBuy
    ELSE INV!Smaller(MaxBuy, (INV!AtLeastZero(cashUsd - MinCash) * DeployNum) \div DeployDen)

-----------------------------------------------------------------------------
(* applyOrderToSnapshot(), with the position record that confirmFill() has *)
(* just updated: hydrateFromInventory() hands over the inventory's own     *)
(* objects, so for a shared position both calls change one quantity.       *)
Confirmed_AlwaysShared(s, side, q) ==                       \* mutant
    IF side = "buy" THEN position[s] + q ELSE INV!AtLeastZero(position[s] - q)
Confirmed(s, side, q) ==
    IF s \notin shared THEN position[s]
    ELSE IF side = "buy" THEN position[s] + q ELSE INV!AtLeastZero(position[s] - q)

AfterOrder(p, side, q) ==
    IF side = "buy" THEN p + q ELSE p - INV!Smaller(p, q)

(* A sell that filled nothing has realized 0 and counts as profitable.     *)
recordsTrade(s, side, q) ==
    IF side = "buy" \/ position[s] = 0 THEN UNCHANGED kill
    ELSE \E profitable \in (IF q = 0 THEN {TRUE} ELSE BOOLEAN), breached \in BOOLEAN :
            LET counted == KS!AfterTrade(kill, profitable)
            IN  kill' = IF breached THEN KS!Triggered(counted, "drawdown") ELSE counted

applyOrderToSnapshot(s, side, q, confirmed) ==
    LET left == AfterOrder(IF confirmed THEN Confirmed(s, side, q) ELSE position[s], side, q)
    IN  /\ position' = [position EXCEPT ![s] = left]
        /\ shared' = IF left = 0 THEN shared \ {s} ELSE shared
        /\ recordsTrade(s, side, q)

(* openPosition() after any buy, closePosition() after any sell.           *)
trailAfter(s, side) ==
    trailing' = IF side = "buy" THEN trailing \union {s} ELSE trailing \ {s}

Release_Forgotten(r) == UNCHANGED inventory                 \* mutant
Release_All(r) == INV!releaseReservation(sym(r), reserved[sym(r)])  \* mutant
Release(r) ==
    IF run[r].held > 0 THEN INV!releaseReservation(sym(r), run[r].held)
                       ELSE UNCHANGED inventory

-----------------------------------------------------------------------------
(* One run of strategyLoop().                                              *)
StartRun_AlsoHalted(r) ==                                   \* mutant
    /\ At(r, "idle")
    /\ run' = [run EXCEPT ![r] = [Idle EXCEPT !.pc = "fetch", !.todo = SymbolSeq]]
    /\ UNCHANGED <<inventory, snapshot, cooling, kill, exchange, read>>
StartRun(r) ==
    /\ At(r, "idle")
    /\ ~kill.triggered
    /\ run' = [run EXCEPT ![r] = [Idle EXCEPT !.pc = "fetch", !.todo = SymbolSeq]]
    /\ UNCHANGED <<inventory, snapshot, cooling, kill, exchange, read>>

Fetched(r) ==
    /\ At(r, "fetch")
    /\ \/ Goto(r, "decide")
       \/ sym(r) \in trailing /\ "stopHit" \in Features /\ Goto(r, "trail")
    /\ UNCHANGED <<inventory, snapshot, cooling, kill, exchange, read>>

(* A candle, ticker or notification call throws: the run is over.          *)
Aborted(r) ==
    /\ run[r].pc \in {"fetch", "trail", "decide"}
    /\ run' = [run EXCEPT ![r] = Idle]
    /\ UNCHANGED <<inventory, snapshot, cooling, kill, exchange, read>>

(* HOLD, or any check that says no; also a reserve() whose submitSignal()  *)
(* finds the switch triggered, which is released at once.                  *)
NothingPlaced(r) ==
    /\ \/ At(r, "decide") /\ NextSymbol(r)
       \/ At(r, "trail") /\ Goto(r, "decide")
    /\ UNCHANGED <<inventory, snapshot, cooling, kill, exchange, read>>

(* The reservation is the clamped amount, the order the whole SellQty.     *)
TrailSell(r) ==
    LET s == sym(r)
        clamped == INV!clampSellQty(s, SellQty(s))
    IN  /\ At(r, "trail")
        /\ clamped > 0
        /\ INV!reserve(s, clamped)
        /\ Place(r, "sell", SellQty(s), clamped, "trailWait")
        /\ UNCHANGED <<snapshot, cooling, kill, account, read>>

Sell(r) ==
    LET s == sym(r)
        clamped == INV!clampSellQty(s, SellQty(s))
    IN  /\ At(r, "decide")
        /\ <<s, "sell">> \notin cooling
        /\ INV!canSell(s, SellQty(s))
        /\ clamped > 0
        /\ INV!reserve(s, clamped)
        /\ Place(r, "sell", SellQty(s), clamped, "wait")
        /\ UNCHANGED <<snapshot, cooling, kill, account, read>>

Buy(r) ==
    /\ At(r, "decide")
    /\ <<sym(r), "buy">> \notin cooling
    /\ \E q \in 1..BuyCap : Place(r, "buy", q, 0, "wait")
    /\ UNCHANGED <<inventory, snapshot, cooling, kill, account, read>>

-----------------------------------------------------------------------------
(* placeOrder() comes back.  In the strategy path an exception releases    *)
(* the reservation; in the trailing-stop path it ends the run.             *)
CallFails_RejectIgnored(r) == "timeout" \in Features /\ ord(r).st \in {"new", "live"}  \* mutant
CallFails(r) ==
    \/ ord(r).st = "rejected"
    \/ "timeout" \in Features /\ ord(r).st \in {"new", "live"}

Thrown(r) ==
    /\ run[r].pc \in {"wait", "trailWait"}
    /\ CallFails(r)
    /\ \/ At(r, "wait") /\ Release(r) /\ NextSymbol(r)
       \/ At(r, "trailWait") /\ run' = [run EXCEPT ![r] = Idle] /\ UNCHANGED inventory
    /\ UNCHANGED <<snapshot, cooling, kill, exchange, read>>

Answered(r) ==
    \/ ord(r).st \in {"filled", "canceled"}
    \/ "late" \in Features /\ ord(r).st = "live"

TrailReturned(r) ==
    /\ At(r, "trailWait")
    /\ Answered(r)
    /\ applyOrderToSnapshot(sym(r), "sell", ord(r).filled, FALSE)
    /\ trailAfter(sym(r), "sell")
    /\ run' = [run EXCEPT ![r] = [@ EXCEPT !.pc = "decide", !.ord = 0, !.held = 0]]
    /\ UNCHANGED <<inventory, cooling, exchange, read>>

Cool(r) == cooling' = cooling \union {<<sym(r), ord(r).side>>}

(* A filled order first awaits getActualFees().                            *)
ReturnedFilled(r) ==
    /\ At(r, "wait")
    /\ ord(r).st = "filled"
    /\ Cool(r)
    /\ Goto(r, "fees")
    /\ UNCHANGED <<inventory, snapshot, kill, exchange, read>>

ReturnedUnfilled(r) ==
    /\ At(r, "wait")
    /\ Answered(r) /\ ord(r).st # "filled"
    /\ Cool(r)
    /\ Release(r)
    /\ applyOrderToSnapshot(sym(r), ord(r).side, ord(r).filled, FALSE)
    /\ trailAfter(sym(r), ord(r).side)
    /\ NextSymbol(r)
    /\ UNCHANGED <<exchange, read>>

confirmFill(s, side, q) ==
    \/ side = "sell" /\ INV!creditSell(s, q, 1, 0)
    \/ side = "buy" /\ INV!debitBuy(s, q, 1, 0)

Settle(r) ==
    /\ At(r, "fees")
    /\ confirmFill(sym(r), ord(r).side, ord(r).filled)
    /\ applyOrderToSnapshot(sym(r), ord(r).side, ord(r).filled, TRUE)
    /\ trailAfter(sym(r), ord(r).side)
    /\ NextSymbol(r)
    /\ UNCHANGED <<cooling, exchange, read>>

RunStep(r) ==
    \/ Fetched(r) \/ Aborted(r) \/ NothingPlaced(r)
    \/ TrailSell(r) \/ Sell(r) \/ Buy(r)
    \/ Thrown(r) \/ TrailReturned(r)
    \/ ReturnedFilled(r) \/ ReturnedUnfilled(r) \/ Settle(r)

-----------------------------------------------------------------------------
(* The exchange: a market order is accepted if the funds are there, and    *)
(* then filled, or canceled with what it could fill.                       *)
Client == <<run, inventory, snapshot, cooling, kill, read>>
SetOrder(o, st, k) == orders' = [orders EXCEPT ![o].st = st, ![o].filled = k]

Accept(o) ==
    LET x == orders[o]
    IN  /\ x.st = "new"
        /\ SetOrder(o, "live", 0)
        /\ \/ /\ x.side = "sell" /\ x.qty <= account.free[x.sym]
              /\ account' = [account EXCEPT !.free[x.sym] = @ - x.qty,
                                            !.locked[x.sym] = @ + x.qty]
           \/ /\ x.side = "buy" /\ x.qty <= account.cash
              /\ account' = [account EXCEPT !.cash = @ - x.qty]
        /\ UNCHANGED Client

Reject(o) ==
    /\ orders[o].st = "new"
    /\ SetOrder(o, "rejected", 0)
    /\ UNCHANGED <<Client, account>>

(* The order ends with k filled: a sell frees the rest, a buy refunds it.  *)
End(o, st, k) ==
    LET x == orders[o]
    IN  /\ x.st = "live"
        /\ SetOrder(o, st, k)
        /\ account' =
             IF x.side = "sell"
             THEN [account EXCEPT !.locked[x.sym] = @ - x.qty,
                                  !.free[x.sym] = @ + (x.qty - k), !.cash = @ + k]
             ELSE [account EXCEPT !.free[x.sym] = @ + k, !.cash = @ + (x.qty - k)]
        /\ UNCHANGED Client

Fill(o) == End(o, "filled", orders[o].qty)

Cancel(o) ==
    \E k \in 0..(IF "partial" \in Features THEN orders[o].qty - 1 ELSE 0) :
        End(o, "canceled", k)

ExchangeStep(o) == Accept(o) \/ Reject(o) \/ Fill(o) \/ Cancel(o)

-----------------------------------------------------------------------------
(* SIGNAL_COOLDOWN_MS passes; the operator uses the kill-switch routes.    *)
CooldownEnds ==
    /\ \E c \in cooling : cooling' = cooling \ {c}
    /\ UNCHANGED <<run, inventory, snapshot, kill, exchange, read>>

OperatorTrigger ==
    /\ ~kill.triggered
    /\ kill' = KS!Triggered(kill, "operator")
    /\ UNCHANGED <<run, inventory, snapshot, cooling, exchange, read>>

OperatorReset ==
    /\ kill.triggered
    /\ kill' = KS!Initial
    /\ UNCHANGED <<run, inventory, snapshot, cooling, exchange, read>>

ResyncRead ==
    /\ "resync" \in Features
    /\ ~read.pending
    /\ INV!resyncRead
    /\ UNCHANGED <<run, snapshot, cooling, kill, orders>>

ResyncApply ==
    /\ INV!resyncApply
    /\ UNCHANGED <<run, snapshot, cooling, kill, orders>>

(* Start-up: the inventory is hydrated, and the snapshot from it.          *)
Init ==
    /\ run = [r \in Runs |-> Idle]
    /\ available = InitQty
    /\ reserved = [s \in Symbols |-> 0]
    /\ cashUsd = InitCash
    /\ position = InitQty
    /\ shared = {s \in Symbols : InitQty[s] > 0}
    /\ trailing = {}
    /\ cooling = {}
    /\ kill = KS!Initial
    /\ orders = << >>
    /\ account = [free |-> InitQty, locked |-> [s \in Symbols |-> 0], cash |-> InitCash]
    /\ read = INV!NoRead

Next ==
    \/ \E r \in Runs : StartRun(r) \/ RunStep(r)
    \/ \E o \in DOMAIN orders : ExchangeStep(o)
    \/ CooldownEnds
    \/ OperatorTrigger
    \/ OperatorReset
    \/ ResyncRead
    \/ ResyncApply

(* Awaited calls return (the HTTP client has a time limit and the adapter  *)
(* polls ten times), and the exchange decides every market order.          *)
Fairness ==
    /\ \A r \in Runs : WF_vars(RunStep(r))
    /\ \A o \in 1..MaxOrders : WF_vars(o \in DOMAIN orders /\ ExchangeStep(o))

Spec == Init /\ [][Next]_vars /\ Fairness

-----------------------------------------------------------------------------
InFlight == {"wait", "trailWait", "fees"}
OrdersOf(s, side, st) ==
    {o \in DOMAIN orders : orders[o].sym = s /\ orders[o].side = side /\ orders[o].st = st}
Quantity(os) == Total(os, [o \in DOMAIN orders |-> orders[o].qty])

HeldBy(s) == {r \in Runs : run[r].pc \in InFlight /\ sym(r) = s}
HeldFor(s) == Total(HeldBy(s), [r \in Runs |-> run[r].held])

(* No run waits for an order and the exchange is done with all of them.    *)
Quiet ==
    /\ \A r \in Runs : run[r].pc \notin InFlight
    /\ \A o \in DOMAIN orders : orders[o].st \notin {"new", "live"}

(* Reservations are pooled per symbol and released with a clamp: however   *)
(* runs overlap, what one releases is never what another still holds.      *)
(* Only a re-sync may set the pool to what the exchange said meanwhile.    *)
HeldIsReserved == \A s \in Symbols : HeldFor(s) <= reserved[s]
HeldStaysReserved == [][HeldIsReserved /\ ~ResyncApply => HeldIsReserved']_vars

(* When nothing is in flight the books are the exchange's.                 *)
BooksBalance ==
    Quiet => /\ available = account.free
             /\ reserved = account.locked
             /\ cashUsd = account.cash

(* Sells sent by overlapping runs never add up to more than is there.      *)
SellsCovered ==
    \A s \in Symbols : Quantity(OrdersOf(s, "sell", "new")) <= account.free[s]

(* A run that has sent an order comes to its end, whatever becomes of the  *)
(* order and of the symbols still to do.                                   *)
EveryRunEnds == \A r \in Runs : At(r, "wait") ~> At(r, "idle")

(* A halt that nobody resets drains: runs under way when the switch was    *)
(* triggered wait for their orders, no other begins, and what is left in   *)
(* the end is neither a run nor an order.  (The requests of an order that  *)
(* is being placed go on after a halt, as OrderRetries says.)              *)
AtRest ==
    /\ \A r \in Runs : At(r, "idle")
    /\ \A o \in DOMAIN orders : orders[o].st \notin {"new", "live"}
HaltDrains == kill.triggered ~> ~kill.triggered \/ AtRest

(* "SELL: Calculate realized P&L, remove position if fully closed"         *)
(* (docs/architecture.md:144).  With nothing in flight the snapshot shows  *)
(* what is held of a symbol that there was none of at start-up.  Of one    *)
(* that there was, whose position the inventory shares, all that was       *)
(* bought and sold since has counted twice; once that has made the         *)
(* position nothing it is forgotten, with what is still held of it, and    *)
(* from then on shows no more than is held.                                *)
SnapshotFollows ==
    Quiet => \A s \in Symbols :
        LET holding == account.free[s] + account.locked[s]
        IN  /\ InitQty[s] = 0 => position[s] = holding
            /\ s \in shared => position[s] - InitQty[s] = 2 * (holding - InitQty[s])
            /\ s \notin shared => position[s] <= holding
=============================================================================
