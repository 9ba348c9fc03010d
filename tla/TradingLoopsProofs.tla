-------------------------- MODULE TradingLoopsProofs --------------------------
(***************************************************************************)
(* Proofs about TradingLoops, for any number of symbols, runs and orders.  *)
(* Order by order the books are kept; what follows for all of them is a    *)
(* statement about sums, whose lemmas come first.                          *)
(***************************************************************************)
EXTENDS TradingLoops, FiniteSetTheorems, TLAPS

-----------------------------------------------------------------------------
(* Sums.  A member's units are as many as it contributes.                  *)
LEMMA UnitsOfOne ==
    ASSUME NEW x, NEW k \in Nat
    PROVE  IsFiniteSet({x} \X (1..k)) /\ Cardinality({x} \X (1..k)) = k
<1> DEFINE A == {x}
           B == 1..k
<1>1. IsFiniteSet(A) /\ Cardinality(A) = 1
  BY FS_Singleton
<1>2. IsFiniteSet(B) /\ Cardinality(B) = k
  BY FS_Interval
<1> HIDE DEF A, B
<1>3. IsFiniteSet(A \X B) /\ Cardinality(A \X B) = 1 * k
  BY <1>1, <1>2, FS_Product
<1> QED
  BY <1>3 DEF A, B

LEMMA UnitsFinite ==
    ASSUME NEW S, IsFiniteSet(S), NEW n, \A x \in S : n[x] \in Nat
    PROVE  IsFiniteSet(Units(S, n)) /\ Total(S, n) \in Nat
<1> DEFINE f == [x \in S |-> {x} \X (1..n[x])]
           T == {{x} \X (1..n[x]) : x \in S}
<1>1. f \in Surjection(S, T)
  BY DEF Surjection
<1>2. IsFiniteSet(T)
  BY <1>1, FS_Surjection
<1>3. \A t \in T : IsFiniteSet(t)
  <2>1. \A x \in S : IsFiniteSet({x} \X (1..n[x]))
    BY UnitsOfOne
  <2> QED
    BY <2>1
<1>4. IsFiniteSet(UNION T)
  <2> HIDE DEF T
  <2> QED
    BY <1>2, <1>3, FS_UNION
<1> QED
  BY <1>4, FS_CardinalityType DEF Units, Total

LEMMA TotalOfNone == ASSUME NEW n PROVE Total({}, n) = 0
<1>1. Units({}, n) = {}
  BY DEF Units
<1> QED
  BY <1>1, FS_EmptySet DEF Total

(* One member more adds what it contributes.                               *)
LEMMA TotalAdd ==
    ASSUME NEW S, IsFiniteSet(S), NEW n, \A x \in S : n[x] \in Nat,
           NEW o, o \notin S, n[o] \in Nat
    PROVE  Total(S \union {o}, n) = Total(S, n) + n[o]
<1> DEFINE A == Units(S, n)
           B == {o} \X (1..n[o])
<1>1. Units(S \union {o}, n) = A \union B
  BY DEF Units
<1>2. A \cap B = {}
  BY DEF Units
<1>3. IsFiniteSet(A) /\ IsFiniteSet(B) /\ Cardinality(A) \in Nat /\ Cardinality(B) = n[o]
  BY UnitsFinite, UnitsOfOne DEF Total
<1>4. Cardinality(A \union B) = Cardinality(A) + Cardinality(B) - Cardinality(A \cap B)
  <2> HIDE DEF A, B
  <2> QED
    BY <1>3, FS_Union
<1>5. Cardinality(A \cap B) = 0
  BY <1>2, FS_EmptySet
<1>6. Total(S, n) = Cardinality(A) /\ Total(S \union {o}, n) = Cardinality(A \union B)
  BY <1>1 DEF Total
<1> HIDE DEF A, B
<1> QED
  BY <1>3, <1>4, <1>5, <1>6

LEMMA TotalSame ==
    ASSUME NEW S, NEW n, NEW m, \A x \in S : n[x] = m[x]
    PROVE  Total(S, n) = Total(S, m)
<1>1. Units(S, n) = Units(S, m)
  BY DEF Units
<1> QED
  BY <1>1 DEF Total

(* Two sums that differ in what becomes of one member.                     *)
LEMMA OneMoves ==
    ASSUME NEW S, NEW T, IsFiniteSet(S), NEW n, NEW m, NEW o,
           S \ {o} = T \ {o},
           \A x \in S : n[x] \in Nat,
           \A x \in S \ {o} : m[x] = n[x],
           o \in T => m[o] \in Nat
    PROVE  Total(T, m) = Total(S, n) + (IF o \in T THEN m[o] ELSE 0)
                                     - (IF o \in S THEN n[o] ELSE 0)
<1> DEFINE R == S \ {o}
<1>1. IsFiniteSet(R)
  BY FS_Difference
<1>2. Total(R, n) = Total(R, m) /\ Total(R, n) \in Nat
  BY <1>1, TotalSame, UnitsFinite
<1>0. /\ \A x \in R : n[x] \in Nat /\ m[x] \in Nat
      /\ o \notin R
  OBVIOUS
<1>3. Total(S, n) = Total(R, n) + (IF o \in S THEN n[o] ELSE 0)
  <2>1. CASE o \in S
    <3>1. S = R \union {o} /\ n[o] \in Nat
      BY <2>1
    <3>2. Total(R \union {o}, n) = Total(R, n) + n[o]
      <4> HIDE DEF R
      <4> QED
        BY <1>0, <1>1, <3>1, TotalAdd
    <3> HIDE DEF R
    <3> QED
      BY <2>1, <3>1, <3>2
  <2>2. CASE o \notin S
    <3>1. S = R
      BY <2>2
    <3> HIDE DEF R
    <3> QED
      BY <1>2, <2>2, <3>1
  <2> QED
    BY <2>1, <2>2
<1>4. Total(T, m) = Total(R, m) + (IF o \in T THEN m[o] ELSE 0)
  <2>1. CASE o \in T
    <3>1. T = R \union {o}
      BY <2>1
    <3>2. Total(R \union {o}, m) = Total(R, m) + m[o]
      <4> HIDE DEF R
      <4> QED
        BY <1>0, <1>1, <2>1, TotalAdd
    <3> HIDE DEF R
    <3> QED
      BY <2>1, <3>1, <3>2
  <2>2. CASE o \notin T
    <3>1. T = R
      BY <2>2
    <3> HIDE DEF R
    <3> QED
      BY <1>2, <2>2, <3>1
  <2> QED
    BY <2>1, <2>2
<1>5. (o \in S => n[o] \in Nat) /\ (o \in T => m[o] \in Nat)
  OBVIOUS
<1> HIDE DEF R
<1> QED
  BY <1>2, <1>3, <1>4, <1>5

-----------------------------------------------------------------------------
(* Types, for every feature the program may show.                          *)
Pcs == {"idle", "fetch", "trail", "decide"} \union InFlight
RunStates == [pc : Pcs, todo : Seq(Symbols), ord : Nat, held : Nat]
Statuses == {"new", "live", "filled", "canceled", "rejected"}
AnOrder == [sym : Symbols, side : {"buy", "sell"}, qty : Nat, filled : Nat, st : Statuses]
Accounts == [free : [Symbols -> Nat], locked : [Symbols -> Nat], cash : Nat]
Reads == {INV!NoRead} \union [pending : {TRUE}, bal : Accounts]

TypeOK ==
    /\ run \in [Runs -> RunStates]
    /\ available \in [Symbols -> Nat] /\ reserved \in [Symbols -> Nat] /\ cashUsd \in Int
    /\ position \in [Symbols -> Nat] /\ shared \subseteq Symbols /\ trailing \subseteq Symbols
    /\ cooling \subseteq Symbols \X {"buy", "sell"}
    /\ kill \in KS!State
    /\ orders \in Seq(AnOrder)
    /\ account \in Accounts
    /\ read \in Reads

(* A run in flight waits for an order of the symbol it is at; what the     *)
(* strategy path has reserved is what its order sells.                     *)
Waits(r) ==
    /\ At(r, "idle") \/ run[r].todo # << >>
    /\ run[r].pc \in InFlight =>
         /\ run[r].ord \in DOMAIN orders
         /\ ord(r).sym = sym(r)
         /\ ord(r).side = "buy" => run[r].held = 0 /\ ~At(r, "trailWait")
         /\ ord(r).side = "sell" /\ ~At(r, "trailWait") => run[r].held = ord(r).qty
         /\ At(r, "fees") => ord(r).st = "filled"

FillsBounded ==
    \A o \in DOMAIN orders :
        /\ orders[o].filled <= orders[o].qty
        /\ orders[o].st = "filled" => orders[o].filled = orders[o].qty

LockedForSells == \A s \in Symbols : account.locked[s] = Quantity(OrdersOf(s, "sell", "live"))

TInv == TypeOK /\ (\A r \in Runs : Waits(r)) /\ FillsBounded /\ LockedForSells

(* Where an order is while a run still waits for it.                       *)
Awaited == {run[r].ord : r \in {x \in Runs : run[x].pc \in InFlight}}
Stage(o) == IF o \in Awaited THEN orders[o].st ELSE "over"
Book(side, stages) == {o \in DOMAIN orders : orders[o].side = side /\ Stage(o) \in stages}
BookOf(s, side, stages) == {o \in Book(side, stages) : orders[o].sym = s}

OneRunEach ==
    \A r, x \in Runs :
        run[r].pc \in InFlight /\ run[x].pc \in InFlight /\ run[r].ord = run[x].ord => r = x
OpenAwaited == \A o \in DOMAIN orders : orders[o].st \in {"new", "live"} => o \in Awaited
FillsWhole == \A o \in DOMAIN orders : orders[o].st # "filled" => orders[o].filled = 0
NoStops == \A r \in Runs : run[r].pc \notin {"trail", "trailWait"}

(* What the awaited orders of a symbol amount to: sells by how far they    *)
(* are, and the buys and sells that have filled but are not confirmed.     *)
Placing(s) == Quantity(BookOf(s, "sell", {"new"}))
Selling(s) == Quantity(BookOf(s, "sell", {"live"}))
Sold(s) == Quantity(BookOf(s, "sell", {"filled"}))
Void(s) == Quantity(BookOf(s, "sell", {"canceled", "rejected"}))
Bought(s) == Quantity(BookOf(s, "buy", {"filled"}))
Proceeds == Quantity(Book("sell", {"filled"}))
Spent == Quantity(Book("buy", {"live", "filled"}))

ReservedIsAwaited ==
    \A s \in Symbols : reserved[s] = Placing(s) + Selling(s) + Sold(s) + Void(s)
HoldingsAgree ==
    \A s \in Symbols :
        available[s] + reserved[s] + Bought(s) = account.free[s] + account.locked[s] + Sold(s)
CashAgrees == cashUsd + Proceeds = account.cash + Spent

CalmShape == OneRunEach /\ OpenAwaited /\ FillsWhole /\ NoStops /\ read = INV!NoRead
Ledger == ReservedIsAwaited /\ HoldingsAgree /\ CashAgrees
CalmInv == TInv /\ CalmShape /\ Ledger

(* What the snapshot shows of a symbol, by what the inventory holds of it.  *)
Doubled(p, h, i) == p - i = 2 * (h - i)
Shows(s) ==
    LET holding == available[s] + reserved[s]
    IN  /\ InitQty[s] = 0 => s \notin shared /\ position[s] = holding
        /\ s \in shared => Doubled(position[s], holding, InitQty[s])
        /\ s \notin shared => position[s] <= holding
Follows == \A s \in Symbols : Shows(s)

Size == [o \in DOMAIN orders |-> orders[o].qty]

-----------------------------------------------------------------------------
(* Amounts.                                                                *)
LEMMA QuotientIsNat ==
    ASSUME NEW a \in Nat, NEW b \in Nat \ {0} PROVE a \div b \in Nat
  OBVIOUS

LEMMA SellQtyType ==
    ASSUME TypeOK, NEW s \in Symbols PROVE SellQty(s) \in Nat
<1>1. position[s] \in Nat /\ DeployNum \in Nat /\ DeployDen \in Nat \ {0}
  BY LoopsAssumption DEF TypeOK
<1>2. position[s] * DeployNum \in Nat
  BY <1>1
<1> QED
  BY <1>1, <1>2, QuotientIsNat DEF SellQty

(* The clamp lets through no more than what is available, and lets alone   *)
(* what canSell() allows.                                                  *)
LEMMA Clamped ==
    ASSUME TypeOK, NEW s \in Symbols, NEW q \in Nat
    PROVE  /\ INV!clampSellQty(s, q) \in Nat
           /\ INV!clampSellQty(s, q) <= available[s] /\ INV!clampSellQty(s, q) <= q
           /\ INV!canSell(s, q) => INV!clampSellQty(s, q) = q
<1>1. available[s] \in Nat /\ Dust \in Nat
  BY LoopsAssumption DEF TypeOK
<1> QED
  BY <1>1 DEF INV!clampSellQty, INV!canSell, INV!Smaller, INV!AtLeastZero

LEMMA Reserved ==
    ASSUME TypeOK, NEW s \in Symbols, NEW q \in Nat, q <= available[s], INV!reserve(s, q)
    PROVE  /\ available' \in [Symbols -> Nat] /\ reserved' \in [Symbols -> Nat]
           /\ cashUsd' = cashUsd
           /\ available'[s] = available[s] - q /\ reserved'[s] = reserved[s] + q
           /\ \A x \in Symbols \ {s} : available'[x] = available[x] /\ reserved'[x] = reserved[x]
<1>1. /\ available' = [available EXCEPT ![s] = @ - q]
      /\ reserved' = [reserved EXCEPT ![s] = @ + q]
      /\ cashUsd' = cashUsd
  BY DEF INV!reserve, INV!canReserve
<1> QED
  BY <1>1 DEF TypeOK

LEMMA ReleasedReservation ==
    ASSUME TypeOK, NEW s \in Symbols, NEW q \in Nat, INV!releaseReservation(s, q)
    PROVE  /\ available' \in [Symbols -> Nat] /\ reserved' \in [Symbols -> Nat]
           /\ cashUsd' = cashUsd
           /\ available'[s] + reserved'[s] = available[s] + reserved[s]
           /\ reserved'[s] >= reserved[s] - q
           /\ q <= reserved[s] => reserved'[s] = reserved[s] - q
           /\ \A x \in Symbols \ {s} : available'[x] = available[x] /\ reserved'[x] = reserved[x]
<1> DEFINE k == INV!released(s, q)
<1>1. available[s] \in Nat /\ reserved[s] \in Nat
  BY DEF TypeOK
<1>2. k \in Nat /\ k <= reserved[s] /\ k <= q /\ (q <= reserved[s] => k = q)
  BY <1>1 DEF INV!released, INV!Smaller
<1>3. /\ reserved' = [reserved EXCEPT ![s] = @ - k]
      /\ available' = [available EXCEPT ![s] = @ + k]
      /\ cashUsd' = cashUsd
  BY DEF INV!releaseReservation
<1> HIDE DEF k
<1> QED
  BY <1>1, <1>2, <1>3 DEF TypeOK

(* A fill of a sell takes its amount off the reservation, and no more than *)
(* that when it was reserved; a fill of a buy becomes available.           *)
LEMMA SellConfirmed ==
    ASSUME TypeOK, NEW s \in Symbols, NEW q \in Nat, INV!creditSell(s, q, 1, 0)
    PROVE  /\ available' \in [Symbols -> Nat] /\ reserved' \in [Symbols -> Nat]
           /\ cashUsd' = cashUsd + q
           /\ reserved'[s] >= reserved[s] - q
           /\ q <= reserved[s] => reserved'[s] = reserved[s] - q /\ available'[s] = available[s]
           /\ \A x \in Symbols \ {s} : available'[x] = available[x] /\ reserved'[x] = reserved[x]
<1> DEFINE k == INV!released(s, q)
           a == INV!AtLeastZero(available[s] - INV!overSold(s, q))
<1>1. available[s] \in Nat /\ reserved[s] \in Nat /\ cashUsd \in Int
  BY DEF TypeOK
<1>2. k \in Nat /\ k <= reserved[s] /\ k <= q /\ (q <= reserved[s] => k = q)
  BY <1>1 DEF INV!released, INV!Smaller
<1>3. a \in Nat /\ (q <= reserved[s] => a = available[s])
  BY <1>1, <1>2 DEF INV!overSold, INV!AtLeastZero
<1>4. /\ reserved' = [reserved EXCEPT ![s] = @ - k]
      /\ available' = [available EXCEPT ![s] = a]
      /\ cashUsd' = cashUsd + (q * 1 - 0)
  BY DEF INV!creditSell
<1> HIDE DEF k, a
<1> QED
  BY <1>1, <1>2, <1>3, <1>4 DEF TypeOK

LEMMA BuyConfirmed ==
    ASSUME TypeOK, NEW s \in Symbols, NEW q \in Nat, INV!debitBuy(s, q, 1, 0)
    PROVE  /\ available' \in [Symbols -> Nat] /\ reserved' = reserved
           /\ cashUsd' = cashUsd - q
           /\ available'[s] = available[s] + q
           /\ \A x \in Symbols \ {s} : available'[x] = available[x]
<1>1. available' = [available EXCEPT ![s] = @ + q] /\ cashUsd' = cashUsd - (q * 1 + 0)
      /\ reserved' = reserved
  BY DEF INV!debitBuy
<1> QED
  BY <1>1 DEF TypeOK

-----------------------------------------------------------------------------
(* The kill switch keeps its type: what it counts stays a number.          *)
LEMMA TriggeredType ==
    ASSUME NEW k \in KS!State, NEW why \in {"losses", "drawdown", "spread", "api", "operator"}
    PROVE  KS!Triggered(k, why) \in KS!State
  BY DEF KS!Triggered, KS!State

LEMMA AfterTradeType ==
    ASSUME NEW k \in KS!State, NEW profitable \in BOOLEAN
    PROVE  KS!AfterTrade(k, profitable) \in KS!State
<1> DEFINE n == KS!LossesAfter(k.consecutiveLosses, profitable)
           counted == [k EXCEPT !.consecutiveLosses = n]
<1>1. n \in Nat
  BY DEF KS!LossesAfter, KS!State
<1>2. counted \in KS!State
  BY <1>1 DEF KS!State
<1>3. KS!Triggered(counted, "losses") \in KS!State
  BY <1>2, TriggeredType
<1>4. KS!AfterTrade(k, profitable) \in {counted, KS!Triggered(counted, "losses")}
  BY DEF KS!AfterTrade
<1> QED
  BY <1>2, <1>3, <1>4

(* What a fill does to the snapshot keeps its type.                        *)
LEMMA SnapshotType ==
    ASSUME TypeOK, NEW s \in Symbols, NEW side \in {"buy", "sell"}, NEW q \in Nat,
           NEW confirmed \in BOOLEAN, applyOrderToSnapshot(s, side, q, confirmed)
    PROVE  /\ position' \in [Symbols -> Nat] /\ shared' \subseteq Symbols /\ kill' \in KS!State
           /\ shared' \subseteq shared
<1> DEFINE before == IF confirmed THEN Confirmed(s, side, q) ELSE position[s]
           left == AfterOrder(before, side, q)
<1>1. position[s] \in Nat
  BY DEF TypeOK
<1>2. before \in Nat
  BY <1>1 DEF Confirmed, INV!AtLeastZero
<1>3. left \in Nat
  <2> HIDE DEF before
  <2> QED
    BY <1>2 DEF AfterOrder, INV!Smaller
<1>4. /\ position' = [position EXCEPT ![s] = left]
      /\ shared' = IF left = 0 THEN shared \ {s} ELSE shared
      /\ recordsTrade(s, side, q)
  BY DEF applyOrderToSnapshot
<1>5. kill' \in KS!State
  <2>1. CASE kill' = kill
    BY <2>1 DEF TypeOK
  <2>2. CASE kill' # kill
    <3>1. PICK profitable \in BOOLEAN, breached \in BOOLEAN :
            kill' = IF breached THEN KS!Triggered(KS!AfterTrade(kill, profitable), "drawdown")
                    ELSE KS!AfterTrade(kill, profitable)
      BY <1>4, <2>2 DEF recordsTrade
    <3>2. KS!AfterTrade(kill, profitable) \in KS!State
      BY AfterTradeType DEF TypeOK
    <3>3. KS!Triggered(KS!AfterTrade(kill, profitable), "drawdown") \in KS!State
      BY <3>2, TriggeredType
    <3> QED
      BY <3>1, <3>2, <3>3
  <2> QED
    BY <2>1, <2>2
<1> HIDE DEF left
<1> QED
  BY <1>3, <1>4, <1>5 DEF TypeOK

-----------------------------------------------------------------------------
(* How a run goes on.                                                      *)
OthersStay(r) == \A p \in Runs \ {r} : run'[p] = run[p]

LEMMA IdleType == Idle \in RunStates
  BY DEF Idle, RunStates, Pcs

LEMMA RunMoves ==
    ASSUME TypeOK, NEW r \in Runs, NEW x \in RunStates, run' = [run EXCEPT ![r] = x]
    PROVE  run' \in [Runs -> RunStates] /\ run'[r] = x /\ OthersStay(r)
  BY DEF TypeOK, OthersStay

LEMMA GotoMoves ==
    ASSUME TypeOK, NEW r \in Runs, NEW pc \in Pcs, Goto(r, pc)
    PROVE  /\ run' \in [Runs -> RunStates] /\ OthersStay(r)
           /\ run'[r].pc = pc /\ run'[r].todo = run[r].todo
           /\ run'[r].ord = run[r].ord /\ run'[r].held = run[r].held
<1>1. run[r] \in RunStates
  BY DEF TypeOK
<1>2. [run[r] EXCEPT !.pc = pc] \in RunStates
  BY <1>1 DEF RunStates
<1>3. run' = [run EXCEPT ![r] = [run[r] EXCEPT !.pc = pc]]
  BY DEF Goto
<1>4. run' \in [Runs -> RunStates] /\ run'[r] = [run[r] EXCEPT !.pc = pc] /\ OthersStay(r)
  BY <1>2, <1>3, RunMoves
<1> QED
  BY <1>1, <1>4 DEF RunStates

LEMMA NextSymbolMoves ==
    ASSUME TypeOK, NEW r \in Runs, run[r].todo # << >>, NextSymbol(r)
    PROVE  /\ run' \in [Runs -> RunStates] /\ OthersStay(r)
           /\ run'[r].pc \in {"idle", "fetch"}
           /\ run'[r].pc = "idle" \/ run'[r].todo # << >>
<1> DEFINE rest == Tail(run[r].todo)
           x == IF rest = << >> THEN Idle ELSE [Idle EXCEPT !.pc = "fetch", !.todo = rest]
<1>1. run[r].todo \in Seq(Symbols)
  BY DEF TypeOK, RunStates
<1>2. rest \in Seq(Symbols)
  BY <1>1
<1>3. x \in RunStates /\ x.pc \in {"idle", "fetch"} /\ (x.pc = "idle" \/ x.todo # << >>)
  BY <1>2 DEF Idle, RunStates, Pcs
<1>4. run' = [run EXCEPT ![r] = x]
  BY DEF NextSymbol
<1> HIDE DEF x
<1> QED
  BY <1>3, <1>4, RunMoves

LEMMA SymType == ASSUME TypeOK, NEW r \in Runs, run[r].todo # << >> PROVE sym(r) \in Symbols
<1>1. run[r].todo \in Seq(Symbols)
  BY DEF TypeOK, RunStates
<1> QED
  BY <1>1 DEF sym

(* An order is placed at the end of the list, and the run waits for it.    *)
Placed(r, o, side, q, held, pc) ==
    /\ orders' \in Seq(AnOrder) /\ DOMAIN orders' = DOMAIN orders \union {o}
    /\ o \notin DOMAIN orders
    /\ orders'[o] = [sym |-> sym(r), side |-> side, qty |-> q, filled |-> 0, st |-> "new"]
    /\ \A x \in DOMAIN orders : orders'[x] = orders[x]
    /\ run' \in [Runs -> RunStates] /\ OthersStay(r)
    /\ run'[r].pc = pc /\ run'[r].todo = run[r].todo /\ run'[r].ord = o /\ run'[r].held = held

LEMMA PlaceMoves ==
    ASSUME TypeOK, NEW r \in Runs, run[r].todo # << >>, NEW side \in {"buy", "sell"},
           NEW q \in Nat, NEW held \in Nat, NEW pc \in Pcs, Place(r, side, q, held, pc)
    PROVE  Placed(r, Len(orders) + 1, side, q, held, pc)
<1> DEFINE new == [sym |-> sym(r), side |-> side, qty |-> q, filled |-> 0, st |-> "new"]
           n == Len(orders) + 1
           x == [run[r] EXCEPT !.pc = pc, !.ord = n, !.held = held]
<1>1. new \in AnOrder
  BY SymType DEF AnOrder, Statuses
<1>2. orders \in Seq(AnOrder) /\ orders' = Append(orders, new)
  BY DEF Place, TypeOK
<1>3. /\ orders' \in Seq(AnOrder)
      /\ DOMAIN orders' = DOMAIN orders \union {Len(orders) + 1}
      /\ Len(orders) + 1 \notin DOMAIN orders
      /\ orders'[Len(orders) + 1] = new
      /\ \A o \in DOMAIN orders : orders'[o] = orders[o]
  <2> HIDE DEF new
  <2> QED
    BY <1>1, <1>2
<1>4. run[r] \in RunStates /\ n \in Nat
  BY <1>2 DEF TypeOK
<1>5. x \in RunStates /\ x.pc = pc /\ x.todo = run[r].todo /\ x.ord = n /\ x.held = held
  <2> HIDE DEF n
  <2> QED
    BY <1>4 DEF RunStates
<1>6. run' = [run EXCEPT ![r] = x]
  BY DEF Place
<1> HIDE DEF x
<1>7. run' \in [Runs -> RunStates] /\ run'[r] = x /\ OthersStay(r)
  BY <1>5, <1>6, RunMoves
<1> QED
  BY <1>3, <1>5, <1>7 DEF Placed

(* An order changes its status and what is filled of it, and nothing else. *)
LEMMA SetOrderMoves ==
    ASSUME TypeOK, NEW o \in DOMAIN orders, NEW st \in Statuses, NEW k \in Nat, SetOrder(o, st, k)
    PROVE  /\ orders' \in Seq(AnOrder) /\ DOMAIN orders' = DOMAIN orders
           /\ orders'[o].st = st /\ orders'[o].filled = k
           /\ \A x \in DOMAIN orders : /\ orders'[x].sym = orders[x].sym
                                       /\ orders'[x].side = orders[x].side
                                       /\ orders'[x].qty = orders[x].qty
           /\ \A x \in DOMAIN orders \ {o} : orders'[x] = orders[x]
<1> DEFINE x == [orders[o] EXCEPT !.st = st, !.filled = k]
<1>1. orders \in Seq(AnOrder) /\ orders[o] \in AnOrder
  BY DEF TypeOK
<1>2. /\ x \in AnOrder /\ x.st = st /\ x.filled = k
      /\ x.sym = orders[o].sym /\ x.side = orders[o].side /\ x.qty = orders[o].qty
  BY <1>1 DEF AnOrder
<1>3. orders' = [orders EXCEPT ![o] = x]
  BY DEF SetOrder
<1> HIDE DEF x
<1>4. orders' \in Seq(AnOrder) /\ DOMAIN orders' = DOMAIN orders
  BY <1>1, <1>2, <1>3
<1>5. orders'[o] = x /\ \A y \in DOMAIN orders \ {o} : orders'[y] = orders[y]
  BY <1>1, <1>3
<1> QED
  BY <1>2, <1>4, <1>5

-----------------------------------------------------------------------------
(* What a step that is not the exchange's leaves of the orders.            *)
OrdersGrow ==
    /\ DOMAIN orders \subseteq DOMAIN orders'
    /\ \A o \in DOMAIN orders :
         /\ orders'[o].sym = orders[o].sym /\ orders'[o].side = orders[o].side
         /\ orders'[o].qty = orders[o].qty
         /\ orders[o].st = "filled" => orders'[o].st = "filled"

LEMMA WaitsKept ==
    ASSUME NEW p \in Runs, Waits(p), run'[p] = run[p], OrdersGrow PROVE Waits(p)'
  BY DEF Waits, At, ord, sym, OrdersGrow, InFlight

LEMMA OthersWait ==
    ASSUME NEW r \in Runs, \A p \in Runs : Waits(p), OthersStay(r), OrdersGrow, Waits(r)'
    PROVE  \A p \in Runs : Waits(p)'
<1> SUFFICES ASSUME NEW p \in Runs PROVE Waits(p)'
  OBVIOUS
<1>1. CASE p = r
  BY <1>1
<1>2. CASE p # r
  BY <1>2, WaitsKept DEF OthersStay
<1> QED
  BY <1>1, <1>2

(* A run that waits for nothing owes only that it knows where it is.       *)
LEMMA NotInFlight ==
    ASSUME NEW r \in Runs, run'[r].pc \notin InFlight,
           run'[r].pc = "idle" \/ run'[r].todo # << >>
    PROVE  Waits(r)'
  BY DEF Waits, At

(* A step of a run that touches nothing of the exchange.                   *)
LEMMA ExchangeUntouched ==
    ASSUME TInv, NEW r \in Runs, OthersStay(r), UNCHANGED <<orders, account>>, TypeOK', Waits(r)'
    PROVE  TInv'
<1>1. OrdersGrow
  BY DEF OrdersGrow
<1>2. \A p \in Runs : Waits(p)'
  BY <1>1, OthersWait DEF TInv
<1>3. FillsBounded' /\ LockedForSells'
  BY DEF TInv, FillsBounded, LockedForSells, Quantity, OrdersOf
<1> QED
  BY <1>2, <1>3 DEF TInv

LEMMA StartRunKeeps ==
    ASSUME TInv, NEW r \in Runs, StartRun(r) PROVE TInv'
<1> DEFINE x == [Idle EXCEPT !.pc = "fetch", !.todo = SymbolSeq]
<1>1. x \in RunStates /\ x.pc = "fetch" /\ x.todo # << >>
  BY LoopsAssumption DEF Idle, RunStates, Pcs
<1>2. /\ run' = [run EXCEPT ![r] = x]
      /\ UNCHANGED <<available, reserved, cashUsd, position, shared, trailing, cooling, kill,
                     orders, account, read>>
  BY DEF StartRun, inventory, snapshot, exchange
<1> HIDE DEF x
<1>3. run' \in [Runs -> RunStates] /\ run'[r] = x /\ OthersStay(r)
  BY <1>1, <1>2, RunMoves DEF TInv
<1>4. TypeOK'
  BY <1>2, <1>3 DEF TInv, TypeOK
<1>5. Waits(r)'
  BY <1>1, <1>3, NotInFlight DEF InFlight
<1> QED
  BY <1>2, <1>3, <1>4, <1>5, ExchangeUntouched

(* Steps that only move the run on, to where it waits for nothing.         *)
LEMMA WanderKeeps ==
    ASSUME TInv, NEW r \in Runs, Fetched(r) \/ Aborted(r) \/ NothingPlaced(r) PROVE TInv'
<1>0. TypeOK /\ Waits(r)
  BY DEF TInv
<1>1. UNCHANGED <<available, reserved, cashUsd, position, shared, trailing, cooling, kill,
                  orders, account, read>>
  BY DEF Fetched, Aborted, NothingPlaced, inventory, snapshot, exchange
<1>2. run[r].todo # << >> \/ run[r].pc = "idle"
  BY <1>0 DEF Waits, At
<1>3. \/ \E pc \in {"decide", "trail"} : Goto(r, pc) /\ run[r].todo # << >>
      \/ run' = [run EXCEPT ![r] = Idle]
      \/ NextSymbol(r) /\ run[r].todo # << >>
  BY <1>2 DEF Fetched, Aborted, NothingPlaced, At
<1>4. /\ run' \in [Runs -> RunStates] /\ OthersStay(r) /\ run'[r].pc \notin InFlight
      /\ run'[r].pc = "idle" \/ run'[r].todo # << >>
  <2>1. CASE \E pc \in {"decide", "trail"} : Goto(r, pc) /\ run[r].todo # << >>
    BY <1>0, <2>1, GotoMoves DEF Pcs, InFlight
  <2>2. CASE run' = [run EXCEPT ![r] = Idle]
    <3>1. run' \in [Runs -> RunStates] /\ OthersStay(r) /\ run'[r] = Idle
      BY <1>0, <2>2, RunMoves, IdleType
    <3> QED
      BY <3>1 DEF Idle, InFlight
  <2>3. CASE NextSymbol(r) /\ run[r].todo # << >>
    BY <1>0, <2>3, NextSymbolMoves DEF InFlight
  <2> QED
    BY <1>3, <2>1, <2>2, <2>3
<1>5. TypeOK'
  BY <1>0, <1>1, <1>4 DEF TypeOK
<1>6. Waits(r)'
  BY <1>4, NotInFlight
<1> QED
  BY <1>1, <1>4, <1>5, <1>6, ExchangeUntouched

-----------------------------------------------------------------------------
(* A sum over orders changes by what becomes of one of them.               *)
LEMMA OrderType ==
    ASSUME NEW list \in Seq(AnOrder), NEW o \in DOMAIN list
    PROVE  /\ list[o] \in AnOrder /\ list[o].sym \in Symbols /\ list[o].side \in {"buy", "sell"}
           /\ list[o].qty \in Nat /\ list[o].filled \in Nat /\ list[o].st \in Statuses
<1>1. list[o] \in AnOrder
  OBVIOUS
<1> QED
  BY <1>1 DEF AnOrder

LEMMA ListFinite == ASSUME NEW list \in Seq(AnOrder) PROVE IsFiniteSet(DOMAIN list)
<1>1. DOMAIN list = 1..Len(list) /\ Len(list) \in Nat
  OBVIOUS
<1> QED
  BY <1>1, FS_Interval

LEMMA QuantityMoves ==
    ASSUME TypeOK, orders' \in Seq(AnOrder), NEW o \in DOMAIN orders',
           DOMAIN orders' = DOMAIN orders \union {o},
           \A x \in DOMAIN orders : orders'[x].qty = orders[x].qty,
           NEW S, S \subseteq DOMAIN orders, NEW T, T \subseteq DOMAIN orders',
           S \ {o} = T \ {o}
    PROVE  /\ Total(S, Size) \in Nat /\ Total(T, Size') \in Nat
           /\ Total(T, Size') = Total(S, Size) + (IF o \in T THEN orders'[o].qty ELSE 0)
                                               - (IF o \in S THEN orders'[o].qty ELSE 0)
<1>1. IsFiniteSet(S) /\ IsFiniteSet(T)
  <2>1. IsFiniteSet(DOMAIN orders) /\ IsFiniteSet(DOMAIN orders')
    BY ListFinite DEF TypeOK
  <2> QED
    BY <2>1, FS_Subset
<1>2. /\ \A x \in DOMAIN orders : Size[x] = orders[x].qty /\ Size[x] \in Nat
      /\ \A x \in DOMAIN orders' : Size'[x] = orders'[x].qty /\ Size'[x] \in Nat
  <2>1. orders \in Seq(AnOrder)
    BY DEF TypeOK
  <2>2. /\ \A x \in DOMAIN orders : orders[x].qty \in Nat
        /\ \A x \in DOMAIN orders' : orders'[x].qty \in Nat
    BY <2>1, OrderType
  <2> QED
    BY <2>2 DEF Size
<1>3. /\ \A x \in S : Size[x] \in Nat
      /\ \A x \in T : Size'[x] \in Nat
      /\ \A x \in S \ {o} : Size'[x] = Size[x]
  BY <1>2
<1>4. Total(T, Size') = Total(S, Size) + (IF o \in T THEN Size'[o] ELSE 0)
                                       - (IF o \in S THEN Size[o] ELSE 0)
  BY <1>1, <1>3, OneMoves
<1>6. Total(S, Size) \in Nat /\ Total(T, Size') \in Nat
  BY <1>1, <1>3, UnitsFinite
<1>5. (o \in T => Size'[o] = orders'[o].qty) /\ (o \in S => Size[o] = orders'[o].qty)
  BY <1>2
<1> QED
  BY <1>4, <1>5, <1>6

(* Placing an order: what the strategy path reserves is what it sells.     *)
LEMMA PlaceKeeps ==
    ASSUME TInv, TypeOK', NEW r \in Runs, run[r].todo # << >>, NEW side \in {"buy", "sell"},
           NEW q \in Nat, NEW held \in Nat, NEW pc \in {"wait", "trailWait"},
           Place(r, side, q, held, pc), account' = account,
           side = "buy" => held = 0 /\ pc = "wait",
           side = "sell" /\ pc = "wait" => held = q
    PROVE  TInv'
<1> DEFINE o == Len(orders) + 1
<1>1. Placed(r, o, side, q, held, pc)
  <2>1. pc \in Pcs /\ TypeOK
    BY DEF Pcs, InFlight, TInv
  <2> QED
    BY <2>1, PlaceMoves
<1> HIDE DEF o
<1>2. OrdersGrow
  BY <1>1 DEF Placed, OrdersGrow
<1>3. Waits(r)'
  BY <1>1 DEF Placed, Waits, At, ord, sym
<1>4. \A p \in Runs : Waits(p)'
  BY <1>1, <1>2, <1>3, OthersWait DEF Placed, TInv
<1>5. FillsBounded'
  BY <1>1 DEF Placed, TInv, FillsBounded
<1>6. ASSUME NEW s \in Symbols PROVE account'.locked[s] = Quantity(OrdersOf(s, "sell", "live"))'
  <2> DEFINE S == OrdersOf(s, "sell", "live")
  <2>1. S' = S /\ S \subseteq DOMAIN orders /\ o \notin S /\ S' \subseteq DOMAIN orders'
    BY <1>1 DEF Placed, OrdersOf
  <2>2. \A x \in DOMAIN orders : orders'[x].qty = orders[x].qty
    BY <1>1 DEF Placed
  <2>3. \A x \in S' : Size'[x] = Size[x]
    BY <1>1, <2>1, <2>2 DEF Placed, Size
  <2>4. Total(S', Size') = Total(S', Size)
    <3> HIDE DEF S
    <3> QED
      BY <2>3, TotalSame
  <2>5. Total(S, Size) = account.locked[s]
    BY DEF TInv, LockedForSells, Quantity, Size
  <2> QED
    BY <2>1, <2>4, <2>5 DEF Quantity, Size
<1> QED
  BY <1>4, <1>5, <1>6 DEF TInv, LockedForSells

LEMMA SellKeeps ==
    ASSUME TInv, NEW r \in Runs, Sell(r) \/ TrailSell(r) PROVE TInv'
<1> DEFINE s == sym(r)
           q == SellQty(s)
           c == INV!clampSellQty(s, q)
<1>0. TypeOK /\ Waits(r) /\ run[r].pc \in {"decide", "trail"}
  BY DEF TInv, Sell, TrailSell, At
<1>1. run[r].todo # << >> /\ s \in Symbols /\ q \in Nat
  BY <1>0, SymType, SellQtyType DEF Waits, At
<1>2. c \in Nat /\ c <= available[s] /\ (INV!canSell(s, q) => c = q)
  <2> HIDE DEF s, q
  <2> QED
    BY <1>0, <1>1, Clamped
<1>3. PICK pc \in {"wait", "trailWait"} :
         /\ INV!reserve(s, c) /\ Place(r, "sell", q, c, pc)
         /\ pc = "wait" => INV!canSell(s, q)
         /\ UNCHANGED <<position, shared, trailing, cooling, kill, account, read>>
  BY DEF Sell, TrailSell, snapshot
<1> HIDE DEF s, q, c
<1>4. available' \in [Symbols -> Nat] /\ reserved' \in [Symbols -> Nat] /\ cashUsd' = cashUsd
  BY <1>0, <1>1, <1>2, <1>3, Reserved
<1>5. run' \in [Runs -> RunStates] /\ orders' \in Seq(AnOrder)
  <2>1. pc \in Pcs
    BY DEF Pcs, InFlight
  <2> QED
    BY <1>0, <1>1, <1>2, <1>3, <2>1, PlaceMoves DEF Placed
<1>6. TypeOK'
  BY <1>0, <1>3, <1>4, <1>5 DEF TypeOK
<1> QED
  BY <1>1, <1>2, <1>3, <1>6, PlaceKeeps

LEMMA BuyKeeps ==
    ASSUME TInv, NEW r \in Runs, Buy(r) PROVE TInv'
<1>0. TypeOK /\ Waits(r) /\ run[r].pc = "decide"
  BY DEF TInv, Buy, At
<1>1. run[r].todo # << >>
  BY <1>0 DEF Waits, At
<1>2. PICK q \in 1..BuyCap : Place(r, "buy", q, 0, "wait")
  BY DEF Buy
<1>3. q \in Nat /\ "wait" \in Pcs
  BY DEF Pcs, InFlight
<1>4. run' \in [Runs -> RunStates] /\ orders' \in Seq(AnOrder)
  BY <1>0, <1>1, <1>2, <1>3, PlaceMoves DEF Placed
<1>5. UNCHANGED <<available, reserved, cashUsd, position, shared, trailing, cooling, kill,
                  account, read>>
  BY DEF Buy, inventory, snapshot
<1>6. TypeOK'
  BY <1>0, <1>4, <1>5 DEF TypeOK
<1> QED
  BY <1>1, <1>2, <1>3, <1>5, <1>6, PlaceKeeps

-----------------------------------------------------------------------------
(* What a run does when its order comes back.                              *)
LEMMA WaitsFor ==
    ASSUME TInv, NEW r \in Runs, run[r].pc \in InFlight
    PROVE  /\ run[r].todo # << >> /\ sym(r) \in Symbols
           /\ run[r].ord \in DOMAIN orders
           /\ ord(r).side \in {"buy", "sell"} /\ ord(r).filled \in Nat /\ ord(r).qty \in Nat
           /\ ord(r).sym = sym(r) /\ ord(r).filled <= ord(r).qty
<1>1. Waits(r) /\ TypeOK /\ FillsBounded
  BY DEF TInv
<1>2. run[r].todo # << >> /\ run[r].ord \in DOMAIN orders /\ ord(r).sym = sym(r)
  BY <1>1 DEF Waits, At, InFlight
<1>3. orders \in Seq(AnOrder)
  BY <1>1 DEF TypeOK
<1> QED
  BY <1>1, <1>2, <1>3, SymType, OrderType DEF ord, FillsBounded

LEMMA ReleaseMoves ==
    ASSUME TypeOK, NEW r \in Runs, sym(r) \in Symbols, Release(r)
    PROVE  /\ available' \in [Symbols -> Nat] /\ reserved' \in [Symbols -> Nat]
           /\ cashUsd' = cashUsd
           /\ available'[sym(r)] + reserved'[sym(r)] = available[sym(r)] + reserved[sym(r)]
           /\ reserved'[sym(r)] >= reserved[sym(r)] - run[r].held
           /\ run[r].held <= reserved[sym(r)]
                => reserved'[sym(r)] = reserved[sym(r)] - run[r].held
           /\ \A x \in Symbols \ {sym(r)} :
                 available'[x] = available[x] /\ reserved'[x] = reserved[x]
<1>1. run[r].held \in Nat
  BY DEF TypeOK, RunStates
<1>2. CASE run[r].held > 0
  <2>1. INV!releaseReservation(sym(r), run[r].held)
    BY <1>2 DEF Release
  <2> QED
    BY <1>1, <2>1, ReleasedReservation
<1>3. CASE run[r].held = 0
  <2>1. UNCHANGED <<available, reserved, cashUsd>>
    BY <1>3 DEF Release, inventory
  <2>2. available[sym(r)] \in Nat /\ reserved[sym(r)] \in Nat
    BY DEF TypeOK
  <2> QED
    BY <1>3, <2>1, <2>2 DEF TypeOK
<1> QED
  BY <1>1, <1>2, <1>3

LEMMA ThrownKeeps ==
    ASSUME TInv, NEW r \in Runs, Thrown(r) PROVE TInv'
<1>0. TypeOK /\ run[r].pc \in InFlight
  BY DEF TInv, Thrown, InFlight
<1>1. run[r].todo # << >> /\ sym(r) \in Symbols
  BY <1>0, WaitsFor
<1>2. /\ UNCHANGED <<position, shared, trailing, cooling, kill, orders, account, read>>
      /\ \/ Release(r) /\ NextSymbol(r)
         \/ run' = [run EXCEPT ![r] = Idle] /\ UNCHANGED <<available, reserved, cashUsd>>
  BY DEF Thrown, snapshot, exchange, inventory
<1>3. /\ run' \in [Runs -> RunStates] /\ OthersStay(r) /\ run'[r].pc \notin InFlight
      /\ run'[r].pc = "idle" \/ run'[r].todo # << >>
      /\ available' \in [Symbols -> Nat] /\ reserved' \in [Symbols -> Nat] /\ cashUsd' = cashUsd
  <2>1. CASE Release(r) /\ NextSymbol(r)
    BY <1>0, <1>1, <2>1, NextSymbolMoves, ReleaseMoves DEF InFlight
  <2>2. CASE run' = [run EXCEPT ![r] = Idle] /\ UNCHANGED <<available, reserved, cashUsd>>
    <3>1. run' \in [Runs -> RunStates] /\ OthersStay(r) /\ run'[r] = Idle
      BY <1>0, <2>2, RunMoves, IdleType
    <3> QED
      BY <1>0, <2>2, <3>1 DEF Idle, InFlight, TypeOK
  <2> QED
    BY <1>2, <2>1, <2>2
<1>4. TypeOK'
  BY <1>0, <1>2, <1>3 DEF TypeOK
<1>5. Waits(r)'
  BY <1>3, NotInFlight
<1> QED
  BY <1>2, <1>3, <1>4, <1>5, ExchangeUntouched

LEMMA TrailReturnedKeeps ==
    ASSUME TInv, NEW r \in Runs, TrailReturned(r) PROVE TInv'
<1> DEFINE x == [run[r] EXCEPT !.pc = "decide", !.ord = 0, !.held = 0]
<1>0. TypeOK /\ run[r].pc \in InFlight
  BY DEF TInv, TrailReturned, InFlight, At
<1>1. run[r].todo # << >> /\ sym(r) \in Symbols /\ ord(r).filled \in Nat
  BY <1>0, WaitsFor
<1>2. /\ UNCHANGED <<available, reserved, cashUsd, cooling, orders, account, read>>
      /\ applyOrderToSnapshot(sym(r), "sell", ord(r).filled, FALSE)
      /\ trailAfter(sym(r), "sell")
      /\ run' = [run EXCEPT ![r] = x]
  BY DEF TrailReturned, inventory, exchange
<1>3. position' \in [Symbols -> Nat] /\ shared' \subseteq Symbols /\ kill' \in KS!State
  BY <1>0, <1>1, <1>2, SnapshotType
<1>4. trailing' \subseteq Symbols
  BY <1>0, <1>2 DEF trailAfter, TypeOK
<1>5. x \in RunStates /\ x.pc = "decide" /\ x.todo = run[r].todo
  BY <1>0 DEF TypeOK, RunStates, Pcs
<1> HIDE DEF x
<1>6. run' \in [Runs -> RunStates] /\ OthersStay(r) /\ run'[r] = x
  BY <1>0, <1>2, <1>5, RunMoves
<1>7. TypeOK'
  BY <1>0, <1>2, <1>3, <1>4, <1>6 DEF TypeOK
<1>8. Waits(r)'
  BY <1>1, <1>5, <1>6, NotInFlight DEF InFlight
<1> QED
  BY <1>2, <1>6, <1>7, <1>8, ExchangeUntouched

LEMMA CoolType ==
    ASSUME TInv, NEW r \in Runs, run[r].pc \in InFlight, Cool(r)
    PROVE  cooling' \subseteq Symbols \X {"buy", "sell"}
  BY WaitsFor DEF Cool, TInv, TypeOK

LEMMA ReturnedFilledKeeps ==
    ASSUME TInv, NEW r \in Runs, ReturnedFilled(r) PROVE TInv'
<1>0. TypeOK /\ run[r].pc \in InFlight /\ Waits(r)
  BY DEF TInv, ReturnedFilled, InFlight, At
<1>1. /\ UNCHANGED <<available, reserved, cashUsd, position, shared, trailing, kill, orders,
                     account, read>>
      /\ Cool(r) /\ Goto(r, "fees") /\ ord(r).st = "filled" /\ run[r].pc = "wait"
  BY DEF ReturnedFilled, inventory, snapshot, exchange, At
<1>2. cooling' \subseteq Symbols \X {"buy", "sell"}
  BY <1>0, <1>1, CoolType
<1>3. /\ run' \in [Runs -> RunStates] /\ OthersStay(r)
      /\ run'[r].pc = "fees" /\ run'[r].todo = run[r].todo
      /\ run'[r].ord = run[r].ord /\ run'[r].held = run[r].held
  <2>1. "fees" \in Pcs
    BY DEF Pcs, InFlight
  <2> QED
    BY <1>0, <1>1, <2>1, GotoMoves
<1>4. TypeOK'
  BY <1>0, <1>1, <1>2, <1>3 DEF TypeOK
<1>5. Waits(r)'
  BY <1>0, <1>1, <1>3 DEF Waits, At, ord, sym, InFlight
<1> QED
  BY <1>1, <1>3, <1>4, <1>5, ExchangeUntouched

(* What the last two steps of a strategy order have in common.             *)
LEMMA ClosingKeeps ==
    ASSUME TInv, NEW r \in Runs, run[r].pc \in InFlight,
           available' \in [Symbols -> Nat], reserved' \in [Symbols -> Nat], cashUsd' \in Int,
           NEW confirmed \in BOOLEAN,
           applyOrderToSnapshot(sym(r), ord(r).side, ord(r).filled, confirmed),
           trailAfter(sym(r), ord(r).side), NextSymbol(r),
           cooling' \subseteq Symbols \X {"buy", "sell"},
           UNCHANGED <<orders, account, read>>
    PROVE  TInv'
<1>0. TypeOK
  BY DEF TInv
<1>1. /\ run[r].todo # << >> /\ sym(r) \in Symbols
      /\ ord(r).filled \in Nat /\ ord(r).side \in {"buy", "sell"}
  BY WaitsFor
<1>2. position' \in [Symbols -> Nat] /\ shared' \subseteq Symbols /\ kill' \in KS!State
  BY <1>0, <1>1, SnapshotType
<1>3. trailing' \subseteq Symbols
  BY <1>0, <1>1 DEF trailAfter, TypeOK
<1>4. /\ run' \in [Runs -> RunStates] /\ OthersStay(r) /\ run'[r].pc \notin InFlight
      /\ run'[r].pc = "idle" \/ run'[r].todo # << >>
  BY <1>0, <1>1, NextSymbolMoves DEF InFlight
<1>5. TypeOK'
  BY <1>0, <1>2, <1>3, <1>4 DEF TypeOK
<1>6. Waits(r)'
  BY <1>4, NotInFlight
<1> QED
  BY <1>4, <1>5, <1>6, ExchangeUntouched

LEMMA ReturnedUnfilledKeeps ==
    ASSUME TInv, NEW r \in Runs, ReturnedUnfilled(r) PROVE TInv'
<1>0. TypeOK /\ run[r].pc \in InFlight
  BY DEF TInv, ReturnedUnfilled, InFlight, At
<1>1. /\ Cool(r) /\ Release(r) /\ NextSymbol(r)
      /\ applyOrderToSnapshot(sym(r), ord(r).side, ord(r).filled, FALSE)
      /\ trailAfter(sym(r), ord(r).side)
      /\ UNCHANGED <<orders, account, read>>
  BY DEF ReturnedUnfilled, exchange
<1>2. sym(r) \in Symbols
  BY <1>0, WaitsFor
<1>3. available' \in [Symbols -> Nat] /\ reserved' \in [Symbols -> Nat] /\ cashUsd' \in Int
  BY <1>0, <1>1, <1>2, ReleaseMoves DEF TypeOK
<1>4. cooling' \subseteq Symbols \X {"buy", "sell"}
  BY <1>0, <1>1, CoolType
<1> QED
  BY <1>0, <1>1, <1>3, <1>4, ClosingKeeps

LEMMA SettleKeeps ==
    ASSUME TInv, NEW r \in Runs, Settle(r) PROVE TInv'
<1>0. TypeOK /\ run[r].pc \in InFlight
  BY DEF TInv, Settle, InFlight, At
<1>1. /\ confirmFill(sym(r), ord(r).side, ord(r).filled) /\ NextSymbol(r)
      /\ applyOrderToSnapshot(sym(r), ord(r).side, ord(r).filled, TRUE)
      /\ trailAfter(sym(r), ord(r).side)
      /\ UNCHANGED <<cooling, orders, account, read>>
  BY DEF Settle, exchange
<1>2. sym(r) \in Symbols /\ ord(r).filled \in Nat
  BY <1>0, WaitsFor
<1>3. available' \in [Symbols -> Nat] /\ reserved' \in [Symbols -> Nat] /\ cashUsd' \in Int
  <2>1. CASE INV!creditSell(sym(r), ord(r).filled, 1, 0)
    BY <1>0, <1>2, <2>1, SellConfirmed DEF TypeOK
  <2>2. CASE INV!debitBuy(sym(r), ord(r).filled, 1, 0)
    BY <1>0, <1>2, <2>2, BuyConfirmed DEF TypeOK
  <2> QED
    BY <1>1, <2>1, <2>2 DEF confirmFill
<1>4. cooling' \subseteq Symbols \X {"buy", "sell"}
  BY <1>0, <1>1 DEF TypeOK
<1> QED
  BY <1>0, <1>1, <1>3, <1>4, ClosingKeeps

-----------------------------------------------------------------------------
(* The exchange's steps: one order moves on, no run does.                  *)
LEMMA StatusMoves ==
    ASSUME TypeOK, NEW o \in DOMAIN orders, NEW st \in Statuses, NEW k \in Nat, SetOrder(o, st, k),
           NEW s \in Symbols
    PROVE  LET counts(stage) == orders[o].sym = s /\ orders[o].side = "sell" /\ stage = "live"
               S == OrdersOf(s, "sell", "live")
           IN  /\ Quantity(S) \in Nat /\ Quantity(S)' \in Nat
               /\ Quantity(S)' = Quantity(S) + (IF counts(st) THEN orders[o].qty ELSE 0)
                                             - (IF counts(orders[o].st) THEN orders[o].qty ELSE 0)
<1> DEFINE S == OrdersOf(s, "sell", "live")
<1>1. /\ orders' \in Seq(AnOrder) /\ DOMAIN orders' = DOMAIN orders
      /\ orders'[o].st = st
      /\ \A x \in DOMAIN orders : /\ orders'[x].sym = orders[x].sym
                                  /\ orders'[x].side = orders[x].side
                                  /\ orders'[x].qty = orders[x].qty
      /\ \A x \in DOMAIN orders \ {o} : orders'[x] = orders[x]
  BY SetOrderMoves
<1>2. S \subseteq DOMAIN orders /\ S' \subseteq DOMAIN orders' /\ S \ {o} = S' \ {o}
  BY <1>1 DEF OrdersOf
<1>3. /\ o \in S' <=> orders[o].sym = s /\ orders[o].side = "sell" /\ st = "live"
      /\ o \in S <=> orders[o].sym = s /\ orders[o].side = "sell" /\ orders[o].st = "live"
  BY <1>1 DEF OrdersOf
<1>4. /\ Total(S, Size) \in Nat /\ Total(S', Size') \in Nat
      /\ Total(S', Size') = Total(S, Size) + (IF o \in S' THEN orders'[o].qty ELSE 0)
                                           - (IF o \in S THEN orders'[o].qty ELSE 0)
  <2>1. o \in DOMAIN orders' /\ DOMAIN orders' = DOMAIN orders \union {o}
        /\ \A x \in DOMAIN orders : orders'[x].qty = orders[x].qty
    BY <1>1
  <2> HIDE DEF S
  <2> QED
    BY <1>1, <1>2, <2>1, QuantityMoves
<1>5. orders'[o].qty = orders[o].qty
  BY <1>1
<1>6. Quantity(S) = Total(S, Size) /\ Quantity(S)' = Total(S', Size')
  BY DEF Quantity, Size
<1> HIDE DEF S
<1>7. /\ Quantity(S) \in Nat /\ Quantity(S)' \in Nat
      /\ Quantity(S)' = Quantity(S) + (IF o \in S' THEN orders[o].qty ELSE 0)
                                    - (IF o \in S THEN orders[o].qty ELSE 0)
  BY <1>4, <1>5, <1>6
<1> QED
  BY <1>3, <1>7 DEF S

(* What an order that moves on owes to be as the exchange keeps it.        *)
LEMMA ExchangeKeeps ==
    ASSUME TInv, NEW o \in DOMAIN orders, NEW st \in Statuses, NEW k \in Nat, SetOrder(o, st, k),
           k <= orders[o].qty, st = "filled" => k = orders[o].qty, orders[o].st # "filled",
           account' \in Accounts, LockedForSells', UNCHANGED Client
    PROVE  TInv'
<1>0. TypeOK
  BY DEF TInv
<1>1. /\ orders' \in Seq(AnOrder) /\ DOMAIN orders' = DOMAIN orders
      /\ orders'[o].st = st /\ orders'[o].filled = k
      /\ \A x \in DOMAIN orders : /\ orders'[x].sym = orders[x].sym
                                  /\ orders'[x].side = orders[x].side
                                  /\ orders'[x].qty = orders[x].qty
      /\ \A x \in DOMAIN orders \ {o} : orders'[x] = orders[x]
  BY <1>0, SetOrderMoves
<1>2. UNCHANGED <<run, available, reserved, cashUsd, position, shared, trailing, cooling, kill, read>>
  BY DEF Client, inventory, snapshot
<1>3. TypeOK'
  BY <1>0, <1>1, <1>2 DEF TypeOK
<1>4. OrdersGrow
  BY <1>1 DEF OrdersGrow
<1>5. ASSUME NEW p \in Runs PROVE Waits(p)'
  BY <1>2, <1>4, WaitsKept DEF TInv
<1>6. FillsBounded'
  <2> SUFFICES ASSUME NEW x \in DOMAIN orders'
               PROVE  /\ orders'[x].filled <= orders'[x].qty
                      /\ orders'[x].st = "filled" => orders'[x].filled = orders'[x].qty
    BY DEF FillsBounded
  <2>1. CASE x = o
    BY <1>1, <2>1
  <2>2. CASE x # o
    BY <1>1, <2>2 DEF TInv, FillsBounded
  <2> QED
    BY <2>1, <2>2
<1> QED
  BY <1>3, <1>5, <1>6 DEF TInv

LEMMA AcceptKeeps ==
    ASSUME TInv, NEW o \in DOMAIN orders, Accept(o) PROVE TInv'
<1> DEFINE s == orders[o].sym
           q == orders[o].qty
<1>0. TypeOK /\ orders \in Seq(AnOrder) /\ account \in Accounts
  BY DEF TInv, TypeOK
<1>1. s \in Symbols /\ q \in Nat /\ "live" \in Statuses
  BY <1>0, OrderType DEF Statuses
<1>2. /\ orders[o].st = "new" /\ SetOrder(o, "live", 0) /\ UNCHANGED Client
      /\ \/ /\ orders[o].side = "sell" /\ q <= account.free[s]
            /\ account' = [account EXCEPT !.free[s] = @ - q, !.locked[s] = @ + q]
         \/ /\ orders[o].side = "buy" /\ q <= account.cash
            /\ account' = [account EXCEPT !.cash = @ - q]
  BY DEF Accept
<1>3. /\ account' \in Accounts
      /\ \A x \in Symbols : account'.locked[x] =
            account.locked[x] + IF x = s /\ orders[o].side = "sell" THEN q ELSE 0
  <2> HIDE DEF s, q
  <2>0. account.free[s] \in Nat /\ account.cash \in Nat /\ \A x \in Symbols : account.locked[x] \in Nat
    BY <1>0, <1>1 DEF Accounts
  <2>1. CASE orders[o].side = "sell"
    <3> DEFINE f == [account.free EXCEPT ![s] = @ - q]
               l == [account.locked EXCEPT ![s] = @ + q]
    <3>1. f \in [Symbols -> Nat] /\ l \in [Symbols -> Nat]
          /\ \A x \in Symbols : l[x] = account.locked[x] + IF x = s THEN q ELSE 0
      BY <1>0, <1>1, <1>2, <2>0, <2>1 DEF Accounts
    <3>2. account' = [account EXCEPT !.free = f, !.locked = l]
      BY <1>2, <2>1
    <3> HIDE DEF f, l
    <3>3. account' \in Accounts /\ account'.locked = l
      BY <1>0, <3>1, <3>2 DEF Accounts
    <3> QED
      BY <2>1, <3>1, <3>3
  <2>2. CASE orders[o].side = "buy"
    <3>1. account' = [account EXCEPT !.cash = @ - q] /\ account.cash - q \in Nat
      BY <1>1, <1>2, <2>0, <2>2
    <3>2. account' \in Accounts /\ account'.locked = account.locked
      BY <1>0, <3>1 DEF Accounts
    <3> QED
      BY <1>1, <2>0, <2>2, <3>2
  <2> QED
    BY <1>2, <2>1, <2>2
<1>4. ASSUME NEW x \in Symbols PROVE account'.locked[x] = Quantity(OrdersOf(x, "sell", "live"))'
  <2> DEFINE was == Quantity(OrdersOf(x, "sell", "live"))
  <2>1. was' = was + (IF s = x /\ orders[o].side = "sell" THEN q ELSE 0)
    <3>1. /\ was' = was + (IF s = x /\ orders[o].side = "sell" THEN q ELSE 0) - 0
          /\ was \in Nat
      BY <1>0, <1>1, <1>2, StatusMoves, Zenon
    <3> HIDE DEF was, s, q
    <3> QED
      BY <1>1, <3>1
  <2>2. account.locked[x] = was
    BY DEF TInv, LockedForSells
  <2> HIDE DEF was, s, q
  <2>3. account'.locked[x] = was'
    BY <1>3, <2>1, <2>2
  <2> QED
    BY <2>3 DEF was
<1>5. LockedForSells'
  BY <1>4 DEF LockedForSells
<1> QED
  BY <1>1, <1>2, <1>3, <1>5, ExchangeKeeps

LEMMA RejectKeeps ==
    ASSUME TInv, NEW o \in DOMAIN orders, Reject(o) PROVE TInv'
<1>0. TypeOK /\ orders \in Seq(AnOrder)
  BY DEF TInv, TypeOK
<1>1. orders[o].qty \in Nat /\ "rejected" \in Statuses
  BY <1>0, OrderType DEF Statuses
<1>2. orders[o].st = "new" /\ SetOrder(o, "rejected", 0) /\ UNCHANGED Client /\ account' = account
  BY DEF Reject
<1>3. ASSUME NEW x \in Symbols PROVE account'.locked[x] = Quantity(OrdersOf(x, "sell", "live"))'
  <2> DEFINE was == Quantity(OrdersOf(x, "sell", "live"))
  <2>1. was' = was + 0 - 0 /\ was \in Nat
    <3>1. "rejected" # "live" /\ "new" # "live" /\ 0 \in Nat
      OBVIOUS
    <3> QED
      BY <1>0, <1>1, <1>2, <3>1, StatusMoves, Zenon
  <2>2. account.locked[x] = was
    BY DEF TInv, LockedForSells
  <2> HIDE DEF was
  <2>3. account'.locked[x] = was'
    BY <1>2, <2>1, <2>2
  <2> QED
    BY <2>3 DEF was
<1>4. LockedForSells'
  BY <1>3 DEF LockedForSells
<1>5. account' \in Accounts
  BY <1>0, <1>2 DEF TypeOK
<1> QED
  BY <1>1, <1>2, <1>4, <1>5, ExchangeKeeps

(* A sell that ends is no longer locked: what it locked was there.         *)
LEMMA EndKeeps ==
    ASSUME TInv, NEW o \in DOMAIN orders, NEW st \in {"filled", "canceled"}, NEW k \in Nat,
           k <= orders[o].qty, st = "filled" => k = orders[o].qty, End(o, st, k)
    PROVE  TInv'
<1> DEFINE s == orders[o].sym
           q == orders[o].qty
           locks(x) == s = x /\ orders[o].side = "sell"
<1>0. TypeOK /\ orders \in Seq(AnOrder) /\ account \in Accounts
  BY DEF TInv, TypeOK
<1>1. s \in Symbols /\ q \in Nat /\ st \in Statuses /\ orders[o].side \in {"buy", "sell"}
  BY <1>0, OrderType DEF Statuses
<1>2. /\ orders[o].st = "live" /\ SetOrder(o, st, k) /\ UNCHANGED Client
      /\ account' =
             IF orders[o].side = "sell"
             THEN [account EXCEPT !.locked[s] = @ - q, !.free[s] = @ + (q - k), !.cash = @ + k]
             ELSE [account EXCEPT !.free[s] = @ + k, !.cash = @ + (q - k)]
  BY DEF End
<1>3. ASSUME NEW x \in Symbols
      PROVE  /\ Quantity(OrdersOf(x, "sell", "live"))'
                  = account.locked[x] - (IF locks(x) THEN q ELSE 0)
             /\ Quantity(OrdersOf(x, "sell", "live"))' \in Nat
  <2> DEFINE was == Quantity(OrdersOf(x, "sell", "live"))
  <2>1. was' = was + 0 - (IF locks(x) THEN q ELSE 0) /\ was \in Nat /\ was' \in Nat
    <3>1. "live" # st
      OBVIOUS
    <3> QED
      BY <1>0, <1>1, <1>2, <3>1, StatusMoves, Zenon
  <2>2. account.locked[x] = was
    BY DEF TInv, LockedForSells
  <2> HIDE DEF was, s, q, locks
  <2>3. was' = account.locked[x] - (IF locks(x) THEN q ELSE 0) /\ was' \in Nat
    BY <1>1, <2>1, <2>2
  <2> QED
    BY <2>3 DEF was
<1>4. /\ account' \in Accounts
      /\ \A x \in Symbols : account'.locked[x] = account.locked[x] - (IF locks(x) THEN q ELSE 0)
  <2>0. account.free[s] + k \in Nat /\ account.cash + k \in Nat /\ q - k \in Nat
        /\ account.free[s] + (q - k) \in Nat /\ account.cash + (q - k) \in Nat
    <3> HIDE DEF s, q
    <3>1. account.free[s] \in Nat /\ account.cash \in Nat
      BY <1>0, <1>1 DEF Accounts
    <3> QED
      BY <1>1, <3>1 DEF q
  <2>1. CASE orders[o].side = "sell"
    <3> DEFINE f == [account.free EXCEPT ![s] = @ + (q - k)]
               l == [account.locked EXCEPT ![s] = @ - q]
    <3>1. account.locked[s] - q \in Nat
      BY <1>1, <1>3, <2>1
    <3>2. f \in [Symbols -> Nat] /\ l \in [Symbols -> Nat]
          /\ \A x \in Symbols : l[x] = IF x = s THEN account.locked[x] - q ELSE account.locked[x]
      <4> HIDE DEF s, q
      <4> QED
        BY <1>0, <1>1, <2>0, <3>1 DEF Accounts
    <3>3. account' = [account EXCEPT !.free = f, !.locked = l, !.cash = @ + k]
      BY <1>2, <2>1
    <3> HIDE DEF f, l
    <3>4. account' \in Accounts /\ account'.locked = l
      BY <1>0, <2>0, <3>2, <3>3 DEF Accounts
    <3>5. \A x \in Symbols : account.locked[x] \in Nat
      BY <1>0 DEF Accounts
    <3> QED
      BY <2>1, <3>2, <3>4, <3>5
  <2>2. CASE orders[o].side = "buy"
    <3> DEFINE f == [account.free EXCEPT ![s] = @ + k]
    <3>1. f \in [Symbols -> Nat]
      <4> HIDE DEF s
      <4> QED
        BY <1>0, <1>1, <2>0 DEF Accounts
    <3>2. account' = [account EXCEPT !.free = f, !.cash = @ + (q - k)]
      BY <1>2, <2>2
    <3> HIDE DEF f, q
    <3>3. account' \in Accounts /\ account'.locked = account.locked
      BY <1>0, <2>0, <3>1, <3>2 DEF Accounts
    <3>4. \A x \in Symbols : account.locked[x] \in Nat
      BY <1>0 DEF Accounts
    <3> QED
      BY <2>2, <3>3, <3>4
  <2> QED
    BY <1>1, <2>1, <2>2
<1>5. LockedForSells'
  <2> HIDE DEF s, q, locks
  <2> QED
    BY <1>3, <1>4 DEF LockedForSells
<1> QED
  BY <1>1, <1>2, <1>4, <1>5, ExchangeKeeps

LEMMA ExchangeStepKeeps ==
    ASSUME TInv, NEW o \in DOMAIN orders, ExchangeStep(o) PROVE TInv'
<1>0. orders[o].qty \in Nat
  BY OrderType DEF TInv, TypeOK
<1>1. CASE Fill(o)
  BY <1>0, <1>1, EndKeeps DEF Fill
<1>2. CASE Cancel(o)
  <2>1. PICK k \in 0..(IF "partial" \in Features THEN orders[o].qty - 1 ELSE 0) :
           End(o, "canceled", k)
    BY <1>2 DEF Cancel
  <2>2. k \in Nat /\ k <= orders[o].qty
    BY <1>0, <2>1
  <2> QED
    BY <2>1, <2>2, EndKeeps
<1> QED
  BY <1>1, <1>2, AcceptKeeps, RejectKeeps DEF ExchangeStep

-----------------------------------------------------------------------------
(* The steps of neither a run nor the exchange.                            *)
OutsideStep == CooldownEnds \/ OperatorTrigger \/ OperatorReset \/ ResyncRead \/ ResyncApply

(* What a re-sync read stays readable, and what it applies is a balance.   *)
LEMMA OutsideType ==
    ASSUME TypeOK, OutsideStep
    PROVE  /\ available' \in [Symbols -> Nat] /\ reserved' \in [Symbols -> Nat] /\ cashUsd' \in Int
           /\ cooling' \subseteq Symbols \X {"buy", "sell"}
           /\ kill' \in KS!State /\ read' \in Reads
           /\ UNCHANGED <<run, position, shared, trailing, orders, account>>
<1>1. CASE CooldownEnds
  BY <1>1 DEF CooldownEnds, TypeOK, inventory, snapshot, exchange
<1>2. CASE OperatorTrigger
  <2>1. KS!Triggered(kill, "operator") \in KS!State
    BY TriggeredType DEF TypeOK
  <2> QED
    BY <1>2, <2>1 DEF OperatorTrigger, TypeOK, inventory, snapshot, exchange
<1>3. CASE OperatorReset
  <2>1. KS!Initial \in KS!State
    BY DEF KS!Initial, KS!State
  <2> QED
    BY <1>3, <2>1 DEF OperatorReset, TypeOK, inventory, snapshot, exchange
<1>4. CASE ResyncRead
  <2>1. /\ read' = [pending |-> TRUE, bal |-> account]
        /\ UNCHANGED <<available, reserved, cashUsd, run, position, shared, trailing, cooling, kill,
                       orders, account>>
    BY <1>4 DEF ResyncRead, INV!resyncRead, INV!inventory, snapshot
  <2>2. read' \in Reads
    BY <2>1 DEF Reads, TypeOK
  <2> QED
    BY <2>1, <2>2 DEF TypeOK
<1>5. CASE ResyncApply
  <2>1. /\ read.pending /\ read' = INV!NoRead /\ cashUsd' = read.bal.cash
        /\ available' = [s \in Symbols |->
              IF INV!drifted(read.bal, s) THEN read.bal.free[s] ELSE available[s]]
        /\ reserved' = [s \in Symbols |->
              IF INV!drifted(read.bal, s) THEN read.bal.locked[s] ELSE reserved[s]]
        /\ UNCHANGED <<run, position, shared, trailing, cooling, kill, orders, account>>
    BY <1>5 DEF ResyncApply, INV!resyncApply, snapshot
  <2>2. read.bal \in Accounts
    <3>1. INV!NoRead.pending = FALSE
      BY DEF INV!NoRead
    <3>2. read # INV!NoRead
      BY <2>1, <3>1, Zenon
    <3> QED
      BY <3>2 DEF TypeOK, Reads
  <2>3. /\ read.bal.free \in [Symbols -> Nat] /\ read.bal.locked \in [Symbols -> Nat]
        /\ read.bal.cash \in Int
    BY <2>2 DEF Accounts
  <2> QED
    BY <2>1, <2>3 DEF TypeOK, Reads
<1> QED
  BY <1>1, <1>2, <1>3, <1>4, <1>5 DEF OutsideStep

LEMMA OutsideKeeps ==
    ASSUME TInv, OutsideStep PROVE TInv'
<1>0. TypeOK
  BY DEF TInv
<1>1. /\ available' \in [Symbols -> Nat] /\ reserved' \in [Symbols -> Nat] /\ cashUsd' \in Int
      /\ cooling' \subseteq Symbols \X {"buy", "sell"}
      /\ kill' \in KS!State /\ read' \in Reads
      /\ UNCHANGED <<run, position, shared, trailing, orders, account>>
  BY <1>0, OutsideType
<1>2. TypeOK'
  BY <1>0, <1>1 DEF TypeOK
<1>3. OrdersGrow
  BY <1>1 DEF OrdersGrow
<1>4. \A p \in Runs : Waits(p)'
  BY <1>1, <1>3, WaitsKept DEF TInv
<1>5. FillsBounded' /\ LockedForSells'
  BY <1>1 DEF TInv, FillsBounded, LockedForSells, Quantity, OrdersOf
<1> QED
  BY <1>2, <1>4, <1>5 DEF TInv

LEMMA RunStepKeeps ==
    ASSUME TInv, NEW r \in Runs, RunStep(r) PROVE TInv'
  BY WanderKeeps, SellKeeps, BuyKeeps, ThrownKeeps, TrailReturnedKeeps, ReturnedFilledKeeps,
     ReturnedUnfilledKeeps, SettleKeeps DEF RunStep

LEMMA StutterKeeps ==
    ASSUME TInv, UNCHANGED vars PROVE TInv'
<1>1. UNCHANGED <<run, available, reserved, cashUsd, position, shared, trailing, cooling, kill,
                  orders, account, read>>
  BY DEF vars, inventory, snapshot, exchange
<1>2. TypeOK' /\ FillsBounded' /\ LockedForSells'
  BY <1>1 DEF TInv, TypeOK, FillsBounded, LockedForSells, Quantity, OrdersOf
<1>3. OrdersGrow
  BY <1>1 DEF OrdersGrow
<1>4. \A p \in Runs : Waits(p)'
  BY <1>1, <1>3, WaitsKept DEF TInv
<1> QED
  BY <1>2, <1>4 DEF TInv

LEMMA NextIs ==
    ASSUME [Next]_vars
    PROVE  \/ \E r \in Runs : StartRun(r) \/ RunStep(r)
           \/ \E o \in DOMAIN orders : ExchangeStep(o)
           \/ OutsideStep
           \/ UNCHANGED vars
  BY DEF Next, OutsideStep

LEMMA StepTInv == TInv /\ [Next]_vars => TInv'
<1> SUFFICES ASSUME TInv, [Next]_vars PROVE TInv'
  OBVIOUS
<1>1. ASSUME NEW r \in Runs, StartRun(r) \/ RunStep(r) PROVE TInv'
  BY <1>1, StartRunKeeps, RunStepKeeps
<1>2. ASSUME NEW o \in DOMAIN orders, ExchangeStep(o) PROVE TInv'
  BY <1>2, ExchangeStepKeeps
<1> QED
  BY <1>1, <1>2, NextIs, OutsideKeeps, StutterKeeps

LEMMA InitTInv == Init => TInv
<1> SUFFICES ASSUME Init PROVE TInv
  OBVIOUS
<1>1. /\ run = [r \in Runs |-> Idle] /\ orders = << >> /\ shared \subseteq Symbols
      /\ trailing = {} /\ cooling = {} /\ kill = KS!Initial /\ read = INV!NoRead
      /\ available = InitQty /\ position = InitQty
      /\ reserved = [s \in Symbols |-> 0] /\ cashUsd = InitCash
      /\ account = [free |-> InitQty, locked |-> [s \in Symbols |-> 0], cash |-> InitCash]
  BY DEF Init
<1>2. InitQty \in [Symbols -> Nat] /\ InitCash \in Nat
  BY LoopsAssumption
<1>3. run \in [Runs -> RunStates]
  BY <1>1, IdleType
<1>4. kill \in KS!State
  BY <1>1 DEF KS!Initial, KS!State
<1>5. orders \in Seq(AnOrder) /\ account \in Accounts /\ read \in Reads
  BY <1>1, <1>2 DEF Accounts, Reads
<1>6. TypeOK
  BY <1>1, <1>2, <1>3, <1>4, <1>5 DEF TypeOK
<1>7. \A r \in Runs : Waits(r)
  BY <1>1 DEF Waits, At, Idle, InFlight
<1>8. FillsBounded
  BY <1>1 DEF FillsBounded
<1>9. LockedForSells
  <2> SUFFICES ASSUME NEW s \in Symbols
               PROVE  account.locked[s] = Quantity(OrdersOf(s, "sell", "live"))
    BY DEF LockedForSells
  <2>1. OrdersOf(s, "sell", "live") = {}
    BY <1>1 DEF OrdersOf
  <2> QED
    BY <1>1, <2>1, TotalOfNone DEF Quantity
<1> QED
  BY <1>6, <1>7, <1>8, <1>9 DEF TInv

(* Whatever features the exchange and the network show, the balances and   *)
(* the reservations stay amounts, a run in flight waits for an order of    *)
(* its own symbol, no order fills beyond its size, and what the exchange   *)
(* has locked is what its open sells lock.                                 *)
THEOREM LoopsTyped == Spec => []TInv
<1>1. Init => TInv
  BY InitTInv
<1>2. TInv /\ [Next]_vars => TInv'
  BY StepTInv
<1> QED
  BY <1>1, <1>2, PTL DEF Spec

-----------------------------------------------------------------------------
(* What the runs together hold of a symbol, as one of them moves on.       *)
LEMMA HeldMoves ==
    ASSUME TypeOK, TypeOK', NEW r \in Runs, OthersStay(r), NEW s \in Symbols
    PROVE  /\ HeldFor(s) \in Nat /\ HeldFor(s)' \in Nat
           /\ HeldFor(s)' = HeldFor(s) + (IF r \in HeldBy(s)' THEN run'[r].held ELSE 0)
                                       - (IF r \in HeldBy(s) THEN run[r].held ELSE 0)
<1> DEFINE S == HeldBy(s)
           held == [x \in Runs |-> run[x].held]
<1>1. IsFiniteSet(S) /\ IsFiniteSet(S') /\ S \subseteq Runs /\ S' \subseteq Runs
  BY LoopsAssumption, FS_Subset DEF HeldBy
<1>2. S \ {r} = S' \ {r}
  BY DEF HeldBy, sym, OthersStay
<1>3. \A x \in Runs : run[x].held \in Nat /\ run'[x].held \in Nat
  BY DEF TypeOK, RunStates
<1>4. /\ \A x \in S : held[x] \in Nat
      /\ \A x \in S' : held'[x] \in Nat
      /\ \A x \in S \ {r} : held'[x] = held[x]
  BY <1>1, <1>3 DEF OthersStay
<1>5. /\ held[r] = run[r].held /\ held'[r] = run'[r].held
      /\ HeldFor(s) = Total(S, held) /\ HeldFor(s)' = Total(S', held')
  BY DEF HeldFor
<1> HIDE DEF S, held
<1>6. Total(S', held') = Total(S, held) + (IF r \in S' THEN held'[r] ELSE 0)
                                        - (IF r \in S THEN held[r] ELSE 0)
  BY <1>1, <1>2, <1>4, OneMoves
<1>7. Total(S, held) \in Nat /\ Total(S', held') \in Nat
  BY <1>1, <1>4, UnitsFinite
<1> QED
  BY <1>5, <1>6, <1>7 DEF S

LEMMA HeldByType == ASSUME NEW s \in Symbols, NEW r \in Runs
    PROVE r \in HeldBy(s) <=> run[r].pc \in InFlight /\ sym(r) = s
  BY DEF HeldBy

(* A run that is done with its order gives back no more than it held.      *)
LEMMA LeavingKeepsHeld ==
    ASSUME HeldIsReserved, TypeOK, TypeOK', NEW r \in Runs, OthersStay(r),
           run'[r].pc \notin InFlight,
           \A s \in Symbols :
              reserved'[s] >= reserved[s] - (IF r \in HeldBy(s) THEN run[r].held ELSE 0)
    PROVE  HeldIsReserved'
<1> SUFFICES ASSUME NEW s \in Symbols PROVE HeldFor(s)' <= reserved'[s]
  BY DEF HeldIsReserved
<1>1. r \notin HeldBy(s)'
  BY DEF HeldBy
<1>2. /\ HeldFor(s) \in Nat /\ HeldFor(s)' \in Nat
      /\ HeldFor(s)' = HeldFor(s) - (IF r \in HeldBy(s) THEN run[r].held ELSE 0)
  <2>1. run[r].held \in Nat
    BY DEF TypeOK, RunStates
  <2>2. /\ HeldFor(s) \in Nat /\ HeldFor(s)' \in Nat
        /\ HeldFor(s)' = HeldFor(s) + 0 - (IF r \in HeldBy(s) THEN run[r].held ELSE 0)
    BY <1>1, HeldMoves, Zenon
  <2> QED
    BY <2>1, <2>2
<1>3. HeldFor(s) <= reserved[s] /\ reserved[s] \in Nat /\ reserved'[s] \in Nat
      /\ run[r].held \in Nat
  BY DEF HeldIsReserved, TypeOK, RunStates
<1>4. reserved'[s] >= reserved[s] - (IF r \in HeldBy(s) THEN run[r].held ELSE 0)
  OBVIOUS
<1> QED
  BY <1>2, <1>3, <1>4

(* A run that sends an order has reserved what it now holds.               *)
LEMMA PlacingKeepsHeld ==
    ASSUME HeldIsReserved, TypeOK, TypeOK', NEW r \in Runs, OthersStay(r),
           run[r].pc \notin InFlight, sym(r) \in Symbols, run'[r].todo = run[r].todo,
           reserved'[sym(r)] = reserved[sym(r)] + run'[r].held,
           \A s \in Symbols \ {sym(r)} : reserved'[s] = reserved[s]
    PROVE  HeldIsReserved'
<1> SUFFICES ASSUME NEW s \in Symbols PROVE HeldFor(s)' <= reserved'[s]
  BY DEF HeldIsReserved
<1>1. r \notin HeldBy(s) /\ (r \in HeldBy(s)' => s = sym(r))
  BY DEF HeldBy, sym
<1>2. run'[r].held \in Nat /\ reserved[s] \in Nat /\ HeldFor(s) <= reserved[s]
  BY DEF HeldIsReserved, TypeOK, RunStates
<1>3. /\ HeldFor(s) \in Nat /\ HeldFor(s)' \in Nat
      /\ HeldFor(s)' = HeldFor(s) + (IF r \in HeldBy(s)' THEN run'[r].held ELSE 0) - 0
  BY <1>1, HeldMoves, Zenon
<1>4. CASE s = sym(r)
  BY <1>2, <1>3, <1>4
<1>5. CASE s # sym(r)
  <2>1. r \notin HeldBy(s)' /\ reserved'[s] = reserved[s]
    BY <1>1, <1>5
  <2> QED
    BY <1>2, <1>3, <2>1
<1> QED
  BY <1>4, <1>5

LEMMA QuietStepKeepsHeld ==
    ASSUME HeldIsReserved, UNCHANGED <<run, reserved>> PROVE HeldIsReserved'
  BY DEF HeldIsReserved, HeldFor, HeldBy, sym

LEMMA ReleaseGivesHeld ==
    ASSUME TInv, NEW r \in Runs, run[r].pc \in InFlight, Release(r)
    PROVE  \A s \in Symbols :
              reserved'[s] >= reserved[s] - (IF r \in HeldBy(s) THEN run[r].held ELSE 0)
<1>1. sym(r) \in Symbols /\ TypeOK
  BY WaitsFor DEF TInv
<1>2. /\ reserved'[sym(r)] >= reserved[sym(r)] - run[r].held
      /\ \A x \in Symbols \ {sym(r)} : reserved'[x] = reserved[x]
  BY <1>1, ReleaseMoves
<1>3. run[r].held \in Nat /\ \A s \in Symbols : reserved[s] \in Nat
  BY <1>1 DEF TypeOK, RunStates
<1> QED
  BY <1>1, <1>2, <1>3, HeldByType

LEMMA WaitsHeld ==
    ASSUME TInv, NEW r \in Runs, run[r].pc \in InFlight, run[r].pc # "trailWait"
    PROVE  run[r].held = IF ord(r).side = "sell" THEN ord(r).qty ELSE 0
<1>1. Waits(r)
  BY DEF TInv
<1>2. ord(r).side \in {"buy", "sell"}
  BY WaitsFor
<1> QED
  BY <1>1, <1>2 DEF Waits, At

LEMMA FilledWhole ==
    ASSUME TInv, NEW r \in Runs, run[r].pc = "fees" PROVE ord(r).filled = ord(r).qty
<1>1. Waits(r) /\ run[r].ord \in DOMAIN orders
  BY WaitsFor DEF TInv, InFlight
<1>2. ord(r).st = "filled"
  BY <1>1 DEF Waits, At, InFlight
<1> QED
  BY <1>1, <1>2 DEF TInv, FillsBounded, ord

LEMMA SettleKeepsHeld ==
    ASSUME HeldIsReserved, TInv, TypeOK', NEW r \in Runs, Settle(r) PROVE HeldIsReserved'
<1>0. TypeOK /\ run[r].pc = "fees" /\ run[r].pc \in InFlight /\ sym(r) \in Symbols
      /\ run[r].todo # << >> /\ ord(r).filled \in Nat
  BY WaitsFor DEF TInv, Settle, InFlight, At
<1>1. confirmFill(sym(r), ord(r).side, ord(r).filled) /\ NextSymbol(r)
  BY DEF Settle
<1>2. OthersStay(r) /\ run'[r].pc \notin InFlight
  BY <1>0, <1>1, NextSymbolMoves DEF InFlight
<1>3. run[r].held = (IF ord(r).side = "sell" THEN ord(r).filled ELSE 0)
  BY <1>0, WaitsHeld, FilledWhole
<1>4. \A s \in Symbols :
         reserved'[s] >= reserved[s] - (IF r \in HeldBy(s) THEN run[r].held ELSE 0)
  <2>0. \A s \in Symbols : reserved[s] \in Nat
    BY <1>0 DEF TypeOK
  <2>1. CASE ord(r).side = "sell" /\ INV!creditSell(sym(r), ord(r).filled, 1, 0)
    <3>1. /\ reserved'[sym(r)] >= reserved[sym(r)] - ord(r).filled
          /\ \A x \in Symbols \ {sym(r)} : reserved'[x] = reserved[x]
      BY <1>0, <2>1, SellConfirmed
    <3>2. run[r].held = ord(r).filled
      BY <1>3, <2>1
    <3> QED
      BY <1>0, <2>0, <3>1, <3>2, HeldByType
  <2>2. CASE ord(r).side = "buy" /\ INV!debitBuy(sym(r), ord(r).filled, 1, 0)
    <3>1. reserved' = reserved
      BY <1>0, <2>2, BuyConfirmed
    <3>2. run[r].held = 0
      BY <1>3, <2>2
    <3> QED
      BY <2>0, <3>1, <3>2
  <2> QED
    BY <1>1, <2>1, <2>2 DEF confirmFill
<1> QED
  BY <1>0, <1>2, <1>4, LeavingKeepsHeld

LEMMA AnswerKeepsHeld ==
    ASSUME HeldIsReserved, TInv, TypeOK', NEW r \in Runs,
           Thrown(r) \/ TrailReturned(r) \/ ReturnedUnfilled(r)
    PROVE  HeldIsReserved'
<1>0. TypeOK /\ run[r].pc \in InFlight /\ run[r].todo # << >>
      /\ run[r].held \in Nat /\ \A s \in Symbols : reserved[s] \in Nat
  <2>1. TypeOK /\ run[r].pc \in InFlight
    BY DEF TInv, Thrown, TrailReturned, ReturnedUnfilled, InFlight, At
  <2> QED
    BY <2>1, WaitsFor DEF TypeOK, RunStates
<1>1. \/ Release(r) /\ NextSymbol(r)
      \/ reserved' = reserved /\ \E x \in RunStates : x.pc \notin InFlight /\ run' = [run EXCEPT ![r] = x]
  <2>1. CASE TrailReturned(r)
    <3> DEFINE x == [run[r] EXCEPT !.pc = "decide", !.ord = 0, !.held = 0]
    <3>1. x \in RunStates /\ x.pc \notin InFlight
      BY <1>0 DEF TypeOK, RunStates, Pcs, InFlight
    <3>2. run' = [run EXCEPT ![r] = x] /\ reserved' = reserved
      BY <2>1 DEF TrailReturned, inventory
    <3> QED
      BY <3>1, <3>2
  <2>2. CASE Thrown(r)
    BY <2>2, IdleType DEF Thrown, inventory, Idle, InFlight
  <2>3. CASE ReturnedUnfilled(r)
    BY <2>3 DEF ReturnedUnfilled
  <2> QED
    BY <2>1, <2>2, <2>3
<1>2. CASE Release(r) /\ NextSymbol(r)
  <2>1. OthersStay(r) /\ run'[r].pc \notin InFlight
    BY <1>0, <1>2, NextSymbolMoves DEF InFlight
  <2> QED
    BY <1>0, <1>2, <2>1, ReleaseGivesHeld, LeavingKeepsHeld
<1>3. CASE reserved' = reserved
           /\ \E x \in RunStates : x.pc \notin InFlight /\ run' = [run EXCEPT ![r] = x]
  <2>1. OthersStay(r) /\ run'[r].pc \notin InFlight
    BY <1>0, <1>3, RunMoves
  <2>2. \A s \in Symbols :
           reserved'[s] >= reserved[s] - (IF r \in HeldBy(s) THEN run[r].held ELSE 0)
    BY <1>0, <1>3
  <2> QED
    BY <1>0, <2>1, <2>2, LeavingKeepsHeld
<1> QED
  BY <1>1, <1>2, <1>3

LEMMA OrderKeepsHeld ==
    ASSUME HeldIsReserved, TInv, TypeOK', NEW r \in Runs, Sell(r) \/ TrailSell(r) \/ Buy(r)
    PROVE  HeldIsReserved'
<1> DEFINE s == sym(r)
           c == INV!clampSellQty(s, SellQty(s))
<1>0. TypeOK /\ Waits(r) /\ run[r].pc \in {"decide", "trail"}
  BY DEF TInv, Sell, TrailSell, Buy, At
<1>1. run[r].todo # << >> /\ s \in Symbols /\ SellQty(s) \in Nat /\ run[r].pc \notin InFlight
  BY <1>0, SymType, SellQtyType DEF Waits, At, InFlight
<1>2. c \in Nat /\ c <= available[s]
  <2> HIDE DEF s
  <2> QED
    BY <1>0, <1>1, Clamped
<1>3. \/ INV!reserve(s, c) /\ \E q \in Nat, pc \in {"wait", "trailWait"} : Place(r, "sell", q, c, pc)
      \/ reserved' = reserved /\ \E q \in 1..BuyCap : Place(r, "buy", q, 0, "wait")
  BY <1>1 DEF Sell, TrailSell, Buy, inventory
<1> HIDE DEF s, c
<1>4. "wait" \in Pcs /\ "trailWait" \in Pcs
  BY DEF Pcs, InFlight
<1>5. CASE INV!reserve(s, c)
           /\ \E q \in Nat, pc \in {"wait", "trailWait"} : Place(r, "sell", q, c, pc)
  <2>1. /\ reserved'[s] = reserved[s] + c
        /\ \A x \in Symbols \ {s} : reserved'[x] = reserved[x]
    BY <1>0, <1>1, <1>2, <1>5, Reserved
  <2>2. OthersStay(r) /\ run'[r].todo = run[r].todo /\ run'[r].held = c
    <3>1. PICK q \in Nat, pc \in {"wait", "trailWait"} : Place(r, "sell", q, c, pc)
      BY <1>5
    <3>2. Placed(r, Len(orders) + 1, "sell", q, c, pc)
      BY <1>0, <1>1, <1>2, <1>4, <3>1, PlaceMoves
    <3> QED
      BY <3>2 DEF Placed
  <2> QED
    BY <1>0, <1>1, <2>1, <2>2, PlacingKeepsHeld DEF s
<1>6. CASE reserved' = reserved /\ \E q \in 1..BuyCap : Place(r, "buy", q, 0, "wait")
  <2>1. PICK q \in 1..BuyCap : Place(r, "buy", q, 0, "wait")
    BY <1>6
  <2>2. OthersStay(r) /\ run'[r].todo = run[r].todo /\ run'[r].held = 0
    <3>1. q \in Nat
      BY <2>1
    <3>2. Placed(r, Len(orders) + 1, "buy", q, 0, "wait")
      BY <1>0, <1>1, <1>4, <2>1, <3>1, PlaceMoves
    <3> QED
      BY <3>2 DEF Placed
  <2>3. reserved[s] \in Nat
    BY <1>0, <1>1 DEF TypeOK
  <2> QED
    BY <1>0, <1>1, <1>6, <2>2, <2>3, PlacingKeepsHeld DEF s
<1> QED
  BY <1>3, <1>5, <1>6

(* Steps of a run that neither send an order nor hear of one.              *)
LEMMA MovingKeepsHeld ==
    ASSUME HeldIsReserved, TInv, TypeOK', NEW r \in Runs,
           StartRun(r) \/ Fetched(r) \/ Aborted(r) \/ NothingPlaced(r) \/ ReturnedFilled(r)
    PROVE  HeldIsReserved'
<1>0. TypeOK /\ Waits(r) /\ (\A s \in Symbols : reserved[s] \in Nat)
  BY DEF TInv, TypeOK
<1>1. reserved' = reserved
  BY DEF StartRun, Fetched, Aborted, NothingPlaced, ReturnedFilled, inventory
<1>2. CASE ReturnedFilled(r)
  <2>1. /\ OthersStay(r) /\ run'[r].pc = "fees" /\ run'[r].todo = run[r].todo
        /\ run'[r].held = run[r].held /\ run[r].pc = "wait"
    <3>1. Goto(r, "fees") /\ "fees" \in Pcs /\ run[r].pc = "wait"
      BY <1>2 DEF ReturnedFilled, Pcs, InFlight, At
    <3> QED
      BY <1>0, <3>1, GotoMoves
  <2>2. ASSUME NEW s \in Symbols PROVE HeldFor(s)' = HeldFor(s)
    <3>1. r \in HeldBy(s)' <=> r \in HeldBy(s)
      BY <2>1 DEF HeldBy, InFlight, sym
    <3>2. HeldFor(s) \in Nat /\ run[r].held \in Nat
          /\ HeldFor(s)' = HeldFor(s) + (IF r \in HeldBy(s)' THEN run'[r].held ELSE 0)
                                      - (IF r \in HeldBy(s) THEN run[r].held ELSE 0)
      <4>1. run[r].held \in Nat
        BY <1>0 DEF TypeOK, RunStates
      <4> QED
        BY <1>0, <2>1, <4>1, HeldMoves, Zenon
    <3> QED
      BY <2>1, <3>1, <3>2
  <2> QED
    BY <1>1, <2>2 DEF HeldIsReserved
<1>3. CASE StartRun(r) \/ Fetched(r) \/ Aborted(r) \/ NothingPlaced(r)
  <2>1. OthersStay(r) /\ run'[r].pc \notin InFlight
    <3>1. CASE StartRun(r) \/ Aborted(r)
      <4>1. \E x \in RunStates : x.pc \notin InFlight /\ run' = [run EXCEPT ![r] = x]
        <5>1. [Idle EXCEPT !.pc = "fetch", !.todo = SymbolSeq] \in RunStates
          BY LoopsAssumption DEF Idle, RunStates, Pcs
        <5>2. [Idle EXCEPT !.pc = "fetch", !.todo = SymbolSeq].pc \notin InFlight
              /\ Idle.pc \notin InFlight
          BY DEF Idle, InFlight
        <5> QED
          BY <3>1, <5>1, <5>2, IdleType DEF StartRun, Aborted
      <4> QED
        BY <1>0, <4>1, RunMoves
    <3>2. CASE Fetched(r) \/ NothingPlaced(r)
      <4>1. run[r].todo # << >>
        BY <1>0, <3>2 DEF Fetched, NothingPlaced, At, Waits
      <4>2. NextSymbol(r) \/ Goto(r, "decide") \/ Goto(r, "trail")
        BY <3>2 DEF Fetched, NothingPlaced
      <4>3. {"decide", "trail"} \subseteq Pcs \ InFlight
        BY DEF Pcs, InFlight
      <4> QED
        BY <1>0, <4>1, <4>2, <4>3, NextSymbolMoves, GotoMoves DEF InFlight
    <3> QED
      BY <1>3, <3>1, <3>2
  <2>2. \A s \in Symbols :
           reserved'[s] >= reserved[s] - (IF r \in HeldBy(s) THEN run[r].held ELSE 0)
    <3>1. run[r].held \in Nat
      BY <1>0 DEF TypeOK, RunStates
    <3> QED
      BY <1>0, <1>1, <3>1
  <2> QED
    BY <1>0, <2>1, <2>2, LeavingKeepsHeld
<1> QED
  BY <1>2, <1>3

(* However runs overlap, and whatever orders are rejected, time out, end   *)
(* late or fill in part, what one run's release takes off the pooled       *)
(* reservation is never what another run still holds: releases clamp, the  *)
(* strategy path releases what it reserved, and what a fill takes off is   *)
(* the whole order, which is what was reserved.                            *)
THEOREM ReservationsHold == Spec => HeldStaysReserved
<1>1. TInv /\ TInv' /\ [Next]_vars => [HeldIsReserved /\ ~ResyncApply => HeldIsReserved']_vars
  <2> SUFFICES ASSUME TInv, TypeOK', [Next]_vars, HeldIsReserved, ~ResyncApply
               PROVE  HeldIsReserved'
    BY DEF TInv
  <2>1. ASSUME NEW r \in Runs, StartRun(r) \/ RunStep(r) PROVE HeldIsReserved'
    BY <2>1, MovingKeepsHeld, OrderKeepsHeld, AnswerKeepsHeld, SettleKeepsHeld DEF RunStep
  <2>2. ASSUME NEW o \in DOMAIN orders, ExchangeStep(o) PROVE HeldIsReserved'
    <3>1. UNCHANGED <<run, reserved>>
      BY <2>2 DEF ExchangeStep, Accept, Reject, Fill, Cancel, End, Client, inventory
    <3> QED
      BY <3>1, QuietStepKeepsHeld
  <2>3. CASE OutsideStep
    <3>1. UNCHANGED <<run, reserved>>
      BY <2>3 DEF OutsideStep, CooldownEnds, OperatorTrigger, OperatorReset, ResyncRead,
                  INV!resyncRead, INV!inventory, inventory
    <3> QED
      BY <3>1, QuietStepKeepsHeld
  <2>4. CASE UNCHANGED vars
    <3>1. UNCHANGED <<run, reserved>>
      BY <2>4 DEF vars, inventory
    <3> QED
      BY <3>1, QuietStepKeepsHeld
  <2> QED
    BY <2>1, <2>2, <2>3, <2>4, NextIs
<1>2. Spec => []TInv
  BY LoopsTyped
<1> QED
  BY <1>1, <1>2, PTL DEF Spec, HeldStaysReserved

-----------------------------------------------------------------------------
(* When no stop is hit, no order fills in part, no call times out or       *)
(* returns early and nothing is re-synced: one order goes on from stage a  *)
(* to stage b, and every other order stays in its book.                    *)
Advances(o, s, side, q, a, b) ==
    /\ o \in DOMAIN orders' /\ DOMAIN orders' = DOMAIN orders \union {o}
    /\ orders'[o].sym = s /\ orders'[o].side = side /\ orders'[o].qty = q
    /\ \A x \in DOMAIN orders : /\ orders'[x].sym = orders[x].sym
                                /\ orders'[x].side = orders[x].side
                                /\ orders'[x].qty = orders[x].qty
    /\ Stage(o) = a /\ Stage(o)' = b /\ (o \in DOMAIN orders \/ a = "over")
    /\ \A x \in DOMAIN orders \ {o} : Stage(x)' = Stage(x)

Counted(q, yes) == IF yes THEN q ELSE 0

LEMMA BookOfMoves ==
    ASSUME TypeOK, orders' \in Seq(AnOrder), NEW o, NEW s0, NEW d, NEW q, NEW a, NEW b,
           Advances(o, s0, d, q, a, b), NEW s, NEW side, NEW stages, "over" \notin stages
    PROVE  LET n == Quantity(BookOf(s, side, stages))
               mine == s = s0 /\ side = d
           IN  /\ n \in Nat /\ n' \in Nat
               /\ n' = n + Counted(q, mine /\ b \in stages) - Counted(q, mine /\ a \in stages)
<1> DEFINE S == BookOf(s, side, stages)
           mine == s = s0 /\ side = d
<1>1. S \subseteq DOMAIN orders /\ S' \subseteq DOMAIN orders' /\ S \ {o} = S' \ {o}
  BY DEF Advances, BookOf, Book
<1>2. (o \in S' <=> mine /\ b \in stages) /\ (o \in S <=> mine /\ a \in stages)
  BY DEF Advances, BookOf, Book
<1>3. /\ Total(S, Size) \in Nat /\ Total(S', Size') \in Nat
      /\ Total(S', Size') = Total(S, Size) + (IF o \in S' THEN orders'[o].qty ELSE 0)
                                           - (IF o \in S THEN orders'[o].qty ELSE 0)
  <2>1. /\ o \in DOMAIN orders' /\ DOMAIN orders' = DOMAIN orders \union {o}
        /\ \A x \in DOMAIN orders : orders'[x].qty = orders[x].qty
    BY DEF Advances
  <2> HIDE DEF S
  <2> QED
    BY <1>1, <2>1, QuantityMoves
<1>4. Quantity(S) = Total(S, Size) /\ Quantity(S)' = Total(S', Size') /\ orders'[o].qty = q
  BY DEF Quantity, Size, Advances
<1> HIDE DEF S, mine
<1>5. /\ Quantity(S) \in Nat /\ Quantity(S)' \in Nat
      /\ Quantity(S)' = Quantity(S) + (IF o \in S' THEN q ELSE 0) - (IF o \in S THEN q ELSE 0)
  BY <1>3, <1>4
<1>6. /\ (IF o \in S' THEN q ELSE 0) = Counted(q, mine /\ b \in stages)
      /\ (IF o \in S THEN q ELSE 0) = Counted(q, mine /\ a \in stages)
  BY <1>2 DEF Counted
<1>7. /\ Quantity(S) \in Nat /\ Quantity(S)' \in Nat
      /\ Quantity(S)' = Quantity(S) + Counted(q, mine /\ b \in stages)
                                    - Counted(q, mine /\ a \in stages)
  BY <1>5, <1>6
<1> QED
  BY <1>7 DEF S, mine

LEMMA BookMoves ==
    ASSUME TypeOK, orders' \in Seq(AnOrder), NEW o, NEW s0, NEW d, NEW q, NEW a, NEW b,
           Advances(o, s0, d, q, a, b), NEW side, NEW stages, "over" \notin stages
    PROVE  LET n == Quantity(Book(side, stages))
           IN  /\ n \in Nat /\ n' \in Nat
               /\ n' = n + Counted(q, side = d /\ b \in stages) - Counted(q, side = d /\ a \in stages)
<1> DEFINE S == Book(side, stages)
<1>1. S \subseteq DOMAIN orders /\ S' \subseteq DOMAIN orders' /\ S \ {o} = S' \ {o}
  BY DEF Advances, Book
<1>2. (o \in S' <=> side = d /\ b \in stages) /\ (o \in S <=> side = d /\ a \in stages)
  BY DEF Advances, Book
<1>3. /\ Total(S, Size) \in Nat /\ Total(S', Size') \in Nat
      /\ Total(S', Size') = Total(S, Size) + (IF o \in S' THEN orders'[o].qty ELSE 0)
                                           - (IF o \in S THEN orders'[o].qty ELSE 0)
  <2>1. /\ o \in DOMAIN orders' /\ DOMAIN orders' = DOMAIN orders \union {o}
        /\ \A x \in DOMAIN orders : orders'[x].qty = orders[x].qty
    BY DEF Advances
  <2> HIDE DEF S
  <2> QED
    BY <1>1, <2>1, QuantityMoves
<1>4. Quantity(S) = Total(S, Size) /\ Quantity(S)' = Total(S', Size') /\ orders'[o].qty = q
  BY DEF Quantity, Size, Advances
<1> HIDE DEF S
<1>5. /\ Quantity(S) \in Nat /\ Quantity(S)' \in Nat
      /\ Quantity(S)' = Quantity(S) + (IF o \in S' THEN q ELSE 0) - (IF o \in S THEN q ELSE 0)
  BY <1>3, <1>4
<1>6. /\ (IF o \in S' THEN q ELSE 0) = Counted(q, side = d /\ b \in stages)
      /\ (IF o \in S THEN q ELSE 0) = Counted(q, side = d /\ a \in stages)
  BY <1>2 DEF Counted
<1>7. /\ Quantity(S) \in Nat /\ Quantity(S)' \in Nat
      /\ Quantity(S)' = Quantity(S) + Counted(q, side = d /\ b \in stages)
                                    - Counted(q, side = d /\ a \in stages)
  BY <1>5, <1>6
<1> QED
  BY <1>7 DEF S

(* All books at once, as one order moves from one to another.              *)
BooksMove(s0, side, q, a, b) ==
    /\ \A s \in Symbols :
         LET sold(x, y) == Counted(q, s = s0 /\ side = "sell" /\ x \in y)
             bought(x, y) == Counted(q, s = s0 /\ side = "buy" /\ x \in y)
         IN  /\ {Placing(s), Selling(s), Sold(s), Void(s), Bought(s)} \subseteq Nat
             /\ {Placing(s)', Selling(s)', Sold(s)', Void(s)', Bought(s)'} \subseteq Nat
             /\ Placing(s)' = Placing(s) + sold(b, {"new"}) - sold(a, {"new"})
             /\ Selling(s)' = Selling(s) + sold(b, {"live"}) - sold(a, {"live"})
             /\ Sold(s)' = Sold(s) + sold(b, {"filled"}) - sold(a, {"filled"})
             /\ Void(s)' = Void(s) + sold(b, {"canceled", "rejected"})
                                   - sold(a, {"canceled", "rejected"})
             /\ Bought(s)' = Bought(s) + bought(b, {"filled"}) - bought(a, {"filled"})
    /\ {Proceeds, Spent, Proceeds', Spent'} \subseteq Nat
    /\ Proceeds' = Proceeds + Counted(q, side = "sell" /\ b \in {"filled"})
                            - Counted(q, side = "sell" /\ a \in {"filled"})
    /\ Spent' = Spent + Counted(q, side = "buy" /\ b \in {"live", "filled"})
                      - Counted(q, side = "buy" /\ a \in {"live", "filled"})

LEMMA BooksMoveWith ==
    ASSUME TypeOK, orders' \in Seq(AnOrder), NEW o, NEW s0, NEW d, NEW q, NEW a, NEW b,
           Advances(o, s0, d, q, a, b)
    PROVE  BooksMove(s0, d, q, a, b)
<1>0. /\ "over" \notin {"new"} /\ "over" \notin {"live"} /\ "over" \notin {"filled"}
      /\ "over" \notin {"canceled", "rejected"} /\ "over" \notin {"live", "filled"}
  OBVIOUS
<1>1. ASSUME NEW s \in Symbols, NEW side, NEW stages, "over" \notin stages
      PROVE  LET n == Quantity(BookOf(s, side, stages))
             IN  /\ n \in Nat /\ n' \in Nat
                 /\ n' = n + Counted(q, s = s0 /\ d = side /\ b \in stages)
                           - Counted(q, s = s0 /\ d = side /\ a \in stages)
  <2>1. side = d <=> d = side
    OBVIOUS
  <2> QED
    BY <1>1, BookOfMoves DEF Counted
<1>2. ASSUME NEW side, NEW stages, "over" \notin stages
      PROVE  LET n == Quantity(Book(side, stages))
             IN  /\ n \in Nat /\ n' \in Nat
                 /\ n' = n + Counted(q, d = side /\ b \in stages)
                           - Counted(q, d = side /\ a \in stages)
  BY <1>2, BookMoves DEF Counted
<1> QED
  BY <1>0, <1>1, <1>2 DEF BooksMove, Placing, Selling, Sold, Void, Bought, Proceeds, Spent

-----------------------------------------------------------------------------
(* The orders that are awaited, as a run sends one or hears of it.         *)
LEMMA AwaitedJoins ==
    ASSUME NEW r \in Runs, OthersStay(r), run \in [Runs -> RunStates], run' \in [Runs -> RunStates],
           run[r].pc \notin InFlight, run'[r].pc \in InFlight
    PROVE  Awaited' = Awaited \union {run'[r].ord}
  BY DEF Awaited, OthersStay

LEMMA AwaitedStays ==
    ASSUME NEW r \in Runs, OthersStay(r), run \in [Runs -> RunStates], run' \in [Runs -> RunStates],
           run[r].pc \in InFlight <=> run'[r].pc \in InFlight,
           run[r].pc \in InFlight => run'[r].ord = run[r].ord
    PROVE  Awaited' = Awaited
  BY DEF Awaited, OthersStay

LEMMA AwaitedLeaves ==
    ASSUME OneRunEach, NEW r \in Runs, OthersStay(r),
           run[r].pc \in InFlight, run'[r].pc \notin InFlight
    PROVE  Awaited' = Awaited \ {run[r].ord}
  BY DEF Awaited, OthersStay, OneRunEach

LEMMA AwaitedListed == ASSUME \A r \in Runs : Waits(r) PROVE Awaited \subseteq DOMAIN orders
  BY DEF Awaited, Waits

(* A run leaves its order for good: the exchange is done with it.          *)
LEMMA LeavingKeepsShape ==
    ASSUME TInv, CalmShape, NEW r \in Runs, OthersStay(r), run[r].pc \in InFlight,
           run'[r].pc \in {"idle", "fetch"}, UNCHANGED <<orders, read>>,
           NEW o, o = run[r].ord, orders[o].st \notin {"new", "live"}
    PROVE  CalmShape' /\ Advances(o, orders[o].sym, orders[o].side, orders[o].qty, orders[o].st, "over")
<1>1. Awaited' = Awaited \ {o}
  BY AwaitedLeaves DEF CalmShape, InFlight
<1>2. o \in DOMAIN orders /\ o \in Awaited
  BY WaitsFor DEF Awaited
<1>3. OneRunEach' /\ NoStops'
  BY DEF CalmShape, OneRunEach, NoStops, OthersStay, InFlight
<1>4. OpenAwaited' /\ FillsWhole'
  BY <1>1, <1>2 DEF CalmShape, OpenAwaited, FillsWhole
<1>5. Advances(o, orders[o].sym, orders[o].side, orders[o].qty, orders[o].st, "over")
  BY <1>1, <1>2 DEF Advances, Stage
<1> QED
  BY <1>3, <1>4, <1>5 DEF CalmShape

LEMMA JoiningKeepsShape ==
    ASSUME TInv, CalmShape, NEW r \in Runs, run[r].pc \notin InFlight,
           NEW o, NEW side, NEW q, NEW held, Placed(r, o, side, q, held, "wait"), read' = read
    PROVE  CalmShape' /\ Advances(o, sym(r), side, q, "over", "new")
<1>0. /\ DOMAIN orders' = DOMAIN orders \union {o} /\ o \notin DOMAIN orders
      /\ orders'[o] = [sym |-> sym(r), side |-> side, qty |-> q, filled |-> 0, st |-> "new"]
      /\ \A x \in DOMAIN orders : orders'[x] = orders[x]
      /\ run' \in [Runs -> RunStates] /\ OthersStay(r)
      /\ run'[r].pc = "wait" /\ run'[r].ord = o
  BY DEF Placed
<1>1. Awaited' = Awaited \union {o}
  BY <1>0, AwaitedJoins DEF TInv, TypeOK, InFlight
<1>2. Awaited \subseteq DOMAIN orders
  BY AwaitedListed DEF TInv
<1>3. \A p \in Runs : run[p].pc \in InFlight => run[p].ord # o
  BY <1>0, <1>2 DEF Awaited
<1>4. OneRunEach'
  BY <1>0, <1>3 DEF CalmShape, OneRunEach, OthersStay
<1>5. NoStops'
  BY <1>0 DEF CalmShape, NoStops, OthersStay
<1>6. OpenAwaited' /\ FillsWhole'
  BY <1>0, <1>1 DEF CalmShape, OpenAwaited, FillsWhole
<1>7. Advances(o, sym(r), side, q, "over", "new")
  BY <1>0, <1>1, <1>2 DEF Advances, Stage
<1> QED
  BY <1>4, <1>5, <1>6, <1>7 DEF CalmShape

LEMMA ExchangeKeepsShape ==
    ASSUME TInv, CalmShape, NEW o \in DOMAIN orders, orders[o].st \in {"new", "live"},
           NEW st \in Statuses, NEW k \in Nat, SetOrder(o, st, k), st = "filled" \/ k = 0,
           UNCHANGED <<run, read>>
    PROVE  /\ CalmShape'
           /\ Advances(o, orders[o].sym, orders[o].side, orders[o].qty, orders[o].st, st)
<1>0. /\ orders' \in Seq(AnOrder) /\ DOMAIN orders' = DOMAIN orders
      /\ orders'[o].st = st /\ orders'[o].filled = k
      /\ \A x \in DOMAIN orders : /\ orders'[x].sym = orders[x].sym
                                  /\ orders'[x].side = orders[x].side
                                  /\ orders'[x].qty = orders[x].qty
      /\ \A x \in DOMAIN orders \ {o} : orders'[x] = orders[x]
  BY SetOrderMoves DEF TInv
<1>1. Awaited' = Awaited /\ o \in Awaited
  BY DEF Awaited, CalmShape, OpenAwaited
<1>2. OneRunEach' /\ NoStops'
  BY DEF CalmShape, OneRunEach, NoStops
<1>3. OpenAwaited' /\ FillsWhole'
  BY <1>0, <1>1 DEF CalmShape, OpenAwaited, FillsWhole
<1>4. Advances(o, orders[o].sym, orders[o].side, orders[o].qty, orders[o].st, st)
  BY <1>0, <1>1 DEF Advances, Stage
<1> QED
  BY <1>2, <1>3, <1>4 DEF CalmShape

(* A step that neither sends an order nor ends the wait for one.           *)
LEMMA MovingKeepsCalm ==
    ASSUME TInv, CalmShape, Ledger, NEW r \in Runs, OthersStay(r), run' \in [Runs -> RunStates],
           run[r].pc \in InFlight <=> run'[r].pc \in InFlight,
           run[r].pc \in InFlight => run'[r].ord = run[r].ord,
           run'[r].pc \notin {"trail", "trailWait"},
           UNCHANGED <<available, reserved, cashUsd, orders, account, read>>
    PROVE  CalmShape' /\ Ledger'
<1>1. Awaited' = Awaited
  BY AwaitedStays DEF TInv, TypeOK
<1>2. OneRunEach' /\ NoStops'
  BY DEF CalmShape, OneRunEach, NoStops, OthersStay
<1>3. OpenAwaited' /\ FillsWhole'
  BY <1>1 DEF CalmShape, OpenAwaited, FillsWhole
<1>4. \A side, stages : Book(side, stages)' = Book(side, stages)
  BY <1>1 DEF Book, Stage
<1>5. \A s, side, stages : BookOf(s, side, stages)' = BookOf(s, side, stages)
  BY <1>4 DEF BookOf
<1>6. /\ \A side, stages : Quantity(Book(side, stages))' = Quantity(Book(side, stages))
      /\ \A s, side, stages : Quantity(BookOf(s, side, stages))' = Quantity(BookOf(s, side, stages))
  BY <1>4, <1>5 DEF Quantity
<1>7. Ledger'
  BY <1>6 DEF Ledger, ReservedIsAwaited, HoldingsAgree, CashAgrees, Placing, Selling, Sold, Void,
              Bought, Proceeds, Spent
<1> QED
  BY <1>2, <1>3, <1>7 DEF CalmShape

-----------------------------------------------------------------------------
(* The books as each order moves on.                                       *)
LEMMA UnfilledKeepsCalm ==
    ASSUME TInv, TypeOK', CalmShape, Ledger, NEW r \in Runs, run[r].pc \in InFlight,
           NEW o, o = run[r].ord, orders[o].st \in {"canceled", "rejected"},
           Release(r), NextSymbol(r), UNCHANGED <<orders, account, read>>
    PROVE  CalmShape' /\ Ledger'
<1> DEFINE s == sym(r)
           q == orders[o].qty
           side == orders[o].side
           held == run[r].held
<1>0. /\ TypeOK /\ s \in Symbols /\ run[r].todo # << >> /\ orders[o].sym = s
      /\ q \in Nat /\ side \in {"buy", "sell"}
  BY WaitsFor DEF TInv, ord
<1>1. OthersStay(r) /\ run'[r].pc \in {"idle", "fetch"}
  BY <1>0, NextSymbolMoves
<1>2. CalmShape' /\ Advances(o, s, side, q, orders[o].st, "over")
  BY <1>0, <1>1, LeavingKeepsShape
<1>3. BooksMove(s, side, q, orders[o].st, "over")
  BY <1>0, <1>2, BooksMoveWith DEF TypeOK
<1>4. held = IF side = "sell" THEN q ELSE 0
  <2>1. run[r].pc # "trailWait"
    BY DEF CalmShape, NoStops
  <2> QED
    BY <2>1, WaitsHeld DEF ord
<1>5. /\ available'[s] + reserved'[s] = available[s] + reserved[s]
      /\ held <= reserved[s] => reserved'[s] = reserved[s] - held
      /\ \A x \in Symbols \ {s} : available'[x] = available[x] /\ reserved'[x] = reserved[x]
      /\ cashUsd' = cashUsd
  BY <1>0, ReleaseMoves
<1>6. \A x \in Symbols : available[x] \in Nat /\ reserved[x] \in Nat
                         /\ available'[x] \in Nat /\ reserved'[x] \in Nat
  BY <1>0 DEF TypeOK
<1> HIDE DEF s, q, side, held
<1>7. /\ \A x \in Symbols :
           /\ {Placing(x), Selling(x), Sold(x), Void(x), Void(x)'} \subseteq Nat
           /\ Placing(x)' = Placing(x) /\ Selling(x)' = Selling(x) /\ Sold(x)' = Sold(x)
           /\ Void(x)' = Void(x) - (IF x = s THEN held ELSE 0) /\ Bought(x)' = Bought(x)
      /\ Proceeds' = Proceeds /\ Spent' = Spent
  <2>1. CASE side = "sell"
    <3>1. held = q
      BY <1>4, <2>1
    <3>2. ASSUME NEW x \in Symbols
          PROVE  /\ {Placing(x), Selling(x), Sold(x), Void(x), Void(x)'} \subseteq Nat
                 /\ Placing(x)' = Placing(x) /\ Selling(x)' = Selling(x) /\ Sold(x)' = Sold(x)
                 /\ Void(x)' = Void(x) - (IF x = s THEN q ELSE 0) /\ Bought(x)' = Bought(x)
      <4>1. /\ Placing(x)' = Placing(x) + 0 - 0 /\ Selling(x)' = Selling(x) + 0 - 0
            /\ Sold(x)' = Sold(x) + 0 - 0 /\ Bought(x)' = Bought(x) + 0 - 0
            /\ Void(x)' = Void(x) + 0 - (IF x = s THEN q ELSE 0)
        BY <1>0, <1>3, <2>1 DEF BooksMove, Counted
      <4>2. {Placing(x), Selling(x), Sold(x), Void(x), Void(x)', Bought(x)} \subseteq Nat
        BY <1>3 DEF BooksMove
      <4> QED
        BY <1>0, <4>1, <4>2
    <3>3. Proceeds' = Proceeds /\ Spent' = Spent
      <4>1. /\ Proceeds' = Proceeds + 0 - 0
            /\ Spent' = Spent + 0 - 0
        <5>1. orders[o].st # "filled"
          BY <1>0
        <5> QED
          BY <1>3, <2>1, <5>1 DEF BooksMove, Counted
      <4>2. Proceeds \in Nat /\ Spent \in Nat
        BY <1>3 DEF BooksMove
      <4> QED
        BY <4>1, <4>2
    <3> QED
      BY <3>1, <3>2, <3>3
  <2>2. CASE side = "buy"
    BY <1>0, <1>3, <1>4, <2>2 DEF BooksMove, Counted
  <2> QED
    BY <1>0, <2>1, <2>2
<1>8. held <= reserved[s]
  BY <1>0, <1>4, <1>6, <1>7 DEF Ledger, ReservedIsAwaited
<1>9. ReservedIsAwaited'
  <2> SUFFICES ASSUME NEW x \in Symbols
               PROVE  reserved'[x] = Placing(x)' + Selling(x)' + Sold(x)' + Void(x)'
    BY DEF ReservedIsAwaited
  <2>1. reserved[x] = Placing(x) + Selling(x) + Sold(x) + Void(x)
    BY DEF Ledger, ReservedIsAwaited
  <2>2. CASE x = s
    BY <1>0, <1>4, <1>5, <1>6, <1>7, <1>8, <2>1, <2>2
  <2>3. CASE x # s
    BY <1>0, <1>4, <1>5, <1>6, <1>7, <1>8, <2>1, <2>3
  <2> QED
    BY <2>2, <2>3
<1>10. HoldingsAgree' /\ CashAgrees'
  <2>1. \A x \in Symbols : available'[x] + reserved'[x] = available[x] + reserved[x]
    BY <1>5
  <2> QED
    BY <1>5, <1>7, <2>1 DEF Ledger, HoldingsAgree, CashAgrees
<1> QED
  BY <1>2, <1>9, <1>10 DEF Ledger

LEMMA SettleKeepsCalm ==
    ASSUME TInv, TypeOK', CalmShape, Ledger, NEW r \in Runs, Settle(r)
    PROVE  /\ CalmShape' /\ Ledger'
           /\ ord(r).side = "sell" => ord(r).qty <= reserved[sym(r)]
<1> DEFINE s == sym(r)
           q == ord(r).qty
           side == ord(r).side
<1>0. /\ TypeOK /\ run[r].pc = "fees" /\ run[r].pc \in InFlight
      /\ s \in Symbols /\ run[r].todo # << >> /\ q \in Nat /\ side \in {"buy", "sell"}
      /\ ord(r).sym = s /\ ord(r).filled = q
  BY WaitsFor, FilledWhole DEF TInv, Settle, InFlight, At
<1>1. /\ \/ side = "sell" /\ INV!creditSell(s, q, 1, 0)
         \/ side = "buy" /\ INV!debitBuy(s, q, 1, 0)
      /\ NextSymbol(r) /\ UNCHANGED <<orders, account, read>>
  BY <1>0 DEF Settle, confirmFill, exchange
<1>2. ord(r).st = "filled"
  BY <1>0 DEF TInv, Waits, At
<1>3. OthersStay(r) /\ run'[r].pc \in {"idle", "fetch"}
  BY <1>0, <1>1, NextSymbolMoves
<1>4. CalmShape' /\ BooksMove(s, side, q, "filled", "over")
  <2>1. PICK o : o = run[r].ord
    OBVIOUS
  <2>2. orders[o].sym = s /\ orders[o].side = side /\ orders[o].qty = q /\ orders[o].st = "filled"
    BY <1>0, <1>2, <2>1 DEF ord
  <2>3. CalmShape' /\ Advances(o, orders[o].sym, orders[o].side, orders[o].qty, orders[o].st, "over")
    BY <1>0, <1>1, <1>3, <2>1, <2>2, LeavingKeepsShape
  <2> HIDE DEF s, side, q
  <2> QED
    BY <1>0, <2>2, <2>3, BooksMoveWith DEF TypeOK
<1>5. \A x \in Symbols : available[x] \in Nat /\ reserved[x] \in Nat
                         /\ available'[x] \in Nat /\ reserved'[x] \in Nat
  BY <1>0 DEF TypeOK
<1>6. cashUsd \in Int /\ account.cash \in Nat
  BY <1>0 DEF TypeOK, Accounts
<1> HIDE DEF s, q, side
<1>7. CASE side = "sell" /\ INV!creditSell(s, q, 1, 0)
  <2>1. /\ \A x \in Symbols :
           /\ {Placing(x), Selling(x), Sold(x), Void(x), Sold(x)'} \subseteq Nat
           /\ Placing(x)' = Placing(x) /\ Selling(x)' = Selling(x) /\ Void(x)' = Void(x)
           /\ Sold(x)' = Sold(x) - (IF x = s THEN q ELSE 0) /\ Bought(x)' = Bought(x)
        /\ Proceeds' = Proceeds - q /\ Spent' = Spent
    BY <1>0, <1>4, <1>7 DEF BooksMove, Counted
  <2>2. q <= reserved[s]
    BY <1>0, <1>5, <2>1 DEF Ledger, ReservedIsAwaited
  <2>3. /\ reserved'[s] = reserved[s] - q /\ available'[s] = available[s]
        /\ \A x \in Symbols \ {s} : available'[x] = available[x] /\ reserved'[x] = reserved[x]
        /\ cashUsd' = cashUsd + q
    BY <1>0, <1>7, <2>2, SellConfirmed
  <2>4. ReservedIsAwaited'
    <3> SUFFICES ASSUME NEW x \in Symbols
                 PROVE  reserved'[x] = Placing(x)' + Selling(x)' + Sold(x)' + Void(x)'
      BY DEF ReservedIsAwaited
    <3>1. reserved[x] = Placing(x) + Selling(x) + Sold(x) + Void(x)
      BY DEF Ledger, ReservedIsAwaited
    <3>2. CASE x = s
      BY <1>0, <1>5, <2>1, <2>3, <3>1, <3>2
    <3>3. CASE x # s
      BY <1>0, <1>5, <2>1, <2>3, <3>1, <3>3
    <3> QED
      BY <3>2, <3>3
  <2>5. HoldingsAgree'
    <3> SUFFICES ASSUME NEW x \in Symbols
                 PROVE  available'[x] + reserved'[x] + Bought(x)'
                           = account'.free[x] + account'.locked[x] + Sold(x)'
      BY DEF HoldingsAgree
    <3>1. Bought(x) \in Nat /\ Sold(x) \in Nat
      BY <1>4 DEF BooksMove
    <3>2. account' = account /\ account.free[x] \in Nat /\ account.locked[x] \in Nat
      BY <1>0, <1>1 DEF TypeOK, Accounts
    <3>3. available[x] + reserved[x] + Bought(x) = account.free[x] + account.locked[x] + Sold(x)
      BY DEF Ledger, HoldingsAgree
    <3>4. /\ available[x] \in Nat /\ reserved[x] \in Nat /\ available'[x] = available[x]
          /\ reserved'[x] = reserved[x] - (IF x = s THEN q ELSE 0)
          /\ Sold(x)' = Sold(x) - (IF x = s THEN q ELSE 0) /\ Bought(x)' = Bought(x)
      BY <1>5, <2>1, <2>3
    <3> DEFINE d == IF x = s THEN q ELSE 0
    <3>5. d \in Nat
      BY <1>0
    <3>6. available[x] + (reserved[x] - d) + Bought(x)
             = account.free[x] + account.locked[x] + (Sold(x) - d)
      <4> HIDE DEF d
      <4> QED
        BY <3>1, <3>2, <3>3, <3>4, <3>5
    <3> QED
      BY <3>2, <3>4, <3>6
  <2>6. CashAgrees'
    <3>1. Proceeds \in Nat /\ Spent \in Nat /\ account' = account
      BY <1>1, <1>4 DEF BooksMove
    <3> QED
      BY <1>0, <1>6, <2>1, <2>3, <3>1 DEF Ledger, CashAgrees
  <2> QED
    BY <1>4, <2>2, <2>4, <2>5, <2>6 DEF Ledger, s, q
<1>8. CASE side = "buy" /\ INV!debitBuy(s, q, 1, 0)
  <2>1. /\ \A x \in Symbols :
           /\ Placing(x)' = Placing(x) /\ Selling(x)' = Selling(x) /\ Void(x)' = Void(x)
           /\ Sold(x)' = Sold(x) /\ Bought(x)' = Bought(x) - (IF x = s THEN q ELSE 0)
        /\ Proceeds' = Proceeds /\ Spent' = Spent - q
    BY <1>0, <1>4, <1>8 DEF BooksMove, Counted
  <2>2. /\ available'[s] = available[s] + q /\ reserved' = reserved
        /\ \A x \in Symbols \ {s} : available'[x] = available[x]
        /\ cashUsd' = cashUsd - q
    BY <1>0, <1>8, BuyConfirmed
  <2>3. ReservedIsAwaited'
    BY <2>1, <2>2 DEF Ledger, ReservedIsAwaited
  <2>4. HoldingsAgree'
    <3> SUFFICES ASSUME NEW x \in Symbols
                 PROVE  available'[x] + reserved'[x] + Bought(x)'
                           = account'.free[x] + account'.locked[x] + Sold(x)'
      BY DEF HoldingsAgree
    <3>1. Bought(x) \in Nat /\ Sold(x) \in Nat
      BY <1>4 DEF BooksMove
    <3>2. account' = account /\ account.free[x] \in Nat /\ account.locked[x] \in Nat
      BY <1>0, <1>1 DEF TypeOK, Accounts
    <3>3. available[x] + reserved[x] + Bought(x) = account.free[x] + account.locked[x] + Sold(x)
      BY DEF Ledger, HoldingsAgree
    <3>4. /\ available[x] \in Nat /\ reserved[x] \in Nat /\ reserved'[x] = reserved[x]
          /\ available'[x] = available[x] + (IF x = s THEN q ELSE 0)
          /\ Bought(x)' = Bought(x) - (IF x = s THEN q ELSE 0) /\ Sold(x)' = Sold(x)
      BY <1>5, <2>1, <2>2
    <3> QED
      BY <1>0, <3>1, <3>2, <3>3, <3>4
  <2>5. CashAgrees'
    <3>1. Proceeds \in Nat /\ Spent \in Nat /\ account' = account
      BY <1>1, <1>4 DEF BooksMove
    <3> QED
      BY <1>0, <1>6, <2>1, <2>2, <3>1 DEF Ledger, CashAgrees
  <2> QED
    BY <1>4, <1>8, <2>3, <2>4, <2>5 DEF Ledger, side
<1> QED
  BY <1>1, <1>7, <1>8

LEMMA SellKeepsCalm ==
    ASSUME TInv, TypeOK', CalmShape, Ledger, NEW r \in Runs, Sell(r) PROVE CalmShape' /\ Ledger'
<1> DEFINE s == sym(r)
           q == SellQty(s)
           c == INV!clampSellQty(s, q)
<1>0. TypeOK /\ Waits(r) /\ run[r].pc = "decide" /\ run[r].pc \notin InFlight
  BY DEF TInv, Sell, At, InFlight
<1>1. run[r].todo # << >> /\ s \in Symbols /\ q \in Nat
  BY <1>0, SymType, SellQtyType DEF Waits, At, InFlight
<1>2. /\ INV!canSell(s, q) /\ INV!reserve(s, c) /\ Place(r, "sell", q, c, "wait")
      /\ UNCHANGED <<account, read>>
  BY DEF Sell
<1>3. c \in Nat /\ c <= available[s] /\ c = q
  <2> HIDE DEF s, q
  <2> QED
    BY <1>0, <1>1, <1>2, Clamped
<1> HIDE DEF s, q, c
<1>4. /\ cashUsd' = cashUsd
      /\ available'[s] = available[s] - q /\ reserved'[s] = reserved[s] + q
      /\ \A x \in Symbols \ {s} : available'[x] = available[x] /\ reserved'[x] = reserved[x]
  BY <1>0, <1>1, <1>2, <1>3, Reserved
<1>5. PICK o : o = Len(orders) + 1
  OBVIOUS
<1>6. Placed(r, o, "sell", q, c, "wait")
  <2>1. "wait" \in Pcs
    BY DEF Pcs, InFlight
  <2> QED
    BY <1>0, <1>1, <1>2, <1>3, <1>5, <2>1, PlaceMoves
<1>7. CalmShape' /\ Advances(o, s, "sell", q, "over", "new")
  BY <1>0, <1>2, <1>6, JoiningKeepsShape DEF s
<1>8. BooksMove(s, "sell", q, "over", "new")
  BY <1>0, <1>7, BooksMoveWith DEF TypeOK
<1>9. /\ \A x \in Symbols :
           /\ {Placing(x), Selling(x), Sold(x), Void(x)} \subseteq Nat
           /\ Placing(x)' = Placing(x) + (IF x = s THEN q ELSE 0)
           /\ Selling(x)' = Selling(x) /\ Void(x)' = Void(x)
           /\ Sold(x)' = Sold(x) /\ Bought(x)' = Bought(x)
      /\ Proceeds' = Proceeds /\ Spent' = Spent
  BY <1>1, <1>8 DEF BooksMove, Counted
<1>10. \A x \in Symbols : available[x] \in Nat /\ reserved[x] \in Nat
  BY <1>0 DEF TypeOK
<1>11. ReservedIsAwaited'
  <2> SUFFICES ASSUME NEW x \in Symbols
               PROVE  reserved'[x] = Placing(x)' + Selling(x)' + Sold(x)' + Void(x)'
    BY DEF ReservedIsAwaited
  <2>1. reserved[x] = Placing(x) + Selling(x) + Sold(x) + Void(x)
    BY DEF Ledger, ReservedIsAwaited
  <2>2. CASE x = s
    BY <1>1, <1>4, <1>9, <1>10, <2>1, <2>2
  <2>3. CASE x # s
    BY <1>1, <1>4, <1>9, <1>10, <2>1, <2>3
  <2> QED
    BY <2>2, <2>3
<1>12. HoldingsAgree' /\ CashAgrees'
  <2>1. \A x \in Symbols : available'[x] + reserved'[x] = available[x] + reserved[x]
    BY <1>1, <1>4, <1>10
  <2> QED
    BY <1>2, <1>4, <1>9, <2>1 DEF Ledger, HoldingsAgree, CashAgrees
<1> QED
  BY <1>7, <1>11, <1>12 DEF Ledger

LEMMA BuyKeepsCalm ==
    ASSUME TInv, TypeOK', CalmShape, Ledger, NEW r \in Runs, Buy(r) PROVE CalmShape' /\ Ledger'
<1>0. TypeOK /\ Waits(r) /\ run[r].pc = "decide" /\ run[r].pc \notin InFlight
  BY DEF TInv, Buy, At, InFlight
<1>1. run[r].todo # << >> /\ sym(r) \in Symbols
  BY <1>0, SymType DEF Waits, At
<1>2. PICK q \in 1..BuyCap : Place(r, "buy", q, 0, "wait")
  BY DEF Buy
<1>3. UNCHANGED <<available, reserved, cashUsd, account, read>>
  BY DEF Buy, inventory
<1>4. PICK o : o = Len(orders) + 1
  OBVIOUS
<1>5. Placed(r, o, "buy", q, 0, "wait")
  <2>1. "wait" \in Pcs /\ q \in Nat
    BY DEF Pcs, InFlight
  <2> QED
    BY <1>0, <1>1, <1>2, <1>4, <2>1, PlaceMoves
<1>6. CalmShape' /\ Advances(o, sym(r), "buy", q, "over", "new")
  BY <1>0, <1>3, <1>5, JoiningKeepsShape
<1>7. BooksMove(sym(r), "buy", q, "over", "new")
  BY <1>0, <1>6, BooksMoveWith DEF TypeOK
<1>8. /\ \A x \in Symbols :
           /\ Placing(x)' = Placing(x) /\ Selling(x)' = Selling(x) /\ Void(x)' = Void(x)
           /\ Sold(x)' = Sold(x) /\ Bought(x)' = Bought(x)
      /\ Proceeds' = Proceeds /\ Spent' = Spent
  BY <1>7 DEF BooksMove, Counted
<1>9. Ledger'
  BY <1>3, <1>8 DEF Ledger, ReservedIsAwaited, HoldingsAgree, CashAgrees
<1> QED
  BY <1>6, <1>9

(* The exchange's steps change no book of the bot's: what moves between    *)
(* the account and the orders must come out even.                          *)
ComesOut ==
    /\ \A x \in Symbols :
         /\ Placing(x)' + Selling(x)' + Sold(x)' + Void(x)' = Placing(x) + Selling(x) + Sold(x) + Void(x)
         /\ account'.free[x] + account'.locked[x] + Sold(x)' + Bought(x)
               = account.free[x] + account.locked[x] + Sold(x) + Bought(x)'
    /\ account'.cash + Spent' + Proceeds = account.cash + Spent + Proceeds'

LEMMA ComingOutKeepsLedger ==
    ASSUME TypeOK, TypeOK', Ledger, ComesOut, UNCHANGED <<available, reserved, cashUsd>>,
           \A x \in Symbols : {Sold(x), Bought(x), Sold(x)', Bought(x)'} \subseteq Nat,
           {Proceeds, Spent, Proceeds', Spent'} \subseteq Nat
    PROVE  Ledger'
<1>1. ReservedIsAwaited'
  BY DEF Ledger, ReservedIsAwaited, ComesOut
<1>2. ASSUME NEW x \in Symbols
      PROVE  available'[x] + reserved'[x] + Bought(x)'
                = account'.free[x] + account'.locked[x] + Sold(x)'
  <2>1. /\ available[x] \in Nat /\ reserved[x] \in Nat
        /\ account.free[x] \in Nat /\ account.locked[x] \in Nat
        /\ account'.free[x] \in Nat /\ account'.locked[x] \in Nat
    BY DEF TypeOK, Accounts
  <2>2. available[x] + reserved[x] + Bought(x) = account.free[x] + account.locked[x] + Sold(x)
    BY DEF Ledger, HoldingsAgree
  <2>3. account'.free[x] + account'.locked[x] + Sold(x)' + Bought(x)
           = account.free[x] + account.locked[x] + Sold(x) + Bought(x)'
    BY DEF ComesOut
  <2>4. Sold(x) \in Nat /\ Bought(x) \in Nat /\ Sold(x)' \in Nat /\ Bought(x)' \in Nat
    OBVIOUS
  <2> DEFINE h == available[x] + reserved[x]
             f == account.free[x] + account.locked[x]
             g == account'.free[x] + account'.locked[x]
  <2>5. h \in Nat /\ f \in Nat /\ g \in Nat
    BY <2>1
  <2>6. h + Bought(x)' = g + Sold(x)'
    <3>1. h + Bought(x) = f + Sold(x) /\ g + Sold(x)' + Bought(x) = f + Sold(x) + Bought(x)'
      BY <2>2, <2>3
    <3> HIDE DEF h, f, g
    <3> QED
      BY <2>4, <2>5, <3>1
  <2> QED
    BY <2>6
<1>3. CashAgrees'
  <2>1. cashUsd \in Int /\ account.cash \in Nat /\ account'.cash \in Nat
    BY DEF TypeOK, Accounts
  <2>2. Proceeds \in Nat /\ Spent \in Nat /\ Proceeds' \in Nat /\ Spent' \in Nat
    OBVIOUS
  <2>3. cashUsd + Proceeds = account.cash + Spent
    BY DEF Ledger, CashAgrees
  <2>4. account'.cash + Spent' + Proceeds = account.cash + Spent + Proceeds'
    BY DEF ComesOut
  <2> DEFINE c == account.cash
             d == account'.cash
  <2>5. cashUsd + Proceeds' = d + Spent'
    <3>1. c \in Nat /\ d \in Nat /\ cashUsd + Proceeds = c + Spent
          /\ d + Spent' + Proceeds = c + Spent + Proceeds'
      BY <2>1, <2>3, <2>4
    <3> HIDE DEF c, d
    <3> QED
      BY <2>1, <2>2, <3>1
  <2> QED
    BY <2>5 DEF CashAgrees
<1> QED
  BY <1>1, <1>2, <1>3 DEF Ledger, HoldingsAgree

(* What an order's status change does to the books, in whichever way the   *)
(* account follows.                                                        *)
LEMMA StatusKeepsCalm ==
    ASSUME TInv, TypeOK', CalmShape, Ledger, NEW o \in DOMAIN orders,
           orders[o].st \in {"new", "live"},
           NEW st \in Statuses, NEW k \in Nat, SetOrder(o, st, k), st = "filled" \/ k = 0,
           UNCHANGED Client,
           BooksMove(orders[o].sym, orders[o].side, orders[o].qty, orders[o].st, st) => ComesOut
    PROVE  CalmShape' /\ Ledger'
<1>0. TypeOK /\ UNCHANGED <<run, available, reserved, cashUsd, read>>
  BY DEF TInv, Client, inventory
<1>1. /\ CalmShape'
      /\ Advances(o, orders[o].sym, orders[o].side, orders[o].qty, orders[o].st, st)
  BY <1>0, ExchangeKeepsShape
<1>2. BooksMove(orders[o].sym, orders[o].side, orders[o].qty, orders[o].st, st)
  BY <1>0, <1>1, BooksMoveWith DEF TypeOK
<1>3. /\ \A x \in Symbols : {Sold(x), Bought(x), Sold(x)', Bought(x)'} \subseteq Nat
      /\ {Proceeds, Spent, Proceeds', Spent'} \subseteq Nat
  BY <1>2 DEF BooksMove
<1>4. Ledger'
  BY <1>0, <1>2, <1>3, ComingOutKeepsLedger
<1> QED
  BY <1>1, <1>4

(* Accepted: a sell's amount is locked, a buy's cash is taken.             *)
LEMMA AcceptKeepsCalm ==
    ASSUME TInv, TypeOK', CalmShape, Ledger, NEW o \in DOMAIN orders, Accept(o)
    PROVE  CalmShape' /\ Ledger'
<1> DEFINE s == orders[o].sym
           q == orders[o].qty
           side == orders[o].side
<1>0. /\ TypeOK /\ account \in Accounts /\ "live" \in Statuses /\ 0 \in Nat
      /\ s \in Symbols /\ q \in Nat /\ side \in {"buy", "sell"}
  <2>1. TypeOK /\ orders \in Seq(AnOrder) /\ account \in Accounts
    BY DEF TInv, TypeOK
  <2> QED
    BY <2>1, OrderType DEF Statuses
<1>1. /\ orders[o].st = "new" /\ SetOrder(o, "live", 0) /\ UNCHANGED Client
      /\ \/ /\ side = "sell"
            /\ account' = [account EXCEPT !.free[s] = @ - q, !.locked[s] = @ + q]
         \/ /\ side = "buy"
            /\ account' = [account EXCEPT !.cash = @ - q]
  BY DEF Accept
<1> HIDE DEF s, q, side
<1>2. ASSUME BooksMove(s, side, q, "new", "live") PROVE ComesOut
  <2>0. account.cash \in Nat /\ \A x \in Symbols : account.free[x] \in Nat /\ account.locked[x] \in Nat
    BY <1>0 DEF Accounts
  <2>1. /\ \A x \in Symbols : /\ {Placing(x), Selling(x), Sold(x), Void(x), Bought(x)} \subseteq Nat
                              /\ Sold(x)' = Sold(x) /\ Void(x)' = Void(x) /\ Bought(x)' = Bought(x)
        /\ {Proceeds, Spent} \subseteq Nat /\ Proceeds' = Proceeds
    BY <1>2 DEF BooksMove, Counted
  <2>2. CASE side = "sell"
    <3>1. /\ \A x \in Symbols : /\ Placing(x)' = Placing(x) - (IF x = s THEN q ELSE 0)
                                /\ Selling(x)' = Selling(x) + (IF x = s THEN q ELSE 0)
          /\ Spent' = Spent
      BY <1>0, <1>2, <2>1, <2>2 DEF BooksMove, Counted
    <3>2. /\ account'.cash = account.cash
          /\ \A x \in Symbols : /\ account'.free[x] = account.free[x] - (IF x = s THEN q ELSE 0)
                                /\ account'.locked[x] = account.locked[x] + (IF x = s THEN q ELSE 0)
      <4> DEFINE f == [account.free EXCEPT ![s] = @ - q]
                 l == [account.locked EXCEPT ![s] = @ + q]
      <4>1. \A x \in Symbols : /\ f[x] = account.free[x] - (IF x = s THEN q ELSE 0)
                                /\ l[x] = account.locked[x] + (IF x = s THEN q ELSE 0)
        BY <1>0, <2>0 DEF Accounts
      <4>2. account' = [account EXCEPT !.free = f, !.locked = l]
        BY <1>1, <2>2
      <4> HIDE DEF f, l
      <4>3. account'.cash = account.cash /\ account'.free = f /\ account'.locked = l
        BY <1>0, <4>2 DEF Accounts
      <4> QED
        BY <4>1, <4>3
    <3> QED
      BY <1>0, <2>0, <2>1, <3>1, <3>2 DEF ComesOut
  <2>3. CASE side = "buy"
    <3>1. /\ \A x \in Symbols : Placing(x)' = Placing(x) /\ Selling(x)' = Selling(x)
          /\ Spent' = Spent + q
      BY <1>0, <1>2, <2>1, <2>3 DEF BooksMove, Counted
    <3>2. /\ account'.cash = account.cash - q
          /\ account'.free = account.free /\ account'.locked = account.locked
      BY <1>0, <1>1, <2>3 DEF Accounts
    <3> QED
      BY <1>0, <2>0, <2>1, <3>1, <3>2 DEF ComesOut
  <2> QED
    BY <1>0, <2>2, <2>3
<1> QED
  BY <1>0, <1>1, <1>2, StatusKeepsCalm DEF s, q, side

LEMMA RejectKeepsCalm ==
    ASSUME TInv, TypeOK', CalmShape, Ledger, NEW o \in DOMAIN orders, Reject(o)
    PROVE  CalmShape' /\ Ledger'
<1> DEFINE s == orders[o].sym
           q == orders[o].qty
           side == orders[o].side
<1>0. TypeOK /\ "rejected" \in Statuses /\ q \in Nat /\ s \in Symbols
  <2>1. TypeOK /\ orders \in Seq(AnOrder)
    BY DEF TInv, TypeOK
  <2> QED
    BY <2>1, OrderType DEF Statuses
<1>1. orders[o].st = "new" /\ SetOrder(o, "rejected", 0) /\ UNCHANGED Client /\ account' = account
  BY DEF Reject
<1> HIDE DEF s, q, side
<1>2. ASSUME BooksMove(s, side, q, "new", "rejected") PROVE ComesOut
  <2>1. /\ \A x \in Symbols : /\ {Placing(x), Selling(x), Sold(x), Void(x), Bought(x)} \subseteq Nat
                              /\ Selling(x)' = Selling(x)
                              /\ Sold(x)' = Sold(x) /\ Bought(x)' = Bought(x)
        /\ {Proceeds, Spent} \subseteq Nat /\ Proceeds' = Proceeds /\ Spent' = Spent
    BY <1>2 DEF BooksMove, Counted
  <2>2. \A x \in Symbols :
           /\ Placing(x)' = Placing(x) - Counted(q, x = s /\ side = "sell")
           /\ Void(x)' = Void(x) + Counted(q, x = s /\ side = "sell")
           /\ Counted(q, x = s /\ side = "sell") \in Nat
    BY <1>0, <1>2, <2>1 DEF BooksMove, Counted
  <2> QED
    BY <1>1, <2>1, <2>2 DEF ComesOut
<1> QED
  BY <1>0, <1>1, <1>2, StatusKeepsCalm DEF s, q, side

(* Ended: filled whole, or canceled with nothing filled.                   *)
LEMMA EndKeepsCalm ==
    ASSUME TInv, TypeOK', CalmShape, Ledger, NEW o \in DOMAIN orders,
           NEW st \in {"filled", "canceled"}, NEW k,
           k = (IF st = "filled" THEN orders[o].qty ELSE 0), End(o, st, k)
    PROVE  CalmShape' /\ Ledger'
<1> DEFINE s == orders[o].sym
           q == orders[o].qty
           side == orders[o].side
<1>0. /\ TypeOK /\ account \in Accounts /\ st \in Statuses /\ k \in Nat /\ q \in Nat
      /\ s \in Symbols /\ side \in {"buy", "sell"} /\ (st = "filled" \/ k = 0)
  <2>1. TypeOK /\ orders \in Seq(AnOrder) /\ account \in Accounts
    BY DEF TInv, TypeOK
  <2> QED
    BY <2>1, OrderType DEF Statuses
<1>1. /\ orders[o].st = "live" /\ SetOrder(o, st, k) /\ UNCHANGED Client
      /\ account' =
             IF side = "sell"
             THEN [account EXCEPT !.locked[s] = @ - q, !.free[s] = @ + (q - k), !.cash = @ + k]
             ELSE [account EXCEPT !.free[s] = @ + k, !.cash = @ + (q - k)]
  BY DEF End
<1>2. k = IF st = "filled" THEN q ELSE 0
  OBVIOUS
<1> HIDE DEF s, q, side
<1>3. ASSUME BooksMove(s, side, q, "live", st) PROVE ComesOut
  <2>0. account.cash \in Nat /\ \A x \in Symbols : account.free[x] \in Nat /\ account.locked[x] \in Nat
    BY <1>0 DEF Accounts
  <2>1. /\ \A x \in Symbols : /\ {Placing(x), Selling(x), Sold(x), Void(x), Bought(x)} \subseteq Nat
                              /\ Placing(x)' = Placing(x)
        /\ {Proceeds, Spent} \subseteq Nat
    BY <1>3 DEF BooksMove, Counted
  <2>2. CASE side = "sell"
    <3> DEFINE f == [account.free EXCEPT ![s] = @ + (q - k)]
               l == [account.locked EXCEPT ![s] = @ - q]
    <3>1. \A x \in Symbols : /\ f[x] = account.free[x] + (IF x = s THEN q - k ELSE 0)
                             /\ l[x] = account.locked[x] - (IF x = s THEN q ELSE 0)
      BY <1>0, <2>0 DEF Accounts
    <3>2. account' = [account EXCEPT !.locked = l, !.free = f, !.cash = @ + k]
      BY <1>1, <2>2
    <3> HIDE DEF f, l
    <3>3. account'.cash = account.cash + k /\ account'.free = f /\ account'.locked = l
      BY <1>0, <3>2 DEF Accounts
    <3>4. /\ \A x \in Symbols :
               /\ Selling(x)' = Selling(x) - (IF x = s THEN q ELSE 0)
               /\ Sold(x)' = Sold(x) + (IF x = s THEN k ELSE 0)
               /\ Void(x)' = Void(x) + (IF x = s THEN q - k ELSE 0)
               /\ Bought(x)' = Bought(x)
          /\ Proceeds' = Proceeds + k /\ Spent' = Spent
      <4>1. CASE st = "filled"
        BY <1>0, <1>2, <1>3, <2>1, <2>2, <4>1 DEF BooksMove, Counted
      <4>2. CASE st = "canceled"
        BY <1>0, <1>2, <1>3, <2>1, <2>2, <4>2 DEF BooksMove, Counted
      <4> QED
        BY <4>1, <4>2
    <3>5. ASSUME NEW x \in Symbols
          PROVE  account'.free[x] + account'.locked[x]
                    = account.free[x] + account.locked[x] - (IF x = s THEN k ELSE 0)
      BY <1>0, <2>0, <3>1, <3>3
    <3>6. ASSUME NEW x \in Symbols
          PROVE  /\ Placing(x)' + Selling(x)' + Sold(x)' + Void(x)'
                       = Placing(x) + Selling(x) + Sold(x) + Void(x)
                 /\ account'.free[x] + account'.locked[x] + Sold(x)' + Bought(x)
                       = account.free[x] + account.locked[x] + Sold(x) + Bought(x)'
      BY <1>0, <2>0, <2>1, <3>4, <3>5
    <3>7. account'.cash + Spent' + Proceeds = account.cash + Spent + Proceeds'
      BY <1>0, <2>0, <2>1, <3>3, <3>4
    <3> QED
      BY <3>6, <3>7 DEF ComesOut
  <2>3. CASE side = "buy"
    <3> DEFINE f == [account.free EXCEPT ![s] = @ + k]
    <3>1. \A x \in Symbols : f[x] = account.free[x] + (IF x = s THEN k ELSE 0)
      BY <1>0, <2>0 DEF Accounts
    <3>2. account' = [account EXCEPT !.free = f, !.cash = @ + (q - k)]
      BY <1>1, <2>3
    <3> HIDE DEF f
    <3>3. account'.cash = account.cash + (q - k) /\ account'.free = f
          /\ account'.locked = account.locked
      BY <1>0, <3>2 DEF Accounts
    <3>4. /\ \A x \in Symbols :
               /\ Selling(x)' = Selling(x) /\ Sold(x)' = Sold(x) /\ Void(x)' = Void(x)
               /\ Bought(x)' = Bought(x) + (IF x = s THEN k ELSE 0)
          /\ Proceeds' = Proceeds /\ Spent' = Spent - (q - k)
      <4>1. CASE st = "filled"
        BY <1>0, <1>2, <1>3, <2>1, <2>3, <4>1 DEF BooksMove, Counted
      <4>2. CASE st = "canceled"
        BY <1>0, <1>2, <1>3, <2>1, <2>3, <4>2 DEF BooksMove, Counted
      <4> QED
        BY <4>1, <4>2
    <3>5. ASSUME NEW x \in Symbols
          PROVE  account'.free[x] + account'.locked[x] + Sold(x)' + Bought(x)
                       = account.free[x] + account.locked[x] + Sold(x) + Bought(x)'
      <4>1. account'.free[x] = account.free[x] + (IF x = s THEN k ELSE 0)
            /\ account'.locked[x] = account.locked[x] /\ Sold(x)' = Sold(x)
            /\ Bought(x)' = Bought(x) + (IF x = s THEN k ELSE 0)
        BY <3>1, <3>3, <3>4
      <4>2. (IF x = s THEN k ELSE 0) \in Nat
        BY <1>0
      <4> QED
        BY <2>0, <2>1, <4>1, <4>2
    <3>6. account'.cash + Spent' + Proceeds = account.cash + Spent + Proceeds'
      BY <1>0, <2>0, <2>1, <3>3, <3>4
    <3> QED
      BY <2>1, <3>4, <3>5, <3>6 DEF ComesOut
  <2> QED
    BY <1>0, <2>2, <2>3
<1> QED
  BY <1>0, <1>1, <1>3, StatusKeepsCalm DEF s, q, side

LEMMA QuietStepKeepsCalm ==
    ASSUME CalmShape, Ledger,
           UNCHANGED <<run, available, reserved, cashUsd, orders, account, read>>
    PROVE  CalmShape' /\ Ledger'
<1>1. Awaited' = Awaited
  BY DEF Awaited
<1>2. \A side, stages : Book(side, stages)' = Book(side, stages)
  BY <1>1 DEF Book, Stage
<1>3. \A s, side, stages : BookOf(s, side, stages)' = BookOf(s, side, stages)
  BY <1>2 DEF BookOf
<1>4. /\ \A side, stages : Quantity(Book(side, stages))' = Quantity(Book(side, stages))
      /\ \A s, side, stages : Quantity(BookOf(s, side, stages))' = Quantity(BookOf(s, side, stages))
  BY <1>2, <1>3 DEF Quantity
<1>5. Ledger'
  BY <1>4 DEF Ledger, ReservedIsAwaited, HoldingsAgree, CashAgrees, Placing, Selling, Sold, Void,
              Bought, Proceeds, Spent
<1>6. CalmShape'
  BY <1>1 DEF CalmShape, OneRunEach, OpenAwaited, FillsWhole, NoStops
<1> QED
  BY <1>5, <1>6

LEMMA MovesKeepCalm ==
    ASSUME Features = {}, TInv, CalmShape, Ledger, NEW r \in Runs,
           StartRun(r) \/ Fetched(r) \/ Aborted(r) \/ NothingPlaced(r) \/ ReturnedFilled(r)
    PROVE  CalmShape' /\ Ledger'
<1>0. TypeOK /\ Waits(r) /\ run[r].pc \notin {"trail", "trailWait"}
  BY DEF TInv, CalmShape, NoStops
<1>1. UNCHANGED <<available, reserved, cashUsd, orders, account, read>>
  BY DEF StartRun, Fetched, Aborted, NothingPlaced, ReturnedFilled, inventory, exchange
<1>2. CASE ReturnedFilled(r)
  <2>1. Goto(r, "fees") /\ "fees" \in Pcs /\ run[r].pc = "wait"
    BY <1>2 DEF ReturnedFilled, Pcs, InFlight, At
  <2>2. /\ OthersStay(r) /\ run' \in [Runs -> RunStates]
        /\ run'[r].pc = "fees" /\ run'[r].ord = run[r].ord
    BY <1>0, <2>1, GotoMoves
  <2> QED
    BY <1>1, <2>1, <2>2, MovingKeepsCalm DEF InFlight
<1>3. CASE StartRun(r) \/ Aborted(r)
  <2>1. [Idle EXCEPT !.pc = "fetch", !.todo = SymbolSeq] \in RunStates
    BY LoopsAssumption DEF Idle, RunStates, Pcs
  <2>2. \E x \in RunStates : x.pc \in {"idle", "fetch"} /\ run' = [run EXCEPT ![r] = x]
    <3>1. [Idle EXCEPT !.pc = "fetch", !.todo = SymbolSeq].pc = "fetch" /\ Idle.pc = "idle"
      BY DEF Idle
    <3> QED
      BY <1>3, <2>1, <3>1, IdleType DEF StartRun, Aborted
  <2>3. OthersStay(r) /\ run' \in [Runs -> RunStates] /\ run'[r].pc \in {"idle", "fetch"}
    BY <1>0, <2>2, RunMoves
  <2>4. run[r].pc \notin InFlight
    BY <1>3 DEF StartRun, Aborted, At, InFlight
  <2> QED
    BY <1>1, <2>3, <2>4, MovingKeepsCalm DEF InFlight
<1>4. CASE Fetched(r) \/ NothingPlaced(r)
  <2>1. (NextSymbol(r) \/ Goto(r, "decide")) /\ run[r].todo # << >> /\ run[r].pc \notin InFlight
    BY <1>0, <1>4 DEF Fetched, NothingPlaced, At, Waits, InFlight
  <2>2. OthersStay(r) /\ run' \in [Runs -> RunStates] /\ run'[r].pc \in {"idle", "fetch", "decide"}
    <3>1. "decide" \in Pcs
      BY DEF Pcs
    <3> QED
      BY <1>0, <2>1, <3>1, NextSymbolMoves, GotoMoves
  <2> QED
    BY <1>1, <2>1, <2>2, MovingKeepsCalm DEF InFlight
<1> QED
  BY <1>2, <1>3, <1>4

LEMMA UnfilledReturnKeepsCalm ==
    ASSUME Features = {}, TInv, TypeOK', CalmShape, Ledger, NEW r \in Runs,
           Thrown(r) \/ ReturnedUnfilled(r)
    PROVE  CalmShape' /\ Ledger'
<1>1. run[r].pc \in InFlight /\ run[r].pc # "trailWait"
  BY DEF CalmShape, NoStops, Thrown, ReturnedUnfilled, At, InFlight
<1>2. /\ Release(r) /\ NextSymbol(r) /\ UNCHANGED <<orders, account, read>>
      /\ ord(r).st \in {"canceled", "rejected"}
  BY <1>1 DEF Thrown, ReturnedUnfilled, CallFails, Answered, At, exchange
<1>3. PICK o : o = run[r].ord
  OBVIOUS
<1> QED
  BY <1>1, <1>2, <1>3, UnfilledKeepsCalm DEF ord

LEMMA StepCalm == ASSUME Features = {} PROVE CalmInv /\ [Next]_vars => CalmInv'
<1> SUFFICES ASSUME CalmInv, [Next]_vars PROVE CalmInv'
  OBVIOUS
<1>0. TInv /\ CalmShape /\ Ledger
  BY DEF CalmInv
<1>1. TInv' /\ TypeOK'
  <2>1. TInv'
    BY <1>0, StepTInv
  <2> QED
    BY <2>1 DEF TInv
<1> SUFFICES CalmShape' /\ Ledger'
  BY <1>1 DEF CalmInv
<1>2. ASSUME NEW r \in Runs, StartRun(r) \/ RunStep(r) PROVE CalmShape' /\ Ledger'
  <2>1. ~TrailSell(r) /\ ~TrailReturned(r)
    BY <1>0 DEF TrailSell, TrailReturned, CalmShape, NoStops, At
  <2>2. CASE StartRun(r) \/ Fetched(r) \/ Aborted(r) \/ NothingPlaced(r) \/ ReturnedFilled(r)
    BY <1>0, <2>2, MovesKeepCalm
  <2>3. CASE Thrown(r) \/ ReturnedUnfilled(r)
    BY <1>0, <1>1, <2>3, UnfilledReturnKeepsCalm
  <2>4. CASE Sell(r) \/ Buy(r) \/ Settle(r)
    BY <1>0, <1>1, <2>4, SellKeepsCalm, BuyKeepsCalm, SettleKeepsCalm
  <2> QED
    BY <1>2, <2>1, <2>2, <2>3, <2>4 DEF RunStep
<1>3. ASSUME NEW o \in DOMAIN orders, ExchangeStep(o) PROVE CalmShape' /\ Ledger'
  <2>1. CASE Fill(o)
    <3>1. End(o, "filled", orders[o].qty)
      BY <2>1 DEF Fill
    <3> QED
      BY <1>0, <1>1, <3>1, EndKeepsCalm
  <2>2. CASE Cancel(o)
    <3>1. End(o, "canceled", 0)
      BY <2>2 DEF Cancel
    <3> QED
      BY <1>0, <1>1, <3>1, EndKeepsCalm
  <2> QED
    BY <1>0, <1>1, <1>3, <2>1, <2>2, AcceptKeepsCalm, RejectKeepsCalm DEF ExchangeStep
<1>4. CASE OutsideStep
  <2>1. ~ResyncRead /\ ~ResyncApply
    <3>1. INV!NoRead.pending = FALSE
      BY DEF INV!NoRead
    <3> QED
      BY <1>0, <3>1, Zenon DEF ResyncRead, ResyncApply, INV!resyncApply, CalmShape
  <2>2. UNCHANGED <<run, available, reserved, cashUsd, orders, account, read>>
    BY <1>4, <2>1 DEF OutsideStep, CooldownEnds, OperatorTrigger, OperatorReset, inventory, exchange
  <2> QED
    BY <1>0, <2>2, QuietStepKeepsCalm
<1>5. CASE UNCHANGED vars
  <2>1. UNCHANGED <<run, available, reserved, cashUsd, orders, account, read>>
    BY <1>5 DEF vars, inventory, exchange
  <2> QED
    BY <1>0, <2>1, QuietStepKeepsCalm
<1> QED
  BY <1>2, <1>3, <1>4, <1>5, NextIs

LEMMA InitCalm == Init => CalmInv
<1> SUFFICES ASSUME Init PROVE CalmInv
  OBVIOUS
<1>1. /\ run = [r \in Runs |-> Idle] /\ orders = << >> /\ read = INV!NoRead
      /\ available = InitQty /\ reserved = [s \in Symbols |-> 0] /\ cashUsd = InitCash
      /\ account = [free |-> InitQty, locked |-> [s \in Symbols |-> 0], cash |-> InitCash]
  BY DEF Init
<1>2. InitQty \in [Symbols -> Nat] /\ InitCash \in Nat
  BY LoopsAssumption
<1>3. CalmShape
  BY <1>1 DEF CalmShape, OneRunEach, OpenAwaited, FillsWhole, NoStops, Idle, InFlight
<1>4. /\ \A side, stages : Quantity(Book(side, stages)) = 0
      /\ \A s, side, stages : Quantity(BookOf(s, side, stages)) = 0
  <2>1. /\ \A side, stages : Book(side, stages) = {}
        /\ \A s, side, stages : BookOf(s, side, stages) = {}
    BY <1>1 DEF Book, BookOf
  <2> QED
    BY <2>1, TotalOfNone DEF Quantity
<1>5. Ledger
  BY <1>1, <1>2, <1>4 DEF Ledger, ReservedIsAwaited, HoldingsAgree, CashAgrees, Placing, Selling,
                          Sold, Void, Bought, Proceeds, Spent
<1> QED
  BY <1>3, <1>5, InitTInv DEF CalmInv

(* Without stops, partial fills, timeouts, late answers and re-syncs the   *)
(* bot's books and the exchange's account never drift: what is reserved is *)
(* what awaited sells are for, and holdings and cash differ from the       *)
(* account's by exactly the fills that are not confirmed yet.              *)
THEOREM LedgerKept == ASSUME Features = {} PROVE Spec => []CalmInv
<1>1. Init => CalmInv
  BY InitCalm
<1>2. CalmInv /\ [Next]_vars => CalmInv'
  BY StepCalm
<1> QED
  BY <1>1, <1>2, PTL DEF Spec

(* Nothing is in a book when nothing is awaited.                           *)
LEMMA QuietBooks ==
    ASSUME Quiet
    PROVE  /\ \A side, stages : "over" \notin stages => Quantity(Book(side, stages)) = 0
           /\ \A s, side, stages : "over" \notin stages => Quantity(BookOf(s, side, stages)) = 0
           /\ \A s, side : Quantity(OrdersOf(s, side, "live")) = 0
<1>1. Awaited = {}
  BY DEF Quiet, Awaited
<1>2. /\ \A side, stages : "over" \notin stages => Book(side, stages) = {}
      /\ \A s, side, stages : "over" \notin stages => BookOf(s, side, stages) = {}
  BY <1>1 DEF Book, BookOf, Stage
<1>3. \A s, side : OrdersOf(s, side, "live") = {}
  BY DEF Quiet, OrdersOf
<1> QED
  BY <1>2, <1>3, TotalOfNone DEF Quantity

LEMMA QuietSums ==
    ASSUME Quiet
    PROVE  /\ \A s \in Symbols : /\ Placing(s) = 0 /\ Selling(s) = 0 /\ Sold(s) = 0
                                 /\ Void(s) = 0 /\ Bought(s) = 0
           /\ Proceeds = 0 /\ Spent = 0
<1>1. /\ "over" \notin {"new"} /\ "over" \notin {"live"} /\ "over" \notin {"filled"}
      /\ "over" \notin {"canceled", "rejected"} /\ "over" \notin {"live", "filled"}
  OBVIOUS
<1> QED
  BY <1>1, QuietBooks DEF Placing, Selling, Sold, Void, Bought, Proceeds, Spent

LEMMA CalmBalances == CalmInv => BooksBalance
<1> SUFFICES ASSUME CalmInv, Quiet
             PROVE  available = account.free /\ reserved = account.locked /\ cashUsd = account.cash
  BY DEF BooksBalance
<1>1. TypeOK /\ Ledger
  BY DEF CalmInv, TInv
<1>2. /\ available \in [Symbols -> Nat] /\ reserved \in [Symbols -> Nat] /\ cashUsd \in Int
      /\ account.free \in [Symbols -> Nat] /\ account.locked \in [Symbols -> Nat]
      /\ account.cash \in Nat
  BY <1>1 DEF TypeOK, Accounts
<1>3. \A s \in Symbols : account.locked[s] = 0
  BY QuietBooks DEF CalmInv, TInv, LockedForSells
<1>4. \A s \in Symbols : reserved[s] = 0
  BY <1>1, QuietSums DEF Ledger, ReservedIsAwaited
<1>5. \A s \in Symbols : available[s] = account.free[s]
  <2> SUFFICES ASSUME NEW s \in Symbols PROVE available[s] = account.free[s]
    OBVIOUS
  <2>1. available[s] + reserved[s] + Bought(s) = account.free[s] + account.locked[s] + Sold(s)
    BY <1>1 DEF Ledger, HoldingsAgree
  <2>2. available[s] \in Nat /\ account.free[s] \in Nat
    BY <1>2
  <2> QED
    BY <1>3, <1>4, <2>1, <2>2, QuietSums
<1>6. cashUsd = account.cash
  BY <1>1, <1>2, QuietSums DEF Ledger, CashAgrees
<1> QED
  BY <1>2, <1>3, <1>4, <1>5, <1>6

(* What the program's features would disturb is the only thing that can:   *)
(* with none of them, whenever no run waits and the exchange is done, the  *)
(* inventory is the account, to the lot and the cent.                      *)
THEOREM BooksAlwaysBalance == ASSUME Features = {} PROVE Spec => []BooksBalance
  BY LedgerKept, CalmBalances, PTL

LEMMA CalmCovers == CalmInv => SellsCovered
<1> SUFFICES ASSUME CalmInv, NEW s \in Symbols
             PROVE  Quantity(OrdersOf(s, "sell", "new")) <= account.free[s]
  BY DEF SellsCovered
<1>1. TypeOK /\ Ledger /\ OpenAwaited
  BY DEF CalmInv, TInv, CalmShape
<1>2. /\ OrdersOf(s, "sell", "new") = BookOf(s, "sell", {"new"})
      /\ OrdersOf(s, "sell", "live") = BookOf(s, "sell", {"live"})
  BY <1>1 DEF OpenAwaited, OrdersOf, Book, BookOf, Stage
<1>3. account.locked[s] = Selling(s)
  BY <1>2 DEF CalmInv, TInv, LockedForSells, Selling
<1>4. /\ reserved[s] = Placing(s) + Selling(s) + Sold(s) + Void(s)
      /\ available[s] + reserved[s] + Bought(s) = account.free[s] + account.locked[s] + Sold(s)
  BY <1>1 DEF Ledger, ReservedIsAwaited, HoldingsAgree
<1>5. {Placing(s), Selling(s), Sold(s), Void(s), Bought(s)} \subseteq Nat
  <2>1. ASSUME NEW S, S \subseteq DOMAIN orders PROVE Quantity(S) \in Nat
    <3>1. orders \in Seq(AnOrder) /\ IsFiniteSet(S)
      BY <1>1, <2>1, ListFinite, FS_Subset DEF TypeOK
    <3>2. \A x \in S : Size[x] \in Nat
      BY <2>1, <3>1, OrderType DEF Size
    <3> QED
      BY <3>1, <3>2, UnitsFinite DEF Quantity, Size
  <2>2. \A side, stages : BookOf(s, side, stages) \subseteq DOMAIN orders
    BY DEF BookOf, Book
  <2> QED
    BY <2>1, <2>2 DEF Placing, Selling, Sold, Void, Bought
<1>6. available[s] \in Nat /\ account.free[s] \in Nat
  BY <1>1 DEF TypeOK, Accounts
<1>7. Placing(s) <= account.free[s]
  BY <1>3, <1>4, <1>5, <1>6
<1> QED
  BY <1>2, <1>7 DEF Placing

(* However many runs sell at once, the exchange can fill every one of the  *)
(* sells that have reached it and are not accepted yet.                    *)
THEOREM SellsAlwaysCovered == ASSUME Features = {} PROVE Spec => []SellsCovered
  BY LedgerKept, CalmCovers, PTL

-----------------------------------------------------------------------------
(* The snapshot.  A position that is its own moves as the holding does; one *)
(* that is the inventory's own object, which only a position held at       *)
(* start-up is, moves by each fill twice.                                  *)
LEMMA SnapshotStays ==
    ASSUME Follows, UNCHANGED <<position, shared>>,
           \A s \in Symbols : available'[s] + reserved'[s] = available[s] + reserved[s]
    PROVE  Follows'
  BY DEF Follows, Shows

(* One quantity: p is shown, h held and i was held at the start; q is      *)
(* bought or sold, and leaves k.                                           *)
LEMMA OwnMoves ==
    ASSUME NEW p \in Nat, NEW h \in Nat, NEW q \in Nat, NEW k \in Nat,
           NEW side \in {"buy", "sell"}, p <= h,
           side = "buy" => k = h + q, side = "sell" => k = h - q
    PROVE  AfterOrder(p, side, q) <= k /\ (p = h => AfterOrder(p, side, q) = k)
  BY DEF AfterOrder, INV!Smaller

ConfirmedTo(p, side, q) == IF side = "buy" THEN p + q ELSE INV!AtLeastZero(p - q)

LEMMA SharedMoves ==
    ASSUME NEW p \in Nat, NEW h \in Nat, NEW i \in Nat, NEW q \in Nat, NEW k \in Nat,
           NEW side \in {"buy", "sell"}, Doubled(p, h, i),
           side = "buy" => k = h + q, side = "sell" => k = h - q
    PROVE  AfterOrder(ConfirmedTo(p, side, q), side, q) # 0
               => Doubled(AfterOrder(ConfirmedTo(p, side, q), side, q), k, i)
<1>1. CASE side = "buy"
  BY <1>1 DEF AfterOrder, ConfirmedTo, Doubled
<1>2. CASE side = "sell"
  <2> DEFINE c == IF p - q < 0 THEN 0 ELSE p - q
             left == c - (IF c < q THEN c ELSE q)
  <2>1. AfterOrder(ConfirmedTo(p, side, q), side, q) = left
    BY <1>2 DEF AfterOrder, ConfirmedTo, INV!Smaller, INV!AtLeastZero
  <2>2. left # 0 => left = p - 2 * q
    OBVIOUS
  <2>3. k = h - q /\ p - i = 2 * (h - i)
    BY <1>2 DEF Doubled
  <2> HIDE DEF left
  <2>4. left # 0 => left - i = 2 * (k - i)
    BY <2>2, <2>3
  <2> QED
    BY <2>1, <2>4 DEF Doubled
<1> QED
  BY <1>1, <1>2

LEMMA SnapshotMoves ==
    ASSUME TypeOK, TypeOK', Follows, NEW s \in Symbols, NEW side \in {"buy", "sell"}, NEW q \in Nat,
           NEW confirmed \in BOOLEAN, applyOrderToSnapshot(s, side, q, confirmed),
           confirmed \/ q = 0,
           side = "buy" => available'[s] + reserved'[s] = available[s] + reserved[s] + q,
           side = "sell" => available'[s] + reserved'[s] = available[s] + reserved[s] - q,
           \A x \in Symbols \ {s} : available'[x] = available[x] /\ reserved'[x] = reserved[x]
    PROVE  Follows'
<1> DEFINE now == IF confirmed THEN Confirmed(s, side, q) ELSE position[s]
           left == AfterOrder(now, side, q)
           h == available[s] + reserved[s]
           k == available'[s] + reserved'[s]
<1>0. /\ position[s] \in Nat /\ available[s] \in Nat /\ reserved[s] \in Nat
      /\ available'[s] \in Nat /\ reserved'[s] \in Nat /\ position \in [Symbols -> Nat]
  BY DEF TypeOK
<1>1. /\ position[s] \in Nat /\ h \in Nat /\ k \in Nat /\ InitQty[s] \in Nat
      /\ position \in [Symbols -> Nat]
  <2>1. InitQty[s] \in Nat
    BY LoopsAssumption
  <2> QED
    BY <1>0, <2>1
<1>2. /\ position' = [position EXCEPT ![s] = left]
      /\ shared' = IF left = 0 THEN shared \ {s} ELSE shared
  BY DEF applyOrderToSnapshot
<1>3. Shows(s)
  BY DEF Follows
<1>4. /\ side = "buy" => k = h + q
      /\ side = "sell" => k = h - q
  BY <1>0
<1>5. Shows(s)'
  <2>1. CASE s \notin shared
    <3>1. now = position[s]
      BY <2>1 DEF Confirmed
    <3>2. position[s] <= h /\ (InitQty[s] = 0 => position[s] = h)
      BY <1>3, <2>1 DEF Shows
    <3>3. left <= k /\ (position[s] = h => left = k)
      <4> HIDE DEF h, k
      <4>1. /\ AfterOrder(position[s], side, q) <= k
            /\ position[s] = h => AfterOrder(position[s], side, q) = k
        BY <1>1, <1>4, <3>2, OwnMoves
      <4> QED
        BY <3>1, <4>1
    <3> HIDE DEF left
    <3>4. position'[s] = left /\ s \notin shared'
      BY <1>1, <1>2, <2>1
    <3> QED
      BY <3>2, <3>3, <3>4 DEF Shows
  <2>2. CASE s \in shared
    <3>1. now = ConfirmedTo(position[s], side, q)
      <4>1. CASE confirmed
        BY <2>2, <4>1 DEF Confirmed, ConfirmedTo
      <4>2. CASE ~confirmed
        BY <1>1, <4>2 DEF ConfirmedTo, INV!AtLeastZero
      <4> QED
        BY <4>1, <4>2
    <3>2. Doubled(position[s], h, InitQty[s]) /\ InitQty[s] # 0
      BY <1>3, <2>2 DEF Shows
    <3>3. left # 0 => Doubled(left, k, InitQty[s])
      <4> HIDE DEF h, k
      <4>1. AfterOrder(ConfirmedTo(position[s], side, q), side, q) # 0
               => Doubled(AfterOrder(ConfirmedTo(position[s], side, q), side, q), k, InitQty[s])
        <5>1. /\ position[s] \in Nat /\ h \in Nat /\ InitQty[s] \in Nat /\ k \in Nat
              /\ Doubled(position[s], h, InitQty[s])
          BY <1>1, <3>2
        <5> QED
          BY <1>4, <5>1, SharedMoves
      <4> QED
        BY <3>1, <4>1
    <3> HIDE DEF left
    <3>4. /\ position'[s] = left
          /\ left = 0 => s \notin shared'
          /\ left # 0 => s \in shared'
      BY <1>1, <1>2, <2>2
    <3> QED
      BY <1>1, <3>2, <3>3, <3>4 DEF Shows
  <2> QED
    BY <2>1, <2>2
<1>6. ASSUME NEW x \in Symbols, x # s PROVE Shows(x)'
  <2> HIDE DEF left
  <2>1. Shows(x)
    BY DEF Follows
  <2>2. position'[x] = position[x] /\ (x \in shared' <=> x \in shared)
    BY <1>1, <1>2, <1>6
  <2>3. available'[x] = available[x] /\ reserved'[x] = reserved[x]
    BY <1>6
  <2> QED
    BY <2>1, <2>2, <2>3 DEF Shows
<1> QED
  BY <1>5, <1>6 DEF Follows

LEMMA SettleFollows ==
    ASSUME CalmInv, CalmInv', Follows, NEW r \in Runs, Settle(r) PROVE Follows'
<1> DEFINE s == sym(r)
           q == ord(r).qty
           side == ord(r).side
<1>0. /\ TInv /\ CalmShape /\ Ledger /\ TypeOK /\ TypeOK'
      /\ run[r].pc = "fees" /\ run[r].pc \in InFlight
  BY DEF CalmInv, TInv, Settle, InFlight, At
<1>1. /\ s \in Symbols /\ q \in Nat /\ side \in {"buy", "sell"} /\ ord(r).filled = q
      /\ side = "sell" => q <= reserved[s]
  BY <1>0, WaitsFor, FilledWhole, SettleKeepsCalm
<1>2. /\ \/ side = "sell" /\ INV!creditSell(s, q, 1, 0)
         \/ side = "buy" /\ INV!debitBuy(s, q, 1, 0)
      /\ applyOrderToSnapshot(s, side, q, TRUE)
  BY <1>1 DEF Settle, confirmFill
<1> HIDE DEF s, q, side
<1>3. available[s] \in Nat /\ reserved[s] \in Nat
  BY <1>0, <1>1 DEF TypeOK
<1>4. /\ side = "buy" => available'[s] + reserved'[s] = available[s] + reserved[s] + q
      /\ side = "sell" => available'[s] + reserved'[s] = available[s] + reserved[s] - q
      /\ \A x \in Symbols \ {s} : available'[x] = available[x] /\ reserved'[x] = reserved[x]
  <2>1. CASE side = "sell" /\ INV!creditSell(s, q, 1, 0)
    <3>1. /\ reserved'[s] = reserved[s] - q /\ available'[s] = available[s]
          /\ \A x \in Symbols \ {s} : available'[x] = available[x] /\ reserved'[x] = reserved[x]
      BY <1>0, <1>1, <2>1, SellConfirmed
    <3> QED
      BY <1>1, <1>3, <2>1, <3>1
  <2>2. CASE side = "buy" /\ INV!debitBuy(s, q, 1, 0)
    <3>1. /\ available'[s] = available[s] + q /\ reserved' = reserved
          /\ \A x \in Symbols \ {s} : available'[x] = available[x]
      BY <1>0, <1>1, <2>2, BuyConfirmed
    <3> QED
      BY <1>1, <1>3, <2>2, <3>1
  <2> QED
    BY <1>2, <2>1, <2>2
<1> QED
  BY <1>0, <1>1, <1>2, <1>4, SnapshotMoves

LEMMA UnfilledFollows ==
    ASSUME Features = {}, CalmInv, TypeOK', Follows, NEW r \in Runs, Thrown(r) \/ ReturnedUnfilled(r)
    PROVE  Follows'
<1>0. /\ TInv /\ CalmShape /\ TypeOK
  BY DEF CalmInv, TInv
<1>1. run[r].pc \in InFlight /\ run[r].pc # "trailWait"
  BY <1>0 DEF CalmShape, NoStops, Thrown, ReturnedUnfilled, At, InFlight
<1>2. /\ sym(r) \in Symbols /\ ord(r).side \in {"buy", "sell"} /\ run[r].ord \in DOMAIN orders
      /\ available[sym(r)] \in Nat /\ reserved[sym(r)] \in Nat
  BY <1>0, <1>1, WaitsFor DEF TypeOK
<1>3. Release(r)
  BY <1>1 DEF Thrown, ReturnedUnfilled, At
<1>4. /\ available'[sym(r)] + reserved'[sym(r)] = available[sym(r)] + reserved[sym(r)]
      /\ \A x \in Symbols \ {sym(r)} : available'[x] = available[x] /\ reserved'[x] = reserved[x]
  BY <1>0, <1>2, <1>3, ReleaseMoves
<1>5. CASE Thrown(r)
  <2>1. UNCHANGED <<position, shared>>
    BY <1>5 DEF Thrown, snapshot
  <2>2. \A x \in Symbols : available'[x] + reserved'[x] = available[x] + reserved[x]
    BY <1>4
  <2> QED
    BY <2>1, <2>2, SnapshotStays
<1>6. CASE ReturnedUnfilled(r)
  <2>1. ord(r).st # "filled" /\ applyOrderToSnapshot(sym(r), ord(r).side, ord(r).filled, FALSE)
    BY <1>6 DEF ReturnedUnfilled
  <2>2. ord(r).filled = 0
    BY <1>0, <1>2, <2>1 DEF CalmShape, FillsWhole, ord
  <2>3. /\ available'[sym(r)] + reserved'[sym(r)] = available[sym(r)] + reserved[sym(r)] + 0
        /\ available'[sym(r)] + reserved'[sym(r)] = available[sym(r)] + reserved[sym(r)] - 0
    BY <1>2, <1>4
  <2>4. applyOrderToSnapshot(sym(r), ord(r).side, 0, FALSE) /\ 0 \in Nat /\ FALSE \in BOOLEAN
    BY <2>1, <2>2
  <2> DEFINE s == sym(r)
             side == ord(r).side
  <2> HIDE DEF s, side
  <2>5. /\ s \in Symbols /\ side \in {"buy", "sell"} /\ applyOrderToSnapshot(s, side, 0, FALSE)
        /\ available'[s] + reserved'[s] = available[s] + reserved[s] + 0
        /\ available'[s] + reserved'[s] = available[s] + reserved[s] - 0
        /\ \A x \in Symbols \ {s} : available'[x] = available[x] /\ reserved'[x] = reserved[x]
    BY <1>2, <1>4, <2>3, <2>4 DEF s, side
  <2> QED
    BY <1>0, <2>4, <2>5, SnapshotMoves
<1> QED
  BY <1>5, <1>6

LEMMA StepFollows ==
    ASSUME Features = {}
    PROVE  CalmInv /\ CalmInv' /\ Follows /\ [Next]_vars => Follows'
<1> SUFFICES ASSUME CalmInv, CalmInv', Follows, [Next]_vars PROVE Follows'
  OBVIOUS
<1>0. TInv /\ TypeOK /\ TypeOK' /\ CalmShape
  BY DEF CalmInv, TInv
<1>1. ASSUME NEW r \in Runs, StartRun(r) \/ RunStep(r) PROVE Follows'
  <2>1. ~TrailSell(r) /\ ~TrailReturned(r)
    BY <1>0 DEF TrailSell, TrailReturned, CalmShape, NoStops, At
  <2>2. CASE StartRun(r) \/ Fetched(r) \/ Aborted(r) \/ NothingPlaced(r) \/ ReturnedFilled(r) \/ Buy(r)
    <3>1. UNCHANGED <<position, shared, available, reserved>>
      BY <2>2 DEF StartRun, Fetched, Aborted, NothingPlaced, ReturnedFilled, Buy, inventory, snapshot
    <3> QED
      BY <3>1, SnapshotStays
  <2>3. CASE Sell(r)
    <3> DEFINE s == sym(r)
               q == SellQty(s)
               c == INV!clampSellQty(s, q)
    <3>1. /\ INV!reserve(s, c) /\ UNCHANGED <<position, shared>>
          /\ run[r].pc = "decide" /\ Waits(r)
      BY <1>0, <2>3 DEF Sell, snapshot, At, TInv
    <3>2. s \in Symbols /\ q \in Nat
      BY <1>0, <3>1, SymType, SellQtyType DEF Waits, At
    <3>3. c \in Nat /\ c <= available[s] /\ \A x \in Symbols : available[x] \in Nat /\ reserved[x] \in Nat
      <4> HIDE DEF s, q
      <4> QED
        BY <1>0, <3>2, Clamped DEF TypeOK
    <3> HIDE DEF s, q, c
    <3>4. /\ available'[s] = available[s] - c /\ reserved'[s] = reserved[s] + c
          /\ \A x \in Symbols \ {s} : available'[x] = available[x] /\ reserved'[x] = reserved[x]
      BY <1>0, <3>1, <3>2, <3>3, Reserved
    <3>5. \A x \in Symbols : available'[x] + reserved'[x] = available[x] + reserved[x]
      BY <3>2, <3>3, <3>4
    <3> QED
      BY <3>1, <3>5, SnapshotStays
  <2> QED
    BY <1>0, <1>1, <2>1, <2>2, <2>3, UnfilledFollows, SettleFollows DEF RunStep
<1>2. ASSUME NEW o \in DOMAIN orders, ExchangeStep(o) PROVE Follows'
  <2>1. UNCHANGED <<position, shared, available, reserved>>
    BY <1>2 DEF ExchangeStep, Accept, Reject, Fill, Cancel, End, Client, inventory, snapshot
  <2> QED
    BY <2>1, SnapshotStays
<1>3. CASE OutsideStep
  <2>1. ~ResyncApply
    <3>1. INV!NoRead.pending = FALSE
      BY DEF INV!NoRead
    <3> QED
      BY <1>0, <3>1, Zenon DEF ResyncApply, INV!resyncApply, CalmShape
  <2>2. UNCHANGED <<position, shared, available, reserved>>
    BY <1>3, <2>1 DEF OutsideStep, CooldownEnds, OperatorTrigger, OperatorReset, ResyncRead,
                      INV!resyncRead, INV!inventory, inventory, snapshot
  <2> QED
    BY <2>2, SnapshotStays
<1>4. CASE UNCHANGED vars
  <2>1. UNCHANGED <<position, shared, available, reserved>>
    BY <1>4 DEF vars, inventory, snapshot
  <2> QED
    BY <2>1, SnapshotStays
<1> QED
  BY <1>1, <1>2, <1>3, <1>4, NextIs

LEMMA FollowingHolds == CalmInv /\ Follows => SnapshotFollows
<1> SUFFICES ASSUME CalmInv, Follows, Quiet PROVE SnapshotFollows
  BY DEF SnapshotFollows
<1>1. available = account.free /\ reserved = account.locked
  BY CalmBalances DEF BooksBalance
<1> QED
  BY <1>1 DEF Follows, Shows, Doubled, SnapshotFollows

LEMMA InitFollows == Init => Follows
<1> SUFFICES ASSUME Init, NEW s \in Symbols PROVE Shows(s)
  BY DEF Follows
<1>1. InitQty[s] \in Nat
  BY LoopsAssumption
<1>2. /\ available[s] = InitQty[s] /\ reserved[s] = 0 /\ position[s] = InitQty[s]
      /\ s \in shared <=> InitQty[s] > 0
  BY DEF Init
<1> QED
  BY <1>1, <1>2 DEF Shows, Doubled

(* Whatever is held at start-up, what was flat then is shown as it is; a   *)
(* position that was held shows every fill since a second time, until that *)
(* makes it nothing, and never too much from then on.                      *)
THEOREM SnapshotShows == ASSUME Features = {} PROVE Spec => []SnapshotFollows
<1>1. Init => Follows
  BY InitFollows
<1>2. CalmInv /\ CalmInv' /\ Follows /\ [Next]_vars => Follows'
  BY StepFollows
<1>3. CalmInv /\ Follows => SnapshotFollows
  BY FollowingHolds
<1> QED
  BY <1>1, <1>2, <1>3, LedgerKept, PTL DEF Spec
===============================================================================
