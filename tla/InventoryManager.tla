--------------------------- MODULE InventoryManager ---------------------------
(***************************************************************************)
(* src/src/execution/inventoryManager.ts: per symbol the spendable amount  *)
(* (`available'), the amount set aside for sells (`reserved') and the      *)
(* recorded position, and the spendable cash.                              *)
(*                                                                         *)
(* Amounts are whole numbers of a lot, with the dust buffer a multiple of  *)
(* it.  The exchange's account is a variable of its own that moves freely. *)
(* Start-up hydrates before any loop runs; when that fails, trading stays  *)
(* blocked, and nothing here happens.  resync() awaits getBalances(): what *)
(* it read is kept in `read' until it is applied.  Several re-syncs may be *)
(* pending in the program; here the last one's reading stands for all.     *)
(***************************************************************************)
EXTENDS Integers

CONSTANTS
    Symbols,
    Dust,           \* BTC_DUST_BUFFER, in lots
    Lots,           \* amounts an order or a balance may have
    Prices,         \* fill prices, in cash units per lot
    Fees,
    Cash,           \* cash balances the account may show
    MaxHolding,     \* bound: a buy may take holding and position no higher
    MaxCash         \* bound: cash stays within -MaxCash .. MaxCash

ASSUME InventoryAssumption ==
    /\ {Dust, MaxHolding, MaxCash} \subseteq Nat
    /\ Lots \subseteq Nat /\ 0 \in Lots
    /\ Prices \subseteq Nat /\ Fees \subseteq Nat /\ Cash \subseteq Int

VARIABLES
    available, reserved, positions,     \* [Symbols -> Nat]
    cashUsd,
    hydrated,                           \* has hydrateFromExchange run?
    account,                            \* the exchange's account
    read                                \* a pending re-sync's balances

inventory == <<available, reserved, positions, cashUsd, hydrated>>
vars == <<inventory, account, read>>

(* At most one open sell order per symbol is on the book at start-up.      *)
Account == [free : [Symbols -> Lots], locked : [Symbols -> Lots],
            openSell : [Symbols -> Lots], cash : Cash]
NoRead == [pending |-> FALSE]
Reads == {NoRead} \union [pending : {TRUE}, bal : Account]

Smaller(a, b) == IF a < b THEN a ELSE b
AtLeastZero(n) == IF n < 0 THEN 0 ELSE n

Held(bal, s) == bal.free[s] + bal.locked[s]
getTotalHolding(s) == available[s] + reserved[s]

-----------------------------------------------------------------------------
(* The guard, the clamp and the reservation of one sell.                   *)
canSell_NoBuffer(s, q) == available[s] > Dust /\ q <= available[s]   \* mutant
canSell_TotalHolding(s, q) == q <= getTotalHolding(s) - Dust         \* mutant
canSell(s, q) == available[s] > Dust /\ q <= available[s] - Dust

clampSellQty(s, desired) == Smaller(desired, AtLeastZero(available[s] - Dust))

canReserve(s, q) == q <= available[s]

reserve(s, q) ==
    /\ available' = [available EXCEPT ![s] = @ - (IF canReserve(s, q) THEN q ELSE 0)]
    /\ reserved' = [reserved EXCEPT ![s] = @ + (IF canReserve(s, q) THEN q ELSE 0)]
    /\ UNCHANGED <<positions, cashUsd, hydrated>>

released(s, q) == Smaller(q, reserved[s])

releaseReservation(s, q) ==
    /\ reserved' = [reserved EXCEPT ![s] = @ - released(s, q)]
    /\ available' = [available EXCEPT ![s] = @ + released(s, q)]
    /\ UNCHANGED <<positions, cashUsd, hydrated>>

(* A sell fill beyond the reservation also comes off what is available.    *)
overSold_Ignored(s, q) == 0                                 \* mutant
overSold(s, q) == q - released(s, q)

creditSell(s, q, price, fee) ==
    /\ reserved' = [reserved EXCEPT ![s] = @ - released(s, q)]
    /\ available' = [available EXCEPT ![s] = AtLeastZero(@ - overSold(s, q))]
    /\ cashUsd' = cashUsd + (q * price - fee)

debitBuy(s, q, price, fee) ==
    /\ available' = [available EXCEPT ![s] = @ + q]
    /\ cashUsd' = cashUsd - (q * price + fee)
    /\ UNCHANGED reserved

confirmSell(s, q, price, fee) ==
    /\ creditSell(s, q, price, fee)
    /\ positions' = [positions EXCEPT ![s] = AtLeastZero(@ - q)]
    /\ UNCHANGED hydrated

confirmBuy(s, q, price, fee) ==
    /\ debitBuy(s, q, price, fee)
    /\ positions' = [positions EXCEPT ![s] = @ + q]
    /\ UNCHANGED hydrated

-----------------------------------------------------------------------------
(* hydrateFromExchange(): `priced' are the symbols whose ticker answered,  *)
(* `listed' those whose open orders did.  An open sell is reserved out of  *)
(* the free balance, although its amount already counts as locked.         *)
imported(bal, listed, s) ==
    IF s \in listed /\ bal.openSell[s] <= bal.free[s] THEN bal.openSell[s] ELSE 0

hydrateFromExchange(priced, listed) ==
    /\ ~hydrated
    /\ hydrated' = TRUE
    /\ cashUsd' = account.cash
    /\ available' = [s \in Symbols |-> account.free[s] - imported(account, listed, s)]
    /\ reserved' = [s \in Symbols |-> account.locked[s] + imported(account, listed, s)]
    /\ positions' = [s \in Symbols |-> IF s \in priced THEN Held(account, s) ELSE 0]
    /\ UNCHANGED <<account, read>>

resyncRead ==
    /\ read' = [pending |-> TRUE, bal |-> account]
    /\ UNCHANGED <<inventory, account>>

(* Only a total that differs is corrected; positions are left alone.       *)
drifted(bal, s) == getTotalHolding(s) # Held(bal, s)

resyncApply ==
    /\ read.pending
    /\ cashUsd' = read.bal.cash
    /\ available' = [s \in Symbols |->
            IF drifted(read.bal, s) THEN read.bal.free[s] ELSE available[s]]
    /\ reserved' = [s \in Symbols |->
            IF drifted(read.bal, s) THEN read.bal.locked[s] ELSE reserved[s]]
    /\ read' = NoRead
    /\ UNCHANGED <<positions, hydrated, account>>

-----------------------------------------------------------------------------
(* The exchange: an open sell's remaining quantity is what it locks.       *)
AccountOK(bal) == bal.locked = bal.openSell

accountMoves ==
    /\ account' \in {bal \in Account : AccountOK(bal)}
    /\ UNCHANGED <<inventory, read>>

Init ==
    /\ available = [s \in Symbols |-> 0]
    /\ reserved = [s \in Symbols |-> 0]
    /\ positions = [s \in Symbols |-> 0]
    /\ cashUsd = 0
    /\ hydrated = FALSE
    /\ account \in {bal \in Account : AccountOK(bal)}
    /\ read = NoRead

(* One call of a trading loop, with any amount that passes its own guard.  *)
Trade == \E s \in Symbols, q \in Lots :
    /\ hydrated
    /\ UNCHANGED <<account, read>>
    /\ \/ q > 0 /\ q = clampSellQty(s, q) /\ reserve(s, q)
       \/ releaseReservation(s, q)
       \/ \E price \in Prices, fee \in Fees :
            \/ cashUsd + q * price - fee \in -MaxCash..MaxCash /\ confirmSell(s, q, price, fee)
            \/ /\ getTotalHolding(s) + q <= MaxHolding
               /\ positions[s] + q <= MaxHolding
               /\ cashUsd - (q * price + fee) >= -MaxCash
               /\ confirmBuy(s, q, price, fee)

Next ==
    \/ \E priced, listed \in SUBSET Symbols : hydrateFromExchange(priced, listed)
    \/ Trade
    \/ hydrated /\ resyncRead
    \/ resyncApply
    \/ accountMoves

Spec == Init /\ [][Next]_vars

-----------------------------------------------------------------------------
TypeOK ==
    /\ available \in [Symbols -> Nat]
    /\ reserved \in [Symbols -> Nat]
    /\ positions \in [Symbols -> Nat]
    /\ cashUsd \in Int
    /\ hydrated \in BOOLEAN
    /\ account \in Account
    /\ read \in Reads

(* The loops ignore the result of reserve(): every amount the clamp lets   *)
(* through can be reserved, and an amount canSell allows is not clamped.   *)
GuardsAgree ==
    \A s \in Symbols, q \in Lots :
        /\ canReserve(s, clampSellQty(s, q))
        /\ canSell(s, q) => clampSellQty(s, q) = q

(* Reservations and releases never change what is held: seen from outside  *)
(* the manager is the ledger of HoldingsLedger.                            *)
Ledger == INSTANCE HoldingsLedger WITH
    holding <- [s \in Symbols |-> getTotalHolding(s)], cash <- cashUsd
ImplementsLedger == Ledger!Spec
=============================================================================
