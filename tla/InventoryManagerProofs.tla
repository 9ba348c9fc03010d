------------------------ MODULE InventoryManagerProofs ------------------------
(***************************************************************************)
(* For any symbols, amounts, prices and fees: the inventory's amounts stay *)
(* natural numbers, its sell guards agree with its reservations, and it    *)
(* implements the ledger.  TypeOK is inductive as it stands.               *)
(***************************************************************************)
EXTENDS InventoryManager, TLAPS

USE InventoryAssumption

(* An amount released is one that was reserved. *)
LEMMA ReleasedBound ==
    ASSUME TypeOK, NEW s \in Symbols, NEW q \in Lots
    PROVE  /\ released(s, q) \in Nat
           /\ released(s, q) <= reserved[s]
           /\ released(s, q) <= q
           /\ released(s, q) = q \/ released(s, q) = reserved[s]
  BY DEF TypeOK, released, Smaller

(* A non-negative difference of products of naturals stays an integer. *)
LEMMA ValueIsNat ==
    ASSUME NEW q \in Lots, NEW price \in Prices
    PROVE  q * price \in Nat
<1>1. q \in Nat /\ price \in Nat
  OBVIOUS
<1> HIDE InventoryAssumption
<1> QED
  BY <1>1

LEMMA ClampType ==
    ASSUME TypeOK, NEW s \in Symbols, NEW q \in Lots
    PROVE  clampSellQty(s, q) \in Nat /\ clampSellQty(s, q) <= available[s]
  BY DEF TypeOK, clampSellQty, Smaller, AtLeastZero

(* Whatever the state, a clamped amount can be reserved and an amount that *)
(* canSell allows is left as it is. *)
LEMMA GuardsAgreeInState == TypeOK => GuardsAgree
<1> SUFFICES ASSUME TypeOK, NEW s \in Symbols, NEW q \in Lots
             PROVE  /\ canReserve(s, clampSellQty(s, q))
                    /\ canSell(s, q) => clampSellQty(s, q) = q
  BY DEF GuardsAgree
<1>1. canReserve(s, clampSellQty(s, q))
  BY ClampType DEF canReserve
<1>2. canSell(s, q) => clampSellQty(s, q) = q
  BY DEF TypeOK, canSell, clampSellQty, Smaller, AtLeastZero
<1> QED
  BY <1>1, <1>2

LEMMA BalanceType ==
    ASSUME NEW bal \in Account, NEW s \in Symbols
    PROVE  /\ bal.free[s] \in Nat
           /\ bal.locked[s] \in Nat
           /\ bal.openSell[s] \in Nat
           /\ Held(bal, s) \in Nat
<1>1. /\ bal.free \in [Symbols -> Lots]
      /\ bal.locked \in [Symbols -> Lots]
      /\ bal.openSell \in [Symbols -> Lots]
  BY DEF Account
<1>2. bal.free[s] \in Lots /\ bal.locked[s] \in Lots /\ bal.openSell[s] \in Lots
  BY <1>1
<1>3. bal.free[s] \in Nat /\ bal.locked[s] \in Nat /\ bal.openSell[s] \in Nat
  BY <1>2
<1> QED
  BY <1>3 DEF Held

LEMMA CashType == ASSUME NEW bal \in Account PROVE bal.cash \in Int
  BY DEF Account

LEMMA PendingReadType ==
    ASSUME TypeOK, read.pending PROVE read.bal \in Account
<1>1. CASE read = NoRead
  BY <1>1 DEF NoRead
<1>2. CASE read \in [pending : {TRUE}, bal : Account]
  BY <1>2
<1> QED
  BY <1>1, <1>2 DEF TypeOK, Reads

LEMMA ImportedType ==
    ASSUME NEW bal \in Account, NEW s \in Symbols, NEW listed
    PROVE  /\ imported(bal, listed, s) \in Nat
           /\ imported(bal, listed, s) <= bal.free[s]
  BY BalanceType DEF imported

LEMMA InitType == Init => TypeOK
<1> SUFFICES ASSUME Init PROVE TypeOK
  OBVIOUS
<1>1. account \in Account /\ read \in Reads
  BY DEF Init, Reads
<1>2. /\ available \in [Symbols -> Nat]
      /\ reserved \in [Symbols -> Nat]
      /\ positions \in [Symbols -> Nat]
  BY DEF Init
<1>3. cashUsd \in Int
  BY DEF Init
<1>4. hydrated \in BOOLEAN
  BY ZenonT(20) DEF Init
<1> QED
  BY <1>1, <1>2, <1>3, <1>4 DEF TypeOK

LEMMA NextType == TypeOK /\ [Next]_vars => TypeOK'
<1> SUFFICES ASSUME TypeOK, [Next]_vars PROVE TypeOK'
  OBVIOUS
<1>1. ASSUME NEW priced \in SUBSET Symbols, NEW listed \in SUBSET Symbols,
             hydrateFromExchange(priced, listed)
      PROVE  TypeOK'
  <2>1. /\ available' \in [Symbols -> Nat]
        /\ reserved' \in [Symbols -> Nat]
        /\ positions' \in [Symbols -> Nat]
    <3>1. account \in Account
      BY DEF TypeOK
    <3> QED
      BY <1>1, <3>1, ImportedType, BalanceType DEF hydrateFromExchange
  <2> QED
    BY <1>1, <2>1, CashType DEF hydrateFromExchange, TypeOK
<1>2. ASSUME NEW s \in Symbols, NEW q \in Lots, Trade, UNCHANGED <<account, read>>,
             \/ reserve(s, q)
             \/ releaseReservation(s, q)
             \/ \E price \in Prices, fee \in Fees :
                  confirmSell(s, q, price, fee) \/ confirmBuy(s, q, price, fee)
      PROVE  TypeOK'
  <2>1. CASE reserve(s, q)
    BY <1>2, <2>1 DEF reserve, canReserve, TypeOK
  <2>2. CASE releaseReservation(s, q)
    BY <1>2, <2>2, ReleasedBound DEF releaseReservation, TypeOK
  <2>3. ASSUME NEW price \in Prices, NEW fee \in Fees, confirmSell(s, q, price, fee)
        PROVE  TypeOK'
    BY <1>2, <2>3, ReleasedBound, ValueIsNat
    DEF confirmSell, creditSell, overSold, AtLeastZero, TypeOK
  <2>4. ASSUME NEW price \in Prices, NEW fee \in Fees, confirmBuy(s, q, price, fee)
        PROVE  TypeOK'
    BY <1>2, <2>4, ValueIsNat DEF confirmBuy, debitBuy, TypeOK
  <2> QED
    BY <1>2, <2>1, <2>2, <2>3, <2>4
<1>3. CASE Trade
  BY <1>2, <1>3 DEF Trade
<1>4. CASE resyncRead
  BY <1>4 DEF resyncRead, TypeOK, Reads, inventory
<1>5. CASE resyncApply
  <2>1. read.bal \in Account
    BY <1>5, PendingReadType DEF resyncApply
  <2>2. available' \in [Symbols -> Nat] /\ reserved' \in [Symbols -> Nat]
    BY <1>5, <2>1, BalanceType DEF resyncApply, TypeOK
  <2>3. cashUsd' \in Int /\ read' \in Reads
    BY <1>5, <2>1, CashType DEF resyncApply, Reads
  <2> QED
    BY <1>5, <2>2, <2>3 DEF resyncApply, TypeOK
<1>6. CASE accountMoves
  BY <1>6 DEF accountMoves, TypeOK, inventory
<1>7. CASE UNCHANGED vars
  BY <1>7 DEF vars, inventory, TypeOK
<1> QED
  BY <1>1, <1>3, <1>4, <1>5, <1>6, <1>7 DEF Next

(* No sequence of calls, re-syncs and account movements makes an amount    *)
(* negative. *)
THEOREM InventoryTypeOK == Spec => []TypeOK
  BY InitType, NextType, PTL DEF Spec

(* The loops may ignore what reserve() returns. *)
THEOREM InventoryGuardsAgree == Spec => []GuardsAgree
  BY InventoryTypeOK, GuardsAgreeInState, PTL

-----------------------------------------------------------------------------
(* How each step moves the amount held. *)
LEMMA HeldByReserve ==
    ASSUME TypeOK, NEW s \in Symbols, NEW q \in Lots,
           reserve(s, q) \/ releaseReservation(s, q), NEW t \in Symbols
    PROVE  getTotalHolding(t)' = getTotalHolding(t)
  BY ReleasedBound
  DEF reserve, releaseReservation, canReserve, getTotalHolding, TypeOK

LEMMA HeldBySell ==
    ASSUME TypeOK, NEW s \in Symbols, NEW q \in Lots, NEW price, NEW fee,
           confirmSell(s, q, price, fee), NEW t \in Symbols
    PROVE  getTotalHolding(t)' =
             IF t = s THEN AtLeastZero(getTotalHolding(t) - q) ELSE getTotalHolding(t)
  BY ReleasedBound
  DEF confirmSell, creditSell, overSold, AtLeastZero, getTotalHolding, TypeOK

LEMMA HeldByBuy ==
    ASSUME TypeOK, NEW s \in Symbols, NEW q \in Lots, NEW price, NEW fee,
           confirmBuy(s, q, price, fee), NEW t \in Symbols
    PROVE  getTotalHolding(t)' =
             IF t = s THEN getTotalHolding(t) + q ELSE getTotalHolding(t)
  BY DEF confirmBuy, debitBuy, getTotalHolding, TypeOK

LEMMA HeldByLoad ==
    ASSUME TypeOK, NEW priced, NEW listed, hydrateFromExchange(priced, listed),
           NEW t \in Symbols
    PROVE  getTotalHolding(t)' = Held(account, t)
<1>1. account \in Account
  BY DEF TypeOK
<1> QED
  BY <1>1, ImportedType, BalanceType DEF hydrateFromExchange, getTotalHolding, Held

LEMMA HeldByResync ==
    ASSUME TypeOK, resyncApply, NEW t \in Symbols
    PROVE  getTotalHolding(t)' = Held(read.bal, t)
  BY DEF resyncApply, drifted, getTotalHolding, Held, TypeOK

LEMMA LedgerStep == TypeOK /\ [Next]_vars => [Ledger!Next]_(Ledger!vars)
<1> SUFFICES ASSUME TypeOK, Next PROVE [Ledger!Next]_(Ledger!vars)
  BY DEF vars, inventory, Ledger!vars, getTotalHolding
<1> DEFINE held == [s \in Symbols |-> getTotalHolding(s)]
<1>0. held' = [s \in Symbols |-> getTotalHolding(s)']
  OBVIOUS
<1>1. ASSUME NEW priced \in SUBSET Symbols, NEW listed \in SUBSET Symbols,
             hydrateFromExchange(priced, listed)
      PROVE  Ledger!Load
  <2>1. held' = [s \in Symbols |-> Held(account, s)]
    BY <1>0, <1>1, HeldByLoad
  <2> QED
    BY <1>1, <2>1 DEF hydrateFromExchange, Ledger!Load, Ledger!SetTo, Ledger!Held, Held
<1>2. ASSUME NEW s \in Symbols, NEW q \in Lots, UNCHANGED <<account, read>>,
             reserve(s, q) \/ releaseReservation(s, q)
      PROVE  UNCHANGED Ledger!vars
  <2>1. held' = held
    BY <1>0, <1>2, HeldByReserve
  <2> QED
    BY <1>2, <2>1 DEF reserve, releaseReservation, Ledger!vars
<1>3. ASSUME NEW s \in Symbols, NEW q \in Lots, UNCHANGED <<account, read>>,
             NEW price \in Prices, NEW fee \in Fees, confirmSell(s, q, price, fee)
      PROVE  Ledger!Sell
  <2>1. held' = [held EXCEPT ![s] = AtLeastZero(held[s] - q)]
    BY <1>0, <1>3, HeldBySell
  <2> QED
    BY <1>3, <2>1 DEF confirmSell, creditSell, Ledger!Sell, Ledger!AtLeastZero, AtLeastZero
<1>4. ASSUME NEW s \in Symbols, NEW q \in Lots, UNCHANGED <<account, read>>,
             NEW price \in Prices, NEW fee \in Fees, confirmBuy(s, q, price, fee)
      PROVE  Ledger!Buy
  <2>1. held' = [held EXCEPT ![s] = held[s] + q]
    BY <1>0, <1>4, HeldByBuy
  <2> QED
    BY <1>4, <2>1 DEF confirmBuy, debitBuy, Ledger!Buy
<1>5. CASE Trade
  <2>1. Trade => Ledger!Buy \/ Ledger!Sell \/ UNCHANGED Ledger!vars
    BY <1>2, <1>3, <1>4 DEF Trade
  <2> QED
    BY <1>5, <2>1 DEF Ledger!Next
<1>6. CASE resyncRead
  <2>1. held' = held
    BY <1>6 DEF resyncRead, inventory, getTotalHolding
  <2> QED
    BY <1>6, <2>1 DEF resyncRead, inventory, Ledger!Next, Ledger!Read
<1>7. CASE resyncApply
  <2>1. held' = [s \in Symbols |-> Held(read.bal, s)]
    BY <1>0, <1>7, HeldByResync
  <2> QED
    BY <1>7, <2>1 DEF resyncApply, Ledger!Next, Ledger!Correct, Ledger!SetTo,
                     Ledger!Held, Held, Ledger!NoRead, NoRead
<1>8. CASE accountMoves
  <2>1. held' = held
    BY <1>8 DEF accountMoves, inventory, getTotalHolding
  <2> QED
    BY <1>8, <2>1 DEF accountMoves, inventory, Ledger!Next, Ledger!AccountMoves
<1> QED
  BY <1>1, <1>5, <1>6, <1>7, <1>8 DEF Next, Ledger!Next

LEMMA LedgerInit == Init => Ledger!Init
  BY DEF Init, Ledger!Init, getTotalHolding, NoRead, Ledger!NoRead

(* The manager implements the ledger: reservations are invisible in what   *)
(* is held, fills move it by the filled amount, hydration and re-sync set  *)
(* it to the exchange's figures. *)
THEOREM InventoryImplementsLedger == Spec => ImplementsLedger
<1>1. Spec => []TypeOK
  BY InventoryTypeOK
<1> QED
  BY <1>1, LedgerInit, LedgerStep, PTL DEF Spec, ImplementsLedger, Ledger!Spec
=============================================================================
