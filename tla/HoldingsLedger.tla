---------------------------- MODULE HoldingsLedger ----------------------------
(***************************************************************************)
(* What the InventoryManager promises a reader who ignores reservations:   *)
(* one amount held per symbol and one amount of cash, changed by fills     *)
(* (never below zero), and set to the exchange's own figures by a          *)
(* hydration and by a re-sync.                                             *)
(***************************************************************************)
EXTENDS Integers

CONSTANTS Symbols, Lots, Prices, Fees

VARIABLES
    holding,    \* [Symbols -> Nat]
    cash,       \* Int
    account,    \* the exchange's account: [free, locked, openSell, cash]
    read        \* the balances a pending re-sync has read, or NoRead

vars == <<holding, cash, account, read>>

NoRead == [pending |-> FALSE]
Held(bal, s) == bal.free[s] + bal.locked[s]
AtLeastZero(n) == IF n < 0 THEN 0 ELSE n

(* Hydration and re-sync both end with the exchange's figures.             *)
SetTo(bal) ==
    /\ holding' = [s \in Symbols |-> Held(bal, s)]
    /\ cash' = bal.cash

Load == SetTo(account) /\ UNCHANGED <<account, read>>

Buy == \E s \in Symbols, q \in Lots, price \in Prices, fee \in Fees :
    /\ holding' = [holding EXCEPT ![s] = @ + q]
    /\ cash' = cash - (q * price + fee)
    /\ UNCHANGED <<account, read>>

Sell == \E s \in Symbols, q \in Lots, price \in Prices, fee \in Fees :
    /\ holding' = [holding EXCEPT ![s] = AtLeastZero(@ - q)]
    /\ cash' = cash + (q * price - fee)
    /\ UNCHANGED <<account, read>>

Read ==
    /\ read' = [pending |-> TRUE, bal |-> account]
    /\ UNCHANGED <<holding, cash, account>>

Correct ==
    /\ read.pending
    /\ SetTo(read.bal)
    /\ read' = NoRead
    /\ UNCHANGED account

AccountMoves == UNCHANGED <<holding, cash, read>>

Init ==
    /\ holding = [s \in Symbols |-> 0]
    /\ cash = 0
    /\ read = NoRead

Next == Load \/ Buy \/ Sell \/ Read \/ Correct \/ AccountMoves

Spec == Init /\ [][Next]_vars
=============================================================================
