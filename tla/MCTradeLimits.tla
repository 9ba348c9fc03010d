----------------------------- MODULE MCTradeLimits -----------------------------
(***************************************************************************)
(* TradeLimits with symbols of different prices and two overlapping runs.  *)
(***************************************************************************)
EXTENDS TradeLimits, TLC

CONSTANTS btc, eth, sol

MCPrice == [s \in Symbols |-> IF s = btc THEN 2 ELSE 1]

(* Runs are told apart by nothing, nor are the symbols of one price.       *)
MCSymmetry == Permutations(Runs) \union Permutations(Symbols \ {btc})
=============================================================================
