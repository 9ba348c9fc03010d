---------------------------- MODULE MCTradingLoops ----------------------------
(***************************************************************************)
(* TradingLoops with two overlapping runs.  Symbols share only the cash and *)
(* the kill switch: two orders must meet on the amounts of one symbol, and  *)
(* a run must go on to a second one.                                        *)
(***************************************************************************)
EXTENDS TradingLoops, TLC

CONSTANTS btc, eth

MCSeq2 == <<btc, eth>>
Held4 == [s \in Symbols |-> IF s = btc THEN 4 ELSE 0]
Held == [s \in Symbols |-> IF s = btc THEN 5 ELSE 0]

(* Runs are told apart by nothing: sound for the safety properties.         *)
RunSymmetry == Permutations(Runs)
=============================================================================
