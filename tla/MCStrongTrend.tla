---------------------------- MODULE MCStrongTrend -----------------------------
(***************************************************************************)
(* CompositeSignals alone: a falling market whose lower averages outweigh  *)
(* what else there is, in fear and out of it.                              *)
(***************************************************************************)
EXTENDS CompositeSignals

MCBases ==
    {[candles |-> 300, stack |-> -1, ema200 |-> -1, cross |-> 0, slope |-> -1, macd |-> 0, adx |-> 27,
      di |-> 1, band |-> 50, spike |-> 0, rsi |-> 50, stoch |-> 50, mfi |-> 50, cci |-> 0, vwap |-> 0,
      obv |-> 0, williams |-> 0, frames |-> 0, greed |-> Absent, atrSpike |-> 0, squeeze |-> 0]}
=============================================================================
