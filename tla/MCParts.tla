------------------------------ MODULE MCParts -------------------------------
(***************************************************************************)
(* Small instances of Parts: the inputs of each part that are not plain    *)
(* values.                                                                 *)
(***************************************************************************)
EXTENDS Parts, TLC

AMarket(l, v, s, t, d) ==
    [liquidity |-> l, volatile |-> v, dry |-> FALSE, squeezed |-> s, trending |-> t, drift |-> d]
MCMarkets == {AMarket("low", FALSE, FALSE, TRUE, 1), AMarket("high", FALSE, FALSE, FALSE, 0),
              AMarket("low", FALSE, TRUE, FALSE, -1)}
MCOscillators == -1..1

MCCases == {P!Calm, [P!Calm EXCEPT !.drawdown = 2], [P!Calm EXCEPT !.move = 5, !.returns = 80]}

Quiet == [candles |-> 300, stack |-> 0, ema200 |-> 1, cross |-> 0, slope |-> 0, macd |-> 0, adx |-> 15,
          di |-> 1, band |-> 50, spike |-> 0, rsi |-> 50, stoch |-> 50, mfi |-> 50, cci |-> 0, vwap |-> 0,
          obv |-> 0, williams |-> 0, frames |-> 0, greed |-> -1, atrSpike |-> 0, squeeze |-> 0]
MCBases ==
    {[Quiet EXCEPT !.stack = 1, !.macd = 1, !.rsi = 62, !.adx = 27, !.slope = 1],
     [Quiet EXCEPT !.stack = -1, !.ema200 = -1, !.rsi = 38, !.adx = 35, !.di = -1, !.slope = -1, !.spike = 1],
     [Quiet EXCEPT !.stack = -1, !.ema200 = -1, !.adx = 35, !.di = -1, !.slope = 1, !.spike = 1, !.greed = 12],
     [Quiet EXCEPT !.rsi = 90, !.mfi = 90, !.cci = 350, !.stoch = 95, !.stack = 1, !.macd = 1]}

MCResults == {-2, 1}

MCInitial == [strategyIntervalMs |-> 2, pollIntervalMs |-> 1, limit |-> 1, strategy |-> "regime",
              killSwitch |-> FALSE]

MCDefaults == [console |-> [enabled |-> TRUE, minSeverity |-> "info", overrides |-> << >>],
               telegram |-> [enabled |-> FALSE, minSeverity |-> "critical", overrides |-> << >>]]

Raw == [MODE |-> "unset", PAPER_TRADING |-> "unset", EXCHANGE |-> "coinbase", SECRETS_PROVIDER |-> "op",
        TELEGRAM |-> FALSE, ALLOW_LIVE_TRADING |-> "true", KILL_SWITCH |-> "false", DRY_RUN |-> "unset",
        inEnv |-> TRUE]
MCEnvs ==
    {Raw, [Raw EXCEPT !.PAPER_TRADING = "false"], [Raw EXCEPT !.MODE = "live", !.TELEGRAM = TRUE],
     [Raw EXCEPT !.MODE = "live", !.SECRETS_PROVIDER = "env"],
     [Raw EXCEPT !.MODE = "live", !.EXCHANGE = "binance", !.SECRETS_PROVIDER = "env", !.inEnv = FALSE],
     [Raw EXCEPT !.MODE = "live", !.EXCHANGE = "bybit", !.SECRETS_PROVIDER = "aws"],
     [Raw EXCEPT !.MODE = "live", !.KILL_SWITCH = "unset"]}

MCKeys == <<"stopLossPct", "takeProfitPct">>
MCValues == [stopLossPct |-> <<2, 3>>, takeProfitPct |-> <<4, 6>>]

MCCloses == {-26, 0, 1, 2}

MCTexts == [kind : {"number"}, n : 1..2] \union [kind : {"address", "name", "eth"}, n : {0}]
=============================================================================
