------------------------------- MODULE Startup -------------------------------
(***************************************************************************)
(* main(): from the environment over the secrets and the books of the      *)
(* exchange to the scheduled loops, with every await that may fail, and    *)
(* what stands between a started process and an order at the exchange.     *)
(* The process may stop anywhere and be started again.                     *)
(***************************************************************************)
EXTENDS Integers, FiniteSets

CONSTANTS
    Envs,           \* the environments a process may be started in
    MaxStarts, MaxOrders            \* bounds

VARIABLES
    env, phase, config,
    cached,         \* secrets that the provider remembers
    adapter,        \* "unavailable", "keyless", "real"
    held,           \* whose balances the books start from
    coinbaseAuth, runtimeBlock, sentiment,
    killRow, triggered, killFile,
    timers, busy,   \* scheduled tasks; a strategy run is under way
    starts, sent    \* orders of this process: how many went to the exchange

process == <<env, config, cached, adapter, held, coinbaseAuth, runtimeBlock, sentiment>>
switches == <<killRow, triggered, killFile>>
loops == <<timers, busy, sent>>
startupVars == <<phase, process, switches, loops, starts>>

parseBoolean(v, fallback) == IF v = "unset" THEN fallback ELSE v = "true"

mode_Live(raw) == IF raw.MODE # "unset" THEN raw.MODE ELSE "live"    \* mutant
mode(raw) ==
    IF raw.MODE # "unset" THEN raw.MODE
    ELSE IF parseBoolean(raw.PAPER_TRADING, TRUE) THEN "paper" ELSE "live"

configOf(raw) ==
    [mode |-> mode(raw), exchange |-> raw.EXCHANGE, provider |-> raw.SECRETS_PROVIDER,
     telegram |-> raw.TELEGRAM,
     allowLiveTrading |-> parseBoolean(raw.ALLOW_LIVE_TRADING, FALSE),
     killSwitch |-> parseBoolean(raw.KILL_SWITCH, TRUE), dryRun |-> parseBoolean(raw.DRY_RUN, FALSE)]

(* What getSecret() gives, its store being reachable or not.               *)
optional == [env |-> {"binance"}, op |-> {"binance", "bybit"}, aws |-> {}]
getSecret(id, up) ==
    IF config.provider # "env" /\ (up \/ (config.provider = "op" /\ id \in cached)) THEN "value"
    ELSE IF config.provider # "op" /\ env.inEnv THEN "value"
    ELSE IF id \in optional[config.provider] THEN "empty"
    ELSE "fails"
remembered(id, up) == IF up /\ config.provider = "op" THEN cached \union {id} ELSE cached

-----------------------------------------------------------------------------
Init ==
    /\ phase = "off" /\ starts = 0
    /\ env \in Envs /\ config = configOf(env)
    /\ cached = {} /\ adapter = "unavailable" /\ held = "nothing" /\ coinbaseAuth = FALSE
    /\ runtimeBlock = FALSE /\ sentiment = FALSE /\ triggered = FALSE
    /\ timers = {} /\ busy = FALSE /\ sent = 0
    /\ killRow = FALSE /\ killFile = FALSE

Start ==
    /\ phase = "off" /\ starts < MaxStarts
    /\ starts' = starts + 1 /\ phase' = "alerts"
    /\ env' \in Envs /\ config' = configOf(env')
    /\ UNCHANGED <<cached, adapter, held, coinbaseAuth, runtimeBlock, sentiment, switches, loops>>

(* A crash, or an error that main() does not catch.                        *)
Exit ==
    /\ phase # "off" /\ phase' = "off"
    /\ cached' = {} /\ adapter' = "unavailable" /\ held' = "nothing" /\ coinbaseAuth' = FALSE
    /\ runtimeBlock' = FALSE /\ sentiment' = FALSE /\ triggered' = FALSE
    /\ timers' = {} /\ busy' = FALSE /\ sent' = 0
    /\ UNCHANGED <<env, config, killRow, killFile, starts>>

AlertSecrets(up) ==
    /\ phase = "alerts"
    /\ config.telegram => getSecret("telegram", up) # "fails"
    /\ phase' = "exchange"
    /\ cached' = IF config.telegram THEN remembered("telegram", up) ELSE cached
    /\ UNCHANGED <<env, config, adapter, held, coinbaseAuth, runtimeBlock, sentiment, switches, loops, starts>>

(* Without its keys a live process ends, a paper one goes on without.      *)
Connect(up) ==
    /\ phase = "exchange"
    /\ LET key == getSecret(config.exchange, up)
       IN  /\ key = "fails" => config.mode = "paper"
           /\ adapter' = CASE key = "fails" -> "unavailable" [] key = "empty" -> "keyless" [] OTHER -> "real"
    /\ phase' = "stores" /\ cached' = remembered(config.exchange, up)
    /\ UNCHANGED <<env, config, held, coinbaseAuth, runtimeBlock, sentiment, switches, loops, starts>>

(* The kill switch is as it was left.                                      *)
OpenStores ==
    /\ phase = "stores" /\ phase' = "sentiment"
    /\ triggered' = killRow
    /\ UNCHANGED <<process, killRow, killFile, loops, starts>>

SentimentServices(up) ==
    /\ phase = "sentiment"
    /\ sentiment' = (getSecret("cryptopanic", up) # "fails")
    /\ cached' = remembered("cryptopanic", up)
    /\ phase' = IF config.mode = "live" THEN "hydrate" ELSE "schedule"
    /\ held' = IF config.mode = "live" THEN held ELSE "10000 USD"
    /\ UNCHANGED <<env, config, adapter, coinbaseAuth, runtimeBlock, switches, loops, starts>>

degrades_Logged == UNCHANGED runtimeBlock                   \* mutant
degrades == runtimeBlock' = TRUE
(* The sequence of a live start; whatever throws in it leads here.         *)
Degrade ==
    /\ phase \in {"hydrate", "resync", "auth"}
    /\ phase' = "schedule" /\ degrades
    /\ UNCHANGED <<env, config, cached, adapter, held, coinbaseAuth, sentiment, switches, loops, starts>>

(* Live Coinbase is only begun with 1Password.                             *)
onePasswordProviderSelected == config.provider = "op"
Hydrate ==
    /\ phase = "hydrate" /\ (config.exchange = "coinbase" => onePasswordProviderSelected)
    /\ adapter = "real"
    /\ phase' = "resync" /\ held' = "exchange"
    /\ UNCHANGED <<env, config, cached, adapter, coinbaseAuth, runtimeBlock, sentiment, switches, loops, starts>>

(* Differences are counted and stop nothing.                               *)
Resync ==
    /\ phase = "resync"
    /\ phase' = IF config.exchange = "coinbase" THEN "auth" ELSE "schedule"
    /\ UNCHANGED <<process, switches, loops, starts>>

(* The keys are fetched once more, and looked at for the first time.       *)
Auth(up) ==
    /\ phase = "auth" /\ getSecret("coinbase", up) = "value"
    /\ phase' = "schedule" /\ coinbaseAuth' = TRUE
    /\ cached' = remembered("coinbase", up)
    /\ UNCHANGED <<env, config, adapter, held, runtimeBlock, sentiment, switches, loops, starts>>

Schedule ==
    /\ phase = "schedule" /\ phase' = "serving"
    /\ timers' = {"market-data", "strategy", "health-report"}
           \union (IF config.mode = "live" THEN {"reconcile"} ELSE {})
           \union (IF coinbaseAuth THEN {"fill-reconcile"} ELSE {})
           \union (IF sentiment THEN {"sentiment"} ELSE {})
    /\ UNCHANGED <<process, switches, busy, sent, starts>>

(* SIGTERM stops the timers, not the run that is under way; a request then *)
(* being served sets the strategy's timer again.                           *)
Shutdown ==
    /\ phase = "serving" /\ phase' = "closing" /\ timers' = {}
    /\ UNCHANGED <<process, switches, busy, sent, starts>>
Reschedule ==
    /\ phase \in {"serving", "closing"} /\ timers' = timers \union {"strategy"}
    /\ UNCHANGED <<phase, process, switches, busy, sent, starts>>

-----------------------------------------------------------------------------
Trigger ==
    /\ phase \in {"serving", "closing"}
    /\ triggered' = TRUE /\ killRow' = TRUE
    /\ UNCHANGED <<phase, process, killFile, loops, starts>>
Reset ==
    /\ phase \in {"serving", "closing"}
    /\ triggered' = FALSE /\ killRow' = FALSE
    /\ UNCHANGED <<phase, process, killFile, loops, starts>>
TouchKill ==
    /\ \E b \in BOOLEAN : killFile' = b
    /\ UNCHANGED <<phase, process, killRow, triggered, loops, starts>>

StrategyRun ==
    /\ "strategy" \in timers /\ ~busy /\ busy' = TRUE
    /\ UNCHANGED <<phase, process, switches, timers, sent, starts>>

(* The first checks of the risk engine, submitSignal() and placeOrder(),   *)
(* from which no await parts the first request to the exchange (its        *)
(* retries are OrderRetries'); the paper broker keeps its orders.          *)
evaluate == config.mode = "live" => ~config.killSwitch /\ config.allowLiveTrading
submitSignal == ~runtimeBlock /\ ~config.dryRun /\ ~killFile /\ ~triggered
RunEnds ==
    /\ busy /\ busy' = FALSE
    /\ \/ UNCHANGED sent
       \/ /\ evaluate /\ submitSignal /\ config.mode = "live"
          /\ sent < MaxOrders /\ sent' = sent + 1
    /\ UNCHANGED <<phase, process, switches, timers, starts>>

Next ==
    \/ Start \/ Exit \/ OpenStores \/ Degrade \/ Hydrate \/ Resync \/ Schedule \/ Shutdown \/ Reschedule
    \/ \E up \in BOOLEAN : AlertSecrets(up) \/ Connect(up) \/ SentimentServices(up) \/ Auth(up)
    \/ Trigger \/ Reset \/ TouchKill \/ StrategyRun \/ RunEnds

Spec == Init /\ [][Next]_startupVars

-----------------------------------------------------------------------------
(* An order reaches the exchange only from a process that was told so by   *)
(* every word of its environment, whose books it has from the exchange,    *)
(* whose keys it read to the end, and past a kill switch that no restart   *)
(* has lifted.                                                             *)
Cleared ==
    sent' > sent =>
        /\ env.MODE = "live" \/ (env.MODE = "unset" /\ env.PAPER_TRADING \notin {"unset", "true"})
        /\ env.ALLOW_LIVE_TRADING = "true" /\ env.KILL_SWITCH \notin {"unset", "true"}
        /\ env.DRY_RUN # "true"
        /\ held = "exchange" /\ (config.exchange = "coinbase" => coinbaseAuth /\ config.provider = "op")
        /\ ~killRow /\ ~killFile
OrdersCleared == [][Cleared]_startupVars
=============================================================================
