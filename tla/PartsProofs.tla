---------------------------- MODULE PartsProofs ----------------------------
(***************************************************************************)
(* Proofs about the parts of Parts.  A behaviour of one part is one of its *)
(* module: its first state satisfies the part's Init, and each step takes  *)
(* the part's Next or leaves the part alone; what is inductive there is    *)
(* therefore inductive here, guarded by the name of the part.              *)
(***************************************************************************)
EXTENDS Parts, FiniteSetTheorems, SequenceTheorems, TLAPS

-----------------------------------------------------------------------------
(* Startup.                                                                *)

(* A behaviour of the start-up is one of Startup.                          *)
LEMMA StartupMoves ==
    [Next]_vars => part' = part /\ (part = "startup" => [U!Next]_startupVars)
  BY DEF Next, vars

(* Phases in which the kill switch has been read from its row.             *)
Read == {"sentiment", "hydrate", "resync", "auth", "schedule", "serving", "closing"}

(* What the steps of a live start have established when they went well.    *)
BooksRead == held = "exchange" /\ (settings.exchange = "coinbase" => settings.provider = "op")
Verified == BooksRead /\ (settings.exchange = "coinbase" => coinbaseAuth)

ConfigIsEnv == settings = U!configOf(env)
SwitchIsRow == stage \in Read => tripped = killRow
RunsServed == (timers # {} \/ busy) => stage \in {"serving", "closing"}
LiveIsVerified ==
    /\ stage \in {"resync", "auth"} => BooksRead
    /\ stage \in {"schedule", "serving", "closing"} /\ settings.mode = "live" /\ ~runtimeBlock => Verified

(* A run is only under way in a process that serves; there the switch is   *)
(* that of the row, and a live process has been verified or is blocked.    *)
StartupInv ==
    /\ sent \in Nat
    /\ ConfigIsEnv
    /\ SwitchIsRow
    /\ RunsServed
    /\ LiveIsVerified

LEMMA StartupInit == U!Init => StartupInv
  BY DEF U!Init, StartupInv, ConfigIsEnv, SwitchIsRow, RunsServed, LiveIsVerified, Read

(* What does not begin a process changes neither its settings nor its      *)
(* count of orders but in RunEnds and Exit.                                *)
LEMMA StartupStep == StartupInv /\ [U!Next]_startupVars => StartupInv'
<1> SUFFICES ASSUME StartupInv, [U!Next]_startupVars PROVE StartupInv'
    OBVIOUS
<1> USE DEF U!process, U!switches, U!loops, startupVars, StartupInv, ConfigIsEnv, SwitchIsRow, RunsServed, LiveIsVerified, BooksRead, Verified, Read
<1>1. CASE U!Start
  BY <1>1 DEF U!Start
<1>2. CASE U!Exit
  BY <1>2 DEF U!Exit
<1>3. CASE \E up \in BOOLEAN : U!AlertSecrets(up)
  BY <1>3 DEF U!AlertSecrets
<1>4. CASE \E up \in BOOLEAN : U!Connect(up)
  BY <1>4 DEF U!Connect
<1>5. CASE U!OpenStores
  BY <1>5 DEF U!OpenStores
<1>6. CASE \E up \in BOOLEAN : U!SentimentServices(up)
  <2>1. stage = "sentiment" /\ UNCHANGED <<env, settings, tripped, killRow, timers, busy, sent>>
    BY <1>6 DEF U!SentimentServices
  <2>2. stage' = "hydrate" \/ (stage' = "schedule" /\ settings.mode # "live")
    BY <1>6 DEF U!SentimentServices
  <2> QED
    BY <2>1, <2>2
<1>7. CASE U!Degrade
  BY <1>7 DEF U!Degrade, U!degrades
<1>8. CASE U!Hydrate
  BY <1>8 DEF U!Hydrate, U!onePasswordProviderSelected
<1>9. CASE U!Resync
  BY <1>9 DEF U!Resync
<1>10. CASE \E up \in BOOLEAN : U!Auth(up)
  BY <1>10 DEF U!Auth
<1>11. CASE U!Schedule
  <2>1. stage = "schedule" /\ stage' = "serving" /\ UNCHANGED <<U!process, U!switches, sent>>
    BY <1>11 DEF U!Schedule
  <2> QED
    BY <2>1
<1>12. CASE U!Shutdown \/ U!Reschedule
  BY <1>12 DEF U!Shutdown, U!Reschedule
<1>13. CASE U!Trigger \/ U!Reset \/ U!TouchKill
  <2>1. tripped' = killRow' \/ UNCHANGED <<tripped, killRow>>
    BY <1>13 DEF U!Trigger, U!Reset, U!TouchKill
  <2>2. UNCHANGED <<stage, U!process, timers, busy, sent>>
    BY <1>13 DEF U!Trigger, U!Reset, U!TouchKill
  <2> QED
    BY <2>1, <2>2
<1>14. CASE U!StrategyRun
  BY <1>14 DEF U!StrategyRun
<1>15. CASE U!RunEnds
  BY <1>15 DEF U!RunEnds
<1>16. CASE UNCHANGED startupVars
  BY <1>16
<1> QED
  BY <1>1, <1>2, <1>3, <1>4, <1>5, <1>6, <1>7, <1>8, <1>9, <1>10, <1>11, <1>12, <1>13, <1>14,
     <1>15, <1>16 DEF U!Next

(* Only the end of a run counts an order.                                  *)
LEMMA OnlyRunsSend == StartupInv /\ [U!Next]_startupVars /\ sent' > sent => U!RunEnds
<1> SUFFICES ASSUME StartupInv, [U!Next]_startupVars, sent' > sent, ~U!RunEnds PROVE FALSE
    OBVIOUS
<1> USE DEF U!process, U!switches, U!loops, startupVars
<1>1. sent \in Nat /\ sent' # sent /\ sent' # 0
  BY DEF StartupInv
<1>2. ASSUME NEW up \in BOOLEAN
      PROVE  ~(U!AlertSecrets(up) \/ U!Connect(up) \/ U!SentimentServices(up) \/ U!Auth(up))
  BY <1>1 DEF U!AlertSecrets, U!Connect, U!SentimentServices, U!Auth
<1>3. ~(U!Start \/ U!Exit \/ U!OpenStores \/ U!Degrade \/ U!Hydrate \/ U!Resync \/ U!Schedule \/ U!Shutdown \/ U!Reschedule)
  BY <1>1 DEF U!Start, U!Exit, U!OpenStores, U!Degrade, U!Hydrate, U!Resync, U!Schedule, U!Shutdown, U!Reschedule
<1>4. ~(U!Trigger \/ U!Reset \/ U!TouchKill \/ U!StrategyRun) /\ startupVars' # startupVars
  BY <1>1 DEF U!Trigger, U!Reset, U!TouchKill, U!StrategyRun
<1> QED
  BY <1>2, <1>3, <1>4 DEF U!Next

(* What the settings of a live process that may send say of its            *)
(* environment.                                                            *)
LEMMA EnvironmentAllows ==
    ConfigIsEnv /\ settings.mode = "live" /\ U!evaluate /\ U!submitSignal =>
        /\ env.MODE = "live" \/ (env.MODE = "unset" /\ env.PAPER_TRADING \notin {"unset", "true"})
        /\ env.ALLOW_LIVE_TRADING = "true" /\ env.KILL_SWITCH \notin {"unset", "true"}
        /\ env.DRY_RUN # "true"
<1> SUFFICES ASSUME ConfigIsEnv, settings.mode = "live", U!evaluate, U!submitSignal
             PROVE  /\ U!mode(env) = "live" /\ U!parseBoolean(env.ALLOW_LIVE_TRADING, FALSE)
                    /\ ~U!parseBoolean(env.KILL_SWITCH, TRUE) /\ ~U!parseBoolean(env.DRY_RUN, FALSE)
    BY DEF U!mode, U!parseBoolean
<1>1. /\ settings.mode = U!mode(env)
      /\ settings.allowLiveTrading = U!parseBoolean(env.ALLOW_LIVE_TRADING, FALSE)
      /\ settings.killSwitch = U!parseBoolean(env.KILL_SWITCH, TRUE)
      /\ settings.dryRun = U!parseBoolean(env.DRY_RUN, FALSE)
  BY DEF ConfigIsEnv, U!configOf
<1> QED
  BY <1>1 DEF U!evaluate, U!submitSignal

(* The kill switch in force is the one of the row whenever a run may send, *)
(* and no unverified live process is without its block: whatever throws in *)
(* the live start sets it (index.ts:381).                                  *)
THEOREM SwitchAndBlock == Spec => [](part = "startup" => StartupInv)
<1>1. Init => (part = "startup" => StartupInv)
  BY StartupInit DEF Init
<1>2. (part = "startup" => StartupInv) /\ [Next]_vars => (part = "startup" => StartupInv)'
  BY StartupStep, StartupMoves
<1> QED
  BY <1>1, <1>2, PTL DEF Spec

(* No order leaves a process that was not cleared for it: what main() sets *)
(* on its way, the risk engine and submitSignal() read (riskEngine.ts,     *)
(* orderManager.ts); see Cleared in Startup.                               *)
THEOREM ClearedAlways == Spec => OrdersCleared
<1>1. ASSUME StartupInv, [U!Next]_startupVars, sent' > sent PROVE U!Cleared
  <2> USE DEF U!process, U!switches, U!loops
  <2>1. U!RunEnds
    BY <1>1, OnlyRunsSend
  <2>2. busy /\ settings.mode = "live" /\ U!evaluate /\ U!submitSignal
    BY <1>1, <2>1 DEF U!RunEnds, StartupInv
  <2>3. stage \in {"serving", "closing"} /\ tripped = killRow /\ Verified
    BY <1>1, <2>2 DEF StartupInv, RunsServed, SwitchIsRow, LiveIsVerified, Read, U!submitSignal
  <2> QED
    BY <1>1, <2>2, <2>3, EnvironmentAllows DEF StartupInv, Verified, BooksRead, U!submitSignal, U!Cleared
<1>2. (part = "startup" => StartupInv) /\ [Next]_vars => [part = "startup" => U!Cleared]_vars
  BY <1>1, StartupMoves DEF U!Cleared
<1> QED
  BY <1>2, SwitchAndBlock, PTL DEF Spec, OrdersCleared

-----------------------------------------------------------------------------
(* TrailingStop, for every set of prices and ATRs and every threshold.     *)
(* What makes its properties inductive is what holds before the stop is    *)
(* active: no price since the entry was above both the entry price and the *)
(* activation threshold.                                                   *)

(* A behaviour of the trailing stop is one of TrailingStop.                *)
LEMMA TrailingMoves ==
    [Next]_vars => part' = part /\ (part = "trailing" => [K!Next]_trailingVars)
  BY DEF Next, vars

Threshold == Activation * trailed.entryPrice

Waiting ==
    ~trailed.activated =>
        /\ ~shouldExit
        /\ peak = trailed.entryPrice \/ 100 * (peak - trailed.entryPrice) < Threshold

Following ==
    trailed.activated =>
        /\ trailed.highestPrice = peak
        /\ trailed.currentStopPrice < 100 * trailed.highestPrice

Exiting == shouldExit => 100 * price <= trailed.currentStopPrice /\ trailed.activated

IsRecord == trailed = [entryPrice |-> trailed.entryPrice,
                        highestPrice |-> trailed.highestPrice,
                        currentStopPrice |-> trailed.currentStopPrice,
                        activated |-> trailed.activated]

TrailingInv == K!TypeOK /\ IsRecord /\ Waiting /\ Following /\ Exiting

-----------------------------------------------------------------------------
(* A new stop is always below the price it is computed from, by the ATR or *)
(* by the percentage (trailingStop.ts:37-44).                              *)
LEMMA StopBelowPrice ==
    ASSUME NEW p \in StopPrices, NEW atr \in ATRs
    PROVE  K!stopFor(p, atr) \in Int /\ K!stopFor(p, atr) < 100 * p
  <1>1. p \in Nat \ {0} /\ atr \in Nat /\ Trail \in 1..100 /\ Multiplier \in Nat
    BY TrailingAssumption
  <1>2. CASE atr > 0 /\ Multiplier > 0
    <2>1. atr * Multiplier \in Nat /\ atr * Multiplier > 0
      BY <1>1, <1>2
    <2>2. K!stopFor(p, atr) = 100 * (p - atr * Multiplier)
      BY <1>2 DEF K!stopFor
    <2>. QED BY <1>1, <2>1, <2>2
  <1>3. CASE ~(atr > 0 /\ Multiplier > 0)
    <2>1. K!stopFor(p, atr) = p * (100 - Trail)
      BY <1>3 DEF K!stopFor
    <2>2. p * (100 - Trail) = 100 * p - p * Trail
      BY <1>1
    <2>3. p * Trail \in Nat /\ p * Trail > 0
      BY <1>1
    <2>. QED BY <1>1, <2>1, <2>2, <2>3
  <1>. QED BY <1>2, <1>3

(* The threshold of an entry is a natural number.                          *)
LEMMA ThresholdType == K!TypeOK => Threshold \in Nat
  BY TrailingAssumption DEF K!TypeOK, Threshold

(* A position just opened satisfies what is asked of a waiting one.        *)
LEMMA FreshEntry ==
    ASSUME NEW p \in StopPrices, trailed = K!Opened(p), price = p, peak = p,
           tracked \in BOOLEAN, shouldExit = FALSE, entryTime \in {0, 1}
    PROVE  TrailingInv
  <1>1. p \in Nat \ {0}
    BY TrailingAssumption
  <1>2. /\ trailed.entryPrice = p /\ trailed.highestPrice = p
        /\ trailed.currentStopPrice = 0 /\ trailed.activated = FALSE
    BY DEF K!Opened
  <1>3. IsRecord
    BY <1>2 DEF IsRecord, K!Opened
  <1>4. K!TypeOK
    <2>1. trailed.activated \in BOOLEAN /\ shouldExit \in BOOLEAN
      BY <1>2
    <2>2. 0 \in Int
      OBVIOUS
    <2>. QED BY <1>1, <1>2, <2>1, <2>2, Zenon DEF K!TypeOK
  <1>5. Waiting /\ Following /\ Exiting
    BY <1>2 DEF Waiting, Following, Exiting
  <1>. QED BY <1>3, <1>4, <1>5 DEF TrailingInv

LEMMA TrailingInit == K!Init => TrailingInv
  <1>. SUFFICES ASSUME K!Init PROVE TrailingInv
    OBVIOUS
  <1>. PICK p \in StopPrices : trailed = K!Opened(p) /\ price = p /\ peak = p
    BY DEF K!Init
  <1>. QED BY FreshEntry DEF K!Init

(* A new entry starts without a stop and at its own peak.                  *)
LEMMA OpenKeeps ==
    ASSUME TrailingInv, NEW p \in StopPrices, K!openPosition(p)
    PROVE  TrailingInv'
  <1>1. trailed' = K!Opened(p) /\ shouldExit' = FALSE /\ price' = p /\ peak' = p /\ tracked' = TRUE
    BY DEF K!openPosition
  <1>2. entryTime' \in {0, 1} /\ tracked' \in BOOLEAN
    BY DEF TrailingInv, K!TypeOK, K!openPosition
  <1>3. p \in Nat \ {0}
    BY TrailingAssumption
  <1>4. /\ trailed'.entryPrice = p /\ trailed'.highestPrice = p
        /\ trailed'.currentStopPrice = 0 /\ trailed'.activated = FALSE
    BY <1>1 DEF K!Opened
  <1>5. IsRecord'
    BY <1>1, <1>4 DEF IsRecord, K!Opened
  <1>6. K!TypeOK'
    <2>1. trailed'.activated \in BOOLEAN /\ shouldExit' \in BOOLEAN
      BY <1>1, <1>4
    <2>2. 0 \in Int
      OBVIOUS
    <2>. QED BY <1>1, <1>2, <1>3, <1>4, <2>1, <2>2, Zenon DEF K!TypeOK
  <1>7. Waiting' /\ Following' /\ Exiting'
    BY <1>1, <1>4 DEF Waiting, Following, Exiting
  <1>. QED BY <1>5, <1>6, <1>7 DEF TrailingInv

(* update(): while it waits, when it activates the stop, and afterwards.   *)
LEMMA UpdateKeeps ==
    ASSUME TrailingInv, NEW p \in StopPrices, NEW atr \in ATRs, K!update(p, atr)
    PROVE  TrailingInv'
  <1>. DEFINE e == trailed.entryPrice
              stop == K!stopFor(p, atr)
  <1>1. p \in Nat \ {0} /\ e \in Nat \ {0} /\ peak \in Nat \ {0} /\ Threshold \in Nat
    BY TrailingAssumption, ThresholdType DEF TrailingInv, K!TypeOK
  <1>2. stop \in Int /\ stop < 100 * p
    BY StopBelowPrice
  <1>3. price' = p /\ peak' = K!higher(peak, p) /\ tracked' = tracked /\ entryTime' = entryTime
    BY DEF K!update
  <1>4. peak' \in Nat \ {0} /\ peak' >= peak /\ peak' >= p /\ peak' \in {peak, p}
    BY <1>1, <1>3 DEF K!higher
  <1>. HIDE DEF stop
  <1>5. CASE ~trailed.activated /\ K!profitable(p)
    <2>1. K!activate(p, atr) /\ shouldExit' = FALSE
      BY <1>5 DEF K!update
    <2>2. trailed' = [entryPrice |-> e, highestPrice |-> p,
                       currentStopPrice |-> stop, activated |-> TRUE]
      BY <2>1 DEF K!activate, TrailingInv, IsRecord, stop
    <2>3. 100 * (p - e) >= Threshold
      BY <1>5 DEF K!profitable, Threshold
    <2>4. p >= peak
      <3>1. peak = e \/ 100 * (peak - e) < Threshold
        BY <1>5 DEF TrailingInv, Waiting
      <3>. HIDE DEF e
      <3>. QED BY <1>1, <2>3, <3>1
    <2>5. peak' = p
      BY <1>1, <1>3, <2>4 DEF K!higher
    <2>. QED BY <1>1, <1>2, <1>3, <2>1, <2>2, <2>5
             DEF TrailingInv, K!TypeOK, IsRecord, Waiting, Following, Exiting
  <1>6. CASE ~trailed.activated /\ ~K!profitable(p)
    <2>1. trailed' = trailed /\ shouldExit' = FALSE
      BY <1>6 DEF K!update
    <2>2. 100 * (p - e) < Threshold
      BY <1>1, <1>6 DEF K!profitable, Threshold
    <2>3. peak' = e \/ 100 * (peak' - e) < Threshold
      <3>1. peak = e \/ 100 * (peak - e) < Threshold
        BY <1>6 DEF TrailingInv, Waiting
      <3>. HIDE DEF e
      <3>. QED BY <1>1, <1>4, <2>2, <3>1
    <2>4. Waiting'
      BY <2>1, <2>3 DEF Waiting, Threshold
    <2>5. Following' /\ Exiting' /\ IsRecord' /\ K!TypeOK'
      BY <1>1, <1>3, <1>4, <1>6, <2>1 DEF TrailingInv, K!TypeOK, IsRecord, Following, Exiting
    <2>. QED BY <2>4, <2>5 DEF TrailingInv
  <1>7. CASE trailed.activated
    <2>1. K!follow(p, atr) /\ shouldExit' = K!exitAt(p)
      BY <1>7 DEF K!update
    <2>2. trailed.highestPrice = peak /\ trailed.currentStopPrice \in Int
            /\ trailed.currentStopPrice < 100 * peak
      BY <1>7 DEF TrailingInv, Following, K!TypeOK
    <2>3. CASE p > trailed.highestPrice
      <3>1. trailed' = [entryPrice |-> e, highestPrice |-> p,
                         currentStopPrice |-> K!raise(p, atr), activated |-> TRUE]
        BY <1>7, <2>1, <2>3 DEF K!follow, TrailingInv, IsRecord
      <3>2. K!raise(p, atr) \in Int /\ K!raise(p, atr) < 100 * p
        BY <1>1, <1>2, <2>2, <2>3 DEF K!raise, K!higher, stop
      <3>3. peak' = p
        BY <1>1, <1>3, <2>2, <2>3 DEF K!higher
      <3>4. shouldExit' = (100 * p <= trailed'.currentStopPrice)
        BY <2>1 DEF K!exitAt
      <3>5. shouldExit' \in BOOLEAN
        BY <3>4
      <3>. QED BY <1>1, <1>3, <3>1, <3>2, <3>3, <3>4, <3>5
               DEF TrailingInv, K!TypeOK, IsRecord, Waiting, Following, Exiting
    <2>4. CASE ~(p > trailed.highestPrice)
      <3>1. trailed' = trailed
        BY <2>1, <2>4 DEF K!follow
      <3>2. peak' = peak
        BY <1>1, <1>3, <2>2, <2>4 DEF K!higher
      <3>3. shouldExit' = (100 * p <= trailed'.currentStopPrice)
        BY <2>1 DEF K!exitAt
      <3>4. shouldExit' \in BOOLEAN
        BY <3>3
      <3>. QED BY <1>1, <1>3, <1>7, <3>1, <3>2, <3>3, <3>4
               DEF TrailingInv, K!TypeOK, IsRecord, Waiting, Following, Exiting
    <2>. QED BY <2>3, <2>4
  <1>. QED BY <1>5, <1>6, <1>7

LEMMA CloseKeeps ==
    ASSUME TrailingInv, K!closePosition
    PROVE  TrailingInv'
  BY DEF K!closePosition, TrailingInv, K!TypeOK, IsRecord, Waiting, Following, Exiting, Threshold

LEMMA TrailingStep == TrailingInv /\ [K!Next]_trailingVars => TrailingInv'
  <1>. SUFFICES ASSUME TrailingInv, [K!Next]_trailingVars PROVE TrailingInv'
    OBVIOUS
  <1>1. CASE \E p \in StopPrices : K!openPosition(p)
    BY <1>1, OpenKeeps
  <1>2. CASE \E p \in StopPrices, atr \in ATRs : K!update(p, atr)
    BY <1>2, UpdateKeeps
  <1>3. CASE K!closePosition
    BY <1>3, CloseKeeps
  <1>4. CASE UNCHANGED trailingVars
    BY <1>4 DEF trailingVars, TrailingInv, K!TypeOK, IsRecord, Waiting, Following, Exiting, Threshold
  <1>. QED BY <1>1, <1>2, <1>3, <1>4 DEF K!Next

(* Prices stay positive, flags Boolean, and the high is the peak.          *)
LEMMA TrailingHolds == Spec => [](part = "trailing" => TrailingInv)
<1>1. Init => (part = "trailing" => TrailingInv)
  BY TrailingInit DEF Init
<1>2. (part = "trailing" => TrailingInv) /\ [Next]_vars => (part = "trailing" => TrailingInv)'
  BY TrailingStep, TrailingMoves
<1> QED
  BY <1>1, <1>2, PTL DEF Spec

(* Once the stop is active, the tracked high is the highest price since    *)
(* the entry, although activation overwrites it (trailingStop.ts:32-34).   *)
THEOREM HighIsThePeak == Spec => []HighIsPeak
  <1>1. (part = "trailing" => TrailingInv) => HighIsPeak
    BY DEF TrailingInv, Following, K!HighIsPeak, HighIsPeak
  <1>. QED BY TrailingHolds, <1>1, PTL

(* An exit is only asked for below the highest price since the entry.      *)
THEOREM ExitsBelowPeak == Spec => [](part = "trailing" => K!NoExitAtPeak)
  <1>1. TrailingInv => K!NoExitAtPeak
    <2>. SUFFICES ASSUME TrailingInv, shouldExit PROVE price < peak
      BY DEF K!NoExitAtPeak
    <2>1. 100 * price <= trailed.currentStopPrice /\ trailed.currentStopPrice < 100 * peak
      BY DEF TrailingInv, Exiting, Following
    <2>2. price \in Nat /\ peak \in Nat /\ trailed.currentStopPrice \in Int
      BY DEF TrailingInv, K!TypeOK
    <2>. QED BY <2>1, <2>2
  <1>. QED BY TrailingHolds, <1>1, PTL

(* An active stop never falls while its entry is the tracked one.          *)
THEOREM StopNeverFalls == Spec => StopRisesPerEntry
  <1>1. ASSUME TrailingInv, [K!Next]_trailingVars PROVE K!StopRises
    <2>. SUFFICES ASSUME trailed.activated, entryTime' = entryTime
         PROVE trailed'.currentStopPrice >= trailed.currentStopPrice
      BY DEF K!StopRises
    <2>0. trailed.currentStopPrice \in Int /\ entryTime \in {0, 1}
      BY <1>1 DEF TrailingInv, K!TypeOK
    <2>1. CASE \E p \in StopPrices : K!openPosition(p)
      BY <2>0, <2>1 DEF K!openPosition
    <2>2. ASSUME NEW p \in StopPrices, NEW atr \in ATRs, K!update(p, atr)
          PROVE trailed'.currentStopPrice >= trailed.currentStopPrice
      <3>1. K!follow(p, atr)
        BY <2>2 DEF K!update
      <3>2. K!stopFor(p, atr) \in Int
        BY StopBelowPrice
      <3>3. K!raise(p, atr) >= trailed.currentStopPrice
        BY <2>0, <3>2 DEF K!raise, K!higher
      <3>4. CASE p > trailed.highestPrice
        <4>1. trailed' = [trailed EXCEPT !.highestPrice = p, !.currentStopPrice = K!raise(p, atr)]
          BY <3>1, <3>4 DEF K!follow
        <4>2. trailed'.currentStopPrice = K!raise(p, atr)
          BY <1>1, <4>1 DEF TrailingInv, IsRecord
        <4>. QED BY <3>3, <4>2
      <3>5. CASE ~(p > trailed.highestPrice)
        BY <2>0, <3>1, <3>5 DEF K!follow
      <3>. QED BY <3>4, <3>5
    <2>3. CASE K!closePosition \/ UNCHANGED trailingVars
      BY <2>0, <2>3 DEF K!closePosition, trailingVars
    <2>. QED BY <1>1, <2>1, <2>2, <2>3 DEF K!Next
  <1>2. (part = "trailing" => TrailingInv) /\ [Next]_vars => [part = "trailing" => K!StopRises]_vars
    BY <1>1, TrailingMoves
  <1>. QED BY TrailingHolds, <1>2, PTL DEF Spec, StopRisesPerEntry

-----------------------------------------------------------------------------
(* PaperTrading, for any symbols, orders and prices.  A position is begun  *)
(* when its symbol has none, and in this program it never gets beyond      *)
(* "filled".                                                               *)

(* A behaviour of the paper mode is one of PaperTrading.                   *)
LEMMA PaperMoves ==
    [Next]_vars => part' = part /\ (part = "paper" => [T!Next]_paperVars)
  BY DEF Next, vars

Begun(o) ==
    /\ positions[o] = [state |-> positions[o].state, symbol |-> positions[o].symbol,
                       entryPrice |-> positions[o].entryPrice]
    /\ positions[o].state \in {"pending_entry", "filled"}
    /\ positions[o].entryPrice = 0 <=> positions[o].state = "pending_entry"

PaperInv ==
    /\ positions = [o \in Orders |-> positions[o]]
    /\ \A o \in Orders : positions[o] = T!NoPosition \/ (Begun(o) /\ o \in done)
    /\ \A o, x \in Orders :
          positions[o] # T!NoPosition /\ positions[x] # T!NoPosition
              /\ positions[o].symbol = positions[x].symbol => o = x

LEMMA PaperInit == T!Init => PaperInv
  BY DEF T!Init, PaperInv, T!NoPosition

LEMMA BySymbol ==
    ASSUME PaperInv, NEW symbol
    PROVE  T!bySymbol(symbol) =
               {o \in Orders : positions[o] # T!NoPosition /\ positions[o].symbol = symbol}
<1>1. \A o \in Orders : positions[o].state \notin T!inactive <=> positions[o] # T!NoPosition
  BY DEF PaperInv, Begun, T!inactive, T!NoPosition
<1> QED
  BY <1>1 DEF T!bySymbol

LEMMA PaperStep == PaperInv /\ [T!Next]_paperVars => PaperInv'
<1> SUFFICES ASSUME PaperInv, [T!Next]_paperVars PROVE PaperInv'
  OBVIOUS
<1>1. ASSUME positions' = positions, done \subseteq done' PROVE PaperInv'
  BY <1>1 DEF PaperInv, Begun
<1>2. ASSUME NEW req \in T!Requests, T!Submit(req) PROVE PaperInv'
  <2>1. req.id \notin done /\ done' = done \union {req.id} /\ req.id \in Orders
    BY <1>2 DEF T!Submit, T!Requests
  <2>2. CASE positions' = positions
    BY <1>1, <2>1, <2>2
  <2>3. CASE positions' # positions
    <3> DEFINE new == [state |-> "pending_entry", symbol |-> req.symbol, entryPrice |-> 0]
    <3>1. T!bySymbol(req.symbol) = {} /\ positions' = [positions EXCEPT ![req.id] = new]
      BY <1>2, <2>3 DEF T!Submit
    <3>2. \A o \in Orders : positions'[o] = IF o = req.id THEN new ELSE positions[o]
      BY <2>1, <3>1 DEF PaperInv
    <3>3. positions' = [o \in Orders |-> positions'[o]]
      BY <3>1 DEF PaperInv
    <3>4. \A o \in Orders : positions'[o] = T!NoPosition \/ (Begun(o)' /\ o \in done')
      BY <2>1, <3>2 DEF PaperInv, Begun
    <3>5. \A o \in Orders : positions[o] # T!NoPosition => positions[o].symbol # req.symbol
      BY <3>1, BySymbol
    <3>6. \A o, x \in Orders :
             positions'[o] # T!NoPosition /\ positions'[x] # T!NoPosition
                 /\ positions'[o].symbol = positions'[x].symbol => o = x
      BY <3>2, <3>5 DEF PaperInv
    <3> QED
      BY <3>3, <3>4, <3>6 DEF PaperInv
  <2> QED
    BY <2>2, <2>3
<1>3. ASSUME NEW req \in inFlight, NEW ticker \in T!Tickers, T!Answer(req, ticker) PROVE PaperInv'
  <2>1. done' = done
    BY <1>3 DEF T!Answer
  <2>2. CASE positions' = positions
    BY <1>1, <2>1, <2>2
  <2>3. CASE positions' # positions
    <3>0. PICK paid : paid = T!place(req, ticker)
      OBVIOUS
    <3>1. PICK o : /\ paid # 0 /\ positions[o].state = "pending_entry"
                   /\ o \in (IF positions[req.id].state # "none" THEN {req.id} ELSE T!bySymbol(req.symbol))
                   /\ T!transition(o, "filled", [positions[o] EXCEPT !.entryPrice = paid])
      BY <1>3, <2>3, <3>0 DEF T!Answer
    <3>2. positions' = [positions EXCEPT ![o] =
              [[positions[o] EXCEPT !.entryPrice = paid] EXCEPT !.state = "filled"]]
      BY <3>1 DEF T!transition
    <3>3. o \in Orders
      <4>1. CASE o \notin Orders
        <5>1. positions' = positions
          BY <3>2, <4>1 DEF PaperInv
        <5> QED
          BY <2>3, <5>1
      <4> QED
        BY <4>1
    <3>4. positions[o] # T!NoPosition /\ Begun(o) /\ o \in done
      BY <3>1, <3>3 DEF PaperInv, T!NoPosition
    <3>5. positions'[o] = [state |-> "filled", symbol |-> positions[o].symbol, entryPrice |-> paid]
      BY <3>2, <3>3, <3>4 DEF PaperInv, Begun
    <3>6. \A x \in Orders : x # o => positions'[x] = positions[x]
      BY <3>2 DEF PaperInv
    <3>7. positions' = [x \in Orders |-> positions'[x]]
      BY <3>2 DEF PaperInv
    <3>8. Begun(o)' /\ positions'[o].symbol = positions[o].symbol
      BY <3>1, <3>5 DEF Begun
    <3>9. \A x \in Orders : positions'[x] = T!NoPosition \/ (Begun(x)' /\ x \in done')
      BY <2>1, <3>4, <3>6, <3>8 DEF PaperInv, Begun
    <3>10. \A y, x \in Orders :
             positions'[y] # T!NoPosition /\ positions'[x] # T!NoPosition
                 /\ positions'[y].symbol = positions'[x].symbol => y = x
      BY <3>4, <3>6, <3>8 DEF PaperInv
    <3> QED
      BY <3>7, <3>9, <3>10 DEF PaperInv
  <2> QED
    BY <2>2, <2>3
<1>4. ASSUME NEW req \in inFlight, T!Refuse(req) PROVE PaperInv'
  BY <1>1, <1>4 DEF T!Refuse
<1>5. CASE T!Restart
  BY <1>5 DEF T!Restart, PaperInv, T!NoPosition
<1>6. CASE UNCHANGED paperVars
  BY <1>1, <1>6 DEF paperVars
<1> QED
  BY <1>2, <1>3, <1>4, <1>5, <1>6 DEF T!Next, paperVars, T!paperVars

(* However orders of a symbol overlap, fail and are repeated, the symbol   *)
(* has at most one position that is not over (positionStateMachine.ts,     *)
(* orderManager.ts): create() is only called where getBySymbol() finds     *)
(* none, without an await between the two.                                 *)
THEOREM PositionsAreSingle == Spec => []OnePosition
<1>1. Init => (part = "paper" => PaperInv)
  BY PaperInit DEF Init
<1>2. (part = "paper" => PaperInv) /\ [Next]_vars => (part = "paper" => PaperInv)'
  BY PaperStep, PaperMoves
<1>3. (part = "paper" => PaperInv) => OnePosition
  <2> SUFFICES ASSUME PaperInv PROVE T!OnePosition
    BY DEF OnePosition
  <2>1. \A o \in Orders : positions[o].state \in DOMAIN T!Transitions \ {"exited", "flat"}
                            => positions[o] # T!NoPosition
    BY DEF T!NoPosition, T!Transitions
  <2> QED
    BY <2>1 DEF T!OnePosition, PaperInv, Begun
<1> QED
  BY <1>1, <1>2, <1>3, PTL DEF Spec

-----------------------------------------------------------------------------
(* MoodFeed, for any period, time to live and time-out.                    *)

(* A behaviour of the mood loop is one of MoodFeed.                        *)
LEMMA MoodMoves ==
    [Next]_vars => part' = part /\ (part = "mood" => [M!Next]_moodVars)
  BY DEF Next, vars

(* What the cache holds was read no earlier than its stamp tells.          *)
CacheInv ==
    /\ cache = [f \in M!Sources |-> [value |-> cache[f].value, timestamp |-> cache[f].timestamp]]
    /\ \A f \in M!Sources :
          /\ cache[f].timestamp \in Int
          /\ cache[f].value = M!Default \/ (cache[f].value \in Int /\ cache[f].value >= cache[f].timestamp)

(* What a run has got is younger than a time to live at its start; what    *)
(* is kept was got by a run that began a period before the next one, or by *)
(* the run before it if one is under way.                                  *)
Younger(values, dom, t) ==
    \A f \in dom : values[f] = M!Default \/ (values[f] \in Int /\ values[f] > t - Ttl)

MoodInv ==
    /\ clock \in Nat /\ nextRun \in Nat /\ clock <= nextRun
    /\ CacheInv
    /\ IF since = M!NoRun THEN Younger(latest, M!Sources, nextRun - Period)
       ELSE /\ since \in Nat /\ since <= clock /\ clock - since <= Timeout
            /\ nextRun = since + Period
            /\ Younger(got, DOMAIN got, since)
            /\ Younger(latest, M!Sources, since - Period)

LEMMA MoodStep == MoodInv /\ [M!Next]_moodVars => MoodInv'
<1> SUFFICES ASSUME MoodInv, [M!Next]_moodVars PROVE MoodInv'
  OBVIOUS
<1> USE MoodAssumption
<1>0. clock \in Nat /\ nextRun \in Nat /\ M!NoRun = -1
  BY DEF MoodInv, M!NoRun
<1>1. CASE M!Time
  <2>1. /\ clock < nextRun /\ clock' = clock + 1 /\ (since # M!NoRun => clock - since < Timeout)
        /\ UNCHANGED <<nextRun, cache, since, got, latest>>
    BY <1>1 DEF M!Time
  <2>2. CacheInv'
    BY <2>1 DEF MoodInv, CacheInv
  <2> QED
    BY <1>0, <2>1, <2>2 DEF MoodInv, Younger
<1>2. CASE M!Start
  <2>1. /\ clock = nextRun /\ since = M!NoRun /\ nextRun' = clock + Period /\ since' = clock
        /\ got' = [f \in {g \in M!Sources : M!valid(g)} |-> cache[f].value]
        /\ UNCHANGED <<clock, cache, latest>>
    BY <1>2 DEF M!Start
  <2>2. CacheInv'
    BY <2>1 DEF MoodInv, CacheInv
  <2>3. Younger(latest, M!Sources, nextRun - Period)
    BY <2>1 DEF MoodInv
  <2>4. Younger(latest', M!Sources, since' - Period)
    BY <2>1, <2>3 DEF Younger
  <2>5. \A f \in DOMAIN got' : got'[f] = cache[f].value /\ f \in M!Sources /\ clock - cache[f].timestamp < Ttl
    BY <2>1 DEF M!valid
  <2>6. Younger(got', DOMAIN got', since')
    BY <1>0, <2>1, <2>5 DEF Younger, MoodInv, CacheInv
  <2>7. since' \in Nat /\ since' # M!NoRun /\ since' <= clock' /\ clock' - since' <= Timeout
    BY <1>0, <2>1
  <2>8. clock' \in Nat /\ nextRun' \in Nat /\ clock' <= nextRun' /\ nextRun' = since' + Period
    BY <1>0, <2>1
  <2> QED
    BY <2>2, <2>4, <2>6, <2>7, <2>8 DEF MoodInv, Younger
<1>3. ASSUME NEW f \in M!Sources, M!Answer(f) PROVE MoodInv'
  <2>1. PICK read \in since..clock : /\ M!receive(f, read)
                                     /\ cache' = [cache EXCEPT ![f] = [value |-> read, timestamp |-> since]]
                                     /\ UNCHANGED <<clock, nextRun, since, latest>>
    BY <1>3 DEF M!Answer
  <2>2. since # M!NoRun /\ got' = [g \in (DOMAIN got) \union {f} |-> IF g = f THEN read ELSE got[g]]
    BY <2>1 DEF M!receive
  <2>3. since \in Nat /\ read \in Int /\ read >= since
    BY <1>0, <2>1, <2>2 DEF MoodInv
  <2>4. CacheInv'
    <3>1. \A g \in M!Sources : cache'[g] = IF g = f THEN [value |-> read, timestamp |-> since] ELSE cache[g]
      BY <2>1 DEF MoodInv, CacheInv
    <3>2. DOMAIN cache' = M!Sources /\ cache' = [g \in M!Sources |-> cache'[g]]
      BY <2>1 DEF MoodInv, CacheInv
    <3> QED
      BY <2>3, <3>1, <3>2 DEF MoodInv, CacheInv
  <2>5. Younger(got', DOMAIN got', since')
    BY <2>1, <2>2, <2>3 DEF MoodInv, Younger
  <2> QED
    BY <2>1, <2>2, <2>4, <2>5 DEF MoodInv, Younger
<1>4. ASSUME NEW f \in M!Sources, M!Fail(f) PROVE MoodInv'
  <2>1. /\ M!receive(f, M!Default)
        /\ UNCHANGED cache \/ cache' = [cache EXCEPT ![f] = [value |-> M!Default, timestamp |-> since]]
        /\ UNCHANGED <<clock, nextRun, since, latest>>
    BY <1>4 DEF M!Fail, M!onError
  <2>2. since # M!NoRun /\ got' = [g \in (DOMAIN got) \union {f} |-> IF g = f THEN M!Default ELSE got[g]]
    BY <2>1 DEF M!receive
  <2>3. since \in Nat
    BY <1>0, <2>1, <2>2 DEF MoodInv
  <2>4. CacheInv'
    <3>1. CASE UNCHANGED cache
      BY <3>1 DEF MoodInv, CacheInv
    <3>2. CASE cache' = [cache EXCEPT ![f] = [value |-> M!Default, timestamp |-> since]]
      <4>1. \A g \in M!Sources : cache'[g] = IF g = f THEN [value |-> M!Default, timestamp |-> since] ELSE cache[g]
        BY <3>2 DEF MoodInv, CacheInv
      <4>2. cache' = [g \in M!Sources |-> cache'[g]]
        BY <3>2 DEF MoodInv, CacheInv
      <4> QED
        BY <2>3, <4>1, <4>2 DEF MoodInv, CacheInv
    <3> QED
      BY <2>1, <3>1, <3>2
  <2>5. Younger(got', DOMAIN got', since')
    BY <2>1, <2>2, <2>3 DEF MoodInv, Younger
  <2> QED
    BY <2>1, <2>2, <2>4, <2>5 DEF MoodInv, Younger
<1>5. CASE M!Store
  <2>1. /\ since # M!NoRun /\ DOMAIN got = M!Sources /\ latest' = got /\ since' = M!NoRun
        /\ UNCHANGED <<clock, nextRun, cache>>
    BY <1>5 DEF M!Store
  <2>2. CacheInv'
    BY <2>1 DEF MoodInv, CacheInv
  <2>3. Younger(got, M!Sources, since) /\ since \in Nat /\ nextRun = since + Period
    BY <2>1 DEF MoodInv
  <2>4. nextRun' - Period = since
    BY <2>1, <2>3
  <2> QED
    BY <2>1, <2>2, <2>3, <2>4 DEF MoodInv
<1>6. CASE UNCHANGED moodVars
  BY <1>6 DEF moodVars, MoodInv, CacheInv, Younger
<1> QED
  BY <1>1, <1>2, <1>3, <1>4, <1>5, <1>6 DEF M!Next, M!vars, moodVars

(* Whatever fails and for how long, what the strategies read of the mood   *)
(* is the default, or was read at its source less than a period, a time to *)
(* live and a request ago (jobs/loops.ts, data/sentimentService.ts).       *)
THEOREM MoodIsFresh == Spec => []MoodFresh
<1> USE MoodAssumption
<1>1. Init => (part = "mood" => MoodInv)
  <2> SUFFICES ASSUME M!Init PROVE MoodInv
    BY DEF Init
  <2>1. clock = 0 /\ nextRun = 0 /\ since = M!NoRun /\ latest = [f \in M!Sources |-> M!Default]
    BY DEF M!Init
  <2>2. cache = [f \in M!Sources |-> [value |-> M!Default, timestamp |-> -1]]
    BY DEF M!Init
  <2> QED
    BY <2>1, <2>2 DEF MoodInv, CacheInv, Younger
<1>2. (part = "mood" => MoodInv) /\ [Next]_vars => (part = "mood" => MoodInv)'
  BY MoodStep, MoodMoves
<1>3. (part = "mood" => MoodInv) => MoodFresh
  <2> SUFFICES ASSUME MoodInv, NEW f \in M!Sources, latest[f] # M!Default
      PROVE  clock - latest[f] < Period + Ttl + Timeout
    BY DEF MoodFresh, M!MoodFresh
  <2>1. CASE since = M!NoRun
    BY <2>1 DEF MoodInv, Younger
  <2>2. CASE since # M!NoRun
    BY <2>2 DEF MoodInv, Younger
  <2> QED
    BY <2>1, <2>2
<1> QED
  BY <1>1, <1>2, <1>3, PTL DEF Spec

-----------------------------------------------------------------------------
(* AlertPrefs, for any channels, events and pages.  To lay preferences     *)
(* over the defaults a second time changes nothing, so that what a patch   *)
(* has stored is what it has cached, and what a later one begins with.     *)

(* A behaviour of the preferences is one of AlertPrefs.                    *)
LEMMA PrefsMoves ==
    [Next]_vars => part' = part /\ (part = "prefs" => [N!Next]_prefsVars)
  BY DEF Next, vars

LEMMA OverTwice ==
    ASSUME NEW f, NEW g PROVE N!over(N!over(f, g), g) = N!over(f, g)
  BY DEF N!over

(* Preferences to which the defaults have nothing to add.                  *)
Covering(p) ==
    /\ p = [c \in Channels |-> p[c]]
    /\ \A c \in Channels :
          /\ p[c] = [x \in DOMAIN p[c] |-> p[c][x]]
          /\ "overrides" \in DOMAIN p[c] => N!over(p[c].overrides, DefaultPrefs[c].overrides) = p[c].overrides

LEMMA DefaultsCover == Covering(DefaultPrefs)
<1> SUFFICES ASSUME NEW c \in Channels
    PROVE N!over(DefaultPrefs[c].overrides, DefaultPrefs[c].overrides) = DefaultPrefs[c].overrides
  BY PrefsAssumption DEF Covering
<1>1. DefaultPrefs[c].overrides = [e \in DOMAIN DefaultPrefs[c].overrides |-> DefaultPrefs[c].overrides[e]]
  BY PrefsAssumption
<1> QED
  BY <1>1 DEF N!over

LEMMA MergedCovers == ASSUME NEW stored PROVE Covering(N!mergeWithDefaults(stored))
<1> DEFINE m == N!mergeWithDefaults(stored)
<1>1. m = [c \in Channels |-> m[c]]
  BY DEF N!mergeWithDefaults
<1>2. ASSUME NEW c \in Channels
      PROVE /\ m[c] = [x \in DOMAIN m[c] |-> m[c][x]]
            /\ "overrides" \in DOMAIN m[c] => N!over(m[c].overrides, DefaultPrefs[c].overrides) = m[c].overrides
  <2>1. CASE c \notin DOMAIN stored
    <3>1. m[c] = DefaultPrefs[c]
      BY <2>1 DEF N!mergeWithDefaults
    <3> QED
      BY <3>1, DefaultsCover DEF Covering
  <2>2. CASE c \in DOMAIN stored
    <3> DEFINE laid == N!over(stored[c].overrides, DefaultPrefs[c].overrides)
    <3>1. m[c] = [stored[c] EXCEPT !.overrides = laid]
      BY <2>2 DEF N!mergeWithDefaults
    <3>2. m[c] = [x \in DOMAIN m[c] |-> m[c][x]]
      BY <3>1
    <3>3. "overrides" \in DOMAIN m[c] => m[c].overrides = laid
      BY <3>1
    <3> QED
      BY <3>2, <3>3, OverTwice
  <2> QED
    BY <2>1, <2>2
<1> QED
  BY <1>1, <1>2 DEF Covering

LEMMA MergedTwice == ASSUME NEW p, Covering(p) PROVE N!mergeWithDefaults(p) = p
<1>1. DOMAIN p = Channels
  BY DEF Covering
<1>2. ASSUME NEW c \in Channels
      PROVE  [p[c] EXCEPT !.overrides = N!over(p[c].overrides, DefaultPrefs[c].overrides)] = p[c]
  <2>1. p[c] = [x \in DOMAIN p[c] |-> p[c][x]]
    BY DEF Covering
  <2>2. CASE "overrides" \in DOMAIN p[c]
    BY <2>1, <2>2 DEF Covering
  <2>3. CASE "overrides" \notin DOMAIN p[c]
    BY <2>1, <2>3
  <2> QED
    BY <2>2, <2>3
<1>3. N!mergeWithDefaults(p) = [c \in Channels |-> p[c]]
  BY <1>1, <1>2 DEF N!mergeWithDefaults
<1> QED
  BY <1>3 DEF Covering

PrefsInv == N!CacheIsRow /\ Covering(prefs)

LEMMA PatchKeeps == ASSUME NEW partial, N!patch(partial) PROVE PrefsInv'
<1>1. PICK m : m = N!mergeWithDefaults(N!deepMergeChannels(N!load, partial))
  OBVIOUS
<1>2. row' = m /\ prefs' = m
  BY <1>1 DEF N!patch, N!cached
<1>3. Covering(m)
  BY <1>1, MergedCovers
<1>4. N!mergeWithDefaults(m) = m
  BY <1>3, MergedTwice
<1>5. Covering(prefs)'
  BY <1>2, <1>3 DEF Covering, N!over
<1>6. m = N!NoRow => m = DefaultPrefs
  <2> SUFFICES ASSUME m = << >> PROVE m = DefaultPrefs
    BY DEF N!NoRow
  <2>1. Channels = {}
    BY <1>3 DEF Covering
  <2> QED
    BY <1>3, <2>1, PrefsAssumption DEF Covering
<1>7. N!CacheIsRow'
  BY <1>2, <1>4, <1>6 DEF N!CacheIsRow, N!load, N!mergeWithDefaults, N!over
<1> QED
  BY <1>5, <1>7 DEF PrefsInv

LEMMA PrefsStep == PrefsInv /\ [N!Next]_prefsVars => PrefsInv'
<1> SUFFICES ASSUME PrefsInv, [N!Next]_prefsVars PROVE PrefsInv'
  OBVIOUS
<1>1. ASSUME UNCHANGED <<row, prefs>> PROVE PrefsInv'
  <2>1. Covering(prefs)'
    BY <1>1 DEF PrefsInv, Covering, N!over
  <2>2. N!load' = N!load
    BY <1>1 DEF N!load, N!mergeWithDefaults, N!over
  <2> QED
    BY <1>1, <2>1, <2>2 DEF PrefsInv, N!CacheIsRow
<1>2. CASE N!Crash
  <2>1. prefs' = prefs /\ row' = row
    BY <1>2 DEF N!Crash, PrefsInv, N!CacheIsRow
  <2> QED
    BY <1>1, <2>1
<1>3. ASSUME NEW p \in Pages, N!Load(p) PROVE PrefsInv'
  BY <1>1, <1>3 DEF N!Load
<1>4. ASSUME NEW p \in Pages, NEW answered \in BOOLEAN, N!SaveAll(p, answered) PROVE PrefsInv'
  BY <1>4, PatchKeeps DEF N!SaveAll, N!save
<1>5. ASSUME NEW p \in Pages, NEW c \in Channels, N!Edit(p, c) PROVE PrefsInv'
  BY <1>1, <1>5 DEF N!Edit
<1>6. ASSUME NEW p \in Pages, NEW c \in Channels, NEW answered \in BOOLEAN, N!SaveChannel(p, c, answered)
      PROVE  PrefsInv'
  BY <1>6, PatchKeeps DEF N!SaveChannel, N!save
<1>7. ASSUME NEW p \in Pages, NEW c \in Channels, NEW e \in Events, NEW v \in N!Overrides,
             N!EditOverride(p, c, e, v)
      PROVE  PrefsInv'
  BY <1>1, <1>7 DEF N!EditOverride
<1>8. ASSUME NEW c \in Channels, NEW e \in Events, N!PatchDefault(c, e) PROVE PrefsInv'
  BY <1>8, PatchKeeps DEF N!PatchDefault
<1>9. ASSUME NEW e \in Events, NEW s \in N!Severities, N!Route(e, s) PROVE PrefsInv'
  BY <1>1, <1>9 DEF N!Route
<1>10. CASE UNCHANGED prefsVars
  BY <1>1, <1>10 DEF prefsVars
<1> QED
  BY <1>2, <1>3, <1>4, <1>5, <1>6, <1>7, <1>8, <1>9, <1>10 DEF N!Next, N!prefsVars, prefsVars

LEMMA OthersKept == PrefsInv => N!OthersStay
<1> SUFFICES ASSUME PrefsInv, NEW p \in Pages, NEW c \in Channels, NEW answered \in BOOLEAN,
                    N!SaveChannel(p, c, answered), NEW d \in Channels \ {c}
             PROVE  prefs'[d] = prefs[d]
  BY DEF N!OthersStay
<1>1. PICK partial : partial = N!only(c, shown[p][c]) /\ N!patch(partial)
  BY DEF N!SaveChannel, N!save
<1>2. N!load = prefs
  BY DEF PrefsInv, N!CacheIsRow
<1>3. PICK merged : merged = N!deepMergeChannels(prefs, partial)
  OBVIOUS
<1>4. prefs' = N!mergeWithDefaults(merged)
  BY <1>1, <1>2, <1>3 DEF N!patch, N!cached
<1>5. d \notin DOMAIN partial
  BY <1>1 DEF N!only
<1>6. d \in DOMAIN merged /\ merged[d] = prefs[d]
  BY <1>3, <1>5 DEF N!deepMergeChannels
<1>7. prefs'[d] = [prefs[d] EXCEPT !.overrides = N!over(prefs[d].overrides, DefaultPrefs[d].overrides)]
  BY <1>4, <1>6 DEF N!mergeWithDefaults
<1>8. d \in DOMAIN prefs /\ N!mergeWithDefaults(prefs) = prefs
  BY MergedTwice DEF PrefsInv, Covering
<1>9. N!mergeWithDefaults(prefs)[d] = prefs'[d]
  BY <1>7, <1>8 DEF N!mergeWithDefaults
<1> QED
  BY <1>8, <1>9

(* What decides deliveries is what a restart would load, and a page that   *)
(* saves one channel undoes nothing that another page has saved of the     *)
(* other channels (alerts/notificationPrefsStore.ts).                      *)
THEOREM PreferencesKept == Spec => PrefsKept
<1>1. Init => (part = "prefs" => PrefsInv)
  BY DefaultsCover DEF Init, N!Init, PrefsInv, N!CacheIsRow, N!load
<1>2. (part = "prefs" => PrefsInv) /\ [Next]_vars => (part = "prefs" => PrefsInv)'
  BY PrefsStep, PrefsMoves
<1>3. (part = "prefs" => PrefsInv) => (part = "prefs" => N!CacheIsRow)
  BY DEF PrefsInv
<1>4. (part = "prefs" => PrefsInv) /\ [Next]_vars => [part = "prefs" => N!OthersStay]_vars
  BY OthersKept
<1> QED
  BY <1>1, <1>2, <1>3, <1>4, PTL DEF Spec, PrefsKept

-----------------------------------------------------------------------------
(* LiveBot, for any users and texts.  Unless a write was cut off, what is  *)
(* in memory is what is in the file, and a user who is told of a wallet is *)
(* told of the one there.  And while a user is in one flow at a time, the  *)
(* conversation is in that flow: every question the bot has asked since it *)
(* began is one of it.                                                     *)

(* A behaviour of the bot is one of LiveBot.                               *)
LEMMA BotMoves ==
    [Next]_vars => part' = part /\ (part = "bot" => [L!Next]_botVars)
  BY DEF Next, vars

Conversation(address, last, requested, amount, asset, answered) ==
    [address |-> address, last |-> last, requested |-> requested,
     amount |-> amount, asset |-> asset, answered |-> answered]
Talk(st) == st = Conversation(st.address, st.last, st.requested, st.amount, st.asset, st.answered)

BotShape ==
    /\ userStates = [u \in Users |-> userStates[u]]
    /\ inFlow = [u \in Users |-> inFlow[u]]
    /\ toldOf = [u \in Users |-> toldOf[u]]
    /\ created \in Nat
    /\ \A u \in Users : Talk(userStates[u])

Wallets ==
    /\ _data = file
    /\ \A u \in DOMAIN file : file[u] \in 1..created
    /\ \A u \in Users :
          /\ userStates[u].address # 0 => u \in DOMAIN file /\ userStates[u].address = file[u]
          /\ \A w \in toldOf[u] : u \in DOMAIN file /\ w = file[u]

LEMMA TalkOf ==
    ASSUME NEW address, NEW last, NEW requested, NEW amount, NEW asset, NEW answered,
           NEW st, st = Conversation(address, last, requested, amount, asset, answered)
    PROVE  /\ Talk(st) /\ st.address = address /\ st.last = last /\ st.requested = requested
           /\ st.amount = amount /\ st.asset = asset /\ st.answered = answered
  BY DEF Talk, Conversation

LEMMA NobodyTalks == Talk(L!Nobody) /\ L!Nobody.address = 0
  BY DEF Talk, Conversation, L!Nobody

QuestionsOf(flow) == {L!firstQuestion[flow], L!secondQuestion[flow], "note"}

(* A conversation st is in the flow g, or in none.                         *)
InFlow(st, g) ==
    IF g = "none"
    THEN st.requested = {} /\ st.amount = 0 /\ st.asset = "none" /\ st.last \in {"none", "note"}
    ELSE /\ g \in L!Flows /\ st.requested = {g}
         /\ st.last \in QuestionsOf(g) \union {"none"}
         /\ st.amount # 0 \/ st.asset # "none" => st.answered \in QuestionsOf(g)

BotInv ==
    /\ BotShape
    /\ ~cut => Wallets
    /\ \A u \in Users : u \notin muddled => InFlow(userStates[u], inFlow[u])
    /\ L!MovedAsAsked

(* A user has the wallet of the file, and a new one otherwise.             *)
LEMMA WalletGot ==
    ASSUME NEW u \in Users, BotShape, Wallets, L!getOrCreateAddress(u)
    PROVE  /\ created' \in Nat /\ _data' = file'
           /\ \A x \in DOMAIN file' : file'[x] \in 1..created'
           /\ \A x \in DOMAIN file : x \in DOMAIN file' /\ file'[x] = file[x]
           /\ u \in DOMAIN file' /\ file'[u] = L!addressOf(u)
<1>1. CASE userStates[u].address # 0
  <2>1. L!addressOf(u) = userStates[u].address
    BY <1>1 DEF L!addressOf
  <2>2. L!addressOf(u) <= created /\ u \in DOMAIN file /\ file[u] = L!addressOf(u)
    BY <1>1, <2>1 DEF Wallets, BotShape
  <2> QED
    BY <2>2 DEF L!getOrCreateAddress, Wallets, BotShape
<1>2. CASE userStates[u].address = 0 /\ u \in DOMAIN _data
  <2>1. L!addressOf(u) = file[u]
    BY <1>2 DEF L!addressOf, Wallets
  <2>2. L!addressOf(u) <= created
    BY <1>2, <2>1 DEF Wallets, BotShape
  <2> QED
    BY <1>2, <2>1, <2>2 DEF L!getOrCreateAddress, Wallets, BotShape
<1>3. CASE userStates[u].address = 0 /\ u \notin DOMAIN _data
  <2>1. L!addressOf(u) = created + 1
    BY <1>3 DEF L!addressOf
  <2>2. created' = created + 1 /\ _data' = L!written(u, created') /\ file' = _data'
    BY <2>1 DEF L!getOrCreateAddress, BotShape
  <2>3. /\ DOMAIN file' = (DOMAIN file) \union {u}
        /\ \A x \in DOMAIN file' : file'[x] = IF x = u THEN created + 1 ELSE file[x]
    BY <2>2 DEF L!written, Wallets
  <2>4. u \notin DOMAIN file
    BY <1>3 DEF Wallets
  <2> QED
    BY <2>1, <2>2, <2>3, <2>4 DEF Wallets, BotShape
<1> QED
  BY <1>1, <1>2, <1>3

(* One update of a user: the conversation becomes st, its flow g, and the  *)
(* wallet is asked for or not.                                             *)
LEMMA TurnKeeps ==
    ASSUME BotInv, NEW u \in Users, NEW st, NEW g,
           userStates' = [userStates EXCEPT ![u] = st], inFlow' = [inFlow EXCEPT ![u] = g], Talk(st),
           \/ UNCHANGED <<file, _data, created, cut>>
           \/ L!getOrCreateAddress(u),
           \/ st.address \in {0, userStates[u].address}
           \/ st.address = L!addressOf(u) /\ L!getOrCreateAddress(u),
           \/ UNCHANGED toldOf
           \/ L!getOrCreateAddress(u) /\ toldOf' = [toldOf EXCEPT ![u] = @ \union {L!addressOf(u)}],
           muddled \subseteq muddled',
           u \notin muddled' => InFlow(st, g),
           \/ UNCHANGED moved
           \/ moved'.by = u /\ (u \notin muddled => {moved'.first, moved'.second} \subseteq QuestionsOf(moved'.flow))
    PROVE  BotInv'
<1>1. cut' = cut /\ created' \in Nat
  BY DEF L!getOrCreateAddress, BotInv, BotShape
<1>2. \A x \in Users : /\ userStates'[x] = IF x = u THEN st ELSE userStates[x]
                       /\ inFlow'[x] = IF x = u THEN g ELSE inFlow[x]
  BY DEF BotInv, BotShape
<1>3. BotShape'
  <2>1. userStates' = [x \in Users |-> userStates'[x]] /\ inFlow' = [x \in Users |-> inFlow'[x]]
    BY DEF BotInv, BotShape
  <2>2. toldOf' = [x \in Users |-> toldOf'[x]]
    BY DEF BotInv, BotShape
  <2>3. \A x \in Users : Talk(userStates'[x])
    BY <1>2 DEF BotInv, BotShape
  <2> QED
    BY <1>1, <2>1, <2>2, <2>3 DEF BotShape, Talk
<1>4. ASSUME ~cut PROVE Wallets'
  <2>1. Wallets /\ BotShape
    BY <1>4 DEF BotInv
  <2>2. /\ _data' = file'
        /\ \A x \in DOMAIN file' : file'[x] \in 1..created'
        /\ \A x \in DOMAIN file : x \in DOMAIN file' /\ file'[x] = file[x]
    <3>1. CASE UNCHANGED <<file, _data, created, cut>>
      BY <2>1, <3>1 DEF Wallets
    <3>2. CASE L!getOrCreateAddress(u)
      BY <2>1, <3>2, WalletGot
    <3> QED
      BY <3>1, <3>2
  <2>3. st.address # 0 => u \in DOMAIN file' /\ st.address = file'[u]
    <3>1. CASE st.address \in {0, userStates[u].address}
      BY <2>1, <2>2, <3>1 DEF Wallets
    <3>2. CASE st.address = L!addressOf(u) /\ L!getOrCreateAddress(u)
      BY <2>1, <3>2, WalletGot
    <3> QED
      BY <3>1, <3>2
  <2>4. \A x \in Users : \A w \in toldOf'[x] : x \in DOMAIN file' /\ w = file'[x]
    <3>1. CASE UNCHANGED toldOf
      BY <2>1, <2>2, <3>1 DEF Wallets
    <3>2. CASE L!getOrCreateAddress(u) /\ toldOf' = [toldOf EXCEPT ![u] = @ \union {L!addressOf(u)}]
      <4>1. u \in DOMAIN file' /\ file'[u] = L!addressOf(u)
        BY <2>1, <3>2, WalletGot
      <4>2. \A x \in Users : toldOf'[x] = IF x = u THEN toldOf[u] \union {L!addressOf(u)} ELSE toldOf[x]
        BY <2>1, <3>2 DEF BotShape
      <4> QED
        BY <2>1, <2>2, <4>1, <4>2 DEF Wallets
    <3> QED
      BY <3>1, <3>2
  <2> QED
    BY <1>2, <2>1, <2>2, <2>3, <2>4 DEF Wallets
<1>5. \A x \in Users : x \notin muddled' => InFlow(userStates'[x], inFlow'[x])
  BY <1>2 DEF BotInv
<1>6. L!MovedAsAsked'
  BY DEF BotInv, L!MovedAsAsked, QuestionsOf
<1>7. \A x \in Users : x \notin muddled' => InFlow(userStates[x], inFlow[x])'
  BY <1>5 DEF InFlow, QuestionsOf
<1> QED
  BY <1>1, <1>3, <1>4, <1>6, <1>7 DEF BotInv

(* A flow that is over leaves nothing behind; else it goes on.             *)
LEMMA EndOfFlow ==
    ASSUME BotInv, NEW u \in Users, NEW asked \in BOOLEAN, L!endFlow(u, asked),
           UNCHANGED <<file, _data, created, cut>> \/ L!getOrCreateAddress(u),
           UNCHANGED <<toldOf, muddled>>,
           \/ UNCHANGED moved
           \/ moved'.by = u /\ (u \notin muddled => {moved'.first, moved'.second} \subseteq QuestionsOf(moved'.flow))
    PROVE  BotInv'
<1>1. PICK st, g : st = (IF asked THEN L!Nobody ELSE userStates[u]) /\ g = (IF asked THEN "none" ELSE inFlow[u])
  OBVIOUS
<1>2. userStates' = [userStates EXCEPT ![u] = st] /\ inFlow' = [inFlow EXCEPT ![u] = g]
  BY <1>1 DEF L!endFlow, L!updateUserState, L!cleared, BotInv, BotShape
<1>3. Talk(st) /\ st.address \in {0, userStates[u].address}
  BY <1>1, NobodyTalks DEF BotInv, BotShape
<1>4. u \notin muddled' => InFlow(st, g)
  BY <1>1 DEF L!Nobody, InFlow, BotInv
<1> QED
  BY <1>2, <1>3, <1>4, TurnKeeps

(* A transfer or trade is done in the flow the conversation is in, after   *)
(* the second of its questions.                                            *)
LEMMA MoveKeeps ==
    ASSUME BotInv, NEW u \in Users, NEW flow, NEW amount, NEW from, NEW to, NEW can,
           NEW done1 \in BOOLEAN, NEW told1 \in BOOLEAN,
           L!move(u, flow, amount, from, to, can, done1, told1), L!getOrCreateAddress(u),
           UNCHANGED <<toldOf, muddled>>,
           userStates[u].last # "none",
           userStates[u].amount # 0 \/ userStates[u].asset # "none",
           u \notin muddled => inFlow[u] = flow /\ flow # "none"
    PROVE  BotInv'
<1>1. \/ UNCHANGED moved
      \/ moved'.by = u /\ (u \notin muddled => {moved'.first, moved'.second} \subseteq QuestionsOf(moved'.flow))
  <2>1. u \notin muddled => {userStates[u].answered, userStates[u].last} \subseteq QuestionsOf(flow)
    BY DEF BotInv, InFlow
  <2>2. ~done1 => UNCHANGED moved
    BY DEF L!move
  <2>3. done1 => moved' = [flow |-> flow, first |-> userStates[u].answered,
                           second |-> userStates[u].last, by |-> u]
    BY DEF L!move
  <2> QED
    BY <2>1, <2>2, <2>3
<1>2. CASE told1
  <2>1. L!endFlow(u, TRUE)
    BY <1>2 DEF L!move
  <2> QED
    BY <1>1, <2>1, EndOfFlow
<1>3. CASE ~told1
  <2>0. PICK said \in {"note", userStates[u].last} :
            /\ L!updateUserState(u, [userStates[u] EXCEPT !.address = L!addressOf(u), !.last = said])
            /\ UNCHANGED inFlow
    BY <1>3 DEF L!move
  <2>1. PICK st : st = [userStates[u] EXCEPT !.address = L!addressOf(u), !.last = said]
    OBVIOUS
  <2>2. userStates' = [userStates EXCEPT ![u] = st] /\ inFlow' = [inFlow EXCEPT ![u] = inFlow[u]]
    BY <2>0, <2>1 DEF L!updateUserState, BotInv, BotShape
  <2>3. /\ Talk(st) /\ st.address = L!addressOf(u) /\ st.last \in {"note", userStates[u].last}
        /\ st.requested = userStates[u].requested /\ st.amount = userStates[u].amount
        /\ st.asset = userStates[u].asset /\ st.answered = userStates[u].answered
    <3>1. PICK s : s = userStates[u] /\ Talk(s)
      BY DEF BotInv, BotShape
    <3>2. st = Conversation(L!addressOf(u), said, s.requested, s.amount, s.asset, s.answered)
      BY <2>1, <3>1 DEF Talk, Conversation
    <3> QED
      BY <3>1, <3>2, TalkOf
  <2>4. u \notin muddled' => InFlow(st, inFlow[u])
    BY <2>3 DEF InFlow, BotInv, QuestionsOf
  <2> QED
    BY <1>1, <2>2, <2>3, <2>4, TurnKeeps
<1> QED
  BY <1>2, <1>3

(* A reply is taken for the flow that the conversation is in.              *)
LEMMA TakenRight ==
    ASSUME BotInv, NEW u \in Users, NEW flow \in L!Flows, L!reply(u, flow), u \notin muddled
    PROVE  inFlow[u] = flow
  BY DEF BotInv, InFlow, L!reply, L!takenFor, L!Flows

LEMMA AnswerKeeps ==
    ASSUME BotInv, NEW u \in Users, NEW n \in Int, NEW tells \in BOOLEAN, L!answer(u, n, tells)
    PROVE  BotInv'
<1>1. PICK st : st = [userStates[u] EXCEPT !.address = L!addressOf(u), !.last = IF n > 0 THEN "note" ELSE @]
  OBVIOUS
<1>2. /\ L!getOrCreateAddress(u) /\ userStates' = [userStates EXCEPT ![u] = st]
      /\ inFlow' = [inFlow EXCEPT ![u] = inFlow[u]] /\ UNCHANGED <<moved, muddled>>
      /\ \/ UNCHANGED toldOf
         \/ toldOf' = [toldOf EXCEPT ![u] = @ \union {L!addressOf(u)}]
  BY <1>1 DEF L!answer, L!updateUserState, BotInv, BotShape
<1>3. /\ Talk(st) /\ st.address = L!addressOf(u) /\ st.last \in {"note", userStates[u].last}
      /\ st.requested = userStates[u].requested /\ st.amount = userStates[u].amount
      /\ st.asset = userStates[u].asset /\ st.answered = userStates[u].answered
  <2>1. PICK s : s = userStates[u] /\ Talk(s)
    BY DEF BotInv, BotShape
  <2>2. st = Conversation(L!addressOf(u), IF n > 0 THEN "note" ELSE s.last,
                          s.requested, s.amount, s.asset, s.answered)
    BY <1>1, <2>1 DEF Talk, Conversation
  <2> QED
    BY <2>1, <2>2, TalkOf
<1>4. u \notin muddled' => InFlow(st, inFlow[u])
  BY <1>2, <1>3 DEF InFlow, BotInv, QuestionsOf
<1> QED
  BY <1>2, <1>3, <1>4, TurnKeeps

LEMMA RequestKeeps ==
    ASSUME BotInv, NEW u \in Users, NEW flow \in L!Flows, NEW told1 \in BOOLEAN, L!Request(u, flow, told1)
    PROVE  BotInv'
<1>1. PICK st : st = [userStates[u] EXCEPT !.requested = @ \union {flow},
                                           !.last = IF told1 THEN L!firstQuestion[flow] ELSE @]
  OBVIOUS
<1>2. /\ userStates' = [userStates EXCEPT ![u] = st] /\ inFlow' = [inFlow EXCEPT ![u] = flow]
      /\ UNCHANGED <<file, _data, created, cut, moved, toldOf>>
      /\ muddled' = IF inFlow[u] # "none" THEN muddled \union {u} ELSE muddled
  BY <1>1 DEF L!Request, L!updateUserState, L!wallets
<1>3. /\ Talk(st) /\ st.address = userStates[u].address
      /\ st.last \in {L!firstQuestion[flow], userStates[u].last}
      /\ st.requested = userStates[u].requested \union {flow} /\ st.amount = userStates[u].amount
      /\ st.asset = userStates[u].asset
  <2>1. PICK s : s = userStates[u] /\ Talk(s)
    BY DEF BotInv, BotShape
  <2>2. st = Conversation(s.address, IF told1 THEN L!firstQuestion[flow] ELSE s.last,
                          s.requested \union {flow}, s.amount, s.asset, s.answered)
    BY <1>1, <2>1 DEF Talk, Conversation
  <2> QED
    BY <2>1, <2>2, TalkOf
<1>4. u \notin muddled' => InFlow(st, flow)
  <2> SUFFICES ASSUME u \notin muddled' PROVE InFlow(st, flow)
    OBVIOUS
  <2>1. inFlow[u] = "none" /\ u \notin muddled
    BY <1>2
  <2>2. /\ userStates[u].requested = {} /\ userStates[u].amount = 0 /\ userStates[u].asset = "none"
        /\ userStates[u].last \in {"none", "note"}
    BY <2>1 DEF BotInv, InFlow
  <2> QED
    BY <1>3, <2>2 DEF InFlow, QuestionsOf, L!Flows
<1> QED
  BY <1>2, <1>3, <1>4, TurnKeeps

LEMMA WithdrawalKeeps ==
    ASSUME BotInv, NEW u \in Users, NEW t, NEW told1 \in BOOLEAN, L!WithdrawalAmount(u, t, told1)
    PROVE  BotInv'
<1>1. L!reply(u, "withdraw") /\ UNCHANGED <<moved, toldOf, muddled>>
  BY DEF L!WithdrawalAmount
<1>2. CASE L!endFlow(u, told1)
  <2>1. UNCHANGED <<file, _data, created, cut>> \/ L!getOrCreateAddress(u)
    BY DEF L!WithdrawalAmount, L!wallets
  <2> QED
    BY <1>1, <1>2, <2>1, EndOfFlow
<1>3. CASE ~L!endFlow(u, told1)
  <2>1. PICK st : st = IF ~told1 THEN [userStates[u] EXCEPT !.address = L!addressOf(u)]
                       ELSE [userStates[u] EXCEPT !.address = L!addressOf(u), !.amount = L!parseFloat(t),
                                                  !.answered = userStates[u].last, !.last = "destination"]
    OBVIOUS
  <2>2. L!getOrCreateAddress(u) /\ L!updateUserState(u, st) /\ UNCHANGED inFlow
    BY <1>3, <2>1 DEF L!WithdrawalAmount
  <2>3. userStates' = [userStates EXCEPT ![u] = st] /\ inFlow' = [inFlow EXCEPT ![u] = inFlow[u]]
    BY <2>2 DEF L!updateUserState, BotInv, BotShape
  <2>4. /\ Talk(st) /\ st.address = L!addressOf(u)
        /\ st.requested = userStates[u].requested /\ st.asset = userStates[u].asset
        /\ \/ /\ st.last = userStates[u].last /\ st.amount = userStates[u].amount
              /\ st.answered = userStates[u].answered
           \/ st.answered = userStates[u].last /\ st.last = "destination"
    <3>1. PICK s : s = userStates[u] /\ Talk(s)
      BY DEF BotInv, BotShape
    <3>2. CASE told1
      <4>1. st = Conversation(L!addressOf(u), "destination", s.requested, L!parseFloat(t), s.asset, s.last)
        BY <2>1, <3>1, <3>2 DEF Talk, Conversation
      <4> QED
        BY <3>1, <4>1, TalkOf
    <3>3. CASE ~told1
      <4>1. st = Conversation(L!addressOf(u), s.last, s.requested, s.amount, s.asset, s.answered)
        BY <2>1, <3>1, <3>3 DEF Talk, Conversation
      <4> QED
        BY <3>1, <4>1, TalkOf
    <3> QED
      BY <3>2, <3>3
  <2>5. u \notin muddled => InFlow(st, inFlow[u])
    <3> SUFFICES ASSUME u \notin muddled PROVE InFlow(st, inFlow[u])
      OBVIOUS
    <3>1. inFlow[u] = "withdraw"
      BY <1>1, TakenRight DEF L!Flows
    <3>2. InFlow(userStates[u], "withdraw") /\ userStates[u].last # "none"
      BY <1>1, <3>1 DEF BotInv, L!reply
    <3> QED
      BY <2>4, <3>1, <3>2 DEF InFlow, QuestionsOf, L!secondQuestion
  <2> QED
    BY <1>1, <2>2, <2>3, <2>4, <2>5, TurnKeeps
<1> QED
  BY <1>2, <1>3

LEMMA DestinationKeeps ==
    ASSUME BotInv, NEW u \in Users, NEW t, NEW done1 \in BOOLEAN, NEW told1 \in BOOLEAN,
           L!Destination(u, t, done1, told1)
    PROVE  BotInv'
<1>1. L!reply(u, "withdraw") /\ userStates[u].amount # 0 /\ UNCHANGED <<toldOf, muddled>>
  BY DEF L!Destination
<1>2. u \notin muddled => inFlow[u] = "withdraw"
  BY <1>1, TakenRight DEF L!Flows
<1>3. CASE L!isDestination(t)
  <2>1. /\ L!getOrCreateAddress(u)
        /\ L!move(u, "withdraw", userStates[u].amount, "eth", "out", TRUE, done1, told1)
    BY <1>3 DEF L!Destination
  <2>2. PICK amount : L!move(u, "withdraw", amount, "eth", "out", TRUE, done1, told1)
    BY <2>1
  <2> QED
    BY <1>1, <1>2, <2>1, <2>2, MoveKeeps DEF L!reply
<1>4. CASE ~L!isDestination(t)
  <2>1. L!endFlow(u, told1) /\ UNCHANGED <<file, _data, created, cut, moved>>
    BY <1>4 DEF L!Destination, L!wallets
  <2> QED
    BY <1>1, <2>1, EndOfFlow
<1> QED
  BY <1>3, <1>4

LEMMA AssetKeeps ==
    ASSUME BotInv, NEW u \in Users, NEW flow \in L!Flows, NEW t, NEW told1 \in BOOLEAN,
           L!TradeAsset(u, flow, t, told1)
    PROVE  BotInv'
<1>1. L!reply(u, flow) /\ UNCHANGED <<file, _data, created, cut, moved, toldOf, muddled>>
  BY DEF L!TradeAsset, L!wallets
<1>2. CASE L!endFlow(u, told1)
  BY <1>1, <1>2, EndOfFlow
<1>3. CASE ~L!endFlow(u, told1)
  <2>1. PICK st : st = [userStates[u] EXCEPT !.asset = t.kind, !.answered = userStates[u].last,
                                             !.last = IF told1 THEN L!secondQuestion[flow] ELSE @]
    OBVIOUS
  <2>2. L!updateUserState(u, st) /\ UNCHANGED inFlow
    BY <1>3, <2>1 DEF L!TradeAsset
  <2>3. userStates' = [userStates EXCEPT ![u] = st] /\ inFlow' = [inFlow EXCEPT ![u] = inFlow[u]]
    BY <2>2 DEF L!updateUserState, BotInv, BotShape
  <2>4. /\ Talk(st) /\ st.address = userStates[u].address /\ st.requested = userStates[u].requested
        /\ st.last \in {L!secondQuestion[flow], userStates[u].last} /\ st.answered = userStates[u].last
    <3>1. PICK s : s = userStates[u] /\ Talk(s)
      BY DEF BotInv, BotShape
    <3>2. st = Conversation(s.address, IF told1 THEN L!secondQuestion[flow] ELSE s.last,
                            s.requested, s.amount, t.kind, s.last)
      BY <2>1, <3>1 DEF Talk, Conversation
    <3> QED
      BY <3>1, <3>2, TalkOf
  <2>5. u \notin muddled => InFlow(st, inFlow[u])
    <3> SUFFICES ASSUME u \notin muddled PROVE InFlow(st, inFlow[u])
      OBVIOUS
    <3>1. inFlow[u] = flow /\ flow # "none"
      BY <1>1, TakenRight DEF L!Flows
    <3>2. InFlow(userStates[u], flow) /\ userStates[u].last # "none"
      BY <1>1, <3>1 DEF BotInv, L!reply
    <3> QED
      BY <2>4, <3>1, <3>2 DEF InFlow, QuestionsOf
  <2> QED
    BY <1>1, <2>3, <2>4, <2>5, TurnKeeps
<1> QED
  BY <1>2, <1>3

LEMMA TradeKeeps ==
    ASSUME BotInv, NEW u \in Users, NEW flow \in L!Flows, NEW t, NEW done1 \in BOOLEAN,
           NEW told1 \in BOOLEAN, L!TradeAmount(u, flow, t, done1, told1)
    PROVE  BotInv'
<1>1. /\ L!reply(u, flow) /\ userStates[u].asset # "none" /\ L!getOrCreateAddress(u)
      /\ UNCHANGED <<toldOf, muddled>>
  BY DEF L!TradeAmount
<1>2. \/ L!endFlow(u, told1) /\ UNCHANGED moved
      \/ \E amount, from, to, can : L!move(u, flow, amount, from, to, can, done1, told1)
  BY DEF L!TradeAmount
<1>3. CASE L!endFlow(u, told1) /\ UNCHANGED moved
  BY <1>1, <1>3, EndOfFlow
<1>4. ASSUME NEW amount, NEW from, NEW to, NEW can, L!move(u, flow, amount, from, to, can, done1, told1)
      PROVE  BotInv'
  <2>1. u \notin muddled => inFlow[u] = flow /\ flow # "none"
    BY <1>1, TakenRight DEF L!Flows
  <2> QED
    BY <1>1, <1>4, <2>1, MoveKeeps DEF L!reply
<1> QED
  BY <1>2, <1>3, <1>4

(* A restart forgets the conversations; what it finds of the wallets is    *)
(* the file, unless that was being written.                                *)
LEMMA RestartKeeps ==
    ASSUME BotInv, L!restarted, created' \in Nat,
           cut' \/ (~cut /\ _data' = file /\ UNCHANGED <<file, created>>)
    PROVE  BotInv'
<1>1. /\ userStates' = [u \in Users |-> L!Nobody] /\ inFlow' = [u \in Users |-> "none"]
      /\ UNCHANGED <<moved, toldOf, muddled>>
  BY DEF L!restarted
<1>2. BotShape'
  <2>1. \A u \in Users : Talk(userStates[u])'
    BY <1>1, NobodyTalks DEF Talk
  <2> QED
    BY <1>1, <2>1 DEF BotInv, BotShape
<1>3. ~cut' => Wallets'
  BY <1>1 DEF BotInv, Wallets, L!Nobody
<1>4. \A u \in Users : u \notin muddled' => InFlow(userStates[u], inFlow[u])'
  BY <1>1 DEF InFlow, L!Nobody
<1>5. L!MovedAsAsked'
  BY <1>1 DEF BotInv, L!MovedAsAsked
<1> QED
  BY <1>2, <1>3, <1>4, <1>5 DEF BotInv

LEMMA BotStep == BotInv /\ [L!Next]_botVars => BotInv'
<1> SUFFICES ASSUME BotInv, [L!Next]_botVars PROVE BotInv'
  OBVIOUS
<1>1. CASE L!Restart
  <2>1. L!restarted /\ _data' = file /\ UNCHANGED <<file, created, cut>>
    BY <1>1 DEF L!Restart, L!loaded
  <2>2. created' \in Nat
    BY <2>1 DEF BotInv, BotShape
  <2> QED
    BY <2>1, <2>2, RestartKeeps
<1>2. ASSUME NEW u \in Users, L!RestartInWrite(u) PROVE BotInv'
  <2>1. L!restarted /\ created' = created + 1 /\ cut'
    BY <1>2 DEF L!RestartInWrite
  <2>2. created' \in Nat
    BY <2>1 DEF BotInv, BotShape
  <2> QED
    BY <2>1, <2>2, RestartKeeps
<1>3. ASSUME NEW u \in Users, NEW n \in 0..3,
             \/ L!handleStart(u, n) \/ L!handleCheckBalance(u, n)
             \/ L!handleDeposit(u, n) \/ L!handleExportKey(u, n)
      PROVE  BotInv'
  <2>1. \E tells \in BOOLEAN : L!answer(u, n, tells)
    BY <1>3 DEF L!handleStart, L!handleCheckBalance, L!handleDeposit, L!handleExportKey
  <2> QED
    BY <2>1, AnswerKeeps
<1>4. ASSUME NEW u \in Users, NEW b \in BOOLEAN, L!handlePinMessage(u, b) PROVE BotInv'
  BY <1>4, EndOfFlow DEF L!handlePinMessage, L!wallets
<1>5. ASSUME NEW u \in Users, NEW flow \in L!Flows, NEW b \in BOOLEAN, L!Request(u, flow, b) PROVE BotInv'
  BY <1>5, RequestKeeps
<1>6. ASSUME NEW u \in Users, NEW t \in Texts, NEW b \in BOOLEAN, L!WithdrawalAmount(u, t, b) PROVE BotInv'
  BY <1>6, WithdrawalKeeps
<1>7. ASSUME NEW u \in Users, NEW t \in Texts, NEW d \in BOOLEAN, NEW b \in BOOLEAN, L!Destination(u, t, d, b)
      PROVE  BotInv'
  BY <1>7, DestinationKeeps
<1>8. ASSUME NEW u \in Users, NEW flow \in L!Flows, NEW t \in Texts, NEW b \in BOOLEAN,
             L!TradeAsset(u, flow, t, b)
      PROVE  BotInv'
  BY <1>8, AssetKeeps
<1>9. ASSUME NEW u \in Users, NEW flow \in L!Flows, NEW t \in Texts, NEW d \in BOOLEAN, NEW b \in BOOLEAN,
             L!TradeAmount(u, flow, t, d, b)
      PROVE  BotInv'
  BY <1>9, TradeKeeps
<1>10. CASE UNCHANGED botVars
  BY <1>10 DEF botVars, BotInv, BotShape, Talk, Wallets, InFlow, QuestionsOf, L!MovedAsAsked
<1> QED
  BY <1>1, <1>2, <1>3, <1>4, <1>5, <1>6, <1>7, <1>8, <1>9, <1>10 DEF L!Next, L!botVars, botVars, L!wallets

(* A wallet that a user was told of is the one in the file, over restarts  *)
(* and whatever other users do, unless a write was cut off; and what is    *)
(* moved was asked for by replies of its own flow, of a user who begins    *)
(* none in the middle of another (agents/coinbase/lumenlink-livebot).      *)
THEOREM WalletsAndMoves == Spec => []BotSound
<1>1. Init => (part = "bot" => BotInv)
  <2> SUFFICES ASSUME L!Init PROVE BotInv
    BY DEF Init
  <2>1. BotShape /\ L!MovedAsAsked
    BY NobodyTalks DEF L!Init, BotShape, L!MovedAsAsked
  <2>2. Wallets
    BY DEF L!Init, Wallets, L!Nobody
  <2>3. \A u \in Users : InFlow(userStates[u], inFlow[u])
    BY DEF L!Init, InFlow, L!Nobody
  <2> QED
    BY <2>1, <2>2, <2>3 DEF BotInv
<1>2. (part = "bot" => BotInv) /\ [Next]_vars => (part = "bot" => BotInv)'
  BY BotStep, BotMoves
<1>3. (part = "bot" => BotInv) => BotSound
  <2> SUFFICES ASSUME BotInv PROVE L!WalletKept /\ L!MovedAsAsked
    BY DEF BotSound
  <2>1. L!WalletKept
    BY DEF BotInv, Wallets, L!WalletKept
  <2> QED
    BY <2>1 DEF BotInv
<1> QED
  BY <1>1, <1>2, <1>3, PTL DEF Spec

-----------------------------------------------------------------------------
(* Dashboard, for any configuration and any number of requests.  The page  *)
(* has one request for data at a time, and its answer is no older than     *)
(* what it shows.                                                          *)

(* A behaviour of the control page is one of Dashboard.                    *)
LEMMA PanelMoves ==
    [Next]_vars => part' = part /\ (part = "panel" => [D!Next]_panelVars)
  BY DEF Next, vars

Timed ==
    /\ "strategyIntervalMs" \in DOMAIN panel /\ "strategy" \in DOMAIN routeTimers
    /\ D!TimerFollows

Fetched ==
    /\ changes \in Nat /\ data.at \in Int /\ data.at <= changes
    /\ \A f, g \in fetches : f = g
    /\ \A f \in fetches : f # D!Sent => f.at \in Int /\ data.at <= f.at /\ f.at <= changes

LEMMA ConfigTimed == ASSUME Timed, NEW body, D!PostConfig(body) PROVE Timed'
<1>1. PICK patch : D!onConfigUpdate(patch)
  BY DEF D!PostConfig
<1>2. routeTimers' = [routeTimers EXCEPT !.strategy = D!rescheduled(patch)]
  BY <1>1 DEF D!onConfigUpdate
<1>3. routeTimers'.strategy = D!rescheduled(patch) /\ "strategy" \in DOMAIN routeTimers'
  BY <1>2 DEF Timed
<1>4. /\ "strategyIntervalMs" \in DOMAIN panel'
      /\ panel'.strategyIntervalMs = IF "strategyIntervalMs" \in DOMAIN patch THEN patch["strategyIntervalMs"]
                                     ELSE panel.strategyIntervalMs
  BY <1>1 DEF D!onConfigUpdate, Timed
<1> QED
  BY <1>3, <1>4 DEF Timed, D!TimerFollows, D!rescheduled

LEMMA SwitchTimed == ASSUME Timed, NEW name, D!PostSwitch(name) PROVE Timed'
<1>1. panel' = [panel EXCEPT !.strategy = name] /\ routeTimers' = routeTimers
  BY DEF D!PostSwitch
<1>2. "strategyIntervalMs" \in DOMAIN panel' /\ panel'.strategyIntervalMs = panel.strategyIntervalMs
  BY <1>1 DEF Timed
<1> QED
  BY <1>1, <1>2 DEF Timed, D!TimerFollows

LEMMA TimedStep == Timed /\ [D!Next]_panelVars => Timed'
<1> SUFFICES ASSUME Timed, [D!Next]_panelVars PROVE Timed'
  OBVIOUS
<1>1. ASSUME UNCHANGED <<panel, routeTimers>> PROVE Timed'
  BY <1>1 DEF Timed, D!TimerFollows
<1>2. CASE D!Other
  <2>1. \/ \E body : D!PostConfig(body)
        \/ \E name : D!PostSwitch(name)
        \/ D!PostTrigger \/ D!PostReset
    BY <1>2 DEF D!Other
  <2> QED
    BY <1>1, <2>1, ConfigTimed, SwitchTimed DEF D!PostTrigger, D!PostReset
<1>3. CASE D!Restart
  BY <1>3, PanelAssumption DEF D!Restart, Timed, D!TimerFollows
<1>4. CASE D!Serve
  <2>1. \/ \E body : D!PostConfig(body)
        \/ D!PostTrigger \/ D!PostReset \/ UNCHANGED D!server
    BY <1>4 DEF D!Serve
  <2> QED
    BY <1>1, <2>1, ConfigTimed DEF D!PostTrigger, D!PostReset, D!server
<1>5. CASE \/ D!Refresh \/ D!GetData \/ D!GetConfig \/ D!PostFails \/ D!PostReturns
           \/ \E f \in fetches : D!Land(f) \/ D!FetchFails(f)
           \/ \E v \in formFetches : D!FillForm(v)
           \/ \E v \in PollLimits : D!Type(v)
           \/ \E kind \in {"save", "trigger", "reset", "unwired"} : D!Press(kind)
  BY <1>1, <1>5 DEF D!Refresh, D!GetData, D!GetConfig, D!PostFails, D!PostReturns, D!Land, D!FetchFails,
                    D!FillForm, D!Type, D!Press, D!server
<1>6. CASE UNCHANGED panelVars
  BY <1>1, <1>6 DEF panelVars
<1> QED
  BY <1>2, <1>3, <1>4, <1>5, <1>6 DEF D!Next, D!panelVars, D!server, D!page, panelVars

(* A step of the page or of the program, and that none of them takes the   *)
(* page back.                                                              *)
LEMMA FetchedStep == Fetched /\ [D!Next]_panelVars => Fetched' /\ D!NeverGoesBack
<1> SUFFICES ASSUME Fetched, [D!Next]_panelVars PROVE Fetched' /\ D!NeverGoesBack
  OBVIOUS
<1>1. ASSUME UNCHANGED <<data, fetches>>, UNCHANGED changes \/ D!changed PROVE Fetched' /\ D!NeverGoesBack
  BY <1>1 DEF Fetched, D!NeverGoesBack, D!changed
<1>2. ASSUME D!fetchData, UNCHANGED <<data, changes>> PROVE Fetched' /\ D!NeverGoesBack
  BY <1>2 DEF Fetched, D!NeverGoesBack, D!fetchData, D!mayFetch
<1>3. ASSUME NEW f \in fetches, fetches' = fetches \ {f}, UNCHANGED changes, data' = data \/ (data' = f /\ f # D!Sent)
      PROVE  Fetched' /\ D!NeverGoesBack
  BY <1>3 DEF Fetched, D!NeverGoesBack
<1>4. CASE D!Other \/ D!Restart \/ D!Serve
  <2>1. UNCHANGED <<data, fetches>> /\ (UNCHANGED changes \/ D!changed)
    BY <1>4 DEF D!Other, D!Restart, D!Serve, D!page, D!server
  <2> QED
    BY <1>1, <2>1
<1>5. CASE D!Refresh \/ D!PostReturns
  BY <1>2, <1>5 DEF D!Refresh, D!PostReturns, D!server
<1>6. CASE D!GetData
  <2>1. PICK new : new = [at |-> changes, killSwitch |-> panel.killSwitch, halted |-> halted, limit |-> panel.limit]
    OBVIOUS
  <2>2. D!Sent \in fetches /\ fetches' = (fetches \ {D!Sent}) \union {new} /\ UNCHANGED <<data, changes>>
    BY <1>6, <2>1 DEF D!GetData, D!server
  <2>3. new.at = changes /\ fetches' = {new}
    BY <2>1, <2>2 DEF Fetched
  <2> QED
    BY <2>2, <2>3 DEF Fetched, D!NeverGoesBack
<1>7. ASSUME NEW f \in fetches, D!Land(f) \/ D!FetchFails(f) PROVE Fetched' /\ D!NeverGoesBack
  BY <1>3, <1>7 DEF D!Land, D!FetchFails, D!server
<1>8. CASE \/ D!GetConfig \/ D!PostFails
           \/ \E v \in formFetches : D!FillForm(v)
           \/ \E v \in PollLimits : D!Type(v)
           \/ \E kind \in {"save", "trigger", "reset", "unwired"} : D!Press(kind)
  BY <1>1, <1>8 DEF D!GetConfig, D!PostFails, D!FillForm, D!Type, D!Press, D!server
<1>9. CASE UNCHANGED panelVars
  BY <1>1, <1>9 DEF panelVars
<1> QED
  BY <1>4, <1>5, <1>6, <1>7, <1>8, <1>9 DEF D!Next, D!panelVars, D!server, D!page, panelVars

(* The page never shows an older state of the program after a newer one,   *)
(* and the strategy's timer runs at the interval that is configured        *)
(* (frontend store/dashboardStore.ts, src/index.ts).                       *)
THEOREM PanelIsSound == Spec => PanelSound
<1>1. Init => (part = "panel" => Timed /\ Fetched)
  <2> SUFFICES ASSUME D!Init PROVE Timed /\ Fetched
    BY DEF Init
  <2>1. Timed
    BY PanelAssumption DEF D!Init, Timed, D!TimerFollows
  <2>2. data.at = -1 /\ fetches = {} /\ changes = 0
    BY DEF D!Init, D!Nothing
  <2> QED
    BY <2>1, <2>2 DEF Fetched
<1>2. (part = "panel" => Timed /\ Fetched) /\ [Next]_vars => (part = "panel" => Timed /\ Fetched)'
  BY TimedStep, FetchedStep, PanelMoves
<1>3. (part = "panel" => Timed /\ Fetched) => (part = "panel" => D!TimerFollows)
  BY DEF Timed
<1>4. (part = "panel" => Timed /\ Fetched) /\ [Next]_vars => [part = "panel" => D!NeverGoesBack]_vars
  BY FetchedStep, PanelMoves
<1> QED
  BY <1>1, <1>2, <1>3, <1>4, PTL DEF Spec, PanelSound

-----------------------------------------------------------------------------
(* SteppedSignals, for any symbols, grid and interval.                     *)

(* A behaviour of the two strategies is one of SteppedSignals.             *)
LEMMA SteppedMoves ==
    [Next]_vars => part' = part /\ (part = "stepped" => [S!Next]_steppedVars)
  BY DEF Next, vars

Candles ==
    /\ candles = [s \in Symbols |-> candles[s]]
    /\ \A s \in Symbols : candles[s].time \in Int /\ candles[s].close \in Int
    /\ lastGridIndex \in Int

(* The last buy is the one the next is held against.                       *)
BuysApart ==
    /\ lastBuyTime \in Int /\ bought \in Int \X Int
    /\ bought[2] # 0 => bought[2] = lastBuyTime
    /\ bought[1] # 0 => bought[2] - bought[1] >= BaseInterval

Signal == [side : -1..1, level : Int]

(* The grid is left at the level of its last signal.                       *)
Laddered ==
    /\ signalled \in Signal \X Signal
    /\ signalled[2].side # 0 => lastGridIndex = signalled[2].level /\ lastGridIndex >= -GridLevels
    /\ signalled[1].side # 0 => signalled[2].side * (signalled[1].level - signalled[2].level) > 0

SteppedInv == Candles /\ BuysApart /\ Laddered

LEMMA GridIndexType == ASSUME NEW c, c.close \in Int
    PROVE  S!findGridIndex(c) \in Int /\ S!findGridIndex(c) >= -GridLevels
<1>1. \A x, y \in Int : S!Max({x, y}) \in Int /\ S!Max({x, y}) >= x /\ S!Min({x, y}) \in Int
  <2> SUFFICES ASSUME NEW x \in Int, NEW y \in Int PROVE S!Max({x, y}) \in Int /\ S!Max({x, y}) >= x /\ S!Min({x, y}) \in Int
    OBVIOUS
  <2>1. /\ \E m \in {x, y} : \A z \in {x, y} : m >= z
        /\ \E m \in {x, y} : \A z \in {x, y} : m =< z
    OBVIOUS
  <2>2. S!Max({x, y}) \in {x, y} /\ S!Max({x, y}) >= x /\ S!Min({x, y}) \in {x, y}
    BY <2>1 DEF S!Max, S!Min
  <2> QED
    BY <2>2
<1>2. PICK edge : edge = GridLevels /\ edge \in Int /\ -edge \in Int
  BY SteppedAssumption
<1>3. S!Min({edge, c.close}) \in Int
  BY <1>1, <1>2
<1>4. S!Max({-edge, S!Min({edge, c.close})}) \in Int /\ S!Max({-edge, S!Min({edge, c.close})}) >= -edge
  BY <1>1, <1>2, <1>3
<1> QED
  BY <1>2, <1>4 DEF S!findGridIndex

LEMMA SteppedStep == SteppedInv /\ [S!Next]_steppedVars => SteppedInv'
<1> SUFFICES ASSUME SteppedInv, [S!Next]_steppedVars PROVE SteppedInv'
  OBVIOUS
<1> USE SteppedAssumption
<1>1. ASSUME NEW s \in Symbols, S!NewCandle(s) PROVE SteppedInv'
  <2>1. PICK c \in S!Candle : c.time > candles[s].time /\ candles' = [candles EXCEPT ![s] = c]
    BY <1>1 DEF S!NewCandle
  <2>2. UNCHANGED <<lastGridIndex, lastBuyTime, signalled, bought>>
    BY <1>1 DEF S!NewCandle
  <2>3. c.time \in Int /\ c.close \in Int
    BY DEF S!Candle, S!Trending
  <2>4. \A x \in Symbols : candles'[x] = IF x = s THEN c ELSE candles[x]
    BY <2>1 DEF SteppedInv, Candles
  <2>5. Candles'
    <3>1. candles' = [x \in Symbols |-> candles'[x]]
      BY <2>1 DEF SteppedInv, Candles
    <3> QED
      BY <2>2, <2>3, <2>4, <3>1 DEF SteppedInv, Candles
  <2>6. BuysApart'
    BY <2>2 DEF SteppedInv, BuysApart
  <2>7. Laddered'
    BY <2>2 DEF SteppedInv, Laddered
  <2> QED
    BY <2>5, <2>6, <2>7 DEF SteppedInv
<1>2. ASSUME NEW s \in Symbols, NEW fearGreed \in {50, 80}, S!OnCandle(s, fearGreed) PROVE SteppedInv'
  <2>1. PICK c : c = candles[s] /\ c.time \in Int /\ c.close \in Int
    BY DEF SteppedInv, Candles
  <2>2. PICK side : side = S!gridSignal(c)
    OBVIOUS
  <2>3. PICK level : level = S!findGridIndex(c) /\ level \in Int /\ level >= -GridLevels
    BY <2>1, GridIndexType
  <2>4. PICK buys : buys = S!dcaBuys(c, fearGreed)
    OBVIOUS
  <2>5. /\ signalled' = IF side # 0 THEN <<signalled[2], [side |-> side, level |-> level]>> ELSE signalled
        /\ lastGridIndex' = S!nextGridIndex(c) /\ lastBuyTime' = S!nextBuyTime(c, fearGreed)
        /\ bought' = IF buys THEN <<bought[2], c.time>> ELSE bought
        /\ candles' = candles
    BY <1>2, <2>1, <2>2, <2>3, <2>4 DEF S!OnCandle
  <2>6. /\ side \in -1..1
        /\ side = 1 => level < lastGridIndex /\ lastGridIndex' = level
        /\ side = -1 => level > lastGridIndex /\ lastGridIndex' = level
    BY <2>2, <2>3, <2>5 DEF S!gridSignal, S!nextGridIndex
  <2>7. side = 0 => lastGridIndex' = lastGridIndex \/ lastGridIndex = -GridLevels - 1
    BY <2>2, <2>3, <2>5 DEF S!gridSignal, S!nextGridIndex, S!Unset, SteppedInv, Candles
  <2>8. lastGridIndex' \in Int
    BY <2>3, <2>5 DEF S!nextGridIndex, SteppedInv, Candles
  <2>9. buys => lastBuyTime' = c.time /\ c.time - lastBuyTime >= BaseInterval
    BY <2>4, <2>5 DEF S!dcaBuys, S!nextBuyTime
  <2>10. ~buys => lastBuyTime' \in {lastBuyTime, c.time} /\ (lastBuyTime # 0 => lastBuyTime' = lastBuyTime)
    BY <2>4, <2>5 DEF S!nextBuyTime
  <2>11. Candles'
    BY <2>5, <2>8 DEF SteppedInv, Candles
  <2>12. BuysApart'
    <3>1. CASE buys
      <4>1. bought'[1] = bought[2] /\ bought'[2] = c.time /\ bought' \in Int \X Int
        BY <2>1, <2>5, <3>1 DEF SteppedInv, BuysApart
      <4> QED
        BY <2>1, <2>9, <3>1, <4>1 DEF SteppedInv, BuysApart
    <3>2. CASE ~buys
      <4>1. bought' = bought
        BY <2>5, <3>2
      <4> QED
        BY <2>1, <2>10, <3>2, <4>1 DEF SteppedInv, BuysApart
    <3> QED
      BY <3>1, <3>2
  <2>13. Laddered'
    <3>1. CASE side # 0
      <4>1. PICK was \in Signal : was = signalled[2]
        BY DEF SteppedInv, Laddered
      <4>2. PICK new \in Signal : new = [side |-> side, level |-> level]
        BY <2>3, <2>6 DEF Signal
      <4>3. signalled' = <<was, new>> /\ new.side = side /\ new.level = level
        BY <2>5, <3>1, <4>1, <4>2
      <4>4. was.side # 0 => was.level = lastGridIndex
        BY <4>1 DEF SteppedInv, Laddered
      <4>5. lastGridIndex' = level /\ level >= -GridLevels
        BY <2>3, <2>6, <3>1
      <4>6. was.side # 0 => side * (was.level - level) > 0
        <5>1. lastGridIndex \in Int
          BY DEF SteppedInv, Candles
        <5>2. CASE side = 1
          BY <2>3, <2>6, <4>4, <5>1, <5>2
        <5>3. CASE side = -1
          BY <2>3, <2>6, <4>4, <5>1, <5>3
        <5> QED
          BY <2>6, <3>1, <5>2, <5>3
      <4> QED
        BY <4>3, <4>5, <4>6 DEF Laddered
    <3>2. CASE side = 0
      <4>1. signalled' = signalled
        BY <2>5, <3>2
      <4>2. signalled[2].side # 0 => lastGridIndex' = signalled[2].level /\ lastGridIndex' >= -GridLevels
        <5>1. GridLevels \in Int /\ lastGridIndex \in Int
          BY DEF SteppedInv, Candles
        <5>2. signalled[2].side # 0 => lastGridIndex # -GridLevels - 1
          BY <5>1 DEF SteppedInv, Laddered
        <5> QED
          BY <2>7, <3>2, <5>2 DEF SteppedInv, Laddered
      <4> QED
        BY <4>1, <4>2 DEF SteppedInv, Laddered
    <3> QED
      BY <3>1, <3>2
  <2> QED
    BY <2>11, <2>12, <2>13 DEF SteppedInv
<1>3. CASE UNCHANGED steppedVars
  BY <1>3 DEF steppedVars, SteppedInv, Candles, BuysApart, Laddered
<1> QED
  BY <1>1, <1>2, <1>3 DEF S!Next, S!vars, steppedVars

(* Whatever the order in which the candles of the symbols are judged, a    *)
(* signal of the grid is for a move away from the level of the one before, *)
(* and two buys of the DCA are at least an interval apart                  *)
(* (strategies/gridTrading.ts, smartDCA.ts).                               *)
THEOREM SignalsAreSpaced == Spec => []SignalsSpaced
<1>1. Init => (part = "stepped" => SteppedInv)
  <2> SUFFICES ASSUME S!Init PROVE SteppedInv
    BY DEF Init
  <2>1. /\ candles = [s \in Symbols |-> [time |-> 1, close |-> 0]] /\ lastGridIndex = -GridLevels - 1
        /\ lastBuyTime = 0 /\ bought = <<0, 0>>
        /\ signalled = <<[side |-> 0, level |-> 0], [side |-> 0, level |-> 0]>>
    BY DEF S!Init, S!Unset, S!NoSignal
  <2>2. Candles
    BY <2>1, SteppedAssumption DEF Candles
  <2>3. BuysApart /\ Laddered
    BY <2>1 DEF BuysApart, Laddered, Signal
  <2> QED
    BY <2>2, <2>3 DEF SteppedInv
<1>2. (part = "stepped" => SteppedInv) /\ [Next]_vars => (part = "stepped" => SteppedInv)'
  BY SteppedStep, SteppedMoves
<1>3. (part = "stepped" => SteppedInv) => SignalsSpaced
  BY DEF SteppedInv, Laddered, BuysApart, SignalsSpaced, S!SignalsSpaced
<1> QED
  BY <1>1, <1>2, <1>3, PTL DEF Spec

-----------------------------------------------------------------------------
(* Sets of numbers: a set of naturals that is not empty has a least one,   *)
(* and a finite one a greatest.                                            *)

LEMMA LeastOf ==
    ASSUME NEW Less, IsWellFoundedOn(Less, Nat), NEW X, X \subseteq Nat, X # {}
    PROVE  \E m \in X : \A x \in X : <<x, m>> \notin Less
  BY WFMin, Zenon

LEMMA LeastIn ==
    ASSUME NEW Less, \A x, y \in Nat : <<x, y>> \in Less <=> x < y,
           NEW X \in SUBSET Nat, \E m \in X : \A x \in X : <<x, m>> \notin Less
    PROVE  \E m \in X : \A x \in X : m <= x
<1>1. \A m, x \in X : <<x, m>> \notin Less => m <= x
  <2> SUFFICES ASSUME NEW m \in X, NEW x \in X, ~(<<x, m>> \in Less) PROVE m <= x
    OBVIOUS
  <2>1. m \in Nat /\ x \in Nat
    OBVIOUS
  <2>2. ~(x < m)
    BY <2>1
  <2> QED
    BY <2>1, <2>2
<1> QED
  BY <1>1

LEMMA Least ==
    ASSUME NEW X \in SUBSET Nat, X # {} PROVE \E m \in X : \A x \in X : m <= x
<1> DEFINE Less == OpToRel(<, Nat)
<1>1. IsWellFoundedOn(Less, Nat)
  BY NatLessThanWellFounded
<1>2. \A x, y \in Nat : <<x, y>> \in Less <=> x < y
  BY DEF OpToRel
<1> HIDE DEF Less
<1>3. \E m \in X : \A x \in X : <<x, m>> \notin Less
  BY <1>1, LeastOf
<1> QED
  BY <1>2, <1>3, LeastIn

LEMMA Greatest ==
    ASSUME NEW X \in SUBSET Nat, X # {}, NEW b \in Nat, \A x \in X : x <= b
    PROVE  \E m \in X : \A x \in X : x <= m
<1> DEFINE Y == {b - x : x \in X}
<1>1. Y \in SUBSET Nat /\ Y # {}
  <2>1. \A x \in X : b - x \in Nat
    OBVIOUS
  <2> QED
    BY <2>1
<1>2. PICK y \in Y : \A z \in Y : y <= z
  <2> HIDE DEF Y
  <2> QED
    BY <1>1, Least
<1>3. PICK m \in X : y = b - m
  OBVIOUS
<1>4. ASSUME NEW x \in X PROVE x <= m
  <2>1. y <= b - x
    BY <1>2
  <2> QED
    BY <1>3, <2>1
<1> QED
  BY <1>4

LEMMA FiniteGreatest ==
    ASSUME NEW X \in SUBSET Nat, X # {}, IsFiniteSet(X)
    PROVE  \E m \in X : \A x \in X : x <= m
<1> DEFINE Bad(n) == \E Y \in SUBSET X : /\ Y # {} /\ Cardinality(Y) = n
                                         /\ \A m \in Y : \E x \in Y : x > m
           N0 == {n \in Nat : Bad(n)}
<1>1. SUFFICES ASSUME N0 # {} PROVE FALSE
  <2>1. Cardinality(X) \in Nat
    BY FS_CardinalityType
  <2>2. Cardinality(X) \notin N0
    BY <1>1
  <2>3. ~ \A m \in X : \E x \in X : x > m
    BY <2>1, <2>2
  <2> QED
    BY <2>3
<1>2. PICK n \in N0 : \A k \in N0 : n <= k
  <2>1. N0 \in SUBSET Nat
    OBVIOUS
  <2> HIDE DEF N0
  <2> QED
    BY <1>1, <2>1, Least
<1>3. PICK Y \in SUBSET X : Y # {} /\ Cardinality(Y) = n /\ \A m \in Y : \E x \in Y : x > m
  OBVIOUS
<1>4. PICK y : y \in Y
  BY <1>3
<1>5. IsFiniteSet(Y)
  BY FS_Subset
<1>6. Cardinality(Y \ {y}) = n - 1 /\ Cardinality(Y \ {y}) \in Nat
  BY <1>3, <1>4, <1>5, FS_RemoveElement, FS_CardinalityType
<1>7. ~Bad(n - 1)
  BY <1>2, <1>6
<1>8. Y \ {y} # {}
  BY <1>3, <1>4
<1>9. PICK m \in Y \ {y} : \A x \in Y \ {y} : ~(x > m)
  BY <1>6, <1>7, <1>8
<1>10. PICK z \in Y : z > m
  BY <1>3
<1>11. z = y
  BY <1>9, <1>10
<1>12. PICK v \in Y : v > y
  BY <1>3, <1>4
<1> QED
  BY <1>4, <1>9, <1>10, <1>11, <1>12

-----------------------------------------------------------------------------
(* MarketFeed, for any intervals, pages and history.                       *)

(* A behaviour of the candle feed is one of MarketFeed.                    *)
LEMMA FeedMoves ==
    [Next]_vars => part' = part /\ (part = "feed" => [F!Next]_feedVars)
  BY DEF Next, vars

LEMMA SameCount == ASSUME NEW X PROVE F!Cardinality(X) = Cardinality(X)
  BY DEF F!Cardinality, Cardinality

(* A real candle that was the newest stays so for its interval, whatever   *)
(* is made up in it.                                                       *)
Polled ==
    /\ now \in Nat
    /\ \A r \in rows : r.time \in 0..now
    /\ rows = {} => lastCandle = F!None
    /\ \/ lastCandle = F!None \/ lastCandle.fake
       \/ lastCandle.time \in Int /\ \A r \in rows : r.time < lastCandle.time + Interval

(* The download has every candle before the next it asks for.              *)
Downloaded ==
    /\ cursor \in Nat \union {F!Done, F!CutShort}
    /\ cursor \in Nat => {t \in History : t < cursor} \subseteq saved
    /\ cursor = F!Done => {t \in History : t < FeedTime} \subseteq saved

LEMMA NewestThere ==
    ASSUME NEW cs, cs # {}, NEW b \in Nat, \A c \in cs : c.time \in 0..b
    PROVE  F!newest(cs) \in cs /\ \A c \in cs : c.time <= F!newest(cs).time
<1> DEFINE X == {c.time : c \in cs}
<1>1. X \in SUBSET Nat /\ X # {} /\ \A x \in X : x <= b
  OBVIOUS
<1>2. PICK m \in X : \A x \in X : x <= m
  <2> HIDE DEF X
  <2> QED
    BY <1>1, Greatest
<1>3. PICK c \in cs : c.time = m
  OBVIOUS
<1>4. \A d \in cs : d.time <= c.time
  BY <1>2, <1>3
<1> QED
  BY <1>4 DEF F!newest

(* The interval of the clock has begun, and the candle of it is polled.    *)
LEMMA IntervalBegun ==
    ASSUME NEW t \in Nat
    PROVE  /\ F!begin(t) \in 0..t /\ t < F!begin(t) + Interval
           /\ F!begin(t) % Interval = 0 /\ F!begin(t) > t - Limit * Interval
<1>1. PICK i \in Nat \ {0} : i = Interval
  BY FeedAssumption
<1>2. PICK r \in 0..(i - 1), q \in Nat : t % i = r /\ t = q * i + r
  <2>1. t % i \in 0..(i - 1) /\ t \div i \in Nat /\ t = (t \div i) * i + (t % i)
    OBVIOUS
  <2> QED
    BY <2>1
<1>3. (q * i) % i = 0
  <2>1. PICK p \in Nat, s \in 0..(i - 1) : q * i = p * i + s /\ (q * i) % i = s
    <3>1. q * i \in Nat
      OBVIOUS
    <3>2. \A n \in Nat : n % i \in 0..(i - 1) /\ n \div i \in Nat /\ n = (n \div i) * i + (n % i)
      OBVIOUS
    <3> QED
      BY <3>1, <3>2
  <2>2. (q - p) * i = s
    BY <2>1
  <2>3. CASE q - p = 0
    BY <2>1, <2>2, <2>3
  <2>4. CASE q - p >= 1
    <3>1. (q - p) * i >= i
      BY <2>4
    <3> QED
      BY <2>2, <3>1
  <2>5. CASE q - p <= -1
    <3>1. (q - p) * i <= -i
      BY <2>5
    <3> QED
      BY <2>2, <3>1
  <2> QED
    BY <2>3, <2>4, <2>5
<1>4. F!begin(t) = q * i /\ q * i = t - r
  BY <1>1, <1>2 DEF F!begin
<1>5. Limit * i >= i
  <2>1. Limit \in Nat /\ Limit >= 1
    BY FeedAssumption
  <2> QED
    BY <2>1
<1>6. q * i \in Nat /\ Limit * i \in Int
  BY FeedAssumption
<1> QED
  BY <1>1, <1>2, <1>3, <1>4, <1>5, <1>6

LEMMA PolledStep == Polled /\ [F!Next]_feedVars => Polled'
<1> SUFFICES ASSUME Polled, [F!Next]_feedVars PROVE Polled'
  OBVIOUS
<1>1. CASE F!Time
  <2>1. now' = now + 1 /\ UNCHANGED <<rows, lastCandle>>
    BY <1>1 DEF F!Time, F!pollVars
  <2> QED
    BY <2>1 DEF Polled
<1>2. CASE F!PollReal
  <2>1. PICK cs : cs = F!realCandles
    OBVIOUS
  <2>2. rows' = {r \in rows : \A c \in cs : c.time # r.time} \union cs /\ lastCandle' = F!newest(cs) /\ now' = now
    BY <1>2, <2>1 DEF F!PollReal, F!saveCandles
  <2>3. /\ F!begin(now) \in 0..now /\ now < F!begin(now) + Interval
        /\ F!begin(now) % Interval = 0 /\ F!begin(now) > now - Limit * Interval
    BY IntervalBegun DEF Polled
  <2>4. [time |-> F!begin(now), fake |-> FALSE] \in cs
    BY <2>1, <2>3 DEF F!realCandles
  <2>5. \A c \in cs : c.time \in 0..now
    BY <2>1 DEF F!realCandles
  <2>6. PICK b : b = F!begin(now) /\ b \in 0..now /\ now < b + Interval
    BY <2>3
  <2>7. lastCandle' \in cs /\ b <= lastCandle'.time
    BY <2>2, <2>4, <2>5, <2>6, NewestThere DEF Polled
  <2>8. \A r \in rows' : r.time \in 0..now
    BY <2>2, <2>5 DEF Polled
  <2>9. rows' # {}
    BY <2>2, <2>4
  <2>10. lastCandle'.time \in 0..now
    BY <2>5, <2>7
  <2>11. \A r \in rows' : r.time < lastCandle'.time + Interval
    BY <2>6, <2>7, <2>8, <2>10, FeedAssumption DEF Polled
  <2> QED
    BY <2>2, <2>8, <2>9, <2>10, <2>11 DEF Polled
<1>3. CASE F!PollFake
  <2>1. PICK fake : fake = [time |-> now, fake |-> TRUE]
    OBVIOUS
  <2>2. rows' = {r \in rows : r.time # fake.time} \union {fake} /\ lastCandle' = fake /\ now' = now
    BY <1>3, <2>1 DEF F!PollFake, F!saveCandles, F!fakeTime
  <2>3. fake.time = now /\ fake.fake = TRUE
    BY <2>1
  <2> QED
    BY <2>2, <2>3 DEF Polled
<1>4. CASE F!FetchPage
  BY <1>4 DEF F!FetchPage, F!pollVars, Polled
<1>5. CASE UNCHANGED feedVars
  BY <1>5 DEF feedVars, Polled
<1> QED
  BY <1>1, <1>2, <1>3, <1>4, <1>5 DEF F!Next, F!vars, F!pollVars, feedVars

(* A page is the first of what is left, up to its greatest; it is empty    *)
(* only if nothing is left, and makes no progress only if one candle is.   *)
IsPage(from, later, page) ==
    /\ later = {t \in History : t >= from}
    /\ page = {t \in later : F!Cardinality({u \in later : u < t}) < BatchSize}

LEMMA PageOf ==
    ASSUME NEW from \in Nat, NEW later, NEW page, IsPage(from, later, page)
    PROVE  /\ page = {} => later = {}
           /\ page # {} => /\ F!Max(page) \in page
                           /\ \A t \in later : t <= F!Max(page) => t \in page
                           /\ F!Max(page) <= from => \A t \in later : t = from
<1>1. later \in SUBSET Nat /\ IsFiniteSet(later) /\ page \subseteq later
  BY FS_Subset, FeedAssumption DEF IsPage
<1>2. \A t \in later : IsFiniteSet({u \in later : u < t}) /\ Cardinality({u \in later : u < t}) \in Nat
  BY <1>1, FS_Subset, FS_CardinalityType
<1>3. \A t \in later : t \in page <=> Cardinality({u \in later : u < t}) < BatchSize
  BY SameCount DEF IsPage
<1>4. \A x \in Nat : \A t \in later : {u \in later : u < t} \subseteq {x} => t \in page
  <2> SUFFICES ASSUME NEW x \in Nat, NEW t \in later, {u \in later : u < t} \subseteq {x} PROVE t \in page
    OBVIOUS
  <2>1. IsFiniteSet({x}) /\ Cardinality({x}) = 1
    BY FS_Singleton
  <2>2. Cardinality({u \in later : u < t}) <= 1
    BY <2>1, FS_Subset
  <2> QED
    BY <1>2, <1>3, <2>2, FeedAssumption
<1>5. ASSUME page = {} PROVE later = {}
  <2> SUFFICES ASSUME later # {} PROVE FALSE
    OBVIOUS
  <2>1. PICK m \in later : \A t \in later : m <= t
    BY <1>1, Least
  <2>2. {u \in later : u < m} \subseteq {m}
    <3>1. \A u \in later : ~(u < m)
      BY <1>1, <2>1
    <3> QED
      BY <3>1
  <2> QED
    BY <1>1, <1>4, <1>5, <2>2
<1>6. ASSUME page # {}
      PROVE  /\ F!Max(page) \in page
             /\ \A t \in later : t <= F!Max(page) => t \in page
             /\ F!Max(page) <= from => \A t \in later : t = from
  <2>1. IsFiniteSet(page) /\ page \in SUBSET Nat
    BY <1>1, FS_Subset
  <2>2. PICK g \in page : \A t \in page : t <= g
    BY <1>6, <2>1, FiniteGreatest
  <2>3. PICK m : m = F!Max(page) /\ m \in page /\ \A t \in page : t <= m
    BY <2>1, <2>2 DEF F!Max
  <2>4. ASSUME NEW t \in later, t <= m PROVE t \in page
    <3>0. m \in later /\ \A u \in later : u \in Nat
      BY <1>1, <2>3
    <3>1. {u \in later : u < t} \subseteq {u \in later : u < m}
      BY <2>4, <3>0
    <3>2. Cardinality({u \in later : u < t}) <= Cardinality({u \in later : u < m})
      BY <1>1, <1>2, <2>3, <3>1, FS_Subset
    <3> QED
      <4>1. Cardinality({u \in later : u < m}) < BatchSize
        BY <1>3, <2>3, <3>0
      <4>2. Cardinality({u \in later : u < t}) < BatchSize
        BY <1>2, <2>4, <3>0, <3>2, <4>1, FeedAssumption
      <4> QED
        BY <1>3, <2>4, <4>2
  <2>5. ASSUME m <= from PROVE \A t \in later : t = from
    <3> DEFINE rest == {t \in later : t # from}
    <3> SUFFICES ASSUME rest # {} PROVE FALSE
      OBVIOUS
    <3>1. rest \in SUBSET Nat
      BY <1>1
    <3>2. PICK l \in rest : \A t \in rest : l <= t
      <4> HIDE DEF rest
      <4> QED
        BY <3>1, Least
    <3>3. {u \in later : u < l} \subseteq {from}
      BY <1>1, <3>2 DEF IsPage
    <3>4. l \in page
      BY <1>4, <3>3
    <3>5. l <= m /\ l >= from /\ l # from /\ l \in Nat /\ m \in Nat
      BY <1>1, <2>1, <2>3, <3>4 DEF IsPage
    <3> QED
      BY <2>5, <3>5
  <2> QED
    BY <2>3, <2>4, <2>5
<1> QED
  BY <1>5, <1>6

LEMMA DownloadedStep == Downloaded /\ [F!Next]_feedVars => Downloaded'
<1> SUFFICES ASSUME Downloaded, [F!Next]_feedVars PROVE Downloaded'
  OBVIOUS
<1>1. CASE F!FetchPage
  <2>1. cursor \in Nat
    BY <1>1 DEF F!FetchPage, Downloaded, F!Done, F!CutShort
  <2>2. CASE exchange # "up"
    BY <1>1, <2>2 DEF F!FetchPage, Downloaded, F!Done, F!CutShort
  <2>3. CASE exchange = "up"
    <3>1. PICK later, page : /\ later = {t \in History : t >= cursor}
                             /\ page = {t \in later : F!Cardinality({u \in later : u < t}) < BatchSize}
      OBVIOUS
    <3>2. IF page = {} THEN cursor' = F!Done /\ UNCHANGED saved
          ELSE /\ saved' = saved \union page
               /\ cursor' = IF F!Max(page) <= cursor \/ F!Max(page) + Step >= FeedTime THEN F!Done
                            ELSE F!Max(page) + Step
      BY <1>1, <2>3, <3>1 DEF F!FetchPage
    <3>3. /\ page = {} => later = {}
          /\ page # {} => /\ F!Max(page) \in page
                          /\ \A t \in later : t <= F!Max(page) => t \in page
                          /\ F!Max(page) <= cursor => \A t \in later : t = cursor
      <4>1. PICK from \in Nat : from = cursor
        BY <2>1
      <4>2. IsPage(from, later, page)
        BY <3>1, <4>1 DEF IsPage
      <4>3. /\ page = {} => later = {}
            /\ page # {} => /\ F!Max(page) \in page
                            /\ \A t \in later : t <= F!Max(page) => t \in page
                            /\ F!Max(page) <= from => \A t \in later : t = from
        BY <4>2, PageOf
      <4> QED
        BY <4>1, <4>3
    <3>4. \A t \in History : t \in Nat /\ (t \in later \/ t \in saved)
      BY <2>1, <3>1, FeedAssumption DEF Downloaded
    <3>5. CASE page = {}
      BY <3>2, <3>3, <3>4, <3>5 DEF Downloaded, F!Done
    <3>6. CASE page # {}
      <4>1. PICK m : /\ m = F!Max(page) /\ m \in page
                     /\ \A t \in later : t <= m => t \in page
                     /\ m <= cursor => \A t \in later : t = cursor
        BY <3>3, <3>6
      <4>2. m \in History /\ m \in Nat /\ m >= cursor
        BY <3>1, <4>1, FeedAssumption
      <4>3. saved' = saved \union page /\ cursor' = IF m <= cursor \/ m + Step >= FeedTime THEN F!Done ELSE m + Step
        BY <3>2, <3>6, <4>1
      <4>4. \A t \in History : t <= m => t \in saved'
        BY <3>4, <4>1, <4>3
      <4>5. \A t \in History : t < m + Step => t <= m
        BY <4>2, FeedAssumption
      <4>6. CASE m <= cursor
        <5>1. \A t \in History : t \in saved'
          <6>1. \A t \in later : t <= m
            BY <2>1, <4>1, <4>2, <4>6
          <6> QED
            BY <3>4, <4>3, <4>4, <6>1
        <5> QED
          BY <4>3, <4>6, <5>1 DEF Downloaded, F!Done
      <4>7. CASE m > cursor /\ m + Step >= FeedTime
        <5>1. \A t \in History : t < FeedTime => t \in saved'
          BY <4>2, <4>4, <4>5, <4>7, FeedAssumption
        <5> QED
          <6>1. cursor' = F!Done
            BY <4>3, <4>7
          <6> QED
            BY <5>1, <6>1 DEF Downloaded, F!Done
      <4>8. CASE m > cursor /\ m + Step < FeedTime
        <5>1. cursor' = m + Step /\ cursor' \in Nat
          BY <2>1, <4>2, <4>3, <4>8, FeedAssumption
        <5>2. \A t \in History : t < m + Step => t \in saved'
          BY <4>4, <4>5
        <5> QED
          BY <5>1, <5>2 DEF Downloaded, F!Done
      <4> QED
        BY <2>1, <4>2, <4>6, <4>7, <4>8, FeedAssumption
    <3> QED
      BY <3>5, <3>6
  <2> QED
    BY <2>2, <2>3
<1>2. CASE UNCHANGED <<cursor, saved>>
  BY <1>2 DEF Downloaded
<1> QED
  BY <1>1, <1>2 DEF F!Next, F!Time, F!PollReal, F!PollFake, F!vars, feedVars

(* A made-up candle is no longer the latest once a real one of a later     *)
(* interval was polled, and a download that was not cut short has every    *)
(* candle up to its end (data/marketData.ts, scripts/fetch-history.ts).    *)
THEOREM FakeCandlesGiveWay == Spec => []FakeGivesWay
<1>1. Init => (part = "feed" => Polled /\ Downloaded)
  <2> SUFFICES ASSUME F!Init PROVE Polled /\ Downloaded
    BY DEF Init
  <2>1. Polled
    BY DEF F!Init, Polled
  <2>2. Downloaded
    <3>1. \A t \in History : ~(t < 0)
      BY FeedAssumption
    <3> QED
      BY <3>1 DEF F!Init, Downloaded, F!Done
  <2> QED
    BY <2>1, <2>2
<1>2. (part = "feed" => Polled /\ Downloaded) /\ [Next]_vars => (part = "feed" => Polled /\ Downloaded)'
  BY PolledStep, DownloadedStep, FeedMoves
<1>3. (part = "feed" => Polled /\ Downloaded) => FakeGivesWay
  <2> SUFFICES ASSUME Polled, Downloaded PROVE F!FakeGivesWay
    BY DEF FakeGivesWay
  <2>1. CASE lastCandle = F!None
    BY <2>1 DEF F!FakeGivesWay, Downloaded
  <2>2. CASE lastCandle # F!None
    <3>1. F!newest(rows) \in rows
      BY <2>2, NewestThere DEF Polled
    <3> QED
      BY <3>1 DEF F!FakeGivesWay, Downloaded, Polled
  <2> QED
    BY <2>1, <2>2
<1> QED
  BY <1>1, <1>2, <1>3, PTL DEF Spec

-----------------------------------------------------------------------------
(* StrategyEngine, for any cases and caps.                                 *)

(* A behaviour of the engine is one of StrategyEngine.                     *)
LEMMA EngineMoves ==
    [Next]_vars => part' = part /\ (part = "engine" => [E!Next]_engineVars)
  BY DEF Next, vars

LEMMA LeastTaken ==
    ASSUME NEW X \in SUBSET Nat, X # {}
    PROVE  E!Min(X) \in X /\ \A x \in X : E!Min(X) <= x
  BY Least DEF E!Min

LEMMA LeastIs ==
    ASSUME NEW X \in SUBSET Nat, NEW m \in X, \A x \in X : m <= x
    PROVE  E!Min(X) = m
<1>1. E!Min(X) \in X /\ \A x \in X : E!Min(X) <= x
  BY LeastTaken
<1>2. E!Min(X) <= m /\ m <= E!Min(X) /\ m \in Nat /\ E!Min(X) \in Nat
  BY <1>1
<1> QED
  BY <1>2

Entries == [setting : E!Settings, from : Int, to : Int]

Logged ==
    /\ changeLog \in Seq(Entries)
    /\ config \in [E!Settings -> Int]
    /\ E!LogReplays

(* A change of a setting leaves what the settings were before it as it     *)
(* was: the new entry is the next change of one that had none.             *)
LEMMA ChangeLogged ==
    ASSUME Logged, NEW s \in E!Settings, NEW v \in Int, E!change(s, v)
    PROVE  Logged'
<1>1. PICK len \in Nat : len = Len(changeLog)
  BY DEF Logged
<1>2. PICK e \in Entries : e = E!entry(s, v)
  BY DEF Logged, E!entry, Entries
<1>3. e.setting = s /\ e.from = config[s] /\ e.to = v
  BY <1>2 DEF E!entry
<1>4. changeLog' = Append(changeLog, e) /\ config' = [config EXCEPT ![s] = v]
  BY <1>2 DEF E!change
<1>5. /\ changeLog' \in Seq(Entries) /\ Len(changeLog') = len + 1
      /\ \A i \in 1..len : changeLog'[i] = changeLog[i] /\ changeLog[i] \in Entries
      /\ changeLog'[len + 1] = e
  BY <1>1, <1>4 DEF Logged
<1>6. /\ config' \in [E!Settings -> Int] /\ config'[s] = v
      /\ \A x \in E!Settings : x # s => config'[x] = config[x]
  BY <1>4 DEF Logged
<1> DEFINE later(n, x) == {i \in (n + 1)..len : changeLog[i].setting = x}
           next(n, x) == {i \in (n + 1)..(len + 1) : changeLog'[i].setting = x}
<1>7. ASSUME NEW n \in 0..len, NEW x \in E!Settings
      PROVE  E!valueAfter(n, x)' = E!valueAfter(n, x)
  <2>1. E!valueAfter(n, x) = IF later(n, x) = {} THEN config[x] ELSE changeLog[E!Min(later(n, x))].from
    BY <1>1 DEF E!valueAfter
  <2>2. E!valueAfter(n, x)' = IF next(n, x) = {} THEN config'[x] ELSE changeLog'[E!Min(next(n, x))].from
    BY <1>5 DEF E!valueAfter
  <2>3. next(n, x) = later(n, x) \union (IF x = s THEN {len + 1} ELSE {})
    <3>1. \A i \in (n + 1)..len : i \in 1..len
      OBVIOUS
    <3>2. \A i \in (n + 1)..(len + 1) : i \in (n + 1)..len \/ i = len + 1
      OBVIOUS
    <3>3. \A i : i \in next(n, x) <=> i \in later(n, x) \/ (i = len + 1 /\ x = s)
      BY <1>3, <1>5, <3>1, <3>2
    <3> QED
      BY <3>3
  <2>4. later(n, x) \in SUBSET Nat /\ \A i \in later(n, x) : i \in 1..len
    OBVIOUS
  <2>5. CASE later(n, x) # {}
    <3>1. PICK m : m = E!Min(later(n, x)) /\ m \in later(n, x) /\ \A i \in later(n, x) : m <= i
      <4> HIDE DEF later
      <4> QED
        BY <2>4, <2>5, LeastTaken
    <3>2. m \in next(n, x) /\ (\A i \in next(n, x) : m <= i) /\ next(n, x) \in SUBSET Nat
      <4>1. m \in 1..len
        BY <2>4, <3>1
      <4> HIDE DEF later, next
      <4> QED
        BY <2>3, <2>4, <3>1, <4>1
    <3>3. E!Min(next(n, x)) = m
      <4> HIDE DEF next
      <4> QED
        BY <3>2, LeastIs
    <3>4. changeLog'[m].from = changeLog[m].from
      BY <1>5, <2>4, <3>1
    <3>5. next(n, x) # {}
      BY <3>2
    <3> HIDE DEF later, next
    <3> QED
      BY <2>1, <2>2, <2>5, <3>1, <3>3, <3>4, <3>5
  <2>6. CASE later(n, x) = {} /\ x = s
    <3>1. next(n, x) = {len + 1}
      <4> HIDE DEF later, next
      <4> QED
        BY <2>3, <2>6
    <3>2. E!Min({len + 1}) = len + 1
      BY LeastIs
    <3> HIDE DEF later, next
    <3> QED
      BY <1>3, <1>5, <2>1, <2>2, <2>6, <3>1, <3>2
  <2>7. CASE later(n, x) = {} /\ x # s
    <3>1. next(n, x) = {}
      <4> HIDE DEF later, next
      <4> QED
        BY <2>3, <2>7
    <3> HIDE DEF later, next
    <3> QED
      BY <1>6, <2>1, <2>2, <2>7, <3>1
  <2> QED
    BY <2>5, <2>6, <2>7
<1>8. E!valueAfter(len + 1, s)' = v
  <2>1. next(len + 1, s) = {}
    OBVIOUS
  <2> QED
    BY <1>5, <1>6, <2>1 DEF E!valueAfter
<1>9. \A x \in E!Settings : E!valueAfter(0, x)' = E!Initially[x]
  <2>1. \A x \in E!Settings : E!valueAfter(0, x) = E!Initially[x]
    BY DEF Logged, E!LogReplays
  <2> QED
    BY <1>7, <2>1
<1>10. ASSUME NEW x \in E!Settings, NEW n \in DOMAIN changeLog', changeLog'[n].setting = x
       PROVE  changeLog'[n].to = E!valueAfter(n, x)'
  <2>1. n \in 1..(len + 1)
    BY <1>5
  <2>2. CASE n \in 1..len
    <3>1. changeLog'[n] = changeLog[n] /\ n \in DOMAIN changeLog
      BY <1>1, <1>5, <2>2 DEF Logged
    <3>2. changeLog[n].to = E!valueAfter(n, x)
      BY <1>10, <3>1 DEF Logged, E!LogReplays
    <3>3. E!valueAfter(n, x)' = E!valueAfter(n, x)
      BY <1>7, <2>2
    <3> QED
      BY <3>1, <3>2, <3>3
  <2>3. CASE n = len + 1
    BY <1>3, <1>5, <1>8, <1>10, <2>3
  <2> QED
    BY <2>1, <2>2, <2>3
<1>11. E!LogReplays'
  BY <1>9, <1>10 DEF E!LogReplays
<1> QED
  BY <1>5, <1>6, <1>11 DEF Logged

Decisions ==
    [id : Nat, outcome : {"skipped", "blocked", "deferred", "executed"},
     action : {0} \union {c.direction : c \in Cases}, under : Cases]

Remembered ==
    /\ cycleCount \in Nat /\ recentDecisions \in Seq(Decisions)
    /\ E!LatestDecisionsKept

LEMMA DecisionTyped ==
    ASSUME NEW c \in Cases, cycleCount \in Nat
    PROVE  E!decide(c) \in Decisions /\ E!decide(c).id = cycleCount + 1
<1> DEFINE direction == IF E!enabled("alpha_ensemble") THEN c.direction ELSE 0
           act == IF E!planned(c, direction) THEN direction ELSE 0
<1>1. act \in {0} \union {x.direction : x \in Cases}
  OBVIOUS
<1>2. PICK o \in {"skipped", "blocked", "deferred", "executed"} :
        E!decide(c) = [id |-> cycleCount + 1, outcome |-> o, action |-> act, under |-> c]
  BY DEF E!decide
<1> HIDE DEF act
<1> QED
  BY <1>1, <1>2 DEF Decisions

(* What leaves the configuration and its log alone leaves them in order.   *)
LEMMA LogUnread ==
    ASSUME Logged, UNCHANGED <<config, changeLog>>
    PROVE  Logged'
<1>1. config' = config /\ changeLog' = changeLog
  OBVIOUS
<1>2. \A n, x : E!valueAfter(n, x)' = E!valueAfter(n, x)
  BY <1>1, Zenon DEF E!valueAfter
<1>3. E!LogReplays <=> E!LogReplays'
  BY <1>1, <1>2, Zenon DEF E!LogReplays
<1> QED
  BY <1>1, <1>3 DEF Logged

(* Trimmed or not, what is kept ends with the newest.                      *)
LEMMA TrimmedKeepsTheEnd ==
    ASSUME NEW r \in Seq(Decisions), Len(r) <= Cap + 1
    PROVE  /\ E!trimmed(r) \in Seq(Decisions)
           /\ Len(E!trimmed(r)) = IF Len(r) > Cap THEN Keep ELSE Len(r)
           /\ \A i \in 1..Len(E!trimmed(r)) : E!trimmed(r)[i] = r[Len(r) - Len(E!trimmed(r)) + i]
<1>1. PICK n \in Nat : n = Len(r)
  OBVIOUS
<1>2. Keep \in Nat /\ Cap \in Nat /\ Keep <= Cap
  BY EngineAssumption
<1>3. CASE n > Cap
  <2>1. E!trimmed(r) = SubSeq(r, n - Keep + 1, n)
    BY <1>1, <1>3 DEF E!trimmed
  <2>2. n - Keep + 1 \in 1..(n + 1) /\ n - (n - Keep + 1) + 1 = Keep
    BY <1>2, <1>3
  <2>3. /\ SubSeq(r, n - Keep + 1, n) \in Seq(Decisions)
        /\ Len(SubSeq(r, n - Keep + 1, n)) = Keep
        /\ \A i \in 1..Keep : SubSeq(r, n - Keep + 1, n)[i] = r[n - Keep + i]
    <3>1. \A i \in (n - Keep + 1)..n : r[i] \in Decisions
      BY <1>1, <2>2
    <3>2. n - Keep + 1 <= n <=> Keep # 0
      BY <1>2
    <3>3. \A i \in 1..Keep : (n - Keep + 1) + i - 1 = n - Keep + i
      BY <1>2
    <3> QED
      BY <1>2, <2>2, <3>1, <3>2, <3>3, SubSeqProperties
  <2>4. Len(r) > Cap
    BY <1>1, <1>3
  <2> QED
    BY <1>1, <2>1, <2>3, <2>4
<1>4. CASE ~(n > Cap)
  <2>1. E!trimmed(r) = r
    BY <1>1, <1>4 DEF E!trimmed
  <2> QED
    BY <1>1, <1>4, <2>1
<1> QED
  BY <1>3, <1>4

LEMMA CycleRemembered ==
    ASSUME Remembered, NEW c \in Cases, E!RunCycle(c)
    PROVE  Remembered'
<1>1. PICK n \in Nat : n = Len(recentDecisions)
  BY DEF Remembered
<1>2. PICK k \in Nat : k = cycleCount
  BY DEF Remembered
<1>3. PICK d \in Decisions : d = E!decide(c) /\ d.id = k + 1
  BY <1>2, DecisionTyped
<1>4. Keep \in Nat /\ Cap \in Nat /\ Keep <= Cap
  BY EngineAssumption
<1>5. PICK m \in Nat : m = E!Min({Keep, k}) /\ m <= Keep /\ m <= k /\ m \in {Keep, k}
  <2>1. {Keep, k} \in SUBSET Nat /\ {Keep, k} # {}
    BY <1>4
  <2> QED
    BY <2>1, LeastTaken
<1>6. PICK q \in Nat : q = E!Min({Keep, k + 1}) /\ q <= Keep /\ q <= k + 1
  <2>1. {Keep, k + 1} \in SUBSET Nat /\ {Keep, k + 1} # {}
    BY <1>4
  <2> QED
    BY <2>1, LeastTaken
<1>7. n >= m /\ n <= Cap /\ \A i \in 1..n : recentDecisions[i].id = k - n + i
  BY <1>1, <1>2, <1>5 DEF Remembered, E!LatestDecisionsKept
<1>8. PICK r \in Seq(Decisions) : r = Append(recentDecisions, d)
  <2>1. Append(recentDecisions, d) \in Seq(Decisions)
    BY DEF Remembered
  <2> QED
    BY <2>1
<1>9. Len(r) = n + 1 /\ r[n + 1] = d /\ \A i \in 1..n : r[i] = recentDecisions[i]
  BY <1>1, <1>8 DEF Remembered
<1>10. \A i \in 1..(n + 1) : r[i].id = k - n + i
  BY <1>3, <1>7, <1>9
<1>11. cycleCount' = k + 1 /\ recentDecisions' = E!trimmed(r)
  BY <1>2, <1>3, <1>8 DEF E!RunCycle
<1>12. PICK z \in Nat : z = (IF n + 1 > Cap THEN Keep ELSE n + 1)
  BY <1>4
<1>13. /\ recentDecisions' \in Seq(Decisions) /\ Len(recentDecisions') = z
       /\ \A i \in 1..z : recentDecisions'[i] = r[n + 1 - z + i]
  <2>1. Len(r) <= Cap + 1
    BY <1>4, <1>7, <1>9
  <2>2. z = IF Len(r) > Cap THEN Keep ELSE Len(r)
    BY <1>9, <1>12
  <2>3. /\ E!trimmed(r) \in Seq(Decisions) /\ Len(E!trimmed(r)) = z
        /\ \A i \in 1..z : E!trimmed(r)[i] = r[n + 1 - z + i]
    BY <1>9, <2>1, <2>2, TrimmedKeepsTheEnd
  <2> QED
    BY <1>11, <2>3
<1>14. z >= q /\ z <= Cap /\ z <= n + 1
  BY <1>4, <1>5, <1>6, <1>7, <1>12
<1>15. ASSUME NEW i \in 1..z
       PROVE  recentDecisions'[i].id = (k + 1) - z + i
  <2>1. n + 1 - z + i \in 1..(n + 1)
    BY <1>14
  <2>2. r[n + 1 - z + i].id = k - n + (n + 1 - z + i)
    BY <1>10, <2>1
  <2>3. recentDecisions'[i] = r[n + 1 - z + i]
    BY <1>13
  <2>4. k - n + (n + 1 - z + i) = (k + 1) - z + i
    OBVIOUS
  <2> QED
    BY <2>2, <2>3, <2>4
<1>16. E!LatestDecisionsKept'
  BY <1>6, <1>11, <1>13, <1>14, <1>15 DEF E!LatestDecisionsKept
<1> QED
  BY <1>11, <1>13, <1>16 DEF Remembered

(* What was decided lately, and the configuration it was decided under,    *)
(* can be told at any time: the change log leads back to the first         *)
(* configuration and the decisions have no gap.                            *)
THEOREM HistoryIsComplete == Spec => []HistoryComplete
<1> DEFINE Inv == part = "engine" => Logged /\ Remembered
<1>1. Init => Inv
  <2> SUFFICES ASSUME Init, part = "engine"
               PROVE  Logged /\ Remembered
    OBVIOUS
  <2>1. config = E!Initially /\ changeLog = << >> /\ recentDecisions = << >> /\ cycleCount = 0
    BY DEF Init, E!Init
  <2>2. \A s \in E!Settings : E!Initially[s] \in Int
    <3>1. \A s : (CASE s \in E!Features -> 1 [] s = "stage" -> 2 [] s = "minEdgeBps" -> 30 [] OTHER -> 0) \in {1, 2, 30, 0}
      OBVIOUS
    <3> QED
      BY <3>1 DEF E!Initially
  <2>3. config \in [E!Settings -> Int]
    BY <2>1, <2>2 DEF E!Initially
  <2>4. \A s \in E!Settings : E!valueAfter(0, s) = E!Initially[s]
    BY <2>1 DEF E!valueAfter
  <2>5. Logged
    BY <2>1, <2>3, <2>4 DEF Logged, E!LogReplays
  <2>6. E!Min({Keep, 0}) <= 0
    BY LeastTaken, EngineAssumption
  <2>7. Remembered
    BY <2>1, <2>6, EngineAssumption DEF Remembered, E!LatestDecisionsKept
  <2> QED
    BY <2>5, <2>7
<1>2. Inv /\ [Next]_vars => Inv'
  <2> SUFFICES ASSUME part = "engine", part' = part, Logged, Remembered, [E!Next]_engineVars
               PROVE  Logged' /\ Remembered'
    BY EngineMoves
  <2>1. CASE UNCHANGED engineVars
    <3>1. Logged'
      BY <2>1, LogUnread DEF engineVars
    <3>2. Remembered'
      BY <2>1 DEF engineVars, Remembered, E!LatestDecisionsKept
    <3> QED
      BY <3>1, <3>2
  <2>2. ASSUME NEW c \in Cases, E!RunCycle(c)
        PROVE  Logged' /\ Remembered'
    <3>1. Logged'
      BY <2>2, LogUnread DEF E!RunCycle
    <3> QED
      BY <2>2, <3>1, CycleRemembered
  <2>3. ASSUME NEW s \in E!Settings, NEW v \in Int, E!change(s, v)
        PROVE  Logged' /\ Remembered'
    <3>1. Remembered'
      BY <2>3 DEF E!change, Remembered, E!LatestDecisionsKept
    <3> QED
      BY <2>3, <3>1, ChangeLogged
  <2>4. \A s \in E!Settings : config[s] \in Int
    BY DEF Logged
  <2>5. {"stage", "version", "minEdgeBps"} \subseteq E!Settings /\ E!Features \subseteq E!Settings
    BY DEF E!Settings
  <2>6. CASE E!UpdateParameter
    BY <2>3, <2>5, <2>6 DEF E!UpdateParameter
  <2>7. CASE E!ToggleFeature
    BY <2>3, <2>5, <2>7 DEF E!ToggleFeature
  <2>8. CASE E!PromoteStage
    <3>1. PICK v \in Int : v = config.stage + 1
      BY <2>4, <2>5
    <3> QED
      BY <2>3, <2>5, <2>8, <3>1 DEF E!PromoteStage
  <2>9. CASE E!DemoteStage
    <3>1. PICK v \in Int : v = config.stage - 1
      BY <2>4, <2>5
    <3> QED
      BY <2>3, <2>5, <2>9, <3>1 DEF E!DemoteStage
  <2>10. CASE E!BumpVersion
    <3>1. PICK v \in Int : v = config.version + 1
      BY <2>4, <2>5
    <3> QED
      BY <2>3, <2>5, <2>10, <3>1 DEF E!BumpVersion
  <2> QED
    BY <2>1, <2>2, <2>6, <2>7, <2>8, <2>9, <2>10 DEF E!Next
<1>3. Inv => HistoryComplete
  BY DEF HistoryComplete, E!HistoryComplete, Logged, Remembered
<1> QED
  BY <1>1, <1>2, <1>3, PTL DEF Spec

-----------------------------------------------------------------------------
(* MarketGuards, for windows of any length.                                *)

(* A behaviour of the guards is one of MarketGuards.                       *)
LEMMA GuardsMove ==
    [Next]_vars => part' = part /\ (part = "guards" => [G!Next]_guardVars)
  BY DEF Next, vars

Below(s, y) == {i \in DOMAIN s : s[i] < y}
UpTo(s, y) == {i \in DOMAIN s : s[i] <= y}

Window == {s \in Seq(Nat) : Len(s) > 0}

LEMMA CountsGrow ==
    ASSUME NEW s \in Window, NEW x \in Nat, NEW y \in Nat, x < y
    PROVE  /\ Cardinality(UpTo(s, x)) <= Cardinality(Below(s, y))
           /\ Cardinality(UpTo(s, x)) \in Nat /\ Cardinality(Below(s, y)) \in Nat
<1>1. IsFiniteSet(1..Len(s)) /\ DOMAIN s = 1..Len(s)
  BY FS_Interval DEF Window
<1>2. UpTo(s, x) \subseteq Below(s, y) /\ Below(s, y) \subseteq 1..Len(s)
  BY <1>1 DEF UpTo, Below, Window
<1>3. IsFiniteSet(Below(s, y))
  BY <1>1, <1>2, FS_Subset
<1> QED
  BY <1>2, <1>3, FS_Subset, FS_CardinalityType

(* There is one value in the middle.                                       *)
LEMMA MiddleIsOne ==
    ASSUME NEW s \in Window, NEW x \in Nat, NEW y \in Nat, G!inMiddle(x, s), G!inMiddle(y, s)
    PROVE  x = y
<1>1. PICK h \in Nat : h = Len(s) \div 2
  BY DEF Window
<1>2. /\ Cardinality(Below(s, x)) <= h /\ h < Cardinality(UpTo(s, x))
      /\ Cardinality(Below(s, y)) <= h /\ h < Cardinality(UpTo(s, y))
  BY <1>1 DEF G!inMiddle, Below, UpTo, G!Cardinality, Cardinality
<1>3. ~(x < y)
  BY <1>2, CountsGrow
<1>4. ~(y < x)
  BY <1>2, CountsGrow
<1> QED
  BY <1>3, <1>4

LEMMA MiddleThere ==
    ASSUME NEW s \in Window
    PROVE  \E x \in {s[i] : i \in DOMAIN s} : G!inMiddle(x, s)
<1> DEFINE X == {s[i] : i \in DOMAIN s}
           Y == {x \in X : Len(s) \div 2 < Cardinality(UpTo(s, x))}
<1>1. DOMAIN s = 1..Len(s) /\ IsFiniteSet(1..Len(s)) /\ Cardinality(1..Len(s)) = Len(s) /\ Len(s) \in Nat
  <2>1. PICK n \in Nat : n = Len(s) /\ n > 0 /\ DOMAIN s = 1..n
    BY DEF Window
  <2>2. IsFiniteSet(1..n) /\ Cardinality(1..n) = n
    <3> HIDE DEF X, Y
    <3>1. \A k \in Nat : IsFiniteSet(1..k) /\ Cardinality(1..k) = k
      BY FS_Interval
    <3> QED
      BY <3>1
  <2> QED
    BY <2>1, <2>2
<1>2. X \in SUBSET Nat /\ X # {} /\ IsFiniteSet(X)
  <2>1. X \in SUBSET Nat /\ s[1] \in X
    BY <1>1 DEF Window
  <2>2. IsFiniteSet(X)
    <3> DEFINE f == [i \in 1..Len(s) |-> s[i]]
    <3>1. f \in Surjection(1..Len(s), X)
      BY <1>1 DEF Surjection
    <3> HIDE DEF X, f
    <3> QED
      BY <1>1, <3>1, FS_Surjection
  <2> QED
    BY <2>1, <2>2
<1>3. PICK b \in X : \A x \in X : x <= b
  <2> HIDE DEF X
  <2> QED
    BY <1>2, FiniteGreatest
<1>4. UpTo(s, b) = 1..Len(s)
  BY <1>1, <1>3 DEF UpTo
<1>5. b \in Y
  BY <1>1, <1>4
<1>6. PICK m \in Y : \A y \in Y : m <= y
  <2>1. Y \in SUBSET Nat /\ Y # {}
    BY <1>2, <1>5
  <2> HIDE DEF Y
  <2> QED
    BY <2>1, Least
<1>7. Cardinality(Below(s, m)) <= Len(s) \div 2
  <2> DEFINE Z == {x \in X : x < m}
  <2>1. CASE Z = {}
    <3>1. Below(s, m) = {}
      BY <2>1 DEF Below
    <3> QED
      BY <1>1, <3>1, FS_EmptySet
  <2>2. CASE Z # {}
    <3>1. Z \in SUBSET Nat /\ IsFiniteSet(Z)
      BY <1>2, FS_Subset
    <3>2. PICK z \in Z : \A y \in Z : y <= z
      <4> HIDE DEF Z
      <4> QED
        BY <2>2, <3>1, FiniteGreatest
    <3>3. Below(s, m) = UpTo(s, z)
      <4>1. \A i \in DOMAIN s : s[i] \in X
        OBVIOUS
      <4>2. z \in Nat /\ m \in Nat /\ z < m
        BY <1>2, <3>1, <3>2
      <4>3. \A i \in DOMAIN s : s[i] < m <=> s[i] <= z
        <5> SUFFICES ASSUME NEW i \in DOMAIN s PROVE s[i] < m <=> s[i] <= z
          OBVIOUS
        <5>1. s[i] \in X /\ s[i] \in Nat
          BY <1>2
        <5>2. s[i] < m => s[i] <= z
          BY <3>2, <5>1
        <5> HIDE DEF X, Y, Z
        <5> QED
          BY <4>2, <5>1, <5>2
      <4> QED
        BY <4>3 DEF Below, UpTo
    <3>4. z \notin Y
      <4>1. z < m /\ z \in Nat /\ m \in Nat
        BY <1>2, <3>1, <3>2
      <4> HIDE DEF Y
      <4> QED
        BY <1>6, <4>1
    <3>5. ~(Len(s) \div 2 < Cardinality(UpTo(s, z)))
      BY <3>2, <3>4
    <3>6. Cardinality(Below(s, m)) \in Nat
      <4>1. Below(s, m) \subseteq 1..Len(s)
        BY <1>1 DEF Below
      <4> QED
        BY <1>1, <4>1, FS_Subset, FS_CardinalityType
    <3> QED
      BY <1>1, <3>3, <3>5, <3>6
  <2> QED
    BY <2>1, <2>2
<1> QED
  BY <1>6, <1>7 DEF G!inMiddle, Below, UpTo, G!Cardinality, Cardinality

(* The median is the value in the middle.                                  *)
LEMMA MedianIs ==
    ASSUME NEW s \in Window
    PROVE  /\ G!median(s) \in {s[i] : i \in DOMAIN s} /\ G!median(s) \in Nat
           /\ G!inMiddle(G!median(s), s)
           /\ \A x \in Nat : G!inMiddle(x, s) => x = G!median(s)
<1>1. G!median(s) \in {s[i] : i \in DOMAIN s} /\ G!inMiddle(G!median(s), s)
  BY MiddleThere, Zenon DEF G!median
<1>2. G!median(s) \in Nat
  BY <1>1 DEF Window
<1> QED
  BY <1>1, <1>2, MiddleIsOne

(* What is above the middle does not move it by going higher.              *)
LEMMA MiddleStays ==
    ASSUME NEW s \in Window, NEW v \in Nat, v >= s[Len(s)], G!median(s) < s[Len(s)]
    PROVE  /\ G!raised(s, v) \in Window /\ G!newest(G!raised(s, v)) = v
           /\ G!median(G!raised(s, v)) = G!median(s)
<1>1. PICK t : t = G!raised(s, v)
  OBVIOUS
<1>2. t = [s EXCEPT ![Len(s)] = v]
  BY <1>1 DEF G!raised
<1>3. Len(s) \in DOMAIN s /\ DOMAIN s = 1..Len(s) /\ s[Len(s)] \in Nat /\ \A i \in DOMAIN s : s[i] \in Nat
  BY DEF Window
<1>4. /\ t \in Window /\ Len(t) = Len(s) /\ t[Len(s)] = v /\ DOMAIN t = DOMAIN s
      /\ \A i \in DOMAIN s : i # Len(s) => t[i] = s[i]
  BY <1>2, <1>3 DEF Window
<1>5. PICK m \in Nat : m = G!median(s) /\ G!inMiddle(m, s) /\ m < s[Len(s)]
  BY MedianIs
<1>6. \A i \in DOMAIN s : (s[i] < m <=> t[i] < m) /\ (s[i] <= m <=> t[i] <= m)
  BY <1>3, <1>4, <1>5
<1>7. Below(s, m) = Below(t, m) /\ UpTo(s, m) = UpTo(t, m)
  BY <1>4, <1>6 DEF Below, UpTo
<1>8. G!inMiddle(m, t)
  BY <1>4, <1>5, <1>7 DEF G!inMiddle, Below, UpTo
<1>9. G!median(t) = m
  BY <1>4, <1>8, MedianIs
<1> QED
  BY <1>1, <1>4, <1>5, <1>9 DEF G!newest

Shape == [gap : Nat, high : Int, low : Int, close : Int]

GuardsInv ==
    /\ volumes \in Window /\ ranges \in Window
    /\ shape \in Shape
    /\ interval \in Nat /\ age \in Nat

LEMMA SeverityHigh ==
    ASSUME NEW value \in Int, NEW flagged \in Nat, NEW high \in Nat
    PROVE  G!severity(value, flagged, high) = "high" <=> value > flagged /\ value > high
  BY DEF G!severity

LEMMA NewestIs ==
    ASSUME NEW s \in Window PROVE G!newest(s) = s[Len(s)] /\ s[Len(s)] \in Nat
  BY DEF G!newest, Window

(* More volume keeps a spike a spike, a wider range a volatile market.     *)
LEMMA SpikeStays ==
    ASSUME GuardsInv, NEW v, v \in Nat, v >= G!newest(volumes), volumes' = G!raised(volumes, v)
    PROVE  /\ volumes' \in Window
           /\ G!volumeSpike = "high" => G!volumeSpike' = "high"
<1>1. volumes' \in Window
  <2>1. volumes \in Window
    BY DEF GuardsInv
  <2> QED
    BY <2>1 DEF G!raised, Window
<1>2. ASSUME G!volumeSpike = "high" PROVE G!volumeSpike' = "high"
  <2>1. PICK m \in Nat : m = G!median(volumes)
    BY MedianIs DEF GuardsInv
  <2>2. PICK x \in Nat : x = G!newest(volumes) /\ x = volumes[Len(volumes)]
    BY NewestIs DEF GuardsInv
  <2>3. 3 * m \in Nat /\ 5 * m \in Nat /\ m # 0 /\ G!severity(x, 3 * m, 5 * m) = "high"
    BY <1>2, <2>1, <2>2 DEF G!volumeSpike
  <2>4. x > 3 * m /\ x > 5 * m
    BY <2>3, SeverityHigh
  <2>5. m < x
    BY <2>3, <2>4
  <2>6. G!newest(volumes') = v /\ G!median(volumes') = m
    BY <2>1, <2>2, <2>5, MiddleStays DEF GuardsInv
  <2>7. G!severity(v, 3 * m, 5 * m) = "high"
    <3>1. v > 3 * m /\ v > 5 * m
      BY <2>2, <2>4
    <3> QED
      BY <2>3, <3>1, SeverityHigh
  <2> QED
    BY <2>3, <2>6, <2>7 DEF G!volumeSpike
<1> QED
  BY <1>1, <1>2

LEMMA VolatileStays ==
    ASSUME GuardsInv, NEW r, r \in Nat, r >= G!newest(ranges), ranges' = G!raised(ranges, r), recent' = recent
    PROVE  /\ ranges' \in Window
           /\ G!volatile => G!volatile'
<1>1. ranges' \in Window
  <2>1. ranges \in Window
    BY DEF GuardsInv
  <2> QED
    BY <2>1 DEF G!raised, Window
<1>2. ASSUME G!volatile PROVE G!volatile'
  <2>1. PICK m \in Nat : m = G!median(ranges)
    BY MedianIs DEF GuardsInv
  <2>2. PICK x \in Nat : x = G!newest(ranges) /\ x = ranges[Len(ranges)]
    BY NewestIs DEF GuardsInv
  <2>3. "volatility" \in recent /\ m > 0 /\ 2 * x > 5 * m
    BY <1>2, <2>1, <2>2 DEF G!volatile
  <2>4. m < x
    BY <2>3
  <2>5. G!newest(ranges') = r /\ G!median(ranges') = m
    BY <2>1, <2>2, <2>4, MiddleStays DEF GuardsInv
  <2>6. 2 * r > 5 * m
    BY <2>2, <2>3
  <2> QED
    BY <2>3, <2>5, <2>6 DEF G!volatile
<1> QED
  BY <1>1, <1>2

(* What was too much of an age is, when there is more.                     *)
LEMMA MoreStaysHigh ==
    ASSUME NEW value \in Nat, NEW more \in Nat, more >= value, NEW flagged \in Nat, NEW high \in Nat,
           G!severity(value, flagged, high) = "high"
    PROVE  G!severity(more, flagged, high) = "high"
<1>1. value > flagged /\ value > high
  BY SeverityHigh
<1>2. more > flagged /\ more > high
  BY <1>1
<1> QED
  BY <1>2, SeverityHigh

LEMMA ExtremesOf ==
    ASSUME NEW x \in Int, NEW y \in Int
    PROVE  /\ G!Max({x, y}) \in Int /\ x <= G!Max({x, y})
           /\ G!Min({x, y}) \in Int /\ G!Min({x, y}) <= x
<1>1. /\ \E m \in {x, y} : \A z \in {x, y} : m >= z
      /\ \E m \in {x, y} : \A z \in {x, y} : m =< z
  OBVIOUS
<1>2. /\ G!Max({x, y}) \in {x, y} /\ \A z \in {x, y} : G!Max({x, y}) >= z
      /\ G!Min({x, y}) \in {x, y} /\ \A z \in {x, y} : G!Min({x, y}) =< z
  BY <1>1 DEF G!Max, G!Min
<1> QED
  BY <1>2

(* What a candle spans does not shrink, so that its wicks stop being too   *)
(* much only when its body has grown or is gone.                           *)
LEMMA WicksGiveWay ==
    ASSUME shape \in Shape, NEW p \in Int,
           shape' = [shape EXCEPT !.close = p, !.high = G!Max({@, p}), !.low = G!Min({@, p})]
    PROVE  /\ shape' \in Shape /\ shape'.gap = shape.gap
           /\ G!wickAnomaly = "high" => G!wickAnomaly' = "high" \/ G!body' > G!body \/ G!body' = 0
<1>1. PICK h \in Int, l \in Int : h = G!Max({shape.high, p}) /\ l = G!Min({shape.low, p})
                                  /\ shape.high <= h /\ l <= shape.low
  BY ExtremesOf DEF Shape
<1>2. shape' \in Shape /\ shape'.gap = shape.gap /\ shape'.high = h /\ shape'.low = l /\ shape'.close = p
  BY <1>1 DEF Shape
<1>3. PICK b \in Nat, c \in Nat : b = G!body /\ c = G!body'
  <2>1. G!body \in Nat
    BY DEF G!body, Shape
  <2>2. G!body' \in Nat
    BY <1>2 DEF G!body
  <2> QED
    BY <2>1, <2>2
<1>4. PICK w \in Int, x \in Int : /\ w = G!wicks /\ x = G!wicks'
                                  /\ w = shape.high - shape.low - b /\ x = h - l - c
  BY <1>2, <1>3 DEF G!wicks, Shape
<1>5. ASSUME G!wickAnomaly = "high", c <= b, c # 0 PROVE G!wickAnomaly' = "high"
  <2>1. /\ 5 * b \in Nat /\ 25 * b \in Nat /\ 5 * c \in Nat /\ 25 * c \in Nat /\ b # 0
        /\ G!severity(w, 5 * b, 25 * b) = "high"
    BY <1>3, <1>4, <1>5 DEF G!wickAnomaly
  <2>2. w > 5 * b /\ w > 25 * b
    BY <2>1, SeverityHigh
  <2>3. x >= w
    BY <1>1, <1>4, <1>5 DEF Shape
  <2>4. x > 5 * c /\ x > 25 * c
    BY <1>5, <2>2, <2>3
  <2>5. G!severity(x, 5 * c, 25 * c) = "high"
    BY <2>1, <2>4, SeverityHigh
  <2> QED
    BY <1>3, <1>4, <1>5, <2>5 DEF G!wickAnomaly
<1> QED
  BY <1>2, <1>3, <1>5

LEMMA GuardsStep ==
    ASSUME GuardsInv, [G!Next]_guardVars
    PROVE  GuardsInv' /\ G!StaysStopped
<1> DEFINE WicksStay == G!wickAnomaly = "high" => G!wickAnomaly' = "high" \/ G!body' > G!body \/ G!body' = 0
<1>0. ASSUME recent' = recent, G!volatile => G!volatile', G!lasting => G!lasting', WicksStay
      PROVE  G!StaysStopped
  BY <1>0, Zenon DEF G!StaysStopped, G!stops, G!anomalous
<1>1. CASE UNCHANGED guardVars
  <2>1. /\ recent' = recent /\ volumes' = volumes /\ ranges' = ranges /\ shape' = shape
        /\ interval' = interval /\ age' = age /\ watched' = watched
    BY <1>1 DEF guardVars
  <2>2. (G!volatile => G!volatile') /\ (G!lasting => G!lasting')
    BY <2>1 DEF G!volatile, G!lasting, G!volumeSpike, G!priceGap, G!staleData
  <2>3. WicksStay
    BY <2>1 DEF G!wickAnomaly, G!wicks, G!body
  <2> QED
    BY <1>0, <2>1, <2>2, <2>3 DEF GuardsInv
<1>2. CASE G!evaluate
  <2>1. /\ recent' = recent /\ volumes' = volumes /\ ranges' = ranges /\ shape' = shape
        /\ interval' = interval /\ age' = age /\ (watched => watched')
    BY <1>2 DEF G!evaluate, G!market
  <2>2. G!volatile => G!volatile'
    BY <2>1 DEF G!volatile
  <2>3. G!volumeSpike' = G!volumeSpike /\ G!priceGap' = G!priceGap /\ G!wickAnomaly' = G!wickAnomaly
    BY <2>1 DEF G!volumeSpike, G!priceGap, G!wickAnomaly, G!wicks, G!body
  <2>4. G!staleData = "high" => G!staleData' = "high"
    BY <2>1, Zenon DEF G!staleData
  <2>5. G!lasting => G!lasting'
    BY <2>3, <2>4 DEF G!lasting
  <2> QED
    BY <1>0, <2>1, <2>2, <2>3, <2>5 DEF GuardsInv
<1>3. ASSUME NEW v \in Traded, NEW p \in Closes, NEW r \in Ranged, G!Trade(v, p, r)
      PROVE  GuardsInv' /\ G!StaysStopped
  <2>1. /\ recent' = recent /\ interval' = interval /\ age' = age /\ watched' = watched
        /\ v >= G!newest(volumes) /\ volumes' = G!raised(volumes, v)
        /\ r >= G!newest(ranges) /\ ranges' = G!raised(ranges, r)
        /\ shape' = [shape EXCEPT !.close = p, !.high = G!Max({@, p}), !.low = G!Min({@, p})]
    BY <1>3 DEF G!Trade
  <2>2. v \in Nat /\ p \in Int /\ r \in Nat
    BY GuardsAssumption
  <2>3. volumes' \in Window /\ (G!volumeSpike = "high" => G!volumeSpike' = "high")
    BY <2>1, <2>2, SpikeStays
  <2>4. ranges' \in Window /\ (G!volatile => G!volatile')
    BY <2>1, <2>2, VolatileStays
  <2>5. shape' \in Shape /\ shape'.gap = shape.gap /\ WicksStay
    BY <2>1, <2>2, WicksGiveWay DEF GuardsInv
  <2>6. G!priceGap' = G!priceGap /\ G!staleData' = G!staleData
    BY <2>1, <2>5 DEF G!priceGap, G!staleData
  <2>7. G!lasting => G!lasting'
    BY <2>3, <2>6 DEF G!lasting
  <2>8. GuardsInv'
    BY <2>1, <2>3, <2>4, <2>5 DEF GuardsInv
  <2> QED
    BY <1>0, <2>1, <2>4, <2>5, <2>7, <2>8
<1>4. ASSUME NEW t \in Ages, G!Wait(t) PROVE GuardsInv' /\ G!StaysStopped
  <2>1. /\ recent' = recent /\ volumes' = volumes /\ ranges' = ranges /\ shape' = shape
        /\ interval' = interval /\ age' = t /\ watched' = watched /\ t > age
    BY <1>4 DEF G!Wait, G!market
  <2>2. t \in Nat
    BY GuardsAssumption
  <2>3. G!volatile => G!volatile'
    BY <2>1 DEF G!volatile
  <2>4. G!volumeSpike' = G!volumeSpike /\ G!priceGap' = G!priceGap /\ G!wickAnomaly' = G!wickAnomaly
    BY <2>1 DEF G!volumeSpike, G!priceGap, G!wickAnomaly, G!wicks, G!body
  <2>5. G!staleData = "high" => G!staleData' = "high"
    <3>1. 3 * interval \in Nat /\ 5 * interval \in Nat /\ t >= age /\ age \in Nat
      BY <2>1, <2>2 DEF GuardsInv
    <3>2. G!severity(age, 3 * interval, 5 * interval) = "high" => G!severity(t, 3 * interval, 5 * interval) = "high"
      BY <2>2, <3>1, MoreStaysHigh
    <3> QED
      BY <2>1, <3>2 DEF G!staleData
  <2>6. G!lasting => G!lasting'
    BY <2>4, <2>5 DEF G!lasting
  <2>7. GuardsInv'
    BY <2>1, <2>2 DEF GuardsInv
  <2> QED
    BY <1>0, <2>1, <2>3, <2>4, <2>6, <2>7
<1> QED
  BY <1>1, <1>2, <1>3, <1>4 DEF G!Next

LEMMA GuardsHold == Spec => [](part = "guards" => GuardsInv)
<1>1. Init => (part = "guards" => GuardsInv)
  <2> SUFFICES ASSUME Init, part = "guards" PROVE GuardsInv
    OBVIOUS
  <2>1. G!Init
    BY DEF Init
  <2>2. G!Min(Traded) \in Nat /\ G!Min(Ranged) \in Nat
    <3>1. \A X \in SUBSET Nat : X # {} => G!Min(X) \in Nat
      BY Least DEF G!Min
    <3> QED
      BY <3>1, GuardsAssumption
  <2>3. volumes \in Window
    <3>1. PICK v \in Volumes, w \in Volumes : volumes = <<v, w, G!Min(Traded)>>
      BY <2>1 DEF G!Init
    <3>2. v \in Nat /\ w \in Nat
      BY GuardsAssumption
    <3> QED
      BY <2>2, <3>1, <3>2 DEF Window
  <2>4. ranges \in Window
    <3>1. PICK v \in Ranges, w \in Ranges : ranges = <<v, w, G!Min(Ranged)>>
      BY <2>1 DEF G!Init
    <3>2. v \in Nat /\ w \in Nat
      BY GuardsAssumption
    <3> QED
      BY <2>2, <3>1, <3>2 DEF Window
  <2>5. shape \in Shape
    <3>1. shape \in [gap : Gaps, high : {0}, low : {0}, close : {0}]
      BY <2>1 DEF G!Init
    <3>2. \A x \in Gaps : x \in Nat
      BY GuardsAssumption
    <3> QED
      BY <3>1, <3>2 DEF Shape
  <2>6. interval \in Nat /\ age \in Nat
    BY <2>1, GuardsAssumption DEF G!Init
  <2> QED
    BY <2>3, <2>4, <2>5, <2>6 DEF GuardsInv
<1>2. (part = "guards" => GuardsInv) /\ [Next]_vars => (part = "guards" => GuardsInv)'
  BY GuardsMove, GuardsStep
<1> QED
  BY <1>1, <1>2, PTL DEF Spec

-----------------------------------------------------------------------------
(* TradePlanning, for any largest position, fee and number of troubles.    *)

(* A behaviour of the planning is one of TradePlanning.                    *)
LEMMA PlanningMoves ==
    [Next]_vars => part' = part /\ (part = "planning" => [P!Next]_planningVars)
  BY DEF Next, vars

Plain(c) ==
    /\ c.drawdown \in 0..3
    /\ c.concentrated \in 0..1 /\ c.volShift \in 0..1 /\ c.correlated \in 0..1 /\ c.event \in 0..1
    /\ c.apiErrors \in 0..1 /\ c.drift \in 0..1 /\ c.backlog \in 0..1
    /\ c.spread \in {0, 10, 20, 40} /\ c.shrinkage \in {0, 30, 60, 90}
    /\ c.atr \in {3, 10, 18, 35} /\ c.percentile \in {5, 8, 9, 10}
    /\ c.exposure \in Int
    /\ c.equity \in {300, 1000} /\ c.direction \in -1..1 /\ c.confidence \in {20, 80}
    /\ c.move \in {5, 30, 200} /\ c.odds \in {40, 60}
    /\ c.returns \in {0, 58, 80, 247}

(* Nothing that the overlay or the sizing reacts to is better in d.        *)
Worse(c, d) ==
    /\ c.drawdown <= d.drawdown /\ c.concentrated <= d.concentrated /\ c.volShift <= d.volShift
    /\ c.correlated <= d.correlated /\ c.event <= d.event /\ c.apiErrors <= d.apiErrors
    /\ c.drift <= d.drift /\ c.backlog <= d.backlog /\ c.spread <= d.spread
    /\ c.shrinkage <= d.shrinkage /\ c.percentile <= d.percentile /\ c.exposure <= d.exposure
    /\ d.atr = c.atr /\ d.equity = c.equity /\ d.direction = c.direction
    /\ d.confidence = c.confidence /\ d.move = c.move /\ d.odds = c.odds /\ d.returns = c.returns

LEMMA ModeCloses ==
    ASSUME NEW c, Plain(c)
    PROVE  P!mode(c) \in {"no_new_entries", "flatten_only"} <=> c.apiErrors = 1 \/ c.drawdown > 1 \/ c.drift = 1
<1>1. c.drawdown \in 0..3 /\ c.apiErrors \in 0..1 /\ c.drift \in 0..1
  BY DEF Plain
<1>2. CASE c.apiErrors = 1
  BY <1>2 DEF P!mode
<1>3. CASE c.apiErrors # 1 /\ c.drawdown = 3
  BY <1>3 DEF P!mode
<1>4. CASE c.apiErrors # 1 /\ c.drawdown = 2
  BY <1>4 DEF P!mode
<1>5. CASE c.apiErrors # 1 /\ c.drawdown < 2 /\ c.drift = 1
  BY <1>1, <1>5 DEF P!mode
<1>6. CASE c.apiErrors # 1 /\ c.drawdown < 2 /\ c.drift # 1
  <2>1. P!mode(c) \in {"reduced", "normal"}
    BY <1>1, <1>6 DEF P!mode
  <2> QED
    BY <1>1, <1>6, <2>1
<1> QED
  BY <1>1, <1>2, <1>3, <1>4, <1>5, <1>6

Extreme(c) == c.spread > 30 \/ c.shrinkage > 80
High(c) == c.spread > 15 \/ c.shrinkage > 50

LEMMA SlippageIs ==
    ASSUME NEW c
    PROVE  /\ P!slippageRisk(c) = "extreme" <=> Extreme(c)
           /\ P!slippageRisk(c) = "high" <=> High(c) /\ ~Extreme(c)
  BY DEF P!slippageRisk, Extreme, High

LEMMA StateWorsens ==
    ASSUME NEW c, NEW d, Plain(c), Plain(d), Worse(c, d)
    PROVE  /\ P!compute(c).slippage = "extreme" => P!compute(d).slippage = "extreme"
           /\ P!compute(c).slippage = "high" => P!compute(d).slippage \in {"high", "extreme"}
           /\ P!compute(c).highVol => P!compute(d).highVol
           /\ P!compute(c).percentile <= P!compute(d).percentile
           /\ P!compute(c).percentile \in {5, 8, 9, 10} /\ P!compute(d).percentile \in {5, 8, 9, 10}
           /\ P!compute(d).atr = P!compute(c).atr /\ P!compute(c).atr \in {0, 3, 10, 18, 35}
<1>1. d.returns = c.returns /\ c.returns \in {0, 58, 80, 247}
  BY DEF Plain, Worse
<1>2. CASE c.returns < 97
  BY <1>1, <1>2 DEF P!compute
<1>3. CASE ~(c.returns < 97)
  <2>1. /\ c.percentile \in {5, 8, 9, 10} /\ d.percentile \in {5, 8, 9, 10} /\ c.percentile <= d.percentile
        /\ d.atr = c.atr /\ c.atr \in {0, 3, 10, 18, 35}
    BY DEF Plain, Worse
  <2>2. /\ P!compute(c).slippage = P!slippageRisk(c) /\ P!compute(d).slippage = P!slippageRisk(d)
        /\ P!compute(c).percentile = c.percentile /\ P!compute(d).percentile = d.percentile
        /\ P!compute(c).atr = c.atr /\ P!compute(d).atr = d.atr
    BY <1>1, <1>3 DEF P!compute
  <2>3. (P!compute(c).highVol <=> c.percentile > 9 \/ c.atr > 30) /\ (P!compute(d).highVol <=> d.percentile > 9 \/ d.atr > 30)
    BY <1>1, <1>3 DEF P!compute
  <2>4. P!compute(c).highVol => P!compute(d).highVol
    <3>1. (c.percentile > 9 \/ c.atr > 30) => (d.percentile > 9 \/ d.atr > 30)
      BY <2>1
    <3> QED
      BY <2>3, <3>1
  <2>5. (Extreme(c) => Extreme(d)) /\ (High(c) => High(d))
    BY DEF Plain, Worse, Extreme, High
  <2> QED
    BY <2>1, <2>2, <2>4, <2>5, SlippageIs
<1> QED
  BY <1>2, <1>3

(* The edge is the same, and what it must exceed no less.                  *)
LEMMA ForecastWorsens ==
    ASSUME NEW c, NEW d, Plain(c), Plain(d), Worse(c, d)
    PROVE  /\ P!score(d).calibration = P!score(c).calibration
           /\ P!score(d).edge = P!score(c).edge
           /\ P!score(d).exceedsCosts => P!score(c).exceedsCosts
<1>1. /\ d.returns = c.returns /\ d.direction = c.direction /\ d.confidence = c.confidence
      /\ d.move = c.move /\ d.odds = c.odds
  BY DEF Worse
<1>2. CASE c.returns = 0
  BY <1>1, <1>2 DEF P!score
<1>3. CASE c.returns # 0
  <2> DEFINE boost(x) == IF x.direction # 0 /\ x.confidence > 30 THEN (15 * x.confidence) \div 100 ELSE 0
             edge(x) == IF x.direction = 0 THEN -(2 * FeeRate + 3)
                        ELSE (x.move * P!Min({95, x.odds + boost(x)}) + 50) \div 100 - (2 * FeeRate + 3)
             slip(x) == CASE P!compute(x).slippage = "high" -> 15
                          [] P!compute(x).slippage = "extreme" -> 40
                          [] OTHER -> 0
  <2>1. /\ P!score(c).calibration = P!Min({70, c.returns \div 2}) /\ P!score(d).calibration = P!Min({70, d.returns \div 2})
        /\ P!score(c).edge = edge(c) /\ P!score(d).edge = edge(d)
    BY <1>1, <1>3 DEF P!score
  <2>2. /\ P!score(c).exceedsCosts <=> edge(c) > (2 * FeeRate + 3) + slip(c)
        /\ P!score(d).exceedsCosts <=> edge(d) > (2 * FeeRate + 3) + slip(d)
    BY <1>1, <1>3 DEF P!score
  <2>3. edge(d) = edge(c)
    BY <1>1
  <2>4. slip(c) \in {0, 15, 40} /\ slip(d) \in {0, 15, 40} /\ slip(c) <= slip(d)
    <3>1. P!compute(c).slippage = "high" => slip(c) = 15
      OBVIOUS
    <3>2. P!compute(c).slippage = "extreme" => slip(c) = 40
      OBVIOUS
    <3>3. P!compute(c).slippage \notin {"high", "extreme"} => slip(c) = 0
      OBVIOUS
    <3>4. P!compute(d).slippage = "high" => slip(d) = 15
      OBVIOUS
    <3>5. P!compute(d).slippage = "extreme" => slip(d) = 40
      OBVIOUS
    <3>6. P!compute(d).slippage \notin {"high", "extreme"} => slip(d) = 0
      OBVIOUS
    <3> HIDE DEF slip
    <3> QED
      BY <3>1, <3>2, <3>3, <3>4, <3>5, <3>6, StateWorsens
  <2>5. PICK e : e = edge(c)
    OBVIOUS
  <2>6. e \in Int
    <3>1. CASE c.direction = 0
      BY <2>5, <3>1, PlanningAssumption
    <3>2. CASE c.direction # 0
      <4>1. boost(c) \in Nat /\ c.odds \in Nat /\ c.move \in Nat
        <5>1. c.confidence \in {20, 80} /\ c.odds \in Nat /\ c.move \in Nat
          BY DEF Plain
        <5> QED
          BY <5>1
      <4>2. P!Min({95, c.odds + boost(c)}) \in Nat
        <5>1. {95, c.odds + boost(c)} \in SUBSET Nat /\ {95, c.odds + boost(c)} # {}
          BY <4>1
        <5>2. \A X \in SUBSET Nat : X # {} => P!Min(X) \in Nat
          BY Least DEF P!Min
        <5> HIDE DEF boost
        <5> QED
          BY <5>1, <5>2
      <4>3. PICK k \in Nat : k = P!Min({95, c.odds + boost(c)})
        BY <4>2
      <4>4. e = (c.move * k + 50) \div 100 - (2 * FeeRate + 3)
        BY <2>5, <3>2, <4>3
      <4> HIDE DEF edge, boost, slip
      <4>5. c.move * k + 50 \in Nat
        BY <4>1
      <4> QED
        BY <4>4, <4>5, PlanningAssumption
    <3> QED
      BY <3>1, <3>2
  <2>7. PICK g \in Int : g = 2 * FeeRate + 3
    BY PlanningAssumption
  <2>8. PICK s \in Int, t \in Int : s = slip(c) /\ t = slip(d) /\ s <= t
    <3> HIDE DEF slip
    <3> QED
      BY <2>4
  <2>9. e > g + t => e > g + s
    BY <2>6, <2>7, <2>8
  <2> HIDE DEF edge, slip, boost
  <2> QED
    BY <1>1, <2>1, <2>2, <2>3, <2>5, <2>7, <2>8, <2>9
<1> QED
  BY <1>2, <1>3

LEMMA PlanLeast ==
    ASSUME NEW X \in SUBSET Nat, X # {}
    PROVE  P!Min(X) \in X /\ \A x \in X : P!Min(X) <= x
  BY Least DEF P!Min

LEMMA PlanGreatest ==
    ASSUME NEW X \in SUBSET Nat, X # {}, NEW b \in Nat, \A x \in X : x <= b
    PROVE  P!Max(X) \in X /\ \A x \in X : P!Max(X) >= x
<1>1. PICK m \in X : \A x \in X : x <= m
  BY Greatest
<1>2. \A x \in X : m >= x
  BY <1>1
<1> QED
  BY <1>1, <1>2 DEF P!Max

LEMMA PlanMin ==
    ASSUME NEW a \in Int, NEW b \in Int PROVE P!Min({a, b}) = IF a <= b THEN a ELSE b
<1>1. \A x \in {a, b} : (\A y \in {a, b} : x <= y) <=> x = IF a <= b THEN a ELSE b
  OBVIOUS
<1> QED
  BY <1>1 DEF P!Min

LEMMA PlanMax ==
    ASSUME NEW a \in Int, NEW b \in Int PROVE P!Max({a, b}) = IF a >= b THEN a ELSE b
<1>1. \A x \in {a, b} : (\A y \in {a, b} : x >= y) <=> x = IF a >= b THEN a ELSE b
  OBVIOUS
<1> QED
  BY <1>1 DEF P!Max

Open(c) == c.apiErrors # 1 /\ c.drawdown <= 1 /\ c.drift # 1

Illiquid(c) == P!compute(c).highVol \/ P!compute(c).slippage \in {"high", "extreme"}

Cuts(c) ==
    {10} \union (IF c.drawdown > 1 \/ 1 \in {c.apiErrors, c.drift} THEN {0} ELSE {})
         \union (IF c.drawdown = 1 \/ 1 \in {c.concentrated, c.correlated} THEN {5} ELSE {})
         \union (IF c.volShift = 1 THEN {6} ELSE {})
         \union (IF Illiquid(c) THEN {4} ELSE {})
         \union (IF 1 \in {c.event, c.backlog} THEN {3} ELSE {})

Tightens(c) ==
    {0} \union (IF c.drawdown = 1 THEN {30} ELSE {})
        \union (IF c.volShift = 1 THEN {20} ELSE {})
        \union (IF P!compute(c).highVol THEN {40} ELSE {})
        \union (IF c.event = 1 THEN {50} ELSE {})

LEMMA OpenBefore ==
    ASSUME NEW c, NEW d, Plain(c), Plain(d), Worse(c, d), Open(d) PROVE Open(c)
  BY DEF Plain, Worse, Open

LEMMA IlliquidStays ==
    ASSUME NEW c, NEW d, Plain(c), Plain(d), Worse(c, d), Illiquid(c) PROVE Illiquid(d)
  BY StateWorsens DEF Illiquid

(* While entries are allowed, nothing that cuts the size stops doing so.   *)
LEMMA CutsStay ==
    ASSUME NEW c, NEW d, Plain(c), Plain(d), Worse(c, d), Open(d)
    PROVE  Cuts(c) \subseteq Cuts(d)
<1>1. Open(c)
  BY OpenBefore
<1>2. ~(c.drawdown > 1 \/ 1 \in {c.apiErrors, c.drift})
  BY <1>1 DEF Plain, Open
<1>3. c.drawdown = 1 \/ 1 \in {c.concentrated, c.correlated} => d.drawdown = 1 \/ 1 \in {d.concentrated, d.correlated}
  BY DEF Plain, Worse, Open
<1>4. c.volShift = 1 => d.volShift = 1
  BY DEF Plain, Worse
<1>5. 1 \in {c.event, c.backlog} => 1 \in {d.event, d.backlog}
  BY DEF Plain, Worse
<1>6. Illiquid(c) => Illiquid(d)
  BY IlliquidStays
<1> QED
  BY <1>2, <1>3, <1>4, <1>5, <1>6, ZenonT(40) DEF Cuts

LEMMA MultiplierShrinks ==
    ASSUME NEW c, NEW d, Plain(c), Plain(d), Worse(c, d), Open(d)
    PROVE  /\ P!sizeMultiplier(c) \in 0..10 /\ P!sizeMultiplier(d) \in 0..10
           /\ P!sizeMultiplier(d) <= P!sizeMultiplier(c)
<1>1. \A x : Cuts(x) \in SUBSET Nat /\ 10 \in Cuts(x)
  BY DEF Cuts
<1>2. P!sizeMultiplier(c) = P!Min(Cuts(c)) /\ P!sizeMultiplier(d) = P!Min(Cuts(d))
  BY Zenon DEF P!sizeMultiplier, Cuts, Illiquid
<1>3. Cuts(c) \subseteq Cuts(d)
  BY CutsStay
<1>4. /\ P!Min(Cuts(c)) \in Cuts(c) /\ P!Min(Cuts(c)) <= 10
      /\ P!Min(Cuts(d)) <= 10 /\ P!Min(Cuts(d)) <= P!Min(Cuts(c))
      /\ P!Min(Cuts(c)) \in Nat /\ P!Min(Cuts(d)) \in Nat
  BY <1>1, <1>3, PlanLeast
<1> QED
  BY <1>2, <1>4

LEMMA StopTightens ==
    ASSUME NEW c, NEW d, Plain(c), Plain(d), Worse(c, d), Open(d)
    PROVE  /\ P!stopLoss(c) \in Nat /\ P!stopLoss(d) \in Nat
           /\ P!stopLoss(d) <= P!stopLoss(c) /\ P!stopLoss(d) >= 50
<1>1. \A x : Tightens(x) \in SUBSET Nat /\ 0 \in Tightens(x) /\ \A y \in Tightens(x) : y <= 50
  BY DEF Tightens
<1>2. P!stopTighten(c) = P!Max(Tightens(c)) /\ P!stopTighten(d) = P!Max(Tightens(d))
  BY Zenon DEF P!stopTighten, Tightens
<1>3. Tightens(c) \subseteq Tightens(d)
  <2>1. c.drawdown = 1 => d.drawdown = 1
    BY DEF Plain, Worse, Open
  <2>2. (c.volShift = 1 => d.volShift = 1) /\ (c.event = 1 => d.event = 1)
    BY DEF Plain, Worse
  <2>3. P!compute(c).highVol => P!compute(d).highVol
    BY StateWorsens
  <2> QED
    BY <2>1, <2>2, <2>3, ZenonT(40) DEF Tightens
<1>4. PICK t, u \in Nat : t = P!stopTighten(c) /\ u = P!stopTighten(d) /\ t <= u
  <2>1. /\ P!Max(Tightens(c)) \in Tightens(c) /\ P!Max(Tightens(d)) \in Tightens(d)
        /\ \A x \in Tightens(d) : P!Max(Tightens(d)) >= x
    BY <1>1, PlanGreatest
  <2> QED
    BY <1>1, <1>2, <1>3, <2>1
<1>5. PICK w \in Int : w = (150 * P!Max({5, P!Min({20, P!compute(c).atr})}) + 5) \div 10
  <2>1. PICK a \in Nat : a = P!compute(c).atr
    BY StateWorsens
  <2>2. PICK m \in Nat : m = P!Min({20, a})
    BY PlanMin
  <2>3. P!Max({5, m}) \in Nat
    BY PlanMax
  <2> QED
    BY <2>1, <2>2, <2>3
<1>6. P!compute(d).atr = P!compute(c).atr
  BY StateWorsens
<1>7. P!stopLoss(c) = P!Max({50, w - t}) /\ P!stopLoss(d) = P!Max({50, w - u})
  BY <1>4, <1>5, <1>6 DEF P!stopLoss
<1>8. P!Max({50, w - t}) = (IF 50 >= w - t THEN 50 ELSE w - t) /\ P!Max({50, w - u}) = (IF 50 >= w - u THEN 50 ELSE w - u)
  BY <1>4, PlanMax
<1> QED
  BY <1>4, <1>7, <1>8

(* What tighter stops let grow.  If a size and its stop risk no more than  *)
(* another's, but for some roundings of the latter, they still do so when  *)
(* both are scaled down, the first no less, with one rounding more.        *)
LEMMA TimesMonotone ==
    ASSUME NEW a \in Nat, NEW b \in Nat, NEW x \in Nat, NEW y \in Nat, a <= b, x <= y
    PROVE  a * x <= b * y
<1>1. PICK i \in Nat : b = a + i
  <2>1. b - a \in Nat /\ b = a + (b - a)
    OBVIOUS
  <2> QED
    BY <2>1
<1>2. PICK j \in Nat : y = x + j
  <2>1. y - x \in Nat /\ y = x + (y - x)
    OBVIOUS
  <2> QED
    BY <2>1
<1>3. (a + i) * (x + j) = a * x + a * j + i * x + i * j
  OBVIOUS
<1>4. a * x \in Nat /\ a * j \in Nat /\ i * x \in Nat /\ i * j \in Nat
  OBVIOUS
<1>5. b * y = a * x + a * j + i * x + i * j
  BY <1>1, <1>2, <1>3
<1> QED
  BY <1>4, <1>5

LEMMA TimesCancels ==
    ASSUME NEW q \in Nat \ {0}, NEW a \in Nat, NEW b \in Nat, q * a <= q * b
    PROVE  a <= b
<1> SUFFICES ASSUME a >= b + 1 PROVE FALSE
  OBVIOUS
<1>1. q * (b + 1) <= q * a
  BY TimesMonotone
<1>2. q * (b + 1) = q * b + q
  OBVIOUS
<1>3. q * a \in Nat /\ q * b \in Nat
  OBVIOUS
<1> QED
  BY <1>1, <1>2, <1>3

LEMMA Quotient ==
    ASSUME NEW n \in Nat, NEW q \in Nat \ {0}
    PROVE  n \div q \in Nat /\ q * (n \div q) <= n /\ n <= q * (n \div q) + q
<1>1. n \div q \in Int /\ n % q \in 0..(q - 1) /\ n = q * (n \div q) + (n % q)
  OBVIOUS
<1>2. n \div q \in Nat
  <2> SUFFICES ASSUME n \div q <= -1 PROVE FALSE
    BY <1>1
  <2>1. q * (n \div q) <= -q
    BY <1>1
  <2> QED
    BY <1>1, <2>1
<1>3. q * (n \div q) \in Nat
  BY <1>2
<1> QED
  BY <1>1, <1>2, <1>3

(* So many cents of y, stopped at t, lose no more than x and k more, at s. *)
RisksUpTo(y, t, x, k, s) == y * t <= (x + k) * s

Scaled(x, e, q) == (x * e) \div q

(* The same fraction of one and no larger a fraction of the other.         *)
Shrinks(e, f, q) == q \in Nat \ {0} /\ e \in Nat /\ f \in Nat /\ f <= e /\ e <= q

LEMMA ScaledDown ==
    ASSUME NEW x \in Nat, NEW y \in Nat, NEW s \in Nat, NEW t \in Nat, NEW k \in Nat,
           NEW e, NEW f, NEW q, RisksUpTo(y, t, x, k, s), Shrinks(e, f, q)
    PROVE  /\ Scaled(x, e, q) \in Nat /\ Scaled(y, f, q) \in Nat
           /\ RisksUpTo(Scaled(y, f, q), t, Scaled(x, e, q), k + 1, s)
<1>0. q \in Nat \ {0} /\ e \in Nat /\ f \in Nat /\ f <= e /\ e <= q
  BY DEF Shrinks
<1>1. x * e \in Nat /\ y * f \in Nat
  BY <1>0
<1>2. PICK a \in Nat : a = (x * e) \div q /\ x * e <= q * a + q
  BY <1>0, <1>1, Quotient
<1>3. PICK b \in Nat : b = (y * f) \div q /\ q * b <= y * f
  BY <1>0, <1>1, Quotient
<1>4. q * b \in Nat /\ y * t \in Nat /\ (x + k) * s \in Nat /\ k * e \in Nat /\ k * q \in Nat /\ q * a \in Nat
  BY <1>0
<1>5. (q * b) * t <= (y * f) * t
  BY <1>0, <1>1, <1>3, <1>4, TimesMonotone
<1>6. (y * f) * t = (y * t) * f
  BY <1>0
<1>7. (y * t) * f <= ((x + k) * s) * e
  BY <1>0, <1>4, TimesMonotone DEF RisksUpTo
<1>8. ((x + k) * s) * e = (x * e + k * e) * s
  BY <1>0
<1>9. k * e <= k * q
  BY <1>0, TimesMonotone
<1>10. x * e + k * e <= q * a + q + k * q
  BY <1>0, <1>1, <1>2, <1>4, <1>9
<1>11. (x * e + k * e) * s <= (q * a + q + k * q) * s
  <2>1. x * e + k * e \in Nat /\ q * a + q + k * q \in Nat
    BY <1>0, <1>1, <1>4
  <2> QED
    BY <1>10, <2>1, TimesMonotone
<1>12. (q * a + q + k * q) * s = q * ((a + (k + 1)) * s)
  BY <1>0
<1>13. (q * b) * t = q * (b * t)
  BY <1>0
<1>14. b * t \in Nat /\ (a + (k + 1)) * s \in Nat
  BY <1>0
<1>15. q * (b * t) <= q * ((a + (k + 1)) * s)
  <2> DEFINE m1 == q * (b * t)
             m2 == (y * f) * t
             m3 == ((x + k) * s) * e
             m4 == (q * a + q + k * q) * s
  <2>1. m1 \in Int /\ m2 \in Int /\ m3 \in Int /\ m4 \in Int
    BY <1>0
  <2>2. m1 <= m2 /\ m2 <= m3 /\ m3 <= m4
    BY <1>5, <1>6, <1>7, <1>8, <1>11, <1>13
  <2>3. m4 = q * ((a + (k + 1)) * s)
    BY <1>12
  <2> HIDE DEF m1, m2, m3, m4
  <2>4. m1 <= m4
    BY <2>1, <2>2
  <2> QED
    BY <2>3, <2>4 DEF m1
<1>16. b * t <= (a + (k + 1)) * s
  BY <1>0, <1>14, <1>15, TimesCancels
<1> QED
  BY <1>2, <1>3, <1>16 DEF RisksUpTo, Scaled

(* What is left of the two after a cap that is X of the one, no more of    *)
(* the other.                                                              *)
CappedTo(n, y, m, x, X) ==
    /\ n \in Nat /\ m \in Nat /\ X \in Nat
    /\ m \in {x, X} /\ n <= y /\ n <= X

LEMMA CapKeeps ==
    ASSUME NEW x \in Nat, NEW y \in Nat, NEW s \in Nat, NEW t \in Nat, NEW k \in Nat, t <= s,
           NEW n, NEW m, NEW X, RisksUpTo(y, t, x, k, s), CappedTo(n, y, m, x, X)
    PROVE  RisksUpTo(n, t, m, k, s)
<1>0. n \in Nat /\ m \in Nat /\ X \in Nat /\ m \in {x, X} /\ n <= y /\ n <= X
  BY DEF CappedTo
<1>1. CASE m = x
  <2>1. n * t <= y * t
    BY <1>0, TimesMonotone
  <2>2. n * t \in Nat /\ y * t \in Nat /\ (x + k) * s \in Nat
    BY <1>0
  <2> QED
    BY <1>0, <1>1, <2>1, <2>2 DEF RisksUpTo
<1>2. CASE m = X
  <2>1. n <= m + k /\ m + k \in Nat
    BY <1>0, <1>2
  <2> QED
    BY <1>0, <2>1, TimesMonotone DEF RisksUpTo
<1> QED
  BY <1>0, <1>1, <1>2

(* The steps of buildSizing, each a scaling of the one before.             *)
Calmness(c) == 13 - P!Max({7, P!compute(c).percentile})
Liquidity(c) ==
    CASE P!compute(c).slippage = "high" -> 6
      [] P!compute(c).slippage = "extreme" -> 3
      [] OTHER -> 10
Most == 100 * P!Min({500, MaxPosition})
Afforded(c) == (20000 * c.equity) \div P!stopLoss(c)
Risked(c) == P!Min({Most, Afforded(c)})
Steady(c) == Scaled(Risked(c), Calmness(c), 6)
Liquid(c) == Scaled(Steady(c), Liquidity(c), 10)
Allowed(c) == Scaled(Liquid(c), P!sizeMultiplier(c), 10)
Worthwhile(c) == IF P!score(c).exceedsCosts THEN Allowed(c) ELSE Allowed(c) \div 2
Room(c) == P!Max({0, 100 * (MaxPosition - c.exposure)})
Capped(c) == P!Min({Worthwhile(c), Room(c), 100 * MaxPosition})

LEMMA SizeIs ==
    ASSUME NEW c PROVE P!size(c) = P!Max({5000, P!Min({100 * MaxPosition, Capped(c)})})
  BY DEF P!size, Calmness, Liquidity, Most, Afforded, Scaled, Risked, Steady, Liquid, Allowed, Worthwhile, Room, Capped

LEMMA FactorsShrink ==
    ASSUME NEW c, NEW d, Plain(c), Plain(d), Worse(c, d)
    PROVE  /\ Calmness(c) \in 0..6 /\ Calmness(d) \in 0..6 /\ Calmness(d) <= Calmness(c)
           /\ Liquidity(c) \in 0..10 /\ Liquidity(d) \in 0..10 /\ Liquidity(d) <= Liquidity(c)
<1>1. Calmness(c) \in 0..6 /\ Calmness(d) \in 0..6 /\ Calmness(d) <= Calmness(c)
  <2>1. PICK p, q \in {5, 8, 9, 10} : p = P!compute(c).percentile /\ q = P!compute(d).percentile /\ p <= q
    BY StateWorsens
  <2>2. P!Max({7, p}) = (IF 7 >= p THEN 7 ELSE p) /\ P!Max({7, q}) = (IF 7 >= q THEN 7 ELSE q)
    BY PlanMax
  <2> QED
    BY <2>1, <2>2 DEF Calmness
<1>2. \A x : /\ P!compute(x).slippage = "high" => Liquidity(x) = 6
             /\ P!compute(x).slippage = "extreme" => Liquidity(x) = 3
             /\ P!compute(x).slippage \notin {"high", "extreme"} => Liquidity(x) = 10
  BY DEF Liquidity
<1>3. Liquidity(c) \in 0..10 /\ Liquidity(d) \in 0..10 /\ Liquidity(d) <= Liquidity(c)
  BY <1>2, StateWorsens
<1> QED
  BY <1>1, <1>3

LEMMA RiskedNoMore ==
    ASSUME NEW c, NEW d, Plain(c), Plain(d), Worse(c, d), Open(d)
    PROVE  /\ Risked(c) \in Nat /\ Risked(d) \in Nat
           /\ RisksUpTo(Risked(d), P!stopLoss(d), Risked(c), 1, P!stopLoss(c))
<1>1. PICK s \in Nat, t \in Nat : s = P!stopLoss(c) /\ t = P!stopLoss(d) /\ t <= s /\ t >= 50
  BY StopTightens
<1>2. PICK w \in Nat : w = 20000 * c.equity /\ d.equity = c.equity /\ c.equity \in Nat
  BY DEF Plain, Worse
<1>3. PICK most \in Nat : most = Most
  <2>1. P!Min({500, MaxPosition}) \in Nat
    BY PlanMin, PlanningAssumption
  <2> QED
    BY <2>1 DEF Most
<1>4. s \in Nat \ {0} /\ t \in Nat \ {0}
  BY <1>1
<1>5. PICK a \in Nat : a = w \div s /\ w <= s * a + s
  BY <1>4, Quotient
<1>6. PICK b \in Nat : b = w \div t /\ t * b <= w
  BY <1>4, Quotient
<1>7. Risked(c) = (IF most <= a THEN most ELSE a) /\ Risked(d) = (IF most <= b THEN most ELSE b)
  <2>1. Afforded(c) = a /\ Afforded(d) = b
    BY <1>1, <1>2, <1>5, <1>6 DEF Afforded
  <2>2. Risked(c) = P!Min({most, a}) /\ Risked(d) = P!Min({most, b})
    BY <1>3, <2>1 DEF Risked
  <2> QED
    BY <2>2, PlanMin
<1>8. RisksUpTo(b, t, a, 1, s)
  <2>1. t * b = b * t /\ s * a + s = (a + 1) * s
    OBVIOUS
  <2>2. b * t \in Nat /\ (a + 1) * s \in Nat
    OBVIOUS
  <2> QED
    BY <1>5, <1>6, <2>1, <2>2 DEF RisksUpTo
<1>9. PICK m, n \in Nat : m = Risked(c) /\ n = Risked(d) /\ m \in {a, most} /\ n <= b /\ n <= most
  BY <1>7
<1>10. RisksUpTo(n, t, m, 1, s)
  <2>1. CappedTo(n, b, m, a, most)
    BY <1>9 DEF CappedTo
  <2>2. 1 \in Nat
    OBVIOUS
  <2> QED
    BY <1>1, <1>8, <2>1, <2>2, CapKeeps, Zenon
<1> QED
  BY <1>1, <1>9, <1>10

LEMMA WorthwhileNoMore ==
    ASSUME NEW c, NEW d, Plain(c), Plain(d), Worse(c, d), Open(d)
    PROVE  /\ Worthwhile(c) \in Nat /\ Worthwhile(d) \in Nat
           /\ RisksUpTo(Worthwhile(d), P!stopLoss(d), Worthwhile(c), 5, P!stopLoss(c))
<1>1. PICK s \in Nat, t \in Nat : s = P!stopLoss(c) /\ t = P!stopLoss(d)
  BY StopTightens
<1>2. Risked(c) \in Nat /\ Risked(d) \in Nat /\ RisksUpTo(Risked(d), t, Risked(c), 1, s)
  BY <1>1, RiskedNoMore
<1>3. PICK e, f \in 0..6 : e = Calmness(c) /\ f = Calmness(d) /\ f <= e
  BY FactorsShrink
<1>4. Steady(c) \in Nat /\ Steady(d) \in Nat /\ RisksUpTo(Steady(d), t, Steady(c), 2, s)
  <2>1. Shrinks(Calmness(c), Calmness(d), 6) /\ 1 \in Nat /\ 1 + 1 = 2
    BY <1>3 DEF Shrinks
  <2>2. /\ Scaled(Risked(c), Calmness(c), 6) \in Nat /\ Scaled(Risked(d), Calmness(d), 6) \in Nat
        /\ RisksUpTo(Scaled(Risked(d), Calmness(d), 6), t, Scaled(Risked(c), Calmness(c), 6), 1 + 1, s)
    BY <1>1, <1>2, <2>1, ScaledDown, Zenon
  <2> QED
    BY <2>1, <2>2, Zenon DEF Steady
<1>5. PICK g, h \in 0..10 : g = Liquidity(c) /\ h = Liquidity(d) /\ h <= g
  BY FactorsShrink
<1>6. Liquid(c) \in Nat /\ Liquid(d) \in Nat /\ RisksUpTo(Liquid(d), t, Liquid(c), 3, s)
  <2>1. Shrinks(Liquidity(c), Liquidity(d), 10) /\ 2 \in Nat /\ 2 + 1 = 3
    BY <1>5 DEF Shrinks
  <2>2. /\ Scaled(Steady(c), Liquidity(c), 10) \in Nat /\ Scaled(Steady(d), Liquidity(d), 10) \in Nat
        /\ RisksUpTo(Scaled(Steady(d), Liquidity(d), 10), t, Scaled(Steady(c), Liquidity(c), 10), 2 + 1, s)
    BY <1>1, <1>4, <2>1, ScaledDown, Zenon
  <2> QED
    BY <2>1, <2>2, Zenon DEF Liquid
<1>7. PICK i, j \in 0..10 : i = P!sizeMultiplier(c) /\ j = P!sizeMultiplier(d) /\ j <= i
  BY MultiplierShrinks
<1>8. Allowed(c) \in Nat /\ Allowed(d) \in Nat /\ RisksUpTo(Allowed(d), t, Allowed(c), 4, s)
  <2>1. Shrinks(P!sizeMultiplier(c), P!sizeMultiplier(d), 10) /\ 3 \in Nat /\ 3 + 1 = 4
    BY <1>7 DEF Shrinks
  <2>2. /\ Scaled(Liquid(c), P!sizeMultiplier(c), 10) \in Nat /\ Scaled(Liquid(d), P!sizeMultiplier(d), 10) \in Nat
        /\ RisksUpTo(Scaled(Liquid(d), P!sizeMultiplier(d), 10), t, Scaled(Liquid(c), P!sizeMultiplier(c), 10), 3 + 1, s)
    BY <1>1, <1>6, <2>1, ScaledDown, Zenon
  <2> QED
    BY <2>1, <2>2, Zenon DEF Allowed
<1> DEFINE p == IF P!score(c).exceedsCosts THEN 2 ELSE 1
           q == IF P!score(d).exceedsCosts THEN 2 ELSE 1
<1>9. p \in 1..2 /\ q \in 1..2 /\ q <= p
  <2>1. P!score(d).exceedsCosts => P!score(c).exceedsCosts
    BY ForecastWorsens
  <2> QED
    BY <2>1
<1>10. Worthwhile(c) = Scaled(Allowed(c), p, 2) /\ Worthwhile(d) = Scaled(Allowed(d), q, 2)
  <2>1. \A n \in Nat : Scaled(n, 2, 2) = n /\ Scaled(n, 1, 2) = n \div 2
    BY DEF Scaled
  <2>2. Worthwhile(c) = Scaled(Allowed(c), p, 2)
    BY <1>8, <2>1 DEF Worthwhile
  <2>3. Worthwhile(d) = Scaled(Allowed(d), q, 2)
    BY <1>8, <2>1 DEF Worthwhile
  <2> QED
    BY <2>2, <2>3
<1> HIDE DEF p, q
<1>11. Worthwhile(c) \in Nat /\ Worthwhile(d) \in Nat /\ RisksUpTo(Worthwhile(d), t, Worthwhile(c), 5, s)
  <2>1. Shrinks(p, q, 2) /\ 4 \in Nat /\ 4 + 1 = 5
    BY <1>9 DEF Shrinks
  <2>2. /\ Scaled(Allowed(c), p, 2) \in Nat /\ Scaled(Allowed(d), q, 2) \in Nat
        /\ RisksUpTo(Scaled(Allowed(d), q, 2), t, Scaled(Allowed(c), p, 2), 4 + 1, s)
    BY <1>1, <1>8, <2>1, ScaledDown, Zenon
  <2> QED
    BY <1>10, <2>1, <2>2, Zenon
<1> QED
  BY <1>1, <1>11

(* Whatever gets worse, the planned loss does not rise by more than the    *)
(* roundings of five steps.                                                *)
LEMMA LossNoMore ==
    ASSUME NEW c, NEW d, Plain(c), Plain(d), Worse(c, d), Open(d)
    PROVE  /\ P!size(c) \in Nat /\ P!size(d) \in Nat
           /\ RisksUpTo(P!size(d), P!stopLoss(d), P!size(c), 5, P!stopLoss(c))
<1>1. PICK s \in Nat, t \in Nat : s = P!stopLoss(c) /\ t = P!stopLoss(d) /\ t <= s
  BY StopTightens
<1>2. PICK x, y \in Nat : x = Worthwhile(c) /\ y = Worthwhile(d) /\ RisksUpTo(y, t, x, 5, s)
  BY <1>1, WorthwhileNoMore
<1>3. PICK X, Y \in Nat : X = Room(c) /\ Y = Room(d) /\ Y <= X
  <2>1. PICK i, j \in Int : i = 100 * (MaxPosition - c.exposure) /\ j = 100 * (MaxPosition - d.exposure) /\ j <= i
    BY PlanningAssumption DEF Plain, Worse
  <2>2. Room(c) = (IF 0 >= i THEN 0 ELSE i) /\ Room(d) = (IF 0 >= j THEN 0 ELSE j)
    BY <2>1, PlanMax DEF Room
  <2> QED
    BY <2>1, <2>2
<1>4. PICK most \in Nat : most = 100 * MaxPosition
  BY PlanningAssumption
<1>5. \A a, b \in Nat : P!Min({a, b, most}) \in {a, b, most} /\ P!Min({a, b, most}) <= a /\ P!Min({a, b, most}) <= b /\ P!Min({a, b, most}) <= most
  <2> SUFFICES ASSUME NEW a \in Nat, NEW b \in Nat
               PROVE  P!Min({a, b, most}) \in {a, b, most} /\ P!Min({a, b, most}) <= a /\ P!Min({a, b, most}) <= b /\ P!Min({a, b, most}) <= most
    OBVIOUS
  <2>1. {a, b, most} \in SUBSET Nat /\ {a, b, most} # {}
    OBVIOUS
  <2> QED
    BY <2>1, PlanLeast
<1>6. PICK m, n \in Nat : m = Capped(c) /\ n = Capped(d) /\ m \in {x, X, most} /\ n <= y /\ n <= Y /\ n <= most
  BY <1>2, <1>3, <1>4, <1>5 DEF Capped
<1>7. RisksUpTo(n, t, m, 5, s)
  <2>1. CASE m \in {x, X}
    <3>1. CappedTo(n, y, m, x, X) /\ 5 \in Nat
      BY <1>3, <1>6, <2>1 DEF CappedTo
    <3> QED
      BY <1>1, <1>2, <3>1, CapKeeps, Zenon
  <2>2. CASE m = most
    <3>1. CappedTo(n, y, m, x, most) /\ 5 \in Nat
      BY <1>6, <2>2 DEF CappedTo
    <3> QED
      BY <1>1, <1>2, <3>1, CapKeeps, Zenon
  <2> QED
    BY <1>6, <2>1, <2>2
<1>8. PICK k, l \in Nat : /\ k = (IF most <= m THEN most ELSE m) /\ l = (IF most <= n THEN most ELSE n)
                          /\ P!Min({most, m}) = k /\ P!Min({most, n}) = l
  BY PlanMin
<1>9. RisksUpTo(l, t, k, 5, s)
  <2>1. CappedTo(l, n, k, m, most) /\ 5 \in Nat
    BY <1>8 DEF CappedTo
  <2> QED
    BY <1>1, <1>7, <2>1, CapKeeps, Zenon
<1>10. P!size(c) = (IF 5000 >= k THEN 5000 ELSE k) /\ P!size(d) = (IF 5000 >= l THEN 5000 ELSE l)
  <2>1. P!Min({100 * MaxPosition, Capped(c)}) = k /\ P!Min({100 * MaxPosition, Capped(d)}) = l
    BY <1>4, <1>6, <1>8
  <2>2. P!size(c) = P!Max({5000, k}) /\ P!size(d) = P!Max({5000, l})
    BY <2>1, SizeIs
  <2> QED
    BY <2>2, PlanMax
<1>11. PICK a, b \in Nat : a = P!size(c) /\ b = P!size(d) /\ k <= a /\ 5000 <= a /\ b \in {5000, l}
  BY <1>10
<1>12. RisksUpTo(b, t, a, 5, s)
  <2>1. CASE b = 5000
    <3>1. b <= a + 5 /\ a + 5 \in Nat
      BY <1>11, <2>1
    <3> QED
      BY <1>1, <2>1, <3>1, TimesMonotone DEF RisksUpTo
  <2>2. CASE b = l
    <3>1. (k + 5) * s <= (a + 5) * s
      <4>1. k + 5 \in Nat /\ a + 5 \in Nat /\ k + 5 <= a + 5
        BY <1>11
      <4> QED
        BY <4>1, TimesMonotone
    <3>2. l * t \in Nat /\ (k + 5) * s \in Nat /\ (a + 5) * s \in Nat
      OBVIOUS
    <3> QED
      BY <1>9, <2>2, <3>1, <3>2 DEF RisksUpTo
  <2> QED
    BY <1>11, <2>1, <2>2
<1> QED
  BY <1>1, <1>11, <1>12

(* What is considered of a condition is all that happens to it.            *)
PlanningInv ==
    /\ conditions = [f \in DOMAIN P!Levels |-> conditions[f]]
    /\ \A f \in DOMAIN P!Levels : conditions[f] \in P!Levels[f]

LEMMA LevelsAre ==
    DOMAIN P!Levels = {"drawdown", "concentrated", "volShift", "correlated", "event", "apiErrors",
        "drift", "backlog", "spread", "shrinkage", "atr", "percentile", "exposure", "equity",
        "direction", "confidence", "move", "odds", "returns"}
  BY DEF P!Levels

LEMMA LevelsArePlain ==
    ASSUME NEW c, \A f \in DOMAIN P!Levels : c[f] \in P!Levels[f] PROVE Plain(c)
<1>1. /\ c.drawdown \in P!Levels.drawdown /\ c.concentrated \in P!Levels.concentrated
      /\ c.volShift \in P!Levels.volShift /\ c.correlated \in P!Levels.correlated
      /\ c.event \in P!Levels.event /\ c.apiErrors \in P!Levels.apiErrors /\ c.drift \in P!Levels.drift
      /\ c.backlog \in P!Levels.backlog /\ c.spread \in P!Levels.spread
      /\ c.shrinkage \in P!Levels.shrinkage /\ c.atr \in P!Levels.atr
      /\ c.percentile \in P!Levels.percentile /\ c.exposure \in P!Levels.exposure
      /\ c.equity \in P!Levels.equity /\ c.direction \in P!Levels.direction
      /\ c.confidence \in P!Levels.confidence /\ c.move \in P!Levels.move
      /\ c.odds \in P!Levels.odds /\ c.returns \in P!Levels.returns
  BY LevelsAre
<1>2. /\ P!Levels.drawdown = 0..3 /\ P!Levels.concentrated = 0..1 /\ P!Levels.volShift = 0..1
      /\ P!Levels.correlated = 0..1 /\ P!Levels.event = 0..1 /\ P!Levels.apiErrors = 0..1
      /\ P!Levels.drift = 0..1 /\ P!Levels.backlog = 0..1 /\ P!Levels.spread = {0, 10, 20, 40}
      /\ P!Levels.shrinkage = {0, 30, 60, 90} /\ P!Levels.atr = {3, 10, 18, 35}
      /\ P!Levels.percentile = {5, 8, 9, 10}
      /\ P!Levels.exposure = {0, MaxPosition - 100, MaxPosition + 500}
      /\ P!Levels.equity = {300, 1000} /\ P!Levels.direction = -1..1
      /\ P!Levels.confidence = {20, 80} /\ P!Levels.move = {5, 30, 200} /\ P!Levels.odds = {40, 60}
      /\ P!Levels.returns = {0, 58, 80, 247}
  BY DEF P!Levels
<1>3. c.exposure \in Int
  BY <1>1, <1>2, PlanningAssumption
<1> QED
  BY <1>1, <1>2, <1>3 DEF Plain

LEMMA CalmIsPlain ==
    /\ P!Calm = [f \in DOMAIN P!Levels |-> P!Calm[f]]
    /\ \A f \in DOMAIN P!Levels : P!Calm[f] \in P!Levels[f]
<1>1. P!Calm = [f \in DOMAIN P!Levels |-> P!Calm[f]]
  BY DEF P!Calm
<1>2. ASSUME NEW f \in DOMAIN P!Levels PROVE P!Calm[f] \in P!Levels[f]
  <2>1. CASE f \in {"atr", "percentile", "equity", "direction", "confidence", "move", "odds", "returns"}
    BY <1>2, <2>1 DEF P!Calm, P!Levels
  <2>2. CASE f \notin {"atr", "percentile", "equity", "direction", "confidence", "move", "odds", "returns"}
    <3>1. P!Calm[f] = 0
      BY <1>2, <2>2 DEF P!Calm
    <3>2. 0 \in P!Levels[f]
      BY <1>2, <2>2 DEF P!Levels
    <3> QED
      BY <3>1, <3>2
  <2> QED
    BY <2>1, <2>2
<1> QED
  BY <1>1, <1>2

(* One condition that is a threat is all that is worse.                    *)
LEMMA ShiftWorsens ==
    ASSUME PlanningInv, NEW f \in DOMAIN P!Levels, NEW v \in P!Levels[f], P!Shift(f, v)
    PROVE  /\ PlanningInv'
           /\ Plain(conditions) /\ Plain(conditions')
           /\ \A h \in P!Threats : conditions'[h] > conditions[h] =>
                 /\ Worse(conditions, conditions')
                 /\ h # "apiErrors" => conditions'.apiErrors = conditions.apiErrors
<1>1. \A h \in DOMAIN P!Levels : conditions'[h] = IF h = f THEN v ELSE conditions[h]
  <2>1. conditions' = [conditions EXCEPT ![f] = v]
    BY DEF P!Shift
  <2> QED
    BY <2>1 DEF PlanningInv
<1>2. PlanningInv'
  <2>1. conditions' = [g \in DOMAIN P!Levels |-> conditions'[g]]
    <3>1. conditions' = [conditions EXCEPT ![f] = v]
      BY DEF P!Shift
    <3> QED
      BY <3>1 DEF PlanningInv
  <2>2. \A g \in DOMAIN P!Levels : conditions'[g] \in P!Levels[g]
    BY <1>1 DEF PlanningInv
  <2> QED
    BY <2>1, <2>2 DEF PlanningInv, P!Levels
<1>3. PICK c, d : c = conditions /\ d = conditions'
  OBVIOUS
<1>4. Plain(c) /\ Plain(d)
  <2>1. \A h \in DOMAIN P!Levels : c[h] \in P!Levels[h]
    BY <1>3 DEF PlanningInv
  <2>2. \A h \in DOMAIN P!Levels : d[h] \in P!Levels[h]
    BY <1>1, <1>3, <2>1
  <2> QED
    BY <2>1, <2>2, LevelsArePlain
<1>5. ASSUME NEW g \in P!Threats, conditions'[g] > conditions[g]
      PROVE  /\ Worse(conditions, conditions')
             /\ g # "apiErrors" => conditions'.apiErrors = conditions.apiErrors
  <2>3. g \in DOMAIN P!Levels
    BY LevelsAre DEF P!Threats
  <2>4. g = f \/ d[g] = c[g]
    BY <1>1, <1>3, <2>3
  <2>5. c[g] \in Int /\ d[g] > c[g]
    BY <1>3, <1>4, <1>5 DEF P!Threats, Plain
  <2>6. g = f
    BY <2>4, <2>5
  <2>7. \A h \in DOMAIN P!Levels : h # g => d[h] = c[h]
    BY <1>1, <1>3, <2>6
  <2>8. \A h \in P!Threats : d[h] = c[h] \/ d[h] > c[h]
    BY <2>5, <2>7, LevelsAre DEF P!Threats
  <2>9. \A h \in P!Threats : c[h] \in Int /\ d[h] \in Int
    BY <1>4 DEF P!Threats, Plain
  <2>10. \A h \in P!Threats : c[h] <= d[h]
    BY <2>8, <2>9
  <2>11. \A h \in DOMAIN P!Levels \ P!Threats : d[h] = c[h]
    BY <2>7
  <2>12. Worse(c, d)
    BY <2>10, <2>11, LevelsAre DEF P!Threats, Worse
  <2>13. g # "apiErrors" => d.apiErrors = c.apiErrors
    BY <2>7, LevelsAre
  <2> QED
    BY <1>3, <2>12, <2>13
<1> QED
  BY <1>2, <1>3, <1>4, <1>5

LEMMA PlanRisksNoMore ==
    ASSUME NEW c, NEW d, Plain(c), Plain(d), Worse(c, d)
    PROVE  P!atRisk(P!construct(d)) <= P!atRisk(P!construct(c)) + 5 * P!construct(c).stop
<1> DEFINE stays(x) == /\ Open(x) /\ x.direction # 0
                       /\ ~(P!score(x).calibration > 30 /\ (~P!score(x).exceedsCosts \/ P!score(x).edge < 5))
<1>1. \A x : Plain(x) =>
        /\ ~stays(x) => P!construct(x) = [side |-> "none", size |-> 0, stop |-> 0]
        /\ stays(x) => P!construct(x).size = P!size(x) /\ P!construct(x).stop = P!stopLoss(x)
  <2> SUFFICES ASSUME NEW x, Plain(x)
               PROVE  /\ ~stays(x) => P!construct(x) = [side |-> "none", size |-> 0, stop |-> 0]
                      /\ stays(x) => P!construct(x).size = P!size(x) /\ P!construct(x).stop = P!stopLoss(x)
    OBVIOUS
  <2>1. P!mode(x) \in {"no_new_entries", "flatten_only"} <=> ~Open(x)
    <3>1. x.drawdown \in 0..3
      BY DEF Plain
    <3>2. ~Open(x) <=> x.apiErrors = 1 \/ x.drawdown > 1 \/ x.drift = 1
      BY <3>1 DEF Open
    <3> QED
      BY <3>2, ModeCloses
  <2> QED
    BY <2>1 DEF P!construct
<1>2. CASE stays(d)
  <2>1. stays(c)
    BY <1>2, OpenBefore, ForecastWorsens DEF Worse
  <2>2. PICK x, y \in Nat : x = P!size(c) /\ y = P!size(d) /\ RisksUpTo(y, P!stopLoss(d), x, 5, P!stopLoss(c))
    BY <1>2, LossNoMore
  <2>3. PICK s, t \in Nat : s = P!stopLoss(c) /\ t = P!stopLoss(d)
    BY <1>2, StopTightens
  <2>4. y * t <= (x + 5) * s
    BY <2>2, <2>3 DEF RisksUpTo
  <2>5. (x + 5) * s = x * s + 5 * s
    OBVIOUS
  <2>6. P!atRisk(P!construct(c)) = x * s /\ P!atRisk(P!construct(d)) = y * t /\ P!construct(c).stop = s
    BY <1>1, <1>2, <2>1, <2>2, <2>3 DEF P!atRisk
  <2> QED
    BY <2>4, <2>5, <2>6
<1>3. CASE ~stays(d)
  <2>1. P!atRisk(P!construct(d)) = 0
    BY <1>1, <1>3 DEF P!atRisk
  <2>2. CASE stays(c)
    <3>1. Worse(c, c)
      BY DEF Plain, Worse
    <3>2. PICK x, s \in Nat : x = P!size(c) /\ s = P!stopLoss(c)
      BY <2>2, <3>1, StopTightens, LossNoMore
    <3>3. P!atRisk(P!construct(c)) = x * s /\ P!construct(c).stop = s
      BY <1>1, <2>2, <3>2 DEF P!atRisk
    <3>4. x * s \in Nat
      OBVIOUS
    <3> QED
      BY <2>1, <3>3, <3>4
  <2>3. CASE ~stays(c)
    <3>1. P!atRisk(P!construct(c)) = 0 /\ P!construct(c).stop = 0
      BY <1>1, <2>3 DEF P!atRisk
    <3> QED
      BY <2>1, <3>1
  <2> QED
    BY <2>2, <2>3
<1> QED
  BY <1>2, <1>3

Lesser(c) == c.drawdown = 1 \/ 1 \in {c.concentrated, c.volShift, c.correlated, c.event, c.backlog}

LEMMA ModeStrictness ==
    ASSUME NEW c, Plain(c)
    PROVE  /\ c.apiErrors = 1 => P!strictness(P!mode(c)) = 2
           /\ c.apiErrors = 0 /\ c.drawdown = 3 => P!strictness(P!mode(c)) = 3
           /\ c.apiErrors = 0 /\ c.drawdown = 2 => P!strictness(P!mode(c)) = 2
           /\ c.apiErrors = 0 /\ c.drawdown < 2 /\ c.drift = 1 => P!strictness(P!mode(c)) = 2
           /\ c.apiErrors = 0 /\ c.drawdown < 2 /\ c.drift = 0 /\ Lesser(c) => P!strictness(P!mode(c)) = 1
           /\ c.apiErrors = 0 /\ c.drawdown < 2 /\ c.drift = 0 /\ ~Lesser(c) => P!strictness(P!mode(c)) = 0
<1>1. /\ c.apiErrors = 1 => P!mode(c) = "no_new_entries"
      /\ c.apiErrors = 0 /\ c.drawdown = 3 => P!mode(c) = "flatten_only"
      /\ c.apiErrors = 0 /\ c.drawdown = 2 => P!mode(c) = "no_new_entries"
      /\ c.apiErrors = 0 /\ c.drawdown < 2 /\ c.drift = 1 => P!mode(c) = "no_new_entries"
  BY DEF P!mode, Plain
<1>2. /\ c.apiErrors = 0 /\ c.drawdown < 2 /\ c.drift = 0 /\ Lesser(c) => P!mode(c) = "reduced"
      /\ c.apiErrors = 0 /\ c.drawdown < 2 /\ c.drift = 0 /\ ~Lesser(c) => P!mode(c) = "normal"
  BY DEF P!mode, Plain, Lesser
<1>3. /\ P!strictness("normal") = 0 /\ P!strictness("reduced") = 1
      /\ P!strictness("no_new_entries") = 2 /\ P!strictness("flatten_only") = 3
  BY DEF P!strictness
<1> QED
  BY <1>1, <1>2, <1>3

(* No trouble but an error of the API relaxes the mode.                    *)
LEMMA ModeKeeps ==
    ASSUME NEW c, NEW d, Plain(c), Plain(d), Worse(c, d), d.apiErrors = c.apiErrors
    PROVE  P!strictness(P!mode(c)) <= P!strictness(P!mode(d))
<1>1. /\ c.drawdown \in 0..3 /\ d.drawdown \in 0..3 /\ c.drawdown <= d.drawdown
      /\ c.drift \in 0..1 /\ d.drift \in 0..1 /\ c.drift <= d.drift
      /\ c.apiErrors \in 0..1
  BY DEF Plain, Worse
<1>2. Lesser(c) /\ d.drawdown < 2 => Lesser(d)
  BY DEF Plain, Worse, Lesser
<1>3. CASE c.apiErrors = 1
  BY <1>3, ModeStrictness
<1>4. CASE c.apiErrors = 0 /\ d.drawdown >= 2
  BY <1>1, <1>4, ModeStrictness
<1>5. CASE c.apiErrors = 0 /\ d.drawdown < 2
  BY <1>1, <1>2, <1>5, ModeStrictness
<1> QED
  BY <1>1, <1>3, <1>4, <1>5

LEMMA PlanningStep ==
    ASSUME PlanningInv, [P!Next]_planningVars
    PROVE  PlanningInv' /\ (conditions' # conditions => P!RisksNoMore)
<1>1. CASE UNCHANGED planningVars
  <2>1. conditions' = conditions
    BY <1>1 DEF planningVars
  <2> QED
    BY <2>1 DEF PlanningInv, P!Levels
<1>2. ASSUME NEW f \in DOMAIN P!Levels, NEW v \in P!Levels[f], P!Shift(f, v)
      PROVE  PlanningInv' /\ P!RisksNoMore
  <2>1. /\ PlanningInv' /\ Plain(conditions) /\ Plain(conditions')
        /\ \A g \in P!Threats : conditions'[g] > conditions[g] =>
              /\ Worse(conditions, conditions')
              /\ g # "apiErrors" => conditions'.apiErrors = conditions.apiErrors
    BY <1>2, ShiftWorsens
  <2>2. ASSUME NEW g \in P!Threats, conditions'[g] > conditions[g]
        PROVE  P!atRisk(P!construct(conditions')) <= P!atRisk(P!construct(conditions)) + 5 * P!construct(conditions).stop
    BY <2>1, <2>2, PlanRisksNoMore
  <2>3. ASSUME NEW g \in P!Threats, conditions'[g] > conditions[g], g # "apiErrors"
        PROVE  P!strictness(P!mode(conditions)) <= P!strictness(P!mode(conditions'))
    BY <2>1, <2>3, ModeKeeps
  <2> QED
    BY <2>1, <2>2, <2>3 DEF P!RisksNoMore
<1> QED
  BY <1>1, <1>2 DEF P!Next

LEMMA PlanningHold == Spec => [](part = "planning" => PlanningInv)
<1>1. Init => (part = "planning" => PlanningInv)
  BY CalmIsPlain DEF Init, P!Init, PlanningInv
<1>2. (part = "planning" => PlanningInv) /\ [Next]_vars => (part = "planning" => PlanningInv)'
  BY PlanningMoves, PlanningStep
<1> QED
  BY <1>1, <1>2, PTL DEF Spec

(* More trouble, in the market or in the account, never makes the engine   *)
(* plan to lose more than the roundings of the size, and none but errors   *)
(* of the API relaxes the mode; a market that a guard stops trading in     *)
(* stays stopped while the candle is the newest, unless the stop was for   *)
(* its wicks and its body grows or is gone: for any largest position and   *)
(* fee, any number of troubles at a time and candles as many as one likes. *)
THEOREM TroubleNeverHelps == Spec => TroubleNeverRisksMore
<1>1. (part = "planning" => PlanningInv) /\ (part = "guards" => GuardsInv) /\ [Next]_vars
      => [(part = "planning" => P!RisksNoMore) /\ (part = "guards" => G!StaysStopped)]_vars
  <2> SUFFICES ASSUME part = "planning" => PlanningInv, part = "guards" => GuardsInv, [Next]_vars
               PROVE  [(part = "planning" => P!RisksNoMore) /\ (part = "guards" => G!StaysStopped)]_vars
    OBVIOUS
  <2>1. part = "guards" => G!StaysStopped
    BY GuardsMove, GuardsStep
  <2>2. part = "planning" /\ conditions' # conditions => P!RisksNoMore
    BY PlanningMoves, PlanningStep
  <2>3. part = "planning" /\ Next /\ conditions' = conditions => P!RisksNoMore
    <3> SUFFICES ASSUME part = "planning", conditions' = conditions, PlanningInv, NEW f \in P!Threats
                 PROVE  ~(conditions'[f] > conditions[f])
      BY DEF P!RisksNoMore
    <3>1. Plain(conditions)
      BY LevelsArePlain DEF PlanningInv
    <3>2. conditions[f] \in Int
      BY <3>1 DEF Plain, P!Threats
    <3> QED
      BY <3>2
  <2> QED
    BY <2>1, <2>2, <2>3
<1> QED
  BY <1>1, GuardsHold, PlanningHold, PTL DEF Spec, TroubleNeverRisksMore

-----------------------------------------------------------------------------
(* CompositeSignals, from any setups and with any number of moves.         *)

(* A behaviour of the composite strategies is one of CompositeSignals.     *)
LEMMA CompositeMoves ==
    [Next]_vars => part' = part /\ (part = "composite" => [C!Next]_compositeVars)
  BY DEF Next, vars

LEMMA CompositeMin ==
    ASSUME NEW a \in Int, NEW b \in Int PROVE C!Min({a, b}) = IF a <= b THEN a ELSE b
<1>1. \A x \in {a, b} : (\A y \in {a, b} : x <= y) <=> x = IF a <= b THEN a ELSE b
  OBVIOUS
<1> QED
  BY <1>1 DEF C!Min

LEMMA CompositeMax ==
    ASSUME NEW a \in Int, NEW b \in Int PROVE C!Max({a, b}) = IF a >= b THEN a ELSE b
<1>1. \A x \in {a, b} : (\A y \in {a, b} : x >= y) <=> x = IF a >= b THEN a ELSE b
  OBVIOUS
<1> QED
  BY <1>1 DEF C!Max

(* A setup, whatever its numbers are.                                      *)
Legible(s) ==
    /\ s.stack \in -1..1 /\ s.cross \in -1..1 /\ s.macd \in -1..1 /\ s.vwap \in -1..1
    /\ s.obv \in -1..1 /\ s.williams \in -1..1 /\ s.ema200 \in {-1, 1} /\ s.di \in {-1, 1}
    /\ s.spike \in 0..1 /\ s.frames \in -1..2
    /\ s.candles \in Int /\ s.adx \in Int /\ s.band \in Int /\ s.rsi \in Int /\ s.stoch \in Int
    /\ s.mfi \in Int /\ s.cci \in Int /\ s.greed \in Int

(* Nothing speaks less for buying in t than in s.                          *)
Brighter(s, t) ==
    /\ t.candles = s.candles /\ t.adx = s.adx /\ t.spike = s.spike /\ t.greed = s.greed
    /\ s.stack <= t.stack /\ s.cross <= t.cross /\ s.macd <= t.macd /\ s.vwap <= t.vwap
    /\ s.obv <= t.obv /\ s.williams <= t.williams /\ s.ema200 <= t.ema200 /\ s.di <= t.di
    /\ t.band <= s.band /\ t.rsi <= s.rsi /\ t.stoch <= s.stoch /\ t.mfi <= s.mfi /\ t.cci <= s.cci
    /\ t.frames = s.frames \/ (s.frames \in -1..1 /\ t.frames \in -1..1 /\ s.frames <= t.frames)

LEMMA OversoldRises ==
    ASSUME NEW v \in Int, NEW w \in Int, w <= v, NEW low \in Int, NEW high \in Int, low < high
    PROVE  /\ C!oversold(v, low, high) \in -1..1 /\ C!oversold(w, low, high) \in -1..1
           /\ C!oversold(v, low, high) <= C!oversold(w, low, high)
  BY DEF C!oversold

(* An oscillator speaks no less for buying than the other one's reading.   *)
LEMMA OscillatorsFall ==
    ASSUME NEW s, NEW t, Legible(s), Legible(t), Brighter(s, t)
    PROVE  /\ s.band \in Int /\ t.band \in Int /\ t.band <= s.band
           /\ s.rsi \in Int /\ t.rsi \in Int /\ t.rsi <= s.rsi
           /\ s.stoch \in Int /\ t.stoch \in Int /\ t.stoch <= s.stoch
           /\ s.mfi \in Int /\ t.mfi \in Int /\ t.mfi <= s.mfi
           /\ s.cci \in Int /\ t.cci \in Int /\ t.cci <= s.cci
  BY DEF Legible, Brighter

LEMMA TrendRises ==
    ASSUME NEW s, NEW t, Legible(s), Legible(t), Brighter(s, t)
    PROVE  /\ C!trendScore(s) \in Int /\ C!trendScore(t) \in Int
           /\ C!trendScore(s) <= C!trendScore(t)
<1>1. PICK a, b \in Int : a = 200 * s.stack /\ b = 200 * t.stack /\ a <= b
  BY DEF Legible, Brighter
<1>2. PICK c, d \in Int : c = 100 * s.ema200 /\ d = 100 * t.ema200 /\ c <= d
  <2>1. s.ema200 \in Int /\ t.ema200 \in Int /\ s.ema200 <= t.ema200
    BY DEF Legible, Brighter
  <2> QED
    BY <2>1
<1>3. PICK e, f \in Int : e = 100 * C!oversold(s.rsi, 40, 60) /\ f = 100 * C!oversold(t.rsi, 40, 60) /\ e <= f
  <2>1. /\ C!oversold(s.rsi, 40, 60) \in -1..1 /\ C!oversold(t.rsi, 40, 60) \in -1..1
        /\ C!oversold(s.rsi, 40, 60) <= C!oversold(t.rsi, 40, 60)
    BY OscillatorsFall, OversoldRises
  <2> QED
    BY <2>1
<1>4. PICK g, h \in Int : g = 150 * C!oversold(s.rsi, 30, 70) /\ h = 150 * C!oversold(t.rsi, 30, 70) /\ g <= h
  <2>1. /\ C!oversold(s.rsi, 30, 70) \in -1..1 /\ C!oversold(t.rsi, 30, 70) \in -1..1
        /\ C!oversold(s.rsi, 30, 70) <= C!oversold(t.rsi, 30, 70)
    BY OscillatorsFall, OversoldRises
  <2> QED
    BY <2>1
<1>5. PICK i, j \in Int : i = 200 * s.macd /\ j = 200 * t.macd /\ i <= j
  BY DEF Legible, Brighter
<1>6. PICK k, l \in Int : /\ k = (IF s.adx > 25 THEN 150 * s.di ELSE 0)
                          /\ l = (IF t.adx > 25 THEN 150 * t.di ELSE 0) /\ k <= l
  BY DEF Legible, Brighter
<1>7. PICK m, n \in Int : m = 150 * C!oversold(s.band, 10, 90) /\ n = 150 * C!oversold(t.band, 10, 90) /\ m <= n
  <2>1. /\ C!oversold(s.band, 10, 90) \in -1..1 /\ C!oversold(t.band, 10, 90) \in -1..1
        /\ C!oversold(s.band, 10, 90) <= C!oversold(t.band, 10, 90)
    BY OscillatorsFall, OversoldRises
  <2> QED
    BY <2>1
<1>8. C!trendScore(s) = a + c + e + g + i + k + m
  BY <1>1, <1>2, <1>3, <1>4, <1>5, <1>6, <1>7 DEF C!trendScore
<1>9. C!trendScore(t) = b + d + f + h + j + l + n
  BY <1>1, <1>2, <1>3, <1>4, <1>5, <1>6, <1>7 DEF C!trendScore
<1>10. a + c + e + g + i + k + m
         <= b + d + f + h + j + l + n
  BY <1>1, <1>2, <1>3, <1>4, <1>5, <1>6, <1>7
<1>11. /\ a + c + e + g + i + k + m \in Int
       /\ b + d + f + h + j + l + n \in Int
  OBVIOUS
<1> QED
  BY <1>8, <1>9, <1>10, <1>11

LEMMA IndicatorsRise ==
    ASSUME NEW s, NEW t, Legible(s), Legible(t), Brighter(s, t)
    PROVE  /\ C!indicatorScore(s) \in Int /\ C!indicatorScore(t) \in Int
           /\ C!indicatorScore(s) <= C!indicatorScore(t)
<1>1. PICK x, y \in Int : x = C!trendScore(s) /\ y = C!trendScore(t) /\ x <= y
  BY TrendRises
<1>2. PICK p \in 0..1 : p = s.spike /\ p = t.spike
  BY DEF Legible, Brighter
<1>3. PICK a, b \in -1..1 : a = C!sign(x) /\ b = C!sign(y) /\ a <= b
  BY <1>1 DEF C!sign
<1>4. PICK c, d \in -1..1 : c = C!oversold(s.stoch, 19, 81) /\ d = C!oversold(t.stoch, 19, 81) /\ c <= d
  BY OscillatorsFall, OversoldRises
<1>5. PICK e, f \in -1..1 : e = C!oversold(s.mfi, 19, 81) /\ f = C!oversold(t.mfi, 19, 81) /\ e <= f
  BY OscillatorsFall, OversoldRises
<1>6. PICK g, h \in -1..1 : g = C!oversold(s.cci, -101, 101) /\ h = C!oversold(t.cci, -101, 101) /\ g <= h
  BY OscillatorsFall, OversoldRises
<1>7. PICK i, j \in -1..1 : i = s.vwap /\ j = t.vwap /\ i <= j
  BY DEF Legible, Brighter
<1>8. PICK k, l \in -1..1 : k = s.obv /\ l = t.obv /\ k <= l
  BY DEF Legible, Brighter
<1>9. PICK m, n \in -1..1 : m = s.williams /\ n = t.williams /\ m <= n
  BY DEF Legible, Brighter
<1>10. PICK u, v \in Int : u = 100 * p * a /\ v = 100 * p * b /\ u <= v
  <2>1. CASE p = 0
    BY <2>1
  <2>2. CASE p = 1
    BY <1>3, <2>2
  <2> QED
    BY <2>1, <2>2
<1>11. PICK o, q \in Int : o = c + e + g + i /\ q = d + f + h + j /\ o <= q
  BY <1>4, <1>5, <1>6, <1>7
<1>12. PICK r, w \in Int : r = k + m /\ w = l + n /\ r <= w
  BY <1>8, <1>9
<1>13. C!indicatorScore(s) = x + u + 100 * o + 50 * r
  BY <1>1, <1>2, <1>3, <1>4, <1>5, <1>6, <1>7, <1>8, <1>9, <1>10, <1>11, <1>12 DEF C!indicatorScore
<1>14. C!indicatorScore(t) = y + v + 100 * q + 50 * w
  BY <1>1, <1>2, <1>3, <1>4, <1>5, <1>6, <1>7, <1>8, <1>9, <1>10, <1>11, <1>12 DEF C!indicatorScore
<1> QED
  BY <1>1, <1>10, <1>11, <1>12, <1>13, <1>14

LEMMA FramedRises ==
    ASSUME NEW s, NEW t, Legible(s), Legible(t), Brighter(s, t)
    PROVE  /\ C!framedScore(s) \in Int /\ C!framedScore(t) \in Int
           /\ C!framedScore(s) <= C!framedScore(t)
<1>1. PICK x, y \in Int : x = C!indicatorScore(s) /\ y = C!indicatorScore(t) /\ x <= y
  BY IndicatorsRise
<1>2. PICK a, b \in -1..2 : a = s.frames /\ b = t.frames /\ (b = a \/ (a \in -1..1 /\ b \in -1..1 /\ a <= b))
  BY DEF Legible, Brighter
<1>3. C!framedScore(s) = x + (IF a = 2 THEN -100 ELSE IF a = C!sign(x) THEN 150 * a ELSE 0)
  BY <1>1, <1>2 DEF C!framedScore
<1>4. C!framedScore(t) = y + (IF b = 2 THEN -100 ELSE IF b = C!sign(y) THEN 150 * b ELSE 0)
  BY <1>1, <1>2 DEF C!framedScore
<1>5. C!sign(x) = (IF x > 0 THEN 1 ELSE IF x < 0 THEN -1 ELSE 0) /\ C!sign(y) = (IF y > 0 THEN 1 ELSE IF y < 0 THEN -1 ELSE 0)
  BY DEF C!sign
<1> QED
  BY <1>1, <1>2, <1>3, <1>4, <1>5

(* Of rising verdicts no fewer are for buying, and no more for selling.    *)
For(n, f, side) == Cardinality({i \in 1..n : f[i] = side})
AllRise(n, f, g) == \A i \in 1..n : f[i] \in -1..1 /\ g[i] \in -1..1 /\ f[i] <= g[i]

LEMMA MoreAgree ==
    ASSUME NEW n \in Nat, NEW f, NEW g, AllRise(n, f, g)
    PROVE  /\ For(n, f, 1) \in Nat /\ For(n, g, 1) \in Nat /\ For(n, f, 1) <= For(n, g, 1)
           /\ For(n, f, -1) \in Nat /\ For(n, g, -1) \in Nat /\ For(n, g, -1) <= For(n, f, -1)
<1> DEFINE a == {i \in 1..n : f[i] = 1}
           b == {i \in 1..n : g[i] = 1}
           c == {i \in 1..n : g[i] = -1}
           d == {i \in 1..n : f[i] = -1}
<1>1. a \subseteq b /\ b \subseteq 1..n /\ c \subseteq d /\ d \subseteq 1..n
  BY DEF AllRise
<1>2. IsFiniteSet(1..n)
  BY FS_Interval
<1> HIDE DEF a, b, c, d
<1>3. IsFiniteSet(b) /\ IsFiniteSet(d)
  BY <1>1, <1>2, FS_Subset
<1>4. /\ IsFiniteSet(a) /\ Cardinality(a) <= Cardinality(b)
      /\ IsFiniteSet(c) /\ Cardinality(c) <= Cardinality(d)
  BY <1>1, <1>3, FS_Subset
<1>5. Cardinality(a) \in Nat /\ Cardinality(b) \in Nat /\ Cardinality(c) \in Nat /\ Cardinality(d) \in Nat
  BY <1>3, <1>4, FS_CardinalityType
<1> QED
  BY <1>4, <1>5 DEF a, b, c, d, For

LEMMA ConsensusRises ==
    ASSUME NEW s, NEW t, Legible(s), Legible(t), Brighter(s, t)
    PROVE  C!consensus(s) \in Int /\ C!consensus(t) \in Int /\ C!consensus(s) <= C!consensus(t)
<1>1. \A i \in 1..5 : /\ C!oscillators(s)[i] \in -1..1 /\ C!oscillators(t)[i] \in -1..1
                      /\ C!oscillators(s)[i] <= C!oscillators(t)[i]
  <2>1. PICK a, b \in -1..1 : a = C!oversold(s.rsi, 30, 70) /\ b = C!oversold(t.rsi, 30, 70) /\ a <= b
    BY OscillatorsFall, OversoldRises
  <2>2. PICK c, d \in -1..1 : c = C!oversold(s.mfi, 19, 81) /\ d = C!oversold(t.mfi, 19, 81) /\ c <= d
    BY OscillatorsFall, OversoldRises
  <2>3. PICK e, f \in -1..1 : e = C!oversold(s.cci, -101, 101) /\ f = C!oversold(t.cci, -101, 101) /\ e <= f
    BY OscillatorsFall, OversoldRises
  <2>4. PICK g, h \in -1..1 : g = C!oversold(s.stoch, 19, 81) /\ h = C!oversold(t.stoch, 19, 81) /\ g <= h
    BY OscillatorsFall, OversoldRises
  <2>5. PICK m, n \in -1..1 : m = s.williams /\ n = t.williams /\ m <= n
    BY DEF Legible, Brighter
  <2>6. C!oscillators(s) = <<a, c, e, g, m>> /\ C!oscillators(t) = <<b, d, f, h, n>>
    BY <2>1, <2>2, <2>3, <2>4, <2>5 DEF C!oscillators
  <2> QED
    BY <2>1, <2>2, <2>3, <2>4, <2>5, <2>6
<1> DEFINE count(x, side) == For(5, C!oscillators(x), side)
<1>2. \A x : C!consensus(x) = (IF count(x, 1) >= 3 THEN 150 ELSE 0) - (IF count(x, -1) >= 3 THEN 150 ELSE 0)
  BY DEF C!consensus, C!Cardinality, Cardinality, For
<1>3. /\ count(s, 1) \in Nat /\ count(t, 1) \in Nat /\ count(s, -1) \in Nat /\ count(t, -1) \in Nat
      /\ count(s, 1) <= count(t, 1) /\ count(t, -1) <= count(s, -1)
  <2>1. AllRise(5, C!oscillators(s), C!oscillators(t)) /\ 5 \in Nat
    BY <1>1 DEF AllRise
  <2> QED
    BY <2>1, MoreAgree, Zenon
<1> HIDE DEF count
<1> QED
  BY <1>2, <1>3

LEMMA VetoedRises ==
    ASSUME NEW s, NEW t, Legible(s), Legible(t), Brighter(s, t)
    PROVE  C!vetoed(s) \in Int /\ C!vetoed(t) \in Int /\ C!vetoed(s) <= C!vetoed(t)
<1> DEFINE high(x) == x.rsi > 85 /\ x.mfi > 85 /\ x.cci > 300 /\ x.stoch > 90
           low(x) == x.rsi < 15 /\ x.mfi < 15 /\ x.cci < -300 /\ x.stoch < 10
<1>1. PICK x, y \in Int : /\ x = C!framedScore(s) + C!consensus(s) /\ y = C!framedScore(t) + C!consensus(t)
                          /\ x <= y
  BY FramedRises, ConsensusRises
<1>2. (high(t) => high(s)) /\ (low(s) => low(t)) /\ ~(high(s) /\ low(s)) /\ ~(high(t) /\ low(t))
  BY DEF Legible, Brighter
<1> HIDE DEF high, low
<1>3. /\ C!vetoed(s) = IF high(s) THEN C!Min({x, 150}) ELSE IF low(s) THEN C!Max({x, -150}) ELSE x
      /\ C!vetoed(t) = IF high(t) THEN C!Min({y, 150}) ELSE IF low(t) THEN C!Max({y, -150}) ELSE y
  BY <1>1 DEF C!vetoed, high, low
<1>4. /\ C!Min({x, 150}) = (IF x <= 150 THEN x ELSE 150) /\ C!Min({y, 150}) = (IF y <= 150 THEN y ELSE 150)
      /\ C!Max({x, -150}) = (IF x >= -150 THEN x ELSE -150) /\ C!Max({y, -150}) = (IF y >= -150 THEN y ELSE -150)
  BY CompositeMin, CompositeMax
<1> QED
  BY <1>1, <1>2, <1>3, <1>4

(* What is counted of the indicators that agree.                           *)
Sides(s) ==
    <<s.stack, s.ema200, C!oversold(s.rsi, 40, 60), s.macd, IF s.adx > 25 THEN s.di ELSE 0,
      C!oversold(s.band, 30, 70), C!oversold(s.stoch, 29, 71), C!oversold(s.mfi, 29, 71),
      C!oversold(s.cci, -51, 51), s.vwap>>

LEMMA AgreeingRises ==
    ASSUME NEW s, NEW t, Legible(s), Legible(t), Brighter(s, t)
    PROVE  /\ C!agreeing(s, 1) \in Nat /\ C!agreeing(t, 1) \in Nat /\ C!agreeing(s, 1) <= C!agreeing(t, 1)
           /\ C!agreeing(s, -1) \in Nat /\ C!agreeing(t, -1) \in Nat /\ C!agreeing(t, -1) <= C!agreeing(s, -1)
<1>1. \A i \in 1..10 : Sides(s)[i] \in -1..1 /\ Sides(t)[i] \in -1..1 /\ Sides(s)[i] <= Sides(t)[i]
  <2>1. PICK a1, b1 \in -1..1 : a1 = s.stack /\ b1 = t.stack /\ a1 <= b1
    BY DEF Legible, Brighter
  <2>2. PICK a2, b2 \in -1..1 : a2 = s.ema200 /\ b2 = t.ema200 /\ a2 <= b2
    BY DEF Legible, Brighter
  <2>3. PICK a3, b3 \in -1..1 : a3 = C!oversold(s.rsi, 40, 60) /\ b3 = C!oversold(t.rsi, 40, 60) /\ a3 <= b3
    BY OscillatorsFall, OversoldRises
  <2>4. PICK a4, b4 \in -1..1 : a4 = s.macd /\ b4 = t.macd /\ a4 <= b4
    BY DEF Legible, Brighter
  <2>5. PICK a5, b5 \in -1..1 : /\ a5 = (IF s.adx > 25 THEN s.di ELSE 0)
                                /\ b5 = (IF t.adx > 25 THEN t.di ELSE 0) /\ a5 <= b5
    BY DEF Legible, Brighter
  <2>6. PICK a6, b6 \in -1..1 : a6 = C!oversold(s.band, 30, 70) /\ b6 = C!oversold(t.band, 30, 70) /\ a6 <= b6
    BY OscillatorsFall, OversoldRises
  <2>7. PICK a7, b7 \in -1..1 : a7 = C!oversold(s.stoch, 29, 71) /\ b7 = C!oversold(t.stoch, 29, 71) /\ a7 <= b7
    BY OscillatorsFall, OversoldRises
  <2>8. PICK a8, b8 \in -1..1 : a8 = C!oversold(s.mfi, 29, 71) /\ b8 = C!oversold(t.mfi, 29, 71) /\ a8 <= b8
    BY OscillatorsFall, OversoldRises
  <2>9. PICK a9, b9 \in -1..1 : a9 = C!oversold(s.cci, -51, 51) /\ b9 = C!oversold(t.cci, -51, 51) /\ a9 <= b9
    BY OscillatorsFall, OversoldRises
  <2>10. PICK a10, b10 \in -1..1 : a10 = s.vwap /\ b10 = t.vwap /\ a10 <= b10
    BY DEF Legible, Brighter
  <2>11. /\ Sides(s) = <<a1, a2, a3, a4, a5, a6, a7, a8, a9, a10>>
         /\ Sides(t) = <<b1, b2, b3, b4, b5, b6, b7, b8, b9, b10>>
    BY <2>1, <2>2, <2>3, <2>4, <2>5, <2>6, <2>7, <2>8, <2>9, <2>10 DEF Sides
  <2> QED
    BY <2>1, <2>2, <2>3, <2>4, <2>5, <2>6, <2>7, <2>8, <2>9, <2>10, <2>11
<1>2. \A x, side : C!agreeing(x, side) = For(10, Sides(x), side)
  <2>1. \A x, side : {i \in 1..10 : side = Sides(x)[i]} = {i \in 1..10 : Sides(x)[i] = side}
    OBVIOUS
  <2>2. \A x, side : C!agreeing(x, side) = Cardinality({i \in 1..10 : side = Sides(x)[i]})
    BY DEF C!agreeing, Sides, C!Cardinality, Cardinality
  <2> QED
    BY <2>1, <2>2 DEF For
<1>3. /\ For(10, Sides(s), 1) \in Nat /\ For(10, Sides(t), 1) \in Nat /\ For(10, Sides(s), 1) <= For(10, Sides(t), 1)
      /\ For(10, Sides(s), -1) \in Nat /\ For(10, Sides(t), -1) \in Nat /\ For(10, Sides(t), -1) <= For(10, Sides(s), -1)
  <2>1. AllRise(10, Sides(s), Sides(t)) /\ 10 \in Nat
    BY <1>1 DEF AllRise
  <2> QED
    BY <2>1, MoreAgree, Zenon
<1> QED
  BY <1>2, <1>3

LEMMA ScoreRises ==
    ASSUME NEW s, NEW t, Legible(s), Legible(t), Brighter(s, t)
    PROVE  C!score(s) \in Int /\ C!score(t) \in Int /\ C!score(s) <= C!score(t)
<1>1. PICK x, y \in Int : x = C!vetoed(s) /\ y = C!vetoed(t) /\ x <= y
  BY VetoedRises
<1> DEFINE capped(n) == IF n > 150 THEN 150 ELSE IF n < -150 THEN -150 ELSE n
<1>2. \A n \in Int : C!Max({-150, C!Min({150, n})}) = capped(n)
  <2> SUFFICES ASSUME NEW n \in Int PROVE C!Max({-150, C!Min({150, n})}) = capped(n)
    OBVIOUS
  <2>1. C!Min({150, n}) = (IF 150 <= n THEN 150 ELSE n)
    BY CompositeMin
  <2>2. PICK m \in Int : m = C!Min({150, n})
    BY <2>1
  <2>3. C!Max({-150, m}) = IF -150 >= m THEN -150 ELSE m
    BY CompositeMax
  <2> QED
    BY <2>1, <2>2, <2>3
<1>3. /\ C!score(s) = IF x # 0 /\ C!agreeing(s, C!sign(x)) < 4 THEN capped(x) ELSE x
      /\ C!score(t) = IF y # 0 /\ C!agreeing(t, C!sign(y)) < 4 THEN capped(y) ELSE y
  BY <1>1, <1>2 DEF C!score
<1>4. PICK a, b, c, d \in Nat : /\ a = C!agreeing(s, 1) /\ b = C!agreeing(t, 1) /\ a <= b
                                /\ c = C!agreeing(s, -1) /\ d = C!agreeing(t, -1) /\ d <= c
  BY AgreeingRises
<1>5. /\ x > 0 => C!sign(x) = 1
      /\ x < 0 => C!sign(x) = -1
      /\ y > 0 => C!sign(y) = 1
      /\ y < 0 => C!sign(y) = -1
  BY DEF C!sign
<1>6. /\ C!score(s) = IF (x > 0 /\ a < 4) \/ (x < 0 /\ c < 4) THEN capped(x) ELSE x
      /\ C!score(t) = IF (y > 0 /\ b < 4) \/ (y < 0 /\ d < 4) THEN capped(y) ELSE y
  <2>1. CASE x > 0
    <3>1. C!score(s) = IF a < 4 THEN capped(x) ELSE x
      BY <1>3, <1>4, <1>5, <2>1
    <3>2. C!score(t) = IF b < 4 THEN capped(y) ELSE y
      BY <1>1, <1>3, <1>4, <1>5, <2>1
    <3> QED
      BY <1>1, <2>1, <3>1, <3>2
  <2>2. CASE ~(x > 0)
    <3>1. C!score(s) = IF x < 0 /\ c < 4 THEN capped(x) ELSE x
      BY <1>3, <1>4, <1>5, <2>2
    <3>2. C!score(t) = IF (y > 0 /\ b < 4) \/ (y < 0 /\ d < 4) THEN capped(y) ELSE y
      <4>1. CASE y > 0
        BY <1>3, <1>4, <1>5, <4>1
      <4>2. CASE y < 0
        BY <1>3, <1>4, <1>5, <4>2
      <4>3. CASE y = 0
        BY <1>3, <4>3
      <4> QED
        BY <4>1, <4>2, <4>3
    <3> QED
      BY <2>2, <3>1, <3>2
  <2> QED
    BY <2>1, <2>2
<1> QED
  BY <1>1, <1>4, <1>6

(* What the mood makes of a score.                                         *)
Moved(g, n) ==
    CASE g = -1 -> n
      [] g > 80 /\ n > 0 -> C!Max({0, n - ((g - 80) * 15) \div 2})
      [] g \in 0..19 /\ n < 0 -> C!Min({0, n + ((20 - g) * 15) \div 2})
      [] g \in 0..25 /\ ~(g < 20 /\ n < 0) -> n + 50
      [] g >= 75 /\ ~(g > 80 /\ n > 0) -> n - 50
      [] OTHER -> n

LEMMA MovedRises ==
    ASSUME NEW mood \in Int, NEW x \in Int, NEW y \in Int, x <= y
    PROVE  Moved(mood, x) \in Int /\ Moved(mood, y) \in Int /\ Moved(mood, x) <= Moved(mood, y)
<1>1. PICK a \in Int : a = ((mood - 80) * 15) \div 2
  OBVIOUS
<1>2. PICK b \in Int : b = ((20 - mood) * 15) \div 2
  OBVIOUS
<1>3. /\ C!Max({0, x - a}) = (IF 0 >= x - a THEN 0 ELSE x - a) /\ C!Max({0, y - a}) = (IF 0 >= y - a THEN 0 ELSE y - a)
      /\ C!Min({0, x + b}) = (IF 0 <= x + b THEN 0 ELSE x + b) /\ C!Min({0, y + b}) = (IF 0 <= y + b THEN 0 ELSE y + b)
  BY CompositeMin, CompositeMax
<1> DEFINE up(n) == C!Max({0, n - a})
           down(n) == C!Min({0, n + b})
<1>4. \A n \in Int : Moved(mood, n) =
          IF mood > 80 /\ n > 0 THEN up(n) ELSE IF mood \in 0..19 /\ n < 0 THEN down(n)
          ELSE IF mood \in 0..25 THEN n + 50 ELSE IF mood >= 75 THEN n - 50 ELSE n
  <2> SUFFICES ASSUME NEW n \in Int
               PROVE  Moved(mood, n) =
                        IF mood > 80 /\ n > 0 THEN up(n) ELSE IF mood \in 0..19 /\ n < 0 THEN down(n)
                        ELSE IF mood \in 0..25 THEN n + 50 ELSE IF mood >= 75 THEN n - 50 ELSE n
    OBVIOUS
  <2>1. CASE mood = -1
    BY <2>1 DEF Moved
  <2>2. CASE mood > 80 /\ n > 0
    BY <1>1, <2>2 DEF Moved
  <2>3. CASE mood \in 0..19 /\ n < 0
    BY <1>2, <2>3 DEF Moved
  <2>4. CASE mood \in 0..25 /\ ~(mood < 20 /\ n < 0)
    BY <2>4 DEF Moved
  <2>5. CASE mood >= 75 /\ ~(mood > 80 /\ n > 0)
    BY <2>5 DEF Moved
  <2>6. CASE /\ mood # -1 /\ ~(mood > 80 /\ n > 0) /\ ~(mood \in 0..19 /\ n < 0)
             /\ ~(mood \in 0..25 /\ ~(mood < 20 /\ n < 0)) /\ ~(mood >= 75 /\ ~(mood > 80 /\ n > 0))
    BY <2>6 DEF Moved
  <2> QED
    BY <2>1, <2>2, <2>3, <2>4, <2>5, <2>6
<1> QED
  BY <1>3, <1>4

LEMMA MoodRises ==
    ASSUME NEW s, NEW t, Legible(s), Legible(t), Brighter(s, t)
    PROVE  C!moodScore(s) \in Int /\ C!moodScore(t) \in Int /\ C!moodScore(s) <= C!moodScore(t)
<1>1. PICK x, y \in Int : x = C!score(s) /\ y = C!score(t) /\ x <= y
  BY ScoreRises
<1>2. PICK g \in Int : g = s.greed /\ g = t.greed
  BY DEF Legible, Brighter
<1>3. C!moodScore(s) = 10 * ((Moved(g, x) + 5) \div 10) /\ C!moodScore(t) = 10 * ((Moved(g, y) + 5) \div 10)
  BY <1>1, <1>2 DEF C!moodScore, Moved, C!Absent
<1>4. PICK a, b \in Int : a = Moved(g, x) /\ b = Moved(g, y) /\ a <= b
  BY <1>1, MovedRises
<1>5. PICK c, d \in Int : c = (a + 5) \div 10 /\ d = (b + 5) \div 10 /\ c <= d
  BY <1>4
<1> QED
  BY <1>3, <1>4, <1>5

(* A strategy that asks for a score answers no less, and, whatever the     *)
(* scores that are asked for, never the opposite.                          *)
LEMMA AdvancedRises ==
    ASSUME NEW s, NEW t, Legible(s), Legible(t), Brighter(s, t), NEW k \in Nat \ {0}, NEW l \in Nat \ {0}
    PROVE  /\ C!advanced(s, k) \in -1..1 /\ C!advanced(t, l) \in -1..1
           /\ k = l => C!advanced(s, k) <= C!advanced(t, l)
           /\ C!advanced(s, k) - 1 <= C!advanced(t, l)
<1>1. PICK x, y \in Int : x = C!moodScore(s) /\ y = C!moodScore(t) /\ x <= y
  BY MoodRises
<1>2. PICK n \in Int : n = s.candles /\ n = t.candles
  BY DEF Legible, Brighter
<1>3. C!Max({x, -x}) = (IF x >= -x THEN x ELSE -x) /\ C!Max({y, -y}) = (IF y >= -y THEN y ELSE -y)
  BY CompositeMax
<1>4. /\ C!advanced(s, k) = IF n < 210 \/ C!Max({x, -x}) < k THEN 0 ELSE C!sign(x)
      /\ C!advanced(t, l) = IF n < 210 \/ C!Max({y, -y}) < l THEN 0 ELSE C!sign(y)
  BY <1>1, <1>2 DEF C!advanced
<1>5. /\ C!sign(x) = (IF x > 0 THEN 1 ELSE IF x < 0 THEN -1 ELSE 0)
      /\ C!sign(y) = (IF y > 0 THEN 1 ELSE IF y < 0 THEN -1 ELSE 0)
  BY DEF C!sign
<1> QED
  BY <1>1, <1>3, <1>4, <1>5

(* What the regime-aware strategy asks for, 0 standing for no answer.      *)
Asked(s) ==
    IF s.candles < 100 \/ C!detect(s) = "high_volatility" THEN 0
    ELSE IF C!detect(s) = "breakout" THEN 150
    ELSE IF C!detect(s) = "ranging" THEN 80
    ELSE IF s.adx > 28 THEN 100 ELSE 80

LEMMA RegimeAwareIs ==
    ASSUME NEW s, Legible(s)
    PROVE  /\ Asked(s) \in Nat
           /\ C!regimeAware(s) = IF Asked(s) = 0 THEN 0 ELSE C!advanced(s, Asked(s))
<1>1. s.candles < 100 <=> ~(s.candles >= 100)
  BY DEF Legible
<1>2. CASE s.candles < 100 \/ C!detect(s) = "high_volatility"
  <2>1. C!regimeAware(s) = 0
    BY <1>1, <1>2 DEF C!regimeAware
  <2> QED
    BY <1>2, <2>1 DEF Asked
<1>3. CASE s.candles >= 100 /\ C!detect(s) = "breakout"
  <2>1. C!regimeAware(s) = C!advanced(s, 150)
    BY <1>1, <1>3 DEF C!regimeAware
  <2>2. Asked(s) = 150
    BY <1>1, <1>3 DEF Asked
  <2> QED
    BY <2>1, <2>2
<1>4. CASE s.candles >= 100 /\ C!detect(s) = "ranging"
  <2>1. C!regimeAware(s) = C!advanced(s, 80)
    BY <1>1, <1>4 DEF C!regimeAware
  <2>2. Asked(s) = 80
    BY <1>1, <1>4 DEF Asked
  <2> QED
    BY <2>1, <2>2
<1>5. CASE s.candles >= 100 /\ C!detect(s) \notin {"high_volatility", "breakout", "ranging"}
  <2>1. C!regimeAware(s) = C!advanced(s, IF s.adx > 28 THEN 100 ELSE 80)
    BY <1>1, <1>5 DEF C!regimeAware
  <2>2. Asked(s) = IF s.adx > 28 THEN 100 ELSE 80
    BY <1>1, <1>5 DEF Asked
  <2> QED
    BY <2>1, <2>2
<1> QED
  BY <1>1, <1>2, <1>3, <1>4, <1>5

LEMMA RegimeAwareRises ==
    ASSUME NEW s, NEW t, Legible(s), Legible(t), Brighter(s, t)
    PROVE  /\ C!detect(s) = C!detect(t) => C!regimeAware(s) <= C!regimeAware(t)
           /\ C!regimeAware(s) - 1 <= C!regimeAware(t)
<1>1. PICK k, l \in Nat : k = Asked(s) /\ l = Asked(t)
  BY RegimeAwareIs
<1>2. C!detect(s) = C!detect(t) => k = l
  BY <1>1 DEF Asked, Brighter
<1>3. /\ C!regimeAware(s) = IF k = 0 THEN 0 ELSE C!advanced(s, k)
      /\ C!regimeAware(t) = IF l = 0 THEN 0 ELSE C!advanced(t, l)
  BY <1>1, RegimeAwareIs
<1>4. CASE k # 0 /\ l # 0
  <2>1. k \in Nat \ {0} /\ l \in Nat \ {0}
    BY <1>4
  <2>2. PICK a, b \in -1..1 : /\ a = C!advanced(s, k) /\ b = C!advanced(t, l)
                              /\ (k = l => a <= b) /\ a - 1 <= b
    BY <2>1, AdvancedRises
  <2> QED
    BY <1>2, <1>3, <1>4, <2>2
<1>5. CASE k = 0 /\ l # 0
  <2>1. 1 \in Nat \ {0} /\ l \in Nat \ {0}
    BY <1>5
  <2>2. C!advanced(t, l) \in -1..1
    BY <2>1, AdvancedRises
  <2> QED
    BY <1>2, <1>3, <1>5, <2>2
<1>6. CASE k # 0 /\ l = 0
  <2>1. 1 \in Nat \ {0} /\ k \in Nat \ {0}
    BY <1>6
  <2>2. C!advanced(s, k) \in -1..1
    BY <2>1, AdvancedRises
  <2> QED
    BY <1>2, <1>3, <1>6, <2>2
<1>7. CASE k = 0 /\ l = 0
  BY <1>3, <1>7
<1> QED
  BY <1>4, <1>5, <1>6, <1>7

LEMMA StrategiesRise ==
    ASSUME NEW s, NEW t, Legible(s), Legible(t), Brighter(s, t), NEW name \in C!LegacyStrategies
    PROVE  \/ C!createStrategy(name, t) >= C!createStrategy(name, s)
           \/ /\ name = "regime_aware" /\ C!detect(t) # C!detect(s)
              /\ C!createStrategy(name, t) >= C!createStrategy(name, s) - 1
<1>1. PICK a, b \in -1..1 : a = C!rsiMeanReversion(s) /\ b = C!rsiMeanReversion(t) /\ a <= b
  BY OscillatorsFall, OversoldRises DEF C!rsiMeanReversion
<1>2. PICK c, d \in -1..1 : c = C!emaCrossover(s) /\ d = C!emaCrossover(t) /\ c <= d
  BY DEF Legible, Brighter, C!emaCrossover
<1>3. CASE name = "rsi_mean_reversion"
  BY <1>1, <1>3 DEF C!createStrategy
<1>4. CASE name = "ema_crossover"
  BY <1>2, <1>4 DEF C!createStrategy
<1>5. CASE name = "composite"
  <2>1. C!createStrategy(name, s) = (IF c = a THEN c ELSE 0) /\ C!createStrategy(name, t) = (IF d = b THEN d ELSE 0)
    BY <1>1, <1>2, <1>5 DEF C!createStrategy, C!compositeExample
  <2> QED
    BY <1>1, <1>2, <2>1
<1>6. CASE name = "advanced_composite"
  <2>1. C!createStrategy(name, s) = C!advanced(s, 200) /\ C!createStrategy(name, t) = C!advanced(t, 200)
    BY <1>6 DEF C!createStrategy
  <2>2. PICK x, y \in -1..1 : x = C!advanced(s, 200) /\ y = C!advanced(t, 200) /\ x <= y
    BY AdvancedRises
  <2> QED
    BY <2>1, <2>2
<1>7. CASE name = "regime_aware"
  <2>1. C!createStrategy(name, s) = C!regimeAware(s) /\ C!createStrategy(name, t) = C!regimeAware(t)
    BY <1>7 DEF C!createStrategy
  <2>2. C!regimeAware(s) \in Int /\ C!regimeAware(t) \in Int
    <3>1. \A k, l \in Nat \ {0} : C!advanced(s, k) \in Int /\ C!advanced(t, l) \in Int
      BY AdvancedRises
    <3> QED
      BY <3>1, RegimeAwareIs
  <2>3. /\ C!detect(s) = C!detect(t) => C!regimeAware(s) <= C!regimeAware(t)
        /\ C!regimeAware(s) - 1 <= C!regimeAware(t)
    BY RegimeAwareRises
  <2> QED
    BY <1>7, <2>1, <2>2, <2>3
<1> QED
  BY <1>3, <1>4, <1>5, <1>6, <1>7 DEF C!LegacyStrategies

CompositeInv ==
    /\ setup = [f \in DOMAIN C!Readings |-> setup[f]]
    /\ \A f \in DOMAIN C!Readings : setup[f] \in C!Readings[f]

LEMMA ReadingsAre ==
    DOMAIN C!Readings = {"candles", "stack", "ema200", "cross", "slope", "macd", "adx", "di", "band", "spike",
        "rsi", "stoch", "mfi", "cci", "vwap", "obv", "williams", "frames", "greed", "atrSpike", "squeeze"}
  BY DEF C!Readings

LEMMA ReadingsAreLegible ==
    ASSUME NEW s, \A f \in DOMAIN C!Readings : s[f] \in C!Readings[f] PROVE Legible(s)
<1>1. /\ s.stack \in C!Readings.stack /\ s.cross \in C!Readings.cross /\ s.macd \in C!Readings.macd
      /\ s.vwap \in C!Readings.vwap /\ s.obv \in C!Readings.obv /\ s.williams \in C!Readings.williams
      /\ s.ema200 \in C!Readings.ema200 /\ s.di \in C!Readings.di /\ s.spike \in C!Readings.spike
      /\ s.frames \in C!Readings.frames /\ s.candles \in C!Readings.candles /\ s.adx \in C!Readings.adx
      /\ s.band \in C!Readings.band /\ s.rsi \in C!Readings.rsi /\ s.stoch \in C!Readings.stoch
      /\ s.mfi \in C!Readings.mfi /\ s.cci \in C!Readings.cci /\ s.greed \in C!Readings.greed
  BY ReadingsAre
<1>2. /\ C!Readings.stack = -1..1 /\ C!Readings.cross = -1..1 /\ C!Readings.macd = -1..1
      /\ C!Readings.vwap = -1..1 /\ C!Readings.obv = -1..1 /\ C!Readings.williams = -1..1
      /\ C!Readings.ema200 = {-1, 1} /\ C!Readings.di = {-1, 1} /\ C!Readings.spike = 0..1
      /\ C!Readings.frames = -1..2
  BY DEF C!Readings
<1>3. /\ C!Readings.candles \subseteq Int /\ C!Readings.adx \subseteq Int /\ C!Readings.band \subseteq Int
      /\ C!Readings.rsi \subseteq Int /\ C!Readings.stoch \subseteq Int /\ C!Readings.mfi \subseteq Int
      /\ C!Readings.cci \subseteq Int /\ C!Readings.greed \subseteq Int
  BY DEF C!Readings, C!Absent
<1> QED
  BY <1>1, <1>2, <1>3 DEF Legible

LEMMA FramesAreRead ==
    ASSUME NEW day \in C!Trends, NEW shorter
    PROVE  C!analyze(day, shorter) \in C!Readings.frames
<1>1. C!Trends \subseteq -1..1
  BY DEF C!Trends, C!analyzeTrend
<1>2. C!Readings.frames = -1..2
  BY DEF C!Readings
<1> QED
  BY <1>1, <1>2 DEF C!analyze

LEMMA ReadBrightens ==
    ASSUME CompositeInv, NEW f \in DOMAIN C!Readings, NEW v \in C!Readings[f], C!Read(f, v)
    PROVE  CompositeInv' /\ C!NoBuyDropped
<1>1. setup' = [setup EXCEPT ![f] = v]
  BY DEF C!Read
<1>2. \A h \in DOMAIN C!Readings : setup'[h] = IF h = f THEN v ELSE setup[h]
  BY <1>1 DEF CompositeInv
<1>3. CompositeInv'
  <2>1. setup' = [h \in DOMAIN C!Readings |-> setup'[h]]
    BY <1>1 DEF CompositeInv
  <2>2. \A h \in DOMAIN C!Readings : setup'[h] \in C!Readings[h]
    BY <1>2 DEF CompositeInv
  <2> QED
    BY <2>1, <2>2 DEF CompositeInv, C!Readings
<1>4. ASSUME NEW r \in C!Rising \union C!Falling \union {"frames"}, C!moreBullish(r, setup, setup'),
             NEW name \in C!LegacyStrategies
      PROVE  \/ C!createStrategy(name, setup') >= C!createStrategy(name, setup)
             \/ /\ name = "regime_aware" /\ C!detect(setup') # C!detect(setup)
                /\ C!createStrategy(name, setup') >= C!createStrategy(name, setup) - 1
  <2>1. PICK s, t : s = setup /\ t = setup'
    OBVIOUS
  <2>2. Legible(s) /\ Legible(t)
    <3>1. \A h \in DOMAIN C!Readings : s[h] \in C!Readings[h]
      BY <2>1 DEF CompositeInv
    <3>2. \A h \in DOMAIN C!Readings : t[h] \in C!Readings[h]
      BY <1>2, <2>1, <3>1
    <3> QED
      BY <3>1, <3>2, ReadingsAreLegible
  <2>3. C!moreBullish(r, s, t)
    BY <1>4, <2>1
  <2>4. r \in DOMAIN C!Readings
    BY ReadingsAre DEF C!Rising, C!Falling
  <2>5. s[r] \in Int /\ t[r] \in Int /\ s[r] # t[r]
    <3>1. CASE r \in C!Rising \union C!Falling
      <4>1. s[r] \in Int /\ t[r] \in Int
        BY <2>2, <3>1 DEF Legible, C!Rising, C!Falling
      <4>2. t[r] > s[r] \/ t[r] < s[r]
        BY <2>3, <3>1 DEF C!moreBullish, C!Rising, C!Falling
      <4> QED
        BY <4>1, <4>2
    <3>2. CASE r = "frames"
      <4>1. s.frames \in Int /\ t.frames \in Int
        BY <2>2 DEF Legible
      <4>2. t.frames > s.frames
        BY <2>3, <3>2 DEF C!moreBullish, C!Rising, C!Falling
      <4> QED
        BY <3>2, <4>1, <4>2
    <3> QED
      BY <3>1, <3>2
  <2>6. \A h \in DOMAIN C!Readings : h # r => t[h] = s[h]
    BY <1>2, <2>1, <2>4, <2>5
  <2>7. \A h \in C!Rising : s[h] \in Int /\ t[h] \in Int /\ s[h] <= t[h]
    <3>1. \A h \in C!Rising : s[h] \in Int /\ t[h] \in Int
      BY <2>2 DEF Legible, C!Rising
    <3>2. \A h \in C!Rising : h # r => t[h] = s[h]
      BY <2>6, ReadingsAre DEF C!Rising
    <3>3. r \in C!Rising => t[r] > s[r]
      BY <2>3 DEF C!moreBullish, C!Rising, C!Falling
    <3> QED
      BY <3>1, <3>2, <3>3
  <2>8. \A h \in C!Falling : s[h] \in Int /\ t[h] \in Int /\ t[h] <= s[h]
    <3>1. \A h \in C!Falling : s[h] \in Int /\ t[h] \in Int
      BY <2>2 DEF Legible, C!Falling
    <3>2. \A h \in C!Falling : h # r => t[h] = s[h]
      BY <2>6, ReadingsAre DEF C!Falling
    <3>3. r \in C!Falling => t[r] < s[r]
      BY <2>3 DEF C!moreBullish, C!Rising, C!Falling
    <3> QED
      BY <3>1, <3>2, <3>3
  <2>9. t.frames = s.frames \/ (s.frames \in -1..1 /\ t.frames \in -1..1 /\ s.frames <= t.frames)
    <3>1. CASE r = "frames"
      BY <2>3, <3>1 DEF C!moreBullish, C!Rising, C!Falling
    <3>2. CASE r # "frames"
      BY <2>6, <3>2, ReadingsAre
    <3> QED
      BY <3>1, <3>2
  <2>10. t.candles = s.candles /\ t.adx = s.adx /\ t.spike = s.spike /\ t.greed = s.greed
    BY <2>6, ReadingsAre DEF C!Rising, C!Falling
  <2>11. Brighter(s, t)
    BY <2>7, <2>8, <2>9, <2>10 DEF Brighter, C!Rising, C!Falling
  <2> QED
    BY <2>1, <2>2, <2>11, StrategiesRise
<1> QED
  BY <1>3, <1>4 DEF C!NoBuyDropped

LEMMA CompositeStep ==
    ASSUME CompositeInv, [C!Next]_compositeVars
    PROVE  CompositeInv' /\ (setup' # setup => C!NoBuyDropped)
<1>1. CASE UNCHANGED compositeVars
  <2>1. setup' = setup
    BY <1>1 DEF compositeVars
  <2> QED
    BY <2>1 DEF CompositeInv, C!Readings
<1>2. ASSUME NEW f \in DOMAIN C!Readings \ {"frames"}, NEW v \in C!Readings[f], C!Read(f, v)
      PROVE  CompositeInv' /\ C!NoBuyDropped
  BY <1>2, ReadBrightens
<1>3. ASSUME NEW day \in C!Trends, NEW shorter \in SUBSET C!Trends, C!TurnFrames(day, shorter)
      PROVE  CompositeInv' /\ C!NoBuyDropped
  <2>1. "frames" \in DOMAIN C!Readings /\ C!analyze(day, shorter) \in C!Readings["frames"]
    BY FramesAreRead, ReadingsAre
  <2>2. C!Read("frames", C!analyze(day, shorter))
    BY <1>3 DEF C!TurnFrames
  <2> QED
    BY <2>1, <2>2, ReadBrightens
<1> QED
  BY <1>1, <1>2, <1>3 DEF C!Next

LEMMA CompositeHold == Spec => [](part = "composite" => CompositeInv)
<1>1. Init => (part = "composite" => CompositeInv)
  BY CompositeAssumption DEF Init, C!Init, CompositeInv
<1>2. (part = "composite" => CompositeInv) /\ [Next]_vars => (part = "composite" => CompositeInv)'
  BY CompositeMoves, CompositeStep
<1> QED
  BY <1>1, <1>2, PTL DEF Spec

(* Of the strategies that judge by indicators, none drops a buy or begins  *)
(* to sell when one of its readings turns in favour of buying, save where  *)
(* an RSI changes the regime, and then none turns round: whatever the      *)
(* other twenty readings say, and however they came about.                 *)
THEOREM BullishNeverHurts == Spec => BullishNeverTurnsAway
<1>1. (part = "composite" => CompositeInv) /\ [Next]_vars => [part = "composite" => C!NoBuyDropped]_vars
  <2> SUFFICES ASSUME part = "composite", CompositeInv, Next, setup' = setup
               PROVE  C!NoBuyDropped
    BY CompositeMoves, CompositeStep
  <2>1. Legible(setup)
    BY ReadingsAreLegible DEF CompositeInv
  <2>2. \A f \in C!Rising \union C!Falling \union {"frames"} : setup[f] \in Int
    BY <2>1 DEF Legible, C!Rising, C!Falling
  <2>3. \A f \in C!Rising \union C!Falling \union {"frames"} : ~(setup[f] > setup[f]) /\ ~(setup[f] < setup[f])
    BY <2>2
  <2>4. \A f \in C!Rising \union C!Falling \union {"frames"} : ~C!moreBullish(f, setup, setup)
    BY <2>3 DEF C!moreBullish
  <2> QED
    BY <2>4 DEF C!NoBuyDropped
<1> QED
  BY <1>1, CompositeHold, PTL DEF Spec, BullishNeverTurnsAway

-----------------------------------------------------------------------------
(* AlphaEnsemble, for any markets and any number of models that speak.     *)

(* A behaviour of the ensemble is one of AlphaEnsemble.                    *)
LEMMA AlphaMoves ==
    [Next]_vars => part' = part /\ (part = "alpha" => [A!Next]_alphaVars)
  BY DEF Next, vars

LEMMA AlphaMin ==
    ASSUME NEW a \in Int, NEW b \in Int PROVE A!Min({a, b}) = IF a <= b THEN a ELSE b
<1>1. \A x \in {a, b} : (\A y \in {a, b} : x <= y) <=> x = IF a <= b THEN a ELSE b
  OBVIOUS
<1> QED
  BY <1>1 DEF A!Min

LEMMA BeyondMirrors ==
    ASSUME NEW x \in Int, NEW limit \in Nat
    PROVE  A!beyond(-x, limit) = -A!beyond(x, limit) /\ A!beyond(x, limit) \in -1..1
  BY DEF A!beyond

LEMMA SignMirrors == ASSUME NEW x \in Int PROVE A!sign(-x) = -A!sign(x) /\ A!sign(x) \in -1..1
  BY DEF A!sign

(* What a ballot weighs: a whole number, and no little one where a model   *)
(* votes for a side in a regime of its own.                                *)
Firm == 225000
Mild == 300000
Ballots == [direction : -1..1, confidence : Nat, weight : Nat]
Ballot(m, b) ==
    /\ b \in Ballots
    /\ A!effective(b) \in Nat
    /\ A!supported(m) /\ b.direction # 0 /\ m # "sentiment_tilt" => A!effective(b) >= Firm
    /\ m = "sentiment_tilt" => A!effective(b) <= Mild

Size(x) == IF x >= 0 THEN x ELSE -x
AtMostFull(n) == IF n <= 12000 THEN n ELSE 12000

Weighs(b, side, weight, heard) ==
    /\ b \in Ballots /\ b.direction = side
    /\ A!effective(b) \in Nat
    /\ side = 0 => A!effective(b) = 0
    /\ side # 0 => A!effective(b) = weight * AtMostFull(heard)

LEMMA CastWeighs ==
    ASSUME NEW m, NEW x \in Int, NEW limit \in Nat, NEW scale \in Nat, NEW full \in Nat, NEW low \in Nat
    PROVE  Weighs(A!cast(m, x, limit, scale, full, low), A!beyond(x, limit),
                  IF A!supported(m) THEN full ELSE low, scale * Size(x))
<1> DEFINE b == A!cast(m, x, limit, scale, full, low)
           size == Size(x)
           weight == IF A!supported(m) THEN full ELSE low
<1>1. A!beyond(x, limit) \in -1..1
  BY BeyondMirrors
<1>2. A!beyond(x, limit) = 0 => scale * x * A!beyond(x, limit) = 0
  OBVIOUS
<1>3. A!beyond(x, limit) # 0 => scale * x * A!beyond(x, limit) = scale * size
  <2>1. A!beyond(x, limit) = 1 => x >= 0 /\ scale * x * 1 = scale * x /\ size = x
    BY DEF A!beyond, Size
  <2>2. A!beyond(x, limit) = -1 => ~(x >= 0) /\ scale * x * (-1) = scale * (-x) /\ size = -x
    BY DEF A!beyond, Size
  <2> QED
    BY <1>1, <2>1, <2>2
<1>4. scale * size \in Nat
  BY DEF Size
<1>5. b.direction = A!beyond(x, limit) /\ b.weight = weight
      /\ b.confidence = A!Min({12000, scale * x * A!beyond(x, limit)})
  BY DEF A!cast
<1>6. weight \in Nat /\ b = [direction |-> b.direction, confidence |-> b.confidence, weight |-> b.weight]
  BY DEF A!cast
<1>7. CASE A!beyond(x, limit) = 0
  <2>1. A!Min({12000, 0}) = 0
    BY AlphaMin
  <2>2. b.confidence = 0
    BY <1>2, <1>5, <1>7, <2>1
  <2>3. A!effective(b) = 0
    BY <1>5, <1>6, <2>2 DEF A!effective
  <2> QED
    BY <1>1, <1>5, <1>6, <1>7, <2>2, <2>3 DEF Weighs, Ballots
<1>8. CASE A!beyond(x, limit) # 0
  <2>1. PICK n \in Nat : n = scale * size
    BY <1>4
  <2>2. b.confidence = AtMostFull(n)
    <3>1. A!Min({12000, n}) = IF 12000 <= n THEN 12000 ELSE n
      BY AlphaMin
    <3> QED
      BY <1>3, <1>5, <1>8, <2>1, <3>1 DEF AtMostFull
  <2>3. A!effective(b) = weight * AtMostFull(n)
    BY <1>5, <2>2 DEF A!effective
  <2>4. A!effective(b) \in Nat
    BY <1>6, <2>3 DEF AtMostFull
  <2> QED
    <3>1. b \in Ballots
      BY <1>1, <1>5, <1>6, <2>2 DEF Ballots, AtMostFull
    <3> QED
      BY <1>5, <1>8, <2>1, <2>3, <2>4, <3>1 DEF Weighs
<1> QED
  BY <1>7, <1>8

(* Only a ballot of the sentiment model may weigh little in its regime.    *)
Loud(x, limit, scale, full) == A!beyond(x, limit) # 0 => full * AtMostFull(scale * Size(x)) >= Firm
LEMMA CastIsBallot ==
    ASSUME NEW m, NEW x \in Int, NEW limit \in Nat, NEW scale \in Nat, NEW full \in Nat, NEW low \in Nat,
           m # "sentiment_tilt",
           Loud(x, limit, scale, full)
    PROVE  Ballot(m, A!cast(m, x, limit, scale, full, low))
<1> DEFINE b == A!cast(m, x, limit, scale, full, low)
<1>1. Weighs(b, A!beyond(x, limit), IF A!supported(m) THEN full ELSE low, scale * Size(x))
  BY CastWeighs, Zenon
<1> HIDE DEF b
<1>2. A!supported(m) /\ b.direction # 0 => A!effective(b) >= Firm
  BY <1>1 DEF Loud, Weighs
<1> QED
  BY <1>1, <1>2 DEF Ballot, Ballots, b, Weighs

(* The trend model: a vote weighs, and turns with its market.              *)
LEMMA TrendTurns ==
    ASSUME NEW v \in A!Verdicts("trend_continuation")
    PROVE  LET w == A!mirror("trend_continuation", v)
           IN  /\ A!trendScore(v) \in Int /\ A!trendScore(w) = -A!trendScore(v)
               /\ \E j \in Int : A!trendScore(v) = 50 * j
<1> DEFINE w == A!mirror("trend_continuation", v)
           plain(u) == 200 * u.stack + 150 * u.adx + (IF u.pullback THEN 150 * u.stack ELSE 0)
<1>1. v \in [stack : -1..1, adx : -1..1, pullback : BOOLEAN, macd : -1..1]
  BY DEF A!Verdicts, A!Sides
<1>2. PICK a \in -1..1, b \in -1..1, c \in -1..1 : a = v.stack /\ b = v.adx /\ c = v.macd
  BY <1>1
<1>3. w.stack = -a /\ w.adx = -b /\ w.macd = -c /\ w.pullback = v.pullback
  BY <1>1, <1>2 DEF A!mirror, A!NoData
<1> HIDE DEF w
<1>4. PICK k \in Int : k = 4 * a + 3 * b + (IF v.pullback THEN 3 * a ELSE 0)
  OBVIOUS
<1>5. plain(v) = 50 * k
  <2>1. CASE v.pullback
    BY <1>2, <1>4, <2>1
  <2>2. CASE ~v.pullback
    BY <1>2, <1>4, <2>2
  <2> QED
    BY <2>1, <2>2
<1>6. plain(w) = -(50 * k)
  <2>1. CASE v.pullback
    BY <1>3, <1>4, <2>1
  <2>2. CASE ~v.pullback
    BY <1>3, <1>4, <2>2
  <2> QED
    BY <2>1, <2>2
<1>7. PICK s \in -1..1 : s = A!sign(50 * k) /\ -s = A!sign(-(50 * k))
  BY SignMirrors
<1>8. A!trendScore(v) = 50 * k + (IF c = s THEN 50 * c ELSE 0)
  BY <1>2, <1>5, <1>7 DEF A!trendScore
<1>9. A!trendScore(w) = -(50 * k) + (IF -c = -s THEN 50 * (-c) ELSE 0)
  BY <1>3, <1>6, <1>7 DEF A!trendScore
<1> HIDE DEF plain
<1>10. CASE c = s
  <2>1. PICK j \in Int : j = k + c
    OBVIOUS
  <2>2. A!trendScore(v) = 50 * j /\ A!trendScore(w) = -(50 * j)
    BY <1>8, <1>9, <1>10, <2>1
  <2> QED
    BY <2>2 DEF w
<1>11. CASE c # s
  <2>1. A!trendScore(v) = 50 * k /\ A!trendScore(w) = -(50 * k)
    BY <1>8, <1>9, <1>11
  <2> QED
    BY <2>1 DEF w
<1> QED
  BY <1>10, <1>11

(* The reversion model.                                                    *)
LEMMA ReversionTurns ==
    ASSUME NEW v \in A!Verdicts("mean_reversion")
    PROVE  LET w == A!mirror("mean_reversion", v)
           IN  /\ A!reversionScore(v) \in Int /\ A!reversionScore(w) = -A!reversionScore(v)
               /\ \E j \in Int : A!reversionScore(v) \in {50 * j, 15 * j}
<1> DEFINE w == A!mirror("mean_reversion", v)
           points(level, one, two) ==
               A!sign(level) * (IF level \in {-2, 2} THEN two ELSE IF level = 0 THEN 0 ELSE one)
<1>1. v \in [rsi : -2..2, band : -2..2, stoch : -1..1, mfi : -1..1, cci : -1..1]
  BY AlphaAssumption DEF A!Verdicts
<1>2. PICK a \in -2..2, b \in -2..2, c \in -1..1, d \in -1..1, e \in -1..1 :
        a = v.rsi /\ b = v.band /\ c = v.stoch /\ d = v.mfi /\ e = v.cci
  BY <1>1
<1>3. w.rsi = -a /\ w.band = -b /\ w.stoch = -c /\ w.mfi = -d /\ w.cci = -e
  BY <1>1, <1>2 DEF A!mirror, A!NoData
<1>4. PICK p \in Int : points(a, 150, 300) = 50 * p /\ points(-a, 150, 300) = -(50 * p)
  <2>1. \E p \in {-6, -3, 0, 3, 6} : points(a, 150, 300) = 50 * p /\ points(-a, 150, 300) = -(50 * p)
    BY DEF A!sign
  <2> QED
    BY <2>1
<1>5. PICK q \in Int : points(b, 100, 200) = 50 * q /\ points(-b, 100, 200) = -(50 * q)
  <2>1. \E q \in {-4, -2, 0, 2, 4} : points(b, 100, 200) = 50 * q /\ points(-b, 100, 200) = -(50 * q)
    BY DEF A!sign
  <2> QED
    BY <2>1
<1> HIDE DEF w, points
<1>6. PICK k \in Int : k = p + q + 2 * c + d + 2 * e
  OBVIOUS
<1>7. /\ points(a, 150, 300) + points(b, 100, 200) + 100 * c + 50 * d + 100 * e = 50 * k
      /\ points(-a, 150, 300) + points(-b, 100, 200) + 100 * (-c) + 50 * (-d) + 100 * (-e) = -(50 * k)
  BY <1>4, <1>5, <1>6
<1>8. CASE market.liquidity \in {"high", "extreme"}
  <2>1. A!reversionScore(v) = (50 * k * 3) \div 10
    BY <1>2, <1>7, <1>8 DEF A!reversionScore, points
  <2>2. A!reversionScore(w) = (-(50 * k) * 3) \div 10
    BY <1>3, <1>7, <1>8 DEF A!reversionScore, points
  <2>3. (50 * k * 3) \div 10 = 15 * k /\ (-(50 * k) * 3) \div 10 = -(15 * k)
    OBVIOUS
  <2> QED
    BY <2>1, <2>2, <2>3 DEF w
<1>9. CASE ~(market.liquidity \in {"high", "extreme"})
  <2>1. A!reversionScore(v) = 50 * k
    BY <1>2, <1>7, <1>9 DEF A!reversionScore, points
  <2>2. A!reversionScore(w) = -(50 * k)
    BY <1>3, <1>7, <1>9 DEF A!reversionScore, points
  <2> QED
    BY <2>1, <2>2 DEF w
<1> QED
  BY <1>8, <1>9

(* The divergence model.                                                   *)
LEMMA DivergenceTurns ==
    ASSUME NEW v \in A!Verdicts("momentum_divergence")
    PROVE  LET w == A!mirror("momentum_divergence", v)
           IN  /\ A!divergenceScore(v) \in Int /\ A!divergenceScore(w) = -A!divergenceScore(v)
               /\ \E j \in Int : A!divergenceScore(v) = 50 * j
<1> DEFINE w == A!mirror("momentum_divergence", v)
<1>1. PICK a \in 0..1, b \in 0..1, c \in 0..1, d \in 0..1 :
        /\ a = A!toInt(v.rsiBull) /\ b = A!toInt(v.rsiBear)
        /\ c = A!toInt(v.macdBull) /\ d = A!toInt(v.macdBear)
  BY DEF A!toInt
<1>2. w.rsiBull = v.rsiBear /\ w.rsiBear = v.rsiBull /\ w.macdBull = v.macdBear /\ w.macdBear = v.macdBull
  BY DEF A!mirror
<1> HIDE DEF w
<1>3. A!divergenceScore(v) = 250 * (a - b) + 150 * (c - d)
  BY <1>1 DEF A!divergenceScore
<1>4. A!divergenceScore(w) = 250 * (b - a) + 150 * (d - c)
  BY <1>1, <1>2 DEF A!divergenceScore
<1>5. PICK j \in Int : j = 5 * (a - b) + 3 * (c - d)
  OBVIOUS
<1>6. A!divergenceScore(v) = 50 * j /\ A!divergenceScore(w) = -(50 * j)
  BY <1>3, <1>4, <1>5
<1> QED
  BY <1>6 DEF w

(* The sentiment model.                                                    *)
LEMMA SentimentTurns ==
    ASSUME NEW v \in A!Verdicts("sentiment_tilt")
    PROVE  LET w == A!mirror("sentiment_tilt", v)
           IN  /\ A!sentimentScore(v) \in -250..250 /\ A!sentimentScore(w) = -A!sentimentScore(v)
               /\ (w.fear = A!NoData <=> v.fear = A!NoData) /\ (w.news = A!NoData <=> v.news = A!NoData)
<1> DEFINE w == A!mirror("sentiment_tilt", v)
<1>1. v \in [fear : (-2..2) \union {9}, news : (-1..1) \union {9}]
  BY DEF A!Verdicts, A!Sides, A!NoData
<1>2. /\ w.fear = IF v.fear = 9 THEN 9 ELSE -v.fear
      /\ w.news = IF v.news = 9 THEN 9 ELSE -v.news
  BY <1>1 DEF A!mirror, A!NoData
<1>3. PICK a \in -2..2, b \in -1..1 :
        a = (IF v.fear = 9 THEN 0 ELSE v.fear) /\ b = IF v.news = 9 THEN 0 ELSE v.news
  BY <1>1
<1> HIDE DEF w
<1>4. A!sentimentScore(v) = 100 * a + 50 * b
  BY <1>1, <1>3 DEF A!sentimentScore, A!NoData
<1>5. A!sentimentScore(w) = 100 * (-a) + 50 * (-b)
  BY <1>1, <1>2, <1>3 DEF A!sentimentScore, A!NoData
<1>6. (w.fear = 9 <=> v.fear = 9) /\ (w.news = 9 <=> v.news = 9)
  BY <1>1, <1>2
<1> QED
  BY <1>4, <1>5, <1>6 DEF w, A!NoData

(* The breakout model votes for the side the price breaks to, or not.      *)
LEMMA BreakoutSide ==
    ASSUME NEW v \in A!Verdicts("volatility_breakout")
    PROVE  /\ A!breakoutScore(v) \in Int
           /\ A!beyond(A!breakoutScore(v), 100) \in {0, A!sign(v.place)}
<1>1. v \in [squeeze : BOOLEAN, breaking : BOOLEAN, place : {-2, -1, 1, 2},
             volume : {"high", "normal", "low"}, ema : -1..1]
  BY DEF A!Verdicts, A!Sides
<1>2. PICK s \in {0, 50} : s = IF v.squeeze THEN 50 ELSE 0
  OBVIOUS
<1>3. PICK p \in {-1, 1} : p = A!sign(v.place)
  BY <1>1 DEF A!sign
<1>4. PICK t \in {0, 150 * p, 300 * p} :
        t = IF v.breaking THEN A!sign(v.place) * (IF v.place \in {-2, 2} THEN 300 ELSE 150) ELSE 0
  BY <1>1, <1>3
<1>5. PICK x \in Int : x = s + t
  OBVIOUS
<1> DEFINE confirmed == CASE v.volume = "high" /\ A!beyond(x, 100) # 0 -> (x * 13) \div 10
                          [] v.volume = "low" /\ A!beyond(x, 100) # 0 -> x \div 2
                          [] OTHER -> x
<1>6. A!breakoutScore(v) = confirmed + (IF v.ema = A!sign(confirmed) THEN 50 * v.ema ELSE 0)
  BY <1>2, <1>4, <1>5 DEF A!breakoutScore
<1>7. confirmed \in Int /\ (t = 0 => confirmed \in 0..50)
      /\ (t > 0 => confirmed > 0) /\ (t < 0 => confirmed < 0)
  <2>1. t = 0 => A!beyond(x, 100) = 0 /\ x \in 0..50
    BY <1>5 DEF A!beyond
  <2>2. t > 0 => x > 0
    BY <1>5
  <2>3. t < 0 => x <= -100
    BY <1>5
  <2>4. (x > 0 => (x * 13) \div 10 > 0) /\ (x <= -100 => (x * 13) \div 10 < 0) /\ (x * 13) \div 10 \in Int
    OBVIOUS
  <2>5. (x > 1 => x \div 2 > 0) /\ (x < 0 => x \div 2 < 0) /\ x \div 2 \in Int
    OBVIOUS
  <2>6. CASE v.volume = "high" /\ A!beyond(x, 100) # 0
    <3>1. confirmed = (x * 13) \div 10
      BY <2>6
    <3> QED
      BY <2>1, <2>2, <2>3, <2>4, <2>6, <3>1
  <2>7. CASE v.volume = "low" /\ A!beyond(x, 100) # 0
    <3>1. confirmed = x \div 2
      BY <2>7
    <3>2. t > 0 => x > 1
      BY <1>5
    <3> QED
      BY <2>1, <2>3, <2>5, <2>7, <3>1, <3>2
  <2>8. CASE A!beyond(x, 100) = 0 \/ v.volume = "normal"
    <3>1. confirmed = x
      BY <2>8
    <3> QED
      BY <2>1, <2>2, <2>3, <3>1
  <2> QED
    BY <1>1, <2>6, <2>7, <2>8
<1>8. PICK c \in Int : c = confirmed
  BY <1>7
<1>9. PICK e \in -1..1 : e = v.ema
  BY <1>1
<1> HIDE DEF confirmed
<1>10. A!breakoutScore(v) = c + (IF e = A!sign(c) THEN 50 * e ELSE 0)
  BY <1>6, <1>8, <1>9
<1>11. PICK r \in Int : r = A!breakoutScore(v)
  BY <1>10
<1>12. r = c + (IF e = A!sign(c) THEN 50 * e ELSE 0)
  BY <1>10, <1>11
<1>13. (c \in 0..50 => r \in 0..100) /\ (c > 0 => r > 0) /\ (c < 0 => r < 0)
  BY <1>12 DEF A!sign
<1>14. (t > 0 => p = 1) /\ (t < 0 => p = -1)
  OBVIOUS
<1>15. A!beyond(r, 100) \in {0, p}
  BY <1>7, <1>8, <1>13, <1>14 DEF A!beyond
<1> QED
  BY <1>3, <1>11, <1>15

(* What the breakout model sees of a market upside down.                   *)
LEMMA BreakoutTurns ==
    ASSUME NEW v \in A!Verdicts("volatility_breakout")
    PROVE  LET w == A!mirror("volatility_breakout", v)
           IN  w \in A!Verdicts("volatility_breakout") /\ A!sign(w.place) = -A!sign(v.place) /\ A!sign(v.place) # 0
<1> DEFINE w == A!mirror("volatility_breakout", v)
<1>1. v \in [squeeze : BOOLEAN, breaking : BOOLEAN, place : {-2, -1, 1, 2},
             volume : {"high", "normal", "low"}, ema : -1..1]
  BY DEF A!Verdicts, A!Sides
<1>2. w = [squeeze |-> v.squeeze, breaking |-> v.breaking, place |-> -v.place, volume |-> v.volume, ema |-> -v.ema]
  BY <1>1 DEF A!mirror, A!NoData
<1>3. w \in [squeeze : BOOLEAN, breaking : BOOLEAN, place : {-2, -1, 1, 2},
             volume : {"high", "normal", "low"}, ema : -1..1]
  BY <1>1, <1>2
<1>4. PICK a \in {-2, -1, 1, 2} : v.place = a /\ w.place = -a
  BY <1>1, <1>2
<1> HIDE DEF w
<1>5. A!sign(-a) = -A!sign(a) /\ A!sign(a) # 0
  BY DEF A!sign
<1> QED
  BY <1>3, <1>4, <1>5 DEF A!Verdicts, A!Sides, w

(* What a model sees makes a ballot of it.                                 *)
LEMMA VoteIsBallot ==
    ASSUME NEW i \in 1..5, NEW v \in A!Verdicts(A!Models[i])
    PROVE  Ballot(A!Models[i], A!vote(A!Models[i], v))
<1> DEFINE m == A!Models[i]
           b == A!vote(m, v)
<1>1. CASE i = 1
  <2>1. m = "trend_continuation" /\ b = A!cast("trend_continuation", A!trendScore(v), 100, 20, 100, 20)
    BY <1>1 DEF A!Models, A!vote, A!trendVote
  <2>2. PICK x \in Int, j \in Int : x = A!trendScore(v) /\ x = 50 * j
    BY <1>1, <2>1, TrendTurns
  <2>3. Loud(x, 100, 20, 100)
    BY <2>2 DEF Loud, Firm, A!beyond, AtMostFull, Size
  <2> HIDE DEF m, b
  <2>4. 100 \in Nat /\ 20 \in Nat /\ 100 \in Nat /\ 20 \in Nat /\ "trend_continuation" # "sentiment_tilt"
    OBVIOUS
  <2>5. Ballot("trend_continuation", A!cast("trend_continuation", x, 100, 20, 100, 20))
    BY <2>3, <2>4, CastIsBallot, Zenon
  <2> QED
    BY <2>1, <2>2, <2>5, Zenon DEF m, b
<1>2. CASE i = 2
  <2>1. m = "mean_reversion" /\ b = A!cast("mean_reversion", A!reversionScore(v), 150, 15, 100, 15)
    BY <1>2 DEF A!Models, A!vote, A!reversionVote
  <2>2. PICK x \in Int, j \in Int : x = A!reversionScore(v) /\ x \in {50 * j, 15 * j}
    BY <1>2, <2>1, ReversionTurns
  <2>3. Loud(x, 150, 15, 100)
    BY <2>2 DEF Loud, Firm, A!beyond, AtMostFull, Size
  <2> HIDE DEF m, b
  <2>4. 150 \in Nat /\ 15 \in Nat /\ 100 \in Nat /\ 15 \in Nat /\ "mean_reversion" # "sentiment_tilt"
    OBVIOUS
  <2>5. Ballot("mean_reversion", A!cast("mean_reversion", x, 150, 15, 100, 15))
    BY <2>3, <2>4, CastIsBallot, Zenon
  <2> QED
    BY <2>1, <2>2, <2>5, Zenon DEF m, b
<1>3. CASE i = 3
  <2>1. m = "volatility_breakout" /\ b = A!cast("volatility_breakout", A!breakoutScore(v), 100, 24, 100, 10)
    BY <1>3 DEF A!Models, A!vote, A!breakoutVote
  <2>2. PICK x \in Int : x = A!breakoutScore(v)
    BY <1>3, <2>1, BreakoutSide
  <2>3. Loud(x, 100, 24, 100)
    BY <2>2 DEF Loud, Firm, A!beyond, AtMostFull, Size
  <2> HIDE DEF m, b
  <2>4. 100 \in Nat /\ 24 \in Nat /\ 100 \in Nat /\ 10 \in Nat /\ "volatility_breakout" # "sentiment_tilt"
    OBVIOUS
  <2>5. Ballot("volatility_breakout", A!cast("volatility_breakout", x, 100, 24, 100, 10))
    BY <2>3, <2>4, CastIsBallot, Zenon
  <2> QED
    BY <2>1, <2>2, <2>5, Zenon DEF m, b
<1>4. CASE i = 4
  <2>1. m = "momentum_divergence" /\ b = A!cast("momentum_divergence", A!divergenceScore(v), 100, 24, 80, 20)
    BY <1>4 DEF A!Models, A!vote, A!divergenceVote
  <2>2. PICK x \in Int, j \in Int : x = A!divergenceScore(v) /\ x = 50 * j
    BY <1>4, <2>1, DivergenceTurns
  <2>3. Loud(x, 100, 24, 80)
    BY <2>2 DEF Loud, Firm, A!beyond, AtMostFull, Size
  <2> HIDE DEF m, b
  <2>4. 100 \in Nat /\ 24 \in Nat /\ 80 \in Nat /\ 20 \in Nat /\ "momentum_divergence" # "sentiment_tilt"
    OBVIOUS
  <2>5. Ballot("momentum_divergence", A!cast("momentum_divergence", x, 100, 24, 80, 20))
    BY <2>3, <2>4, CastIsBallot, Zenon
  <2> QED
    BY <2>1, <2>2, <2>5, Zenon DEF m, b
<1>5. CASE i = 5
  <2>1. m = "sentiment_tilt" /\ b = A!sentimentVote(v)
    BY <1>5 DEF A!Models, A!vote
  <2>2. CASE v.fear = A!NoData /\ v.news = A!NoData
    <3>1. b \in Ballots /\ b.direction = 0 /\ A!effective(b) = 0
      BY <2>1, <2>2 DEF A!sentimentVote, A!effective, Ballots
    <3> QED
      BY <2>1, <3>1 DEF Ballot, Mild
  <2>3. CASE ~(v.fear = A!NoData /\ v.news = A!NoData)
    <3>1. b = A!cast("sentiment_tilt", A!sentimentScore(v), 50, 40, 30, 30)
      BY <2>1, <2>3 DEF A!sentimentVote
    <3>2. PICK x \in -250..250 : x = A!sentimentScore(v)
      BY <1>5, <2>1, SentimentTurns
    <3>3. 30 * AtMostFull(40 * Size(x)) <= Mild
      BY <3>2 DEF Mild, AtMostFull, Size
    <3> HIDE DEF m, b
    <3>4. 50 \in Nat /\ 40 \in Nat /\ 30 \in Nat /\ x \in Int
      BY <3>2
    <3> DEFINE c == A!cast("sentiment_tilt", x, 50, 40, 30, 30)
    <3>5. Weighs(c, A!beyond(x, 50), IF A!supported("sentiment_tilt") THEN 30 ELSE 30, 40 * Size(x))
      BY <3>4, CastWeighs, Zenon
    <3> HIDE DEF c
    <3>6. A!effective(c) <= Mild
      BY <3>3, <3>5 DEF Weighs, Mild
    <3>7. Ballot("sentiment_tilt", c)
      BY <3>5, <3>6 DEF Ballot, Weighs
    <3> QED
      BY <2>1, <3>1, <3>2, <3>7, Zenon DEF m, b, c
  <2> QED
    BY <2>2, <2>3
<1> QED
  BY <1>1, <1>2, <1>3, <1>4, <1>5

(* The direction of a vote is the side its score is on.                    *)
LEMMA CastPoints ==
    ASSUME NEW m, NEW x, NEW limit, NEW scale, NEW full, NEW low
    PROVE  A!cast(m, x, limit, scale, full, low).direction = A!beyond(x, limit)
  BY DEF A!cast

(* Upside down, a model votes the other way.                               *)
LEMMA VotesMirror ==
    ASSUME NEW i \in 1..5, NEW v \in A!Verdicts(A!Models[i])
    PROVE  LET m == A!Models[i]
               d == A!vote(m, v).direction
               e == A!vote(m, A!mirror(m, v)).direction
           IN  IF m = "volatility_breakout" THEN d # 0 => e # d ELSE e = -d
<1> DEFINE m == A!Models[i]
           w == A!mirror(m, v)
           d == A!vote(m, v).direction
           e == A!vote(m, w).direction
<1>1. CASE i = 1
  <2>1. m = "trend_continuation"
    BY <1>1 DEF A!Models
  <2>2. d = A!beyond(A!trendScore(v), 100) /\ e = A!beyond(A!trendScore(w), 100)
    BY <2>1, CastPoints DEF A!vote, A!trendVote
  <2>3. PICK x \in Int : x = A!trendScore(v) /\ A!trendScore(w) = -x
    BY <2>1, TrendTurns
  <2> HIDE DEF m, w, d, e
  <2>4. e = -d
    BY <2>2, <2>3, BeyondMirrors
  <2> QED
    BY <2>1, <2>4 DEF m, w, d, e
<1>2. CASE i = 2
  <2>1. m = "mean_reversion"
    BY <1>2 DEF A!Models
  <2>2. d = A!beyond(A!reversionScore(v), 150) /\ e = A!beyond(A!reversionScore(w), 150)
    BY <2>1, CastPoints DEF A!vote, A!reversionVote
  <2>3. PICK x \in Int : x = A!reversionScore(v) /\ A!reversionScore(w) = -x
    BY <2>1, ReversionTurns
  <2> HIDE DEF m, w, d, e
  <2>4. e = -d
    BY <2>2, <2>3, BeyondMirrors
  <2> QED
    BY <2>1, <2>4 DEF m, w, d, e
<1>3. CASE i = 3
  <2>1. m = "volatility_breakout"
    BY <1>3 DEF A!Models
  <2>2. d = A!beyond(A!breakoutScore(v), 100) /\ e = A!beyond(A!breakoutScore(w), 100)
    BY <2>1, CastPoints DEF A!vote, A!breakoutVote
  <2>3. v \in A!Verdicts("volatility_breakout") /\ w \in A!Verdicts("volatility_breakout")
        /\ A!sign(w.place) = -A!sign(v.place) /\ A!sign(v.place) # 0
    BY <2>1, BreakoutTurns
  <2> HIDE DEF m, w, d, e
  <2>4. PICK p : p = A!sign(v.place)
    OBVIOUS
  <2>5. p \in -1..1
    BY <2>4 DEF A!sign
  <2>6. d \in {0, p} /\ e \in {0, -p} /\ p # 0
    BY <2>2, <2>3, <2>4, BreakoutSide
  <2>7. d # 0 => e # d
    BY <2>5, <2>6
  <2> QED
    BY <2>1, <2>7 DEF m, w, d, e
<1>4. CASE i = 4
  <2>1. m = "momentum_divergence"
    BY <1>4 DEF A!Models
  <2>2. d = A!beyond(A!divergenceScore(v), 100) /\ e = A!beyond(A!divergenceScore(w), 100)
    BY <2>1, CastPoints DEF A!vote, A!divergenceVote
  <2>3. PICK x \in Int : x = A!divergenceScore(v) /\ A!divergenceScore(w) = -x
    BY <2>1, DivergenceTurns
  <2> HIDE DEF m, w, d, e
  <2>4. e = -d
    BY <2>2, <2>3, BeyondMirrors
  <2> QED
    BY <2>1, <2>4 DEF m, w, d, e
<1>5. CASE i = 5
  <2>1. m = "sentiment_tilt"
    BY <1>5 DEF A!Models
  <2>2. d = A!sentimentVote(v).direction /\ e = A!sentimentVote(w).direction
    BY <2>1 DEF A!vote
  <2>3. PICK x \in Int : x = A!sentimentScore(v) /\ A!sentimentScore(w) = -x
    BY <2>1, SentimentTurns
  <2>4. (w.fear = A!NoData /\ w.news = A!NoData) <=> (v.fear = A!NoData /\ v.news = A!NoData)
    BY <2>1, SentimentTurns
  <2> HIDE DEF m, w, d, e
  <2>5. CASE v.fear = A!NoData /\ v.news = A!NoData
    <3>1. d = 0 /\ e = 0
      BY <2>2, <2>4, <2>5 DEF A!sentimentVote
    <3> QED
      BY <2>1, <3>1 DEF m, w, d, e
  <2>6. CASE ~(v.fear = A!NoData /\ v.news = A!NoData)
    <3>1. d = A!beyond(x, 50) /\ e = A!beyond(-x, 50)
      BY <2>2, <2>3, <2>4, <2>6, CastPoints DEF A!sentimentVote
    <3>2. e = -d
      BY <3>1, BeyondMirrors
    <3> QED
      BY <2>1, <3>2 DEF m, w, d, e
  <2> QED
    BY <2>5, <2>6
<1> QED
  BY <1>1, <1>2, <1>3, <1>4, <1>5

(* What becomes of what the two sides weigh.                               *)
Outcome(up, down) == IF up + down = 0 THEN 0 ELSE A!beyond(100 * (up - down), 15 * (up + down))

LEMMA EvaluateIs ==
    ASSUME NEW s PROVE A!evaluate(s) = Outcome(A!weightOf(s, 1), A!weightOf(s, -1))
  BY DEF A!evaluate, Outcome

LEMMA Outweighs ==
    ASSUME NEW a \in Nat, NEW b \in Nat, a >= Firm, b <= Mild
    PROVE  Outcome(a, b) # -1 /\ Outcome(b, a) # 1
<1>1. ~(100 * (a - b) < -(15 * (a + b))) /\ ~(100 * (b - a) > 15 * (b + a))
  BY DEF Firm, Mild
<1> QED
  BY <1>1 DEF A!beyond, Outcome

(* A side that weighs 225000 is not turned round by 300000 against it.     *)
LEMMA NotTurned ==
    ASSUME NEW s, NEW side, NEW other, NEW a \in Nat, NEW b \in Nat,
           \/ side = 1 /\ other = -1
           \/ side = -1 /\ other = 1,
           a = A!weightOf(s, side), b = A!weightOf(s, other), a >= Firm, b <= Mild
    PROVE  A!evaluate(s) # other
<1>1. CASE side = 1 /\ other = -1
  <2>1. A!evaluate(s) = Outcome(a, b)
    BY <1>1, EvaluateIs, Zenon
  <2> QED
    BY <1>1, <2>1, Outweighs
<1>2. CASE side = -1 /\ other = 1
  <2>1. A!evaluate(s) = Outcome(b, a)
    BY <1>2, EvaluateIs, Zenon
  <2> QED
    BY <1>2, <2>1, Outweighs
<1> QED
  BY <1>1, <1>2

(* Every vote is a ballot of its model, and what is seen is the next one's *)
(* to see.                                                                 *)
AlphaInv ==
    /\ votes \in Seq(Ballots) /\ Len(votes) <= 5
    /\ \A i \in 1..Len(votes) : Ballot(A!Models[i], votes[i])
    /\ seen # << >> => Len(votes) < 5 /\ seen \in A!Verdicts(A!Models[Len(votes) + 1])

LEMMA VotesAsBallots ==
    ASSUME AlphaInv, Len(votes) = Len(A!Models)
    PROVE  A!SentimentOnlyTilts
<1> DEFINE technical == SubSeq(votes, 1, 4)
           d == A!evaluate(technical)
<1>1. Len(votes) = 5 /\ votes \in Seq(Ballots)
  BY DEF AlphaInv, A!Models
<1> HIDE DEF d
<1>2. technical \in Seq(Ballots) /\ Len(technical) = 4 /\ DOMAIN technical = 1..4
      /\ \A i \in 1..4 : technical[i] = votes[i] /\ votes[i] \in Ballots
  <2>1. (\A i \in 1..4 : votes[i] \in Ballots) /\ 1 \in Int /\ 4 \in Int
    BY <1>1, ElementOfSeq
  <2>2. /\ technical \in Seq(Ballots)
        /\ Len(technical) = IF 1 <= 4 THEN 4 - 1 + 1 ELSE 0
        /\ \A i \in 1..4 - 1 + 1 : technical[i] = votes[1 + i - 1]
    BY <2>1, SubSeqProperties
  <2> HIDE DEF technical
  <2> QED
    BY <2>1, <2>2
<1>3. d \in -1..1
  <2> HIDE DEF technical
  <2>1. \A side \in {1, -1}, i \in 1..5 : A!share(technical, side, i) \in Int
    <3>1. \A i \in 1..4 : technical[i].weight \in Nat /\ technical[i].confidence \in Nat
      BY <1>2 DEF Ballots
    <3>2. \A i \in 1..4 : A!effective(technical[i]) \in Int
      BY <3>1 DEF A!effective
    <3> QED
      BY <1>2, <3>2 DEF A!share
  <2>2. PICK u \in Int, w \in Int : u = A!weightOf(technical, 1) /\ w = A!weightOf(technical, -1)
    <3>1. \A side \in {1, -1} : A!weightOf(technical, side) \in Int
      <4> SUFFICES ASSUME NEW side \in {1, -1} PROVE A!weightOf(technical, side) \in Int
        OBVIOUS
      <4>1. /\ A!share(technical, side, 1) \in Int /\ A!share(technical, side, 2) \in Int
            /\ A!share(technical, side, 3) \in Int /\ A!share(technical, side, 4) \in Int
            /\ A!share(technical, side, 5) \in Int
        BY <2>1
      <4> QED
        BY <4>1 DEF A!weightOf
    <3> QED
      BY <3>1
  <2>3. d = Outcome(u, w)
    BY <2>2, EvaluateIs, Zenon DEF d
  <2> QED
    BY <2>3 DEF A!beyond, Outcome
<1> HIDE DEF technical
<1>4. ASSUME d # 0, \A i \in 1..4 : technical[i].direction # -d,
             \E i \in 1..4 : A!supported(A!Models[i]) /\ technical[i].direction = d
      PROVE  A!evaluate(votes) # -d
  <2>1. /\ d \in {1, -1} /\ -d \in {1, -1}
        /\ (d = 1 /\ -d = -1) \/ (d = -1 /\ -d = 1)
    BY <1>3, <1>4
  <2>2. PICK j \in 1..4 : A!supported(A!Models[j]) /\ votes[j].direction = d
    BY <1>2, <1>4
  <2>3. \A i \in 1..5 : Ballot(A!Models[i], votes[i])
    BY <1>1 DEF AlphaInv
  <2>4. A!Models[j] # "sentiment_tilt" /\ A!Models[5] = "sentiment_tilt"
    BY DEF A!Models
  <2>5. A!effective(votes[j]) >= Firm
    BY <2>1, <2>2, <2>3, <2>4 DEF Ballot
  <2>6. A!effective(votes[5]) \in Nat /\ A!effective(votes[5]) <= Mild
    BY <2>3, <2>4 DEF Ballot
  <2>7. DOMAIN votes = 1..5
    BY <1>1
  <2>8. \A side \in {1, -1}, i \in 1..5 : A!share(votes, side, i) \in Nat
    BY <2>3, <2>7 DEF A!share, Ballot
  <2>9. A!share(votes, d, j) >= Firm
    BY <2>2, <2>5, <2>7 DEF A!share
  <2>10. \A i \in 1..4 : A!share(votes, -d, i) = 0
    BY <1>2, <1>4, <2>7 DEF A!share
  <2>11. A!share(votes, -d, 5) <= Mild
    BY <2>6, <2>7 DEF A!share, Mild
  <2>12. A!weightOf(votes, d) \in Nat /\ A!weightOf(votes, d) >= Firm
    <3>0. /\ A!share(votes, d, 1) \in Nat /\ A!share(votes, d, 2) \in Nat /\ A!share(votes, d, 3) \in Nat
          /\ A!share(votes, d, 4) \in Nat /\ A!share(votes, d, 5) \in Nat
      BY <2>1, <2>8
    <3>1. PICK a1 \in Nat, a2 \in Nat, a3 \in Nat, a4 \in Nat, a5 \in Nat :
            /\ a1 = A!share(votes, d, 1) /\ a2 = A!share(votes, d, 2) /\ a3 = A!share(votes, d, 3)
            /\ a4 = A!share(votes, d, 4) /\ a5 = A!share(votes, d, 5)
      BY <3>0, Zenon
    <3>2. a1 >= Firm \/ a2 >= Firm \/ a3 >= Firm \/ a4 >= Firm
      <4>1. j = 1 \/ j = 2 \/ j = 3 \/ j = 4
        OBVIOUS
      <4> QED
        BY <2>9, <3>1, <4>1
    <3>3. A!weightOf(votes, d) = a1 + a2 + a3 + a4 + a5
      BY <3>1 DEF A!weightOf
    <3> QED
      BY <3>2, <3>3 DEF Firm
  <2>13. A!weightOf(votes, -d) \in Nat /\ A!weightOf(votes, -d) <= Mild
    <3>1. A!share(votes, -d, 5) \in Nat
      BY <2>1, <2>8
    <3>2. /\ A!share(votes, -d, 1) = 0 /\ A!share(votes, -d, 2) = 0
          /\ A!share(votes, -d, 3) = 0 /\ A!share(votes, -d, 4) = 0
      BY <2>10
    <3> QED
      BY <2>11, <3>1, <3>2 DEF A!weightOf
  <2>14. PICK a \in Nat, b \in Nat : a = A!weightOf(votes, d) /\ b = A!weightOf(votes, -d)
    BY <2>12, <2>13
  <2>15. a >= Firm /\ b <= Mild
    BY <2>12, <2>13, <2>14
  <2> QED
    BY <2>1, <2>14, <2>15, NotTurned
<1> QED
  BY <1>4 DEF A!SentimentOnlyTilts, technical, d

(* A step of the ensemble keeps the ballots.                               *)
LEMMA BallotsKept ==
    ASSUME AlphaInv, [A!Next]_alphaVars PROVE AlphaInv'
<1>1. CASE UNCHANGED alphaVars
  BY <1>1 DEF AlphaInv, alphaVars, Ballot, A!supported, A!regime, A!Verdicts, A!Models, A!Sides, A!NoData
<1>2. CASE A!Look
  <2>1. votes' = votes /\ market' = market /\ Len(votes) < 5 /\ seen' \in A!Verdicts(A!Models[Len(votes) + 1])
    BY <1>2 DEF A!Look, A!next, A!Models
  <2> QED
    BY <2>1 DEF AlphaInv, Ballot, A!supported, A!regime
<1>3. CASE A!Vote
  <2>1. /\ seen # << >> /\ seen' = << >> /\ market' = market
        /\ votes' = Append(votes, A!vote(A!Models[Len(votes) + 1], seen))
    BY <1>3 DEF A!Vote, A!next
  <2>2. PICK n \in 1..5 : n = Len(votes) + 1
    BY <2>1 DEF AlphaInv
  <2>3. seen \in A!Verdicts(A!Models[n])
    BY <2>1, <2>2 DEF AlphaInv
  <2> DEFINE b == A!vote(A!Models[n], seen)
  <2>4. Ballot(A!Models[n], b) /\ b \in Ballots
    BY <2>3, VoteIsBallot DEF Ballot
  <2> HIDE DEF b
  <2>5. votes \in Seq(Ballots)
    BY DEF AlphaInv
  <2>6. /\ votes' \in Seq(Ballots)
        /\ Len(votes') = n /\ votes'[n] = b /\ \A i \in 1..Len(votes) : votes'[i] = votes[i]
    BY <2>1, <2>2, <2>4, <2>5 DEF b
  <2>7. \A i \in 1..n : Ballot(A!Models[i], votes'[i])
    BY <2>2, <2>4, <2>6 DEF AlphaInv
  <2>8. \A i \in 1..Len(votes') : Ballot(A!Models[i], votes[i])'
    BY <2>1, <2>6, <2>7 DEF Ballot, A!supported, A!regime
  <2> QED
    BY <2>1, <2>2, <2>6, <2>8 DEF AlphaInv
<1>4. CASE A!NextCycle
  <2>1. votes' = << >> /\ seen' = seen /\ Len(votes) = 5
    BY <1>4 DEF A!NextCycle, A!Models
  <2> QED
    BY <2>1 DEF AlphaInv
<1> QED
  BY <1>1, <1>2, <1>3, <1>4 DEF A!Next

LEMMA BallotsHold == Spec => [](part = "alpha" => AlphaInv)
<1>1. Init => (part = "alpha" => AlphaInv)
  <2> SUFFICES ASSUME Init, part = "alpha" PROVE AlphaInv
    OBVIOUS
  <2>1. votes = << >> /\ seen = << >>
    BY DEF Init, A!Init
  <2> QED
    BY <2>1 DEF AlphaInv
<1>2. (part = "alpha" => AlphaInv) /\ [Next]_vars => (part = "alpha" => AlphaInv)'
  BY AlphaMoves, BallotsKept
<1> QED
  BY <1>1, <1>2, PTL DEF Spec

(* The ensemble is fair: a market upside down turns every vote of a model  *)
(* round (the breakout model's, at least, is never the same), and the      *)
(* mood tilts the ensemble but never turns it against the technical models *)
(* in a regime of their own.  For any markets, any number of models that   *)
(* speak and any verdicts of the oscillators (alpha/ensemble.ts).          *)
THEOREM VotesAreFair == Spec => []VotesFair
<1>1. (part = "alpha" => AlphaInv) => VotesFair
  <2> SUFFICES ASSUME part = "alpha", AlphaInv PROVE A!SidesAlike /\ A!SentimentOnlyTilts
    BY DEF VotesFair
  <2>1. A!SidesAlike
    <3> SUFFICES ASSUME seen # << >>
                 PROVE  LET m == A!Models[Len(votes) + 1]
                            d == A!vote(m, seen).direction
                            e == A!vote(m, A!mirror(m, seen)).direction
                        IN  IF m = "volatility_breakout" THEN d # 0 => e # d ELSE e = -d
      BY DEF A!SidesAlike, A!next
    <3>1. PICK n \in 1..5 : n = Len(votes) + 1 /\ seen \in A!Verdicts(A!Models[n])
      BY DEF AlphaInv
    <3> QED
      BY <3>1, VotesMirror
  <2>2. A!SentimentOnlyTilts
    BY VotesAsBallots DEF A!SentimentOnlyTilts
  <2> QED
    BY <2>1, <2>2
<1> QED
  BY <1>1, BallotsHold, PTL
=============================================================================
