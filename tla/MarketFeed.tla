------------------------------ MODULE MarketFeed ------------------------------
(***************************************************************************)
(* Where the candles come from: the polling of one symbol with its two     *)
(* fallbacks, and the download of the history that is run by hand, both    *)
(* into the table of candles.  A candle is known by its time; a real one   *)
(* is stamped with the beginning of its interval, a fake one with the      *)
(* moment it is made.                                                      *)
(***************************************************************************)
EXTENDS Integers, FiniteSetsExt

CONSTANTS
    Interval,      \* of the polled candles
    Limit,         \* candles asked for at a poll
    FakeFallback,  \* DATA_FAKE_FALLBACK, true unless configured
    History,       \* times of the candles the exchange has of another timeframe
    BatchSize, Step,
    MaxTime        \* bound

VARIABLES
    now, exchange,   \* the time; whether the exchange answers
    rows,            \* of the candle table: time and whether fake
    lastCandle,      \* lastCandleBySymbol
    cursor, saved    \* of the download: next time asked for, candles stored

pollVars == <<rows, lastCandle>>
vars == <<now, exchange, pollVars, cursor, saved>>

None == [time |-> -1, fake |-> FALSE]
Done == -1
CutShort == -2

begin(t) == t - (t % Interval)
realCandles == {[time |-> t, fake |-> FALSE] : t \in {u \in 0..now : u % Interval = 0 /\ u > now - Limit * Interval}}
fakeTime_NextInterval == begin(now) + Interval              \* mutant
fakeTime == now
newest(candles) == CHOOSE c \in candles : \A d \in candles : d.time <= c.time

(* ON CONFLICT(symbol, interval, time) DO UPDATE                           *)
saveCandles(candles) == {r \in rows : \A c \in candles : c.time # r.time} \union candles

-----------------------------------------------------------------------------
Init ==
    /\ now = 0 /\ exchange = "up"
    /\ rows = {} /\ lastCandle = None
    /\ cursor = 0 /\ saved = {}

Time ==
    /\ now < MaxTime
    /\ now' = now + 1
    /\ exchange' \in {"up", "down", "all_down"}
    /\ UNCHANGED <<pollVars, cursor, saved>>

(* The exchange or, if that is allowed, the public API.                    *)
PollReal ==
    /\ exchange = "up" \/ (exchange = "down" /\ FakeFallback)
    /\ rows' = saveCandles(realCandles)
    /\ lastCandle' = newest(realCandles)
    /\ UNCHANGED <<now, exchange, cursor, saved>>

PollFake ==
    /\ exchange = "all_down" /\ FakeFallback
    /\ LET fake == [time |-> fakeTime, fake |-> TRUE]
       IN  rows' = saveCandles({fake}) /\ lastCandle' = fake
    /\ UNCHANGED <<now, exchange, cursor, saved>>

(* One page of fetch-history: nothing, or no progress, ends it, and so     *)
(* does an error.                                                          *)
FetchPage ==
    /\ cursor >= 0
    /\ IF exchange # "up" THEN cursor' = CutShort /\ UNCHANGED saved
       ELSE
       LET later == {t \in History : t >= cursor}
           page == {t \in later : Cardinality({u \in later : u < t}) < BatchSize}
       IN  IF page = {} THEN cursor' = Done /\ UNCHANGED saved
           ELSE /\ saved' = saved \union page
                /\ cursor' = IF Max(page) <= cursor \/ Max(page) + Step >= MaxTime THEN Done
                             ELSE Max(page) + Step
    /\ UNCHANGED <<now, exchange, pollVars>>

Next == Time \/ PollReal \/ PollFake \/ FetchPage

Spec == Init /\ [][Next]_vars

-----------------------------------------------------------------------------
(* A made-up candle is no longer the latest one judged once a real candle  *)
(* of a later interval has been polled, and a download that was not cut    *)
(* short has every candle up to its end.  (Within its interval the fake    *)
(* one stays the latest although the exchange answers again, and its row   *)
(* is never replaced.)                                                     *)
FakeGivesWay ==
    /\ \/ lastCandle = None \/ lastCandle.fake \/ ~newest(rows).fake
       \/ newest(rows).time < lastCandle.time + Interval
    /\ cursor = Done => {t \in History : t < MaxTime} \subseteq saved
=============================================================================
