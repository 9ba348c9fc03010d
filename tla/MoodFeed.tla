------------------------------- MODULE MoodFeed -------------------------------
(***************************************************************************)
(* Sentiment and on-chain data: the fear-and-greed index, the news score   *)
(* and the market overview, each behind a cache with a time to live, and   *)
(* the loop that keeps the latest of each for the strategies to read.      *)
(***************************************************************************)
EXTENDS Integers, FiniteSetsExt

CONSTANTS
    Period,         \* of the loop
    Ttl, Timeout,   \* of a cache entry; of a request
    MaxTime         \* bound

VARIABLES
    now, nextRun,
    cache,        \* fearGreedCache, newsScoreCache, marketOverviewCache: value and timestamp
    since, got,   \* of the run under way: when it began, what it has got
    latest        \* latestSentiment and latestMarketOverview

vars == <<now, nextRun, cache, since, got, latest>>

Sources == {"fearGreed", "news", "overview"}
Default == -1    \* what is taken for want of an answer: 50, 0, fixed figures
NoRun == -1

(* A value is told by the time it was read at its source.                  *)
valid(f) == cache[f].timestamp >= 0 /\ now - cache[f].timestamp < Ttl

onError_Cached(f) == cache[f].value                         \* mutant
onError(f) == Default

Init ==
    /\ now = 0 /\ nextRun = 0
    /\ cache = [f \in Sources |-> [value |-> Default, timestamp |-> -1]]
    /\ since = NoRun /\ got = << >>
    /\ latest = [f \in Sources |-> Default]

(* Time stands still for a request that is about to time out, and for the  *)
(* timer of the loop.                                                      *)
Time ==
    /\ now < MaxTime /\ now < nextRun
    /\ since # NoRun => now - since < Timeout
    /\ now' = now + 1
    /\ UNCHANGED <<nextRun, cache, since, got, latest>>

(* The loop asks for all of them; what is cached is there at once.         *)
Start ==
    /\ now = nextRun /\ since = NoRun
    /\ nextRun' = now + Period
    /\ since' = now
    /\ got' = [f \in {g \in Sources : valid(g)} |-> cache[f].value]
    /\ UNCHANGED <<now, cache, latest>>

receive(f, value) ==
    /\ since # NoRun /\ f \notin DOMAIN got
    /\ got' = [g \in (DOMAIN got) \union {f} |-> IF g = f THEN value ELSE got[g]]

(* The source read the value at some moment since it was asked.            *)
Answer(f) ==
    \E read \in since..now :
        /\ receive(f, read)
        /\ cache' = [cache EXCEPT ![f] = [value |-> read, timestamp |-> since]]
        /\ UNCHANGED <<now, nextRun, since, latest>>

(* An error is answered by the default; only the news score remembers it,  *)
(* unless it was never asked for, for want of a key.                       *)
Fail(f) ==
    /\ receive(f, onError(f))
    /\ \/ UNCHANGED cache
       \/ f = "news" /\ cache' = [cache EXCEPT ![f] = [value |-> onError(f), timestamp |-> since]]
    /\ UNCHANGED <<now, nextRun, since, latest>>

Store ==
    /\ since # NoRun /\ DOMAIN got = Sources
    /\ latest' = got
    /\ since' = NoRun /\ got' = << >>
    /\ UNCHANGED <<now, nextRun, cache>>

Next == Time \/ Start \/ Store \/ \E f \in Sources : Answer(f) \/ Fail(f)

Spec == Init /\ [][Next]_vars

-----------------------------------------------------------------------------
(* Whatever fails and for how long, what the strategies read of the mood   *)
(* was read at its source less than a period, a time to live and a request *)
(* ago, or is the default: a source that stays away is not remembered.     *)
MoodFresh == \A f \in Sources : latest[f] = Default \/ now - latest[f] < Period + Ttl + Timeout
=============================================================================
