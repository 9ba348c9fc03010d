----------------------------- MODULE AlertPrefs ------------------------------
(***************************************************************************)
(* The notification preferences: the row of SQLite and the copy in memory  *)
(* that decides deliveries, the route that patches them, two pages that    *)
(* edit them, and the router with the bounded store of alerts.             *)
(***************************************************************************)
EXTENDS Integers, Sequences

CONSTANTS
    Channels, Events, Pages,
    DefaultPrefs,           \* of each channel
    Services,               \* channels that have a service
    MaxSize,                \* of the alert store
    MaxEdits, MaxAlerts     \* bounds

VARIABLES
    row,        \* notification_prefs, or NoRow
    cache,
    shown,      \* of each page: its copy of the preferences
    edits,
    buffer, nextId, delivered

prefsVars == <<row, cache, shown, edits, buffer, nextId, delivered>>

Severities == {"info", "critical"}
rank == [info |-> 0, critical |-> 2]
Overrides == {"always", "never", "default"}
NoRow == << >>

(* { ...under, ...f }                                                      *)
over(f, under) ==
    [x \in (DOMAIN f) \union DOMAIN under |-> IF x \in DOMAIN f THEN f[x] ELSE under[x]]
only(x, v) == [y \in {x} |-> v]

(* Stored preferences laid over the defaults, whose overrides are empty.   *)
mergeWithDefaults(stored) ==
    [c \in Channels |->
        IF c \notin DOMAIN stored THEN DefaultPrefs[c]
        ELSE [stored[c] EXCEPT !.overrides = over(stored[c].overrides, DefaultPrefs[c].overrides)]]
load == IF row = NoRow THEN DefaultPrefs ELSE mergeWithDefaults(row)

kept(overrides) == [e \in {x \in DOMAIN overrides : overrides[x] # "default"} |-> overrides[e]]

(* What a patch says of a channel; an override it leaves out stays.        *)
deepMergeChannels_Defaults(current, partial) ==             \* mutant
    [c \in Channels |-> IF c \in DOMAIN partial THEN partial[c] ELSE DefaultPrefs[c]]
deepMergeChannels(current, partial) ==
    [c \in Channels |->
        IF c \notin DOMAIN partial THEN current[c]
        ELSE [partial[c] EXCEPT !.overrides = kept(over(partial[c].overrides, current[c].overrides))]]

cached_Stale(prefs) == cache                                \* mutant
cached(prefs) == prefs

patch(partial) ==
    LET merged == mergeWithDefaults(deepMergeChannels(load, partial))
    IN  row' = merged /\ cache' = cached(merged)

-----------------------------------------------------------------------------
Init ==
    /\ row = NoRow /\ cache = DefaultPrefs
    /\ shown = [p \in Pages |-> DefaultPrefs]
    /\ edits = 0
    /\ buffer = << >> /\ nextId = 1 /\ delivered = {}

alerts == <<buffer, nextId, delivered>>
edited == edits < MaxEdits /\ edits' = edits + 1

Load(p) ==
    /\ shown' = [shown EXCEPT ![p] = cache]
    /\ UNCHANGED <<row, cache, edits, alerts>>

Edit(p, c) ==
    /\ edited
    /\ \/ \E on \in BOOLEAN : shown' = [shown EXCEPT ![p][c].enabled = on]
       \/ \E s \in Severities : shown' = [shown EXCEPT ![p][c].minSeverity = s]
    /\ UNCHANGED <<row, cache, alerts>>

(* The page takes an override set to `default' out of its copy.            *)
EditOverride(p, c, e, v) ==
    /\ edited
    /\ shown' = [shown EXCEPT ![p][c].overrides = kept(over(only(e, v), @))]
    /\ UNCHANGED <<row, cache, alerts>>

(* The page shows what the route answers, unless the answer is lost.       *)
save(p, partial, answered) ==
    /\ patch(partial)
    /\ shown' = IF answered THEN [shown EXCEPT ![p] = row'] ELSE shown
    /\ UNCHANGED <<edits, alerts>>
SaveChannel(p, c, answered) == save(p, only(c, shown[p][c]), answered)
SaveAll(p, answered) == save(p, shown[p], answered)

(* Another client may ask for the default, which a page never sends.       *)
PatchDefault(c, e) ==
    /\ patch(only(c, [cache[c] EXCEPT !.overrides = only(e, "default")]))
    /\ UNCHANGED <<shown, edits, alerts>>

Crash ==
    /\ cache' = load
    /\ buffer' = << >> /\ nextId' = 1 /\ delivered' = {}
    /\ UNCHANGED <<row, shown, edits>>

shouldDeliver(c, e, s) ==
    /\ cache[c].enabled
    /\ LET override == IF e \in DOMAIN cache[c].overrides THEN cache[c].overrides[e] ELSE "default"
       IN  \/ override = "always"
           \/ override # "never" /\ rank[s] >= rank[cache[c].minSeverity]

(* Every alert is kept for the page, the oldest dropped.                   *)
Route(e, s) ==
    /\ nextId <= MaxAlerts
    /\ LET all == Append(buffer, [id |-> nextId, event |-> e, level |-> s])
       IN  buffer' = IF Len(all) > MaxSize THEN Tail(all) ELSE all
    /\ nextId' = nextId + 1
    /\ delivered' = delivered \union {<<nextId, c>> : c \in {x \in Services : shouldDeliver(x, e, s)}}
    /\ UNCHANGED <<row, cache, shown, edits>>

Next ==
    \/ Crash
    \/ \E p \in Pages : Load(p) \/ \E answered \in BOOLEAN : SaveAll(p, answered)
    \/ \E p \in Pages, c \in Channels :
           \/ Edit(p, c)
           \/ \E answered \in BOOLEAN : SaveChannel(p, c, answered)
           \/ \E e \in Events, v \in Overrides : EditOverride(p, c, e, v)
    \/ \E c \in Channels, e \in Events : PatchDefault(c, e)
    \/ \E e \in Events, s \in Severities : Route(e, s)

Spec == Init /\ [][Next]_prefsVars

-----------------------------------------------------------------------------
(* What decides deliveries is what a restart would load, and a page that   *)
(* saves one channel undoes nothing another page has saved of the others.  *)
CacheIsRow == cache = load
OthersStay ==
    \A p \in Pages, c \in Channels, answered \in BOOLEAN :
        SaveChannel(p, c, answered) => \A d \in Channels \ {c} : cache'[d] = cache[d]
PrefsKept == []CacheIsRow /\ [][OthersStay]_prefsVars
=============================================================================
