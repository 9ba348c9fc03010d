---------------------------- MODULE EventHistory -----------------------------
(***************************************************************************)
(* What the API tells of the past: the log of signals and the journal of   *)
(* trades, which are tables, the ring of alerts, which a restart empties,  *)
(* and the time line that merges the newest of all three.                  *)
(***************************************************************************)
EXTENDS Integers, Sequences, FiniteSets, Functions

CONSTANTS
    Limits,                \* events a client asks for, positive
    MaxSize,               \* of the ring of alerts, as large as any limit
    MaxTime, MaxRows       \* bounds

VARIABLES
    time,
    trade_rows, signal_log,
    ring, nextAlert

historyVars == <<time, trade_rows, signal_log, ring, nextAlert>>

(* "blocked": by the risk engine, the cooldown, the inventory or a gate, or *)
(* the order failed.                                                       *)
Outcomes == {"blocked", "hold", "executed"}

room(rows) == Len(rows) < MaxRows

-----------------------------------------------------------------------------
Init == time = 0 /\ trade_rows = << >> /\ signal_log = << >> /\ ring = << >> /\ nextAlert = 1

Tick ==
    /\ time < MaxTime
    /\ time' = time + 1
    /\ UNCHANGED <<trade_rows, signal_log, ring, nextAlert>>

(* A signal that comes to nothing leaves one row.                          *)
Judge(outcome) ==
    /\ room(signal_log) /\ outcome # "executed"
    /\ signal_log' = Append(signal_log, [id |-> Len(signal_log) + 1, outcome |-> outcome, time |-> time])
    /\ UNCHANGED <<time, trade_rows, ring, nextAlert>>

(* An order that returns has its trade journalled if it is filled, unless  *)
(* the journal fails, and its signal logged as executed all the same.      *)
Execute(journalled) ==
    /\ room(signal_log)
    /\ trade_rows' = IF journalled THEN Append(trade_rows, [id |-> Len(trade_rows) + 1, time |-> time])
                                   ELSE trade_rows
    /\ signal_log' = Append(signal_log, [id |-> Len(signal_log) + 1, outcome |-> "executed", time |-> time])
    /\ UNCHANGED <<time, ring, nextAlert>>

Alert ==
    /\ nextAlert <= MaxRows
    /\ LET all == Append(ring, [id |-> nextAlert, time |-> time])
       IN  ring' = IF Len(all) > MaxSize THEN Tail(all) ELSE all
    /\ nextAlert' = nextAlert + 1
    /\ UNCHANGED <<time, trade_rows, signal_log>>

Restart ==
    /\ ring # << >>
    /\ ring' = << >> /\ nextAlert' = 1
    /\ UNCHANGED <<time, trade_rows, signal_log>>

Next == Tick \/ (\E o \in Outcomes : Judge(o)) \/ (\E j \in BOOLEAN : Execute(j)) \/ Alert \/ Restart

Spec == Init /\ [][Next]_historyVars

-----------------------------------------------------------------------------
(* The newest rows of a table are read, and those of interest kept; the    *)
(* alerts of interest are taken, and the newest kept.  A source gives each *)
(* row a number that is larger than those of its older rows.               *)
event(type, row) == [type |-> type, id |-> row.id, time |-> row.time]
newest(rows, n) == {r \in rows : Cardinality({s \in rows : s.id > r.id}) < n}
ofTime(rows, since) == {r \in rows : r.time >= since}

blocked(limit, since) == {r \in ofTime(newest(Range(signal_log), limit), since) : r.outcome = "blocked"}
getSince_Oldest(since, limit) ==                            \* mutant
    LET kept == ofTime(Range(ring), since) IN {r \in kept : Cardinality({s \in kept : s.id < r.id}) < limit}
getSince(since, limit) == newest(ofTime(Range(ring), since), limit)

merged(limit, since) ==
    {event("trade", r) : r \in ofTime(newest(Range(trade_rows), limit), since)}
        \union {event("signal", r) : r \in blocked(limit, since)}
        \union {event("alert", r) : r \in getSince(since, limit)}

(* The sort by time is stable: of one time, the trades come first and then *)
(* the signals, as they were merged, and of each source the newest.        *)
turn(e) == CASE e.type = "trade" -> 1 [] e.type = "signal" -> 2 [] OTHER -> 3
before(d, e) ==
    \/ d.time > e.time
    \/ d.time = e.time /\ turn(d) < turn(e)
    \/ d.time = e.time /\ turn(d) = turn(e) /\ d.id > e.id

timeline(limit, since) ==
    LET all == merged(limit, since)
        rank(e) == Cardinality({d \in all : before(d, e)})
        count == Cardinality(all)
    IN  [k \in 1..(IF count < limit THEN count ELSE limit) |-> CHOOSE e \in all : rank(e) = k - 1]

(* Although each source is cut before they are merged, and two of them     *)
(* before they are filtered, a time line leaves out a trade, an alert that *)
(* is still kept, or a signal that is among the newest logged, only for    *)
(* events that are no older, and only when it is full.  (A blocked signal  *)
(* that so many holds have followed is left out of a time line with room.) *)
TimelineComplete ==
    \A limit \in Limits, since \in 0..time :
        LET told == timeline(limit, since)
            due == {event("trade", r) : r \in Range(trade_rows)} \union {event("alert", r) : r \in Range(ring)}
                     \union {event("signal", r) :
                                r \in {s \in newest(Range(signal_log), limit) : s.outcome = "blocked"}}
        IN  \A e \in due : (e.time >= since /\ e \notin Range(told)) =>
                Len(told) = limit /\ \A i \in DOMAIN told : told[i].time >= e.time
=============================================================================
