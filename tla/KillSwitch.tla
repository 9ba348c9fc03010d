------------------------------- MODULE KillSwitch -------------------------------
(***************************************************************************)
(* src/src/execution/killSwitch.ts: the switch that halts all trading, its *)
(* counters, and its row in SQLite.  Every operation is synchronous, so it *)
(* is one action; persistFn is installed at start-up (index.ts) and        *)
(* writes the whole state, so `row' is the table kill_switch.              *)
(*                                                                         *)
(* A crash loses the memory (`state') and keeps the row; Restart is init().*)
(***************************************************************************)
EXTENDS Naturals, FiniteSets

CONSTANTS
    MaxConsecutiveLosses,   \* config.maxConsecutiveLosses
    SpreadLimit,            \* config.spreadViolationsLimit
    SpreadWindow,           \* config.spreadViolationsWindowMin, in clock ticks
    Reasons,                \* why an operator or a check calls trigger
    MaxTime,                \* bound: the clock stops here
    LossBound,              \* bound: losses counted since the last profit
    ViolationBound          \* bound: spread violations kept in the array

ASSUME KSAssumption ==
    /\ MaxConsecutiveLosses \in Nat
    /\ SpreadLimit \in Nat
    /\ SpreadWindow \in Nat
    /\ {MaxTime, LossBound, ViolationBound} \subseteq Nat
    /\ "none" \notin Reasons
    /\ {"losses", "drawdown", "spread", "api"} \subseteq Reasons

VARIABLES
    state,      \* KillSwitch.state; meaningless while the process is down
    row,        \* the row of table kill_switch
    up,         \* is the process running?
    now         \* Date.now()

vars == <<state, row, up, now>>

(* spreadViolations is an array of time stamps; two in the same tick are   *)
(* told apart by a number, so that the array is a set here.                *)
Violation == [at : Nat, n : Nat]

State == [triggered : BOOLEAN, reason : Reasons \union {"none"},
          consecutiveLosses : Nat, spreadViolations : SUBSET Violation]

Initial == [triggered |-> FALSE, reason |-> "none",
            consecutiveLosses |-> 0, spreadViolations |-> {}]

isTriggered == state.triggered

-----------------------------------------------------------------------------
(* trigger(): a no-op when already triggered, so the first reason stays.   *)
Triggered(s, r) ==
    IF s.triggered THEN s ELSE [s EXCEPT !.triggered = TRUE, !.reason = r]

(* Every public operation ends with emit_persist(), trigger() only when it *)
(* changes the state: in both cases the row equals the state afterwards.   *)
Persisted_MemoryOnly(s) == state' = s /\ row' = row        \* mutant
Persisted(s) == state' = s /\ row' = s

trigger(r) ==
    /\ up
    /\ IF state.triggered THEN UNCHANGED <<state, row>>
                          ELSE Persisted(Triggered(state, r))
    /\ UNCHANGED <<up, now>>

reset ==
    /\ up
    /\ Persisted(Initial)
    /\ UNCHANGED <<up, now>>

LossesAfter(n, profitable) == IF profitable THEN 0 ELSE n + 1

LossesTrip_OneLate(n) == n > MaxConsecutiveLosses           \* mutant
LossesTrip(n) == n >= MaxConsecutiveLosses

AfterTrade(s, profitable) ==
    LET losses == LossesAfter(s.consecutiveLosses, profitable)
        counted == [s EXCEPT !.consecutiveLosses = losses]
    IN  IF ~profitable /\ LossesTrip(losses) THEN Triggered(counted, "losses") ELSE counted

recordTradeResult(profitable) ==
    /\ up
    /\ state.consecutiveLosses < LossBound
    /\ Persisted(AfterTrade(state, profitable))
    /\ UNCHANGED <<up, now>>

(* checkDrawdown(): `breached' is drawdownPct >= maxDrawdownPct, which the *)
(* early return for peakEquity <= 0 makes FALSE.                           *)
checkDrawdown(breached) == breached /\ trigger("drawdown")

(* checkApiErrors(): no caller in src/, part of the public interface.      *)
checkApiErrors(breached) == breached /\ trigger("api")

Recent(vs) == {v \in vs : now - v.at < SpreadWindow}

AfterSpreadViolation(s) ==
    LET sameTick == {v \in s.spreadViolations : v.at = now}
        pushed == s.spreadViolations
                     \union {[at |-> now, n |-> Cardinality(sameTick)]}
        counted == [s EXCEPT !.spreadViolations = Recent(pushed)]
    IN  IF Cardinality(Recent(pushed)) >= SpreadLimit
        THEN Triggered(counted, "spread") ELSE counted

recordSpreadViolation ==
    /\ up
    /\ Cardinality(state.spreadViolations) < ViolationBound
    /\ Persisted(AfterSpreadViolation(state))
    /\ UNCHANGED <<up, now>>

-----------------------------------------------------------------------------
Crash ==
    /\ up
    /\ up' = FALSE
    /\ state' = Initial
    /\ UNCHANGED <<row, now>>

(* The constructor's state, then init(): hydrate from the row.             *)
Hydrated_Fresh == Initial                                   \* mutant
Hydrated == row

Restart ==
    /\ ~up
    /\ up' = TRUE
    /\ state' = Hydrated
    /\ UNCHANGED <<row, now>>

Tick ==
    /\ now < MaxTime
    /\ now' = now + 1
    /\ UNCHANGED <<state, row, up>>

(* The first start inserts the row with every counter at zero.             *)
Init ==
    /\ state = Initial
    /\ row = Initial
    /\ up = TRUE
    /\ now = 0

Next ==
    \/ \E r \in Reasons : trigger(r)
    \/ reset
    \/ \E profitable \in BOOLEAN : recordTradeResult(profitable)
    \/ \E breached \in BOOLEAN : checkDrawdown(breached) \/ checkApiErrors(breached)
    \/ recordSpreadViolation
    \/ Crash
    \/ Restart
    \/ Tick

Spec == Init /\ [][Next]_vars

-----------------------------------------------------------------------------
TypeOK ==
    /\ state \in State
    /\ row \in State
    /\ up \in BOOLEAN
    /\ now \in Nat

(* The halt an operator would see: the process's own, or while it is down  *)
(* the one the next start will read.                                       *)
Halted == IF up THEN state.triggered ELSE row.triggered
Cause == IF up THEN state.reason ELSE row.reason

(* While the process runs the row is the state: an operation that forgets  *)
(* to persist would let a restart trade under older counters.              *)
RowIsState == up => row = state

(* The switch is never off with the loss counter at its limit, nor with    *)
(* SpreadLimit violations in the present window: not after a restart, and  *)
(* not after a reset either.                                               *)
LimitsTrip ==
    /\ MaxConsecutiveLosses > 0 /\ row.consecutiveLosses >= MaxConsecutiveLosses
         => Halted
    /\ SpreadLimit > 0 /\ Cardinality(Recent(row.spreadViolations)) >= SpreadLimit
         => Halted

(* "Persists state to SQLite and requires manual reset" (killSwitch.ts:15): *)
(* whatever trades, checks, crashes and restarts follow, the halt and its   *)
(* first reason last until an operator's reset.                             *)
HaltUntilReset ==
    [][Halted /\ ~reset => Halted' /\ Cause' = Cause]_vars
=============================================================================
