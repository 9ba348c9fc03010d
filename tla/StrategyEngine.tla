---------------------------- MODULE StrategyEngine ----------------------------
(***************************************************************************)
(* The strategy engine around its pipeline: the configuration under        *)
(* governance with its change log, and the decisions of the cycles.  A     *)
(* cycle runs on one of a few cases of TradePlanning's conditions.         *)
(* A flag is a setting that is 0 or 1, a stage its place in STAGE_ORDER.   *)
(***************************************************************************)
EXTENDS Integers, Sequences, FiniteSetsExt

CONSTANTS
    Cases,                 \* bound: the conditions cycles run under
    Cap, Keep,             \* decisions held at most (200), kept when trimmed (100)
    MaxPosition, FeeRate,
    MaxCycles, MaxChanges  \* bounds: cycles, entries of the change log

VARIABLES config, changeLog, recentDecisions, cycleCount

vars == <<config, changeLog, recentDecisions, cycleCount>>

Pipeline == INSTANCE TradePlanning WITH conditions <- cycleCount, Troubles <- 0

STAGE_ORDER == <<"shadow", "paper", "small_live", "full_live">>
Features == {"alpha_ensemble", "edge_scorer", "risk_overlay", "trade_construction"}
Settings == Features \union {"stage", "version", "minEdgeBps"}

Initially == [s \in Settings |-> CASE s \in Features -> 1 [] s = "stage" -> 2 [] s = "minEdgeBps" -> 30 [] OTHER -> 0]

enabled(f) == config[f] = 1

-----------------------------------------------------------------------------
(* A cycle's decision.                                                     *)
forecast(c) ==
    IF enabled("edge_scorer") THEN Pipeline!score(c)
    ELSE [edge |-> 0, exceedsCosts |-> FALSE, calibration |-> 0]

overlayMode(c) == IF enabled("risk_overlay") THEN Pipeline!mode(c) ELSE "normal"

planned(c, direction) ==
    /\ enabled("trade_construction")
    /\ overlayMode(c) \in {"normal", "reduced"} /\ direction # 0
    /\ forecast(c).calibration > 30 => forecast(c).exceedsCosts /\ forecast(c).edge >= 5

decide(c) ==
    LET direction == IF enabled("alpha_ensemble") THEN c.direction ELSE 0
        f == forecast([c EXCEPT !.direction = direction])
        outcome ==
            IF STAGE_ORDER[config.stage] = "shadow" \/ direction = 0 THEN "skipped"
            ELSE IF ~f.exceedsCosts /\ f.calibration > 50 THEN "blocked"
            ELSE IF ~planned(c, direction) THEN "blocked"
            ELSE IF STAGE_ORDER[config.stage] = "paper" THEN "deferred"
            ELSE "executed"
    IN  [id |-> cycleCount + 1, outcome |-> outcome,
         action |-> IF planned(c, direction) THEN direction ELSE 0, under |-> c]

trimmed_FromFront(s) == IF Len(s) > Cap THEN SubSeq(s, 1, Keep) ELSE s          \* mutant
trimmed(s) == IF Len(s) > Cap THEN SubSeq(s, Len(s) - Keep + 1, Len(s)) ELSE s

(* recordExecution and recordRealized have no caller and are left out.     *)
RunCycle(c) ==
    /\ cycleCount < MaxCycles
    /\ cycleCount' = cycleCount + 1
    /\ recentDecisions' = trimmed(Append(recentDecisions, decide(c)))
    /\ UNCHANGED <<config, changeLog>>

-----------------------------------------------------------------------------
(* Governance.                                                             *)
entry_Assigned(s, v) == [setting |-> s, from |-> v, to |-> v]     \* mutant
entry(s, v) == [setting |-> s, from |-> config[s], to |-> v]

change(s, v) ==
    /\ Len(changeLog) < MaxChanges
    /\ config[s] # v
    /\ config' = [config EXCEPT ![s] = v]
    /\ changeLog' = Append(changeLog, entry(s, v))
    /\ UNCHANGED <<recentDecisions, cycleCount>>

UpdateParameter == \E v \in {5, 30} : change("minEdgeBps", v)
ToggleFeature == \E f \in Features : \E v \in 0..1 : change(f, v)
PromoteStage == config.stage < Len(STAGE_ORDER) /\ change("stage", config.stage + 1)
DemoteStage == config.stage > 1 /\ change("stage", config.stage - 1)
BumpVersion == change("version", config.version + 1)

Init == config = Initially /\ changeLog = << >> /\ recentDecisions = << >> /\ cycleCount = 0

Next ==
    \/ \E c \in Cases : RunCycle(c)
    \/ UpdateParameter \/ ToggleFeature \/ PromoteStage \/ DemoteStage \/ BumpVersion

Spec == Init /\ [][Next]_vars

-----------------------------------------------------------------------------
(* A setting as it was after n changes: what its next change began with,   *)
(* or, if it has none, what is in force.                                   *)
valueAfter(n, s) ==
    LET later == {i \in (n + 1)..Len(changeLog) : changeLog[i].setting = s}
    IN  IF later = {} THEN config[s] ELSE changeLog[Min(later)].from

(* The audit trail is complete: undone from its end, it leads from the     *)
(* configuration in force back to the first one (governance.ts:93, "with   *)
(* full audit trail").                                                     *)
LogReplays ==
    \A s \in Settings :
        /\ valueAfter(0, s) = Initially[s]
        /\ \A n \in DOMAIN changeLog : changeLog[n].setting = s => changeLog[n].to = valueAfter(n, s)

(* However many cycles have run, the latest Keep of them are there, in     *)
(* their order: what the dashboard shows has no gap.                       *)
LatestDecisionsKept ==
    LET n == Len(recentDecisions)
    IN  /\ n >= Min({Keep, cycleCount}) /\ n <= Cap
        /\ \A i \in 1..n : recentDecisions[i].id = cycleCount - n + i

(* Both: what was decided, and under which configuration, can be told.     *)
HistoryComplete == LogReplays /\ LatestDecisionsKept
=============================================================================
