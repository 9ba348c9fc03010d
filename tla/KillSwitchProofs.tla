--------------------------- MODULE KillSwitchProofs ---------------------------
(***************************************************************************)
(* For every limit, window, set of reasons and bound: the kill switch's    *)
(* row is its state, reached limits have tripped it, and a halt lasts      *)
(* until a reset, across any number of crashes.                            *)
(*                                                                         *)
(* LimitsTrip is not inductive by itself: it speaks of what the process    *)
(* (or the row) says, and needs RowIsState to pass from one to the other   *)
(* at a crash, and finite arrays for the count to be monotone when the     *)
(* clock moves.                                                            *)
(***************************************************************************)
EXTENDS KillSwitch, FiniteSetTheorems, TLAPS

RowFinite == IsFiniteSet(row.spreadViolations)

RowTripped ==
    /\ MaxConsecutiveLosses > 0 /\ row.consecutiveLosses >= MaxConsecutiveLosses
         => row.triggered
    /\ SpreadLimit > 0 /\ Cardinality(Recent(row.spreadViolations)) >= SpreadLimit
         => row.triggered

IInv == TypeOK /\ RowIsState /\ RowFinite /\ RowTripped

LEMMA InitialIsState == Initial \in State
  BY DEF Initial, State

(* What each operation computes is a state again. *)
LEMMA TriggeredType ==
    ASSUME NEW s \in State, NEW r \in Reasons
    PROVE  /\ Triggered(s, r) \in State
           /\ Triggered(s, r).triggered
           /\ Triggered(s, r).consecutiveLosses = s.consecutiveLosses
           /\ Triggered(s, r).spreadViolations = s.spreadViolations
           /\ s.triggered => Triggered(s, r) = s
  BY DEF Triggered, State

LEMMA AfterTradeType ==
    ASSUME NEW s \in State, NEW profitable \in BOOLEAN
    PROVE  /\ AfterTrade(s, profitable) \in State
           /\ AfterTrade(s, profitable).spreadViolations = s.spreadViolations
           /\ s.triggered => /\ AfterTrade(s, profitable).triggered
                             /\ AfterTrade(s, profitable).reason = s.reason
           /\ MaxConsecutiveLosses > 0
                /\ AfterTrade(s, profitable).consecutiveLosses >= MaxConsecutiveLosses
                => AfterTrade(s, profitable).triggered
<1> DEFINE losses == LossesAfter(s.consecutiveLosses, profitable)
           counted == [s EXCEPT !.consecutiveLosses = losses]
<1>1. /\ losses \in Nat
      /\ counted \in State
      /\ counted.consecutiveLosses = losses
      /\ counted.spreadViolations = s.spreadViolations
      /\ counted.triggered = s.triggered
      /\ counted.reason = s.reason
  BY DEF State, LossesAfter
<1>2. /\ Triggered(counted, "losses") \in State
      /\ Triggered(counted, "losses").triggered
      /\ Triggered(counted, "losses").spreadViolations = s.spreadViolations
      /\ counted.triggered => Triggered(counted, "losses") = counted
  <2> "losses" \in Reasons
    BY KSAssumption
  <2> HIDE DEF counted
  <2> QED
    BY <1>1, TriggeredType
<1>3. AfterTrade(s, profitable) =
        IF ~profitable /\ LossesTrip(losses)
        THEN Triggered(counted, "losses") ELSE counted
  BY DEF AfterTrade
<1>4. CASE ~profitable /\ LossesTrip(losses)
  BY <1>1, <1>2, <1>3, <1>4
<1>5. CASE ~(~profitable /\ LossesTrip(losses))
  <2>1. AfterTrade(s, profitable) = counted
    BY <1>3, <1>5
  <2>2. ~(MaxConsecutiveLosses > 0 /\ losses >= MaxConsecutiveLosses)
    BY <1>5, KSAssumption DEF LossesTrip, LossesAfter
  <2> QED
    BY <1>1, <2>1, <2>2
<1> QED
  BY <1>4, <1>5

(* Only violations within the window survive, and a window that is full    *)
(* has tripped the switch.                                                 *)
LEMMA AfterSpreadType ==
    ASSUME NEW s \in State, IsFiniteSet(s.spreadViolations), now \in Nat
    PROVE  /\ AfterSpreadViolation(s) \in State
           /\ IsFiniteSet(AfterSpreadViolation(s).spreadViolations)
           /\ AfterSpreadViolation(s).consecutiveLosses = s.consecutiveLosses
           /\ s.triggered => /\ AfterSpreadViolation(s).triggered
                             /\ AfterSpreadViolation(s).reason = s.reason
           /\ Cardinality(Recent(AfterSpreadViolation(s).spreadViolations)) >= SpreadLimit
                => AfterSpreadViolation(s).triggered
<1> DEFINE sameTick == {v \in s.spreadViolations : v.at = now}
           pushed == s.spreadViolations
                        \union {[at |-> now, n |-> Cardinality(sameTick)]}
           counted == [s EXCEPT !.spreadViolations = Recent(pushed)]
<1>1. IsFiniteSet(sameTick) /\ Cardinality(sameTick) \in Nat
  BY FS_Subset, FS_CardinalityType
<1>2. pushed \in SUBSET Violation /\ IsFiniteSet(pushed)
  <2>1. [at |-> now, n |-> Cardinality(sameTick)] \in Violation
    BY <1>1 DEF Violation
  <2>2. IsFiniteSet(pushed)
    BY FS_AddElement
  <2> QED
    BY <2>1, <2>2 DEF State
<1>3. /\ Recent(pushed) \in SUBSET Violation
      /\ IsFiniteSet(Recent(pushed))
      /\ Recent(Recent(pushed)) = Recent(pushed)
  <2>1. Recent(pushed) \subseteq pushed
    BY DEF Recent
  <2>2. IsFiniteSet(Recent(pushed))
    BY <1>2, <2>1, FS_Subset
  <2>3. Recent(Recent(pushed)) = Recent(pushed)
    BY DEF Recent
  <2> QED
    BY <1>2, <2>1, <2>2, <2>3
<1>4. /\ counted \in State
      /\ counted.spreadViolations = Recent(pushed)
      /\ counted.consecutiveLosses = s.consecutiveLosses
      /\ counted.triggered = s.triggered
      /\ counted.reason = s.reason
  BY <1>3 DEF State
<1>5. /\ Triggered(counted, "spread") \in State
      /\ Triggered(counted, "spread").triggered
      /\ Triggered(counted, "spread").spreadViolations = Recent(pushed)
      /\ Triggered(counted, "spread").consecutiveLosses = s.consecutiveLosses
      /\ counted.triggered => Triggered(counted, "spread") = counted
  <2> "spread" \in Reasons
    BY KSAssumption
  <2> HIDE DEF counted
  <2> QED
    BY <1>4, TriggeredType
<1>6. AfterSpreadViolation(s) =
        IF Cardinality(Recent(pushed)) >= SpreadLimit
        THEN Triggered(counted, "spread") ELSE counted
  BY DEF AfterSpreadViolation
<1>7. CASE Cardinality(Recent(pushed)) >= SpreadLimit
  BY <1>3, <1>4, <1>5, <1>6, <1>7
<1>8. CASE ~(Cardinality(Recent(pushed)) >= SpreadLimit)
  <2>1. AfterSpreadViolation(s) = counted
    BY <1>6, <1>8
  <2>2. ~(Cardinality(Recent(counted.spreadViolations)) >= SpreadLimit)
    BY <1>3, <1>4, <1>8
  <2> QED
    BY <1>3, <1>4, <2>1, <2>2
<1> QED
  BY <1>7, <1>8

LEMMA InitIInv == Init => IInv
<1> SUFFICES ASSUME Init PROVE IInv
  OBVIOUS
<1>1. TypeOK /\ RowIsState
  BY InitialIsState DEF Init, TypeOK, RowIsState
<1>2. row.spreadViolations = {} /\ row.consecutiveLosses = 0
  BY DEF Init, Initial
<1>3. RowFinite
  BY <1>2, FS_EmptySet DEF RowFinite
<1>4. Recent(row.spreadViolations) = {}
  BY <1>2 DEF Recent
<1>5. RowTripped
  BY <1>2, <1>4, FS_EmptySet, KSAssumption DEF RowTripped
<1> QED
  BY <1>1, <1>3, <1>5 DEF IInv

(* The part of the invariant an operation of the running process disturbs. *)
LEMMA PersistedIInv ==
    ASSUME IInv, up, UNCHANGED <<up, now>>, NEW s \in State, Persisted(s),
           IsFiniteSet(s.spreadViolations),
           MaxConsecutiveLosses > 0 /\ s.consecutiveLosses >= MaxConsecutiveLosses
             => s.triggered,
           SpreadLimit > 0 /\ Cardinality(Recent(s.spreadViolations)) >= SpreadLimit
             => s.triggered
    PROVE  IInv'
<1>1. TypeOK' /\ RowIsState' /\ RowFinite'
  BY DEF IInv, TypeOK, RowIsState, RowFinite, Persisted
<1>2. Recent(row.spreadViolations)' = Recent(s.spreadViolations)
  BY DEF Recent, Persisted
<1>3. RowTripped'
  BY <1>2 DEF RowTripped, Persisted
<1> QED
  BY <1>1, <1>3 DEF IInv

LEMMA NextIInv == IInv /\ [Next]_vars => IInv'
<1> SUFFICES ASSUME IInv, [Next]_vars PROVE IInv'
  OBVIOUS
<1> USE KSAssumption
<1>0. /\ state \in State /\ row \in State /\ up \in BOOLEAN /\ now \in Nat
      /\ up => row = state
      /\ IsFiniteSet(row.spreadViolations)
      /\ RowTripped
  BY DEF IInv, TypeOK, RowIsState, RowFinite
<1>1. ASSUME NEW r \in Reasons, trigger(r) PROVE IInv'
  <2>1. CASE state.triggered
    <3>1. UNCHANGED vars
      BY <1>1, <2>1 DEF trigger, vars
    <3> QED
      BY <3>1 DEF vars, IInv, TypeOK, RowIsState, RowFinite, RowTripped, Recent
  <2>2. CASE ~state.triggered
    BY <1>0, <1>1, <2>2, TriggeredType, PersistedIInv DEF trigger
  <2> QED
    BY <2>1, <2>2
<1>2. CASE reset
  <2>1. Initial.spreadViolations = {} /\ Initial.consecutiveLosses = 0
    BY DEF Initial
  <2>2. Recent(Initial.spreadViolations) = {}
    BY <2>1 DEF Recent
  <2>3. IsFiniteSet({}) /\ Cardinality({}) = 0
    BY FS_EmptySet
  <2> QED
    BY <1>0, <1>2, <2>1, <2>2, <2>3, InitialIsState, PersistedIInv DEF reset
<1>3. ASSUME NEW profitable \in BOOLEAN, recordTradeResult(profitable) PROVE IInv'
  <2> DEFINE s == AfterTrade(state, profitable)
  <2>1. up /\ Persisted(s) /\ UNCHANGED <<up, now>>
    BY <1>3 DEF recordTradeResult
  <2>2. s \in State /\ s.spreadViolations = state.spreadViolations
    BY <1>0, AfterTradeType
  <2>3. MaxConsecutiveLosses > 0 /\ s.consecutiveLosses >= MaxConsecutiveLosses
          => s.triggered
    BY <1>0, AfterTradeType
  <2>4. state.triggered => s.triggered
    BY <1>0, AfterTradeType
  <2>5. SpreadLimit > 0 /\ Cardinality(Recent(s.spreadViolations)) >= SpreadLimit
          => s.triggered
    BY <1>0, <2>1, <2>2, <2>4 DEF RowTripped
  <2>6. IsFiniteSet(s.spreadViolations)
    BY <1>0, <2>1, <2>2
  <2> HIDE DEF s
  <2> QED
    BY <2>1, <2>2, <2>3, <2>5, <2>6, PersistedIInv
<1>4. ASSUME NEW breached \in BOOLEAN, checkDrawdown(breached) \/ checkApiErrors(breached)
      PROVE  IInv'
  BY <1>1, <1>4 DEF checkDrawdown, checkApiErrors
<1>5. CASE recordSpreadViolation
  <2> DEFINE s == AfterSpreadViolation(state)
  <2>1. up /\ Persisted(s) /\ UNCHANGED <<up, now>>
    BY <1>5 DEF recordSpreadViolation
  <2>2. /\ s \in State
        /\ IsFiniteSet(s.spreadViolations)
        /\ s.consecutiveLosses = state.consecutiveLosses
        /\ state.triggered => s.triggered
        /\ Cardinality(Recent(s.spreadViolations)) >= SpreadLimit => s.triggered
    BY <1>0, <2>1, AfterSpreadType
  <2>3. MaxConsecutiveLosses > 0 /\ s.consecutiveLosses >= MaxConsecutiveLosses
          => s.triggered
    BY <1>0, <2>1, <2>2 DEF RowTripped
  <2> HIDE DEF s
  <2> QED
    BY <2>1, <2>2, <2>3, PersistedIInv
<1>6. CASE Crash
  BY <1>0, <1>6, InitialIsState
  DEF Crash, IInv, TypeOK, RowIsState, RowFinite, RowTripped, Recent
<1>7. CASE Restart
  BY <1>0, <1>7 DEF Restart, Hydrated, IInv, TypeOK, RowIsState, RowFinite, RowTripped, Recent
<1>8. CASE Tick
  <2>1. now' = now + 1 /\ UNCHANGED <<state, row, up>>
    BY <1>8 DEF Tick
  <2>2. row.spreadViolations \in SUBSET Violation
    BY <1>0 DEF State
  <2>3. Recent(row.spreadViolations)' \subseteq Recent(row.spreadViolations)
    BY <1>0, <2>1, <2>2 DEF Recent, Violation
  <2>4. IsFiniteSet(Recent(row.spreadViolations))
    BY <1>0, FS_Subset DEF Recent
  <2>5. /\ Cardinality(Recent(row.spreadViolations)') \in Nat
        /\ Cardinality(Recent(row.spreadViolations)) \in Nat
        /\ Cardinality(Recent(row.spreadViolations)')
             <= Cardinality(Recent(row.spreadViolations))
    BY <2>3, <2>4, FS_Subset, FS_CardinalityType
  <2>6. RowTripped'
    BY <1>0, <2>1, <2>5 DEF RowTripped
  <2> QED
    BY <1>0, <2>1, <2>6 DEF IInv, TypeOK, RowIsState, RowFinite
<1>9. CASE UNCHANGED vars
  BY <1>9 DEF vars, IInv, TypeOK, RowIsState, RowFinite, RowTripped, Recent
<1> QED
  BY <1>1, <1>2, <1>3, <1>4, <1>5, <1>6, <1>7, <1>8, <1>9 DEF Next

LEMMA SpecIInv == Spec => []IInv
  BY InitIInv, NextIInv, PTL DEF Spec

(* Type correctness of the kill switch. *)
THEOREM KillSwitchTypeOK == Spec => []TypeOK
<1>1. IInv => TypeOK
  BY DEF IInv
<1> QED
  BY <1>1, SpecIInv, PTL

(* The table row and the memory of a running process never differ. *)
THEOREM KillSwitchPersisted == Spec => []RowIsState
<1>1. IInv => RowIsState
  BY DEF IInv
<1> QED
  BY <1>1, SpecIInv, PTL

(* No run of losses or of spread violations that reaches its limit leaves  *)
(* the switch off, before or after a crash.                                *)
THEOREM KillSwitchTrips == Spec => []LimitsTrip
<1>1. IInv => LimitsTrip
  BY DEF IInv, RowTripped, LimitsTrip, RowIsState, Halted
<1> QED
  BY <1>1, SpecIInv, PTL

(* A halt, with its first reason, lasts until reset(). *)
THEOREM HaltIsDurable == Spec => HaltUntilReset
<1>1. IInv /\ [Next]_vars => [Halted /\ ~reset => Halted' /\ Cause' = Cause]_vars
  <2> SUFFICES ASSUME IInv, Next, Halted, ~reset
               PROVE  Halted' /\ Cause' = Cause
    BY DEF vars
  <2> USE KSAssumption DEF Halted, Cause
  <2>0. /\ state \in State /\ row \in State /\ up \in BOOLEAN /\ now \in Nat
        /\ up => row = state
        /\ IsFiniteSet(row.spreadViolations)
    BY DEF IInv, TypeOK, RowIsState, RowFinite
  <2>1. ASSUME NEW r \in Reasons, trigger(r) PROVE Halted' /\ Cause' = Cause
    BY <2>0, <2>1 DEF trigger
  <2>2. ASSUME NEW profitable \in BOOLEAN, recordTradeResult(profitable)
        PROVE  Halted' /\ Cause' = Cause
    BY <2>0, <2>2, AfterTradeType DEF recordTradeResult, Persisted
  <2>3. ASSUME NEW breached \in BOOLEAN,
               checkDrawdown(breached) \/ checkApiErrors(breached)
        PROVE  Halted' /\ Cause' = Cause
    BY <2>1, <2>3 DEF checkDrawdown, checkApiErrors
  <2>4. CASE recordSpreadViolation
    BY <2>0, <2>4, AfterSpreadType DEF recordSpreadViolation, Persisted
  <2>5. CASE Crash
    BY <2>0, <2>5 DEF Crash
  <2>6. CASE Restart
    BY <2>0, <2>6 DEF Restart, Hydrated
  <2>7. CASE Tick
    BY <2>7 DEF Tick
  <2> QED
    BY <2>1, <2>2, <2>3, <2>4, <2>5, <2>6, <2>7 DEF Next
<1> QED
  BY <1>1, SpecIInv, PTL DEF Spec, HaltUntilReset
=============================================================================
