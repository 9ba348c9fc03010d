----------------------------- MODULE OrderPlacing -----------------------------
(***************************************************************************)
(* What a caller of OrderManager.placeOrder() may rely on, without the     *)
(* network, the attempts and the breaker: a call begins while trading is   *)
(* not halted or is refused, ends once, and has at most one order at the   *)
(* exchange; one that ends well has it by then.  A call that was told of   *)
(* an error may have its order all the same, and get it only afterwards.   *)
(***************************************************************************)
CONSTANTS Calls, Request

VARIABLES
    outcome,    \* [Calls -> what the caller knows of it]
    placed,     \* [Calls -> the orders it has at the exchange]
    halted      \* KillSwitch.isTriggered()

vars == <<outcome, placed, halted>>

becomes(c, from, to) ==
    /\ outcome[c] = from
    /\ outcome' = [outcome EXCEPT ![c] = to]
    /\ UNCHANGED <<placed, halted>>

Begin(c) == ~halted /\ (becomes(c, "new", "waiting") \/ becomes(c, "new", "refused"))

Create(c, m) ==
    /\ outcome[c] \in {"waiting", "failed"}
    /\ placed[c] = {}
    /\ placed' = [placed EXCEPT ![c] = {m}]
    /\ UNCHANGED <<outcome, halted>>

Return(c) == placed[c] # {} /\ becomes(c, "waiting", "done")
Throw(c) == becomes(c, "waiting", "failed")

Operator == halted' = ~halted /\ UNCHANGED <<outcome, placed>>

Init ==
    /\ outcome = [c \in Calls |-> "new"]
    /\ placed = [c \in Calls |-> {}]
    /\ halted = FALSE

Next ==
    \/ \E c \in Calls : Begin(c) \/ Return(c) \/ Throw(c) \/ \E m \in Request : Create(c, m)
    \/ Operator

Spec == Init /\ [][Next]_vars
=============================================================================
