----------------------------- MODULE MCKillSwitch -----------------------------
(***************************************************************************)
(* KillSwitch with limits of two, so that each counter needs two events to *)
(* trip, one of them possibly before a crash; the clock outlasts the       *)
(* window, so that a violation can expire.                                 *)
(***************************************************************************)
EXTENDS KillSwitch

MCReasons == {"losses", "drawdown", "spread", "api", "operator"}
=============================================================================
