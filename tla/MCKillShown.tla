----------------------------- MODULE MCKillShown -----------------------------
(***************************************************************************)
(* Dashboard alone: a process started to trade, and its page.              *)
(***************************************************************************)
EXTENDS Dashboard

MCInitial == [strategyIntervalMs |-> 1, pollIntervalMs |-> 1, limit |-> 1, strategy |-> "regime",
              killSwitch |-> KillFlag]
=============================================================================
