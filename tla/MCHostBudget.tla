----------------------------- MODULE MCHostBudget -----------------------------
(* HostBudget on small instances. *)
EXTENDS HostBudget
==============================================================================
