----------------------------- MODULE MCAgentLogs -----------------------------
(***************************************************************************)
(* A small instance of a trial with its logs: the tolerance plan with a    *)
(* short period.                                                           *)
(***************************************************************************)
EXTENDS AgentLogs

Tolerant(cov, all) == rst_plan_Tolerance(cov, 2, 1)
=============================================================================
