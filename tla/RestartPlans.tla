---------------------------- MODULE RestartPlans ----------------------------
(***************************************************************************)
(* The dialogue restarting plans (rst_plan_* in agents/agent_LLM.py).  A   *)
(* plan looks at the coverage recorded after each message of the current   *)
(* dialog (`cov`) and of the whole run (`all`), and answers whether the    *)
(* dialog has become inefficient.  Their numbers are parameters here, so   *)
(* that a small instance can meet every case.                              *)
(***************************************************************************)
EXTENDS Naturals, Sequences

\* h[-k] of Python; k <= Len(h).
FromEnd(h, k) == h[Len(h) + 1 - k]

\* Fewer than epsilon bins gained over the last `period` messages.
Stagnant(cov, period, epsilon) ==
    /\ Len(cov) >= period
    /\ FromEnd(cov, 1) < FromEnd(cov, period) + epsilon

\* rst_plan_Normal_Tolerance, rst_plan_Low_Tolerance and
\* rst_plan_High_Tolerance: periods 7, 4 and 10.
rst_plan_Tolerance(cov, period, epsilon) == Stagnant(cov, period, epsilon)

\* 5 * last < bin_count is all_cov_hist[-1] < 0.2 * bin_count.
rst_plan_Coverage_RateBased_Tolerance(cov, all, bin_count, low, normal, epsilon) ==
    Stagnant(cov, IF 5 * FromEnd(all, 1) < bin_count THEN low ELSE normal, epsilon)

\* t messages without a single new bin make the plan impatient.
rst_plan_IDAvoidConverge(cov, all, t, fast, normal, epsilon) ==
    Stagnant(cov,
             IF Len(all) >= t /\ FromEnd(all, t) = FromEnd(all, 1) THEN fast ELSE normal,
             epsilon)

\* Impatient while coverage is low, too.
rst_plan_IDAdaAvoidConverge(cov, all, t, cut, fast, normal, epsilon) ==
    Stagnant(cov,
             IF /\ Len(all) >= t
                /\ FromEnd(all, 1) < cut \/ FromEnd(all, t) = FromEnd(all, 1)
             THEN fast ELSE normal,
             epsilon)
=============================================================================
