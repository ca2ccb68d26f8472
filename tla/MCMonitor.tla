----------------------------- MODULE MCMonitor -----------------------------
(***************************************************************************)
(* Small instances of Monitor for TLC.                                     *)
(***************************************************************************)
EXTENDS Monitor

OneRepo  == [r \in Runner |-> "p"]
TwoRepos == [r \in Runner |-> IF r = "r1" THEN "p" ELSE "q"]

CheckClass ==
  {"runner_image_missing", "image_pin_divergence", "runner_scan_findings",
   "runner_scan_unknown", "runner_missing", "runner_offline", "queue_stall",
   "gate_failure", "drift_failed", "drift_overdue", "coherence_missing",
   "coherence_failure", "coherence_skipped", "coherence_overdue",
   "coherence_absent", "coherence_unconfigured"}

AllKeys     == Repo \X CheckClass \X (Runner \cup RunId \cup CheckName \cup {"?"})
RunnerKeys  == Repo \X {"runner_missing", "runner_offline"} \X Runner

MainBranch  == <<"main">>
BothBranches == <<"default", "main">>
DefaultOnly == <<"default">>

Scan(u, s) == [usable |-> u, states |-> s]
Fine     == {Healthy}
Troubled ==
  {Healthy,
   [image |-> FALSE, pin |-> FALSE, scan |-> Scan(TRUE, {"findings", "unscannable"})],
   [image |-> TRUE, pin |-> TRUE, scan |-> Scan(FALSE, {})]}

\* `logged' is only read by HeartbeatAloneDetects.
WithoutLogged == <<issues, cache, last, job, reg, loopVars>>
=============================================================================
