---------------------------- MODULE TaskRunClaims ----------------------------
(***************************************************************************)
(* What the README, comments and API documentation say of a TaskRun where  *)
(* the code does something else.  Each is violated by a run of its own.    *)
(***************************************************************************)
EXTENDS TaskRunController

\* README: a reconcile skips a TaskRun that is already terminal.  So nothing is
\* executed for a TaskRun whose stored phase is Succeeded.
SkipsTerminal == [][Stored.phase = "Succeeded" => started' = started]_vars

\* ensureParamsConfigMap "creates or updates" the ConfigMap: with no failing
\* call it cannot be the reason a TaskRun fails.
ParamsEnsured == faults = 0 => Stored.reason # "ParamsConfigMapFailed"

\* AllStepsSucceeded: every step completed, also when definitions are edited
\* while the TaskRun runs.
AllStepsRan == Stored.reason = "AllStepsSucceeded" => done = Index

\* The params ConfigMap is written before the Job, or the CronJob if scheduled.
CronJobHasParams == cron => cmLog # <<>>
=============================================================================
