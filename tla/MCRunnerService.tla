--------------------------- MODULE MCRunnerService ---------------------------
(* Parts that share nothing, each by itself: one write that two runners take in turn; two jobs of
   the isolated executor one after the other; a control worker under its supervisor; and what a
   control worker is given while files are replaced. *)
EXTENDS RunnerService, IsolatedExecutor, WorkerSupervisor, WorkerBootstrap

CONSTANTS a1, t1, r1, r2, n1

Sub(id, key, expires) ==
  [id |-> id, key |-> key, semantics |-> "s", target |-> t1, pool |-> "WRITE",
   production |-> FALSE, zone |-> "z", expires |-> expires]

LoneSubmission == {Sub(a1, "k1", 3)}
TwoScopes == {[runner |-> r, pool |-> "WRITE", max |-> 1, zones |-> {"z"}] : r \in {r1, r2}}

MCSummaries ==
  {[outcome |-> "SUCCEEDED", code |-> "x"], [outcome |-> "UNCERTAIN", code |-> "x"]}
MCReconciliations == {[id |-> "c1", actor |-> "o", verdict |-> "FAILED", digest |-> "d"]}

VARIABLE half
processVars == <<executorVars, supervisorVars, bootstrapVars>>
allVars == <<half, runnerVars, processVars>>

MCInit ==
  /\ half \in {"runner", "executor", "supervisor", "bootstrap"}
  /\ RunnerInit /\ ExecutorInit /\ SupervisorInit /\ BootstrapInit

MCNext ==
  /\ UNCHANGED half
  /\ \/ half = "runner" /\ RunnerServiceNext /\ UNCHANGED processVars
     \/ half = "executor" /\ ExecutorNext /\ UNCHANGED <<runnerVars, supervisorVars, bootstrapVars>>
     \/ half = "supervisor" /\ SupervisorNext /\ UNCHANGED <<runnerVars, executorVars, bootstrapVars>>
     \/ half = "bootstrap" /\ BootstrapNext /\ UNCHANGED <<runnerVars, executorVars, supervisorVars>>

MCSpec == MCInit /\ [][MCNext]_allVars

\* A control worker is started with one deployment's secrets, and stops without a
\* trace (workerprocess, workerbootstrap).
ControlWorkerSafety == SupervisorSafety /\ BootstrapSafety
=============================================================================
