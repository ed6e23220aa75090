SPECIFICATION MCSpec
CONSTANTS
  a1 = a1
  t1 = t1
  r1 = r1
  r2 = r2
  n1 = n1
  Actions = {a1}
  Targets = {t1}
  Runners = {r1, r2}
  Submissions <- LoneSubmission
  Scopes <- TwoScopes
  Summaries <- MCSummaries
  Reasons = {n1}
  Reconciliations <- MCReconciliations
  Durations = {1}
  MaxClock = 3
  MaxLag = 0
  MaxEpoch = 2
  MaxSequence = 4
  Expired = Expired
  None = None
  Jobs = {j1, j2}
  ExecutorResults = {"ok"}
  MaxStray = 1
  Roles = {"postgres", "control"}
  Releases = {1, 2, 3}
  Twin = {3}
  MaxDeploys = 2
INVARIANTS RunnerSafety ExecutorSafety ControlWorkerSafety
PROPERTIES EnteredUnderSupervision
CHECK_DEADLOCK FALSE
