SPECIFICATION Spec
CONSTANTS
  a1 = a1
  a2 = a2
  t1 = t1
  t2 = t2
  r1 = r1
  r2 = r2
  n1 = n1
  Actions = {a1, a2}
  Targets = {t1, t2}
  Runners = {r1, r2}
  Submissions <- ContendedSubmissions
  Scopes <- ContendedScopes
  Summaries <- MCSummaries
  Reasons = {n1}
  Reconciliations <- MCReconciliations
  Durations = {2}
  MaxClock = 4
  MaxLag = 1
  MaxEpoch = 1
  MaxSequence = 1
  Expired = Expired
  None = None
INVARIANTS TargetExclusive WithinConcurrency AckedResultKept
PROPERTIES CleanupFirst ImplementsExclusiveRun
CHECK_DEADLOCK FALSE
