SPECIFICATION FairSpec
CONSTANTS
  Actions = {a1}
  Targets = {t1}
  Runners = {r1}
  Submissions <- OneWrite
  Scopes <- OneSlot
  Summaries <- OneSuccess
  Reasons = {n1}
  Reconciliations <- OneVerdict
  Durations = {3}
  MaxSequence = 1
  Expired = Expired
  Ids = {i1}
  Workers = {w1}
  Subjects = {}
  Admins = {}
  Evidence = {}
  Lifetimes = {3}
  CredentialTTL = 3
  Reserve = 1
  CreateBudget = 1
  RemoteTimeout = 1
  PrepareWindow = 1
  PostWindow = 1
  Quantum = 1
  MinTTL = 1
  PreparedGrace = 1
  AnchorGrace = 1
  ClaimLease = 2
  RetryDelays = {1}
  MaxAttempts = 1
  MaxElapsed = 2
  MaxClaims = 1
  MaxEpoch = 2
  MaxTickets = 1
  MaxClock = 9
  MaxLag = 0
  None = None
INVARIANTS LiveChildHoldsTarget
PROPERTIES ContractsHold TargetComesBack
CHECK_DEADLOCK FALSE
