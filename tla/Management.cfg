CONSTANTS
  None = None
  Operators = {o1, o2}
  Readers = {r1}
  Assets = {1, 2}
  Begins = {"absent", "found", "disputed", "bound"}
  ApiKeys = {k1, k2}
  Names = {1, 2}
  Roles = {"ADMIN", "SERVICE_OWNER"}
  Resolutions = {"CONFIRM_EXACT", "REJECT_CANDIDATE", "KEEP_UNRESOLVED", "QUARANTINE_ASSET"}
  MaxRequests = 2
  MaxDrifts = 1
  Managers = {o1, o2}
  AskKeys = {k1, k2}
  MaxPlans = 2
  MaxAsks = 3
  MaxTurns = 1
  Ids = {i1}
  Actions = {a1}
  Workers = {w1}
  Subjects = {s1, s2}
  Admins = {s1}
  Evidence = {h1}
  LeaseTimes = {4}
  Lifetimes = {4}
  CredentialTTL = 4
  AuthTimes = {7}
  Reserve = 1
  CreateBudget = 1
  RemoteTimeout = 1
  PrepareWindow = 1
  PostWindow = 1
  Quantum = 2
  MinTTL = 1
  PreparedGrace = 1
  AnchorGrace = 1
  ClaimLease = 2
  RetryDelays = {1}
  MaxAttempts = 1
  MaxElapsed = 3
  MaxClaims = 2
  MaxEpoch = 1
  MaxTickets = 1
  MaxClock = 5
  MaxLag = 1
SPECIFICATION MCSpec
SYMMETRY MCSymmetry
INVARIANTS
  
  LedgerSafety
  ChildrenAccounted
PROPERTIES
  CredentialSteps
CHECK_DEADLOCK FALSE
