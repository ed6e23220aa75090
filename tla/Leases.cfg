SPECIFICATION MCSpec
CONSTANTS
  None = None
  e1 = e1
  e2 = e2
  t1 = t1
  Executions = {e1, e2}
  Targets = {t1}
  Runners = {r1, r2}
  Results = {h1, h2}
  ReconciliationIds = {c1}
  Actors = {a1}
  Requests <- MCRequests
  Durations = {1}
  MaxClock = 3
  MaxLag = 1
  MaxTokens = 3
  MaxEpoch = 2
  Attempts = {1}
  Things <- MCThings
  Containment <- MCContainment
  RootOf <- MCRootOf
  RootThing <- MCRootThing
  Variants = 2
  PageItems = 1
  Nodes <- MCNodes
  NodeType <- MCNodeType
  Inventories <- MCInventories
  x1 = x1
  x2 = x2
  y1 = y1
  sx = sx
  sy = sy
  Objects = {x1, x2, y1}
  Sources = {sx, sy}
  SourceOf <- MCSourceOf
  Fingerprint <- MCFingerprint
  Edges <- MCEdges
  Sequenced <- MCSequenced
  Facts = {1}
  Gone = Gone
  Services = {svc}
  MaxRuns <- MCMaxRuns
  MaxRevision = 2
  MaxOrder <- MCMaxOrder
  MaxConflicts = 2
INVARIANTS
  TargetExclusive
  StartedOnce
  AckedResultKept
  StartedRunAccounted
  AuthoritySafety
  VcenterSafety
  InventorySafety
PROPERTIES
  ImplementsExclusiveRun
  ServiceFollowsProof
CHECK_DEADLOCK FALSE
