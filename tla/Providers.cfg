SPECIFICATION MCSpec
CONSTANTS
  None = None
  Stock <- MCStock
  Shelves <- MCShelves
  MaxPulls = 6
  MaxSnapshots = 2
  Hosts = {h1, h2}
  Machines = {m1}
  MaxPageItems = 2
  MaxChanges = 3
  MaxCalls = 2
  Roots = {r1, r2}
  Foreign = {f}
  MaxProbes = 3
  Addresses = {1, 2, 3, 4}
  Denied = {4}
  Bundles <- MCBundles
  Tasks <- MCTasks
  Starts <- MCStarts
  Replies <- MCReplies
  Callers = {1, 2}
  MaxAnswers = 2
  MaxItems = 2
  Keys = {k1}
  MaxWindow = 3
  MaxTTL = 2
  MaxAWXHosts = 2
  Contents <- MCContents
  Subjects = {"r1", "r2", "a1", "a2", "b"}
  PersonOf <- MCPersonOf
  FirstFacts <- MCFirst
  OtherFacts <- MCOther
  OtherPeople <- MCPeople
  OtherRecords <- MCRecords
  Permitted <- MCPermitted
  PolicyVersion = 1
  MaxSafetySnapshotAge = 0
  MaxTargetSnapshotAge = 1
  maxClockSkew = 0
  MaxTime = 2
  MaxPolicyChanges = 1
  MaxDecisions = 2
  MaxEvaluations = 1
INVARIANTS
  SourcesSafety
  ReadingSafety
  AllowSafety
PROPERTY PlaceNeverFalls
CHECK_DEADLOCK FALSE
