SPECIFICATION MCSpec
CONSTANTS
  LabelKeys = {1, 2, 3}
  LabelValues = {"x", "y"}
  NoPlan = NoPlan
  Signals <- MCSignals
  Fact <- MCFact
  Manifests <- MCManifests
  MaxTries <- MCMaxTries
  FeedbackKeys = {"k1", "k2"}
  None = None
  Runners = {r1}
  MaxTasks = 2
  MaxRounds <- MCMaxRounds
  MaxConcurrency = 1
  MaxBeats <- MCMaxBeats
  Outcomes = {"EVIDENCE", "FAILED"}
  Parts = {"workflows", "tasks"}
INVARIANTS
  ReadTaskSafety
  CorrelationSafety
PROPERTIES
  HistoryStands
  TasksEnd
CHECK_DEADLOCK FALSE
