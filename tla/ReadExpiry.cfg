SPECIFICATION MCSpec
CONSTANTS
  LabelKeys = {1, 2, 3}
  LabelValues = {"x", "y"}
  NoPlan = NoPlan
  Signals <- MCSignals
  Fact <- MCFact
  Manifests <- MCManifests
  MaxTries <- MCMaxTries
  FeedbackKeys = {"k1", "k2"}
  None = None
  Runners = {r1}
  MaxTasks = 1
  MaxRounds <- MCMaxRounds
  MaxConcurrency = 1
  MaxBeats <- NoBeats
  Outcomes = {"EVIDENCE"}
  Parts = {"tasks"}
PROPERTIES LapsedAttemptExpires
CHECK_DEADLOCK FALSE
