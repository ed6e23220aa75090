SPECIFICATION Spec
CONSTANTS
  Keys = {k1, k2, k3}
  MaxRevisions = 2
  MaxRuns = 3
  MaxPages = 2
  MaxEpoch = 2
  None = None
SYMMETRY KeySymmetry
INVARIANT SourceSafety
PROPERTY RunsEndClean
CHECK_DEADLOCK FALSE
