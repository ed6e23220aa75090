SPECIFICATION GatewaySpec
CONSTANTS
  Actions = {a1, a2}
  Holders = {r1, r2}
  Epochs <- TwoIfStarted
  Starters = {a1}
  Beats = 1
  Claims = 2
  Persons = {p1, p2, p3}
  Admins = {p1}
  Evidence = {"e1"}
  Changes = 1
  None = None
INVARIANT CredentialSafety
PROPERTY ResultStands
CHECK_DEADLOCK FALSE
SYMMETRY Alike
