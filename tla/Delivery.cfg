SPECIFICATION Spec
CONSTANTS
  a1 = a1
  a2 = a2
  r1 = r1
  w1 = w1
  Alerts = {a1, a2}
  Pushed <- AlertTasks
  Requests = {r1}
  Selected <- SelectPhones
  Workers = {w1}
  MaxCrashes = 1
  None = None
SYMMETRY Symmetry
CHECK_DEADLOCK FALSE
INVARIANTS
  AtMostOneMessage
  SilencedStaysSilent
  LogIsTruthful
