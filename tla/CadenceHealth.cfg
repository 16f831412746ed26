SPECIFICATION MCSpec
CONSTANTS
  w1 = w1
  w2 = w2
  Jobs = {"health"}
  Items = {1, 2}
  Fickle = {}
  Workers = {w1, w2}
  Cooldown = 1
  MaxRun = 1
  MaxNow = 2
  MaxRuns = 3
  Never = Never
  None = None
CHECK_DEADLOCK FALSE
PROPERTIES
  ImplementsHealthGate
  RunsEnd
