SPECIFICATION Spec
CONSTANTS
  Requests = {r1, r2}
  MaxPeriods = 2
  Unborn = Unborn
  None = None
CHECK_DEADLOCK FALSE
INVARIANT
  StagesOfOneWrite
