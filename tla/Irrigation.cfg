SPECIFICATION Spec
CONSTANTS
  w1 = w1
  w2 = w2
  z1 = z1
  Always = Always
  Programs = {1}
  Zones = {z1}
  Workers = {w1, w2}
  Day = 4
  Window = 1
  Period = 1
  Starts = {1, 3}
  WeekdaySets <- MCTwoSets
  Anyday = Always
  DispatchEnabled = TRUE
  MaxNow = 5
  MaxEdits = 2
  MaxCrashes = 1
  None = None
CHECK_DEADLOCK FALSE
SYMMETRY Symmetry
INVARIANTS
  OncePerStart
PROPERTY
  DueIsServed
