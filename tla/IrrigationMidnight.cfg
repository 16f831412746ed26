SPECIFICATION Spec
CONSTANTS
  w1 = w1
  w2 = w2
  z1 = z1
  Always = Always
  Programs = {1}
  Zones = {z1}
  Workers = {w1}
  Day = 4
  Window = 1
  Period = 2
  Starts = {1, 3}
  WeekdaySets <- MCEveryDay
  Anyday = Always
  DispatchEnabled = FALSE
  MaxNow = 6
  MaxEdits = 2
  MaxCrashes = 0
  None = None
CHECK_DEADLOCK FALSE
PROPERTY
  StartsAreCaught
