SPECIFICATION MCSpec
CONSTANTS
  u1 = u1
  u2 = u2
  moisture = moisture
  salinity = salinity
  north = north
  south = south
  group = group
  Never = Never
  None = None
  Deleted = Deleted
  BadValue = "bad"
  Values = {"low", "high"}
  Alerts = {1, 2}
  Uplinks = {u1, u2}
  CrashProne = {u1}
  ZoneSensors <- Assignments
  Spacing <- OneTick
  Rules <- CrossSet
  InitialRules <- CrossInitial
  Edits <- CrossEdits
  Payload <- CrossPayload
  MaxNow = 1
  MaxAttempts = 2
  z1 = z1
  z2 = z2
  r1 = r1
  r2 = r2
  Calls = {"firing", "digest", "advice"}
  KindOf <- KindOfRecord
  MaxRestarts = 1
  Runners = {r1, r2}
  Plots = {z1, z2}
  MaxHour = 1
  MaxRuns = 3
  MaxErrors = 1
  EnvKey = TRUE
  MaxSaves = 2
  MaxSent = 1
  MAX_TOOL_ROUNDS = 2
  MaxCalls = 1
  MaxPresses = 1
  MaxMoves = 1
  Requests = {r1, r2}
  Outlines = {1, 2}
  MaxPages = 2
  MaxTokens = 2
  MaxEdits = 1
  MaxFaults = 1
CHECK_DEADLOCK FALSE
INVARIANTS
  WorkSurvivesItsRecord
  OncePerBucket
  KeyGoesToItsProvider
  AlertsOnOwnZone
  AuthForCause
  ShownAsDrawn
PROPERTIES
  HandlersFinish
