SPECIFICATION Spec
CONSTANTS
  u1 = u1
  u2 = u2
  moisture = moisture
  salinity = salinity
  north = north
  south = south
  group = group
  Never = Never
  None = None
  Deleted = Deleted
  BadValue = "bad"
  Values = {"low", "high"}
  Alerts = {1, 2}
  Uplinks = {u1, u2}
  CrashProne = {}
  ZoneSensors <- Assignments
  Spacing <- OneTick
  Rules <- DigestSet
  InitialRules <- DigestInitial
  Edits <- DigestEdits
  Payload <- BadPayload
  MaxNow = 1
  MaxAttempts = 2
CHECK_DEADLOCK FALSE
INVARIANTS
  OneEmailPerGrace
