SPECIFICATION BurstSpec
CONSTANTS
  u1 = u1
  u2 = u2
  moisture = moisture
  salinity = salinity
  north = north
  south = south
  group = group
  Never = Never
  None = None
  Deleted = Deleted
  BadValue = "bad"
  Values = {"low", "high"}
  Alerts = {1, 2}
  Uplinks = {u1, u2}
  CrashProne = {u1, u2}
  ZoneSensors <- Assignments
  Spacing <- OneTick
  Rules <- DigestSet
  InitialRules <- DigestInitial
  Edits <- DigestEdits
  Payload <- BurstPayload
  MaxNow = 2
  MaxAttempts = 2
CHECK_DEADLOCK FALSE
INVARIANTS
  TypeOK
  CadenceRespected
  DuplicatesOnlyAfterRollback
  CommittedFiringPushed
PROPERTIES
  ImplementsGraceGate
