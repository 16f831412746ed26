SPECIFICATION MCSpec
CONSTANTS
  w1 = w1
  w2 = w2
  LegacyJobs = {"health", "proactive", "periodic", "idle", "program", "alert"}
  Window = 1
  MaxLegacyRuns = 3
  MaxDeaths = 1
  Jobs = {"proactive", "periodic", "idle"}
  Items = {1}
  Fickle = {1}
  Workers = {w1, w2}
  Cooldown = 1
  MaxRun = 1
  MaxNow = 2
  MaxRuns = 2
  Never = Never
  None = None
CHECK_DEADLOCK FALSE
SYMMETRY Symmetry
INVARIANTS
  DuplicatesOnlyWhenUnsure
  SilencedWasMailed
  OneWorkersClaimCounts
  StampsMeanSomething
