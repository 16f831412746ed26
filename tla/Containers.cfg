SPECIFICATION MCSpec
CONSTANTS
  None = None
  Uplinks = {good, bad}
  Content <- Uplink
  Registry = {ph}
  Clients = {ann}
  Enabled = TRUE
  Window = 3
  MaxFaults = 2
  good = good
  bad = bad
  ph = ph
  salt = salt
  ann = ann
  Containers = {"web", "worker"}
  Web = "web"
  Waits <- WaitsFor
  Tables = {1, 2}
  AlembicHead = 2
  AtHead = AtHead
  MaxDeploys = 2
  Held <- Migrations
  MaxBoots = 2
  MaxFailures = 1
CHECK_DEADLOCK FALSE
INVARIANTS
  HealthFollowsConnection
  NoSilentLoss
  BootsMigrated
  VersionIsTruth
PROPERTIES
  EventuallyHandled
  EverythingComesUp
