SPECIFICATION Spec
CONSTANTS
  ann = ann
  bob = bob
  sensor = sensor
  router = router
  tag = tag
  f1 = f1
  f2 = f2
  b1 = b1
  w1 = w1
  w2 = w2
  Lora = Lora
  None = None
  Farmers = {ann, bob}
  Serials = {sensor, router}
  Tags = {tag}
  Frames = {f1, f2, b1, w1, w2}
  Frame <- Arrivals
  Bursts <- Together
  FarmZone <- Farms
  InitialTables <- Starts
  MaxZones = 4
  MaxDevices = 2
  MaxEdits = 2
SYMMETRY Same
CHECK_DEADLOCK FALSE
INVARIANTS
  FeedsTheOwner
  RoutedAsAssigned
  LostForCause
