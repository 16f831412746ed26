SPECIFICATION MCSpec
CONSTANTS
  None = None
  z1 = z1
  z2 = z2
  u1 = u1
  u2 = u2
  a1 = a1
  a2 = a2
  a3 = a3
  a4 = a4
  a5 = a5
  r1 = r1
  r2 = r2
  q1 = q1
  q2 = q2
  Unborn = Unborn
  z9 = z9
  z3 = z3
  d1 = d1
  d2 = d2
  d9 = d9
  s1 = s1
  n1 = n1
  g1 = g1
  l1 = l1
  t1 = t1
  t2 = t2
  p1 = p1
  p2 = p2
  c1 = c1
  prefs = prefs
  u3 = u3
  b1 = b1
  b2 = b2
  i1 = i1
  k1 = k1
  k2 = k2
  llm = llm
  m1 = m1
  h1 = h1
  h2 = h2
  ann = ann
  bob = bob
  cat = cat
  x1 = x1
  x2 = x2
  boss = boss
  tec = tec
  tec2 = tec2
  v1 = v1
  v2 = v2
  v3 = v3
  v4 = v4
  v5 = v5
  v6 = v6
  v7 = v7
  v8 = v8
  v9 = v9
  All = All
  Nowhere = Nowhere
  Zones = {z1, z2}
  Customers = {u2}
  Owner <- Owned
  Affs = {a1, a2, a3, a4, a5}
  Requester <- Askers
  Changes <- Asked
  Patches <- Staff
  Initial <- Loaded
  Replacers = {q1, q2}
  MaxPeriods = 2
  Processes = {"fast"}
  OldTables = {"device", "sector", "zone.sector_id"}
  MadeWith <- WithColumns
  HeldBack <- Migrations
  MaxAsking = 2
  MaxMisses = 1
  MaxRestarts = 1
  Others = {z9, d9}
  Kinds <- RowKinds
  TheGrant = t1
  Caller <- Callers
  Logins = {boss, tec2}
  MaxEvents = 2
  Users = {ann, bob, cat, x1, x2}
  Requests = {r1, r2}
  JobSet <- AllAccountJobs
  Texts <- Strings
  Lower <- LowerCase
  InitialAccounts <- AccountRows
  InitialTokens <- SignedIn
  AccessLife = 2
  RefreshLife = 3
  ViewLife = 1
  _LOGIN_LOCKOUT_LIMIT = 2
  _LOGIN_LOCKOUT_TIMEOUT_S = 1
  MaxNow = 3
  MaxServed = 3
SYMMETRY Alike
CHECK_DEADLOCK FALSE
INVARIANTS
  SerialUnlessKnown
  AdminRemains
  SignedInSince
  AnswersAreRegular
  FailsForCause
PROPERTIES
  ApprovedIsApplied
  ReplacedUnlessRaced
  RevokedStaysRevoked
