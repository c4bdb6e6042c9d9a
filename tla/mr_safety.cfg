SPECIFICATION TablesSpec
CONSTANTS
  nightly = nightly
  manual = manual
  Trainer = {nightly, manual}
  Nightly = nightly
  Val = {1, 2}
  MaxRuns = 3
  MaxFaults = 1
  MaxDeletes = 1

  t1 = t1
  t2 = t2
  p1 = p1
  p2 = p2
  p3 = p3
  Tenant = {t1, t2}
  CpId = {p1, p2, p3}
  Quota <- OneEach
  NoTenant = NoTenant
  Call = {1, 2}
  Import <- TwoAtOnce

  a1 = a1
  a2 = a2
  j1 = j1
  j2 = j2
  User = {1, 2}
  Organisation = {1, 2}
  Email = {a1, a2}
  Job = {j1, j2}
  Absent = Absent

  c1 = c1
  c2 = c2
  k1 = k1
  k2 = k2
  k3 = k3
  k4 = k4
  x1 = x1
  x2 = x2
  x3 = x3
  Charger = {c1, c2}
  V201 = {c1}
  Conn = {k1, k2, k3, k4}
  CpOf <- TwoChargers
  Txn = {x1, x2, x3}
  TxCp <- TxTwoChargers
  NoTxn = NoTxn
  NoRow = NoRow
  NoConn = NoConn
  MaxRows = 3
  Modulus = 3
  MaxFailures = 1
INVARIANTS TypeOK ModelIsServed OneActive CacheIsRegistered BestIsServed
INVARIANTS QuotaKept EmailsApart InvitationOpensOnce
INVARIANTS SesTypeOK ClosedByItsOwn AnsweredEndedClosed AnsweredStopClosedOne
PROPERTIES KeepsLedger OwnerKeepsLogin
SYMMETRY Exchangeable
