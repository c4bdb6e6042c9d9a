SPECIFICATION SesSpec
CONSTANTS
  c1 = c1
  c2 = c2
  k1 = k1
  k2 = k2
  k3 = k3
  k4 = k4
  x1 = x1
  x2 = x2
  x3 = x3
  Charger = {c1}
  V201 = {c1}
  Conn = {k1, k2}
  CpOf <- OneCharger
  Txn = {x1, x2}
  TxCp <- TxOneCharger
  NoTxn = NoTxn
  NoRow = NoRow
  NoConn = NoConn
  MaxRows = 2
  Modulus = 3
  MaxFailures = 0
SYMMETRY Slots
INVARIANT EndedFinalises
