SPECIFICATION QuietSpec
CONSTANTS
  c1 = c1
  k1 = k1
  k2 = k2
  Charger = {c1}
  Conn = {k1, k2}
  CpOf <- OneCharger
  NoConn = NoConn
  Kinds <- HeartbeatOrOther
  Timeout = 1
  MaxFaults = 0
PROPERTY OnlyTheQuietAreMarked
