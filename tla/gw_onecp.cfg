SPECIFICATION Spec
CONSTANTS
  c1 = c1
  k1 = k1
  k2 = k2
  Charger = {c1}
  Conn = {k1, k2}
  CpOf <- OneCharger
  NoConn = NoConn
  Kinds <- HeartbeatOnly
  Timeout = 1
  MaxFaults = 0
INVARIANT OneConnectionPerCP
