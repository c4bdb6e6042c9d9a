SPECIFICATION FairSpec
CONSTANTS
  c1 = c1
  k1 = k1
  k2 = k2
  Charger = {c1}
  Conn = {k1, k2}
  CpOf <- OneCharger
  NoConn = NoConn
  Kinds <- HeartbeatOrOther
  Timeout = 2
  MaxFaults = 1
PROPERTIES SilenceIsAnnounced SteadyIsUp
