SPECIFICATION SocketsSpec
CONSTANTS
  c1 = c1
  k1 = k1
  k2 = k2
  Charger = {c1}
  Conn = {k1, k2}
  CpOf <- OneCharger
  NoConn = NoConn
  Kinds <- AllKinds
  Timeout = 1
  MaxFaults = 1

  f1 = f1
  f2 = f2
  s1 = s1
  s2 = s2
  s3 = s3
  oA = oA
  oB = oB
  Feed = {f1, f2}
  Socket = {s1, s2, s3}
  Org = {oA, oB}
  FeedOrg <- FeedOwner
  SocketOrg <- SocketOwner
  NoSocket = NoSocket
  FeedCount = 1
  MaxEntries <- FeedLengths
  MaxOutages = 0
SYMMETRY SameSocket
INVARIANTS TypeOK RegistryIsLive UpHasATask AnnouncedIsMarked
INVARIANTS FeedTypeOK HearsEachOnce
PROPERTY SilenceAnnouncedOnce
CHECK_DEADLOCK FALSE
