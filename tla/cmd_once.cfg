SPECIFICATION StreamsSpec
CONSTANTS
  c1 = c1
  c2 = c2
  r1 = r1
  r2 = r2
  Charger = {c1}
  Request = {r1, r2}
  Target <- SameTarget
  Supported = {r1, r2}
  NoRequest = NoRequest
  ReplyCount = 1
  Count = 2
  MaxFaults = 1

  f1 = f1
  s1 = s1
  s2 = s2
  oA = oA
  Feed = {f1}
  Socket = {s1, s2}
  Org = {oA}
  FeedOrg <- FeedOwner
  SocketOrg <- SocketOwner
  NoSocket = NoSocket
  FeedCount = 1
  MaxEntries <- FeedLengths
  MaxOutages = 1
INVARIANTS TypeOK ErrorIsHonest AwaitedReplyIsReturned NothingLeftPending
INVARIANT NoneSkipped
PROPERTIES AtMostOnce EveryCommandIsReplied FeedGoesOn
CHECK_DEADLOCK FALSE
