SPECIFICATION Spec
CONSTANTS
  c1 = c1
  c2 = c2
  r1 = r1
  r2 = r2
  Charger = {c1}
  Request = {r1}
  Target <- OneTarget
  Supported = {r1}
  NoRequest = NoRequest
  ReplyCount = 1
  Count = 1
  MaxFaults = 0
INVARIANT TimeoutMeansNoReply
