SPECIFICATION FairSpec
CONSTANTS
  x = x
  y = y
  p = p
  q = q
  h1 = h1
  h2 = h2
  gw = gw
  s1 = s1
  s2 = s2
  ABSENT = ABSENT
  SpiHalf = 4
  ULongMod = 64
  SadNames = {x, y}
  SpdNames = {}
  SadCfgsOf <- DistinctSas
  SpdCfgsOf <- NoPolicies
  Addrs = {h1, h2}
  Spis = {1, 2, 3}
  Selectors = {s1, s2}
  ForeignIds = {}
  Edits = {"create"}
  MayHappen = {"noise"}
  MaxOps = 2
  MaxCommits = 4
  MaxStarts = 1
  MaxNodes = 6
  QueueMax = 2
INVARIANTS
  ExpiredNodePending
  SadTracksRunning
  
PROPERTIES
  NotifiesTheExpired
  HardExpiryDeletes
CHECK_DEADLOCK FALSE
