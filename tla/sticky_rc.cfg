SPECIFICATION FairSpec
CONSTANTS
  x = x
  y = y
  p = p
  q = q
  h1 = h1
  h2 = h2
  gw = gw
  s1 = s1
  s2 = s2
  ABSENT = ABSENT
  SpiHalf = 4
  ULongMod = 64
  SadNames = {x, y}
  SpdNames = {}
  SadCfgsOf <- PlainSas
  SpdCfgsOf <- NoPolicies
  Addrs = {h1, h2}
  Spis = {1, 2}
  Selectors = {s1, s2}
  ForeignIds = {}
  Edits = {"create"}
  MayHappen = {"notif"}
  MaxOps = 1
  MaxCommits = 2
  MaxStarts = 1
  MaxNodes = 6
  QueueMax = 2
PROPERTIES
  HardExpiryDeletes
CHECK_DEADLOCK FALSE
