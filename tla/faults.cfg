SPECIFICATION FairSpec
CONSTANTS
  x = x
  y = y
  p = p
  q = q
  h1 = h1
  h2 = h2
  gw = gw
  s1 = s1
  s2 = s2
  ABSENT = ABSENT
  SpiHalf = 4
  ULongMod = 64
  SadNames = {x, y}
  SpdNames = {}
  SadCfgsOf <- SharedSas
  SpdCfgsOf <- NoPolicies
  Addrs = {h1, h2}
  Spis = {1}
  Selectors = {s1, s2}
  ForeignIds = {}
  Edits = {"create", "delete", "modify"}
  MayHappen = {"reject", "notif", "request", "drop", "early", "noise", "stop", "late"}
  MaxOps = 2
  MaxCommits = 2
  MaxStarts = 2
  MaxNodes = 6
  QueueMax = 1
INVARIANTS
  TypeOK
  SaHasNode
  SadTracksRunning
PROPERTIES
  CommitsEnd
CHECK_DEADLOCK FALSE
