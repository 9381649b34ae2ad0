SPECIFICATION Spec
CONSTANTS
  x = x
  y = y
  p = p
  q = q
  h1 = h1
  h2 = h2
  gw = gw
  s1 = s1
  s2 = s2
  ABSENT = ABSENT
  SpiHalf = 4
  ULongMod = 64
  SadNames = {}
  SpdNames = {p, q}
  SadCfgsOf <- NoSas
  SpdCfgsOf <- DistinctPolicies
  Addrs = {h1, h2}
  Spis = {1, 2}
  Selectors = {s1, s2}
  ForeignIds <- Foreign
  Edits = {"create", "delete", "modify"}
  MayHappen = {"stop", "late"}
  MaxOps = 2
  MaxCommits = 4
  MaxStarts = 2
  MaxNodes = 6
  QueueMax = 1
INVARIANTS
  SpdNamesUnique
  SpdInstalled
  PolicyHasNode
  SpdTracksRunning
CHECK_DEADLOCK FALSE
