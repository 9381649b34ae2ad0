SPECIFICATION Spec
CONSTANTS
  x = x
  y = y
  p = p
  q = q
  h1 = h1
  h2 = h2
  gw = gw
  s1 = s1
  s2 = s2
  ABSENT = ABSENT
  SpiHalf = 4
  ULongMod = 64
  SadNames = {x}
  SpdNames = {}
  SadCfgsOf <- PlainSas1
  SpdCfgsOf <- NoPolicies
  Addrs = {h1, h2}
  Spis = {1, 2}
  Selectors = {s1, s2}
  ForeignIds = {}
  Edits = {"create", "delete"}
  MayHappen = {}
  MaxOps = 1
  MaxCommits = 2
  MaxStarts = 1
  MaxNodes = 6
  QueueMax = 2
INVARIANTS
  NodeThereForDelete
CHECK_DEADLOCK FALSE
