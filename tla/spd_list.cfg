SPECIFICATION Spec
CONSTANTS
  Chunks = {m1, m2, m3, m4}
  Names = {a, b, c}
  Sought = {}
  NULL = NULL
  Kinds = {"spd"}
  MaxSad = 0
  MaxSpd = 3
INVARIANTS
  Represents
CHECK_DEADLOCK FALSE
SYMMETRY Symmetry
