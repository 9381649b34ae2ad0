SPECIFICATION Spec
CONSTANTS
  SpdNames = {a, b}
  SadNames = {a, b}
  MaxEdits = 2
  MaxCommits = 2
  Mixed = TRUE
  ToFirst = FALSE
INVARIANTS
  SpdHoldsSpd
CHECK_DEADLOCK FALSE
