SPECIFICATION FairSpec
CONSTANTS
  SpdNames = {a, b}
  SadNames = {a, b}
  MaxEdits = 2
  MaxCommits = 3
  Mixed = FALSE
  ToFirst = TRUE
INVARIANTS
  TypeOK
PROPERTIES
  ImplementsEntryWise
  CommitEnds
CHECK_DEADLOCK FALSE
