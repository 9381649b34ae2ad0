SPECIFICATION FairSpec
CONSTANTS
  Chunks = {m1, m2, m3, m4}
  Names = {a, b}
  Sought = {a}
  NULL = NULL
  Kinds = {"sad", "spd"}
  MaxSad = 3
  MaxSpd = 2
INVARIANTS
  TypeOK
  Represents
  ReaderOnLiveNode
  ReaderFinds
PROPERTIES
  WalksEnd
  ImplementsEntryList
CHECK_DEADLOCK FALSE
