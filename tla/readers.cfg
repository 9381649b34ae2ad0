SPECIFICATION MCSpec
CONSTANTS
  Half = 4
  ULongMod = 64
  Amounts = {1, 3}
  Protocols = {6, 256}
  Pointers = {4096, 65520}
  MaxOmitted = 2
  NamedAs = {"tunnel"}
INVARIANTS
  OwnField
  LifetimesTold
  SuitableKeyTaken
CHECK_DEADLOCK FALSE
