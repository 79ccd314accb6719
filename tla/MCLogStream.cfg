SPECIFICATION Spec
CONSTANTS
  Workers = {w1, w2}
  MaxEntries = 2
  MaxLen = 1
  Count = 2
  ListCount = 1
  MaxFaults = 2
INVARIANTS
  AckedIsStored
PROPERTIES
  ImplementsLogSpec
CHECK_DEADLOCK FALSE
