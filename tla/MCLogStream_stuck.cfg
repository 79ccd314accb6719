SPECIFICATION Spec
CONSTANTS
  Workers = {w1}
  MaxEntries = 2
  MaxLen = 1
  Count = 2
  ListCount = 1
  MaxFaults = 2
PROPERTY PendingIsDrained
CHECK_DEADLOCK FALSE
