SPECIFICATION Spec
CONSTANTS
  Keys = {k1}
  Callers = {c1, c2}
  Buckets = {b1, b2, b3}
  NoKey = NoKey
  NoBucket = NoBucket
  Capacity = 2
  FillInterval = 2
  TTL = 2
  MaxTime = 6
VIEW View
SYMMETRY Symmetry
INVARIANTS
  FlowBound
PROPERTIES
  BucketsKept
