SPECIFICATION Spec
CONSTANTS
  Callers = {c1, c2, c3}
  BucketCount = 3
  BucketDuration = 1
  OpenTimeout = 4
  HalfOpenMaxReqs = 2
  ThresholdNum = 1
  ThresholdDen = 2
  MaxRecorded = 5
INVARIANTS
  HalfOpenSound
PROPERTIES
  QuietWindowForgives
  OpenEventuallyProbes
  ImplementsBreakerSpec
