SPECIFICATION ConsoleSpec
CONSTANTS
  top = top
  mid = mid
  leaf = leaf
  root = root
  u1 = u1
  k1 = k1
  k2 = k2
  k3 = k3
  ch = ch
  gpt = gpt
  None = None
  NoRow = NoRow
  Gone = Gone
  Handlers = {h1, h2}
  Codes = {top, mid, leaf}
  Bodies <- MCBodies
  Seed <- MCSeed
  MaxWrites = 2
  MaxCrashes = 1
  Users = {root, u1}
  Root = root
  Tokens = {k1, k2, k3}
  MaxTokens = 1
  MaxRequests = 3
  Ids = {ch}
  Models = {gpt}
  MaxRepeats = 2
  MaxOps = 3
  \* Counters are compared digit by digit: with base 2 a threshold of 2 is reached
  \* at the second count.
  Base = 2
  FailThreshold = 2
  RecoverThreshold = 2
  Cap = 2
  MaxFaults = 1
  Days = {1, 2, 3}
  MonthStart <- MCMonthStart
  MaxLogs = 2
INVARIANTS
  TypesOK
  UntouchedSubtreeGoes
  HiddenOnlyInCycles
  RolesWereGranted
  TokenLimit
  SequentialAgreement
  PartsWithinWholes
PROPERTIES
  DeleteEndsUnlessCyclic
  StatusFollowsUpstream
CHECK_DEADLOCK FALSE
