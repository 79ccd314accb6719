SPECIFICATION TrafficSpec
CONSTANTS
  r1 = r1
  r2 = r2
  code = code
  chat = chat
  pA = pA
  pB = pB
  t1 = t1
  t2 = t2
  sys = sys
  i1 = i1
  i2 = i2
  i3 = i3
  h1 = h1
  h2 = h2
  Requests = {r1, r2}
  Prompts = {code, chat}
  PromptOf <- MCPromptOf
  Key <- MCKey
  Providers = {pA, pB}
  Matches <- MCMatches
  Default = pA
  Builtin = pA
  Configured = {pA}
  Global = Global
  None = None
  Scripts = {"allow", "bucket", "store"}
  Full = 3
  Cost = 2
  Skew = 2
  Slack = 1
  Faulty = {r1}
  MaxRetries = 1
  MaxTime = 4
  LimiterTime = 17
  MaxBack = 6
  Lines <- MCLines
  Streams <- MCStreams
  Absent <- MCAbsent
  Names = {"whole", "part", "none"}
  Exactly <- MCExactly
  Containing <- MCContaining
  Length = 2
  Kinds = {"claude", "google", "baidu", "glm"}
  Bodies <- MCBodies
  Words = {t1, t2, sys}
  Configs <- MCConfigs
  Defaults <- MCDefaults
  Deadlines = {None, 3, 7}
  Timeouts = {2, 5}
  Instances = {i1, i2, i3}
  MaxChanges = 3
  Replicas = {i1, i2}
  MaxStarts = 3
  MaxFaults = 2
  Window = 4
  Second = 2
  MaxRate = 2
  Random = {1, 2}
  WindowTime = 7
  MaxRequests = 5
  Similarity <- MCSimilarity
  Threshold = 1
  MaxEntries = 2
  Ttl = 1
  Handlers = {h1, h2}
  MaxStores = 4
  MaxLookups = 1
  CacheTime = 2
INVARIANTS
  TypesOK
  LimiterBound
  UpstreamBound
  UsageAnyChunking
  WholeOrError
  ConversationIsKept
  AgreeWhenQuiet
  WithinBudget
  WindowBound
  EvictionUnseen
PROPERTY ListFollowsInstances
CHECK_DEADLOCK FALSE
