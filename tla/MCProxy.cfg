SPECIFICATION Spec
CONSTANTS
  r1 = r1
  r2 = r2
  r3 = r3
  hot = hot
  Requests = {r1, r2, r3}
  Providers = {pA}
  None = None
  Prompts = {hot}
  PromptOf <- MCPromptOf
  Capacity = 2
  LimiterCapacity = 1
  MaxRetries = 1
  HalfOpenMaxReqs = 1
  UpstreamTimeout = 120
  RequestTimeout = 300
INVARIANTS
  SlotsBalance
  LoggedOnce
  CacheHoldsFullAnswers
PROPERTIES
  NoRetryAfterStream
  AnyRequestEnds
  ImplementsBreakerSpec
