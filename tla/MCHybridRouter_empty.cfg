SPECIFICATION Spec
CONSTANTS
  hi = hi
  deploy = deploy
  review = review
  arch = arch
  debug = debug
  fast = fast
  slow = slow
  unknown = unknown
  Clients = {c1}
  Reloaders = {r1, r2}
  Prompts = {none, hi, review, deploy}
  EmptyPrompt = none
  Codes = {arch, debug}
  Providers = {fast, slow}
  Enabled = {fast}
  NoProvider = NoProvider
  DefaultProvider = slow
  Lists <- MCLists
  InitialList <- MCInitialList
  RuleProviders <- MCRuleProviders
  NamedProviders <- MCNamedProviders
  Score <- MCScore
  Threshold = 1
  Caches = {k1, k2, k3}
  NoCache = NoCache
  CacheLimit = 1
  Layers <- MCLayers
  MaxReloads = 2
INVARIANT MatchAlwaysAnswers
