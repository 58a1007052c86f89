SPECIFICATION RequestsSpec
CONSTANTS
  MaxTokens = 3
  RefillRate = 1
  PruneIdle = 1
  PruneOps = 2
  MaxBuckets = 2
  AbuseWindow = 1
  WarnAt = 1
  ThrottleAt = 1
  BlockAt = 2
  BlockFor = 1
  MaxKeys = 1
  MaxPrints = 0
  Threads = {"t1", "t2"}
  Tenants = {"a"}
  Limit = 1
  MaxCost = 1
  Providers = 2
  ShadowCap = 1
  Deployments <- AllDeployments
  RuleTenants = {"a"}
  Loaders = {"l1", "l2"}
  Requests = {"r1"}
  Versions = {1, 2}
  Kinds = {"block", "modify", "bad"}
  MaxActivations = 2
  Info <- MCInfo
  Connected <- MCConnected
  DefaultModel = "small"
  Weights <- MCWeights
  Alias <- MCAlias
  Clients = {t1, t2}
  Subscribers = {"acme", "zeta"}
  Stacks <- MCStacks
  Contexts <- MCContexts
  Whitelist <- MCWhitelist
  Fallbacks <- MCFallbacks
  Strategies <- MCStrategies
  Latencies = {50, 300}
  MaxRequests = 2
  MaxControls = 1
  first = first
  spare = spare
  unserved = unserved
  k1 = k1
  k2 = k2
  Models = {first, spare, unserved}
  Primaries = {first}
  Served = {first, spare}
  Chain <- MCChain
  Keys <- MCKeys
  Weight <- MCWeight
  NoKey = NoKey
  FailureThreshold = 1
  HalfOpenMaxCalls = 1
  MaxConsecutiveFailures = 1
  MaxAttempts = 2
  MaxInFlight = 1
  Calls = {c1, c2}
  Streaming = {c1}
CHECK_DEADLOCK FALSE
INVARIANTS
  GaugeBalanced
  
  
  StrictPick
  ProbesAccounted
PROPERTIES
  
  SingleSource
