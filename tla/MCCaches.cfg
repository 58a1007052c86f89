SPECIFICATION CachesSpec
CONSTANTS
  Threads = {t1, t2}
  Prompts = {1, 2, 4}
  Models = {"m"}
  Tenants = {"a", "b"}
  Conversations = {"c"}
  MaxEntries = 2
  MaxPartitions = 1
  EvictInterval = 3
  WindowSize = 2
  MaxPuts = 3
  MaxRestarts = 1
  StoreKeys = {k1, k2, k3}
  Values = {"v1", "v2"}
  Ttls = {0, 1}
  MaxSize = 2
  MaxClock = 3
  MaxOps = 4
  Entries <- MCEntries
  Allowlists <- MCAllowlists
  MaxTokens = 2
  RefillRate = 1
  PruneIdle = 0
  PruneOps = 2
  MaxBuckets = 1
  AbuseWindow = 1
  WarnAt = 1
  ThrottleAt = 2
  BlockAt = 2
  BlockFor = 3
  MaxKeys = 1
  MaxPrints = 1
  Nodes = {"n1", "n2"}
  Keys = {"k1", "k2"}
  Modalities = {"image"}
  Users = {"k1"}
  Contents = {"x"}
  Quota <- MCQuota
  BucketTtl = 2
  FailureThreshold = 2
  ResetTimeout = 1
  HalfOpenMax = 1
  Costs = {1}
  Skews = {0}
  Parts = {"rate", "abuse", "breaker"}
  Faults = {TRUE, FALSE}
  MaxTime = 3
  MaxRejections = 2
CHECK_DEADLOCK FALSE
INVARIANTS
  HitAnswersPrompt
  BackendsAgree
  
  TokensBounded
  
