SPECIFICATION CacheSpec
CONSTANTS
  Threads = {t1}
  Prompts = {1, 4}
  Models = {"m"}
  Tenants = {"a"}
  Conversations = {"c"}
  MaxEntries = 2
  MaxPartitions = 1
  EvictInterval = 3
  WindowSize = 2
  MaxPuts = 3
  MaxRestarts = 1
INVARIANTS
  HitAnswersPromptAlways
CHECK_DEADLOCK FALSE
