SPECIFICATION OpsSpec
CONSTANTS
  Versions = {v1}
  NoVersion = NoVersion
  MemoryBackend = TRUE
  Rollouts = {r1, r2}
  Operators = {op1, op2}
  Ticker = ticker
  StageCount = 1
  Cooldown = 1
  Grace = 1
  MaxTime = 1
  MaxFaults = 0
  ConfigMayFail = TRUE
  ConfigAdmin = TRUE
  Serial = FALSE
  a1 = a1
  a2 = a2
  p1 = p1
  p2 = p2
  Admins = {a1, a2}
  Ids = {p1, p2}
  Workloads <- MCWorkloads
  Targets <- MCTargets
  MaxFailures = 1
  RunIds = {"r1", "r2"}
  Nodes = {"a"}
  Attempts = {1, 2}
  RunStatuses = {"Running", "Succeeded"}
  NodeStatuses = {"Running", "Failed"}
  MaxRowClock = 2
  Consoles <- MCConsoles
  Super = {"root"}
  TenantOf <- MCTenantOf
  Streams = {"s1"}
  Level <- MCLevel
  LogThreads = {g1}
  Entries <- MCEntries
  MaxLogs = 1
  MaxPushes = 1
SYMMETRY Symm
CHECK_DEADLOCK FALSE
INVARIANTS
  OneActivePerTarget
  CompletedWasActivated
  CacheMirrorsStore
  AppliedOnce
  StoresAgree
  HeardWhileConnected
