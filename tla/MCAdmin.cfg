SPECIFICATION Spec
CONSTANTS
  Workers = {w1, w2}
  MaxRequests <- MCMaxRequests
  MaxNow <- MCMaxNow
  MaxFaults = 1
  MaxConcurrent = 1
  MaxFailures = 2
  Window = 1
  Healers = {h1, h2}
  RuleFiles <- MCRuleFiles
  RunbookDirs <- MCRunbookDirs
  AlertRules <- MCAlertRules
  HistoryCap = 2
  Lookback = 2
  CostModels = {m1, m2}
  MinRequests = 1
  MinQuality = 0
  MaxLoss = 1
  DedupWindow = 2
  MaxAlerts = 3
  MaxHealClock = 3
  MaxInputs = 4
CHECK_DEADLOCK FALSE

  
PROPERTIES
  
  CooldownKept
