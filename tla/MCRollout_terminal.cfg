SPECIFICATION Spec
CONSTANTS
  Versions = {v1, v2}
  NoVersion = NoVersion
  MemoryBackend = FALSE
  Rollouts = {r1}
  Operators = {op1}
  Ticker = ticker
  StageCount = 1
  Cooldown = 1
  Grace = 1
  MaxTime = 1
  MaxFaults = 0
  ConfigMayFail = FALSE
  ConfigAdmin = FALSE
  Serial = FALSE
CHECK_DEADLOCK FALSE
PROPERTIES
  TerminalIsFinal
