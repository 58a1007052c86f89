SPECIFICATION Spec
CONSTANTS
  MaxLog = 3
  MaxTime = 4
  Cap = 2
  Clients = {c1, c2}
  PoolSize = 2
  MaxOutages = 1
  Versions = {1, 2, 3}
  MaxCalls = 3
CHECK_DEADLOCK FALSE
INVARIANTS
  EachConnectionOnce
PROPERTIES
  
  EveryCallAnswered
