SPECIFICATION Spec
CONSTANTS
  MaxCalls = 6
  TicksEnd = TRUE
  Publishers = {p1, p2}
  Subscribers = {s1}
  MaxQueue = 2
  MaxEvents = 2
  Loggers = {l1, l2}
  Flushers = {f1}
  Main = main
  MaxPending = 1
  BatchSize = 1
  MaxEntries = 2
  MaxFlushes = 2
  MaxFaults = 1
  Requests <- MCRequests
  Streaming = {"stream"}
  Body <- MCBody
CHECK_DEADLOCK FALSE
INVARIANTS
  QuietAtExit
  BusAccounted
  FlushMeansDelivered
  FlushMeansPersisted
  PersistedByClose
  AnsweredOnce
PROPERTIES
  ShutdownEnds
  RequestsAnswered
