SPECIFICATION BusSpec
CONSTANTS
  Publishers = {p1}
  Subscribers = {s1}
  MaxQueue = 1
  MaxEvents = 1
CHECK_DEADLOCK FALSE
PROPERTIES
  ShutdownReturns
