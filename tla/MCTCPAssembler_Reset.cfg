\* Connections that end with a reset; nothing is lost.
SPECIFICATION Spec
CONSTANTS
  k1 = k1
  k2 = k2
  Keys = {k1, k2}
  MaxIncarnations = 2
  MaxConnections = 3
  ResponseTimeout = 1
  Traffics <- ResetTraffic
INVARIANT OneIncarnationAlways
CHECK_DEADLOCK FALSE
