\* Two pairs of endpoints, used twice or side by side.
SPECIFICATION Spec
CONSTANTS
  k1 = k1
  k2 = k2
  Keys = {k1, k2}
  MaxIncarnations = 2
  MaxConnections = 3
  ResponseTimeout = 1
  Traffics <- ThreeTraffics
INVARIANTS TypeOK FinishedIffGone OneIncarnation
PROPERTIES EndedIsForgotten
CHECK_DEADLOCK FALSE
