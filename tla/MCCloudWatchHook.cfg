\* Five events of two goroutines, batches of two events, small channel, a
\* call that fails, and streams of all kinds.
SPECIFICATION Spec
CONSTANTS
  Loggers = {l1, l2}
  LockedHooks = TRUE
  Size <- FiveSizes
  MaxBatchSize = 4
  MaxBatchLen = 2
  ChannelSize = 1
  MaxFailures = 1
INVARIANTS SentOnce NoneRefused
PROPERTIES WriteReturns StoredOrRefused
CHECK_DEADLOCK FALSE
