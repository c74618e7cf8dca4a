\* Three transactions, every kind of har processor, an upload that fails, and
\* Stop at any moment.
SPECIFICATION HarSpec
CONSTANTS
  NumTransactions = 3
  ChannelBuffer = 1
  AppId <- ThreeTransactions
  Settings <- SomeSettings
  Keys <- TwoKeys
  MaxNumOfEntries = 1
  MaxFailures = 1
  Unanswered = {2}
  Big = {1, 3}
  SampleRate = 1
INVARIANTS HarTypeOK ConservedInOrder SeesItsApp EntriesNotEmpty HeldOrStored
  HolderBounded HarsKept  IntervalsHold
PROPERTIES StopReturns ExportedEventually
CHECK_DEADLOCK FALSE
