\* Every channel holds one element; the signal comes at any moment.
SPECIFICATION Spec
CONSTANTS
  Lines <- Printed
  Record <- SixRecords
  ChannelBuffer = 1
  Settings <- OneProcessor
INVARIANT RecordsIntact
PROPERTIES Terminates ReadIsExported
CHECK_DEADLOCK FALSE
