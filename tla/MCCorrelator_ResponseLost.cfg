\* The README's promise when clients wait for their answers and the capture may
\* miss one.
CONSTANTS
  s1 = s1
  s2 = s2
  Streams <- TwoStreams
  Pipelining = FALSE
  MaxRequests = 2
  ChannelBuffer = 2
  ResponseTimeout = 1
SPECIFICATION Spec
INVARIANT AccountedAlways
CHECK_DEADLOCK FALSE
