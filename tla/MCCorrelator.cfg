\* Two streams, pipelined requests and losses allowed on both.
CONSTANTS
  s1 = s1
  s2 = s2
  Streams <- TwoStreams
  Pipelining = TRUE
  MaxRequests = 2
  ChannelBuffer = 2
  ResponseTimeout = 0
SPECIFICATION Spec
INVARIANTS TypeOK OnePlace AtMostOnce Accounted PairedWithOwnResponse
PROPERTIES EventuallyReported
CHECK_DEADLOCK FALSE
