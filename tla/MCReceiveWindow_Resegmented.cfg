\* Any segmentation, everything captured before it is acknowledged.
CONSTANTS
  HalfModulus = 16
  SeqWindow = 3
  Isn = 5
  MaxBytes = 4
  Captures <- RecutCapture
  InitialSize = 1
SPECIFICATION Spec
INVARIANT CompleteAlways
