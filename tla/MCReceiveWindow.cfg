\* A ring of one slot that doubles up to eight; captures that miss nothing, of
\* segments sent as they were cut or overlapping, and any segmentation,
\* reordering, loss and retransmission.
CONSTANTS
  HalfModulus = 16
  SeqWindow = 3
  Isn = 5
  MaxBytes = 6
  Captures <- AnyCapture
  InitialSize = 1
SPECIFICATION Spec
INVARIANTS TypeOK InOrder Complete
PROPERTY ImplementsPacketWindow
