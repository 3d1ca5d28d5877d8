SPECIFICATION Spec
CONSTANTS
  p = p
  q = q
  Node = {p, q}
  FramesOf <- Frames
  Bits = {1, 2}
  End <- Both
  Error <- Flagged
  NoFrame = NoFrame
  MinLength = 3
  RingSize = 3
  TxFifoSize = 2
  TxLevel = 0
  RxFifoSize = 3
  MaxSends = 2
INVARIANTS
  SuccessWasHeard
  UndisturbedSucceeds
  NothingSpliced
  SendNeverStuck
CHECK_DEADLOCK FALSE
