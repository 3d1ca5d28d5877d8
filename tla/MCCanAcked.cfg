SPECIFICATION Spec
CONSTANTS
  QueueSize = 1
  RingSize = 2
  FifoSize = 5
  MaxEvents = 3
INVARIANTS
  ConfirmedWasAcked
CHECK_DEADLOCK FALSE
