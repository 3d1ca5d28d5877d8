SPECIFICATION Spec
CONSTANTS
  QueueSize = 2
  RingSize = 2
  FifoSize = 5
  MaxEvents = 3
INVARIANTS
  TypeOK
  ReceivedOnce
  NothingMissed
  RingFaithful
  ConfirmedInOrder
  NothingLeftQueued
PROPERTIES
  NeverSentAgain
CHECK_DEADLOCK FALSE
