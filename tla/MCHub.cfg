SPECIFICATION Spec
CONSTANTS
  a = a
  c = c
  d = d
  Address = {a}
  Conn = {c, d}
  Port = {7}
  To <- ToAddress
  Script <- Lines
  QueueLen = 2
  MaxLine = 3
  MaxPackets = 2
  Paced = TRUE
  None = None
INVARIANTS
  QueueOfALiveSession
  OwnerKeepsAddress
  TakeOverIsFinal
  LinesObeyed
PROPERTIES
  HungUpEnds
  TakenOverEnds
CHECK_DEADLOCK FALSE
