SPECIFICATION Spec
CONSTANTS
  a = a
  c = c
  d = d
  Address = {a}
  Conn = {c, d}
  Port = {7}
  To <- ToAddress
  Script <- Lines
  QueueLen = 2
  MaxLine = 3
  MaxPackets = 1
  Paced = FALSE
  None = None
INVARIANTS
  LinesObeyed
CHECK_DEADLOCK FALSE
