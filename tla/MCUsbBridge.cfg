SPECIFICATION Spec
CONSTANTS
  nl = nl
  esc = esc
  fd = fd
  fc = fc
  pre = pre
  len = len
  x = x
  Byte = {nl, esc, fd, fc, pre, len, x}
  Newline = nl
  Escape = esc
  EscapedNewline = fd
  EscapedEscape = fc
  Preamble = {pre, esc}
  HeaderLength = {len}
  FrontSize = 2
  HeaderSize = 3
  MaxSize = 7
  RxbufSize = 8
  RingSize = 3
  Packet <- Packets
  LineSize = 16
  MaxPackets = 4
  MaxLosses = 2
INVARIANTS
  RingInOrder
  Resynchronises
CHECK_DEADLOCK FALSE
