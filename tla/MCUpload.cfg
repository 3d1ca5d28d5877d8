SPECIFICATION UploadSpec
CONSTANTS
  a = a
  b = b
  NoImage = NoImage
  Blank = Blank
  Torn = Torn
  Image <- Images
  Size <- Sizes
  NSectors = 2
  SectorPages = 2
  CloneStart = 2
  InitialFlash <- Boards
  Uploads <- Pages
  MaxCommands = 20
  MaxMishaps = 1
  MaxLosses = 1
  LatchTries = 3
  PingTries = 2
  ChecksumTries = 2
  MaxSessions = 2
INVARIANTS
  FailsForCause
PROPERTIES
  Installs
  HeaderLast
CHECK_DEADLOCK FALSE
