SPECIFICATION Spec
CONSTANTS
  a = a
  b = b
  c = c
  NoImage = NoImage
  Blank = Blank
  Torn = Torn
  Image <- TwoImages
  Size <- TwoSizes
  NSectors = 4
  SectorPages = 2
  CloneStart = 4
  InitialFlash <- Boards
  Uploads <- AllUploads
  MaxCommands = 2
  MaxMishaps = 2
INVARIANTS
  TypeOK
  RunningImageIntact
  UpdateSourceRetained
  LatchObeyedOnce
  CauseReported
PROPERTIES
  EraseKeepsHeader
  ReplyHonest
  FirmwareRuns
  UpdateInstalls
CHECK_DEADLOCK FALSE
