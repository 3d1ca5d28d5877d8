SPECIFICATION Spec
CONSTANTS
  a = a
  b = b
  c = c
  NoImage = NoImage
  Blank = Blank
  Torn = Torn
  Image <- ThreeImages
  Size <- ThreeSizes
  NSectors = 5
  SectorPages = 2
  CloneStart = 4
  InitialFlash <- LongBoards
  Uploads <- AllUploads
  MaxCommands = 1
  MaxMishaps = 0
INVARIANT
  CloneAfterApp
CHECK_DEADLOCK FALSE
