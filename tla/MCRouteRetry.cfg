SPECIFICATION Spec
CONSTANTS
  NoPage = NoPage
  NoRoute = NoRoute
  NTablePages = 3
  Slots = 2
  Bits = {1, 2}
  PacketEntries = 2
  OldTables <- Blanks
  WantedTables <- Wanteds
  MaxMishaps = 1
INVARIANT
  RetryRecovers
CHECK_DEADLOCK FALSE
